# A TLA+ verification project for relay_proxy

relay_proxy is a proxy in front of trading back ends. Clients send a text or a
binary request over TCP; the relay checks it (client address, branch, function
number, request rate), picks the *site* of `CoreServer.conf` that serves its
function number and core, sends it on a pooled back-end connection (an *api*)
and returns the answer. Errors are counted per switch key, and too many of them
move a whole server, with all its branches, to the next IDC of its switch list.

File names below are relative to `src/`; the files are encoded in GBK.

## Inventory

Threads: one *accept* thread (an event thread with its own epoll set), N
*process* threads (the same, each fed by a pipe from the accept thread), one
`RelayMgrCommand` thread (its `process()` returns at once), and the main
thread, which waits for them and runs the SIGHUP handler.

| Component | State | Operations |
|---|---|---|
| Connection pools and IDC switching (`api/api_pool.*`, `api/api_base.*`, `src/hasite_conf.*`) | per site two vectors of apis and which of them is current, `_pool_size`, `_need_switch`, `_switch_state`; per api `_is_used`, `_fd`, the packet pointers; per server `current_idc` | `get`, `set_free`, `set_used`, `set_switch_on`, `get_next_idc`, `set_current_idc`, `reload` |
| Back-end connections (`api/middle_api.*`, `api/relay_api.*`, `api/trpc_package.*`) | connect/login/send/receive status, buffers, offsets | `process`, `_init`, `_send`, `_recv`, `decode` |
| Request dispatching (`src/relay_server.*`, `src/client_socket.*`) | client sockets indexed by descriptor, their status, owner thread and sequence number; the pipes; the round-robin index | accept, choose a thread, dispatch, service, write the error, `fini` |
| Event loop (`sys/event_*.cpp`, `sys/epoll_monitor.cpp`) | the event queue ordered by descriptor and the epoll set | add, delete, update, reset, one round of the monitor |
| Switch statistics (`src/switch_mgr.*`, `src/switch_key_stats.h`) | per key a window of counters, `to_be_switched_` | count a request, count an error, decide, reset |
| Request limits (`src/frequency_control.*`, `src/time_count_policy.*`, `src/service_*control*`) | call counters with a window start | check |
| Access control (`src/access_control.*`, `src/service_authorize_access.*`) | tables of addresses and branches | check, reload |
| Configuration and reload (`sys/trpc_config.*`, `src/core_server_conf.*`, ...) | the tables, each under a read/write lock | read, clear, re-init |
| Start, stop, signals (`src/main.cpp`, `src/relay_mgr_command.*`) | the thread objects | init, fini |
| Error code and detail tables | look-up tables | find |
| Logging (`sys/log.*`) | the files of a log, the open stream, the line count, the mutex | write a line, rotate, delete |
| Strings, packets (`base/*`, `api/trpc_package.*`) | — | split, parse and pack parameters, encode an answer |

How they interact: an epoll handler of a process thread calls
`_process_dispatch` or `_thread_dispatch`, which drives a client socket; a
complete request takes an api of the pool of its site and registers the api's
descriptor with the same thread's epoll set; `_service_handler` drives the api
and hands the answer to the client socket. Workers meet in the pools (a write
lock per pool, but apis are given back without it), in the current IDC of a
server (a lock of its own), in the client socket map, in the statistics and
limits, and in the configuration tables the main thread reloads.

What is hard, and what makes each component correct:

* *Pools.* An api is given back without a lock while another worker sweeps,
  scans or switches the pool. Correct: an api serves one call at a time, is lent
  without the packet or the pending answer of an earlier call, only for the IDC
  in force, and is deleted only when nobody has it; a switch that was asked for
  is served and ends; the hand-counted size is right.
* *Dispatching.* A client socket object is shared through its descriptor number,
  which the system reuses the moment it is closed; events and pipe messages may
  arrive for a socket that was closed meanwhile, which the sequence number is to
  reveal. Correct: a thread handles only its own client's events, a descriptor is
  closed once, and init finds a reset object.
* *Event loop.* The queue and the epoll set must list the same descriptors even
  when a registration fails, and the pointers of a batch must stay good while
  handlers delete and allocate events.
* *Back-end connections.* Packets arrive and leave in pieces, connect, login and
  call share one buffer and one event, and a middle connection is used again.
  Correct: every client gets the answer to its own request whole or an error, and
  the next call finds the api as if it had never been used.
* *Statistics and limits.* Windows and thresholds at their boundaries, counters
  updated by several workers (those of the limits under a read lock only), a
  decision that outlives a reload.
* *Access.* Tables are emptied in one lock section and read in another; nobody may
  pass a list that was never in force.
* *Reload.* Tables are emptied and read again one after the other while calls
  run, and an exception skips the rest; `re_init` takes its write lock twice.
* *Start, stop, logs.* `init` may throw at most of its steps, `fini` then runs
  twice, a SIGHUP may come at any moment, the process may be killed in the middle
  of a rotation. Any thread may end the process, and is then in `fini` while the others
  run. Correct: the files of a log stay in order and bounded, nothing is used that is
  not there (and where it is, it is known when), a process that serves has all it needs.

## Modules

| Module | What it is |
|---|---|
| `ApiLease` | abstract: apis lent to calls, retired by a switch, disposed of |
| `ApiPool` | the pools, the apis, the current IDC, the calls that use them, reload |
| `ApiPoolProps` | properties, the mapping to `ApiLease`, fairness |
| `MCApiPool` | instances for TLC |
| `ApiPoolProofs` | the type invariant, the inductive invariants of pools and leases, the refinement of `ApiLease`, proved |
| `ConnLife` | abstract: the life of a client connection |
| `RelayServer` | the accept thread, the pipes, the process threads, client sockets, event queues, epoll sets, and the descriptor table they share |
| `RelayServerProps` | properties, the mapping to `ConnLife`, fairness |
| `RelayServerProofs` | its safety properties and the refinement of `ConnLife`, proved |
| `MCRelayServer` | instances for TLC |
| `SwitchStats` | the counters of services and sites, the decision to switch, the reload of the tables they are read from |
| `SwitchStatsProps` | properties, fairness |
| `MCSwitchStats` | instances for TLC |
| `SwitchStatsProofs` | all its safety properties, proved |
| `EventSet` | abstract: what a loop promises to its handlers |
| `EventLoop` | the linked list, the epoll set, the batch, the handlers of one thread |
| `EventLoopProps`, `MCEventLoop` | properties, the mapping to `EventSet`; the instance for TLC |
| `EventLoopProofs` | all its safety properties, and that it implements `EventSet`, proved |
| `CallReply` | abstract: one reply to each client, its own |
| `Session` | client sockets, one api of either protocol and the streams between them |
| `SessionProps`, `MCSession` | properties, the mapping to `CallReply`; the instance for TLC |
| `SessionProofs` | all its safety properties, and that it implements `CallReply`, proved |
| `Admission` | the address list, the authorisation, the request types, the limits, the rules, and their reload |
| `AdmissionProps`, `MCAdmission` | properties; the instance for TLC |
| `AdmissionProofs` | all its safety properties, proved |
| `Text`, `Packet` | pure: splitting, numbers, URL parameters; the answer a client is sent |
| `SiteConf` | sites, IDCs, error texts and detail types, and their reload |
| `SiteConfProps`, `MCSiteConf` | properties; the instance for TLC |
| `SiteConfProofs` | the lock of the sites, the switches of IDC, the tables a reload leaves and what a client is told of them, proved |
| `Log` | the files of a log and their rotation |
| `Life` | `Log` with main, the threads, SIGHUP, kill and restart |
| `LifeProps`, `MCLife` | properties; the instance for TLC |
| `LifeProofs` | all its safety properties, proved |

How they compose: `Life` extends `Log`, and `SiteConf` extends `Packet` and `Text`.
The others meet in what one takes from the next as a choice: `RelayServer` takes
an api from a pool in one step that `ApiPool` has in full, and a packet for one
event that `Session` has in pieces over the event set that `EventLoop` implements;
`ApiPool` is told to switch by what `SwitchStats` decides; `Admission` stands
before the call that `RelayServer` makes; and the reload is cut into the tables each
module needs, in the order of `reload_conf`.

### ApiPool

A `Call` is one client socket being served by its worker, `pc` is where the
worker is with it. `CApiPool::get` holds the write lock of the pool, and its
parts are steps because `set_free` runs without that lock and the current IDC has
its own:

| Actions | Code |
|---|---|
| `Lock` | `get`, the write lock; the test of `_switch_state` |
| `Sweep`, `Check` | the two loops that clean the old vector up |
| `PickLastIdc`, `SwitchBusy`, `Swap`, `AdvanceIdc` | a switch was asked for: no next IDC; the last switch is not over; exchange the vectors; `set_current_idc` |
| `Pick` | the scan for a free api and `set_used` |
| `ReadIdc`, `Create`, `CreateThrows` | `_add_api`: limit, current IDC, node look-up, new api |
| `Send`, `Receive`, `Fail` | `_call_server`; the complete answer in `_service_dispatch`; any failure in `_service_handler` |
| `Reply`, `LookUpThrows`, `AddThrows`, `FreeAgain` | the rest of `_service_dispatch` after the api was given back (`src/relay_server.cpp:960`); its exceptions, from the look-ups of an answer with `result != 0` (`:967`, `:968`) and from `add_event` (`:979`); and the handler that frees the api once more (`:786`) |
| `WriteError`, `TrySwitch`, `SetSwitchOn` | `_write_error`; `try_service_switch`; `set_switch_on` |
| `ReloadClear`, `ReloadRead`, `ReloadHasite` | `reload_conf`: `request_type` is empty, is filled, every server is back at its first IDC |

`Api` stands for addresses: `new` may return an address that was deleted, so
pointers that outlive an object are visible. A store through a pointer to a
deleted object changes nothing (`Store`): `HeldIsUsed` says that only the call that frees
an api again, or a call whose api was freed under it, can make one.

The look-ups may throw from the first reload on: while it has emptied the tables, and ever
after if it leaves the request type or the site out. `torn` is a history variable: the
addresses that a call gave back a second time while the api was alive and in use, by another
call. The properties of an api are claimed of those that are not torn, which is to say that
the damage of a second release stays with that api; without a reload and with no failing
`add_event` nothing is torn (`NoneIsTorn`). `ApiLease` lets a torn api go (`Spoil`).

The scan for a free api is one step. Under the lock apis only turn from used to
free, never back, so a scan that misses an api freed behind it behaves as one
that ran just before the `set_free`. `Sweep` is one step by the same argument: an
api freed behind the sweep is as one freed after it. `Sweep` and `Check` are
two steps, because what happens between them matters: see "Seen while modelling".
`TrySwitch` may be taken whenever a call ends with an answer or an error and a
next IDC exists: the counters that decide it are left to the statistics
module. Whether `check_tcp_ok` finds a connection alive is a choice, also for
`_fd == -1`, where the code reads a `tcp_info` nobody filled in.

#### Runs

| Run | Instance | Shows |
|---|---|---|
| `pool_safety` | 3 calls, 1 site, 4 apis, limit 2, 2 IDCs, no reload, one failing `add_event` | `LeaseSafe`: an api that is not torn serves one call at a time, is used and alive, carries nothing of an earlier call; `LendsCurrentIdc`; `ImplementsLease` |
| `pool_reload` | 2 calls, 1 site, relay protocol, limit 1, 3 IDCs of which the second has no node, one reload, fair | `PoolInv`: the current vectors have no hole, dead api or duplicate, and the shape of the pools and `_pool_size` survive reloads and double releases; `SwitchesEnd`: a switch asked for is served, one begun ends |
| `pool_encode` | as `pool_safety`, one reload | violation of `EncodeAsserts`, finding 1 |

Why the bounds are enough: the clashes of a pool are between one worker in
`get`, one that gives an api back and one that has it or gets it next; three
calls give every such combination. A limit of two lets a vector hold a used
and a free api at once, and BUSY refusals occur as there are more calls than
places. Four addresses allow both vectors to be full. Two IDCs give one switch
and the "no next IDC" case, three give a second switch while the first is
draining. `Reloads` bounds SIGHUP; a second reload returns to states the
first one reached, but for `left`. `MaxFaults` bounds the `add_event`s that fail: one
makes one api be released twice, under a call that has it or not. Calls and apis are symmetric.

The states where `_need_switch` is set with all IDCs used, a switch is refused as
BUSY, and `_add_api` throws for want of a node are reached: the passing runs
together take every action.

`LendsCurrentIdc` is checked where each server has one pool. With two pools on a
server (`conf_bak/CoreServer.conf` has many) the first pool to switch moves
the server on while the other keeps lending the apis it has until it switches too,
which then moves the server to the IDC after; the code promises nothing else.
Nor does it across a reload, which returns servers to their first IDC and leaves
the pools as they are.

#### Fairness

`FairSpec` says that workers go on running their handlers (weak fairness of the
steps of `get`, of using the api and of ending a call, with an exception or without), that a worker waiting for
the pool lock gets it in the end, that the back end answers or the
connection fails, and that clients go on sending requests to the site, as only
`get` serves a switch (strong fairness of `Lock`, which others disable again and
again). The last but one is an assumption about the environment, not something the
code ensures: its time-outs are looked at only for descriptors with an event, so
a silent back end keeps its api, and the switch, for ever.

### RelayServer

Client socket objects live in a map by descriptor number and are never deleted;
the kernel gives a number out again as soon as it is closed, to a new connection or
to an api. `file` is what a number stands for, `sock` the object found under it, so a
stale number is visible as the two disagreeing. An event carries the client its
handler works for (`e.sock`), as `param` and the map look-up do in the code.

| Actions | Code |
|---|---|
| `Accept`, `InitSocket`, `InitAborts`, `WritePipe` | `_process_accept`, `_choose_thread`, `CClientSocket::init`, whose assertion may fail |
| `CloseClientFd`, `FiniAccepted`, `CloseAccepted` | its catch clause: `close(client_fd)`, then `fini`, whose reset comes before its close |
| `StartReading`, `RefuseClient` | `_process_dispatch` with its catch clauses |
| `Received`, `Answered`, `ClientFails` | `_dispatch_handler` and `_thread_dispatch` |
| `CallServer`, `NoApiToCall`, `Connect`, `ConnectFails`, `Register` | `_call_server`: the api of the pool (taken in one step here, see `ApiPool`), its descriptor, its event |
| `ServiceAnswers`, `ServiceForeign`, `LeaveClient`, `ServiceFails` | `_service_handler` and `_service_dispatch` |
| `GiveBack`, `ReleaseApi` | `set_free` in both forms |
| `Reply`, `FreeAgain`, `WriteError` | the rest of `_service_dispatch` after the api was given back, and what its catch clause does when that throws: `set_free(true)` of the same api, `_write_error` |
| `Fini`, `CloseSocket` | `CClientSocket::fini`, in two steps because the accept thread may be given the number between them |

A handler of one thread is cut into steps where another thread can see a
difference: before and after a descriptor is opened or closed, an api is taken or
given back, an event is added or deleted. `Added` and `NotAdded` are the two outcomes
of `CEpollMonitor::add`; the second leaves the event in the queue.

`Escape` is an exception that leaves a handler. Out of `_dispatch_handler` or
`_service_handler` it reaches `thread_run`, which ends the process; out of
`_process_dispatch` it is logged.

What may fail is `FaultKinds`: the system calls `getpeername`, `write` to a pipe and
`epoll_ctl`, and `lookup`, the look-ups of `request_type` and of the server of a site
(`src/relay_server.cpp:967`, `:968`, `:1068`), which throw around a reload without any failing
system call. `torn` is a history variable again. It is set by what the code does not
undo: an event queued without its descriptor in the epoll set, the second close of an
accept that failed when the number is open again, the second release of an api that another
call has, an error that cannot be written because its site is gone. `OwnOnly` and
`ServedOnce` (with `Survives`: the process is never ended that way) are claimed until
then: a failure by itself does no harm, it takes one of these four. `HandlersFindClient` is
claimed always.

Three branches of the code cannot be reached and are left out: the exception at the
head of `CClientSocket::init`, the exception of `_get_thread_no` for a released
socket, the NULL api in `_service_handler`. `InitFindsReset` (in `OwnOnly`) and `HandlersFindClient`
state exactly that they are not reached. The assertion before the exception of `init`
is reached when an accept fails (`InitAborts`; see "Seen while modelling"); asserts are
compiled in (`Inc.mk`).

| Run | Instance | Shows |
|---|---|---|
| `relay_life` | 3 clients, 3 numbers, 3 threads, 2 apis, one look-up that throws, fair | `ImplementsLife`; `ClientsEnd`: every client is closed in the end, unless that exception has torn something |
| `relay_faults` | 4 clients, any two failures, of all kinds | until something is torn, `OwnOnly`: nobody acts on a number that became someone else's, `init` finds a reset object, the answer is the client's own; `ServedOnce`: every client is carried on from exactly one place and no exception ends the process. And always `HandlersFindClient`: a handler that runs finds its client, and its api |

Bounds: three numbers are one less than the clients of `relay_faults`, so numbers are
used again (in `relay_life` too, as apis take them), and each is used in turn by clients and by apis. Of three process
threads the round robin uses two, which gives every clash of two workers. One api
keeps its connection between calls (the middle protocol), one does not. A pipe holds
two messages, so it can be full; `MaxAccepts` bounds the clients, after which the
relay waits for more: deadlock is not checked for that reason. `MaxFaults` is how
often something fails: two leave an event behind in a queue and then fail an accept, or release
an api twice and then fail its new client. The
fourth client finds the number of an api that was closed under it. Numbers are symmetric where no liveness is
checked.

`FairSpec` says that the accept thread and each process thread go on as long as they
can. A process thread with a queued event can go on by the event coming true *or*
by the connection failing: that a silent peer does one of the two is an
assumption about the environment, as for `ApiPool`.

### SwitchStats

A worker is followed through one call as far as the statistics see it: its request is
counted for the service and for the site, and an error answer or a failure is counted
for the service and, unless that switched, for the site. `stats` is the map of both
kinds, `keygen` the configuration its entries were made from, `log` a history
variable that only the properties read: for each key, how many errors came up to each second.

| Actions | Code |
|---|---|
| `BeginCall`, `RefuseCall`, `RequestCheck`, `RequestCount` | `_thread_dispatch` up to `incrRequest`, whose look-ups take no lock |
| `CallServer`, `GetApi`, `CallSucceeds`, `CallFails` | `_call_server`; `get_api`, whose `operator[]` leaves a record without a server name for a site that is not configured any more (`"blank"`) |
| `AnswerIsError`, `WriteError` | the two places that call `trySwitch`, each with a new look-up of the site |
| `ErrorCheck`, `ErrorCount` | the start of `try_service_switch` and `try_site_switch`; the counter; the lock is kept when the key is due |
| `ServerName`, `NoServerName`, `NextIdc`, `SetSwitchOn` | the decision, under that lock; `server_name` throws |
| `ResetStats`, `ResetOther` | the reset of the keys with the same `key_id`, and, after the lock was released, of the key of the other kind |
| `ServeSwitch` | `CApiPool::get` serves the switch (in one step, see `ApiPool`) |
| `ReloadClear` … `ReinitFill` | `reload_conf` in its order: `request_type` is empty, is filled, the servers, the sites, the two `re_init` |
| `RacingLookup` | a look-up without the lock while `re_init` clears the map: the process may end |

| Run | Instance | Shows |
|---|---|---|
| `switch_safety` | 2 workers, 2 services with one id, one of them without an interval, 1 site, times 0..2, 3 calls | `StatsExact`: a counter holds the errors of its window and no other, a switch follows only from enough of them; `DecisionsEnd`: a due key has a worker that decides, no exception ends the process |
| `switch_reload` | 1 service, 1 reload that moves it to another site, 2 calls, fair | `ErrorsExact`: the counters stay exact; `LockHeldByDecider`: every path out of a decision gives its lock back; `CallsEnd`: every call comes to its end |

Bounds: a service that counts every error but the listed and a site that counts the listed
ones only make both kinds of key decide; the interval of two seconds and times up to
two put an event inside a window, on its last second and behind it; thresholds of one and
two requests separate the error that opens a window, which decides nothing, from the
next. An interval of nought, which `atoi` makes of a word (`src/switch_stats_conf.h:119`), lets every
event open a window: an error is then counted for itself, and what else came in that second is
not. Services that share an id show the reset of a key nobody decides about. Two IDCs
give a switch and the case without a next IDC. `MaxCalls` bounds the calls, after which
the relay waits: deadlock is not checked. Workers are symmetric where no liveness is
checked. The success ratio is a float in the code and is compared exactly here.

`FairSpec` asks that workers and the reload go on. Weak fairness is enough for the
mutexes because the calls are bounded: in the end nobody else takes a lock somebody waits for.

### EventLoop

One loop, its list as the linked list it is, and an epoll set that holds pointers to
events. `live` are the addresses in use, so a pointer that outlives its event is
visible; a handler is any sequence of what the handlers of the relay do.

| Actions | Code |
|---|---|
| `Top`, `Wait`, `BatchDone`, `Beat` | `CEpollMonitor::monitor_once`: the test for an empty list, `epoll_wait` with its batch of pointers, the heart beat count |
| `Process` | `reset_event`, `handler_run`: what is active is compared with what is asked for |
| `Add`, `Update`, `DelOwn` | `add`, `update` and `del` of the monitor, with `Link`, `Unlink` for `CEventDecQueue::add` and `CEventQueue::del`; `Add` and `Update` may meet a failing `epoll_ctl` |
| `Consume`, `CloseOwn`, `Return` | what else a handler does: it reads or writes, closes its descriptor before it deletes the event, returns |
| `OpenFd`, `CloseFd`, `Ready` | other threads and peers |

| Run | Instance | Shows |
|---|---|---|
| `event_loop` | the pipe and 2 events, 3 numbers, one failing `epoll_ctl`, fair | `Linked`: the list is linked, sorted and counted; `LoopSafe`: what epoll and the batch point to is alive, and the list is never empty; `ListIsEpoll`: without a failure the kernel watches what the list says; `LoopServes`: what is ready is served and the heart beat comes; `ImplementsEventSet` |

Bounds: with two events besides the pipe's, a handler can delete its own, add a new one
at the same address and for the same number, while the other is still in the batch;
the list has a head, a middle and a last element. `BeatCount` is 1 for 32 in the
code: only the wrap matters. `FairSpec` says that the loop runs and that a handler
returns, and deletes its event once it has closed the descriptor.

`EV_TIMEOUT` is only looked at for what `epoll_wait` returned with neither `IN` nor
`OUT` (`sys/epoll_monitor.cpp:207`): a peer that stays silent never times out. How late
an event is, is a free choice; no property relies on it.

### Session

One thread and one api, and packets that arrive and leave in pieces: a packet is
`HeadLen` units of header, which hold its length, and `BodyLen` units of the rest. A
handler of the relay is one step; `DeliverClient`, `DeliverBack` move units from the
wire to where they can be read.

| Actions | Code |
|---|---|
| `Accept`, `ReadRequest`, `ReadRequestFails`, `Received`, `Refuse` | `_dispatch_handler`, `_thread_dispatch`, `CClientSocket::recv` (`RecvPacket`, `RecvHead`, `Recv` for `CSocketBase`) |
| `CallKept`, `CallConnects`, `CallFails` | `_call_server`: the api with its connection, or without; `CApiBase::init` |
| `ConnectFails`, `RelayConnected`, `SendLogin`, `LoginAnswered` | the `_init` of both apis, the login of the middle protocol |
| `SendCall`, `ReadPart`, `Answered`, `ReadFails`, `WriteFails` | `CApiBase::process`, `_send`, `_recv`, `decode`, and the failures in `_service_handler` |
| `SendReply`, `SendReplyFails` | the answer to the client, then `fini` |
| `Connected`, `BackAnswers`, `BackCloses`, `ClientCloses` | the back end and the client |

| Run | Instance | Shows |
|---|---|---|
| `session` | 2 sockets, 2 clients, both protocols, 2 units of header and 1 of the rest, fair | `StateFits`: what is waited for fits the state; `Framed`: whole packets, the right ones, in order, in both directions, after a login; `TakenClean`: an api taken again has nothing of the last call, and the assertions of `encode` and `_init` hold; `RequestEnds`; `ImplementsCallReply` |

Bounds: two clients let an api be used again, and two units of header let one be
torn. A header torn over two segments ends the call with an error
(`src/client_socket.cpp:158`): the model does the same. The comparison of sequence numbers
(`src/relay_server.cpp:947`) is in `RelayServer`; here there is one api. A relay api takes
whatever whole packet came as the answer. SIGPIPE is ignored
(`base/trpc_comm_func.cpp:123`), so a write to a closed peer is an error like others.
`FairSpec`: handlers run when their event is true, the network delivers, and the back
end answers a request it has or closes; the last is an assumption about the environment.

### Admission

What stands between a request and its service. A check that reads one table under its
lock is one step; counting is done under the *read* lock, so a count is read in one
step and its two words are written in two others, which mix with other threads'.

| Actions | Code |
|---|---|
| `Arrive`, `CheckAccess`, `ReadIsInit`, `Authorized`, `GetConf` | `_thread_dispatch` up to the request type; `CAccessControl::check`, `ServiceAuthorizeAccess::authorized` |
| `CheckFrequency`, `Load`, `StoreBegin`, `StoreCount` | `CFrequencyControl::check`, `TimeCountPolicy::increase_count` |
| `CheckRules`, `CountMaster`, `CountService`, `Call` | `ServiceRequestControl` and the fixed rules, master first |
| `Reload`, `ReadTypes`, `ClearAccess`, `ReadAccess`, `ClearLimits`, `ReadLimits`, `ReadOthers`, `AuthOff`, `ReadAuth` | the steps of `reload_conf` for these tables; a missing file ends it, `ReadOthers` those of error codes and details as well, which are read before the authorisation |
| `RulesOff`, `ReadRules` | the manager thread reads the rules again |
| `Tick` | a second passes |

| Run | Instance | Shows |
|---|---|---|
| `admission` | 2 threads, 3 requests, times 0..1, one reload of files or rules | `LimitsKept`: counts are kept on tables that are there, a limit holds in a window where no two threads mixed, nobody is refused before as many as the limit were counted, the master counts its services; `OnlyAdmitted`; `TablesFollowFiles`: after a reload the files' tables, after one that failed those up to the file it could not open, and behind it the old lists |

Bounds: three requests on a limit of one show the call that opens a window, the last
that passes and the first refused, or two threads that mix; the files of a reload
are an edit and each one missing. Threads are symmetric. No liveness is claimed: the locks
prefer readers, so a reload may wait as long as requests come.

The rules exist only in builds with `RULE_FROM_FILE`, which `Inc.mk:13` leaves out; the
rules' file is well formed here. A `CFrequencyControl` window carries its old count over,
and counts of two threads may be lost, so its limit is exact only where no two
threads mixed; `NeverTooEarly` says what holds always.

### SiteConf, Text, Packet

The tables of sites, IDCs, texts and detail types, with the lock of the sites as
pthread counts it, and what a client is sent for an answer.

| Actions | Code |
|---|---|
| `GetApi`, `RLock`, `Find` | `CCoreServerConf::get_api`, the read lock, `operator[]` |
| `Get`, `Swap`, `CurrentIdc`, `Node`, `Release` | what `CApiPool::get` does of the switch; `CHaSiteConf` |
| `ServerName`, `Decide`, `SetSwitchOn` | `try_service_switch` once it has decided |
| `IsOriginal`, `IsEscaped`, `EscapedText`, `Told` | `CClientSocket::encode`: three look-ups of the code, each under a lock of its own |
| `Reload`, `ReadErrors`, `ReadDetails`, `ReloadHasite`, `ReInit`, `ClearSites`, `ReadSites`, `Grow`, `GiveBack` | `reload_conf` for these tables, `re_init` with the locks it takes and gives back |

`re_init` holds the write lock and calls `read_conf`, which takes it again (`EDEADLK`, which
`CRwLock` ignores) and gives it back. The rest runs without the lock, and the last unlock
is one of a lock nobody holds, which takes a reader off the count for good: the next
`re_init` finds the count below nought and waits, or comes in among readers. The
unlocking is undefined; the model takes both outcomes of glibc. `LockKept` says what holds
until the first `re_init` gave the lock back.

`Text` has symbols for characters that matter, and the conversions as functions:
`split`, `atoi`, `encodeUrl`, `decodeUrl`, `parseUrl`, `packUrl`. The table of characters
to encode is cut down to `%`, `&` and `=`; names are one symbol and are neither encoded nor
decoded; the first of two parameters of a name wins. After a percent sign two
hexadecimal digits follow or the value ends: with others the code reads an
uninitialised value (`base/trpc_url_param_map.cpp:23`). `Packet` is the encoding of an answer:
`NO_ESCAPE` gives "[code]system busy" in the text protocol and the back end's text in the
binary one, a code without a text the reverse.

| Run | Instance | Shows |
|---|---|---|
| `sites` | 2 threads, 3 sites, 8 versions of the files, 4 answers, 4 units of work | `LockKept`; `MovesAsked`: an IDC is left only for a switch that was asked for; `ToldRight`: a client is told what some table said of its code; `ClientTold`: it reads that and the result that is counted, every text up to 4 symbols comes back from packing and parsing; `SitesFollowFiles` |

Bounds: `MaxWork` counts jobs, a reload for two: four jobs, two and a reload, or two reloads,
which is a job before, during and after a reload. It held with five as well (1.3 million states).
The versions of the files move a site, drop one, add one, and are missing or wrong each.
Threads are symmetric.

### Log and Life

`Log` is one of the three logs. A file is the set of the numbers of its lines, in the order
in which they reached `base.log`; an absent file has none. Text and levels of a line are
left out. `Life` is `Log` with main, which goes through `init`, `process` and `fini`, the
threads, and SIGHUP.

| Actions | Code |
|---|---|
| `LockLog`, `PutFails`, `PutsLine`, `FlushFails` | `CLog::write`: the mutex, the open, the line, the count |
| `StatFile`, `RemoveOldest`, `RenameNext`, `ShiftFails` | `shilft_files`: each system call is a step and may fail |
| `Start`, `ReadSysConf`, `InitLog`, …, `RunThread` | `main`, `CRelayServer::init` and `process` in order; a step that may throw does or does not |
| `ThreadExits` | `CEventThread::thread_run`: an exception left a handler, and the thread calls `exit(0)` (`sys/event_thread.cpp:151`) |
| `FiniThreads`, `FiniAccept`, `Exit` | `fini`, called from the catch clause of main and again by the destructor in `exit(0)`, of main or of a thread |
| `CloseLog`, `DeleteLog`, `NullLog` | `fini_log`: `~CLog` closes the file under the mutex and gives the mutex back; deletes it and itself; only then `g_pLog` is NULL |
| `Hang`, `HupBegins`, `HupWrites`, `HupCrashes`, `HupEnds`, `ReloadBreaks` | SIGHUP: the handler runs on the stack of main, in the middle of a line as well, or of another thread while main is in it |
| `Line`, `Goes`, `MgrCrashes` | lines of main and of the threads |
| `Kill` | `kill -9`, between any two steps; SIGTERM is ignored |

`Writer` is a stack (main's, the manager thread's, an event thread's) and whether the thread itself
writes on it or a handler. `ender` is who runs `fini`. A process that uses freed memory or
cancels threads that run "crashes", or is "wrecked" and may do anything its threads may still do.

| Run | Instance | Shows |
|---|---|---|
| `life` | 2 starts, 4 configurations, 2 threads, 2 SIGHUPs, 6 lines, files of 2 lines, 3 files, a look every 2 lines, 1 failing file operation, fair | `LogOrdered`: the files are the last lines, in order; `LogBounded`: nothing is given up early and no file outgrows its size by more than failures and starts explain; `LifeSafe`, see below; `LifeGoesOn`: a start ends or serves, and the log's mutex comes free again, but where a handler is in the way |

`LifeSafe` is exact where the code crashes. `EndsAsStarted`: a start that fails exits in order
only before the logs have the server's mutexes and before the array of the threads is
made; a crash is that of the end of a later start or of a thread that calls `exit`, or of a reload.
`LogsOutliveWriters`: in a log that is deleted only the manager thread writes (`DeleteLog` waits for
nobody), or a reload that was asked for before the process served. `HandlerFindsLogFree`: a handler
meets a line of main that it waits for only in such a reload. `ServesWhole`: when clients are
accepted every thread that may be chosen runs.

Nothing is claimed of a SIGHUP's end. `reload_conf` takes write locks, which starve while
readers come, and of which one is left broken by the first `re_init` (`SiteConf`): the handler
may never write its line, and what it has left in the tables may end the process
(`ReloadBreaks`, finding 1, or an exception out of `_write_error`, `ThreadExits`). Nor is it claimed
that a serving process goes on.

Bounds: six lines fill three files of two and rotate twice; two starts let one
find what the other left half done; two SIGHUPs put a handler on another stack than main's.
The safety properties held with seven lines as well (1.3 million states). `FairSpec`: main, or whoever ends the
process, and whoever writes a line and is not interrupted, go on; strong fairness of `CloseLog` says
that the mutex does not starve `~CLog`. Handlers, lines, signals, kills and starts need not come.

`max_log_num` 1 never rotates (assumed to be more). `holder` is left by a kill with the process.
A SIGHUP before the process serves crashes it, waits for itself, or is handled, depending
on the stage; `asked` remembers that ("early"). Of the event threads one at a time is in a handler.
What a handler of a start does to half-read tables and to the heap is not modelled.

## Proofs

Checked by TLAPS for every value of the constants that `ApiPoolAssumption`,
`RelayServerAssumption`, `SwitchStatsAssumption`, `EventLoopAssumption`, `SessionAssumption`,
`AdmissionAssumption`, `LogAssumption`, `LifeAssumption`, `SiteConfAssumption` and `FilesSound`
allow.

* `ApiPoolProofs!TypeCorrect`: `Spec => []TypeOK`. `TypeOK` is not inductive alone:
  `TypeInv` adds that a call beyond `idle` has a site, that a call inside `get`
  owns the lock of its site's pool (so two calls are never inside one `get`), and
  that a call that uses an api points to one.
* `ApiPoolProofs!PoolShape`, with any number of reloads: `PoolInv` (what a vector holds is
  alive and held once, the current vector has no hole, the other one is empty
  unless a switch is draining, the size is exact, whoever is about to create an
  api has room) is inductive with `TypeInv`. `OldEmpty` is what makes `Swap` safe: the
  vector that becomes current has neither holes nor apis of an earlier IDC.
  `CurrentPoolSafe` says what the scan in `_get` needs of it.
* `ApiPoolProofs!LeaseStaysSafe`, with any number of reloads and failing `add_event`s: `LeaseInv` (what a
  call uses is alive and marked used, by that call alone; who has not sent yet finds no
  packet; a free api carries nothing; each of an api that is not torn) is inductive with `TypeInv`
  and `PoolInv`, and implies `LeaseSafe`. A second release either meets an api that is free or
  deleted, and changes nothing, or tears it. `NoneIsTorn`: without a reload and without a failing
  `add_event` there is none, as nobody gets to `FreeAgain`.
* `ApiPoolProofs!ImplementsLeases`, likewise: the steps of `get` and of a call map to
  `Lend`, `GiveBack`, `Retire` (`Swap`), `Dispose` (`Sweep`), `Spoil` (`FreeAgain`) or a stutter of
  `ApiLease`. That what is disposed of is retired is `OneSlotEach` (`OldRetired`: nothing in the old
  vector is in a current one), that nobody has it is `HeldIsUsed`. An api that `Check` drops stays
  retired.
* `ApiPoolProofs!LendsOfCurrentIdc`, without a reload and with one pool for each server: `IdcInv` says that the
  current vector has only apis of the current IDC, that it is empty while `Swap` is done and
  `AdvanceIdc` is not, and that the IDC a call read for a new api is still the current one when it
  creates it; the pool's lock keeps others from moving the server on in between.
* `RelayServerProofs!TypeCorrect`, with any failing system calls: `TypeInv` adds that the accept
  thread and a process thread that are not idle have a descriptor, and that a thread which
  deals with an api has one.
* `RelayServerProofs!ActsOnOwnOnly` and `EachServedOnce`, under the assumption that no accept
  fails (`AcceptsSucceed`; `epoll_ctl` and the look-ups may): `CarryInv` says who may carry a client on
  (the accept thread, a message, an event, a thread at work), what each finds (`AccInv`, `MsgOK`,
  `EventOK`, `WorkOK`), that no two carry the same client (`Once`) and that one does (`Some`). Neither
  half is inductive alone: that a message finds its client needs that nobody else closes it. `Touches`
  and `PassesOn` say what a step of one thread for one client leaves and does; `StepCarries` proves
  once that such steps keep `CarryInv`. `torn \/ CarryInv` is inductive: a failure either sets
  `torn` or is undone by the catch clauses. Both properties are checked with failing accepts as well
  (`relay_faults`), not proved.
* `RelayServerProofs!InitFindsItReset`, under the same assumption, and whether something is torn or
  not: `FilesInv` says that the
  descriptor of an open client socket, of an api and of a socket about to be closed is still
  theirs. Where an accept may fail it is false (see "Seen while modelling").
* `RelayServerProofs!HandlersFindTheirClient`, whatever fails: `HeldInv` is about what can still run,
  an event that is in the epoll set or a thread in a handler. Each has a client socket of its
  thread to itself, although descriptors may be mixed up, and a queue with equal
  descriptors never arises (`QueueOK`), so that an event left behind never fires again.
* `RelayServerProofs!ImplementsConnLife`, under the assumption that nothing fails, system calls and
  look-ups (`NoFaults`): every step is one
  of `ConnLife` or a stutter. `ConnInv` is about the numbers: a connection has one, and the
  object of that number has the connection's sequence number as soon as `init` ran, so the
  choice in the mapping is of that object. `accept` and `init` are `Accept` and `Assign`, a
  complete request is `Process`, an answer or an error `Answer`, `fini` and the `close` after it
  `Release` and `Close`. That nothing else moves a connection needs `CarryInv`: an api opens
  and closes only numbers that are no client's.
* `SwitchStatsProofs!TypeCorrect`: `Spec => []TypeOK`, with any number of reloads. What
  has to be added is that a reload under way has a configuration to read.
* `SwitchStatsProofs!LocksReleased`, with any number of reloads: `LockInv` says that a
  worker decides exactly while it holds the lock of its kind, and the main thread holds
  one exactly while it fills a map. `LockHeldByDecider` alone is not inductive: that a
  decision may give its lock back needs that it has it.
* `SwitchStatsProofs!DecisionsSafe`, under the assumption that there is
  one configuration: `FlagInv` adds that the tables are those of the start, that a
  worker counting an error has a configured site (so `server_name` does not throw),
  and that a flag is only set in an entry that exists (so the reset of its owner
  removes it). Of two workers no two decide for one kind, so the reset never takes
  the flag of another. With a reload both parts fail: see "Seen while modelling".
* `SwitchStatsProofs!CountsExactly` and `ErrorsCountedOnce`, with any number of reloads: `log` says how
  many errors came up to each second, so what came since a window opened is a difference
  (`Since`) and no sum has to be taken. `CountInv` follows each entry: it has counted just that
  difference, and when its window is over nothing came yet in this second (`Right`), so that the event
  that opens the next window finds none of its second uncounted. An entry that is marked keeps
  its counts, and the errors of its window were at least as many. Each step does one thing to an entry:
  time passes (`CountTick`), a request, an error, a reset, a new entry. Of an interval of
  nought only "not more than came" is true.
* `EventLoopProofs`, with any number of events, numbers and failures: `Inv` is `TypeOK`,
  `Linked`, `EpollBacked` and `BatchLive`, with the shape of the list (`Shape`: what is not
  queued has no links), that what is queued is alive, that the pipe's event stays
  (`PipeKept`) and that the running event is none of the batch (`Serving`). `Linked` is proved
  operation by operation (`Link` at the head and behind another event, `Unlink` of the
  head and of another): strict order is what lets the walk of `add` stop at the right place.
  `TypeCorrect`, `ListSound` and `LoopStaysSafe` follow. `Implements` shows that every step is
  one of `EventSet` or a stutter: it needs `EpollBacked` and `BatchLive`, so that what is
  served is what is watched now. `KeepsListInEpoll` adds `Watched` to `Inv`: failures are only
  ever used up, and as long as none came every queued event is in the epoll set (but for the one
  just closed) with the mask of its object, so the walk of `add` meets no equal descriptor.
* `SessionProofs`, with any number of sockets and clients and any lengths of header and rest: `IInv`
  has for each client and for the api what its status stands for, and follows the one packet that
  is on its way. `Incoming`: what was read, what has arrived and what is on the wire
  are consecutive units of it, so that a reader can never run into the next one. `Outgoing`: what was
  written is its beginning, and the peer has just that, unless it has closed. `Awaiting`: a packet
  was sent whole and nothing came of its answer yet, or the answer is coming and nothing was sent
  since. A close in between only takes the tail of what is coming. `ReadsPacket` and
  `SendsPart` show that reading and writing a part, of any size, keeps these, and that
  nothing is left in the stream when the packet is whole, which is why a
  connection can be kept. `KeepsStateFits`, `KeepsFramed` and `KeepsTakenClean` follow; `Implements` maps
  encoding an answer to `Decide`, `fini` to `Release` and each other step to a stutter: that
  the answer is the client's own comes from `Awaiting`.
* `AdmissionProofs`, with any requests, threads, files and reloads: `TypeInv` adds to `TypeOK` that
  who counts holds a counter that is there, of the kind it is counting, and that a rule in force
  finds all its counters (`RulesCounted`); without them a reload could not be shown to
  delete none that is in use.
  * `KeepsLimits`: `CounterInv` has, for each counter, that its count and what its threads hold are
    never more than what came, that two threads on it are marked as torn, and that while
    none are the passed and the refused calls of the window are what the count says (`Exact`), or
    one thread has opened a window in which nothing was counted. `MastersInv` counts
    the threads between the two counts of a rule.
  * `LetsInOnlyAdmitted`: `AdmInv` says that the last lists remembered are those in force, and of
    each thread the checks it is past (`ListedBy`, `LetIn`): the lists it found are
    remembered in the order it asked them.
  * `ReadsWhatIsThere`: `Follows` has for each stage of the reload which tables are read, which is
    empty, and which lists are still those of before (`reload.from`). `TablesGrow` is that one more types file, read over the table, gives the
    table of all files up to it, for which the last file that has a key must exist (`LastOf`).
* `LifeProofs`: `IInv` is `LogInv /\ LifeInv /\ HolderInv`. `LogInv` has the order (`OrderInv`) and that
  from a line that is kept on every line is (`TailInv`), for which the rename must find
  the name it moves to free (`GapInv`): it goes from the oldest file down, so a kill or a
  failure in the middle leaves a gap, never two lines out of order. `LifeInv` has
  what is there at each stage of main (`StageInv`), that a thread which calls `exit` gets no
  further than the threads it cancels (`EnderInv`), that a second `fini` goes on only without an array
  (`EndInv`), and when a reload was asked for (`AskedInv`), from which `EndsAsStarted` is inductive. `HolderInv` is that who holds the mutex is
  there: main before it serves, a thread that runs, a handler that has not ended.
  `TypeCorrect`, `LogKeepsOrder` and `LifeStaysSafe` follow. `LogMoves` first sorts the steps of `Next`
  into those of the log, those that leave it alone (`Untouched`: `CloseLog` closes the file at most) and
  those that end the process, so that `LogInv` need not see main.
  `LogStaysBounded` counts no files, which would be an induction over their number. It says how much
  lies behind a line instead (`DepthInv`): after a line of file `j` came `j - 1` full files
  and what is in `base.log`, less one file for each rotation broken off so far (`Debt`: the failures,
  the starts, and a process that ended since; a process that is wrecked has not). A rotation moves a full `base.log`, so what
  it adds pays for the file number that grows by one. A line that is removed with the last file then has as
  many after it as the files hold (`LostInv`), all of them kept by `TailInv`. `GrowthInv`
  bounds `base.log` by what was counted since somebody looked.

* `SiteConfProofs`, with any threads, sites, files and reloads: `IInv` has its types (`TypeInv`), that
  a call in a pool has it to itself and one thread at most decides (`InPoolInv`), and one part for each
  thing that can go wrong.
  * `KeepsLocks`: `LockInv` follows the difference between the threads inside and the count of the
    lock: none until the first `re_init` has given the lock back, at least one after it, or
    none while a later one works without having the lock. `UserInv` follows the sites
    through `re_init`: a call that finds no user read it after the file was, and its site is not in it.
  * `MovesWhenAsked`: a switch under way was asked for by its own pool (`SwapInv`), `CountInv` adds the
    pools that are yet to switch to the switches that were made, and `FromInv` has the place of
    the current IDC. An IDC that comes twice in the order is looked for from the start, so that
    the next one is never further than its first place says (`NextFacts`).
  * `FollowsFiles`: `FollowInv` says for each stage of a reload which tables are already what their
    files say (`ErrorsFollow`, `HasiteFollows`, `SitesFollow`), and that every site up to the one `re_init`
    has come to has its pool. A request in between only adds blanks or changes a current IDC.
  * `TellsRight`: `SeenInv` has, for each thread that encodes, whether one of the tables since
    it began did not have its code go out as it is. The look-up for the text finds the
    mark `NO_ESCAPE` only when a later table is another one, so there were two at least, and
    anything else it finds is what the last one says. `TellsLonger` is that more tables
    leave this as it is.

  What reading `hasite.xml` gives is a fold, so the proofs take it from `FilesSound`: each server
  has one element (a bad second one would leave the current IDC of the first, which
  may not be in the new order), IDCs have names, and a line of a site that parses has a
  user. TLC evaluates it for the files of `sites`.

Every safety property of a passing run is proved but one, some under the assumptions named
above. Model-checked only: `ClientTold`, which is about what the conversions of `Text`
compute for every input (an induction over sequences), and liveness under fairness
(`SwitchesEnd`, `ClientsEnd`, `CallsEnd`, `LoopServes`, `RequestEnds`, `LifeGoesOn`): both are
out of the prover's reach.

## Findings

1. `pool_encode`. `_service_dispatch` gives the api back (`src/relay_server.cpp:960`)
   and then, for an answer with `result != 0`, looks `request_type` up (`:967`). While
   `reload_conf` has emptied that table (`:84`) this throws, and the handler in
   `_service_handler` gives the api back again (`:786`), although another call may
   have it by then. The next `get` lends it a second time, and
   `assert(_req_packet == NULL)` of `api/api_base.cpp:93` fails.

### Seen while modelling

In the models but without a run of their own, unless said otherwise.

Pools, dispatching, statistics:

* An api given back between the two clean-up loops of `_get` is neither deleted nor
  counted as in use, and the vector is cleared (`api/api_pool.cpp:222`): the api and
  its connection are lost, while the log says `all apis have been cleared` (`:221`).
* When `getpeername` fails in `CClientSocket::init` (`src/client_socket.cpp:86`), `_fd` is set
  already (`:80`). `_process_accept` closes `client_fd` (`src/relay_server.cpp:348`) and then
  `fini` closes `_fd`, the same number (`:351`). In between a worker may have been given that
  number for a back-end connection, which the second close takes from it; a new client is
  accepted on it, and the api closes it under that client when it is released. The next
  accept gets the number while the object of that client is in use, and
  `assert(_fd == INVALID_SOCKET)` of `src/client_socket.cpp:70` aborts the process. TLC shows
  it in 19 steps when `InitFindsReset` alone is the invariant of `relay_faults`.
* `reload_conf` reads `request_type` (`src/relay_server.cpp:89`) before `CoreServer.conf`
  (`:110`). In between, an error answer for a service that moved to a new site makes
  `server_name` throw (`src/core_server_conf.cpp:28`); the catch clause of
  `_service_handler` calls `_write_error`, whose `trySwitch` (`:1068`) finds the key still due
  and throws out of the handler: the process ends (`WriteError` with a `lookup` fault in `RelayServer`,
  `ThreadExits` in `Life`).
* A reload that cannot open the file of the error codes or of the details (`src/relay_server.cpp:100-105`)
  ends there: new address list and new limits with the old authorisation, and no empty table to tell of
  it (`TablesFollowFiles`).
* The flag `to_be_switched_` is set before `server_name`, and nobody takes it back when that
  throws. A worker that looked its site up before a reload and counts its error after
  `re_init` leaves the flag in the new statistics: the key counts nothing from then
  on, and the next single error, however late, switches the IDC (`src/switch_mgr.cpp:191`).
* The other key is reset after the lock of the first was released (`src/switch_mgr.cpp:289`):
  errors counted in between may ask for a second switch for one outage.
* `_choose_thread` sets its index back when it reaches `_process_thread_num - 1`
  (`src/relay_server.cpp:367`): with more than one thread the last one never gets a
  client, although `conf_bak/SysConfig.conf:72` configures `ListenThreads : 3` of them.
* `CEpollMonitor::add` queues the event (`sys/epoll_monitor.cpp:85`) before `fstat` and
  `epoll_ctl`, and leaves it there when they fail, trusting those outside to close the
  descriptor (`:251`). `_process_dispatch` tries to write an error first, which the
  queue refuses as an equal descriptor; that exception only reaches the log, and the
  client is never answered or closed.
* `_get_thread_no` is called outside of the try block (`src/relay_server.cpp:640`); `HandlersFindClient`
  is why it does not throw.

Limits, lists, sites:

* The rule file is read again every 60 s and sets all counts of its rules to nought, so a
  period of more than 60 s is never enforced as such. A missing rule file throws
  out of the manager thread. A rule of exactly five tokens is read past its end.
* `ServiceAuthorizeAccess::init_i` and `ServiceRequestControl::init_fix_i` never close their file.
* Of two ranges that hold a request type, the request key is that of the last
  (`src/client_socket.cpp:254`) and the master key that of the first
  (`src/system_conf.cpp:321`).
* Two sites of one server may each ask for a switch for one outage, and two are made
  (`MovesAsked` counts them). A pool whose site a reload removes stays, and a call for
  it logs in with a blank user. `re_init` does not update a pool whose server changed.
* The text `NO_ESCAPE` itself may be sent when a reload comes between two look-ups of a code.
* The nodes of an IDC are written into an array of five without a check
  (`src/hasite_conf.cpp:411`).

Start, stop, logs:

* `fini` runs twice when a start fails; it leaves `_process_thread` pointing to the deleted array
  and deletes mutexes that are members of the server: such a start ends in a crash once
  the array was made or `LogWithLock` is on, which is the default. The exit status
  of the others is 0. Without a socket, descriptor 0 is closed.
* The manager thread still runs in the `fini` of a start that failed after it was made. `~CLog` gives its
  mutex back (`sys/log.cpp:89`) before it deletes it and itself, so that thread may write in a deleted log,
  or through a `g_pLog` that is NULL.
* "The thread has a problem, exit directly" (`sys/event_thread.cpp:150`): that `exit(0)` runs the destructor
  of the global server on this thread, whose `fini` deletes the events of threads that run and cancels
  them (`src/relay_server.cpp:267`). The `catch (...)` of `thread_run` (`sys/event_thread.cpp:145`) does not
  let the cancellation through, which aborts the process (`ThreadExits`, `CancelAborts` in `Life`).
* SIGHUP is blocked only for the thread in its handler: a second one during a reload is taken by another
  thread, and two `reload_conf` run at once.
* The wait for `_init` in `CEventThread::run` never waits: `init` sets it.
* `base.log` is looked at every 32 lines of one process: a process that restarts sooner
  lets it grow without bound (`LogBounded` counts starts).
* `sys/log.h:127` says that a NULL level pointer means `NORMAL_LOG`; the code gives
  `DEBUG_LOG` (`sys/log.h:60`). `print_hex` writes one byte past its buffer (`sys/log.cpp:183`).
* A second start overwrites the pid file before `bind` tells it that the port is taken.
* `unset_mask` uses `!mask` for `~mask` (`base/trpc_comm_func.cpp:103`).

## Not modelled

* *tinyxml* (`cftlib/`): third-party code. `hasite.xml` appears as the elements it is parsed into.
* *The layout of binary packets*, lengths of texts and the buffers they are copied into: a packet
  is a header and a rest, a text a short sequence of symbols.
* *Data races inside `std::map`* (`operator[]` under a read lock, look-ups without a lock in
  `src/relay_server.h:56`, `src/switch_mgr.cpp:129` and `:209`, `src/hasite_conf.cpp:145`) and on the
  buffer a log line is formatted in (`sys/log.cpp:31`): their outcomes cannot be
  expressed at this level, except that `RacingLookup` lets the process end. The blank entries
  `operator[]` leaves are modelled.
* *Malformed files* beyond lines that are skipped, for which the code reads past the end of
  what it split.
* *Time-outs*: none can come (see EventLoop). *Two processes at once*.
* *Levels, day logs, hex dumps, `CTrpcTimeLog`, memory-mapped files, Unix, UDP and blocking
  sockets*: input and output, or never called. Nor is `set_valid`, `set_invalid`, `free_api`,
  `get_api_pool`, `check(ip)`, or the reset of all switch keys called by anybody.
* *The manager's command*: it returns at once (`src/relay_mgr_command.cpp:100`).

---------------------------- MODULE RelayServer ----------------------------
(***************************************************************************)
(* Request dispatching (src/relay_server.cpp, src/client_socket.cpp): the  *)
(* accept thread takes connections and hands them to the process threads   *)
(* through pipes; a process thread drives the client socket and the api    *)
(* that serves it from its own event queue and epoll set                   *)
(* (sys/epoll_monitor.cpp).                                                *)
(*                                                                         *)
(* A client socket object is found by its descriptor number, which the     *)
(* system gives out again as soon as it is closed, to a new connection or  *)
(* to an api: "file" is what each number stands for.  What happens inside  *)
(* CApiPool is in ApiPool; here an api is taken in one step.               *)
(***************************************************************************)
EXTENDS Integers, Sequences

CONSTANTS
    NumThreads,     \* ListenThreads: process threads
    Fd,             \* descriptor numbers
    Api,            \* back-end connections of the pools
    KeptApis,       \* those of the middle protocol, open between calls
    MaxAccepts,     \* how many connections clients open (bound)
    PipeSize,       \* messages a pipe holds; a writer waits when it is full
    FaultKinds,     \* what may fail: the system calls "init", "pipe" and "epoll", and
                    \* "lookup": a reload takes away what an answer looks up
    MaxFaults,      \* how often it does (bound)
    NoFd, NoApi

ASSUME RelayServerAssumption ==
    /\ NumThreads \in Nat \ {0} /\ MaxAccepts \in Nat /\ MaxFaults \in Nat
    /\ PipeSize \in Nat \ {0}
    /\ KeptApis \subseteq Api /\ NoFd \notin Fd /\ NoApi \notin Api

VARIABLES
    file,       \* the descriptor table of the process
    sock,       \* _client_data: the client socket objects by number
    api,        \* the apis
    pipe,       \* the pipe to each process thread
    queue,      \* _event_queue of each process thread
    epoll,      \* the numbers in its epoll set
    acc,        \* the accept thread
    wk,         \* the process threads
    faults,     \* failures still to come
    exited,     \* an exception left a handler: thread_run calls exit(0); or an abort
    torn        \* history: a failure was not undone, and harmed another call or a client

vars == <<file, sock, api, pipe, queue, epoll, acc, wk, faults, exited, torn>>

Thread   == 0..(NumThreads - 1)
NoThread == -1

Closed        == <<"closed", 0>>
ClientFile(k) == <<"client", k>>
ApiFile(a)    == <<"api", a>>
File == {Closed} \cup {ClientFile(k) : k \in 1..MaxAccepts} \cup {ApiFile(a) : a \in Api}

Socket == [fd : BOOLEAN, status : {"FREE", "READ", "PROCESS", "SEND", "OVER"},
           thread : Thread \cup {NoThread}, seq : 0..MaxAccepts, api : Api \cup {NoApi}]
ApiObject == [fd : Fd \cup {NoFd}, used : BOOLEAN, seq : 0..MaxAccepts]

(* A CEventBase: its descriptor, what its handler does, and for which client. *)
Event == [fd : Fd \cup {NoFd}, what : {"recv", "send", "service"}, sock : Fd]
Msg   == [fd : Fd, seq : 0..MaxAccepts]

AccPCs == {"idle", "init", "pipe", "close1", "fini", "close2"}
WkPCs  == {"idle", "call", "connect", "register", "release", "giveback", "leave", "reply",
           "again", "error", "fini", "close"}

TypeOK ==
    /\ file \in [Fd -> File]
    /\ sock \in [Fd -> Socket]
    /\ api \in [Api -> ApiObject]
    /\ pipe \in [Thread -> Seq(Msg)]
    /\ queue \in [Thread -> SUBSET Event]
    /\ epoll \in [Thread -> SUBSET Fd]
    /\ acc \in [pc : AccPCs, fd : Fd \cup {NoFd}, seq : 0..MaxAccepts, next : Thread]
    /\ wk \in [Thread -> [pc : WkPCs, in : {"pipe", "dispatch", "service"},
                          sock : Fd \cup {NoFd}, api : Api \cup {NoApi}]]
    /\ faults \in 0..MaxFaults
    /\ exited \in BOOLEAN
    /\ torn \in BOOLEAN

Init ==
    /\ file = [n \in Fd |-> Closed]
    /\ sock = [n \in Fd |-> [fd |-> FALSE, status |-> "FREE", thread |-> NoThread,
                             seq |-> 0, api |-> NoApi]]
    /\ api = [a \in Api |-> [fd |-> NoFd, used |-> FALSE, seq |-> 0]]
    /\ pipe = [t \in Thread |-> <<>>]
    /\ queue = [t \in Thread |-> {}]
    /\ epoll = [t \in Thread |-> {}]
    /\ acc = [pc |-> "idle", fd |-> NoFd, seq |-> 0, next |-> 0]
    /\ wk = [t \in Thread |-> [pc |-> "idle", in |-> "pipe", sock |-> NoFd, api |-> NoApi]]
    /\ faults = MaxFaults
    /\ exited = FALSE
    /\ torn = FALSE

----------------------------------------------------------------------------
(* Operators. *)

Fault(kind) == kind \in FaultKinds /\ faults > 0 /\ faults' = faults - 1

(* CClientSocket::_reset, up to the ::close at its end. *)
Reset(s) == [s EXCEPT !.fd = FALSE, !.status = "FREE", !.thread = NoThread, !.api = NoApi]

(* ::close: a closed file leaves every epoll set, but no event queue. *)
CloseFile(n) ==
    /\ file' = [file EXCEPT ![n] = Closed]
    /\ epoll' = [t \in Thread |-> epoll[t] \ {n}]

EqualFd(t, n) == \E e \in queue[t] : e.fd = n

Open(n) == n \in Fd /\ file[n] # Closed

(* accept: the connection k gets a number that is closed; none is there yet, or
   accept fails, is an exception that is only logged.                        *)
AcceptFd(n, k) ==
    /\ file[n] = Closed
    /\ file' = [file EXCEPT ![n] = ClientFile(k)]

(* socket: the api a gets a number that is closed. *)
ApiFd(m, a) ==
    /\ file[m] = Closed
    /\ file' = [file EXCEPT ![m] = ApiFile(a)]

(* _get_thread_no does not throw: the socket was not reset. *)
HasThread(n) == sock[n].thread # NoThread

(* The status that the handler expects of what was read or written. *)
StatusIs(n, s) == sock[n].status = s

(* CEpollMonitor::add: into the queue, which throws on an equal descriptor,
   then into the epoll set, which may fail and leaves the event queued.      *)
Added(t, e) ==
    /\ ~EqualFd(t, e.fd) /\ Open(e.fd)
    /\ queue' = [queue EXCEPT ![t] = @ \cup {e}]
    /\ epoll' = [epoll EXCEPT ![t] = @ \cup {e.fd}]
    /\ UNCHANGED <<faults, torn>>

NotAdded(t, e) ==
    \/ EqualFd(t, e.fd) /\ UNCHANGED <<queue, epoll, faults, torn>>
    \/ /\ ~EqualFd(t, e.fd)
       /\ IF Open(e.fd) THEN Fault("epoll") /\ torn' = TRUE ELSE UNCHANGED <<faults, torn>>
       /\ queue' = [queue EXCEPT ![t] = @ \cup {e}]
       /\ UNCHANGED epoll

(* CEpollMonitor::del *)
DelEvent(t, e) ==
    /\ queue' = [queue EXCEPT ![t] = @ \ {e}]
    /\ epoll' = [epoll EXCEPT ![t] = @ \ {e.fd}]

RecvEvent(n)       == [fd |-> n, what |-> "recv", sock |-> n]
SendEvent(n)       == [fd |-> n, what |-> "send", sock |-> n]
ServiceEvent(m, n) == [fd |-> m, what |-> "service", sock |-> n]

(* CApiBase::set_free. *)
SetFree(a, close) ==
    LET m == api[a].fd IN
    IF m # NoFd /\ (close \/ a \notin KeptApis)
    THEN CloseFile(m) /\ api' = [api EXCEPT ![a] = [fd |-> NoFd, used |-> FALSE, seq |-> 0]]
    ELSE /\ api' = [api EXCEPT ![a].used = FALSE, ![a].seq = 0]
         /\ UNCHANGED <<file, epoll>>

Goto(t, pc) == wk' = [wk EXCEPT ![t].pc = pc]

(* A handler returns to the event loop. *)
Return(t) ==
    wk' = [wk EXCEPT ![t] = [pc |-> "idle", in |-> "pipe", sock |-> NoFd, api |-> NoApi]]

(* An exception leaves a handler: _process_thread_handle catches it, from the
   other handlers it reaches CEventThread::thread_run, which calls exit(0).  *)
Escape(t) == Return(t) /\ exited' = (wk[t].in # "pipe")

(* Mutation: an error is answered even when sending the answer failed. *)
CatchAt_AlwaysError(n) == "error"

(* The handlers' catch clauses: an error is written to the client, unless that is
   what failed.                                                              *)
CatchAt(n) == IF sock[n].status # "SEND" THEN "error" ELSE "fini"

----------------------------------------------------------------------------
(* The accept thread: _process_accept, _choose_thread, CClientSocket::init. *)

Accept ==
    /\ acc.pc = "idle" /\ acc.seq < MaxAccepts
    /\ \E n \in Fd :
          /\ AcceptFd(n, acc.seq + 1)
          /\ acc' = [acc EXCEPT !.pc = "init", !.fd = n]
    /\ UNCHANGED <<sock, api, pipe, queue, epoll, wk, faults, exited, torn>>

NextThread == IF acc.next + 1 >= NumThreads - 1 THEN 0 ELSE acc.next + 1

(* The thread and the sequence number are used up even when init throws.  That it
   throws for a thread left behind in the object is never reached.           *)
InitSocket ==
    LET n == acc.fd IN
    /\ acc.pc = "init" /\ ~sock[n].fd /\ sock[n].thread = NoThread
    /\ \/ /\ sock' = [sock EXCEPT ![n] = [fd |-> TRUE, status |-> "READ", thread |-> acc.next,
                                          seq |-> acc.seq + 1, api |-> sock[n].api]]
          /\ acc' = [acc EXCEPT !.pc = "pipe", !.seq = @ + 1, !.next = NextThread]
          /\ UNCHANGED faults
       \/ /\ Fault("init")                       \* getpeername: the client is gone
          /\ sock' = [sock EXCEPT ![n].fd = TRUE]
          /\ acc' = [acc EXCEPT !.pc = "close1", !.seq = @ + 1, !.next = NextThread]
    /\ UNCHANGED <<file, api, pipe, queue, epoll, wk, exited, torn>>

(* A socket object that is still in use fails the assertion of init, which aborts. *)
InitAborts ==
    /\ acc.pc = "init" /\ sock[acc.fd].fd
    /\ exited' = TRUE
    /\ UNCHANGED <<file, sock, api, pipe, queue, epoll, acc, wk, faults, torn>>

(* The message goes to the thread chosen before init; a full pipe blocks. *)
WritePipe ==
    LET n == acc.fd  t == sock[n].thread IN
    /\ acc.pc = "pipe"
    /\ \/ /\ Len(pipe[t]) < PipeSize
          /\ pipe' = [pipe EXCEPT ![t] = Append(@, [fd |-> n, seq |-> sock[n].seq])]
          /\ acc' = [acc EXCEPT !.pc = "idle", !.fd = NoFd]
          /\ UNCHANGED faults
       \/ /\ Fault("pipe")
          /\ acc' = [acc EXCEPT !.pc = "close1"]
          /\ UNCHANGED pipe
    /\ UNCHANGED <<file, sock, api, queue, epoll, wk, exited, torn>>

(* The catch clause: close(client_fd), then fini, which closes _fd. *)
CloseClientFd ==
    /\ acc.pc = "close1"
    /\ CloseFile(acc.fd)
    /\ acc' = [acc EXCEPT !.pc = "fini"]
    /\ UNCHANGED <<sock, api, pipe, queue, wk, faults, exited, torn>>

FiniAccepted ==
    LET n == acc.fd IN
    /\ acc.pc = "fini"
    /\ sock' = [sock EXCEPT ![n] = Reset(@)]
    /\ acc' = IF sock[n].fd THEN [acc EXCEPT !.pc = "close2"]
                            ELSE [acc EXCEPT !.pc = "idle", !.fd = NoFd]
    /\ UNCHANGED <<file, api, pipe, queue, epoll, wk, faults, exited, torn>>

(* The second close: in between the number may have been given to an api. *)
CloseAccepted ==
    /\ acc.pc = "close2"
    /\ CloseFile(acc.fd)
    /\ torn' = (torn \/ Open(acc.fd))
    /\ acc' = [acc EXCEPT !.pc = "idle", !.fd = NoFd]
    /\ UNCHANGED <<sock, api, pipe, queue, wk, faults, exited>>

----------------------------------------------------------------------------
(* A process thread reads its pipe: _process_dispatch. *)

(* The sequence number matches and the address may use the relay. *)
StartReading(t) ==
    LET m == Head(pipe[t])  n == m.fd IN
    /\ wk[t].pc = "idle" /\ pipe[t] # <<>>
    /\ m.seq = sock[n].seq /\ HasThread(n)
    /\ pipe' = [pipe EXCEPT ![t] = Tail(@)]
    /\ \/ Added(sock[n].thread, RecvEvent(n)) /\ UNCHANGED wk
       \/ /\ NotAdded(sock[n].thread, RecvEvent(n))
          /\ wk' = [wk EXCEPT ![t] = [pc |-> CatchAt(n), in |-> "pipe", sock |-> n, api |-> NoApi]]
    /\ UNCHANGED <<file, sock, api, acc, exited>>

(* It does not match, or access is denied. *)
RefuseClient(t) ==
    LET n == Head(pipe[t]).fd IN
    /\ wk[t].pc = "idle" /\ pipe[t] # <<>>
    /\ pipe' = [pipe EXCEPT ![t] = Tail(@)]
    /\ wk' = [wk EXCEPT ![t] = [pc |-> CatchAt(n), in |-> "pipe", sock |-> n, api |-> NoApi]]
    /\ UNCHANGED <<file, sock, api, queue, epoll, acc, faults, exited, torn>>

----------------------------------------------------------------------------
(* An event of a client: _dispatch_handler and _thread_dispatch.  Reading or
   sending a part changes nothing here.  _get_thread_no throws for a socket that
   was released; the property HandlersFindClient says that it never does.     *)

Fired(t, e) == wk[t].pc = "idle" /\ e \in queue[t] /\ e.fd \in epoll[t]

Enter(t, pc, in, n, a) == wk' = [wk EXCEPT ![t] = [pc |-> pc, in |-> in, sock |-> n, api |-> a]]

(* The request is complete; it is refused, or an api is looked for. *)
Received(t, e) ==
    LET n == e.fd IN
    /\ Fired(t, e) /\ e.what = "recv" /\ HasThread(n)
    /\ StatusIs(n, "READ")
    /\ sock' = [sock EXCEPT ![n].status = "PROCESS"]
    /\ DelEvent(sock[n].thread, e)
    /\ \E pc \in {"call", "error"} : Enter(t, pc, "dispatch", n, NoApi)
    /\ UNCHANGED <<file, api, pipe, acc, faults, exited, torn>>

(* The answer is out: OVER, then fini. *)
Answered(t, e) ==
    LET n == e.fd IN
    /\ Fired(t, e) /\ e.what = "send" /\ HasThread(n)
    /\ StatusIs(n, "SEND")
    /\ sock' = [sock EXCEPT ![n].status = "OVER"]
    /\ DelEvent(sock[n].thread, e)
    /\ Enter(t, "fini", "dispatch", n, NoApi)
    /\ UNCHANGED <<file, api, pipe, acc, faults, exited, torn>>

(* Mutation: the event is not deleted before the error is written. *)
ClientFails_KeepsEvent(t, e) ==
    LET n == e.fd IN
    /\ Fired(t, e) /\ e.what \in {"recv", "send"} /\ HasThread(n)
    /\ Enter(t, CatchAt(n), "dispatch", n, NoApi)
    /\ UNCHANGED <<file, sock, api, pipe, queue, epoll, acc, faults, exited, torn>>

(* The client is gone, its packet is bad, or the status is not the expected. *)
ClientFails(t, e) ==
    LET n == e.fd IN
    /\ Fired(t, e) /\ e.what \in {"recv", "send"} /\ HasThread(n)
    /\ DelEvent(sock[n].thread, e)
    /\ Enter(t, CatchAt(n), "dispatch", n, NoApi)
    /\ UNCHANGED <<file, sock, api, pipe, acc, faults, exited, torn>>

----------------------------------------------------------------------------
(* _call_server: take an api, connect it unless it is connected, and wait. *)

(* CApiPool::get; set_used closes a connection that is no longer alive. *)
CallServer(t) ==
    LET n == wk[t].sock IN
    /\ wk[t].pc = "call"
    /\ \E a \in Api, tcpOk \in BOOLEAN :
          /\ ~api[a].used
          /\ IF api[a].fd # NoFd /\ ~tcpOk
             THEN /\ CloseFile(api[a].fd)
                  /\ api' = [api EXCEPT ![a] = [fd |-> NoFd, used |-> TRUE, seq |-> sock[n].seq]]
             ELSE /\ api' = [api EXCEPT ![a].used = TRUE, ![a].seq = sock[n].seq]
                  /\ UNCHANGED <<file, epoll>>
          /\ sock' = [sock EXCEPT ![n].api = a]
          /\ wk' = [wk EXCEPT ![t].pc = "connect", ![t].api = a]
    /\ UNCHANGED <<pipe, queue, acc, faults, exited, torn>>

(* BUSY, or no site or node in the configuration. *)
NoApiToCall(t) ==
    /\ wk[t].pc = "call"
    /\ Goto(t, "error")
    /\ UNCHANGED <<file, sock, api, pipe, queue, epoll, acc, faults, exited, torn>>

Connect(t) ==
    LET a == wk[t].api IN
    /\ wk[t].pc = "connect"
    /\ IF api[a].fd # NoFd
       THEN UNCHANGED <<file, api>>
       ELSE \E m \in Fd :
               /\ ApiFd(m, a)
               /\ api' = [api EXCEPT ![a].fd = m]
    /\ Goto(t, "register")
    /\ UNCHANGED <<sock, pipe, queue, epoll, acc, faults, exited, torn>>

ConnectFails(t) ==
    /\ wk[t].pc = "connect"
    /\ Goto(t, "release")
    /\ UNCHANGED <<file, sock, api, pipe, queue, epoll, acc, faults, exited, torn>>

Register(t) ==
    LET n == wk[t].sock  e == ServiceEvent(api[wk[t].api].fd, n) IN
    /\ wk[t].pc = "register"
    /\ \/ Added(sock[n].thread, e) /\ Return(t)
       \/ NotAdded(sock[n].thread, e) /\ Goto(t, "release")
    /\ UNCHANGED <<file, sock, api, pipe, acc, exited>>

----------------------------------------------------------------------------
(* An event of an api: _service_handler and _service_dispatch. *)

(* Mutation: the event is not deleted before the api is given back. *)
ServiceAnswers_KeepsEvent(t, e) ==
    LET n == e.sock  a == sock[n].api IN
    /\ Fired(t, e) /\ e.what = "service" /\ HasThread(n) /\ a # NoApi
    /\ api[a].seq = sock[n].seq
    /\ Enter(t, "giveback", "service", n, a)
    /\ UNCHANGED <<file, sock, api, pipe, queue, epoll, acc, faults, exited, torn>>

(* The answer is complete and belongs to the client of the call. *)
ServiceAnswers(t, e) ==
    LET n == e.sock  a == sock[n].api IN
    /\ Fired(t, e) /\ e.what = "service" /\ HasThread(n) /\ a # NoApi
    /\ api[a].seq = sock[n].seq
    /\ DelEvent(sock[n].thread, e)
    /\ Enter(t, "giveback", "service", n, a)
    /\ UNCHANGED <<file, sock, api, pipe, acc, faults, exited, torn>>

(* It belongs to another: the api is given back and the client left alone. *)
ServiceForeign(t, e) ==
    LET n == e.sock  a == sock[n].api IN
    /\ Fired(t, e) /\ e.what = "service" /\ HasThread(n) /\ a # NoApi
    /\ api[a].seq # sock[n].seq
    /\ DelEvent(sock[n].thread, e)
    /\ Enter(t, "leave", "service", n, a)
    /\ UNCHANGED <<file, sock, api, pipe, acc, faults, exited, torn>>

LeaveClient(t) ==
    /\ wk[t].pc = "leave"
    /\ SetFree(wk[t].api, FALSE)
    /\ Return(t)
    /\ UNCHANGED <<sock, pipe, queue, acc, faults, exited, torn>>

(* The connection fails, or its answer cannot be read. *)
ServiceFails(t, e) ==
    LET n == e.sock  a == sock[n].api IN
    /\ Fired(t, e) /\ e.what = "service" /\ HasThread(n) /\ a # NoApi
    /\ DelEvent(sock[n].thread, e)
    /\ Enter(t, "release", "service", n, a)
    /\ UNCHANGED <<file, sock, api, pipe, acc, faults, exited, torn>>

GiveBack(t) ==
    /\ wk[t].pc = "giveback"
    /\ SetFree(wk[t].api, FALSE)
    /\ sock' = [sock EXCEPT ![wk[t].sock].api = NoApi]
    /\ Goto(t, "reply")
    /\ UNCHANGED <<pipe, queue, acc, faults, exited, torn>>

(* The catch clauses: the api is closed and given back. *)
ReleaseApi(t) ==
    /\ wk[t].pc = "release"
    /\ SetFree(wk[t].api, TRUE)
    /\ sock' = [sock EXCEPT ![wk[t].sock].api = NoApi]
    /\ Goto(t, "error")
    /\ UNCHANGED <<pipe, queue, acc, faults, exited, torn>>

(* The answer is queued to the client.  For a result that is not 0 the function number
   and its site are looked up, which throws when a reload has them emptied.      *)
Reply(t) ==
    LET n == wk[t].sock IN
    /\ wk[t].pc = "reply" /\ HasThread(n)
    /\ \/ /\ sock' = [sock EXCEPT ![n].status = "SEND"]
          /\ \/ Added(sock[n].thread, SendEvent(n)) /\ Return(t)
             \/ NotAdded(sock[n].thread, SendEvent(n)) /\ Goto(t, "again")
       \/ Fault("lookup") /\ Goto(t, "again") /\ UNCHANGED <<sock, queue, epoll, torn>>
    /\ UNCHANGED <<file, api, pipe, acc, exited>>

(* The catch clause of _service_handler: the api is closed and given back once more,
   under another call that may have it by now.                                 *)
FreeAgain(t) ==
    /\ wk[t].pc = "again"
    /\ SetFree(wk[t].api, TRUE)
    /\ torn' = (torn \/ api[wk[t].api].used)
    /\ sock' = [sock EXCEPT ![wk[t].sock].api = NoApi]
    /\ Goto(t, "error")
    /\ UNCHANGED <<pipe, queue, acc, faults, exited>>

(* _write_error: called from catch clauses, what it throws leaves the handler.  The site
   is looked up before the error is encoded.                                   *)
WriteError(t) ==
    LET n == wk[t].sock IN
    /\ wk[t].pc = "error" /\ HasThread(n)
    /\ \/ /\ sock' = [sock EXCEPT ![n].status = "SEND"]
          /\ \/ Added(sock[n].thread, SendEvent(n)) /\ Return(t) /\ UNCHANGED exited
             \/ NotAdded(sock[n].thread, SendEvent(n)) /\ Escape(t)
       \/ /\ Fault("lookup") /\ Escape(t)
          /\ torn' = TRUE
          /\ UNCHANGED <<sock, queue, epoll>>
    /\ UNCHANGED <<file, api, pipe, acc>>

(* Mutation: the descriptor is closed, the object is not reset. *)
Fini_NoReset(t) ==
    /\ wk[t].pc = "fini"
    /\ IF sock[wk[t].sock].fd THEN Goto(t, "close") ELSE Return(t)
    /\ UNCHANGED <<file, sock, api, pipe, queue, epoll, acc, faults, exited, torn>>

(* CClientSocket::fini: the object is reset, then its descriptor is closed. *)
Fini(t) ==
    LET n == wk[t].sock IN
    /\ wk[t].pc = "fini"
    /\ sock' = [sock EXCEPT ![n] = Reset(@)]
    /\ IF sock[n].fd THEN Goto(t, "close") ELSE Return(t)
    /\ UNCHANGED <<file, api, pipe, queue, epoll, acc, faults, exited, torn>>

CloseSocket(t) ==
    /\ wk[t].pc = "close"
    /\ CloseFile(wk[t].sock)
    /\ Return(t)
    /\ UNCHANGED <<sock, api, pipe, queue, acc, faults, exited, torn>>

----------------------------------------------------------------------------
AcceptThread ==
    \/ Accept \/ InitSocket \/ InitAborts \/ WritePipe
    \/ CloseClientFd \/ FiniAccepted \/ CloseAccepted

Handler(t, e) ==
    \/ Received(t, e) \/ Answered(t, e) \/ ClientFails(t, e)
    \/ ServiceAnswers(t, e) \/ ServiceForeign(t, e) \/ ServiceFails(t, e)

ProcessThread(t) ==
    \/ StartReading(t) \/ RefuseClient(t)
    \/ \E e \in queue[t] : Handler(t, e)
    \/ CallServer(t) \/ NoApiToCall(t) \/ Connect(t) \/ ConnectFails(t) \/ Register(t)
    \/ GiveBack(t) \/ LeaveClient(t) \/ ReleaseApi(t) \/ Reply(t)
    \/ FreeAgain(t) \/ WriteError(t)
    \/ Fini(t) \/ CloseSocket(t)

Next == ~exited /\ (AcceptThread \/ \E t \in Thread : ProcessThread(t))

Spec == Init /\ [][Next]_vars
=============================================================================

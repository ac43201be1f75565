----------------------------- MODULE EventLoop -----------------------------
(***************************************************************************)
(* The event loop of one thread: the ordered list of events                *)
(* (sys/event_queue.cpp), the epoll set that goes with it, and the loop    *)
(* that calls the handlers (sys/epoll_monitor.cpp, sys/event_base.cpp).    *)
(* RelayServer takes the list for a set of descriptors; here it is the     *)
(* linked list it is, and a handler is whatever the handlers of the relay  *)
(* may do to it: delete or change the event they were called for, close    *)
(* its descriptor before they delete it, and add others.                   *)
(*                                                                         *)
(* epoll_wait copies pointers to events out of the kernel; the loop uses   *)
(* them one by one while the handlers delete events and "new" may give the *)
(* same addresses out again.                                               *)
(***************************************************************************)
EXTENDS Integers, Sequences, FiniteSets

CONSTANTS
    Event,          \* addresses of CEventBase objects
    Pipe,           \* the event of the thread's pipe, which is EV_PERSIST
    End,            \* _tail, the sentinel at the end of the list
    NULL,
    Masks,          \* what the handlers ask for (relay_server.cpp:465, :901, :936, :979)
    MaxFd,          \* descriptor numbers are 0..MaxFd; 0 is the pipe
    BeatCount,      \* DEFAULT_BEAT_COUNT
    MaxFaults       \* how many epoll_ctl calls fail (bound)

ASSUME EventLoopAssumption ==
    /\ IsFiniteSet(Event) /\ Pipe \in Event /\ End \notin Event /\ NULL \notin Event \cup {End}
    /\ Masks \subseteq SUBSET {"READ", "WRITE", "TIMEOUT"}
    /\ MaxFd \in Nat /\ BeatCount \in Nat /\ MaxFaults \in Nat

VARIABLES
    live,           \* the CEventBase objects that are allocated
    fd, mask,       \* _fd and _event of each
    next, prev,     \* _next and _prev of each, and of the sentinel
    queued,         \* those with _in_queue set
    head, size,     \* of _event_queue
    file,           \* the descriptors that are open
    epoll,          \* the kernel's epoll set: data.ptr and events of each descriptor
    ready,          \* the descriptors whose peer lets them make progress
    pc,             \* where the loop is
    batch,          \* what the last epoll_wait returned and is not processed yet
    cur,            \* event_base, the event whose handler runs; NULL once deleted
    beats,          \* _heart_beat_count
    faults

list   == <<next, prev, queued, head, size>>
kernel == <<file, epoll, ready>>
loop   == <<pc, batch, cur, beats>>
vars   == <<live, fd, mask, list, kernel, loop, faults>>

Fd    == 0..MaxFd
Node  == Event \cup {End}
Flags == {"READ", "WRITE", "TIMEOUT", "PERSIST"}
Kinds == {"in", "out", "hup"}
Entry == [ptr : Event, what : SUBSET Kinds]

NotRegistered == [ptr |-> NULL, mask |-> {}]
PCs == {"top", "wait", "batch", "handler", "closed", "beat", "exited"}

TypeOK ==
    /\ live \subseteq Event /\ queued \subseteq Event
    /\ fd \in [Node -> Fd \cup {-1}]
    /\ mask \in [Event -> SUBSET Flags]
    /\ next \in [Node -> Node \cup {NULL}]
    /\ prev \in [Node -> Node \cup {NULL}]
    /\ head \in Node /\ size \in Int
    /\ file \subseteq Fd /\ ready \subseteq Fd
    /\ epoll \in [Fd -> [ptr : Event \cup {NULL}, mask : SUBSET Kinds]]
    /\ pc \in PCs
    /\ batch \in Seq(Entry)
    /\ cur \in Event \cup {NULL}
    /\ beats \in 0..BeatCount /\ faults \in 0..MaxFaults

----------------------------------------------------------------------------
(* Operators. *)

(* epoll_event.events of an event: add_fd, update_fd. *)
Wanted(m) == (IF "READ" \in m THEN {"in"} ELSE {}) \cup (IF "WRITE" \in m THEN {"out"} ELSE {})

Open(n) == n \in file

(* CEventBase::init: the object at an address that is free. *)
NewEvent(e, n, m) ==
    /\ live' = live \cup {e}
    /\ fd' = [fd EXCEPT ![e] = n]
    /\ mask' = [mask EXCEPT ![e] = m]

(* CEventBase::~CEventBase: the address is free again. *)
DeleteEvent(e) ==
    /\ live' = live \ {e}
    /\ fd' = [fd EXCEPT ![e] = -1]
    /\ mask' = [mask EXCEPT ![e] = {}]

(* CEventBase::update *)
Ask(e, m) == mask' = [mask EXCEPT ![e] = m]

(* add_fd: the kernel is given the pointer to the event. *)
AddFd(e, n, m) == epoll' = [epoll EXCEPT ![n] = [ptr |-> e, mask |-> Wanted(m)]]

(* update_fd *)
UpdateFd(e, m) == epoll' = [epoll EXCEPT ![fd[e]].mask = Wanted(m)]

(* An epoll_ctl that fails throws, and the kernel knows what it knew. *)
CtlFails == faults > 0 /\ faults' = faults - 1 /\ UNCHANGED epoll

(* Where the walk of CEventDecQueue::add stops: the element whose successor,
   perhaps the sentinel with its -1, is no longer greater.                   *)
Stops(p, n) == p \in queued /\ fd[p] > n /\ fd[next[p]] <= n

EqualFd(n) ==
    head # End /\ (fd[head] = n \/ (fd[head] > n /\ \E p \in Event : Stops(p, n) /\ fd[next[p]] = n))

(* CEventQueue::add *)
LinkFirst(e) ==
    /\ next' = [next EXCEPT ![e] = head]
    /\ prev' = [prev EXCEPT ![head] = e, ![e] = NULL]
    /\ head' = e

(* Mutation: the successor keeps its old predecessor. *)
LinkAfter_KeepsPrev(e, p) ==
    /\ next' = [next EXCEPT ![e] = next[p], ![p] = e]
    /\ prev' = [prev EXCEPT ![e] = p]
    /\ UNCHANGED head

(* CEventQueue::insert, between p and the element after it. *)
LinkAfter(e, p) ==
    /\ next' = [next EXCEPT ![e] = next[p], ![p] = e]
    /\ prev' = [prev EXCEPT ![next[p]] = e, ![e] = p]
    /\ UNCHANGED head

(* CEventDecQueue::add of a new event with descriptor n. *)
Link(e, n) ==
    /\ \/ (head = End \/ fd[head] < n) /\ LinkFirst(e)
       \/ /\ head # End /\ fd[head] > n
          /\ \E p \in Event : Stops(p, n) /\ LinkAfter(e, p)
    /\ queued' = queued \cup {e}
    /\ size' = size + 1

(* CEventQueue::del *)
Unlink(e) ==
    /\ IF e = head
       THEN /\ head' = next[e]
            /\ prev' = [prev EXCEPT ![next[e]] = NULL, ![e] = NULL]
            /\ next' = [next EXCEPT ![e] = NULL]
       ELSE /\ prev' = [prev EXCEPT ![next[e]] = prev[e], ![e] = NULL]
            /\ next' = [next EXCEPT ![prev[e]] = next[e], ![e] = NULL]
            /\ UNCHANGED head
    /\ queued' = queued \ {e}
    /\ size' = size - 1

----------------------------------------------------------------------------
(* main has initialised the thread and added the event of its pipe
   (_init_process_thread), and starts it.                                    *)
Init ==
    /\ live = {Pipe} /\ queued = {Pipe}
    /\ fd = [e \in Node |-> IF e = Pipe THEN 0 ELSE -1]
    /\ mask = [e \in Event |-> IF e = Pipe THEN {"READ", "PERSIST"} ELSE {}]
    /\ next = [e \in Node |-> IF e = Pipe THEN End ELSE NULL]
    /\ prev = [e \in Node |-> IF e = End THEN Pipe ELSE NULL]
    /\ head = Pipe /\ size = 1
    /\ file = {0} /\ ready = {}
    /\ epoll = [n \in Fd |-> IF n = 0 THEN [ptr |-> Pipe, mask |-> {"in"}] ELSE NotRegistered]
    /\ pc = "top" /\ batch = <<>> /\ cur = NULL /\ beats = 0 /\ faults = MaxFaults

----------------------------------------------------------------------------
(* CEpollMonitor::monitor_once. *)

Top ==
    /\ pc = "top"
    /\ pc' = IF size = 0 THEN "exited" ELSE "wait"      \* exit(-1)
    /\ UNCHANGED <<live, fd, mask, list, kernel, batch, cur, beats, faults>>

(* What epoll_wait may tell of a registered descriptor: level triggered, a
   hang-up whatever is asked for.                                            *)
Tells(n, what) ==
    /\ what \subseteq epoll[n].mask \cup {"hup"}
    /\ n \in ready => what \cap epoll[n].mask # {}
    /\ n \notin ready => what \cap epoll[n].mask = {}

(* epoll_wait, in the order of the kernel; nothing ready within 2000 ms and an
   error are an empty answer.                                                *)
Wait ==
    /\ pc = "wait"
    /\ \E told \in [{n \in Fd : epoll[n].ptr # NULL} -> SUBSET Kinds] :
          /\ \A n \in DOMAIN told : Tells(n, told[n])
          /\ LET some == {n \in DOMAIN told : told[n] # {}}
             IN \E order \in [1..Cardinality(some) -> some] :
                   /\ \A i, j \in 1..Cardinality(some) : order[i] = order[j] => i = j
                   /\ batch' = [i \in 1..Cardinality(some) |->
                                   [ptr |-> epoll[order[i]].ptr, what |-> told[order[i]]]]
    /\ pc' = "batch"
    /\ UNCHANGED <<live, fd, mask, list, kernel, cur, beats, faults>>

(* reset_event: EV_TIMEOUT is looked at only when neither reading nor writing
   is possible, that is for a hang-up, and never for EV_PERSIST.  How late it is
   is left open.                                                             *)
Active(e, what, late) ==
    (IF "in" \in what THEN {"READ"} ELSE {}) \cup (IF "out" \in what THEN {"WRITE"} ELSE {})
        \cup (IF what \cap {"in", "out"} = {} /\ late /\ "PERSIST" \notin mask[e]
              THEN {"TIMEOUT"} ELSE {})

(* process: handler_run calls the handler if what is active is still asked for. *)
Process ==
    /\ pc = "batch" /\ batch # <<>>
    /\ \E late \in BOOLEAN :
          LET e == Head(batch).ptr IN
          IF Active(e, Head(batch).what, late) \cap mask[e] # {}
          THEN pc' = "handler" /\ cur' = e
          ELSE UNCHANGED <<pc, cur>>
    /\ batch' = Tail(batch)
    /\ UNCHANGED <<live, fd, mask, list, kernel, beats, faults>>

BatchDone ==
    /\ pc = "batch" /\ batch = <<>>
    /\ pc' = "beat"
    /\ UNCHANGED <<live, fd, mask, list, kernel, batch, cur, beats, faults>>

(* Mutation: compared before it is counted. *)
Counted_After == IF beats > BeatCount THEN 0 ELSE beats + 1

(* ++_heart_beat_count, and back to 0 when it passes DEFAULT_BEAT_COUNT. *)
Counted == IF beats + 1 > BeatCount THEN 0 ELSE beats + 1

(* The heart beat handler runs when the count goes back to 0. *)
Beat ==
    /\ pc = "beat"
    /\ beats' = Counted
    /\ pc' = "top"
    /\ UNCHANGED <<live, fd, mask, list, kernel, batch, cur, faults>>

----------------------------------------------------------------------------
(* What a handler does. *)

InHandler == pc = "handler"

(* It reads or writes all it can. *)
Consume ==
    /\ InHandler /\ cur # NULL
    /\ ready' = ready \ {fd[cur]}
    /\ UNCHANGED <<live, fd, mask, list, file, epoll, loop, faults>>

(* CEpollMonitor::add, of an open descriptor that has no event in this loop.
   An equal descriptor throws and leaks the object; epoll_ctl may fail and
   leaves the event in the list.                                             *)
Add(n, m) ==
    /\ InHandler /\ Open(n) /\ epoll[n].ptr = NULL
    /\ \E e \in Event \ live :
          /\ NewEvent(e, n, m)
          /\ \/ EqualFd(n) /\ UNCHANGED <<list, epoll, faults>>
             \/ ~EqualFd(n) /\ Link(e, n)
                /\ \/ AddFd(e, n, m) /\ UNCHANGED faults
                   \/ CtlFails
    /\ UNCHANGED <<file, ready, loop>>

(* Mutation: the kernel is not told. *)
Update_ObjectOnly(m) ==
    /\ InHandler /\ cur # NULL /\ cur # Pipe
    /\ mask' = [mask EXCEPT ![cur] = m]
    /\ UNCHANGED <<live, fd, list, kernel, loop, faults>>

(* CEpollMonitor::update, which may fail after the object is changed. *)
Update(m) ==
    /\ InHandler /\ cur # NULL /\ cur # Pipe
    /\ Ask(cur, m)
    /\ \/ UpdateFd(cur, m) /\ UNCHANGED faults
       \/ CtlFails
    /\ UNCHANGED <<live, fd, list, file, ready, loop>>

(* The handler closes the descriptor of its event, which it then deletes. *)
CloseOwn ==
    /\ InHandler /\ cur # NULL /\ cur # Pipe
    /\ file' = file \ {fd[cur]} /\ ready' = ready \ {fd[cur]}
    /\ epoll' = [epoll EXCEPT ![fd[cur]] = NotRegistered]
    /\ pc' = "closed"
    /\ UNCHANGED <<live, fd, mask, list, batch, cur, beats, faults>>

(* Mutation: the descriptor stays in the epoll set. *)
DelFd_Keeps(e) == UNCHANGED epoll

(* del_fd: what was closed before is no longer in the epoll set, which is not an
   error, and may have been opened again since by another thread.            *)
DelFd(e) ==
    IF epoll[fd[e]].ptr # NULL
    THEN epoll' = [epoll EXCEPT ![fd[e]] = NotRegistered]
    ELSE UNCHANGED epoll

(* Mutation: an EV_PERSIST event is deleted as well. *)
Kept_Never(e) == e \notin queued

(* What CEpollMonitor::del leaves alone. *)
Kept(e) == e \notin queued \/ "PERSIST" \in mask[e]

(* CEpollMonitor::del *)
DelOwn ==
    /\ pc \in {"handler", "closed"} /\ cur # NULL
    /\ ~Kept(cur)
    /\ Unlink(cur)
    /\ DelFd(cur)
    /\ DeleteEvent(cur)
    /\ cur' = NULL /\ pc' = "handler"
    /\ UNCHANGED <<file, ready, batch, beats, faults>>

Return ==
    /\ InHandler
    /\ pc' = "batch" /\ cur' = NULL
    /\ UNCHANGED <<live, fd, mask, list, kernel, batch, beats, faults>>

----------------------------------------------------------------------------
(* The other threads and the peers: a descriptor is opened (accept, socket)
   or closed (an api kept in a pool), if it has no event here; a peer writes,
   reads or hangs up.                                                        *)

OpenFd(n) ==
    /\ ~Open(n)
    /\ file' = file \cup {n}
    /\ UNCHANGED <<live, fd, mask, list, epoll, ready, loop, faults>>

CloseFd(n) ==
    /\ Open(n) /\ epoll[n].ptr = NULL
    /\ file' = file \ {n} /\ ready' = ready \ {n}
    /\ UNCHANGED <<live, fd, mask, list, epoll, loop, faults>>

Ready(n) ==
    /\ Open(n) /\ n \notin ready
    /\ ready' = ready \cup {n}
    /\ UNCHANGED <<live, fd, mask, list, file, epoll, loop, faults>>

Running == Top \/ Wait \/ Process \/ BatchDone \/ Beat

Next ==
    \/ Running \/ Consume \/ CloseOwn \/ DelOwn \/ Return
    \/ \E m \in Masks : Update(m)
    \/ \E n \in Fd : OpenFd(n) \/ CloseFd(n) \/ Ready(n) \/ \E m \in Masks : Add(n, m)

Spec == Init /\ [][Next]_vars

(* The thread runs, and no handler stays: what it waits for it waits for with
   an event, and after it closed its descriptor it deletes the event.        *)
FairSpec == Spec /\ WF_vars(Running) /\ WF_vars(Return) /\ WF_vars(pc = "closed" /\ DelOwn)
=============================================================================

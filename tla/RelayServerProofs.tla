------------------------- MODULE RelayServerProofs -------------------------
(* Proofs about RelayServer for every number of threads, descriptors, apis and
   clients: its types; with CarryInv that each client is carried on by exactly one
   of the threads, which acts on what is its own, until a failure tears something; with
   FilesInv and HeldInv what is left of that afterwards; with ConnInv that without
   failures every connection goes through the stages of ConnLife.              *)
EXTENDS RelayServerProps, FiniteSetTheorems, SequenceTheorems, TLAPS

(* What TypeOK does not say of the program counters. *)
WithApi == {"connect", "register", "giveback", "leave", "reply", "again", "release"}
AccFit ==
    /\ acc.pc # "idle" => acc.fd \in Fd
    /\ acc.pc = "init" => acc.seq < MaxAccepts
WkFit ==
    \A t \in Thread :
       /\ wk[t].pc # "idle" => wk[t].sock \in Fd
       /\ wk[t].pc \in WithApi => wk[t].api \in Api
PCsFit == AccFit /\ WkFit
TypeInv == TypeOK /\ PCsFit

USE RelayServerAssumption

(* The values that the code writes into the descriptor table are files. *)
LEMMA FileMembers ==
  /\ Closed \in File
  /\ \A k \in 1..MaxAccepts : ClientFile(k) \in File
  /\ \A a \in Api : ApiFile(a) \in File
  BY DEF File

(* What the code writes into the objects. *)
LEMMA SocketTypes ==
  ASSUME NEW s \in Socket
  PROVE  /\ Reset(s) \in Socket
         /\ [s EXCEPT !.fd = TRUE] \in Socket
         /\ \A x \in {"READ", "PROCESS", "SEND", "OVER"} : [s EXCEPT !.status = x] \in Socket
         /\ \A a \in Api \cup {NoApi} : [s EXCEPT !.api = a] \in Socket
         /\ \A t \in Thread, k \in 0..MaxAccepts :
               [fd |-> TRUE, status |-> "READ", thread |-> t, seq |-> k, api |-> s.api] \in Socket
         /\ s.seq \in 0..MaxAccepts /\ s.thread \in Thread \cup {NoThread} /\ s.api \in Api \cup {NoApi}
  BY DEF Socket, Reset

(* What the calls and releases write into an api is an api. *)
LEMMA ApiTypes ==
  ASSUME NEW o \in ApiObject
  PROVE  /\ \A m \in Fd : [o EXCEPT !.fd = m] \in ApiObject
         /\ \A k \in 0..MaxAccepts : [o EXCEPT !.used = TRUE, !.seq = k] \in ApiObject
         /\ \A k \in 0..MaxAccepts : [fd |-> NoFd, used |-> TRUE, seq |-> k] \in ApiObject
         /\ [o EXCEPT !.used = FALSE, !.seq = 0] \in ApiObject
         /\ [fd |-> NoFd, used |-> FALSE, seq |-> 0] \in ApiObject
         /\ o.fd \in Fd \cup {NoFd}
  <1>1. \A m \in Fd : [o EXCEPT !.fd = m] \in ApiObject
    BY DEF ApiObject
  <1>2. ASSUME NEW k \in 0..MaxAccepts
        PROVE  /\ [o EXCEPT !.used = TRUE, !.seq = k] \in ApiObject
               /\ [fd |-> NoFd, used |-> TRUE, seq |-> k] \in ApiObject
    BY DEF ApiObject
  <1>3. [o EXCEPT !.used = FALSE, !.seq = 0] \in ApiObject
    <2>1. ASSUME NEW k \in 0..MaxAccepts PROVE [o EXCEPT !.used = FALSE, !.seq = k] \in ApiObject
      BY DEF ApiObject
    <2>2. 0 \in 0..MaxAccepts
      OBVIOUS
    <2> QED  BY <2>1, <2>2, Zenon
  <1>4. [fd |-> NoFd, used |-> FALSE, seq |-> 0] \in ApiObject
    BY DEF ApiObject
  <1>5. o.fd \in Fd \cup {NoFd}
    BY DEF ApiObject
  <1> QED  BY <1>1, <1>2, <1>3, <1>4, <1>5

(* The three kinds of events are events. *)
LEMMA EventTypes ==
  ASSUME NEW n \in Fd, NEW m \in Fd \cup {NoFd}
  PROVE  RecvEvent(n) \in Event /\ SendEvent(n) \in Event /\ ServiceEvent(m, n) \in Event
  BY DEF RecvEvent, SendEvent, ServiceEvent, Event

(* Closing a file keeps the types. *)
LEMMA CloseFileType ==
  ASSUME TypeOK, NEW n, CloseFile(n)
  PROVE  file' \in [Fd -> File] /\ epoll' \in [Thread -> SUBSET Fd]
  BY FileMembers DEF TypeOK, CloseFile

(* So does CEpollMonitor::add when it succeeds ... *)
LEMMA AddedType ==
  ASSUME TypeOK, NEW t, NEW e \in Event, Added(t, e)
  PROVE  /\ queue' \in [Thread -> SUBSET Event] /\ epoll' \in [Thread -> SUBSET Fd]
         /\ faults' \in 0..MaxFaults /\ torn' \in BOOLEAN
  BY DEF TypeOK, Added, Open

(* ... a system call that fails ... *)
LEMMA FaultType ==
  ASSUME TypeOK, NEW kind, Fault(kind)
  PROVE  faults' \in 0..MaxFaults
  BY DEF TypeOK, Fault

(* ... add when it throws ... *)
LEMMA NotAddedType ==
  ASSUME TypeOK, NEW t, NEW e \in Event, NotAdded(t, e)
  PROVE  /\ queue' \in [Thread -> SUBSET Event] /\ epoll' \in [Thread -> SUBSET Fd]
         /\ faults' \in 0..MaxFaults /\ torn' \in BOOLEAN
  <1>1. queue' = queue \/ queue' = [queue EXCEPT ![t] = @ \cup {e}]
    BY DEF NotAdded
  <1>2. queue' \in [Thread -> SUBSET Event]
    <2>1. queue \in [Thread -> SUBSET Event]
      BY DEF TypeOK
    <2>2. CASE queue' = [queue EXCEPT ![t] = @ \cup {e}]
      <3>1. t \in Thread => queue[t] \cup {e} \in SUBSET Event
        BY <2>1
      <3> QED  BY <2>1, <2>2, <3>1
    <2> QED  BY <1>1, <2>1, <2>2
  <1>3. faults' \in 0..MaxFaults
    BY FaultType DEF NotAdded, TypeOK
  <1>4. epoll' = epoll
    BY DEF NotAdded
  <1>5. torn' \in BOOLEAN
    <2>1. torn' = torn \/ torn' = TRUE
      BY DEF NotAdded
    <2> QED  BY <2>1 DEF TypeOK
  <1> QED  BY <1>2, <1>3, <1>4, <1>5 DEF TypeOK

(* ... and del. *)
LEMMA DelEventType ==
  ASSUME TypeOK, NEW t, NEW e, DelEvent(t, e)
  PROVE  queue' \in [Thread -> SUBSET Event] /\ epoll' \in [Thread -> SUBSET Fd]
  BY DEF TypeOK, DelEvent

(* CApiBase::set_free keeps the types. *)
LEMMA SetFreeType ==
  ASSUME TypeOK, NEW a \in Api, NEW close \in BOOLEAN, SetFree(a, close)
  PROVE  /\ file' \in [Fd -> File] /\ epoll' \in [Thread -> SUBSET Fd]
         /\ api' \in [Api -> ApiObject]
  <1>1. api' \in [Api -> ApiObject]
    <2>1. PICK o \in ApiObject : api' = [api EXCEPT ![a] = o]
      <3>1. [api[a] EXCEPT !.used = FALSE, !.seq = 0] \in ApiObject
        BY ApiTypes DEF TypeOK
      <3>2. [fd |-> NoFd, used |-> FALSE, seq |-> 0] \in ApiObject
        BY ApiTypes DEF TypeOK
      <3>3. \/ api' = [api EXCEPT ![a] = [fd |-> NoFd, used |-> FALSE, seq |-> 0]]
            \/ api' = [api EXCEPT ![a] = [api[a] EXCEPT !.used = FALSE, !.seq = 0]]
        BY DEF SetFree, TypeOK
      <3> QED  BY <3>1, <3>2, <3>3
    <2> QED  BY <2>1 DEF TypeOK
  <1>2. \/ CloseFile(api[a].fd)
        \/ UNCHANGED <<file, epoll>>
    BY DEF SetFree
  <1> QED  BY <1>1, <1>2, CloseFileType DEF TypeOK

(* A catch clause writes an error or closes the client socket. *)
LEMMA CatchAtType == \A n : CatchAt(n) \in {"error", "fini"}
  BY DEF CatchAt

AccType == [pc : AccPCs, fd : Fd \cup {NoFd}, seq : 0..MaxAccepts, next : Thread]

(* The accept thread keeps the type invariant. *)
LEMMA AccKeepsType ==
  ASSUME TypeInv, AcceptThread
  PROVE  TypeInv'
  <1>1. CASE Accept
    <2>1. acc.seq + 1 \in 1..MaxAccepts
      BY <1>1 DEF Accept, TypeInv, TypeOK
    <2>2. file' \in [Fd -> File]
      BY <1>1, <2>1, FileMembers DEF Accept, AcceptFd, TypeInv, TypeOK
    <2>3. acc' \in AccType
      BY <1>1 DEF Accept, TypeInv, TypeOK, AccPCs, AccType
    <2>4. PCsFit'
      BY <1>1 DEF Accept, TypeInv, TypeOK, PCsFit, AccFit, WkFit
    <2> QED  BY <1>1, <2>2, <2>3, <2>4 DEF Accept, TypeInv, TypeOK, AccType
  <1>2. CASE InitSocket
    <2>1. NextThread \in Thread
      BY DEF TypeInv, TypeOK, NextThread, Thread
    <2>2. acc.fd \in Fd /\ acc.seq + 1 \in 0..MaxAccepts
      BY <1>2 DEF InitSocket, TypeInv, TypeOK, PCsFit, AccFit, WkFit
    <2>3. sock' \in [Fd -> Socket]
      <3>1. acc.next \in Thread /\ sock[acc.fd] \in Socket
        BY <2>2 DEF TypeInv, TypeOK
      <3>2. PICK s \in Socket : sock' = [sock EXCEPT ![acc.fd] = s]
        <4>1. CASE sock' = [sock EXCEPT ![acc.fd] = [fd |-> TRUE, status |-> "READ", thread |-> acc.next,
                                          seq |-> acc.seq + 1, api |-> sock[acc.fd].api]]
          <5>1. [fd |-> TRUE, status |-> "READ", thread |-> acc.next,
                 seq |-> acc.seq + 1, api |-> sock[acc.fd].api] \in Socket
            BY <2>2, <3>1, SocketTypes
          <5> QED  BY <4>1, <5>1, Zenon
        <4>2. CASE sock' = [sock EXCEPT ![acc.fd].fd = TRUE]
          <5>1. [sock[acc.fd] EXCEPT !.fd = TRUE] \in Socket
            BY <3>1, SocketTypes
          <5> QED  BY <4>2, <5>1, Zenon
        <4> QED  BY <1>2, <4>1, <4>2, Zenon DEF InitSocket
      <3> QED  BY <3>2 DEF TypeInv, TypeOK
    <2>4. acc' \in AccType
      BY <1>2, <2>1, <2>2 DEF InitSocket, TypeInv, TypeOK, AccType, AccPCs
    <2>5. faults' \in 0..MaxFaults
      BY <1>2, FaultType DEF InitSocket, TypeInv, TypeOK
    <2>6. PCsFit'
      BY <1>2, <2>2 DEF InitSocket, TypeInv, TypeOK, PCsFit, AccFit, WkFit
    <2> QED  BY <1>2, <2>3, <2>4, <2>5, <2>6 DEF InitSocket, TypeInv, TypeOK, AccType
  <1>3. CASE WritePipe
    <2>1. acc.fd \in Fd /\ sock[acc.fd].seq \in 0..MaxAccepts
      BY <1>3 DEF WritePipe, TypeInv, TypeOK, PCsFit, AccFit, WkFit, Socket
    <2>2. \A t \in Thread : Append(pipe[t], [fd |-> acc.fd, seq |-> sock[acc.fd].seq]) \in Seq(Msg)
      BY <2>1, AppendProperties DEF TypeInv, TypeOK, Msg
    <2>3. pipe' \in [Thread -> Seq(Msg)]
      <3> DEFINE m == [fd |-> acc.fd, seq |-> sock[acc.fd].seq]
      <3> HIDE DEF m
      <3> DEFINE t == sock[acc.fd].thread
                 s == Append(pipe[t], m)
      <3>1. pipe' = [pipe EXCEPT ![t] = s] \/ pipe' = pipe
        BY <1>3, Zenon DEF WritePipe, m
      <3>2. t \in Thread => s \in Seq(Msg)
        BY <2>2 DEF m
      <3> HIDE DEF t, s
      <3> QED  BY <3>1, <3>2 DEF TypeInv, TypeOK
    <2>4. acc' \in AccType
      BY <1>3 DEF WritePipe, TypeInv, TypeOK, AccPCs, AccType
    <2>5. faults' \in 0..MaxFaults
      BY <1>3, FaultType DEF WritePipe, TypeInv, TypeOK
    <2>6. PCsFit'
      BY <1>3, <2>1 DEF WritePipe, TypeInv, TypeOK, PCsFit, AccFit, WkFit
    <2> QED  BY <1>3, <2>3, <2>4, <2>5, <2>6 DEF WritePipe, TypeInv, TypeOK, AccType
  <1>4. CASE CloseClientFd \/ CloseAccepted
    <2>1. acc' \in AccType
      BY <1>4 DEF CloseClientFd, CloseAccepted, TypeInv, TypeOK, AccPCs, AccType
    <2>2. PCsFit'
      BY <1>4 DEF CloseClientFd, CloseAccepted, TypeInv, TypeOK, PCsFit, AccFit, WkFit
    <2>3. CloseFile(acc.fd)
      BY <1>4 DEF CloseClientFd, CloseAccepted
    <2>4. torn' \in BOOLEAN
      <3>1. torn' = torn \/ torn' = (torn \/ Open(acc.fd))
        BY <1>4, Zenon DEF CloseClientFd, CloseAccepted
      <3> QED  BY <3>1, Zenon DEF TypeInv, TypeOK
    <2> QED
      BY <1>4, <2>1, <2>2, <2>3, <2>4, CloseFileType
      DEF CloseClientFd, CloseAccepted, TypeInv, TypeOK, AccType
  <1>5. CASE FiniAccepted
    <2>1. acc' \in AccType
      BY <1>5 DEF FiniAccepted, TypeInv, TypeOK, AccPCs, AccType
    <2>2. PCsFit'
      BY <1>5 DEF FiniAccepted, TypeInv, TypeOK, PCsFit, AccFit, WkFit
    <2>3. sock' \in [Fd -> Socket]
      BY <1>5, SocketTypes DEF FiniAccepted, TypeInv, TypeOK
    <2> QED  BY <1>5, <2>1, <2>2, <2>3 DEF FiniAccepted, TypeInv, TypeOK, AccType
  <1>6. CASE InitAborts
    <2>1. exited' \in BOOLEAN
      BY <1>6, Zenon DEF InitAborts
    <2> QED  BY <1>6, <2>1 DEF InitAborts, TypeInv, TypeOK, PCsFit, AccFit, WkFit
  <1> QED  BY <1>1, <1>2, <1>3, <1>4, <1>5, <1>6 DEF AcceptThread

WkType == [pc : WkPCs, in : {"pipe", "dispatch", "service"}, sock : Fd \cup {NoFd}, api : Api \cup {NoApi}]

(* Where a handler goes on, or that it is over. *)
LEMMA GotoFits ==
  ASSUME TypeInv, NEW t \in Thread, NEW pc \in WkPCs, Goto(t, pc), wk[t].pc # "idle",
         pc \in WithApi => wk[t].api \in Api
  PROVE  wk' \in [Thread -> WkType] /\ WkFit'
  <1>1. wk[t] \in WkType /\ wk[t].sock \in Fd
    BY DEF TypeInv, TypeOK, PCsFit, WkFit, WkType
  <1> DEFINE x == [wk[t] EXCEPT !.pc = pc]
  <1>2. x \in WkType /\ x.pc = pc /\ x.sock = wk[t].sock /\ x.api = wk[t].api
    BY <1>1 DEF WkType
  <1>3. wk' = [wk EXCEPT ![t] = x]
    BY DEF Goto
  <1> HIDE DEF x
  <1> QED  BY <1>1, <1>2, <1>3 DEF TypeInv, TypeOK, PCsFit, WkFit, WkType

(* Entering a handler with a client socket and its api ... *)
LEMMA EnterFits ==
  ASSUME TypeInv, NEW t \in Thread, NEW pc \in WkPCs, NEW in \in {"pipe", "dispatch", "service"},
         NEW n \in Fd, NEW a \in Api \cup {NoApi}, Enter(t, pc, in, n, a), pc \in WithApi => a \in Api
  PROVE  wk' \in [Thread -> WkType] /\ WkFit'
  BY DEF Enter, TypeInv, TypeOK, PCsFit, WkFit, WkType

(* ... and returning from it keep the program counter fit. *)
LEMMA ReturnFits ==
  ASSUME TypeInv, NEW t \in Thread, Return(t)
  PROVE  wk' \in [Thread -> WkType] /\ WkFit'
  BY DEF Return, TypeInv, TypeOK, PCsFit, WkFit, WkType, WkPCs, WithApi

(* Reading a message leaves a sequence of messages. *)
LEMMA PipeTypes ==
  ASSUME TypeInv, NEW t \in Thread, pipe[t] # <<>>
  PROVE  /\ Head(pipe[t]).fd \in Fd
         /\ pipe' = [pipe EXCEPT ![t] = Tail(@)] => pipe' \in [Thread -> Seq(Msg)]
  <1>1. Head(pipe[t]) \in Msg /\ Tail(pipe[t]) \in Seq(Msg)
    BY HeadTailProperties DEF TypeInv, TypeOK
  <1>2. Head(pipe[t]).fd \in Fd
    BY <1>1 DEF Msg
  <1> DEFINE s == Tail(pipe[t])
  <1>3. s \in Seq(Msg)
    BY <1>1
  <1> HIDE DEF s
  <1>4. pipe' = [pipe EXCEPT ![t] = s] => pipe' \in [Thread -> Seq(Msg)]
    BY <1>3 DEF TypeInv, TypeOK
  <1> QED  BY <1>2, <1>4 DEF s

(* The kinds of steps of a process thread. *)
ReadsPipe(t) == StartReading(t) \/ RefuseClient(t)
Handles(t)   == \E e \in queue[t] : Handler(t, e)
Calls(t)     == CallServer(t) \/ NoApiToCall(t) \/ Connect(t) \/ ConnectFails(t) \/ Register(t)
Releases(t)  == GiveBack(t) \/ LeaveClient(t) \/ ReleaseApi(t) \/ FreeAgain(t)
Answers(t)   == Reply(t) \/ WriteError(t) \/ Fini(t) \/ CloseSocket(t)

(* Every step of a process thread is of one of these kinds. *)
LEMMA Kinds ==
  ASSUME NEW t, ProcessThread(t)
  PROVE  ReadsPipe(t) \/ Handles(t) \/ Calls(t) \/ Releases(t) \/ Answers(t)
  BY DEF ProcessThread, ReadsPipe, Handles, Calls, Releases, Answers

(* The program counters that the steps write. *)
LEMMA PCMembers ==
  /\ WithApi \subseteq WkPCs
  /\ {"idle", "call", "error", "fini", "close"} \subseteq WkPCs
  /\ {"idle", "call", "error", "fini", "close"} \cap WithApi = {}
  BY DEF WithApi, WkPCs

(* _process_dispatch keeps the type invariant ... *)
LEMMA ReadsPipeType ==
  ASSUME TypeInv, NEW t \in Thread, ReadsPipe(t)
  PROVE  TypeInv'
  <1> DEFINE n == Head(pipe[t]).fd
  <1>1. n \in Fd /\ pipe' \in [Thread -> Seq(Msg)]
    BY PipeTypes DEF ReadsPipe, StartReading, RefuseClient
  <1>2. RecvEvent(n) \in Event /\ CatchAt(n) \in WkPCs \ (WithApi \cup {"idle"})
    BY <1>1, EventTypes, CatchAtType, PCMembers DEF TypeInv, TypeOK
  <1>3. wk' = wk \/ Enter(t, CatchAt(n), "pipe", n, NoApi)
    BY DEF ReadsPipe, StartReading, RefuseClient, Enter
  <1>4. wk' \in [Thread -> WkType] /\ WkFit'
    BY <1>1, <1>2, <1>3, EnterFits DEF TypeInv, TypeOK, PCsFit, WkFit, WkType
  <1>5. /\ queue' \in [Thread -> SUBSET Event] /\ epoll' \in [Thread -> SUBSET Fd]
        /\ faults' \in 0..MaxFaults /\ torn' \in BOOLEAN
    BY <1>1, <1>2, AddedType, NotAddedType DEF ReadsPipe, StartReading, RefuseClient, TypeInv, TypeOK
  <1> QED
    BY <1>1, <1>4, <1>5
    DEF ReadsPipe, StartReading, RefuseClient, TypeInv, TypeOK, PCsFit, AccFit, WkType

(* ... and so do the handlers of events ... *)
LEMMA HandlesType ==
  ASSUME TypeInv, NEW t \in Thread, Handles(t)
  PROVE  TypeInv'
  <1>1. PICK e \in queue[t] : Handler(t, e)
    BY DEF Handles
  <1>2. e \in Event /\ e.sock \in Fd
    BY <1>1 DEF TypeInv, TypeOK, Event
  <1>3. queue' \in [Thread -> SUBSET Event] /\ epoll' \in [Thread -> SUBSET Fd]
    BY <1>1, DelEventType
    DEF TypeInv, Handler, Received, Answered, ClientFails, ServiceAnswers, ServiceForeign, ServiceFails
  <1>4. CASE Received(t, e) \/ Answered(t, e) \/ ClientFails(t, e)
    <2>1. e.fd \in Fd
      BY <1>4, <1>2 DEF Received, Answered, ClientFails, Fired, TypeInv, TypeOK
    <2>2. PICK pc \in {"call", "error", "fini"} : Enter(t, pc, "dispatch", e.fd, NoApi)
      BY <1>4, CatchAtType DEF Received, Answered, ClientFails
    <2>3. wk' \in [Thread -> WkType] /\ WkFit'
      BY <2>1, <2>2, EnterFits, PCMembers
    <2>4. sock' \in [Fd -> Socket]
      <3>1. \/ sock' = sock
            \/ \E x \in {"PROCESS", "OVER"} : sock' = [sock EXCEPT ![e.fd] = [sock[e.fd] EXCEPT !.status = x]]
        BY <1>4 DEF Received, Answered, ClientFails
      <3>2. \A x \in {"PROCESS", "OVER"} : [sock[e.fd] EXCEPT !.status = x] \in Socket
        BY <2>1, SocketTypes DEF TypeInv, TypeOK
      <3> QED  BY <2>1, <3>1, <3>2 DEF TypeInv, TypeOK
    <2> QED
      BY <1>3, <1>4, <2>3, <2>4
      DEF Received, Answered, ClientFails, TypeInv, TypeOK, PCsFit, AccFit, WkType
  <1>5. CASE ServiceAnswers(t, e) \/ ServiceForeign(t, e) \/ ServiceFails(t, e)
    <2>1. sock[e.sock].api \in Api
      BY <1>2, <1>5, SocketTypes DEF ServiceAnswers, ServiceForeign, ServiceFails, TypeInv, TypeOK
    <2>2. PICK pc \in {"giveback", "leave", "release"} : Enter(t, pc, "service", e.sock, sock[e.sock].api)
      BY <1>5 DEF ServiceAnswers, ServiceForeign, ServiceFails
    <2>3. wk' \in [Thread -> WkType] /\ WkFit'
      BY <1>2, <2>1, <2>2, EnterFits, PCMembers DEF WithApi
    <2> QED
      BY <1>3, <1>5, <2>3
      DEF ServiceAnswers, ServiceForeign, ServiceFails, TypeInv, TypeOK, PCsFit, AccFit, WkType
  <1> QED  BY <1>1, <1>4, <1>5 DEF Handler

(* ... _call_server ... *)
LEMMA CallsType ==
  ASSUME TypeInv, NEW t \in Thread, Calls(t)
  PROVE  TypeInv'
  <1>1. CASE CallServer(t)
    <2>1. wk[t].sock \in Fd /\ sock[wk[t].sock] \in Socket
      BY <1>1 DEF CallServer, TypeInv, TypeOK, PCsFit, WkFit
    <2>2. PICK a \in Api :
             /\ sock' = [sock EXCEPT ![wk[t].sock] = [sock[wk[t].sock] EXCEPT !.api = a]]
             /\ wk' = [wk EXCEPT ![t] = [wk[t] EXCEPT !.pc = "connect", !.api = a]]
             /\ \/ /\ CloseFile(api[a].fd)
                   /\ api' = [api EXCEPT ![a] = [fd |-> NoFd, used |-> TRUE, seq |-> sock[wk[t].sock].seq]]
                \/ /\ api' = [api EXCEPT ![a] = [api[a] EXCEPT !.used = TRUE, !.seq = sock[wk[t].sock].seq]]
                   /\ UNCHANGED <<file, epoll>>
      <3>1. PICK a \in Api :
             /\ sock' = [sock EXCEPT ![wk[t].sock].api = a]
             /\ wk' = [wk EXCEPT ![t].pc = "connect", ![t].api = a]
             /\ \/ /\ CloseFile(api[a].fd)
                   /\ api' = [api EXCEPT ![a] = [fd |-> NoFd, used |-> TRUE, seq |-> sock[wk[t].sock].seq]]
                \/ /\ api' = [api EXCEPT ![a].used = TRUE, ![a].seq = sock[wk[t].sock].seq]
                   /\ UNCHANGED <<file, epoll>>
        BY <1>1, Zenon DEF CallServer
      <3>2. sock' = [sock EXCEPT ![wk[t].sock] = [sock[wk[t].sock] EXCEPT !.api = a]]
        BY <3>1
      <3>3. wk' = [wk EXCEPT ![t] = [wk[t] EXCEPT !.pc = "connect", !.api = a]]
        BY <3>1 DEF TypeInv, TypeOK
      <3>4. api' = [api EXCEPT ![a].used = TRUE, ![a].seq = sock[wk[t].sock].seq]
            => api' = [api EXCEPT ![a] = [api[a] EXCEPT !.used = TRUE, !.seq = sock[wk[t].sock].seq]]
        BY DEF TypeInv, TypeOK
      <3> QED  BY <3>1, <3>2, <3>3, <3>4, Zenon
    <2>3. sock' \in [Fd -> Socket]
      <3>1. [sock[wk[t].sock] EXCEPT !.api = a] \in Socket
        BY <2>1, SocketTypes
      <3> QED  BY <2>2, <3>1 DEF TypeInv, TypeOK
    <2>4. wk' \in [Thread -> WkType] /\ WkFit'
      <3> DEFINE x == [wk[t] EXCEPT !.pc = "connect", !.api = a]
      <3>1. x \in WkType /\ x.pc = "connect" /\ x.sock = wk[t].sock /\ x.api = a
        <4>1. wk[t] \in WkType /\ "connect" \in WkPCs /\ a \in Api
          BY PCMembers DEF TypeInv, TypeOK, WkType, WithApi
        <4> QED  BY <4>1 DEF WkType
      <3>2. wk' = [wk EXCEPT ![t] = x]
        BY <2>2
      <3> HIDE DEF x
      <3> QED  BY <2>1, <3>1, <3>2 DEF TypeInv, TypeOK, PCsFit, WkFit, WkType
    <2>5. api' \in [Api -> ApiObject]
      <3>1. api[a] \in ApiObject /\ sock[wk[t].sock].seq \in 0..MaxAccepts
        BY <2>1, SocketTypes DEF TypeInv, TypeOK
      <3>2. /\ [fd |-> NoFd, used |-> TRUE, seq |-> sock[wk[t].sock].seq] \in ApiObject
            /\ [api[a] EXCEPT !.used = TRUE, !.seq = sock[wk[t].sock].seq] \in ApiObject
        BY <3>1, ApiTypes, Zenon
      <3> QED  BY <2>2, <3>2 DEF TypeInv, TypeOK
    <2>6. file' \in [Fd -> File] /\ epoll' \in [Thread -> SUBSET Fd]
      BY <2>2, CloseFileType DEF TypeInv, TypeOK
    <2> QED
      BY <1>1, <2>3, <2>4, <2>5, <2>6 DEF CallServer, TypeInv, TypeOK, PCsFit, AccFit, WkType
  <1>2. CASE NoApiToCall(t) \/ ConnectFails(t)
    <2>1. \E pc \in {"error", "release"} : Goto(t, pc) /\ wk[t].pc # "idle" /\ (pc \in WithApi => wk[t].api \in Api)
      BY <1>2 DEF NoApiToCall, ConnectFails, TypeInv, PCsFit, WkFit, WithApi
    <2>2. wk' \in [Thread -> WkType] /\ WkFit'
      BY <2>1, GotoFits, PCMembers DEF WithApi
    <2> QED
      BY <1>2, <2>2 DEF NoApiToCall, ConnectFails, TypeInv, TypeOK, PCsFit, AccFit, WkType
  <1>3. CASE Connect(t)
    <2>1. wk[t].api \in Api
      BY <1>3 DEF Connect, TypeInv, PCsFit, WkFit, WithApi
    <2>2. wk' \in [Thread -> WkType] /\ WkFit'
      BY <1>3, <2>1, GotoFits, PCMembers DEF Connect, WithApi
    <2>3. CASE UNCHANGED <<file, api>>
      BY <1>3, <2>2, <2>3 DEF Connect, TypeInv, TypeOK, PCsFit, AccFit, WkType
    <2>4. ASSUME NEW m \in Fd, ApiFd(m, wk[t].api), api' = [api EXCEPT ![wk[t].api] = [@ EXCEPT !.fd = m]]
          PROVE  file' \in [Fd -> File] /\ api' \in [Api -> ApiObject]
      <3>1. [api[wk[t].api] EXCEPT !.fd = m] \in ApiObject
        BY <2>1, ApiTypes DEF TypeInv, TypeOK
      <3>2. file' \in [Fd -> File]
        BY <2>1, <2>4, FileMembers DEF ApiFd, TypeInv, TypeOK
      <3>3. api' \in [Api -> ApiObject]
        BY <2>1, <2>4, <3>1 DEF TypeInv, TypeOK
      <3> QED  BY <3>2, <3>3
    <2> QED
      BY <1>3, <2>2, <2>3, <2>4 DEF Connect, TypeInv, TypeOK, PCsFit, AccFit, WkType
  <1>4. CASE Register(t)
    <2> DEFINE e == ServiceEvent(api[wk[t].api].fd, wk[t].sock)
    <2>1. wk[t].api \in Api /\ wk[t].sock \in Fd
      BY <1>4 DEF Register, TypeInv, PCsFit, WkFit, WithApi
    <2>2. e \in Event
      BY <2>1, EventTypes, ApiTypes DEF TypeInv, TypeOK
    <2>3. wk' \in [Thread -> WkType] /\ WkFit'
      BY <1>4, <2>1, GotoFits, ReturnFits, PCMembers DEF Register, WithApi
    <2>4. /\ queue' \in [Thread -> SUBSET Event] /\ epoll' \in [Thread -> SUBSET Fd]
          /\ faults' \in 0..MaxFaults /\ torn' \in BOOLEAN
      BY <1>4, <2>2, AddedType, NotAddedType DEF Register, TypeInv
    <2> QED
      BY <1>4, <2>3, <2>4 DEF Register, TypeInv, TypeOK, PCsFit, AccFit, WkType
  <1> QED  BY <1>1, <1>2, <1>3, <1>4 DEF Calls

(* ... the releases of apis ... *)
LEMMA ReleasesType ==
  ASSUME TypeInv, NEW t \in Thread, Releases(t)
  PROVE  TypeInv'
  <1>1. wk[t].api \in Api /\ wk[t].sock \in Fd
    BY DEF Releases, GiveBack, LeaveClient, ReleaseApi, FreeAgain, TypeInv, PCsFit, WkFit, WithApi
  <1>2. /\ file' \in [Fd -> File] /\ epoll' \in [Thread -> SUBSET Fd]
        /\ api' \in [Api -> ApiObject]
    BY <1>1, SetFreeType DEF Releases, GiveBack, LeaveClient, ReleaseApi, FreeAgain, TypeInv
  <1>3. sock' \in [Fd -> Socket]
    <2>1. [sock[wk[t].sock] EXCEPT !.api = NoApi] \in Socket
      BY <1>1, SocketTypes DEF TypeInv, TypeOK
    <2>2. sock' = sock \/ sock' = [sock EXCEPT ![wk[t].sock] = [sock[wk[t].sock] EXCEPT !.api = NoApi]]
      BY DEF Releases, GiveBack, LeaveClient, ReleaseApi, FreeAgain
    <2> QED  BY <2>1, <2>2 DEF TypeInv, TypeOK
  <1>4. wk' \in [Thread -> WkType] /\ WkFit'
    BY <1>1, GotoFits, ReturnFits, PCMembers DEF Releases, GiveBack, LeaveClient, ReleaseApi, FreeAgain, WithApi
  <1>5. torn' \in BOOLEAN
    <2>1. torn' = torn \/ torn' = (torn \/ api[wk[t].api].used)
      BY Zenon DEF Releases, GiveBack, LeaveClient, ReleaseApi, FreeAgain
    <2>2. api[wk[t].api].used \in BOOLEAN
      BY <1>1 DEF TypeInv, TypeOK, ApiObject
    <2> QED  BY <2>1, <2>2, Zenon DEF TypeInv, TypeOK
  <1> QED
    BY <1>2, <1>3, <1>4, <1>5
    DEF Releases, GiveBack, LeaveClient, ReleaseApi, FreeAgain, TypeInv, TypeOK, PCsFit, AccFit, WkType

(* ... and the answers and fini. *)
LEMMA AnswersType ==
  ASSUME TypeInv, NEW t \in Thread, Answers(t)
  PROVE  TypeInv'
  <1>1. wk[t].sock \in Fd /\ sock[wk[t].sock] \in Socket
    BY DEF Answers, Reply, WriteError, Fini, CloseSocket, TypeInv, TypeOK, PCsFit, WkFit
  <1>2. CASE Reply(t) \/ WriteError(t)
    <2>1. SendEvent(wk[t].sock) \in Event
      BY <1>1, EventTypes
    <2>2. /\ queue' \in [Thread -> SUBSET Event] /\ epoll' \in [Thread -> SUBSET Fd]
          /\ faults' \in 0..MaxFaults /\ torn' \in BOOLEAN
      <3>1. CASE Fault("lookup") /\ UNCHANGED <<queue, epoll>> /\ torn' \in {torn, TRUE}
        BY <3>1, FaultType DEF TypeInv, TypeOK
      <3>2. \E u : Added(u, SendEvent(wk[t].sock)) \/ NotAdded(u, SendEvent(wk[t].sock))
               \/ (Fault("lookup") /\ UNCHANGED <<queue, epoll>> /\ torn' \in {torn, TRUE})
        BY <1>2 DEF Reply, WriteError
      <3> QED  BY <2>1, <3>1, <3>2, AddedType, NotAddedType DEF TypeInv
    <2>3. sock' \in [Fd -> Socket]
      <3>1. [sock[wk[t].sock] EXCEPT !.status = "SEND"] \in Socket
        BY <1>1, SocketTypes
      <3>2. sock' = sock \/ sock' = [sock EXCEPT ![wk[t].sock] = [sock[wk[t].sock] EXCEPT !.status = "SEND"]]
        BY <1>2 DEF Reply, WriteError
      <3> QED  BY <3>1, <3>2 DEF TypeInv, TypeOK
    <2>4. wk' \in [Thread -> WkType] /\ WkFit'
      <3>1. CASE Reply(t)
        <4>1. wk[t].api \in Api
          BY <3>1 DEF Reply, TypeInv, PCsFit, WkFit, WithApi
        <4>2. Goto(t, "again") \/ Return(t)
          BY <3>1 DEF Reply
        <4>3. wk[t].pc # "idle"
          BY <3>1 DEF Reply
        <4> QED  BY <4>1, <4>2, <4>3, GotoFits, ReturnFits, PCMembers DEF WithApi
      <3>2. CASE WriteError(t)
        BY <3>2, ReturnFits DEF WriteError, Escape
      <3> QED  BY <1>2, <3>1, <3>2
    <2>5. exited' \in BOOLEAN
      BY <1>2 DEF Reply, WriteError, Escape, TypeInv, TypeOK
    <2> QED
      BY <1>2, <2>2, <2>3, <2>4, <2>5 DEF Reply, WriteError, TypeInv, TypeOK, PCsFit, AccFit, WkType
  <1>3. CASE Fini(t)
    <2>1. wk' \in [Thread -> WkType] /\ WkFit'
      BY <1>3, GotoFits, ReturnFits, PCMembers DEF Fini
    <2>2. sock' \in [Fd -> Socket]
      BY <1>1, <1>3, SocketTypes DEF Fini, TypeInv, TypeOK
    <2> QED  BY <1>3, <2>1, <2>2 DEF Fini, TypeInv, TypeOK, PCsFit, AccFit, WkType
  <1>4. CASE CloseSocket(t)
    <2>1. wk' \in [Thread -> WkType] /\ WkFit'
      BY <1>4, ReturnFits DEF CloseSocket
    <2> QED
      BY <1>4, <2>1, CloseFileType DEF CloseSocket, TypeInv, TypeOK, PCsFit, AccFit, WkType
  <1> QED  BY <1>2, <1>3, <1>4 DEF Answers

(* The type invariant holds at first ... *)
LEMMA InitType == Init => TypeInv
  <1> SUFFICES ASSUME Init PROVE TypeInv
    OBVIOUS
  <1>1. sock \in [Fd -> Socket] /\ api \in [Api -> ApiObject]
    BY DEF Init, Socket, ApiObject
  <1>2. acc \in AccType /\ wk \in [Thread -> WkType]
    BY DEF Init, AccType, WkType, AccPCs, WkPCs, Thread
  <1>3. PCsFit
    BY DEF Init, PCsFit, AccFit, WkFit, WithApi
  <1>4. file \in [Fd -> File] /\ pipe \in [Thread -> Seq(Msg)]
    BY FileMembers DEF Init
  <1>5. queue \in [Thread -> SUBSET Event] /\ epoll \in [Thread -> SUBSET Fd]
    BY DEF Init
  <1>6. MaxFaults \in 0..MaxFaults
    OBVIOUS
  <1>7. faults \in 0..MaxFaults /\ exited \in BOOLEAN /\ torn \in BOOLEAN
    BY <1>6, Zenon DEF Init
  <1> QED  BY <1>1, <1>2, <1>3, <1>4, <1>5, <1>7 DEF TypeInv, TypeOK, AccType, WkType

(* ... and every step keeps it. *)
LEMMA NextType == TypeInv /\ [Next]_vars => TypeInv'
  <1> SUFFICES ASSUME TypeInv, [Next]_vars PROVE TypeInv'
    OBVIOUS
  <1>1. CASE UNCHANGED vars
    BY <1>1 DEF vars, TypeInv, TypeOK, PCsFit, AccFit, WkFit
  <1>2. CASE AcceptThread
    BY <1>2, AccKeepsType
  <1>3. ASSUME NEW t \in Thread, ProcessThread(t) PROVE TypeInv'
    BY <1>3, Kinds, ReadsPipeType, HandlesType, CallsType, ReleasesType, AnswersType
  <1> QED  BY <1>1, <1>2, <1>3 DEF Next

(* Every variable keeps its type, whatever fails. *)
THEOREM TypeCorrect == Spec => []TypeOK
  <1>1. TypeInv => TypeOK  BY DEF TypeInv
  <1> QED  BY <1>1, InitType, NextType, PTL DEF Spec

----------------------------------------------------------------------------
(* Until something is torn: who may carry a client on, and what each of them finds. *)

AcceptsSucceed == FaultKinds \subseteq {"epoll", "lookup"}
NoFaults       == FaultKinds = {}

(* A client socket that is open is its connection's, one that is not was reset. *)
SockOK(n) ==
    /\ sock[n].seq <= acc.seq
    /\ IF sock[n].fd
       THEN file[n] = ClientFile(sock[n].seq) /\ sock[n].thread \in Thread /\ sock[n].status # "FREE"
       ELSE sock[n].thread = NoThread /\ sock[n].status = "FREE" /\ sock[n].api = NoApi

(* The api of a client socket works for it alone. *)
ApiOK(n) ==
    sock[n].api # NoApi =>
       /\ sock[n].status = "PROCESS"
       /\ api[sock[n].api].used /\ api[sock[n].api].seq = sock[n].seq
       /\ \A m \in Fd : sock[m].api = sock[n].api => m = n

ApiFiles == \A a \in Api : api[a].fd # NoFd => file[api[a].fd] = ApiFile(a)

AccInv ==
    /\ acc.pc \in {"idle", "init", "pipe"}
    /\ acc.pc = "init" => ~sock[acc.fd].fd /\ file[acc.fd] = ClientFile(acc.seq + 1)
    /\ acc.pc = "pipe" =>
          /\ sock[acc.fd].fd /\ sock[acc.fd].seq = acc.seq
          /\ sock[acc.fd].status = "READ" /\ sock[acc.fd].api = NoApi

MsgOK(t, m) ==
    /\ sock[m.fd].fd /\ sock[m.fd].seq = m.seq /\ sock[m.fd].thread = t
    /\ sock[m.fd].status = "READ" /\ sock[m.fd].api = NoApi
PipeInv ==
    \A t \in Thread :
       Len(pipe[t]) <= PipeSize /\ \A i \in 1..Len(pipe[t]) : MsgOK(t, pipe[t][i])

EventOK(t, e) == LET n == e.sock IN
    /\ sock[n].fd /\ sock[n].thread = t /\ e.fd \in epoll[t]
    /\ e.what = "recv"    => e.fd = n /\ sock[n].status = "READ" /\ sock[n].api = NoApi
    /\ e.what = "send"    => e.fd = n /\ sock[n].status = "SEND"
    /\ e.what = "service" => sock[n].api # NoApi /\ api[sock[n].api].fd = e.fd

WorkOK(t) == LET n == wk[t].sock  pc == wk[t].pc IN
    /\ pc # "leave"
    /\ pc \notin {"idle", "close"} => sock[n].fd /\ sock[n].thread = t
    /\ pc \in {"call", "reply", "again"} => sock[n].status = "PROCESS" /\ sock[n].api = NoApi
    /\ pc \in {"connect", "register", "giveback", "release"} => sock[n].api = wk[t].api
    /\ pc = "register" => api[wk[t].api].fd # NoFd
    /\ pc = "error" => sock[n].status \in {"READ", "PROCESS"} /\ sock[n].api = NoApi
    /\ pc = "fini" => sock[n].status \in {"SEND", "OVER"}
    /\ pc = "close" => ~sock[n].fd /\ file[n] = ClientFile(sock[n].seq)

(* A client is carried on by one of them only ... *)
HasEvent(t, n) == \E e \in queue[t] : e.sock = n
HasMsg(t, n)   == \E i \in 1..Len(pipe[t]) : pipe[t][i].fd = n
Works(t, n)    == wk[t].pc # "idle" /\ wk[t].sock = n
Once(t) ==
    /\ acc.pc = "pipe" => ~HasMsg(t, acc.fd) /\ ~HasEvent(t, acc.fd) /\ ~Works(t, acc.fd)
    /\ \A i, j \in 1..Len(pipe[t]) : pipe[t][i].fd = pipe[t][j].fd => i = j
    /\ \A i \in 1..Len(pipe[t]) : ~HasEvent(t, pipe[t][i].fd) /\ ~Works(t, pipe[t][i].fd)
    /\ \A e \in queue[t] : ~Works(t, e.sock)
    /\ \A e, f \in queue[t] : e.sock = f.sock => e = f
    /\ \A u \in Thread :
          wk[t].pc = "close" /\ wk[u].pc = "close" /\ wk[t].sock = wk[u].sock => t = u

(* ... and by one of them for certain. *)
Some(n) ==
    sock[n].fd => \/ acc.pc = "pipe" /\ acc.fd = n
                  \/ \E t \in Thread : HasMsg(t, n) \/ HasEvent(t, n) \/ Works(t, n)

CarryInv ==
    /\ \A n \in Fd : SockOK(n) /\ ApiOK(n) /\ Some(n)
    /\ \A t \in Thread : WorkOK(t) /\ Once(t) /\ \A e \in queue[t] : EventOK(t, e)
    /\ ApiFiles /\ AccInv /\ PipeInv
    /\ ~exited

----------------------------------------------------------------------------
(* What TypeInv says of the members of the data. *)
Members ==
    /\ \A n \in Fd : sock[n].api \in Api \cup {NoApi} /\ sock[n].thread \in Thread \cup {NoThread}
                     /\ sock[n].seq \in Nat
    /\ \A a \in Api : api[a].fd \in Fd \cup {NoFd}
    /\ \A t \in Thread :
          /\ Len(pipe[t]) \in Nat /\ epoll[t] \subseteq Fd
          /\ \A i \in 1..Len(pipe[t]) : pipe[t][i].fd \in Fd
          /\ \A e \in queue[t] : e.sock \in Fd /\ e.what \in {"recv", "send", "service"}
          /\ wk[t].pc # "idle" => wk[t].sock \in Fd
          /\ wk[t].pc \in WithApi => wk[t].api \in Api
    /\ acc.pc # "idle" => acc.fd \in Fd
    /\ acc.seq \in Nat

(* The type invariant gives the members. *)
LEMMA TypeGivesMembers == TypeInv => Members
  <1> SUFFICES ASSUME TypeInv PROVE Members
    OBVIOUS
  <1>1. \A n \in Fd : sock[n].api \in Api \cup {NoApi} /\ sock[n].thread \in Thread \cup {NoThread}
                      /\ sock[n].seq \in Nat
    <2>1. \A n \in Fd : sock[n] \in Socket
      BY DEF TypeInv, TypeOK
    <2>2. \A k \in 0..MaxAccepts : k \in Nat
      OBVIOUS
    <2> QED  BY <2>1, <2>2, SocketTypes, Zenon
  <1>2. \A a \in Api : api[a].fd \in Fd \cup {NoFd}
    BY ApiTypes DEF TypeInv, TypeOK
  <1>3. ASSUME NEW t \in Thread
        PROVE  Len(pipe[t]) \in Nat /\ \A i \in 1..Len(pipe[t]) : pipe[t][i].fd \in Fd
    <2>1. pipe[t] \in Seq(Msg)
      BY DEF TypeInv, TypeOK
    <2>2. Len(pipe[t]) \in Nat /\ \A i \in 1..Len(pipe[t]) : pipe[t][i] \in Msg
      BY <2>1, LenProperties, ElementOfSeq
    <2> QED  BY <2>2 DEF Msg
  <1>4. \A t \in Thread, e \in Event : e \in queue[t] => e.sock \in Fd /\ e.what \in {"recv", "send", "service"}
    BY DEF Event
  <1>5. \A t \in Thread : queue[t] \subseteq Event /\ epoll[t] \subseteq Fd
    BY DEF TypeInv, TypeOK
  <1>6. (acc.pc # "idle" => acc.fd \in Fd) /\ acc.seq \in Nat
    BY DEF TypeInv, TypeOK, PCsFit, AccFit
  <1> QED  BY <1>1, <1>2, <1>3, <1>4, <1>5, <1>6 DEF TypeInv, PCsFit, WkFit, Members

(* What a descriptor stands for is one thing only. *)
LEMMA FileKinds ==
  /\ \A k : Closed # ClientFile(k)
  /\ \A a : Closed # ApiFile(a)
  /\ \A k, a : ClientFile(k) # ApiFile(a)
  /\ \A k, j : ClientFile(k) = ClientFile(j) => k = j
  /\ \A a, b : ApiFile(a) = ApiFile(b) => a = b
  BY DEF Closed, ClientFile, ApiFile

(* What an event is waiting at. *)
LEMMA EventFile ==
  ASSUME Members, CarryInv, NEW t \in Thread, NEW e \in queue[t]
  PROVE  /\ e.fd \in Fd
         /\ file[e.fd] = IF e.what = "service" THEN ApiFile(sock[e.sock].api)
                                               ELSE ClientFile(sock[e.sock].seq)
         /\ e.what # "service" => e.fd = e.sock
  <1>1. /\ e.sock \in Fd /\ sock[e.sock].fd
        /\ e.what = "service" => sock[e.sock].api \in Api /\ api[sock[e.sock].api].fd = e.fd
        /\ e.what # "service" => e.fd = e.sock
    BY DEF Members, CarryInv, EventOK
  <1>2. file[e.sock] = ClientFile(sock[e.sock].seq)
    BY <1>1 DEF CarryInv, SockOK
  <1>3. CASE e.what = "service"
    <2>1. e.fd # NoFd
      BY <1>1, <1>3 DEF Members, CarryInv, EventOK
    <2> QED  BY <1>1, <1>3, <2>1 DEF Members, CarryInv, ApiFiles
  <1> QED  BY <1>1, <1>2, <1>3

(* No descriptor is waited for twice. *)
LEMMA EventsApart ==
  ASSUME Members, CarryInv, NEW t \in Thread, NEW u \in Thread,
         NEW e \in queue[t], NEW f \in queue[u], e.fd = f.fd
  PROVE  t = u /\ e = f
  <1>1. e.sock = f.sock
    BY EventFile, FileKinds DEF Members, CarryInv, ApiOK, EventOK
  <1> QED  BY <1>1 DEF Members, CarryInv, EventOK, Once

(* Who is at work for a client is the only one. *)
Carries(t, n) == HasEvent(t, n) \/ Works(t, n)

(* The carrier of a client is alone: no message, no second event, no other thread. *)
LEMMA Alone ==
  ASSUME Members, CarryInv, NEW t \in Thread, NEW n \in Fd, Carries(t, n)
  PROVE  /\ acc.pc # "idle" => acc.fd # n
         /\ \A u \in Thread : ~HasMsg(u, n)
         /\ \A u \in Thread \ {t} : ~Carries(u, n)
         /\ ~(HasEvent(t, n) /\ Works(t, n))
  <1>1. CASE sock[n].fd
    <2>1. sock[n].thread = t /\ (Works(t, n) => wk[t].pc # "close")
      BY <1>1 DEF Carries, HasEvent, Works, CarryInv, EventOK, WorkOK
    <2>2. acc.pc # "idle" => acc.fd # n
      BY <1>1, <2>1 DEF Carries, CarryInv, AccInv, Once
    <2>3. \A u \in Thread : ~HasMsg(u, n)
      BY <2>1 DEF Carries, HasMsg, CarryInv, PipeInv, MsgOK, Once
    <2>4. \A u \in Thread \ {t} : ~Carries(u, n)
      BY <1>1, <2>1 DEF Carries, HasEvent, Works, CarryInv, EventOK, WorkOK
    <2>5. ~(HasEvent(t, n) /\ Works(t, n))
      BY DEF HasEvent, CarryInv, Once
    <2> QED  BY <2>2, <2>3, <2>4, <2>5
  <1>2. CASE ~sock[n].fd
    <2>1. Works(t, n) /\ wk[t].pc = "close" /\ file[n] = ClientFile(sock[n].seq) /\ sock[n].seq <= acc.seq
      BY <1>2 DEF Carries, HasEvent, Works, CarryInv, EventOK, WorkOK, SockOK
    <2>2. acc.pc # "idle" => acc.fd # n
      BY <1>2, <2>1, FileKinds DEF CarryInv, AccInv, Members
    <2>3. \A u \in Thread : ~HasMsg(u, n) /\ ~HasEvent(u, n)
      BY <1>2 DEF HasMsg, HasEvent, CarryInv, PipeInv, MsgOK, EventOK
    <2>4. \A u \in Thread \ {t} : ~Works(u, n)
      BY <1>2, <2>1 DEF Works, CarryInv, WorkOK, Once
    <2> QED  BY <2>2, <2>3, <2>4 DEF Carries
  <1> QED  BY <1>1, <1>2

----------------------------------------------------------------------------
(* A step of thread t for client n leaves all others as they are. *)
Touches(t, n) ==
    /\ UNCHANGED <<pipe, acc>>
    /\ sock'[n].seq = sock[n].seq
    /\ \A m \in Fd \ {n} : sock'[m] = sock[m]
    /\ \A m \in Fd \ {n} : sock[m].api # NoApi => api'[sock[m].api] = api[sock[m].api]
    /\ \A m \in Fd \ {n}, k \in Nat : file[m] = ClientFile(k) => file'[m] = file[m]
    /\ \A u \in Thread \ {t} : wk'[u] = wk[u] /\ queue'[u] = queue[u]
    /\ \A e : e.sock # n => (e \in queue'[t] <=> e \in queue[t])
    /\ \A u \in Thread : \A e \in queue[u] : e.sock # n => e.fd \in epoll'[u]

(* And passes n on to itself or to an event, or closes it. *)
PassesOn(t, n) ==
    /\ wk'[t].pc # "idle" => wk'[t].sock = n
    /\ ~(HasEvent(t, n)' /\ Works(t, n)')
    /\ \A e, f \in queue'[t] : e.sock = n /\ f.sock = n => e = f
    /\ sock'[n].fd => HasEvent(t, n)' \/ Works(t, n)'
    /\ SockOK(n)' /\ ApiOK(n)' /\ WorkOK(t)'
    /\ \A e \in queue'[t] : e.sock = n => EventOK(t, e)'
    /\ ApiFiles' /\ ~exited'

(* Such a step keeps the whole invariant. *)
LEMMA StepCarries ==
  ASSUME Members, CarryInv, Members', NEW t \in Thread, NEW n \in Fd,
         Carries(t, n), Touches(t, n), PassesOn(t, n), wk[t].pc # "idle" => Works(t, n)
  PROVE  CarryInv'
  <1>1. /\ acc.pc # "idle" => acc.fd # n
        /\ \A u \in Thread : ~HasMsg(u, n)
        /\ \A u \in Thread \ {t} : ~HasEvent(u, n) /\ ~Works(u, n)
    BY Alone DEF Carries
  <1>2. /\ \A u \in Thread : \A m : HasMsg(u, m)' <=> HasMsg(u, m)
        /\ \A u \in Thread, m \in Fd \ {n} : HasEvent(u, m)' <=> HasEvent(u, m)
        /\ \A u \in Thread \ {t} : \A m : Works(u, m)' <=> Works(u, m)
        /\ \A m \in Fd \ {n} : ~Works(t, m)' /\ ~Works(t, m)
        /\ \A u \in Thread \ {t} : ~HasEvent(u, n)' /\ ~Works(u, n)'
    BY <1>1 DEF Touches, PassesOn, HasMsg, HasEvent, Works
  <1>3. ASSUME NEW m \in Fd PROVE (SockOK(m) /\ ApiOK(m) /\ Some(m))'
    <2>1. CASE m = n
      BY <2>1 DEF PassesOn, Some
    <2>2. CASE m # n
      <3>1. SockOK(m)'
        BY <2>2 DEF Touches, CarryInv, SockOK, Members
      <3>2. ApiOK(m)'
        BY <2>2 DEF Touches, PassesOn, CarryInv, ApiOK
      <3>3. Some(m)'
        BY <1>2, <2>2 DEF Touches, CarryInv, Some
      <3> QED  BY <3>1, <3>2, <3>3
    <2> QED  BY <2>1, <2>2
  <1>4. ASSUME NEW u \in Thread PROVE WorkOK(u)'
    <2>1. CASE u # t
      <3>1. wk'[u] = wk[u] /\ (wk[u].pc # "idle" => wk[u].sock \in Fd \ {n})
        BY <1>1, <2>1 DEF Touches, Works, Members
      <3>2. wk[u].pc \in WithApi /\ wk[u].pc \notin {"leave", "reply", "again"} => sock[wk[u].sock].api = wk[u].api /\ wk[u].api # NoApi
        BY DEF CarryInv, WorkOK, Members, WithApi
      <3> QED  BY <3>1, <3>2 DEF Touches, CarryInv, WorkOK, WithApi, Members
    <2> QED  BY <2>1 DEF PassesOn
  <1>5. ASSUME NEW u \in Thread, NEW e \in queue'[u] PROVE EventOK(u, e)'
    <2>1. CASE e.sock # n
      <3>1. e \in queue[u] /\ e.sock \in Fd \ {n} /\ EventOK(u, e)
        BY <2>1 DEF Touches, CarryInv, Members
      <3> QED  BY <2>1, <3>1 DEF Touches, EventOK, Members
    <2>2. CASE e.sock = n
      BY <1>2, <2>2 DEF PassesOn, HasEvent
    <2> QED  BY <2>1, <2>2
  <1>6. ASSUME NEW u \in Thread PROVE Once(u)'
    <2>1. acc.pc = "pipe" => ~HasMsg(u, acc.fd)' /\ ~HasEvent(u, acc.fd)' /\ ~Works(u, acc.fd)'
      BY <1>1, <1>2 DEF CarryInv, Once, Members, Touches
    <2>2. \A i, j \in 1..Len(pipe[u]) : pipe[u][i].fd = pipe[u][j].fd => i = j
      BY DEF CarryInv, Once
    <2>3. \A i \in 1..Len(pipe[u]) : ~HasEvent(u, pipe[u][i].fd)' /\ ~Works(u, pipe[u][i].fd)'
      <3>1. \A i \in 1..Len(pipe[u]) : pipe[u][i].fd \in Fd \ {n}
        BY <1>1 DEF HasMsg, Members
      <3> QED  BY <1>2, <3>1 DEF CarryInv, Once, Touches
    <2>4. \A e \in queue'[u] : ~Works(u, e.sock)'
      <3>1. \A e \in queue'[u] : e.sock \in Fd
        BY DEF Members
      <3> QED  BY <1>2, <3>1 DEF PassesOn, HasEvent, CarryInv, Once
    <2>5. \A e, f \in queue'[u] : e.sock = f.sock => e = f
      BY <1>2 DEF Touches, PassesOn, HasEvent, CarryInv, Once
    <2>6. \A v \in Thread : wk'[u].pc = "close" /\ wk'[v].pc = "close" /\ wk'[u].sock = wk'[v].sock => u = v
      BY <1>2 DEF Touches, PassesOn, Works, CarryInv, Once
    <2>7. UNCHANGED <<pipe, acc>>
      BY DEF Touches
    <2> QED  BY <2>1, <2>2, <2>3, <2>4, <2>5, <2>6, <2>7 DEF Once
  <1>7. AccInv'
    <2>1. acc.pc # "idle" => acc.fd \in Fd \ {n}
      BY <1>1 DEF Members
    <2> QED  BY <2>1 DEF Touches, CarryInv, AccInv, Members
  <1>8. PipeInv'
    <2>1. \A u \in Thread : \A i \in 1..Len(pipe[u]) : pipe[u][i].fd \in Fd \ {n}
      BY <1>1 DEF HasMsg, Members
    <2> QED  BY <2>1 DEF Touches, CarryInv, PipeInv, MsgOK
  <1> QED  BY <1>3, <1>4, <1>5, <1>6, <1>7, <1>8 DEF CarryInv, PassesOn

(* Fields of objects after an assignment. *)
LEMMA SocketFields ==
  ASSUME TypeOK, NEW n \in Fd
  PROVE  /\ \A x \in {"READ", "PROCESS", "SEND", "OVER"} :
              sock' = [sock EXCEPT ![n].status = x] =>
                 /\ sock'[n].fd = sock[n].fd /\ sock'[n].thread = sock[n].thread
                 /\ sock'[n].status = x /\ sock'[n].seq = sock[n].seq /\ sock'[n].api = sock[n].api
         /\ \A a : sock' = [sock EXCEPT ![n].api = a] =>
                 /\ sock'[n].fd = sock[n].fd /\ sock'[n].thread = sock[n].thread
                 /\ sock'[n].status = sock[n].status /\ sock'[n].seq = sock[n].seq /\ sock'[n].api = a
         /\ \A x : sock' = [sock EXCEPT ![n] = x] => sock'[n] = x
         /\ (\E x : sock' = [sock EXCEPT ![n] = x]) => \A m \in Fd \ {n} : sock'[m] = sock[m]
  <1>1. sock \in [Fd -> Socket] /\ sock[n] \in Socket
    BY DEF TypeOK
  <1> QED  BY <1>1 DEF Socket

(* del takes the event it is called for, and no other, out of the epoll sets. *)
LEMMA DelEventDoes ==
  ASSUME TypeOK, Members, CarryInv, NEW t \in Thread, NEW e \in queue[t], DelEvent(t, e)
  PROVE  /\ queue'[t] = queue[t] \ {e}
         /\ \A u \in Thread \ {t} : queue'[u] = queue[u]
         /\ \A u \in Thread : \A f \in queue[u] : f # e => f.fd \in epoll'[u]
  <1>1. /\ queue'[t] = queue[t] \ {e} /\ epoll'[t] = epoll[t] \ {e.fd}
        /\ \A u \in Thread \ {t} : queue'[u] = queue[u] /\ epoll'[u] = epoll[u]
    BY DEF DelEvent, TypeOK
  <1> QED  BY <1>1, EventsApart DEF CarryInv, EventOK

(* With the event of a client its handler has taken the client over. *)
LEMMA FiredCarries ==
  ASSUME Members, CarryInv, NEW t \in Thread, NEW e \in queue[t], wk[t].pc = "idle"
  PROVE  /\ e.sock \in Fd /\ Carries(t, e.sock) /\ (wk[t].pc # "idle" => Works(t, e.sock))
         /\ sock[e.sock].thread = t /\ EventOK(t, e) /\ SockOK(e.sock) /\ ApiOK(e.sock)
         /\ \A f \in queue[t] : f.sock = e.sock => f = e
  BY DEF Members, CarryInv, EventOK, Once, Carries, HasEvent

(* What the steps of the program counter do. *)
LEMMA EnterDoes ==
  ASSUME TypeOK, NEW t \in Thread, NEW pc, NEW in, NEW n, NEW a, Enter(t, pc, in, n, a)
  PROVE  /\ wk'[t].pc = pc /\ wk'[t].sock = n /\ wk'[t].api = a
         /\ \A u \in Thread \ {t} : wk'[u] = wk[u]
  BY DEF Enter, TypeOK

(* (Goto) *)
LEMMA GotoDoes ==
  ASSUME TypeOK, NEW t \in Thread, NEW pc, Goto(t, pc)
  PROVE  /\ wk'[t].pc = pc /\ wk'[t].sock = wk[t].sock /\ wk'[t].api = wk[t].api
         /\ \A u \in Thread \ {t} : wk'[u] = wk[u]
  BY DEF Goto, TypeOK

(* (Return) *)
LEMMA ReturnDoes ==
  ASSUME TypeOK, NEW t \in Thread, Return(t)
  PROVE  /\ wk'[t].pc = "idle"
         /\ \A u \in Thread \ {t} : wk'[u] = wk[u]
  BY DEF Return, TypeOK

(* The handlers of events pass their client on. *)
LEMMA HandlesCarries ==
  ASSUME TypeOK, Members, Members', CarryInv, NEW t \in Thread, Handles(t)
  PROVE  CarryInv'
  <1>1. PICK e \in queue[t] : Handler(t, e)
    BY DEF Handles
  <1> DEFINE n == e.sock
  <1>2. wk[t].pc = "idle"
    BY <1>1 DEF Handler, Received, Answered, ClientFails, ServiceAnswers, ServiceForeign, ServiceFails, Fired
  <1>3. /\ n \in Fd /\ Carries(t, n) /\ sock[n].thread = t
        /\ EventOK(t, e) /\ SockOK(n) /\ ApiOK(n) /\ \A f \in queue[t] : f.sock = n => f = e
    BY <1>2, FiredCarries
  <1>4. e.what \in {"recv", "send"} => e.fd = n
    BY <1>3 DEF EventOK
  <1>5. DelEvent(t, e)
    BY <1>1, <1>3, <1>4
    DEF Handler, Received, Answered, ClientFails, ServiceAnswers, ServiceForeign, ServiceFails
  <1>6. /\ queue'[t] = queue[t] \ {e}
        /\ \A u \in Thread \ {t} : queue'[u] = queue[u]
        /\ \A u \in Thread : \A f \in queue[u] : f # e => f.fd \in epoll'[u]
    BY <1>5, DelEventDoes
  <1>7. UNCHANGED <<file, api, pipe, acc, exited>>
    BY <1>1
    DEF Handler, Received, Answered, ClientFails, ServiceAnswers, ServiceForeign, ServiceFails
  <1>8. ASSUME NEW pc, NEW in, NEW a, Enter(t, pc, in, n, a), pc # "idle",
               sock'[n].seq = sock[n].seq, sock'[n].fd = sock[n].fd, sock'[n].thread = sock[n].thread,
               sock'[n].api = sock[n].api, \A m \in Fd \ {n} : sock'[m] = sock[m],
               sock'[n].status = sock[n].status \/ (sock[n].api = NoApi /\ sock'[n].status # "FREE"),
               WorkOK(t)'
        PROVE  CarryInv'
    <2>1. /\ wk'[t].pc = pc /\ wk'[t].sock = n
          /\ \A u \in Thread \ {t} : wk'[u] = wk[u]
      BY <1>8, EnterDoes
    <2>2. Touches(t, n)
      BY <1>3, <1>6, <1>7, <1>8, <2>1 DEF Touches
    <2>3. SockOK(n)' /\ ApiOK(n)'
      <3>1. sock[n].fd
        BY <1>3 DEF EventOK
      <3>2. SockOK(n)'
        BY <1>3, <1>7, <1>8, <3>1 DEF SockOK
      <3>3. \A m \in Fd : sock'[m].api = sock[m].api
        BY <1>8
      <3>4. ApiOK(n)'
        BY <1>3, <1>7, <1>8, <3>3 DEF ApiOK
      <3> QED  BY <3>2, <3>4
    <2>4. PassesOn(t, n)
      BY <1>3, <1>6, <1>7, <1>8, <2>1, <2>3 DEF PassesOn, HasEvent, Works, ApiFiles, CarryInv
    <2> QED  BY <1>2, <1>3, <2>2, <2>4, StepCarries
  <1>9. CASE Received(t, e)
    <2>1. /\ sock' = [sock EXCEPT ![n].status = "PROCESS"] /\ sock[n].fd /\ sock[n].api = NoApi
          /\ \E pc \in {"call", "error"} : Enter(t, pc, "dispatch", n, NoApi)
      BY <1>3, <1>9 DEF Received, EventOK
    <2>2. PICK pc \in {"call", "error"} : Enter(t, pc, "dispatch", n, NoApi)
      BY <2>1
    <2>3. /\ wk'[t].pc = pc /\ wk'[t].sock = n
          /\ sock'[n].fd = sock[n].fd /\ sock'[n].thread = sock[n].thread /\ sock'[n].api = sock[n].api
          /\ sock'[n].status = "PROCESS" /\ sock'[n].seq = sock[n].seq
          /\ \A m \in Fd \ {n} : sock'[m] = sock[m]
      <3>1. wk'[t].pc = pc /\ wk'[t].sock = n
        BY <2>2, EnterDoes
      <3>2. "PROCESS" \in {"READ", "PROCESS", "SEND", "OVER"} /\ n \in Fd
        BY <1>3
      <3>3. \E x : sock' = [sock EXCEPT ![n] = x]
        BY <2>1
      <3> QED  BY <2>1, <3>1, <3>2, <3>3, SocketFields, Zenon
    <2>4. WorkOK(t)'
      BY <1>3, <2>1, <2>2, <2>3 DEF WorkOK
    <2> QED  BY <1>8, <2>1, <2>2, <2>3, <2>4
  <1>10. CASE Answered(t, e)
    <2>1. /\ sock' = [sock EXCEPT ![n].status = "OVER"] /\ sock[n].fd /\ sock[n].api = NoApi
          /\ Enter(t, "fini", "dispatch", n, NoApi)
      BY <1>3, <1>10 DEF Answered, EventOK, ApiOK
    <2>2. /\ wk'[t].pc = "fini" /\ wk'[t].sock = n
          /\ sock'[n].fd = sock[n].fd /\ sock'[n].thread = sock[n].thread /\ sock'[n].api = sock[n].api
          /\ sock'[n].status = "OVER" /\ sock'[n].seq = sock[n].seq
          /\ \A m \in Fd \ {n} : sock'[m] = sock[m]
      <3>1. wk'[t].pc = "fini" /\ wk'[t].sock = n
        BY <2>1, EnterDoes
      <3>2. "OVER" \in {"READ", "PROCESS", "SEND", "OVER"} /\ n \in Fd
        BY <1>3
      <3>3. \E x : sock' = [sock EXCEPT ![n] = x]
        BY <2>1
      <3> QED  BY <2>1, <3>1, <3>2, <3>3, SocketFields, Zenon
    <2>3. WorkOK(t)'
      BY <1>3, <2>1, <2>2 DEF WorkOK
    <2> QED  BY <1>8, <2>1, <2>2, <2>3
  <1>11. CASE ClientFails(t, e)
    <2>1. /\ sock' = sock /\ sock[n].fd /\ sock[n].api = NoApi /\ sock[n].status \in {"READ", "SEND"}
          /\ Enter(t, CatchAt(n), "dispatch", n, NoApi)
      BY <1>3, <1>11 DEF ClientFails, EventOK, ApiOK
    <2>2. WorkOK(t)'
      BY <1>3, <2>1, EnterDoes DEF WorkOK, CatchAt
    <2> QED  BY <1>3, <1>8, <2>1, <2>2, CatchAtType
  <1>12. CASE ServiceAnswers(t, e) \/ ServiceFails(t, e)
    <2>1. /\ sock' = sock /\ sock[n].fd
          /\ \E pc \in {"giveback", "release"} : Enter(t, pc, "service", n, sock[n].api)
      BY <1>3, <1>12 DEF ServiceAnswers, ServiceFails, EventOK
    <2>2. PICK pc \in {"giveback", "release"} : Enter(t, pc, "service", n, sock[n].api)
      BY <2>1
    <2>3. WorkOK(t)'
      BY <1>3, <2>1, <2>2, EnterDoes DEF WorkOK
    <2> QED  BY <1>3, <1>8, <2>1, <2>2, <2>3
  <1>13. ~ServiceForeign(t, e)
    BY <1>3 DEF ServiceForeign, EventOK, ApiOK
  <1> QED  BY <1>1, <1>9, <1>10, <1>11, <1>12, <1>13 DEF Handler

----------------------------------------------------------------------------
(* A worker that is not idle holds its client. *)
LEMMA WorkerCarries ==
  ASSUME Members, CarryInv, NEW t \in Thread, wk[t].pc # "idle"
  PROVE  /\ wk[t].sock \in Fd /\ Works(t, wk[t].sock) /\ Carries(t, wk[t].sock)
         /\ WorkOK(t) /\ SockOK(wk[t].sock) /\ ApiOK(wk[t].sock)
         /\ \A e \in queue[t] : e.sock # wk[t].sock
         /\ wk[t].pc \in WithApi => wk[t].api \in Api
  BY DEF Members, CarryInv, Once, Works, Carries, HasEvent

(* A closed descriptor is in no epoll set. *)
LEMMA CloseFileDoes ==
  ASSUME TypeOK, NEW m \in Fd, CloseFile(m)
  PROVE  /\ file'[m] = Closed /\ \A l \in Fd \ {m} : file'[l] = file[l]
         /\ \A u \in Thread : epoll'[u] = epoll[u] \ {m}
  BY DEF TypeOK, CloseFile

(* An event at the descriptor of an api is of the client the api works for. *)
LEMMA ApiEvent ==
  ASSUME Members, CarryInv, NEW u \in Thread, NEW e \in queue[u],
         NEW a \in Api, api[a].fd # NoFd, e.fd = api[a].fd
  PROVE  sock[e.sock].api = a /\ e.sock \in Fd /\ api[a].used
  <1>1. file[e.fd] = ApiFile(a)
    BY DEF CarryInv, ApiFiles
  <1>2. sock[e.sock].api = a /\ e.sock \in Fd
    BY <1>1, EventFile, FileKinds DEF Members
  <1>3. a # NoApi
    OBVIOUS
  <1> QED  BY <1>2, <1>3 DEF CarryInv, ApiOK

(* Closing the descriptor of an api takes it from the api's client only. *)
LEMMA CloseApiDoes ==
  ASSUME TypeOK, Members, CarryInv, NEW a \in Api, api[a].fd # NoFd, CloseFile(api[a].fd)
  PROVE  /\ \A m \in Fd, k \in Nat : file[m] = ClientFile(k) => file'[m] = file[m]
         /\ \A u \in Thread : \A e \in queue[u] : sock[e.sock].api # a => e.fd \in epoll'[u]
         /\ \A b \in Api \ {a} : api[b].fd # NoFd => file'[api[b].fd] = ApiFile(b)
  <1>1. /\ api[a].fd \in Fd /\ file[api[a].fd] = ApiFile(a)
        /\ \A b \in Api : api[b].fd # NoFd => api[b].fd \in Fd /\ file[api[b].fd] = ApiFile(b)
    BY DEF Members, CarryInv, ApiFiles
  <1>2. /\ file'[api[a].fd] = Closed /\ \A l \in Fd \ {api[a].fd} : file'[l] = file[l]
        /\ \A u \in Thread : epoll'[u] = epoll[u] \ {api[a].fd}
    BY <1>1, CloseFileDoes
  <1>3. \A m \in Fd, k \in Nat : file[m] = ClientFile(k) => file'[m] = file[m]
    BY <1>1, <1>2, FileKinds
  <1>4. \A b \in Api \ {a} : api[b].fd # NoFd => file'[api[b].fd] = ApiFile(b)
    BY <1>1, <1>2, FileKinds
  <1>5. \A u \in Thread : \A e \in queue[u] : sock[e.sock].api # a => e.fd \in epoll'[u]
    BY <1>2, ApiEvent DEF CarryInv, EventOK
  <1> QED  BY <1>3, <1>4, <1>5

(* Giving an api back takes it from its client only. *)
LEMMA SetFreeDoes ==
  ASSUME TypeOK, Members, CarryInv, NEW a \in Api, NEW close \in BOOLEAN,
         NEW n \in Fd, sock[n].api = a, SetFree(a, close)
  PROVE  /\ \A b \in Api \ {a} : api'[b] = api[b]
         /\ \A m \in Fd, k \in Nat : file[m] = ClientFile(k) => file'[m] = file[m]
         /\ \A u \in Thread : \A e \in queue[u] : e.sock # n => e.fd \in epoll'[u]
         /\ ApiFiles'
  <1>1. \A u \in Thread : \A e \in queue[u] : e.sock # n => sock[e.sock].api # a
    BY DEF Members, CarryInv, ApiOK
  <1>2. CASE CloseFile(api[a].fd) /\ api[a].fd # NoFd
               /\ api' = [api EXCEPT ![a] = [fd |-> NoFd, used |-> FALSE, seq |-> 0]]
    <2>1. api'[a].fd = NoFd /\ \A b \in Api \ {a} : api'[b] = api[b]
      BY <1>2 DEF TypeOK
    <2> QED  BY <1>1, <1>2, <2>1, CloseApiDoes DEF ApiFiles
  <1>3. CASE api' = [api EXCEPT ![a].used = FALSE, ![a].seq = 0] /\ UNCHANGED <<file, epoll>>
    <2>1. api'[a].fd = api[a].fd /\ \A b \in Api \ {a} : api'[b] = api[b]
      BY <1>3 DEF TypeOK, ApiObject
    <2>2. \A b \in Api : api'[b].fd = api[b].fd
      BY <2>1
    <2>3. ApiFiles'
      BY <1>3, <2>2 DEF CarryInv, ApiFiles
    <2>4. \A u \in Thread : \A e \in queue[u] : e.fd \in epoll'[u]
      BY <1>3 DEF CarryInv, EventOK
    <2> QED  BY <1>3, <2>1, <2>3, <2>4
  <1> QED  BY <1>2, <1>3 DEF SetFree

(* CEpollMonitor::add leaves an event behind when it fails. *)
LEMMA AddSucceeds ==
  ASSUME ~torn', NEW t, NEW e, Open(e.fd), ~EqualFd(t, e.fd)
  PROVE  ~NotAdded(t, e)
  BY DEF NotAdded

(* add adds one event, and nothing leaves a queue or an epoll set. *)
LEMMA AddedDoes ==
  ASSUME TypeOK, NEW t \in Thread, NEW e, Added(t, e)
  PROVE  /\ queue'[t] = queue[t] \cup {e} /\ e.fd \in epoll'[t]
         /\ \A u \in Thread \ {t} : queue'[u] = queue[u]
         /\ \A u \in Thread : epoll[u] \subseteq epoll'[u]
  BY DEF TypeOK, Added

(* A client without an event finds no equal descriptor in the queue ... *)
LEMMA NoEqualClient ==
  ASSUME Members, CarryInv, NEW t \in Thread, NEW n \in Fd, sock[n].fd, ~HasEvent(t, n)
  PROVE  ~EqualFd(t, n) /\ Open(n)
  <1>1. file[n] = ClientFile(sock[n].seq)
    BY DEF CarryInv, SockOK
  <1>2. \A e \in queue[t] : e.fd # n
    BY <1>1, EventFile, FileKinds DEF HasEvent
  <1> QED  BY <1>1, <1>2, FileKinds DEF EqualFd, Open

(* ... and neither does its api. *)
LEMMA NoEqualApi ==
  ASSUME Members, CarryInv, NEW t \in Thread, NEW n \in Fd, ~HasEvent(t, n),
         NEW a \in Api, sock[n].api = a, api[a].fd # NoFd
  PROVE  ~EqualFd(t, api[a].fd) /\ Open(api[a].fd)
  <1>1. api[a].fd \in Fd /\ file[api[a].fd] = ApiFile(a)
    BY DEF Members, CarryInv, ApiFiles
  <1>2. \A e \in queue[t] : e.fd # api[a].fd
    <2>1. SUFFICES ASSUME NEW e \in queue[t], e.fd = api[a].fd PROVE FALSE
      OBVIOUS
    <2>2. sock[e.sock].api = a /\ e.sock \in Fd
      BY <2>1, ApiEvent
    <2> QED  BY <2>2 DEF CarryInv, ApiOK, HasEvent
  <1> QED  BY <1>1, <1>2, FileKinds DEF EqualFd, Open

(* Setting the status of a client socket leaves the rest of it, and all others. *)
LEMMA StatusDoes ==
  ASSUME TypeOK, NEW n \in Fd, NEW x \in {"READ", "PROCESS", "SEND", "OVER"},
         sock' = [sock EXCEPT ![n].status = x]
  PROVE  /\ sock'[n].fd = sock[n].fd /\ sock'[n].thread = sock[n].thread /\ sock'[n].status = x
         /\ sock'[n].seq = sock[n].seq /\ sock'[n].api = sock[n].api
         /\ \A m \in Fd \ {n} : sock'[m] = sock[m]
  <1>1. \E y : sock' = [sock EXCEPT ![n] = y]
    OBVIOUS
  <1> QED  BY <1>1, SocketFields, Zenon

(* So does setting its api. *)
LEMMA ApiSetDoes ==
  ASSUME TypeOK, NEW n \in Fd, NEW a, sock' = [sock EXCEPT ![n].api = a]
  PROVE  /\ sock'[n].fd = sock[n].fd /\ sock'[n].thread = sock[n].thread /\ sock'[n].status = sock[n].status
         /\ sock'[n].seq = sock[n].seq /\ sock'[n].api = a
         /\ \A m \in Fd \ {n} : sock'[m] = sock[m]
  <1>1. \E y : sock' = [sock EXCEPT ![n] = y]
    OBVIOUS
  <1> QED  BY <1>1, SocketFields, Zenon

(* CClientSocket::_reset forgets everything but the sequence number. *)
LEMMA ResetDoes ==
  ASSUME TypeOK, NEW n \in Fd, sock' = [sock EXCEPT ![n] = Reset(@)]
  PROVE  /\ sock'[n].fd = FALSE /\ sock'[n].thread = NoThread /\ sock'[n].status = "FREE"
         /\ sock'[n].seq = sock[n].seq /\ sock'[n].api = NoApi
         /\ \A m \in Fd \ {n} : sock'[m] = sock[m]
  <1>1. sock \in [Fd -> Socket] /\ sock[n] \in Socket
    BY DEF TypeOK
  <1> QED  BY <1>1 DEF Socket, Reset

(* The event that sends an answer or an error is added. *)
LEMMA AnswerAdds ==
  ASSUME ~torn', Members, CarryInv, NEW t \in Thread, wk[t].pc \in {"reply", "error"}
  PROVE  ~NotAdded(sock[wk[t].sock].thread, SendEvent(wk[t].sock))
  <1>1. PICK n \in Fd : n = wk[t].sock
    BY WorkerCarries
  <1>2. sock[n].fd /\ sock[n].thread = t /\ ~HasEvent(t, n)
    BY <1>1, WorkerCarries DEF WorkOK, HasEvent
  <1>3. SendEvent(n).fd = n
    BY DEF SendEvent
  <1> QED  BY <1>1, <1>2, <1>3, NoEqualClient, AddSucceeds

(* Answers pass their client on to an event, fini to the close of its descriptor. *)
LEMMA AnswersCarries ==
  ASSUME ~torn', TypeOK, Members, Members', CarryInv, ~exited, NEW t \in Thread, Answers(t)
  PROVE  CarryInv'
  <1>1. wk[t].pc # "idle"
    BY DEF Answers, Reply, WriteError, Fini, CloseSocket
  <1>0. PICK n \in Fd : n = wk[t].sock
    BY <1>1, WorkerCarries
  <1>2. /\ n = wk[t].sock /\ Works(t, n) /\ Carries(t, n)
        /\ WorkOK(t) /\ SockOK(n) /\ ApiOK(n)
        /\ \A e \in queue[t] : e.sock # n
    BY <1>0, <1>1, WorkerCarries
  <1>6. CASE Reply(t) /\ Fault("lookup") /\ Goto(t, "again") /\ UNCHANGED <<sock, queue, epoll, torn>>
    <2>1. UNCHANGED <<file, api, pipe, acc, exited>> /\ wk[t].pc = "reply"
      BY <1>6 DEF Reply
    <2>2. wk'[t].pc = "again" /\ wk'[t].sock = n /\ \A u \in Thread \ {t} : wk'[u] = wk[u]
      BY <1>2, <1>6, GotoDoes
    <2>3. \A u \in Thread : \A e \in queue[u] : e.fd \in epoll[u]
      BY DEF CarryInv, EventOK
    <2>4. Touches(t, n)
      BY <1>6, <2>1, <2>2, <2>3 DEF Touches
    <2>5. SockOK(n)' /\ ApiOK(n)' /\ ApiFiles'
      BY <1>2, <1>6, <2>1 DEF SockOK, ApiOK, CarryInv, ApiFiles
    <2>6. WorkOK(t)'
      BY <1>2, <1>6, <2>1, <2>2 DEF WorkOK
    <2>7. ~HasEvent(t, n)' /\ Works(t, n)'
      BY <1>2, <1>6, <2>2 DEF HasEvent, Works
    <2>8. PassesOn(t, n)
      BY <1>2, <1>6, <2>1, <2>2, <2>5, <2>6, <2>7 DEF PassesOn
    <2> QED  BY <1>2, <2>4, <2>8, StepCarries
  <1>3. CASE \/ WriteError(t)
             \/ /\ Reply(t)
                /\ ~(Fault("lookup") /\ Goto(t, "again") /\ UNCHANGED <<sock, queue, epoll, torn>>)
    <2>1. /\ sock' = [sock EXCEPT ![n].status = "SEND"] /\ UNCHANGED <<file, api, pipe, acc>>
          /\ sock[n].fd /\ sock[n].thread = t /\ sock[n].api = NoApi
      BY <1>2, <1>3 DEF Reply, WriteError, WorkOK
    <2>2. /\ sock'[n].fd = sock[n].fd /\ sock'[n].thread = sock[n].thread /\ sock'[n].status = "SEND"
          /\ sock'[n].seq = sock[n].seq /\ sock'[n].api = sock[n].api
          /\ \A m \in Fd \ {n} : sock'[m] = sock[m]
      BY <1>2, <2>1, StatusDoes
    <2>3. ~NotAdded(t, SendEvent(n))
      <3>1. wk[t].pc \in {"reply", "error"}
        BY <1>3 DEF Reply, WriteError
      <3> QED  BY <1>2, <2>1, <3>1, AnswerAdds
    <2>4. Added(t, SendEvent(n)) /\ Return(t) /\ exited' = exited
      BY <1>2, <1>3, <2>1, <2>3 DEF Reply, WriteError
    <2>5. /\ queue'[t] = queue[t] \cup {SendEvent(n)} /\ n \in epoll'[t]
          /\ \A u \in Thread \ {t} : queue'[u] = queue[u]
          /\ \A u \in Thread : epoll[u] \subseteq epoll'[u]
      BY <2>4, AddedDoes DEF SendEvent
    <2>6. wk'[t].pc = "idle" /\ \A u \in Thread \ {t} : wk'[u] = wk[u]
      BY <2>4, ReturnDoes
    <2>7. SendEvent(n).sock = n /\ SendEvent(n).fd = n /\ SendEvent(n).what = "send"
      BY DEF SendEvent
    <2>8. \A u \in Thread : \A e \in queue[u] : e.fd \in epoll[u]
      BY DEF CarryInv, EventOK
    <2>9. Touches(t, n)
      BY <1>2, <2>1, <2>2, <2>5, <2>6, <2>7, <2>8 DEF Touches
    <2>10. SockOK(n)'
      BY <1>2, <2>1, <2>2 DEF SockOK
    <2>11. ApiOK(n)'
      BY <2>1, <2>2 DEF ApiOK
    <2>12. WorkOK(t)'
      BY <2>6 DEF WorkOK
    <2>13. EventOK(t, SendEvent(n))'
      BY <2>1, <2>2, <2>5, <2>7 DEF EventOK
    <2>14. ApiFiles'
      BY <2>1 DEF CarryInv, ApiFiles
    <2>15. \A e \in queue'[t] : e.sock = n => e = SendEvent(n)
      BY <1>2, <2>5
    <2>16. HasEvent(t, n)' /\ ~Works(t, n)'
      BY <2>5, <2>6, <2>7 DEF HasEvent, Works
    <2>17. PassesOn(t, n)
      BY <2>4, <2>6, <2>10, <2>11, <2>12, <2>13, <2>14, <2>15, <2>16 DEF PassesOn
    <2> QED  BY <1>2, <2>9, <2>17, StepCarries
  <1>4. CASE Fini(t)
    <2>1. /\ UNCHANGED <<file, api, pipe, queue, epoll, acc, exited>>
          /\ sock' = [sock EXCEPT ![n] = Reset(@)] /\ Goto(t, "close")
          /\ sock[n].fd /\ sock[n].status \in {"SEND", "OVER"}
      BY <1>2, <1>4 DEF Fini, WorkOK
    <2>2. /\ sock'[n].fd = FALSE /\ sock'[n].thread = NoThread /\ sock'[n].status = "FREE"
          /\ sock'[n].seq = sock[n].seq /\ sock'[n].api = NoApi
          /\ \A m \in Fd \ {n} : sock'[m] = sock[m]
      BY <2>1, ResetDoes
    <2>3. wk'[t].pc = "close" /\ wk'[t].sock = n /\ \A u \in Thread \ {t} : wk'[u] = wk[u]
      BY <1>2, <2>1, GotoDoes
    <2>4. \A u \in Thread : \A e \in queue[u] : e.fd \in epoll[u]
      BY DEF CarryInv, EventOK
    <2>5. Touches(t, n)
      BY <2>1, <2>2, <2>3, <2>4 DEF Touches
    <2>6. SockOK(n)' /\ WorkOK(t)' /\ ApiOK(n)'
      BY <1>2, <2>1, <2>2, <2>3 DEF SockOK, WorkOK, ApiOK
    <2>7. ApiFiles'
      BY <2>1 DEF CarryInv, ApiFiles
    <2>8. ~HasEvent(t, n)'
      BY <1>2, <2>1 DEF HasEvent
    <2>9. PassesOn(t, n)
      BY <1>2, <2>1, <2>2, <2>3, <2>6, <2>7, <2>8 DEF PassesOn
    <2> QED  BY <1>2, <2>5, <2>9, StepCarries
  <1>5. CASE CloseSocket(t)
    <2>1. /\ UNCHANGED <<sock, api, pipe, queue, acc, exited>> /\ CloseFile(n) /\ Return(t)
          /\ ~sock[n].fd /\ file[n] = ClientFile(sock[n].seq)
      BY <1>2, <1>5 DEF CloseSocket, WorkOK
    <2>2. /\ file'[n] = Closed /\ \A m \in Fd \ {n} : file'[m] = file[m]
          /\ \A u \in Thread : epoll'[u] = epoll[u] \ {n}
      BY <2>1, CloseFileDoes
    <2>3. wk'[t].pc = "idle" /\ \A u \in Thread \ {t} : wk'[u] = wk[u]
      BY <2>1, ReturnDoes
    <2>4. \A u \in Thread : \A e \in queue[u] : e.fd # n
      <3>1. SUFFICES ASSUME NEW u \in Thread, NEW e \in queue[u], e.fd = n PROVE FALSE
        OBVIOUS
      <3>2. e.sock = n /\ sock[e.sock].fd
        BY <2>1, <3>1, EventFile, FileKinds DEF CarryInv, EventOK
      <3> QED  BY <2>1, <3>2
    <2>5. Touches(t, n)
      <3>1. \A u \in Thread : \A e \in queue[u] : e.fd \in epoll[u]
        BY DEF CarryInv, EventOK
      <3> QED  BY <2>1, <2>2, <2>3, <2>4, <3>1 DEF Touches
    <2>6. SockOK(n)' /\ WorkOK(t)' /\ ApiOK(n)'
      BY <1>2, <2>1, <2>3 DEF SockOK, WorkOK, ApiOK
    <2>7. ApiFiles'
      BY <2>1, <2>2, FileKinds DEF CarryInv, ApiFiles, Members
    <2>8. ~HasEvent(t, n)' /\ ~Works(t, n)'
      BY <1>2, <2>1, <2>3 DEF HasEvent, Works
    <2>9. \A e \in queue'[t] : e.sock # n
      BY <1>2, <2>1
    <2>10. PassesOn(t, n)
      BY <1>2, <2>1, <2>3, <2>6, <2>7, <2>8, <2>9 DEF PassesOn
    <2> QED  BY <1>2, <2>5, <2>10, StepCarries
  <1> QED  BY <1>3, <1>4, <1>5, <1>6 DEF Answers

(* Giving back an api that nobody uses takes it from no client. *)
LEMMA SetFreeUnused ==
  ASSUME TypeOK, Members, CarryInv, NEW a \in Api, ~api[a].used, SetFree(a, TRUE)
  PROVE  /\ \A m \in Fd : sock[m].api # a
         /\ \A b \in Api \ {a} : api'[b] = api[b]
         /\ \A m \in Fd, k \in Nat : file[m] = ClientFile(k) => file'[m] = file[m]
         /\ \A u \in Thread : \A e \in queue[u] : e.fd \in epoll'[u]
         /\ ApiFiles'
  <1>1. \A m \in Fd : sock[m].api # a
    BY DEF CarryInv, ApiOK
  <1>2. CASE CloseFile(api[a].fd) /\ api[a].fd # NoFd
               /\ api' = [api EXCEPT ![a] = [fd |-> NoFd, used |-> FALSE, seq |-> 0]]
    <2>1. api'[a].fd = NoFd /\ \A b \in Api \ {a} : api'[b] = api[b]
      BY <1>2 DEF TypeOK
    <2>2. \A u \in Thread : \A e \in queue[u] : sock[e.sock].api # a
      BY <1>1 DEF Members
    <2> QED  BY <1>1, <1>2, <2>1, <2>2, CloseApiDoes DEF ApiFiles
  <1>3. CASE api' = [api EXCEPT ![a].used = FALSE, ![a].seq = 0] /\ UNCHANGED <<file, epoll>>
    <2>1. api'[a].fd = api[a].fd /\ \A b \in Api \ {a} : api'[b] = api[b]
      BY <1>3 DEF TypeOK, ApiObject
    <2>2. \A b \in Api : api'[b].fd = api[b].fd
      BY <2>1
    <2>3. ApiFiles'
      BY <1>3, <2>2 DEF CarryInv, ApiFiles
    <2>4. \A u \in Thread : \A e \in queue[u] : e.fd \in epoll'[u]
      BY <1>3 DEF CarryInv, EventOK
    <2> QED  BY <1>1, <1>3, <2>1, <2>3, <2>4
  <1> QED  BY <1>2, <1>3 DEF SetFree

(* The second set_free does no harm while no other call has the api. *)
LEMMA FreeAgainCarries ==
  ASSUME ~torn', TypeOK, Members, Members', CarryInv, NEW t \in Thread, FreeAgain(t)
  PROVE  CarryInv'
  <1>1. wk[t].pc = "again" /\ "again" \in WithApi /\ wk[t].pc # "idle"
    BY DEF FreeAgain, WithApi
  <1>2. PICK n \in Fd : n = wk[t].sock
    BY <1>1, WorkerCarries
  <1>3. /\ n = wk[t].sock /\ Works(t, n) /\ Carries(t, n)
        /\ WorkOK(t) /\ SockOK(n) /\ ApiOK(n)
        /\ \A e \in queue[t] : e.sock # n
        /\ wk[t].api \in Api
    BY <1>1, <1>2, WorkerCarries
  <1>4. /\ SetFree(wk[t].api, TRUE) /\ sock' = [sock EXCEPT ![n].api = NoApi]
        /\ Goto(t, "error") /\ UNCHANGED <<pipe, queue, acc, exited>>
    BY <1>3 DEF FreeAgain
  <1>5. ~api[wk[t].api].used
    <2>1. torn' = (torn \/ api[wk[t].api].used)
      BY DEF FreeAgain
    <2> QED  BY <2>1, Zenon
  <1>6. sock[n].fd /\ sock[n].thread = t /\ sock[n].api = NoApi /\ sock[n].status = "PROCESS"
    BY <1>1, <1>3 DEF WorkOK
  <1>7. /\ sock'[n].fd = sock[n].fd /\ sock'[n].thread = sock[n].thread
        /\ sock'[n].status = sock[n].status /\ sock'[n].seq = sock[n].seq /\ sock'[n].api = NoApi
        /\ \A m \in Fd \ {n} : sock'[m] = sock[m]
    BY <1>4, ApiSetDoes
  <1>8. wk'[t].pc = "error" /\ wk'[t].sock = n /\ \A u \in Thread \ {t} : wk'[u] = wk[u]
    BY <1>3, <1>4, GotoDoes
  <1>9. /\ \A m \in Fd : sock[m].api # wk[t].api
        /\ \A b \in Api \ {wk[t].api} : api'[b] = api[b]
        /\ \A m \in Fd, k \in Nat : file[m] = ClientFile(k) => file'[m] = file[m]
        /\ \A u \in Thread : \A e \in queue[u] : e.fd \in epoll'[u]
        /\ ApiFiles'
    BY <1>3, <1>4, <1>5, SetFreeUnused
  <1>10. \A m \in Fd : sock[m].api # NoApi => api'[sock[m].api] = api[sock[m].api]
    BY <1>9 DEF Members
  <1>11. Touches(t, n)
    BY <1>4, <1>7, <1>8, <1>9, <1>10 DEF Touches
  <1>12. SockOK(n)'
    <2>1. sock[n].seq \in Nat
      BY DEF Members
    <2> QED  BY <1>3, <1>4, <1>6, <1>7, <1>9, <2>1 DEF SockOK
  <1>13. ApiOK(n)' /\ WorkOK(t)'
    BY <1>6, <1>7, <1>8 DEF ApiOK, WorkOK
  <1>14. ~HasEvent(t, n)' /\ Works(t, n)'
    BY <1>3, <1>4, <1>8 DEF HasEvent, Works
  <1>15. \A e \in queue'[t] : e.sock # n
    BY <1>3, <1>4
  <1>16. ~exited'
    BY <1>4 DEF CarryInv
  <1>17. PassesOn(t, n)
    BY <1>8, <1>9, <1>12, <1>13, <1>14, <1>15, <1>16 DEF PassesOn
  <1> QED  BY <1>3, <1>11, <1>17, StepCarries

(* Releasing an api keeps the client with its thread. *)
LEMMA ReleasesCarries ==
  ASSUME TypeOK, Members, Members', CarryInv, NEW t \in Thread, Releases(t), ~FreeAgain(t)
  PROVE  CarryInv'
  <1>1. wk[t].pc # "idle" /\ ~LeaveClient(t) /\ wk[t].pc \in WithApi
    BY DEF Releases, GiveBack, LeaveClient, ReleaseApi, CarryInv, WorkOK, WithApi
  <1>2. PICK n \in Fd : n = wk[t].sock
    BY <1>1, WorkerCarries
  <1>3. /\ n = wk[t].sock /\ Works(t, n) /\ Carries(t, n)
        /\ WorkOK(t) /\ SockOK(n) /\ ApiOK(n)
        /\ \A e \in queue[t] : e.sock # n
        /\ wk[t].api \in Api
    BY <1>1, <1>2, WorkerCarries
  <1>4. PICK pc \in {"reply", "error"}, close \in BOOLEAN :
           /\ SetFree(wk[t].api, close) /\ sock' = [sock EXCEPT ![n].api = NoApi]
           /\ Goto(t, pc) /\ UNCHANGED <<pipe, queue, acc, exited>>
    BY <1>1, <1>3 DEF Releases, GiveBack, ReleaseApi
  <1>5. sock[n].fd /\ sock[n].thread = t /\ sock[n].api = wk[t].api /\ sock[n].status = "PROCESS"
    BY <1>1, <1>3 DEF Releases, GiveBack, ReleaseApi, WorkOK, ApiOK
  <1>6. /\ sock'[n].fd = sock[n].fd /\ sock'[n].thread = sock[n].thread
        /\ sock'[n].status = sock[n].status /\ sock'[n].seq = sock[n].seq /\ sock'[n].api = NoApi
        /\ \A m \in Fd \ {n} : sock'[m] = sock[m]
    BY <1>4, ApiSetDoes
  <1>7. wk'[t].pc = pc /\ wk'[t].sock = n /\ \A u \in Thread \ {t} : wk'[u] = wk[u]
    BY <1>3, <1>4, GotoDoes
  <1>8. /\ \A b \in Api \ {sock[n].api} : api'[b] = api[b]
        /\ \A m \in Fd, k \in Nat : file[m] = ClientFile(k) => file'[m] = file[m]
        /\ \A u \in Thread : \A e \in queue[u] : e.sock # n => e.fd \in epoll'[u]
        /\ ApiFiles'
    BY <1>3, <1>4, <1>5, SetFreeDoes
  <1>9. \A m \in Fd \ {n} : sock[m].api # NoApi => api'[sock[m].api] = api[sock[m].api]
    BY <1>3, <1>5, <1>8 DEF ApiOK, Members
  <1>10. Touches(t, n)
    BY <1>4, <1>6, <1>7, <1>8, <1>9 DEF Touches
  <1>11. SockOK(n)'
    <2>1. sock[n].seq \in Nat
      BY DEF Members
    <2> QED  BY <1>3, <1>4, <1>5, <1>6, <1>8, <2>1 DEF SockOK
  <1>12. ApiOK(n)' /\ WorkOK(t)'
    BY <1>5, <1>6, <1>7 DEF ApiOK, WorkOK
  <1>13. ~HasEvent(t, n)' /\ Works(t, n)'
    BY <1>3, <1>4, <1>7 DEF HasEvent, Works
  <1>14. \A e \in queue'[t] : e.sock # n
    BY <1>3, <1>4
  <1>15. ~exited'
    BY <1>4 DEF CarryInv
  <1>16. PassesOn(t, n)
    BY <1>7, <1>8, <1>11, <1>12, <1>13, <1>14, <1>15 DEF PassesOn
  <1> QED  BY <1>3, <1>10, <1>16, StepCarries

(* The api that CApiPool::get gives is used by no client. *)
LEMMA CallCarries ==
  ASSUME TypeOK, Members, Members', CarryInv, NEW t \in Thread, CallServer(t)
  PROVE  CarryInv'
  <1>1. wk[t].pc = "call"
    BY DEF CallServer
  <1>2. PICK n \in Fd : n = wk[t].sock
    BY <1>1, WorkerCarries
  <1>3. /\ n = wk[t].sock /\ Works(t, n) /\ Carries(t, n)
        /\ WorkOK(t) /\ SockOK(n) /\ ApiOK(n) /\ sock[n].seq \in Nat
        /\ \A e \in queue[t] : e.sock # n
    BY <1>1, <1>2, WorkerCarries DEF Members
  <1>4. PICK a \in Api, tcpOk \in BOOLEAN :
          /\ ~api[a].used
          /\ IF api[a].fd # NoFd /\ ~tcpOk
             THEN /\ CloseFile(api[a].fd)
                  /\ api' = [api EXCEPT ![a] = [fd |-> NoFd, used |-> TRUE, seq |-> sock[n].seq]]
             ELSE /\ api' = [api EXCEPT ![a].used = TRUE, ![a].seq = sock[n].seq]
                  /\ UNCHANGED <<file, epoll>>
          /\ sock' = [sock EXCEPT ![n].api = a]
          /\ wk' = [wk EXCEPT ![t].pc = "connect", ![t].api = a]
    BY <1>3 DEF CallServer
  <1>5. UNCHANGED <<pipe, queue, acc, exited>>
    BY DEF CallServer
  <1>6. sock[n].fd /\ sock[n].thread = t /\ sock[n].api = NoApi /\ sock[n].status = "PROCESS"
    BY <1>1, <1>3 DEF WorkOK
  <1>7. a # NoApi /\ \A m \in Fd : sock[m].api # a
    BY <1>4 DEF CarryInv, ApiOK
  <1>8. /\ sock'[n].fd = sock[n].fd /\ sock'[n].thread = sock[n].thread
        /\ sock'[n].status = sock[n].status /\ sock'[n].seq = sock[n].seq /\ sock'[n].api = a
        /\ \A m \in Fd \ {n} : sock'[m] = sock[m]
    BY <1>4, ApiSetDoes
  <1>9. /\ wk'[t].pc = "connect" /\ wk'[t].sock = n /\ wk'[t].api = a
        /\ \A u \in Thread \ {t} : wk'[u] = wk[u]
    BY <1>3, <1>4 DEF TypeOK
  <1>10. \A u \in Thread : \A e \in queue[u] : e.fd \in epoll[u] /\ sock[e.sock].api # a
    BY <1>7 DEF CarryInv, EventOK, Members
  <1>11. /\ api'[a].used /\ api'[a].seq = sock[n].seq /\ \A b \in Api \ {a} : api'[b] = api[b]
         /\ \A m \in Fd, k \in Nat : file[m] = ClientFile(k) => file'[m] = file[m]
         /\ \A u \in Thread : \A e \in queue[u] : e.fd \in epoll'[u]
         /\ ApiFiles'
    <2>1. CASE api[a].fd # NoFd /\ ~tcpOk
      <3>1. /\ CloseFile(api[a].fd)
            /\ api' = [api EXCEPT ![a] = [fd |-> NoFd, used |-> TRUE, seq |-> sock[n].seq]]
        BY <1>4, <2>1
      <3>2. /\ api'[a].fd = NoFd /\ api'[a].used /\ api'[a].seq = sock[n].seq
            /\ \A b \in Api \ {a} : api'[b] = api[b]
        BY <3>1 DEF TypeOK
      <3>3. ApiFiles'
        BY <2>1, <3>1, <3>2, CloseApiDoes DEF ApiFiles
      <3> QED  BY <1>10, <2>1, <3>1, <3>2, <3>3, CloseApiDoes
    <2>2. CASE api[a].fd = NoFd \/ tcpOk
      <3>1. /\ UNCHANGED <<file, epoll>>
            /\ api' = [api EXCEPT ![a].used = TRUE, ![a].seq = sock[n].seq]
        BY <1>4, <2>2
      <3>2. /\ api'[a].fd = api[a].fd /\ api'[a].used /\ api'[a].seq = sock[n].seq
            /\ \A b \in Api \ {a} : api'[b] = api[b]
        BY <3>1 DEF TypeOK, ApiObject
      <3>3. \A b \in Api : api'[b].fd = api[b].fd
        BY <3>2
      <3>4. ApiFiles'
        BY <3>1, <3>3 DEF CarryInv, ApiFiles
      <3> QED  BY <1>10, <3>1, <3>2, <3>4
    <2> QED  BY <2>1, <2>2
  <1>12. Touches(t, n)
    <2>1. \A m \in Fd \ {n} : sock[m].api # NoApi => api'[sock[m].api] = api[sock[m].api]
      BY <1>7, <1>11 DEF Members
    <2> QED  BY <1>5, <1>8, <1>9, <1>11, <2>1 DEF Touches
  <1>13. SockOK(n)'
    BY <1>3, <1>5, <1>6, <1>8, <1>11 DEF SockOK
  <1>14. ApiOK(n)'
    <2>1. \A m \in Fd \ {n} : sock'[m].api # a
      BY <1>7, <1>8
    <2> QED  BY <1>6, <1>8, <1>11, <2>1 DEF ApiOK
  <1>15. WorkOK(t)'
    BY <1>6, <1>8, <1>9 DEF WorkOK
  <1>16. ~HasEvent(t, n)' /\ Works(t, n)'
    BY <1>3, <1>5, <1>9 DEF HasEvent, Works
  <1>17. \A e \in queue'[t] : e.sock # n
    BY <1>3, <1>5
  <1>18. ~exited'
    BY <1>5 DEF CarryInv
  <1>19. PassesOn(t, n)
    BY <1>9, <1>11, <1>13, <1>14, <1>15, <1>16, <1>17, <1>18 DEF PassesOn
  <1> QED  BY <1>3, <1>12, <1>19, StepCarries

(* A call passes its client on to the event of the api. *)
LEMMA CallsCarries ==
  ASSUME ~torn', TypeOK, Members, Members', CarryInv, NEW t \in Thread, Calls(t)
  PROVE  CarryInv'
  <1>1. CASE CallServer(t)
    BY <1>1, CallCarries
  <1>2. ASSUME NoApiToCall(t) \/ Connect(t) \/ ConnectFails(t) \/ Register(t)
        PROVE  CarryInv'
    <2>1. wk[t].pc # "idle"
      BY <1>2 DEF NoApiToCall, Connect, ConnectFails, Register
    <2>2. PICK n \in Fd : n = wk[t].sock
      BY <2>1, WorkerCarries
    <2>3. /\ n = wk[t].sock /\ Works(t, n) /\ Carries(t, n)
          /\ WorkOK(t) /\ SockOK(n) /\ ApiOK(n) /\ sock[n].seq \in Nat
          /\ \A e \in queue[t] : e.sock # n
          /\ wk[t].pc \in WithApi => wk[t].api \in Api
      BY <2>1, <2>2, WorkerCarries DEF Members
    <2>4. /\ UNCHANGED <<sock, pipe, acc, exited>> /\ sock[n].fd /\ sock[n].thread = t
          /\ sock[n].status = "PROCESS"
      BY <1>2, <2>3 DEF NoApiToCall, Connect, ConnectFails, Register, WorkOK, ApiOK, WithApi
    <2>5. \A u \in Thread : \A e \in queue[u] : e.fd \in epoll[u]
      BY DEF CarryInv, EventOK
    <2>6. CASE NoApiToCall(t) \/ ConnectFails(t)
      <3>1. PICK pc \in {"error", "release"} : Goto(t, pc) /\ (pc = "error" <=> wk[t].pc = "call")
        BY <2>6 DEF NoApiToCall, ConnectFails
      <3>2. /\ wk'[t].pc = pc /\ wk'[t].sock = n /\ wk'[t].api = wk[t].api
            /\ \A u \in Thread \ {t} : wk'[u] = wk[u]
        BY <2>3, <3>1, GotoDoes
      <3>3. UNCHANGED <<file, api, queue, epoll>> /\ wk[t].pc \in {"call", "connect"}
        BY <2>6 DEF NoApiToCall, ConnectFails
      <3>4. Touches(t, n)
        BY <2>3, <2>4, <2>5, <3>2, <3>3 DEF Touches
      <3>5. SockOK(n)' /\ ApiOK(n)'
        BY <2>3, <2>4, <3>3 DEF SockOK, ApiOK
      <3>6. WorkOK(t)'
        BY <2>3, <2>4, <3>1, <3>2, <3>3 DEF WorkOK
      <3>7. ApiFiles' /\ ~exited'
        BY <2>4, <3>3 DEF CarryInv, ApiFiles
      <3>8. ~HasEvent(t, n)' /\ Works(t, n)'
        BY <2>3, <3>2, <3>3 DEF HasEvent, Works
      <3>9. PassesOn(t, n)
        BY <2>3, <3>2, <3>3, <3>5, <3>6, <3>7, <3>8 DEF PassesOn
      <3> QED  BY <2>3, <3>4, <3>9, StepCarries
    <2>7. CASE Connect(t)
      <3>1. /\ wk[t].pc = "connect" /\ Goto(t, "register") /\ UNCHANGED <<queue, epoll>>
            /\ sock[n].api = wk[t].api /\ wk[t].api \in Api
        BY <2>3, <2>7 DEF Connect, WorkOK, WithApi
      <3>2. /\ wk'[t].pc = "register" /\ wk'[t].sock = n /\ wk'[t].api = wk[t].api
            /\ \A u \in Thread \ {t} : wk'[u] = wk[u]
        BY <2>3, <3>1, GotoDoes
      <3>3. PICK a \in Api : a = wk[t].api
        BY <3>1
      <3>4. /\ \A b \in Api \ {a} : api'[b] = api[b]
            /\ api'[a].used = api[a].used /\ api'[a].seq = api[a].seq /\ api'[a].fd # NoFd
            /\ \A m \in Fd : file[m] # Closed => file'[m] = file[m]
            /\ ApiFiles'
        <4>1. CASE api[a].fd # NoFd
          <5>1. UNCHANGED <<file, api>>
            BY <2>7, <3>3, <4>1 DEF Connect
          <5> QED  BY <4>1, <5>1 DEF CarryInv, ApiFiles
        <4>2. CASE api[a].fd = NoFd
          <5>1. PICK m \in Fd : ApiFd(m, a) /\ api' = [api EXCEPT ![a].fd = m]
            BY <2>7, <3>3, <4>2 DEF Connect
          <5>2. /\ api'[a].fd = m /\ api'[a].used = api[a].used /\ api'[a].seq = api[a].seq
                /\ \A b \in Api \ {a} : api'[b] = api[b]
            BY <5>1 DEF TypeOK, ApiObject
          <5>3. /\ file[m] = Closed /\ file'[m] = ApiFile(a)
                /\ \A l \in Fd \ {m} : file'[l] = file[l]
            BY <5>1 DEF ApiFd, TypeOK
          <5>4. \A b \in Api \ {a} : api[b].fd # NoFd => api[b].fd \in Fd \ {m} /\ file[api[b].fd] = ApiFile(b)
            BY <5>3, FileKinds DEF CarryInv, ApiFiles, Members
          <5>5. ApiFiles'
            BY <5>2, <5>3, <5>4 DEF ApiFiles
          <5>6. m # NoFd
            OBVIOUS
          <5> QED  BY <5>2, <5>3, <5>5, <5>6
        <4> QED  BY <4>1, <4>2
      <3>5. \A m \in Fd, k \in Nat : file[m] = ClientFile(k) => file'[m] = file[m]
        BY <3>4, FileKinds
      <3>6. Touches(t, n)
        <4>1. \A m \in Fd \ {n} : sock[m].api # NoApi => api'[sock[m].api] = api[sock[m].api]
          BY <2>3, <3>1, <3>3, <3>4 DEF ApiOK, Members
        <4> QED  BY <2>3, <2>4, <2>5, <3>1, <3>2, <3>5, <4>1 DEF Touches
      <3>7. SockOK(n)' /\ ApiOK(n)'
        BY <2>3, <2>4, <3>1, <3>3, <3>4, <3>5 DEF SockOK, ApiOK
      <3>8. WorkOK(t)'
        BY <2>4, <3>1, <3>2, <3>3, <3>4 DEF WorkOK
      <3>9. ~HasEvent(t, n)' /\ Works(t, n)'
        BY <2>3, <3>1, <3>2 DEF HasEvent, Works
      <3>10. PassesOn(t, n)
        BY <2>3, <2>4, <3>1, <3>2, <3>4, <3>7, <3>8, <3>9 DEF PassesOn, CarryInv
      <3> QED  BY <2>3, <3>6, <3>10, StepCarries
    <2>8. CASE Register(t)
      <3>1. /\ wk[t].pc = "register" /\ UNCHANGED <<file, api>>
            /\ sock[n].api = wk[t].api /\ wk[t].api \in Api /\ api[wk[t].api].fd # NoFd
        BY <2>3, <2>8 DEF Register, WorkOK, WithApi
      <3>2. PICK m \in Fd : m = api[wk[t].api].fd
        BY <3>1 DEF Members
      <3>3. PICK e : e = ServiceEvent(m, n)
        OBVIOUS
      <3>4. e.fd = m /\ e.sock = n /\ e.what = "service"
        BY <3>3 DEF ServiceEvent
      <3>5. ~NotAdded(t, e)
        <4>1. ~HasEvent(t, n)
          BY <2>3 DEF HasEvent
        <4> QED  BY <3>1, <3>2, <3>4, <4>1, NoEqualApi, AddSucceeds
      <3>6. Added(t, e) /\ Return(t)
        BY <2>3, <2>4, <2>8, <3>2, <3>3, <3>5 DEF Register
      <3>7. /\ queue'[t] = queue[t] \cup {e} /\ e.fd \in epoll'[t]
            /\ \A u \in Thread \ {t} : queue'[u] = queue[u]
            /\ \A u \in Thread : epoll[u] \subseteq epoll'[u]
        BY <3>6, AddedDoes
      <3>8. wk'[t].pc = "idle" /\ \A u \in Thread \ {t} : wk'[u] = wk[u]
        BY <3>6, ReturnDoes
      <3>9. Touches(t, n)
        BY <2>3, <2>4, <2>5, <3>1, <3>4, <3>7, <3>8 DEF Touches
      <3>10. SockOK(n)' /\ ApiOK(n)'
        BY <2>3, <2>4, <3>1 DEF SockOK, ApiOK
      <3>11. WorkOK(t)'
        BY <3>8 DEF WorkOK
      <3>12. EventOK(t, e)'
        <4>1. sock[n].api # NoApi
          BY <3>1
        <4> QED  BY <2>4, <3>1, <3>2, <3>4, <3>7, <4>1 DEF EventOK
      <3>13. ApiFiles' /\ ~exited'
        BY <2>4, <3>1 DEF CarryInv, ApiFiles
      <3>14. \A f \in queue'[t] : f.sock = n => f = e
        BY <2>3, <3>7
      <3>15. HasEvent(t, n)' /\ ~Works(t, n)'
        BY <3>4, <3>7, <3>8 DEF HasEvent, Works
      <3>16. PassesOn(t, n)
        BY <3>8, <3>10, <3>11, <3>12, <3>13, <3>14, <3>15 DEF PassesOn
      <3> QED  BY <2>3, <3>9, <3>16, StepCarries
    <2> QED  BY <1>2, <2>6, <2>7, <2>8
  <1> QED  BY <1>1, <1>2 DEF Calls

(* A message is the only one for its client. *)
LEMMA MsgAlone ==
  ASSUME Members, CarryInv, NEW t \in Thread, NEW n \in Fd, HasMsg(t, n)
  PROVE  /\ sock[n].fd /\ sock[n].thread = t /\ sock[n].status = "READ" /\ sock[n].api = NoApi
         /\ acc.pc # "idle" => acc.fd # n
         /\ \A u \in Thread \ {t} : ~HasMsg(u, n)
         /\ \A u \in Thread : ~HasEvent(u, n) /\ ~Works(u, n)
  <1>1. PICK i \in 1..Len(pipe[t]) : pipe[t][i].fd = n
    BY DEF HasMsg
  <1>2. /\ sock[n].fd /\ sock[n].thread = t /\ sock[n].status = "READ" /\ sock[n].api = NoApi
    BY <1>1 DEF CarryInv, PipeInv, MsgOK
  <1>3. acc.pc # "idle" => acc.fd # n
    BY <1>1, <1>2 DEF CarryInv, AccInv, Once, HasMsg
  <1>4. \A u \in Thread \ {t} : ~HasMsg(u, n)
    BY <1>2 DEF HasMsg, CarryInv, PipeInv, MsgOK
  <1>5. \A u \in Thread : ~Carries(u, n)
    BY <1>1, Alone DEF HasMsg
  <1> QED  BY <1>2, <1>3, <1>4, <1>5 DEF Carries

(* What reading a message leaves in the pipe. *)
LEMMA TailDoes ==
  ASSUME TypeOK, NEW t \in Thread, pipe[t] # <<>>, pipe' = [pipe EXCEPT ![t] = Tail(@)]
  PROVE  /\ Len(pipe[t]) \in Nat \ {0} /\ Head(pipe[t]) = pipe[t][1]
         /\ Len(pipe'[t]) = Len(pipe[t]) - 1
         /\ \A i \in 1..Len(pipe'[t]) : i + 1 \in 1..Len(pipe[t]) /\ pipe'[t][i] = pipe[t][i + 1]
         /\ \A u \in Thread \ {t} : pipe'[u] = pipe[u]
  <1>1. pipe[t] \in Seq(Msg) /\ pipe'[t] = Tail(pipe[t])
        /\ \A u \in Thread \ {t} : pipe'[u] = pipe[u]
    BY DEF TypeOK
  <1>2. PICK s \in Seq(Msg) : s = pipe[t]
    BY <1>1
  <1>3. s # <<>> /\ pipe'[t] = Tail(s)
    BY <1>1, <1>2
  <1>4. /\ Len(s) \in Nat \ {0} /\ Head(s) = s[1] /\ Len(Tail(s)) = Len(s) - 1
        /\ \A i \in 1..Len(Tail(s)) : i + 1 \in 1..Len(s) /\ Tail(s)[i] = s[i + 1]
    BY <1>3, HeadTailProperties, LenProperties, EmptySeq
  <1> QED  BY <1>1, <1>2, <1>3, <1>4

(* The thread that reads a message carries its client on. *)
LEMMA MsgCarries ==
  ASSUME TypeOK, Members, Members', CarryInv, NEW t \in Thread, NEW n \in Fd,
         wk[t].pc = "idle", pipe[t] # <<>>, n = Head(pipe[t]).fd,
         pipe' = [pipe EXCEPT ![t] = Tail(@)], UNCHANGED <<file, sock, api, acc, exited>>,
         \/ Added(t, RecvEvent(n)) /\ wk' = wk
         \/ /\ wk' = [wk EXCEPT ![t] = [pc |-> "error", in |-> "pipe", sock |-> n, api |-> NoApi]]
            /\ UNCHANGED <<queue, epoll>>
  PROVE  CarryInv'
  <1>1. /\ Len(pipe[t]) \in Nat \ {0} /\ n = pipe[t][1].fd
        /\ Len(pipe'[t]) = Len(pipe[t]) - 1
        /\ \A i \in 1..Len(pipe'[t]) : i + 1 \in 1..Len(pipe[t]) /\ pipe'[t][i] = pipe[t][i + 1]
        /\ \A u \in Thread \ {t} : pipe'[u] = pipe[u]
    BY TailDoes
  <1>2. HasMsg(t, n)
    BY <1>1 DEF HasMsg
  <1>3. /\ sock[n].fd /\ sock[n].thread = t /\ sock[n].status = "READ" /\ sock[n].api = NoApi
        /\ acc.pc # "idle" => acc.fd # n
        /\ \A u \in Thread \ {t} : ~HasMsg(u, n)
        /\ \A u \in Thread : ~HasEvent(u, n) /\ ~Works(u, n)
    BY <1>2, MsgAlone
  <1>4. PICK e : e = RecvEvent(n)
    OBVIOUS
  <1>5. e.fd = n /\ e.sock = n /\ e.what = "recv"
    BY <1>4 DEF RecvEvent
  <1>6. /\ \A u \in Thread \ {t} : queue'[u] = queue[u] /\ wk'[u] = wk[u]
        /\ \A u \in Thread : epoll[u] \subseteq epoll'[u]
        /\ \/ queue'[t] = queue[t] \cup {e} /\ n \in epoll'[t] /\ wk'[t].pc = "idle"
           \/ queue'[t] = queue[t] /\ wk'[t].pc = "error" /\ wk'[t].sock = n
    <2>1. CASE Added(t, RecvEvent(n)) /\ wk' = wk
      BY <1>4, <1>5, <2>1, AddedDoes
    <2>2. CASE /\ wk' = [wk EXCEPT ![t] = [pc |-> "error", in |-> "pipe", sock |-> n, api |-> NoApi]]
               /\ UNCHANGED <<queue, epoll>>
      BY <2>2 DEF TypeOK
    <2> QED  BY <2>1, <2>2
  <1>7. /\ \A m \in Fd \ {n}, u \in Thread : HasEvent(u, m)' <=> HasEvent(u, m)
        /\ \A m \in Fd \ {n}, u \in Thread : Works(u, m)' <=> Works(u, m)
        /\ \A u \in Thread \ {t} : ~HasEvent(u, n)' /\ ~Works(u, n)'
        /\ (HasEvent(t, n)' /\ ~Works(t, n)') \/ (~HasEvent(t, n)' /\ Works(t, n)')
    BY <1>3, <1>5, <1>6 DEF HasEvent, Works
  <1>8. \A u \in Thread, m \in Fd \ {n} : HasMsg(u, m)' <=> HasMsg(u, m)
    <2>1. ASSUME NEW u \in Thread \ {t}, NEW m \in Fd PROVE HasMsg(u, m)' <=> HasMsg(u, m)
      BY <1>1 DEF HasMsg
    <2>2. ASSUME NEW m \in Fd \ {n}, HasMsg(t, m)' PROVE HasMsg(t, m)
      BY <1>1, <2>2 DEF HasMsg
    <2>3. ASSUME NEW m \in Fd \ {n}, HasMsg(t, m) PROVE HasMsg(t, m)'
      <3>1. PICK i \in 1..Len(pipe[t]) : pipe[t][i].fd = m
        BY <2>3 DEF HasMsg
      <3>2. i # 1
        BY <1>1, <3>1
      <3>3. i - 1 \in 1..Len(pipe'[t]) /\ (i - 1) + 1 = i
        BY <1>1, <3>1, <3>2
      <3> QED  BY <1>1, <3>1, <3>3 DEF HasMsg
    <2> QED  BY <2>1, <2>2, <2>3
  <1>9. \A u \in Thread : ~HasMsg(u, n)'
    <2>1. ~HasMsg(t, n)'
      <3>1. SUFFICES ASSUME NEW i \in 1..Len(pipe'[t]), pipe'[t][i].fd = n PROVE FALSE
        BY DEF HasMsg
      <3>2. i + 1 \in 1..Len(pipe[t]) /\ pipe[t][i + 1].fd = n /\ 1 \in 1..Len(pipe[t]) /\ i + 1 # 1
        BY <1>1, <3>1
      <3> QED  BY <1>1, <3>2 DEF CarryInv, Once
    <2> QED  BY <1>1, <1>3, <2>1 DEF HasMsg
  <1>10. ASSUME NEW m \in Fd PROVE (SockOK(m) /\ ApiOK(m) /\ Some(m))'
    <2>1. SockOK(m)' /\ ApiOK(m)'
      BY DEF CarryInv, SockOK, ApiOK
    <2>2. Some(m)'
      BY <1>7, <1>8 DEF CarryInv, Some
    <2> QED  BY <2>1, <2>2
  <1>11. ASSUME NEW u \in Thread PROVE WorkOK(u)'
    <2>1. CASE u = t
      BY <1>3, <1>6, <2>1 DEF WorkOK
    <2>2. CASE u # t
      BY <1>6, <2>2 DEF WorkOK, CarryInv
    <2> QED  BY <2>1, <2>2
  <1>12. ASSUME NEW u \in Thread, NEW f \in queue'[u] PROVE EventOK(u, f)'
    <2>1. CASE f \in queue[u]
      BY <1>6, <2>1 DEF EventOK, CarryInv
    <2>2. CASE f \notin queue[u]
      <3>1. u = t /\ f = e /\ n \in epoll'[t]
        BY <1>6, <2>2
      <3> QED  BY <1>3, <1>5, <3>1 DEF EventOK
    <2> QED  BY <2>1, <2>2
  <1>13. ASSUME NEW u \in Thread PROVE Once(u)'
    <2>1. acc.pc = "pipe" => ~HasMsg(u, acc.fd)' /\ ~HasEvent(u, acc.fd)' /\ ~Works(u, acc.fd)'
      BY <1>3, <1>7, <1>8 DEF CarryInv, Once, Members
    <2>2. \A i, j \in 1..Len(pipe'[u]) : pipe'[u][i].fd = pipe'[u][j].fd => i = j
      <3>1. CASE u = t
        <4> SUFFICES ASSUME NEW i \in 1..Len(pipe'[t]), NEW j \in 1..Len(pipe'[t]),
                            pipe'[t][i].fd = pipe'[t][j].fd
                     PROVE  i = j
          BY <3>1
        <4>1. i + 1 = j + 1
          BY <1>1 DEF CarryInv, Once
        <4> QED  BY <4>1
      <3>2. CASE u # t
        BY <1>1, <3>2 DEF CarryInv, Once
      <3> QED  BY <3>1, <3>2
    <2>3. \A i \in 1..Len(pipe'[u]) : ~HasEvent(u, pipe[u][i].fd)' /\ ~Works(u, pipe[u][i].fd)'
      <3> SUFFICES ASSUME NEW m \in Fd, HasMsg(u, m)' PROVE ~HasEvent(u, m)' /\ ~Works(u, m)'
        BY DEF HasMsg, Members
      <3>1. m # n
        BY <1>9
      <3>2. HasMsg(u, m)
        BY <1>8, <3>1
      <3>3. ~HasEvent(u, m) /\ ~Works(u, m)
        BY <3>2, MsgAlone
      <3> QED  BY <1>7, <3>1, <3>3
    <2>4. \A f \in queue'[u] : ~Works(u, f.sock)'
      <3> SUFFICES ASSUME NEW m \in Fd, HasEvent(u, m)' PROVE ~Works(u, m)'
        BY DEF HasEvent, Members
      <3>1. CASE m = n
        BY <1>7, <3>1
      <3>2. CASE m # n
        BY <1>7, <3>2 DEF CarryInv, Once, HasEvent
      <3> QED  BY <3>1, <3>2
    <2>5. \A f, g \in queue'[u] : f.sock = g.sock => f = g
      BY <1>3, <1>5, <1>6 DEF CarryInv, Once, HasEvent
    <2>6. \A v \in Thread : wk'[u].pc = "close" /\ wk'[v].pc = "close" /\ wk'[u].sock = wk'[v].sock => u = v
      BY <1>6 DEF CarryInv, Once
    <2> QED  BY <2>1, <2>2, <2>3, <2>4, <2>5, <2>6 DEF Once
  <1>14. PipeInv'
    <2>1. ASSUME NEW u \in Thread
          PROVE  Len(pipe'[u]) <= PipeSize /\ \A i \in 1..Len(pipe'[u]) : MsgOK(u, pipe[u][i])'
      <3>1. CASE u = t
        BY <1>1, <3>1 DEF CarryInv, PipeInv, MsgOK
      <3>2. CASE u # t
        BY <1>1, <3>2 DEF CarryInv, PipeInv, MsgOK
      <3> QED  BY <3>1, <3>2
    <2> QED  BY <2>1 DEF PipeInv
  <1>15. ApiFiles' /\ AccInv' /\ ~exited'
    BY DEF CarryInv, ApiFiles, AccInv
  <1> QED  BY <1>10, <1>11, <1>12, <1>13, <1>14, <1>15 DEF CarryInv

(* _process_dispatch takes over exactly the client of its message. *)
LEMMA ReadsPipeCarries ==
  ASSUME ~torn', TypeOK, Members, Members', CarryInv, NEW t \in Thread, ReadsPipe(t)
  PROVE  CarryInv'
  <1>1. wk[t].pc = "idle" /\ pipe[t] # <<>> /\ pipe' = [pipe EXCEPT ![t] = Tail(@)]
        /\ UNCHANGED <<file, sock, api, acc, exited>>
    BY DEF ReadsPipe, StartReading, RefuseClient
  <1>2. Len(pipe[t]) \in Nat \ {0} /\ Head(pipe[t]) = pipe[t][1]
    BY <1>1, TailDoes
  <1>3. PICK n \in Fd : n = Head(pipe[t]).fd
    BY <1>2 DEF Members
  <1>4. HasMsg(t, n)
    BY <1>2, <1>3 DEF HasMsg
  <1>5. sock[n].fd /\ sock[n].thread = t /\ sock[n].status = "READ" /\ ~HasEvent(t, n)
    BY <1>4, MsgAlone
  <1>6. CatchAt(n) = "error"
    BY <1>5 DEF CatchAt
  <1>7. ~NotAdded(t, RecvEvent(n))
    <2>1. RecvEvent(n).fd = n
      BY DEF RecvEvent
    <2> QED  BY <1>5, <2>1, NoEqualClient, AddSucceeds
  <1>8. CASE StartReading(t)
    <2>1. Added(t, RecvEvent(n)) /\ wk' = wk
      BY <1>3, <1>5, <1>7, <1>8 DEF StartReading
    <2> QED  BY <1>1, <1>3, <2>1, MsgCarries
  <1>9. CASE RefuseClient(t)
    <2>1. /\ wk' = [wk EXCEPT ![t] = [pc |-> "error", in |-> "pipe", sock |-> n, api |-> NoApi]]
          /\ UNCHANGED <<queue, epoll>>
      BY <1>3, <1>6, <1>9 DEF RefuseClient
    <2> QED  BY <1>1, <1>3, <2>1, MsgCarries
  <1> QED  BY <1>8, <1>9 DEF ReadsPipe

(* A number that the accept thread holds is nobody else's. *)
LEMMA AcceptedAlone ==
  ASSUME Members, CarryInv, NEW n \in Fd, acc.pc # "idle", n = acc.fd
  PROVE  /\ \A u \in Thread : ~HasMsg(u, n) /\ ~HasEvent(u, n) /\ ~Works(u, n)
         /\ acc.pc = "init" => file[n] = ClientFile(acc.seq + 1) /\ ~sock[n].fd
  <1>1. ASSUME NEW u \in Thread PROVE ~HasEvent(u, n) /\ ~Works(u, n)
    BY Alone DEF Carries
  <1>2. ASSUME NEW u \in Thread, HasMsg(u, n) PROVE FALSE
    BY <1>2, MsgAlone
  <1>3. acc.pc = "init" => file[n] = ClientFile(acc.seq + 1) /\ ~sock[n].fd
    BY DEF CarryInv, AccInv
  <1> QED  BY <1>1, <1>2, <1>3

(* A number that is accepted stands for no client and no api yet. *)
LEMMA AcceptCarries ==
  ASSUME TypeOK, Members, Members', CarryInv, Accept
  PROVE  CarryInv'
  <1>1. PICK n \in Fd : AcceptFd(n, acc.seq + 1) /\ acc' = [acc EXCEPT !.pc = "init", !.fd = n]
    BY DEF Accept
  <1>2. acc'.pc = "init" /\ acc'.fd = n /\ acc'.seq = acc.seq
    BY <1>1 DEF TypeOK
  <1>3. acc.pc = "idle" /\ UNCHANGED <<sock, api, pipe, queue, epoll, wk, exited>>
    BY DEF Accept
  <1>4. /\ file[n] = Closed /\ file'[n] = ClientFile(acc.seq + 1)
        /\ \A m \in Fd \ {n} : file'[m] = file[m]
    BY <1>1 DEF AcceptFd, TypeOK
  <1>5. ~sock[n].fd
    BY <1>4, FileKinds DEF CarryInv, SockOK
  <1>6. ASSUME NEW m \in Fd PROVE (SockOK(m) /\ ApiOK(m) /\ Some(m))'
    <2>1. SockOK(m)'
      BY <1>2, <1>3, <1>4, <1>5 DEF CarryInv, SockOK
    <2>2. ApiOK(m)'
      BY <1>3 DEF CarryInv, ApiOK
    <2>3. Some(m)'
      BY <1>3 DEF CarryInv, Some, HasMsg, HasEvent, Works
    <2> QED  BY <2>1, <2>2, <2>3
  <1>7. ASSUME NEW t \in Thread PROVE WorkOK(t)' /\ Once(t)' /\ \A e \in queue'[t] : EventOK(t, e)'
    <2>1. wk[t].pc = "close" => wk[t].sock \in Fd \ {n}
      BY <1>4, FileKinds DEF CarryInv, WorkOK, Members
    <2>2. WorkOK(t)'
      BY <1>3, <1>4, <2>1 DEF CarryInv, WorkOK
    <2>3. Once(t)'
      BY <1>2, <1>3 DEF CarryInv, Once, HasMsg, HasEvent, Works
    <2>4. \A e \in queue'[t] : EventOK(t, e)'
      BY <1>3 DEF CarryInv, EventOK
    <2> QED  BY <2>2, <2>3, <2>4
  <1>8. ApiFiles'
    BY <1>3, <1>4, FileKinds DEF CarryInv, ApiFiles, Members
  <1>9. PipeInv' /\ ~exited'
    BY <1>3 DEF CarryInv, PipeInv, MsgOK
  <1>10. AccInv'
    BY <1>2, <1>3, <1>4, <1>5 DEF AccInv
  <1> QED  BY <1>6, <1>7, <1>8, <1>9, <1>10 DEF CarryInv

(* init gives the accepted number to the new client. *)
LEMMA InitSocketCarries ==
  ASSUME AcceptsSucceed, TypeOK, Members, Members', CarryInv, InitSocket
  PROVE  CarryInv'
  <1>1. acc.pc = "init" /\ UNCHANGED <<file, api, pipe, queue, epoll, wk, exited>>
    BY DEF InitSocket
  <1>2. PICK n \in Fd : n = acc.fd
    BY <1>1 DEF Members
  <1>3. /\ \A u \in Thread : ~HasMsg(u, n) /\ ~HasEvent(u, n) /\ ~Works(u, n)
        /\ file[n] = ClientFile(acc.seq + 1) /\ ~sock[n].fd /\ acc.seq \in Nat
    BY <1>1, <1>2, AcceptedAlone DEF Members
  <1>4. sock[n].api = NoApi /\ sock[n].thread = NoThread
    BY <1>3 DEF CarryInv, SockOK
  <1>5. /\ sock' = [sock EXCEPT ![n] = [fd |-> TRUE, status |-> "READ", thread |-> acc.next,
                                        seq |-> acc.seq + 1, api |-> sock[n].api]]
        /\ acc' = [acc EXCEPT !.pc = "pipe", !.seq = @ + 1, !.next = NextThread]
    BY <1>2 DEF InitSocket, AcceptsSucceed, Fault
  <1>6. /\ sock'[n].fd = TRUE /\ sock'[n].status = "READ" /\ sock'[n].thread = acc.next
        /\ sock'[n].seq = acc.seq + 1 /\ sock'[n].api = NoApi
        /\ \A m \in Fd \ {n} : sock'[m] = sock[m]
    BY <1>4, <1>5 DEF TypeOK
  <1>7. acc'.pc = "pipe" /\ acc'.fd = n /\ acc'.seq = acc.seq + 1 /\ acc.next \in Thread
    BY <1>2, <1>5 DEF TypeOK
  <1>8. \A u \in Thread : \A m : /\ HasMsg(u, m)' <=> HasMsg(u, m)
                                 /\ HasEvent(u, m)' <=> HasEvent(u, m)
                                 /\ Works(u, m)' <=> Works(u, m)
    BY <1>1 DEF HasMsg, HasEvent, Works
  <1>9. ASSUME NEW m \in Fd PROVE (SockOK(m) /\ ApiOK(m) /\ Some(m))'
    <2>1. CASE m = n
      BY <1>1, <1>3, <1>6, <1>7, <2>1 DEF SockOK, ApiOK, Some
    <2>2. CASE m # n
      <3>1. SockOK(m)'
        BY <1>1, <1>3, <1>6, <1>7, <2>2 DEF CarryInv, SockOK, Members
      <3>2. ApiOK(m)'
        BY <1>1, <1>6, <2>2 DEF CarryInv, ApiOK
      <3>3. Some(m)'
        BY <1>1, <1>6, <1>8, <2>2 DEF CarryInv, Some
      <3> QED  BY <3>1, <3>2, <3>3
    <2> QED  BY <2>1, <2>2
  <1>10. ASSUME NEW t \in Thread PROVE WorkOK(t)' /\ Once(t)' /\ \A e \in queue'[t] : EventOK(t, e)'
    <2>1. WorkOK(t)'
      <3>1. wk[t].pc # "idle" => wk[t].sock \in Fd \ {n}
        BY <1>3 DEF Works, Members
      <3> QED  BY <1>1, <1>6, <3>1 DEF CarryInv, WorkOK
    <2>2. Once(t)'
      <3>1. acc'.pc = "pipe" => ~HasMsg(t, acc.fd)' /\ ~HasEvent(t, acc.fd)' /\ ~Works(t, acc.fd)'
        BY <1>3, <1>7, <1>8
      <3>2. \A e \in queue[t] : ~Works(t, e.sock)'
        BY <1>8 DEF CarryInv, Once
      <3>3. \A i \in 1..Len(pipe[t]) : ~HasEvent(t, pipe[t][i].fd)' /\ ~Works(t, pipe[t][i].fd)'
        BY <1>1, <1>8 DEF CarryInv, Once
      <3> QED  BY <1>1, <3>1, <3>2, <3>3 DEF CarryInv, Once
    <2>3. \A e \in queue'[t] : EventOK(t, e)'
      <3>1. \A e \in queue[t] : e.sock \in Fd \ {n}
        BY <1>3 DEF HasEvent, Members
      <3> QED  BY <1>1, <1>6, <3>1 DEF CarryInv, EventOK
    <2> QED  BY <2>1, <2>2, <2>3
  <1>11. PipeInv'
    <2>1. \A u \in Thread : \A i \in 1..Len(pipe[u]) : pipe[u][i].fd \in Fd \ {n}
      BY <1>3 DEF HasMsg, Members
    <2> QED  BY <1>1, <1>6, <2>1 DEF CarryInv, PipeInv, MsgOK
  <1>12. ApiFiles' /\ ~exited'
    BY <1>1 DEF CarryInv, ApiFiles
  <1>13. AccInv'
    BY <1>6, <1>7 DEF AccInv
  <1> QED  BY <1>9, <1>10, <1>11, <1>12, <1>13 DEF CarryInv

(* The accept thread passes the client on to one thread. *)
LEMMA WritePipeCarries ==
  ASSUME AcceptsSucceed, TypeOK, Members, Members', CarryInv, WritePipe
  PROVE  CarryInv'
  <1>1. acc.pc = "pipe" /\ UNCHANGED <<file, sock, api, queue, epoll, wk, exited>>
    BY DEF WritePipe
  <1>2. PICK n \in Fd : n = acc.fd
    BY <1>1 DEF Members
  <1>3. /\ \A u \in Thread : ~HasMsg(u, n) /\ ~HasEvent(u, n) /\ ~Works(u, n)
        /\ sock[n].fd /\ sock[n].status = "READ" /\ sock[n].api = NoApi /\ sock[n].thread \in Thread
    BY <1>1, <1>2, AcceptedAlone DEF CarryInv, AccInv, SockOK
  <1>4. PICK t \in Thread : t = sock[n].thread
    BY <1>3
  <1>5. PICK msg : msg = [fd |-> n, seq |-> sock[n].seq]
    OBVIOUS
  <1>6. /\ Len(pipe[t]) < PipeSize /\ pipe' = [pipe EXCEPT ![t] = Append(@, msg)]
        /\ acc' = [acc EXCEPT !.pc = "idle", !.fd = NoFd]
    BY <1>2, <1>4, <1>5 DEF WritePipe, AcceptsSucceed, Fault
  <1>7. acc'.pc = "idle" /\ acc'.seq = acc.seq
    BY <1>6 DEF TypeOK
  <1>8. msg \in Msg /\ msg.fd = n /\ msg.seq = sock[n].seq
    BY <1>5, SocketTypes DEF TypeOK, Msg
  <1>9. /\ Len(pipe[t]) \in Nat /\ Len(pipe'[t]) = Len(pipe[t]) + 1
        /\ \A i \in 1..Len(pipe[t]) : pipe'[t][i] = pipe[t][i]
        /\ pipe'[t][Len(pipe[t]) + 1] = msg
        /\ \A u \in Thread \ {t} : pipe'[u] = pipe[u]
    <2>1. pipe[t] \in Seq(Msg) /\ pipe'[t] = Append(pipe[t], msg)
          /\ \A u \in Thread \ {t} : pipe'[u] = pipe[u]
      BY <1>6 DEF TypeOK
    <2>2. PICK s \in Seq(Msg) : s = pipe[t]
      BY <2>1
    <2>3. /\ Len(s) \in Nat /\ Len(Append(s, msg)) = Len(s) + 1
          /\ \A i \in 1..Len(s) : Append(s, msg)[i] = s[i]
          /\ Append(s, msg)[Len(s) + 1] = msg
      BY <1>8, AppendProperties, LenProperties
    <2> QED  BY <2>1, <2>2, <2>3
  <1>10. \A i \in 1..Len(pipe'[t]) : i \in 1..Len(pipe[t]) \/ (i = Len(pipe[t]) + 1 /\ pipe'[t][i] = msg)
    BY <1>9
  <1>11. \A u \in Thread, m \in Fd \ {n} : HasMsg(u, m)' <=> HasMsg(u, m)
    <2>1. ASSUME NEW u \in Thread, NEW m \in Fd \ {n}, HasMsg(u, m) PROVE HasMsg(u, m)'
      <3>1. PICK i \in 1..Len(pipe[u]) : pipe[u][i].fd = m
        BY <2>1 DEF HasMsg
      <3>2. i \in 1..Len(pipe'[u]) /\ pipe'[u][i] = pipe[u][i]
        BY <1>9, <3>1
      <3> QED  BY <3>1, <3>2 DEF HasMsg
    <2>2. ASSUME NEW u \in Thread, NEW m \in Fd \ {n}, HasMsg(u, m)' PROVE HasMsg(u, m)
      <3>1. PICK i \in 1..Len(pipe'[u]) : pipe'[u][i].fd = m
        BY <2>2 DEF HasMsg
      <3>2. i \in 1..Len(pipe[u]) /\ pipe'[u][i] = pipe[u][i]
        BY <1>8, <1>9, <1>10, <3>1
      <3> QED  BY <3>1, <3>2 DEF HasMsg
    <2> QED  BY <2>1, <2>2
  <1>12. HasMsg(t, n)'
    <2>1. Len(pipe[t]) + 1 \in 1..Len(pipe'[t])
      BY <1>9
    <2> QED  BY <1>8, <1>9, <2>1 DEF HasMsg
  <1>13. \A u \in Thread : \A m : (HasEvent(u, m)' <=> HasEvent(u, m)) /\ (Works(u, m)' <=> Works(u, m))
    BY <1>1 DEF HasEvent, Works
  <1>14. ASSUME NEW m \in Fd PROVE (SockOK(m) /\ ApiOK(m) /\ Some(m))'
    <2>1. SockOK(m)' /\ ApiOK(m)'
      BY <1>1, <1>7 DEF CarryInv, SockOK, ApiOK
    <2>2. Some(m)'
      BY <1>1, <1>2, <1>11, <1>12, <1>13 DEF CarryInv, Some
    <2> QED  BY <2>1, <2>2
  <1>15. ASSUME NEW u \in Thread PROVE WorkOK(u)' /\ Once(u)' /\ \A e \in queue'[u] : EventOK(u, e)'
    <2>1. WorkOK(u)' /\ \A e \in queue'[u] : EventOK(u, e)'
      BY <1>1 DEF CarryInv, WorkOK, EventOK
    <2>2. \A i, j \in 1..Len(pipe'[u]) : pipe'[u][i].fd = pipe'[u][j].fd => i = j
      <3>1. CASE u = t
        <4>1. \A i \in 1..Len(pipe[t]) : pipe[t][i].fd # n
          BY <1>3 DEF HasMsg
        <4>2. \A i, j \in 1..Len(pipe[t]) : pipe[t][i].fd = pipe[t][j].fd => i = j
          BY DEF CarryInv, Once
        <4>3. \A i \in 1..Len(pipe'[t]) :
                 \/ i \in 1..Len(pipe[t]) /\ pipe'[t][i].fd = pipe[t][i].fd /\ pipe'[t][i].fd # n
                 \/ i = Len(pipe[t]) + 1 /\ pipe'[t][i].fd = n
          BY <1>8, <1>9, <1>10, <4>1
        <4>4. SUFFICES ASSUME NEW i \in 1..Len(pipe'[t]), NEW j \in 1..Len(pipe'[t]),
                              pipe'[t][i].fd = pipe'[t][j].fd
                       PROVE  i = j
          BY <3>1
        <4> QED  BY <4>2, <4>3, <4>4
      <3>2. CASE u # t
        BY <1>9, <3>2 DEF CarryInv, Once
      <3> QED  BY <3>1, <3>2
    <2>3. \A i \in 1..Len(pipe'[u]) : ~HasEvent(u, pipe[u][i].fd)' /\ ~Works(u, pipe[u][i].fd)'
      <3> SUFFICES ASSUME NEW m \in Fd, HasMsg(u, m)' PROVE ~HasEvent(u, m)' /\ ~Works(u, m)'
        BY DEF HasMsg, Members
      <3>1. CASE m = n
        BY <1>3, <1>13, <3>1
      <3>2. CASE m # n
        BY <1>11, <1>13, <3>2, MsgAlone
      <3> QED  BY <3>1, <3>2
    <2>4. Once(u)'
      <3>1. \A e \in queue[u] : ~Works(u, e.sock)'
        BY <1>13 DEF CarryInv, Once
      <3> QED  BY <1>1, <1>7, <2>2, <2>3, <3>1 DEF CarryInv, Once
    <2> QED  BY <2>1, <2>4
  <1>16. PipeInv'
    <2>1. ASSUME NEW u \in Thread
          PROVE  Len(pipe'[u]) <= PipeSize /\ \A i \in 1..Len(pipe'[u]) : MsgOK(u, pipe[u][i])'
      <3>1. CASE u = t
        <4>1. Len(pipe'[t]) <= PipeSize
          BY <1>6, <1>9
        <4>2. ASSUME NEW i \in 1..Len(pipe'[t]) PROVE MsgOK(t, pipe[t][i])'
          <5>1. CASE pipe'[t][i] = msg
            BY <1>1, <1>3, <1>4, <1>8, <5>1 DEF MsgOK
          <5>2. CASE i \in 1..Len(pipe[t])
            <6>1. MsgOK(t, pipe[t][i]) /\ pipe'[t][i] = pipe[t][i]
              BY <1>9, <5>2 DEF CarryInv, PipeInv
            <6> QED  BY <1>1, <6>1 DEF MsgOK
          <5> QED  BY <1>10, <5>1, <5>2
        <4> QED  BY <3>1, <4>1, <4>2
      <3>2. CASE u # t
        BY <1>1, <1>9, <3>2 DEF CarryInv, PipeInv, MsgOK
      <3> QED  BY <3>1, <3>2
    <2> QED  BY <2>1 DEF PipeInv
  <1>17. ApiFiles' /\ ~exited' /\ AccInv'
    BY <1>1, <1>7 DEF CarryInv, ApiFiles, AccInv
  <1> QED  BY <1>14, <1>15, <1>16, <1>17 DEF CarryInv

(* The invariant holds at first ... *)
LEMMA InitCarries ==
  ASSUME Init, Members
  PROVE  CarryInv
  <1>1. \A n \in Fd : SockOK(n) /\ ApiOK(n) /\ Some(n)
    BY DEF Init, SockOK, ApiOK, Some
  <1>2. ASSUME NEW t \in Thread PROVE WorkOK(t) /\ Once(t) /\ \A e \in queue[t] : EventOK(t, e)
    <2>1. wk[t].pc = "idle" /\ queue[t] = {} /\ Len(pipe[t]) = 0 /\ acc.pc = "idle"
      BY <1>2 DEF Init
    <2> QED  BY <2>1 DEF WorkOK, Once
  <1>3. ApiFiles /\ AccInv /\ PipeInv /\ ~exited
    <2>1. \A a \in Api : api[a].fd = NoFd
      BY DEF Init
    <2>2. \A t \in Thread : Len(pipe[t]) = 0
      BY DEF Init
    <2>3. acc.pc = "idle" /\ ~exited
      BY DEF Init
    <2> QED  BY <2>1, <2>2, <2>3 DEF ApiFiles, AccInv, PipeInv
  <1> QED  BY <1>1, <1>2, <1>3 DEF CarryInv

(* ... and every step keeps it. *)
LEMMA NextCarries ==
  ASSUME AcceptsSucceed, ~torn', TypeInv, TypeInv', CarryInv, [Next]_vars
  PROVE  CarryInv'
  <1>1. TypeOK /\ Members /\ Members'
    <2>1. TypeInv' => Members'
      BY TypeGivesMembers, PTL
    <2> QED  BY <2>1, TypeGivesMembers DEF TypeInv
  <1>2. CASE UNCHANGED vars
    BY <1>2 DEF vars, CarryInv, SockOK, ApiOK, Some, WorkOK, Once, EventOK, ApiFiles, AccInv, PipeInv,
                MsgOK, HasMsg, HasEvent, Works
  <1>3. CASE AcceptThread
    <2>1. ~InitAborts /\ ~CloseClientFd /\ ~FiniAccepted /\ ~CloseAccepted
      BY DEF InitAborts, CloseClientFd, FiniAccepted, CloseAccepted, CarryInv, AccInv
    <2> QED  BY <1>1, <1>3, <2>1, AcceptCarries, InitSocketCarries, WritePipeCarries DEF AcceptThread
  <1>4. ASSUME NEW t \in Thread, ProcessThread(t) PROVE CarryInv'
    <2>1. ~exited
      BY DEF CarryInv
    <2> QED
      BY <1>1, <1>4, <2>1, Kinds, ReadsPipeCarries, HandlesCarries, CallsCarries, ReleasesCarries,
         FreeAgainCarries, AnswersCarries
  <1> QED  BY <1>2, <1>3, <1>4 DEF Next

(* What was torn stays so: torn is a history. *)
LEMMA TornStays ==
  ASSUME torn, [Next]_vars
  PROVE  torn'
  <1>1. CASE UNCHANGED vars
    BY <1>1 DEF vars
  <1>2. CASE AcceptThread
    BY <1>2 DEF AcceptThread, Accept, InitSocket, InitAborts, WritePipe, CloseClientFd, FiniAccepted,
                CloseAccepted
  <1>3. ASSUME NEW t \in Thread, ProcessThread(t) PROVE torn'
    <2>1. CASE ReadsPipe(t)
      BY <2>1 DEF ReadsPipe, StartReading, RefuseClient, Added, NotAdded
    <2>2. CASE Handles(t)
      BY <2>2 DEF Handles, Handler, Received, Answered, ClientFails, ServiceAnswers, ServiceForeign, ServiceFails
    <2>3. CASE Calls(t)
      BY <2>3 DEF Calls, CallServer, NoApiToCall, Connect, ConnectFails, Register, Added, NotAdded
    <2>4. CASE Releases(t)
      BY <2>4 DEF Releases, GiveBack, LeaveClient, ReleaseApi, FreeAgain
    <2>5. CASE Answers(t)
      BY <2>5 DEF Answers, Reply, WriteError, Fini, CloseSocket, Added, NotAdded
    <2> QED  BY <1>3, <2>1, <2>2, <2>3, <2>4, <2>5, Kinds
  <1> QED  BY <1>1, <1>2, <1>3 DEF Next

(* While accepts succeed the two invariants hold together until something was torn. *)
LEMMA CarryCorrect ==
  ASSUME AcceptsSucceed
  PROVE  Spec => [](TypeInv /\ (torn \/ CarryInv))
  <1>1. Init => TypeInv /\ (torn \/ CarryInv)
    BY InitType, TypeGivesMembers, InitCarries
  <1>2. TypeInv /\ (torn \/ CarryInv) /\ [Next]_vars => (TypeInv /\ (torn \/ CarryInv))'
    <2> SUFFICES ASSUME TypeInv, torn \/ CarryInv, [Next]_vars PROVE (TypeInv /\ (torn \/ CarryInv))'
      OBVIOUS
    <2>1. TypeInv'
      BY NextType
    <2>2. CASE torn
      BY <2>1, <2>2, TornStays
    <2>3. CASE CarryInv /\ ~torn'
      BY <2>1, <2>3, NextCarries
    <2> QED  BY <2>1, <2>2, <2>3
  <1> QED  BY <1>1, <1>2, PTL DEF Spec

(* What the invariant says of each thread is OwnOnly. *)
LEMMA CarryGivesOwnOnly ==
  ASSUME TypeInv, torn \/ CarryInv
  PROVE  OwnOnly
  <1> SUFFICES ASSUME CarryInv PROVE OwnOnly
    BY DEF OwnOnly, TypeInv
  <1>1. Members /\ TypeOK
    BY TypeGivesMembers DEF TypeInv
  <1>2. MessagesMatch
    <2>1. \A t \in Thread : \A i \in 1..Len(pipe[t]) : pipe[t][i].fd \in Fd
      BY <1>1 DEF Members
    <2> QED  BY <2>1 DEF MessagesMatch, CarryInv, PipeInv, MsgOK, SockOK
  <1>3. OwnThread
    BY DEF OwnThread, CarryInv, EventOK
  <1>4. EventsLive
    <2>1. ASSUME NEW t \in Thread, NEW e \in queue[t]
          PROVE  file[e.fd] # Closed /\ e.fd \in epoll[t]
      BY <1>1, EventFile, FileKinds DEF CarryInv, EventOK
    <2> QED  BY <1>1, <2>1, EventsApart DEF EventsLive
  <1>5. RightAnswer
    <2> SUFFICES ASSUME NEW t \in Thread, NEW e \in queue[t], e.what = "service"
                 PROVE  /\ sock[e.sock].status = "PROCESS" /\ sock[e.sock].api # NoApi
                        /\ api[sock[e.sock].api].fd = e.fd /\ api[sock[e.sock].api].used
                        /\ api[sock[e.sock].api].seq = sock[e.sock].seq
                        /\ file[e.fd] = ApiFile(sock[e.sock].api)
      BY DEF RightAnswer
    <2> QED  BY <1>1, EventFile DEF CarryInv, EventOK, ApiOK, Members
  <1>6. ClosesOwn
    BY DEF ClosesOwn, CarryInv, WorkOK, ApiFiles
  <1>7. NoEqualFd
    <2>1. ASSUME NEW t \in Thread, NEW i \in 1..Len(pipe[t]) PROVE ~EqualFd(t, pipe[t][i].fd)
      <3>1. PICK n \in Fd : n = pipe[t][i].fd
        BY <1>1 DEF Members
      <3>2. HasMsg(t, n)
        BY <3>1 DEF HasMsg
      <3> QED  BY <1>1, <3>1, <3>2, MsgAlone, NoEqualClient
    <2>2. ASSUME NEW t \in Thread, wk[t].pc \in {"reply", "error"} PROVE ~EqualFd(t, wk[t].sock)
      <3>1. PICK n \in Fd : n = wk[t].sock
        BY <1>1, <2>2, WorkerCarries
      <3>2. sock[n].fd /\ ~HasEvent(t, n)
        BY <1>1, <2>2, <3>1, WorkerCarries DEF WorkOK, HasEvent
      <3> QED  BY <1>1, <3>1, <3>2, NoEqualClient
    <2>3. ASSUME NEW t \in Thread, wk[t].pc = "register" PROVE ~EqualFd(t, api[wk[t].api].fd)
      <3>1. PICK n \in Fd : n = wk[t].sock
        BY <1>1, <2>3, WorkerCarries
      <3>2. PICK a \in Api : a = wk[t].api
        BY <1>1, <2>3, WorkerCarries DEF WithApi
      <3>3. ~HasEvent(t, n) /\ sock[n].api = a /\ api[a].fd # NoFd
        BY <1>1, <2>3, <3>1, <3>2, WorkerCarries DEF WorkOK, HasEvent
      <3> QED  BY <1>1, <3>2, <3>3, NoEqualApi
    <2> QED  BY <2>1, <2>2, <2>3 DEF NoEqualFd
  <1>8. InitFindsReset
    <2>1. acc.pc = "init" => acc.fd \in Fd
      BY <1>1 DEF Members
    <2> QED  BY <2>1 DEF InitFindsReset, CarryInv, AccInv, SockOK
  <1> QED  BY <1>1, <1>2, <1>3, <1>4, <1>5, <1>6, <1>7, <1>8 DEF OwnOnly

(* A thread acts only on its own messages, client sockets, events, apis and
   descriptors (OwnOnly), for any number of threads, descriptors, apis and clients,
   although look-ups and epoll_ctl may fail, until such a failure has torn something. *)
THEOREM ActsOnOwnOnly == AcceptsSucceed => (Spec => []OwnOnly)
  <1> SUFFICES ASSUME AcceptsSucceed PROVE Spec => []OwnOnly
    OBVIOUS
  <1>1. TypeInv /\ (torn \/ CarryInv) => OwnOnly
    BY CarryGivesOwnOnly
  <1> QED  BY <1>1, CarryCorrect, PTL

(* The four places of Carriers. *)
AtAccept(n) == {x \in {acc} : x.pc # "idle" /\ x.fd = n}
InPipes(n)  == {p \in {<<t, i>> : t \in Thread, i \in 1..PipeSize} :
                  p[2] <= Len(pipe[p[1]]) /\ pipe[p[1]][p[2]].fd = n}
InQueues(n) == {p \in UNION {{t} \X queue[t] : t \in Thread} :
                  p[2].sock = n /\ p[2].fd \in epoll[p[1]]}
AtWork(n)   == {t \in Thread : wk[t].pc # "idle" /\ wk[t].sock = n}

(* Where a client is not, its places are empty. *)
LEMMA PlacesEmpty ==
  ASSUME NEW n
  PROVE  /\ (acc.pc # "idle" => acc.fd # n) => AtAccept(n) = {}
         /\ (\A t \in Thread : ~HasMsg(t, n)) => InPipes(n) = {}
         /\ (\A t \in Thread : ~HasEvent(t, n)) => InQueues(n) = {}
         /\ (\A t \in Thread : ~Works(t, n)) => AtWork(n) = {}
  <1>1. (acc.pc # "idle" => acc.fd # n) => AtAccept(n) = {}
    BY DEF AtAccept
  <1>2. ASSUME NEW p \in InPipes(n) PROVE \E t \in Thread : HasMsg(t, n)
    <2>1. PICK t \in Thread, i \in 1..PipeSize : p = <<t, i>>
      BY DEF InPipes
    <2>2. i \in 1..Len(pipe[t]) /\ pipe[t][i].fd = n
      BY <2>1 DEF InPipes
    <2> QED  BY <2>2 DEF HasMsg
  <1>3. ASSUME NEW p \in InQueues(n) PROVE \E t \in Thread : HasEvent(t, n)
    <2>1. PICK t \in Thread : p \in {t} \X queue[t]
      BY DEF InQueues
    <2>2. p[2] \in queue[t] /\ p[2].sock = n
      BY <2>1 DEF InQueues
    <2> QED  BY <2>2 DEF HasEvent
  <1>4. (\A t \in Thread : ~Works(t, n)) => AtWork(n) = {}
    BY DEF AtWork, Works
  <1> QED  BY <1>1, <1>2, <1>3, <1>4

(* The carriers of an open client socket come to one. *)
LEMMA CarryGivesOneCarrier ==
  ASSUME TypeInv, CarryInv, NEW n \in Fd, sock[n].fd
  PROVE  Carriers(n) = 1
  <1>1. Members
    BY TypeGivesMembers
  <1>2. Carriers(n) = Cardinality(AtAccept(n)) + Cardinality(InPipes(n))
                      + Cardinality(InQueues(n)) + Cardinality(AtWork(n))
    BY DEF Carriers, AtAccept, InPipes, InQueues, AtWork
  <1>3. Cardinality({}) = 0
    BY FS_EmptySet
  <1>4. \A x : Cardinality({x}) = 1
    BY FS_Singleton
  <1>5. CASE acc.pc = "pipe" /\ acc.fd = n
    <2>1. \A u \in Thread : ~HasMsg(u, n) /\ ~HasEvent(u, n) /\ ~Works(u, n)
      BY <1>1, <1>5, AcceptedAlone
    <2>2. AtAccept(n) = {acc}
      BY <1>5 DEF AtAccept
    <2>3. InPipes(n) = {} /\ InQueues(n) = {} /\ AtWork(n) = {}
      BY <2>1, PlacesEmpty
    <2>7. Cardinality(AtAccept(n)) = 1
      BY <1>4, <2>2, Zenon
    <2>8. Cardinality(InPipes(n)) = 0 /\ Cardinality(InQueues(n)) = 0 /\ Cardinality(AtWork(n)) = 0
      BY <1>3, <2>3, Zenon
    <2> QED  BY <1>2, <2>7, <2>8
  <1>6. ASSUME NEW t \in Thread, HasMsg(t, n) PROVE Carriers(n) = 1
    <2>1. /\ acc.pc # "idle" => acc.fd # n
          /\ \A u \in Thread \ {t} : ~HasMsg(u, n)
          /\ \A u \in Thread : ~HasEvent(u, n) /\ ~Works(u, n)
      BY <1>1, <1>6, MsgAlone
    <2>2. AtAccept(n) = {} /\ InQueues(n) = {} /\ AtWork(n) = {}
      BY <2>1, PlacesEmpty
    <2>3. PICK i \in 1..Len(pipe[t]) : pipe[t][i].fd = n
      BY <1>6 DEF HasMsg
    <2>4. <<t, i>> \in InPipes(n)
      <3>1. i \in 1..PipeSize /\ i <= Len(pipe[t])
        BY <1>1, <2>3 DEF CarryInv, PipeInv, Members
      <3> QED  BY <2>3, <3>1 DEF InPipes
    <2>5. ASSUME NEW p \in InPipes(n) PROVE p = <<t, i>>
      <3>1. PICK u \in Thread, j \in 1..PipeSize : p = <<u, j>>
        BY DEF InPipes
      <3>2. j \in 1..Len(pipe[u]) /\ pipe[u][j].fd = n
        BY <3>1 DEF InPipes
      <3>3. u = t
        BY <2>1, <3>2 DEF HasMsg
      <3>4. j = i
        BY <2>3, <3>2, <3>3 DEF CarryInv, Once
      <3> QED  BY <3>1, <3>3, <3>4
    <2>6. InPipes(n) = {<<t, i>>}
      BY <2>4, <2>5
    <2>7. Cardinality(InPipes(n)) = 1
      BY <1>4, <2>6, Zenon
    <2>8. Cardinality(AtAccept(n)) = 0 /\ Cardinality(InQueues(n)) = 0 /\ Cardinality(AtWork(n)) = 0
      BY <1>3, <2>2, Zenon
    <2> QED  BY <1>2, <2>7, <2>8
  <1>7. ASSUME NEW t \in Thread, HasEvent(t, n) PROVE Carriers(n) = 1
    <2>1. /\ acc.pc # "idle" => acc.fd # n
          /\ \A u \in Thread : ~HasMsg(u, n) /\ ~Works(u, n)
          /\ \A u \in Thread \ {t} : ~HasEvent(u, n)
      BY <1>1, <1>7, Alone DEF Carries
    <2>2. AtAccept(n) = {} /\ InPipes(n) = {} /\ AtWork(n) = {}
      BY <2>1, PlacesEmpty
    <2>3. PICK e \in queue[t] : e.sock = n
      BY <1>7 DEF HasEvent
    <2>4. <<t, e>> \in InQueues(n)
      <3>1. e.fd \in epoll[t]
        BY <2>3 DEF CarryInv, EventOK
      <3> QED  BY <2>3, <3>1 DEF InQueues
    <2>5. ASSUME NEW p \in InQueues(n) PROVE p = <<t, e>>
      <3>1. PICK u \in Thread : p \in {u} \X queue[u]
        BY DEF InQueues
      <3>2. p = <<u, p[2]>> /\ p[2] \in queue[u] /\ p[2].sock = n
        BY <3>1 DEF InQueues
      <3>3. u = t
        BY <2>1, <3>2 DEF HasEvent
      <3>4. p[2] = e
        BY <2>3, <3>2, <3>3 DEF CarryInv, Once
      <3> QED  BY <3>2, <3>3, <3>4
    <2>6. InQueues(n) = {<<t, e>>}
      BY <2>4, <2>5
    <2>7. Cardinality(InQueues(n)) = 1
      BY <1>4, <2>6, Zenon
    <2>8. Cardinality(AtAccept(n)) = 0 /\ Cardinality(InPipes(n)) = 0 /\ Cardinality(AtWork(n)) = 0
      BY <1>3, <2>2, Zenon
    <2> QED  BY <1>2, <2>7, <2>8
  <1>8. ASSUME NEW t \in Thread, Works(t, n) PROVE Carriers(n) = 1
    <2>1. /\ acc.pc # "idle" => acc.fd # n
          /\ \A u \in Thread : ~HasMsg(u, n) /\ ~HasEvent(u, n)
          /\ \A u \in Thread \ {t} : ~Works(u, n)
      BY <1>1, <1>8, Alone DEF Carries
    <2>2. AtAccept(n) = {} /\ InPipes(n) = {} /\ InQueues(n) = {}
      BY <2>1, PlacesEmpty
    <2>3. AtWork(n) = {t}
      BY <1>8, <2>1 DEF AtWork, Works
    <2>7. Cardinality(AtWork(n)) = 1
      BY <1>4, <2>3, Zenon
    <2>8. Cardinality(AtAccept(n)) = 0 /\ Cardinality(InPipes(n)) = 0 /\ Cardinality(InQueues(n)) = 0
      BY <1>3, <2>2, Zenon
    <2> QED  BY <1>2, <2>7, <2>8
  <1> QED  BY <1>5, <1>6, <1>7, <1>8 DEF CarryInv, Some

(* Every open client socket is carried on from exactly one place, and no exception
   ends the process (ServedOnce), although look-ups and epoll_ctl may fail, until such
   a failure has torn something: only through one of them a client is forgotten.  *)
THEOREM EachServedOnce == AcceptsSucceed => (Spec => []ServedOnce)
  <1> SUFFICES ASSUME AcceptsSucceed PROVE Spec => []ServedOnce
    OBVIOUS
  <1>1. ASSUME TypeInv, CarryInv PROVE ServedOnce
    <2>1. CarriedOnce
      BY <1>1, CarryGivesOneCarrier DEF CarriedOnce
    <2>2. Survives
      BY <1>1 DEF CarryInv, Survives
    <2> QED  BY <2>1, <2>2 DEF ServedOnce
  <1>2. TypeInv /\ (torn \/ CarryInv) => ServedOnce
    BY <1>1 DEF ServedOnce
  <1> QED  BY <1>2, CarryCorrect, PTL

----------------------------------------------------------------------------
(* With failing system calls of any kind: an event may be left in a queue without its
   descriptor in the epoll set, and never fires again.  What can still run ...  *)
Live(t, e)     == e \in queue[t] /\ e.fd \in epoll[t]
HasLive(t, n)  == \E e \in queue[t] : e.fd \in epoll[t] /\ e.sock = n
Busy(t, n)     == wk[t].pc \notin {"idle", "close"} /\ wk[t].sock = n
AccHolds(n)    == acc.pc \in {"pipe", "close1", "fini"} /\ acc.fd = n

(* ... finds a client socket of its own thread ... *)
LiveOK(t, e) == LET n == e.sock IN
    /\ sock[n].thread = t
    /\ e.what = "service" => sock[n].api # NoApi
    /\ e.what # "service" => e.fd = n
BusyOK(t) == LET n == wk[t].sock IN
    wk[t].pc \notin {"idle", "close"} =>
       /\ sock[n].thread = t
       /\ wk[t].pc \in {"connect", "register"} => sock[n].api # NoApi

(* ... is the only one for it ... *)
Single(t) ==
    /\ \A n \in Fd : AccHolds(n) => ~HasMsg(t, n) /\ ~HasLive(t, n) /\ ~Busy(t, n)
    /\ \A i, j \in 1..Len(pipe[t]) : pipe[t][i].fd = pipe[t][j].fd => i = j
    /\ \A i \in 1..Len(pipe[t]) : ~HasLive(t, pipe[t][i].fd) /\ ~Busy(t, pipe[t][i].fd)
    /\ \A e \in queue[t] : Live(t, e) => ~Busy(t, e.sock)
    /\ \A e, f \in queue[t] : Live(t, e) /\ Live(t, f) /\ e.sock = f.sock => e = f

(* ... and the queue has no equal descriptor, so what is left in it stays as it is. *)
QueueOK(t) ==
    /\ \A e, f \in queue[t] : e.fd = f.fd => e = f
    /\ \A n \in epoll[t] : EqualFd(t, n)

HeldInv ==
    /\ \A n \in Fd : ~sock[n].fd => sock[n].thread = NoThread
    /\ acc.pc = "pipe" => sock[acc.fd].thread # NoThread
    /\ \A t \in Thread :
          /\ \A i \in 1..Len(pipe[t]) : sock[pipe[t][i].fd].thread = t
          /\ \A e \in queue[t] : Live(t, e) => LiveOK(t, e)
          /\ BusyOK(t) /\ Single(t) /\ QueueOK(t)

(* When no accept fails, a number is only closed by who has it. *)
FilesInv ==
    /\ \A n \in Fd : sock[n].seq <= acc.seq /\ (sock[n].fd => file[n] = ClientFile(sock[n].seq))
    /\ \A n \in Fd : ~sock[n].fd => sock[n].thread = NoThread
    /\ ApiFiles
    /\ acc.pc \in {"idle", "init", "pipe"}
    /\ acc.pc = "init" => file[acc.fd] = ClientFile(acc.seq + 1)
    /\ \A t \in Thread : wk[t].pc = "close" =>
          /\ ~sock[wk[t].sock].fd /\ file[wk[t].sock] = ClientFile(sock[wk[t].sock].seq)
          /\ \A u \in Thread : wk[u].pc = "close" /\ wk[u].sock = wk[t].sock => u = t

(* Closing the descriptor of an api leaves the descriptors of clients and other apis. *)
LEMMA ClosesApiFile ==
  ASSUME TypeOK, Members, ApiFiles, NEW a \in Api, api[a].fd # NoFd, CloseFile(api[a].fd)
  PROVE  /\ \A m \in Fd, k \in Nat : file[m] = ClientFile(k) => file'[m] = file[m]
         /\ \A b \in Api \ {a} : api[b].fd # NoFd => file'[api[b].fd] = ApiFile(b)
  <1>1. \A b \in Api : api[b].fd # NoFd => api[b].fd \in Fd /\ file[api[b].fd] = ApiFile(b)
    BY DEF Members, ApiFiles
  <1>2. file'[api[a].fd] = Closed /\ \A l \in Fd \ {api[a].fd} : file'[l] = file[l]
    BY <1>1, CloseFileDoes
  <1> QED  BY <1>1, <1>2, FileKinds

(* So do set_free ... *)
LEMMA SetFreeFiles ==
  ASSUME TypeOK, Members, ApiFiles, NEW a \in Api, NEW close \in BOOLEAN, SetFree(a, close)
  PROVE  /\ \A m \in Fd, k \in Nat : file[m] = ClientFile(k) => file'[m] = file[m]
         /\ ApiFiles'
  <1>1. CASE CloseFile(api[a].fd) /\ api[a].fd # NoFd
               /\ api' = [api EXCEPT ![a] = [fd |-> NoFd, used |-> FALSE, seq |-> 0]]
    <2>1. api'[a].fd = NoFd /\ \A b \in Api \ {a} : api'[b] = api[b]
      BY <1>1 DEF TypeOK
    <2> QED  BY <1>1, <2>1, ClosesApiFile DEF ApiFiles
  <1>2. CASE api' = [api EXCEPT ![a].used = FALSE, ![a].seq = 0] /\ UNCHANGED <<file, epoll>>
    <2>1. api'[a].fd = api[a].fd /\ \A b \in Api \ {a} : api'[b] = api[b]
      BY <1>2 DEF TypeOK, ApiObject
    <2>2. \A b \in Api : api'[b].fd = api[b].fd
      BY <2>1
    <2> QED  BY <1>2, <2>2 DEF ApiFiles
  <1> QED  BY <1>1, <1>2 DEF SetFree

(* ... the call ... *)
LEMMA CallFiles ==
  ASSUME TypeOK, Members, ApiFiles, NEW t \in Thread, CallServer(t)
  PROVE  /\ \A m \in Fd, k \in Nat : file[m] = ClientFile(k) => file'[m] = file[m]
         /\ ApiFiles'
  <1>1. PICK a \in Api, tcpOk \in BOOLEAN :
          IF api[a].fd # NoFd /\ ~tcpOk
          THEN /\ CloseFile(api[a].fd)
               /\ api' = [api EXCEPT ![a] = [fd |-> NoFd, used |-> TRUE, seq |-> sock[wk[t].sock].seq]]
          ELSE /\ api' = [api EXCEPT ![a].used = TRUE, ![a].seq = sock[wk[t].sock].seq]
               /\ UNCHANGED <<file, epoll>>
    BY DEF CallServer
  <1>2. CASE api[a].fd # NoFd /\ ~tcpOk
    <2>1. api'[a].fd = NoFd /\ \A b \in Api \ {a} : api'[b] = api[b]
      BY <1>1, <1>2 DEF TypeOK
    <2> QED  BY <1>1, <1>2, <2>1, ClosesApiFile DEF ApiFiles
  <1>3. CASE ~(api[a].fd # NoFd /\ ~tcpOk)
    <2>1. api'[a].fd = api[a].fd /\ \A b \in Api \ {a} : api'[b] = api[b]
      BY <1>1, <1>3 DEF TypeOK, ApiObject
    <2>2. \A b \in Api : api'[b].fd = api[b].fd
      BY <2>1
    <2> QED  BY <1>1, <1>3, <2>2 DEF ApiFiles
  <1> QED  BY <1>2, <1>3

(* ... and the connect of an api, which takes a closed number. *)
LEMMA ConnectFiles ==
  ASSUME TypeOK, Members, ApiFiles, NEW t \in Thread, Connect(t)
  PROVE  /\ \A m \in Fd, k \in Nat : file[m] = ClientFile(k) => file'[m] = file[m]
         /\ ApiFiles'
  <1>1. PICK a \in Api : a = wk[t].api
    BY DEF Connect, Members, WithApi
  <1>2. CASE api[a].fd # NoFd
    BY <1>1, <1>2 DEF Connect, ApiFiles
  <1>3. CASE api[a].fd = NoFd
    <2>1. PICK m \in Fd : ApiFd(m, a) /\ api' = [api EXCEPT ![a].fd = m]
      BY <1>1, <1>3 DEF Connect
    <2>2. api'[a].fd = m /\ \A b \in Api \ {a} : api'[b] = api[b]
      BY <2>1 DEF TypeOK, ApiObject
    <2>3. /\ file[m] = Closed /\ file'[m] = ApiFile(a)
          /\ \A l \in Fd \ {m} : file'[l] = file[l]
      BY <2>1 DEF ApiFd, TypeOK
    <2>4. \A b \in Api \ {a} : api[b].fd # NoFd => api[b].fd \in Fd \ {m} /\ file[api[b].fd] = ApiFile(b)
      BY <2>3, FileKinds DEF ApiFiles, Members
    <2> QED  BY <2>2, <2>3, <2>4, FileKinds DEF ApiFiles
  <1> QED  BY <1>2, <1>3

(* Steps that open no client socket, release none and close no client's number. *)
LEMMA FilesKept ==
  ASSUME Members, FilesInv, acc' = acc, ApiFiles',
         \A m \in Fd : sock'[m].fd = sock[m].fd /\ sock'[m].seq = sock[m].seq
                       /\ sock'[m].thread = sock[m].thread,
         \A m \in Fd, k \in Nat : file[m] = ClientFile(k) => file'[m] = file[m],
         \A t \in Thread : wk'[t].pc = "close" => wk[t].pc = "close" /\ wk'[t].sock = wk[t].sock
  PROVE  FilesInv'
  <1>1. ASSUME NEW t \in Thread, wk'[t].pc = "close"
        PROVE  /\ ~sock'[wk'[t].sock].fd /\ file'[wk'[t].sock] = ClientFile(sock'[wk'[t].sock].seq)
               /\ \A u \in Thread : wk'[u].pc = "close" /\ wk'[u].sock = wk'[t].sock => u = t
    <2>1. wk[t].pc = "close" /\ wk'[t].sock = wk[t].sock /\ wk[t].sock \in Fd
      BY <1>1 DEF Members
    <2>2. ~sock[wk[t].sock].fd /\ file[wk[t].sock] = ClientFile(sock[wk[t].sock].seq)
      BY <2>1 DEF FilesInv
    <2>3. \A u \in Thread : wk[u].pc = "close" /\ wk[u].sock = wk[t].sock => u = t
      BY <2>1 DEF FilesInv
    <2> QED  BY <2>1, <2>2, <2>3 DEF Members
  <1>2. \A n \in Fd : /\ sock'[n].seq <= acc.seq /\ (sock'[n].fd => file'[n] = ClientFile(sock'[n].seq))
                      /\ ~sock'[n].fd => sock'[n].thread = NoThread
    BY DEF FilesInv, Members
  <1>3. acc.pc = "init" => file'[acc.fd] = ClientFile(acc.seq + 1)
    BY DEF FilesInv, Members
  <1> QED  BY <1>1, <1>2, <1>3 DEF FilesInv

(* Only fini changes whether a client socket is in use, of which thread and client. *)
LEMMA SockChanges ==
  ASSUME TypeOK, Members, NEW t \in Thread, ProcessThread(t), ~Fini(t)
  PROVE  \A m \in Fd : sock'[m].fd = sock[m].fd /\ sock'[m].seq = sock[m].seq
                       /\ sock'[m].thread = sock[m].thread
  <1>1. \/ sock' = sock
        \/ \E n \in Fd, x \in {"READ", "PROCESS", "SEND", "OVER"} : sock' = [sock EXCEPT ![n].status = x]
        \/ \E n \in Fd : \E a : sock' = [sock EXCEPT ![n].api = a]
    <2>1. CASE ReadsPipe(t)
      BY <2>1 DEF ReadsPipe, StartReading, RefuseClient
    <2>2. CASE Handles(t)
      <3>1. PICK e \in queue[t] : Handler(t, e)
        BY <2>2 DEF Handles
      <3>2. CASE Received(t, e) \/ Answered(t, e)
        <4>1. e.fd \in Fd
          BY <3>2 DEF Received, Answered, Fired, Members
        <4> QED  BY <3>2, <4>1 DEF Received, Answered
      <3> QED  BY <3>1, <3>2 DEF Handler, ClientFails, ServiceAnswers, ServiceForeign, ServiceFails
    <2>3. CASE Calls(t)
      BY <2>3 DEF Calls, CallServer, NoApiToCall, Connect, ConnectFails, Register, Members
    <2>4. CASE Releases(t)
      BY <2>4 DEF Releases, GiveBack, LeaveClient, ReleaseApi, FreeAgain, Members
    <2>5. CASE Answers(t)
      BY <2>5 DEF Answers, Reply, WriteError, CloseSocket, Members
    <2> QED  BY <2>1, <2>2, <2>3, <2>4, <2>5, Kinds
  <1>2. CASE \E n \in Fd, x \in {"READ", "PROCESS", "SEND", "OVER"} : sock' = [sock EXCEPT ![n].status = x]
    BY <1>2, StatusDoes
  <1>3. CASE \E n \in Fd : \E a : sock' = [sock EXCEPT ![n].api = a]
    BY <1>3, ApiSetDoes
  <1> QED  BY <1>1, <1>2, <1>3

(* A thread moves itself only, and only fini makes it close a descriptor. *)
LEMMA WkChanges ==
  ASSUME TypeOK, NEW t \in Thread, ProcessThread(t)
  PROVE  /\ \A u \in Thread \ {t} : wk'[u] = wk[u]
         /\ ~Fini(t) => wk'[t].pc # "close"
         /\ ~Reply(t) => wk[t].pc = "again" \/ wk'[t].pc # "again"
  <1>1. CASE ReadsPipe(t)
    <2>1. \/ wk' = wk /\ wk[t].pc = "idle"
          \/ \E n : wk' = [wk EXCEPT ![t] = [pc |-> CatchAt(n), in |-> "pipe", sock |-> n, api |-> NoApi]]
      BY <1>1 DEF ReadsPipe, StartReading, RefuseClient
    <2>2. ASSUME NEW n, wk' = [wk EXCEPT ![t] = [pc |-> CatchAt(n), in |-> "pipe", sock |-> n, api |-> NoApi]]
          PROVE  wk'[t].pc = CatchAt(n) /\ \A u \in Thread \ {t} : wk'[u] = wk[u]
      BY <2>2 DEF TypeOK
    <2> QED  BY <2>1, <2>2, CatchAtType
  <1>2. CASE Handles(t)
    <2>1. PICK pc \in {"call", "error", "fini", "giveback", "leave", "release"} :
            \E in, n, a : Enter(t, pc, in, n, a)
      BY <1>2, CatchAtType
      DEF Handles, Handler, Received, Answered, ClientFails, ServiceAnswers, ServiceForeign, ServiceFails
    <2> QED  BY <2>1, EnterDoes
  <1>3. CASE CallServer(t)
    BY <1>3 DEF CallServer, TypeOK
  <1>4. CASE \/ (\E pc \in {"error", "register", "release", "reply"} : Goto(t, pc))
             \/ Return(t) \/ (Reply(t) /\ Goto(t, "again"))
    BY <1>4, GotoDoes, ReturnDoes
  <1>5. CASE Fini(t)
    BY <1>5, GotoDoes, ReturnDoes DEF Fini
  <1>6. CASE Calls(t) /\ ~CallServer(t)
    BY <1>4, <1>6 DEF Calls, NoApiToCall, Connect, ConnectFails, Register
  <1>7. CASE Releases(t)
    BY <1>4, <1>7 DEF Releases, GiveBack, LeaveClient, ReleaseApi, FreeAgain
  <1>8. CASE Answers(t) /\ ~Fini(t)
    BY <1>4, <1>8 DEF Answers, Reply, WriteError, CloseSocket, Escape
  <1> QED  BY <1>1, <1>2, <1>3, <1>5, <1>6, <1>7, <1>8, Kinds

(* A process thread closes only what is its own. *)
LEMMA WorkerKeepsFiles ==
  ASSUME TypeOK, Members, Members', FilesInv, NEW t \in Thread, ProcessThread(t)
  PROVE  FilesInv'
  <1>1. acc' = acc
    BY DEF ProcessThread, Handler, StartReading, RefuseClient, Received, Answered, ClientFails,
           ServiceAnswers, ServiceForeign, ServiceFails, CallServer, NoApiToCall, Connect, ConnectFails,
           Register, GiveBack, LeaveClient, ReleaseApi, FreeAgain, Reply, WriteError, Fini, CloseSocket
  <1>2. CASE ~Fini(t) /\ ~CloseSocket(t)
    <2>1. /\ \A m \in Fd, k \in Nat : file[m] = ClientFile(k) => file'[m] = file[m]
          /\ ApiFiles'
      <3>1. CASE CallServer(t)
        BY <3>1, CallFiles DEF FilesInv
      <3>2. CASE Connect(t)
        BY <3>2, ConnectFiles DEF FilesInv
      <3>3. CASE Releases(t)
        <4>1. PICK close \in BOOLEAN : SetFree(wk[t].api, close) /\ wk[t].api \in Api
          BY <3>3 DEF Releases, GiveBack, LeaveClient, ReleaseApi, FreeAgain, Members, WithApi
        <4> QED  BY <4>1, SetFreeFiles DEF FilesInv
      <3>4. CASE UNCHANGED <<file, api>>
        BY <3>4 DEF FilesInv, ApiFiles
      <3>5. ReadsPipe(t) \/ Handles(t) \/ NoApiToCall(t) \/ ConnectFails(t) \/ Register(t) \/ Reply(t)
               \/ WriteError(t) => UNCHANGED <<file, api>>
        BY DEF ReadsPipe, Handles, Handler, StartReading, RefuseClient, Received, Answered, ClientFails,
               ServiceAnswers, ServiceForeign, ServiceFails, NoApiToCall, ConnectFails, Register, Reply,
               WriteError
      <3> QED  BY <1>2, <3>1, <3>2, <3>3, <3>4, <3>5, Kinds DEF Calls, Answers
    <2>2. \A m \in Fd : sock'[m].fd = sock[m].fd /\ sock'[m].seq = sock[m].seq
                        /\ sock'[m].thread = sock[m].thread
      BY <1>2, SockChanges
    <2>3. \A u \in Thread : wk'[u].pc = "close" => wk[u].pc = "close" /\ wk'[u].sock = wk[u].sock
      BY <1>2, WkChanges
    <2> QED  BY <1>1, <2>1, <2>2, <2>3, FilesKept
  <1>3. CASE Fini(t)
    <2>1. PICK n \in Fd : n = wk[t].sock
      BY <1>3 DEF Fini, Members
    <2>2. /\ sock'[n].fd = FALSE /\ sock'[n].thread = NoThread
          /\ sock'[n].seq = sock[n].seq /\ \A m \in Fd \ {n} : sock'[m] = sock[m]
      BY <1>3, <2>1, ResetDoes DEF Fini
    <2>3. \A u \in Thread \ {t} : wk'[u] = wk[u]
      BY WkChanges
    <2>4. wk'[t].pc = "close" => wk'[t].sock = n /\ sock[n].fd
      BY <1>3, <2>1, GotoDoes, ReturnDoes DEF Fini
    <2>5. UNCHANGED <<file, api>>
      BY <1>3 DEF Fini
    <2>6. ASSUME NEW u \in Thread, wk'[u].pc = "close"
          PROVE  /\ ~sock'[wk'[u].sock].fd /\ file[wk'[u].sock] = ClientFile(sock'[wk'[u].sock].seq)
                 /\ \A v \in Thread : wk'[v].pc = "close" /\ wk'[v].sock = wk'[u].sock => v = u
      <3>1. CASE u = t
        <4>1. \A v \in Thread \ {t} : wk[v].pc = "close" => wk[v].sock # n
          BY <2>4, <2>6, <3>1 DEF FilesInv
        <4>2. file[n] = ClientFile(sock[n].seq)
          BY <2>4, <2>6, <3>1 DEF FilesInv
        <4> QED  BY <2>2, <2>3, <2>4, <2>6, <3>1, <4>1, <4>2
      <3>2. CASE u # t
        <4>1. wk[u].pc = "close" /\ wk'[u].sock = wk[u].sock /\ wk[u].sock \in Fd
          BY <2>3, <2>6, <3>2 DEF Members
        <4>2. ~sock[wk[u].sock].fd /\ file[wk[u].sock] = ClientFile(sock[wk[u].sock].seq)
          BY <4>1 DEF FilesInv
        <4>3. wk'[t].pc = "close" => wk'[t].sock # wk[u].sock
          BY <2>4, <4>2
        <4>4. \A v \in Thread : wk[v].pc = "close" /\ wk[v].sock = wk[u].sock => v = u
          BY <4>1 DEF FilesInv
        <4> QED  BY <2>2, <2>3, <4>1, <4>2, <4>3, <4>4
      <3> QED  BY <3>1, <3>2
    <2>7. \A m \in Fd : /\ sock'[m].seq <= acc.seq /\ (sock'[m].fd => file[m] = ClientFile(sock'[m].seq))
                        /\ ~sock'[m].fd => sock'[m].thread = NoThread
      BY <2>2 DEF FilesInv
    <2> QED  BY <1>1, <2>5, <2>6, <2>7 DEF FilesInv, ApiFiles
  <1>4. CASE CloseSocket(t)
    <2>1. PICK n \in Fd : n = wk[t].sock
      BY <1>4 DEF CloseSocket, Members
    <2>2. /\ UNCHANGED <<sock, api>> /\ CloseFile(n) /\ Return(t) /\ wk[t].pc = "close"
      BY <1>4, <2>1 DEF CloseSocket
    <2>3. ~sock[n].fd /\ file[n] = ClientFile(sock[n].seq) /\ sock[n].seq <= acc.seq
          /\ \A u \in Thread : wk[u].pc = "close" /\ wk[u].sock = n => u = t
      BY <2>1, <2>2 DEF FilesInv
    <2>4. file'[n] = Closed /\ \A m \in Fd \ {n} : file'[m] = file[m]
      BY <2>2, CloseFileDoes
    <2>5. wk'[t].pc = "idle" /\ \A u \in Thread \ {t} : wk'[u] = wk[u]
      BY <2>2, ReturnDoes
    <2>6. ApiFiles'
      BY <2>2, <2>3, <2>4, FileKinds DEF FilesInv, ApiFiles, Members
    <2>7. \A m \in Fd : /\ sock[m].seq <= acc.seq /\ (sock[m].fd => file'[m] = ClientFile(sock[m].seq))
                        /\ ~sock[m].fd => sock[m].thread = NoThread
      BY <2>3, <2>4 DEF FilesInv
    <2>8. acc.pc = "init" => acc.fd # n
      <3>1. acc.seq \in Nat /\ sock[n].seq \in Nat
        BY DEF Members
      <3> QED  BY <2>3, <3>1, FileKinds DEF FilesInv
    <2>9. \A u \in Thread : wk'[u].pc = "close" => u # t /\ wk[u].sock \in Fd \ {n} /\ wk'[u] = wk[u]
      BY <2>3, <2>5 DEF Members
    <2>10. \A u \in Thread : wk'[u].pc = "close" =>
             /\ ~sock[wk'[u].sock].fd /\ file'[wk'[u].sock] = ClientFile(sock[wk'[u].sock].seq)
             /\ \A v \in Thread : wk'[v].pc = "close" /\ wk'[v].sock = wk'[u].sock => v = u
      BY <2>4, <2>5, <2>9 DEF FilesInv
    <2> QED  BY <1>1, <2>2, <2>4, <2>6, <2>7, <2>8, <2>10 DEF FilesInv, Members
  <1> QED  BY <1>2, <1>3, <1>4

(* While no accept fails every step keeps the descriptors with their owners. *)
LEMMA FilesStep ==
  ASSUME AcceptsSucceed, TypeInv, TypeInv', FilesInv, [Next]_vars
  PROVE  FilesInv'
  <1>1. TypeOK /\ Members /\ Members'
    <2>1. TypeInv' => Members'
      BY TypeGivesMembers, PTL
    <2> QED  BY <2>1, TypeGivesMembers DEF TypeInv
  <1>2. CASE UNCHANGED vars
    BY <1>2 DEF vars, FilesInv, ApiFiles
  <1>3. ASSUME NEW t \in Thread, ProcessThread(t) PROVE FilesInv'
    BY <1>1, <1>3, WorkerKeepsFiles
  <1>4. CASE Accept
    <2>1. PICK n \in Fd : AcceptFd(n, acc.seq + 1) /\ acc' = [acc EXCEPT !.pc = "init", !.fd = n]
      BY <1>4 DEF Accept
    <2>2. acc'.pc = "init" /\ acc'.fd = n /\ acc'.seq = acc.seq
      BY <1>1, <2>1 DEF TypeOK
    <2>3. UNCHANGED <<sock, api, wk>>
      BY <1>4 DEF Accept
    <2>4. /\ file[n] = Closed /\ file'[n] = ClientFile(acc.seq + 1)
          /\ \A m \in Fd \ {n} : file'[m] = file[m]
      BY <1>1, <2>1 DEF AcceptFd, TypeOK
    <2>5. ApiFiles'
      BY <1>1, <2>3, <2>4, FileKinds DEF FilesInv, ApiFiles, Members
    <2>6. \A m \in Fd : sock[m].fd => file'[m] = file[m]
      BY <2>4, FileKinds DEF FilesInv
    <2>7. \A t \in Thread : wk[t].pc = "close" => file'[wk[t].sock] = file[wk[t].sock]
      BY <1>1, <2>4, FileKinds DEF FilesInv, Members
    <2> QED  BY <2>2, <2>3, <2>4, <2>5, <2>6, <2>7 DEF FilesInv
  <1>5. CASE InitSocket
    <2>1. PICK n \in Fd : n = acc.fd
      BY <1>1, <1>5 DEF InitSocket, Members
    <2>2. /\ UNCHANGED <<file, api, wk>> /\ acc.pc = "init" /\ ~sock[n].fd
          /\ sock' = [sock EXCEPT ![n] = [fd |-> TRUE, status |-> "READ", thread |-> acc.next,
                                          seq |-> acc.seq + 1, api |-> sock[n].api]]
          /\ acc' = [acc EXCEPT !.pc = "pipe", !.seq = @ + 1, !.next = NextThread]
      BY <1>5, <2>1 DEF InitSocket, Fault, AcceptsSucceed
    <2>3. /\ sock'[n].fd = TRUE /\ sock'[n].seq = acc.seq + 1
          /\ \A m \in Fd \ {n} : sock'[m] = sock[m]
      BY <1>1, <2>2 DEF TypeOK
    <2>4. acc'.pc = "pipe" /\ acc'.seq = acc.seq + 1 /\ acc.seq \in Nat
      BY <1>1, <2>2 DEF TypeOK, Members
    <2>5. file[n] = ClientFile(acc.seq + 1)
      BY <2>1, <2>2 DEF FilesInv
    <2>6. \A m \in Fd : /\ sock'[m].seq <= acc.seq + 1 /\ (sock'[m].fd => file[m] = ClientFile(sock'[m].seq))
                        /\ ~sock'[m].fd => sock'[m].thread = NoThread
      BY <1>1, <2>3, <2>4, <2>5 DEF FilesInv, Members
    <2>7. \A t \in Thread : wk[t].pc = "close" => wk[t].sock \in Fd \ {n}
      <3>1. \A t \in Thread : wk[t].pc = "close" =>
               /\ wk[t].sock \in Fd /\ file[wk[t].sock] = ClientFile(sock[wk[t].sock].seq)
               /\ sock[wk[t].sock].seq <= acc.seq /\ sock[wk[t].sock].seq \in Nat
        BY <1>1 DEF FilesInv, Members
      <3>2. ~(acc.seq + 1 <= acc.seq)
        BY <2>4
      <3> QED  BY <2>5, <3>1, <3>2, FileKinds
    <2>8. \A t \in Thread : wk[t].pc = "close" =>
             /\ ~sock'[wk[t].sock].fd /\ file[wk[t].sock] = ClientFile(sock'[wk[t].sock].seq)
             /\ \A u \in Thread : wk[u].pc = "close" /\ wk[u].sock = wk[t].sock => u = t
      BY <2>3, <2>7 DEF FilesInv
    <2> QED  BY <2>2, <2>4, <2>6, <2>8 DEF FilesInv, ApiFiles
  <1>6. CASE WritePipe
    <2>1. /\ UNCHANGED <<file, sock, api, wk>> /\ acc' = [acc EXCEPT !.pc = "idle", !.fd = NoFd]
      BY <1>6 DEF WritePipe, Fault, AcceptsSucceed
    <2>2. acc'.pc = "idle" /\ acc'.seq = acc.seq
      BY <1>1, <2>1 DEF TypeOK
    <2> QED  BY <2>1, <2>2 DEF FilesInv, ApiFiles
  <1>7. CASE InitAborts
    BY <1>7 DEF InitAborts, FilesInv, ApiFiles
  <1>8. ~CloseClientFd /\ ~FiniAccepted /\ ~CloseAccepted
    BY DEF CloseClientFd, FiniAccepted, CloseAccepted, FilesInv
  <1> QED  BY <1>2, <1>3, <1>4, <1>5, <1>6, <1>7, <1>8 DEF Next, AcceptThread

(* CClientSocket::init finds a socket object that was reset (client_socket.cpp:70),
   although epoll_ctl and look-ups may fail at any time.  When an accept may fail it does not:
   the number of its connection is closed twice, the second time it is another's. *)
THEOREM InitFindsItReset == AcceptsSucceed => (Spec => []InitFindsReset)
  <1> SUFFICES ASSUME AcceptsSucceed PROVE Spec => []InitFindsReset
    OBVIOUS
  <1>1. Init => TypeInv /\ FilesInv
    <2>1. Init => FilesInv
      <3> SUFFICES ASSUME Init PROVE FilesInv
        OBVIOUS
      <3>1. ApiFiles
        BY DEF Init, ApiFiles
      <3> QED  BY <3>1 DEF Init, FilesInv
    <2> QED  BY <2>1, InitType
  <1>2. TypeInv /\ FilesInv /\ [Next]_vars => (TypeInv /\ FilesInv)'
    <2> SUFFICES ASSUME TypeInv, FilesInv, [Next]_vars PROVE (TypeInv /\ FilesInv)'
      OBVIOUS
    <2> QED  BY NextType, FilesStep
  <1>3. TypeInv /\ FilesInv => InitFindsReset
    <2> SUFFICES ASSUME TypeInv, FilesInv, acc.pc = "init"
                 PROVE  ~sock[acc.fd].fd /\ sock[acc.fd].thread = NoThread
      BY DEF InitFindsReset
    <2>1. acc.fd \in Fd /\ acc.seq \in Nat /\ sock[acc.fd].seq \in Nat
      BY TypeGivesMembers DEF Members
    <2>2. sock[acc.fd].seq # acc.seq + 1
      BY <2>1 DEF FilesInv
    <2> QED  BY <2>1, <2>2, FileKinds DEF FilesInv
  <1> QED  BY <1>1, <1>2, <1>3, PTL DEF Spec

----------------------------------------------------------------------------
(* Whatever fails, the client socket that something can still run for is held by that
   alone.                                                                     *)
Holds(t, n) == HasLive(t, n) \/ Busy(t, n)

(* What can still run for a client is the only one. *)
LEMMA HeldAlone ==
  ASSUME HeldInv, NEW t \in Thread, NEW n \in Fd, Holds(t, n)
  PROVE  /\ sock[n].thread = t /\ ~AccHolds(n)
         /\ \A u \in Thread : ~HasMsg(u, n)
         /\ \A u \in Thread \ {t} : ~Holds(u, n)
         /\ ~(HasLive(t, n) /\ Busy(t, n))
  <1>1. \A u \in Thread : Holds(u, n) => sock[n].thread = u
    BY DEF Holds, HasLive, Busy, HeldInv, Live, LiveOK, BusyOK
  <1>2. ~AccHolds(n) /\ ~(HasLive(t, n) /\ Busy(t, n))
    BY DEF Holds, HasLive, Live, HeldInv, Single
  <1>3. \A u \in Thread : ~HasMsg(u, n)
    BY <1>1 DEF Holds, HasMsg, HeldInv, Single
  <1> QED  BY <1>1, <1>2, <1>3

(* What add and del do to the events that can fire. *)
LEMMA AddKeepsLive ==
  ASSUME TypeOK, NEW t \in Thread, QueueOK(t), NEW x, Added(t, x) \/ NotAdded(t, x)
  PROVE  /\ QueueOK(t)'
         /\ \A u \in Thread \ {t} : queue'[u] = queue[u] /\ epoll'[u] = epoll[u]
         /\ \A f : Live(t, f)' => Live(t, f) \/ (f = x /\ Added(t, x))
  <1>1. CASE Added(t, x)
    <2>1. /\ queue'[t] = queue[t] \cup {x} /\ epoll'[t] = epoll[t] \cup {x.fd}
          /\ \A u \in Thread \ {t} : queue'[u] = queue[u] /\ epoll'[u] = epoll[u]
          /\ \A f \in queue[t] : f.fd # x.fd
      BY <1>1 DEF Added, EqualFd, TypeOK
    <2>2. QueueOK(t)'
      BY <2>1 DEF QueueOK, EqualFd
    <2> QED  BY <1>1, <2>1, <2>2 DEF Live
  <1>2. CASE NotAdded(t, x) /\ ~EqualFd(t, x.fd)
    <2>1. /\ queue'[t] = queue[t] \cup {x} /\ epoll' = epoll
          /\ \A u \in Thread \ {t} : queue'[u] = queue[u]
          /\ \A f \in queue[t] : f.fd # x.fd
      BY <1>2 DEF NotAdded, EqualFd, TypeOK
    <2>2. x.fd \notin epoll[t]
      BY <1>2 DEF QueueOK
    <2>3. QueueOK(t)'
      BY <2>1 DEF QueueOK, EqualFd
    <2> QED  BY <2>1, <2>2, <2>3 DEF Live
  <1>3. CASE UNCHANGED <<queue, epoll>>
    BY <1>3 DEF QueueOK, EqualFd, Live
  <1> QED  BY <1>1, <1>2, <1>3 DEF NotAdded

(* (del) *)
LEMMA DelKeepsLive ==
  ASSUME TypeOK, NEW t \in Thread, QueueOK(t), NEW x \in queue[t], DelEvent(t, x)
  PROVE  /\ QueueOK(t)'
         /\ \A u \in Thread \ {t} : queue'[u] = queue[u] /\ epoll'[u] = epoll[u]
         /\ \A f : Live(t, f)' => Live(t, f) /\ f # x
  <1>1. /\ queue'[t] = queue[t] \ {x} /\ epoll'[t] = epoll[t] \ {x.fd}
        /\ \A u \in Thread \ {t} : queue'[u] = queue[u] /\ epoll'[u] = epoll[u]
    BY DEF DelEvent, TypeOK
  <1>2. QueueOK(t)'
    BY <1>1 DEF QueueOK, EqualFd
  <1> QED  BY <1>1, <1>2 DEF Live

(* (close) *)
LEMMA CloseKeepsLive ==
  ASSUME TypeOK, NEW t \in Thread, QueueOK(t), UNCHANGED queue,
         \A u \in Thread : epoll'[u] \subseteq epoll[u]
  PROVE  /\ QueueOK(t)' /\ \A f : Live(t, f)' => Live(t, f)
  BY DEF QueueOK, EqualFd, Live

(* A step of thread t for the client n that it holds. *)
HeldStep(t, n) ==
    /\ UNCHANGED <<pipe, acc>>
    /\ \A m \in Fd \ {n} : sock'[m] = sock[m]
    /\ \A u \in Thread \ {t} : wk'[u] = wk[u] /\ queue'[u] = queue[u] /\ epoll'[u] \subseteq epoll[u]
    /\ \A f : Live(t, f)' /\ f.sock # n => Live(t, f)
    /\ wk'[t].pc \notin {"idle", "close"} => wk'[t].sock = n
    /\ ~sock'[n].fd => sock'[n].thread = NoThread
    /\ BusyOK(t)' /\ QueueOK(t)'
    /\ \A f : Live(t, f)' /\ f.sock = n => LiveOK(t, f)' /\ ~Busy(t, n)'
    /\ \A f, g : Live(t, f)' /\ Live(t, g)' /\ f.sock = n /\ g.sock = n => f = g

(* Such a step keeps the whole invariant. *)
LEMMA HeldStepKeeps ==
  ASSUME Members, HeldInv, Members', NEW t \in Thread, NEW n \in Fd, Holds(t, n), HeldStep(t, n),
         wk[t].pc \notin {"idle", "close"} => Busy(t, n)
  PROVE  HeldInv'
  <1>1. /\ ~AccHolds(n) /\ \A u \in Thread : ~HasMsg(u, n)
        /\ \A u \in Thread \ {t} : ~HasLive(u, n) /\ ~Busy(u, n)
    BY HeldAlone DEF Holds
  <1>2. /\ \A u \in Thread : \A m : HasMsg(u, m)' <=> HasMsg(u, m)
        /\ \A u \in Thread \ {t} : \A f : Live(u, f)' => Live(u, f)
        /\ \A m : AccHolds(m)' <=> AccHolds(m)
    BY DEF HeldStep, HasMsg, Live, AccHolds
  <1>3. \A u \in Thread, m \in Fd \ {n} : HasLive(u, m)' => HasLive(u, m)
    BY DEF HeldStep, HasLive, Live
  <1>4. /\ \A u \in Thread \ {t} : \A m : Busy(u, m)' <=> Busy(u, m)
        /\ \A m \in Fd \ {n} : ~Busy(t, m)'
        /\ \A u \in Thread \ {t} : ~HasLive(u, n)'
    BY <1>1, <1>2 DEF HeldStep, Busy, HasLive, Live
  <1>5. \A m \in Fd : ~sock'[m].fd => sock'[m].thread = NoThread
    BY DEF HeldStep, HeldInv
  <1>6. acc.pc = "pipe" => sock'[acc.fd].thread # NoThread
    BY <1>1 DEF HeldStep, HeldInv, AccHolds, Members
  <1>7. ASSUME NEW u \in Thread
        PROVE  \A i \in 1..Len(pipe[u]) : sock'[pipe[u][i].fd].thread = u
    BY <1>1 DEF HasMsg, Members, HeldStep, HeldInv
  <1>8. ASSUME NEW u \in Thread, NEW f \in queue'[u], Live(u, f)' PROVE LiveOK(u, f)'
    <2>1. CASE f.sock = n
      <3>1. u = t
        BY <1>4, <1>8, <2>1 DEF HasLive, Live
      <3> QED  BY <1>8, <2>1, <3>1 DEF HeldStep
    <2>2. CASE f.sock # n
      <3>1. Live(u, f) /\ f \in queue[u] /\ f.sock \in Fd
        BY <1>2, <1>8, <2>2 DEF HeldStep, Live, Members
      <3>2. LiveOK(u, f) /\ sock'[f.sock] = sock[f.sock]
        BY <2>2, <3>1 DEF HeldInv, HeldStep
      <3> QED  BY <3>2 DEF LiveOK
    <2> QED  BY <2>1, <2>2
  <1>9. ASSUME NEW u \in Thread PROVE BusyOK(u)' /\ QueueOK(u)'
    <2>1. CASE u = t
      BY <2>1 DEF HeldStep
    <2>2. CASE u # t
      <3>1. wk'[u] = wk[u] /\ (wk[u].pc \notin {"idle", "close"} => wk[u].sock \in Fd \ {n})
        BY <1>1, <2>2 DEF HeldStep, Busy, Members
      <3>2. BusyOK(u)'
        BY <3>1 DEF HeldStep, HeldInv, BusyOK
      <3>3. QueueOK(u)'
        BY <2>2 DEF HeldStep, HeldInv, QueueOK, EqualFd
      <3> QED  BY <3>2, <3>3
    <2> QED  BY <2>1, <2>2
  <1>10. ASSUME NEW u \in Thread PROVE Single(u)'
    <2>1. \A m \in Fd : AccHolds(m)' => ~HasMsg(u, m)' /\ ~HasLive(u, m)' /\ ~Busy(u, m)'
      BY <1>1, <1>2, <1>3, <1>4 DEF HeldInv, Single
    <2>2. \A i, j \in 1..Len(pipe[u]) : pipe[u][i].fd = pipe[u][j].fd => i = j
      BY DEF HeldInv, Single
    <2>3. \A i \in 1..Len(pipe[u]) : ~HasLive(u, pipe[u][i].fd)' /\ ~Busy(u, pipe[u][i].fd)'
      <3>1. \A i \in 1..Len(pipe[u]) : pipe[u][i].fd \in Fd \ {n}
        BY <1>1 DEF HasMsg, Members
      <3>2. \A i \in 1..Len(pipe[u]) : ~HasLive(u, pipe[u][i].fd) /\ ~Busy(u, pipe[u][i].fd)
        BY DEF HeldInv, Single
      <3>3. UNCHANGED pipe
        BY DEF HeldStep
      <3> QED  BY <1>3, <1>4, <3>1, <3>2, <3>3
    <2>4. \A f \in queue'[u] : Live(u, f)' => ~Busy(u, f.sock)'
      <3> SUFFICES ASSUME NEW f \in queue'[u], Live(u, f)', NEW m \in Fd, m = f.sock PROVE ~Busy(u, m)'
        BY DEF Members
      <3>1. CASE m = n
        <4>1. u = t
          BY <1>4, <3>1 DEF HasLive, Live
        <4> QED  BY <3>1, <4>1 DEF HeldStep
      <3>2. CASE m # n
        <4>1. HasLive(u, m)
          BY <1>3, <3>2 DEF HasLive, Live
        <4> QED  BY <1>4, <3>2, <4>1 DEF HasLive, HeldInv, Single, Live
      <3> QED  BY <3>1, <3>2
    <2>5. \A f, g \in queue'[u] : Live(u, f)' /\ Live(u, g)' /\ f.sock = g.sock => f = g
      <3> SUFFICES ASSUME NEW f \in queue'[u], NEW g \in queue'[u],
                          Live(u, f)', Live(u, g)', f.sock = g.sock
                   PROVE  f = g
        OBVIOUS
      <3>1. CASE f.sock = n
        <4>1. u = t
          BY <1>4, <3>1 DEF HasLive, Live
        <4> QED  BY <3>1, <4>1 DEF HeldStep
      <3>2. CASE f.sock # n
        <4>1. Live(u, f) /\ Live(u, g)
          BY <1>2, <3>2 DEF HeldStep
        <4> QED  BY <4>1 DEF Live, HeldInv, Single
      <3> QED  BY <3>1, <3>2
    <2> QED  BY <2>1, <2>2, <2>3, <2>4, <2>5 DEF Single, HeldStep
  <1> QED  BY <1>5, <1>6, <1>7, <1>8, <1>9, <1>10 DEF HeldInv, HeldStep

(* Steps that only let go. *)
LEMMA LettingGoKeeps ==
  ASSUME TypeOK, Members, HeldInv, Members', UNCHANGED <<sock, queue, pipe>>,
         \A u \in Thread : epoll'[u] \subseteq epoll[u],
         \A u \in Thread : wk'[u] = wk[u] \/ wk'[u].pc = "idle",
         \A m \in Fd : AccHolds(m)' => AccHolds(m), acc'.pc = "pipe" => acc' = acc
  PROVE  HeldInv'
  <1>1. ASSUME NEW u \in Thread
        PROVE  /\ \A f : Live(u, f)' => Live(u, f)
               /\ \A m : HasLive(u, m)' => HasLive(u, m)
               /\ \A m : Busy(u, m)' => Busy(u, m)
               /\ \A m : HasMsg(u, m)' <=> HasMsg(u, m)
    BY DEF Live, HasLive, Busy, HasMsg
  <1>2. ASSUME NEW u \in Thread PROVE BusyOK(u)' /\ QueueOK(u)' /\ Single(u)'
    <2>1. BusyOK(u)' /\ QueueOK(u)'
      BY DEF HeldInv, BusyOK, QueueOK, EqualFd
    <2>2. \A m \in Fd : AccHolds(m)' => ~HasMsg(u, m)' /\ ~HasLive(u, m)' /\ ~Busy(u, m)'
      BY <1>1 DEF HeldInv, Single
    <2>3. \A i \in 1..Len(pipe[u]) : ~HasLive(u, pipe[u][i].fd)' /\ ~Busy(u, pipe[u][i].fd)'
      BY <1>1 DEF HeldInv, Single
    <2>4. \A f \in queue[u] : Live(u, f)' => ~Busy(u, f.sock)'
      BY <1>1 DEF HeldInv, Single
    <2>5. \A f, g \in queue[u] : Live(u, f)' /\ Live(u, g)' /\ f.sock = g.sock => f = g
      BY <1>1 DEF HeldInv, Single
    <2> QED  BY <2>1, <2>2, <2>3, <2>4, <2>5 DEF HeldInv, Single
  <1>3. \A u \in Thread : \A f \in queue[u] : Live(u, f)' => LiveOK(u, f)'
    BY <1>1 DEF HeldInv, LiveOK
  <1> QED  BY <1>2, <1>3 DEF HeldInv

(* A process thread goes on with its client n, may let an event x fire for it, or is done. *)
LEMMA BusyStepKeeps ==
  ASSUME Members, HeldInv, Members', NEW t \in Thread, NEW n \in Fd, Busy(t, n),
         UNCHANGED <<pipe, acc>>, \A m \in Fd \ {n} : sock'[m] = sock[m],
         \A u \in Thread \ {t} : wk'[u] = wk[u] /\ queue'[u] = queue[u] /\ epoll'[u] \subseteq epoll[u],
         wk'[t].pc \notin {"idle", "close"} => wk'[t].sock = n,
         ~sock'[n].fd => sock'[n].thread = NoThread, BusyOK(t)', QueueOK(t)', NEW x,
         \A f : Live(t, f)' => Live(t, f) \/ (f = x /\ x.sock = n /\ LiveOK(t, x)' /\ wk'[t].pc = "idle")
  PROVE  HeldInv'
  <1>1. Holds(t, n) /\ (wk[t].pc \notin {"idle", "close"} => Busy(t, n))
    BY DEF Holds, Busy
  <1>2. \A f : Live(t, f) => f.sock # n
    BY DEF HeldInv, Single, Live
  <1>3. \A f : Live(t, f)' /\ f.sock # n => Live(t, f)
    OBVIOUS
  <1>4. \A f : Live(t, f)' /\ f.sock = n => f = x /\ LiveOK(t, x)' /\ wk'[t].pc = "idle"
    BY <1>2
  <1>5. \A f : Live(t, f)' /\ f.sock = n => LiveOK(t, f)' /\ ~Busy(t, n)'
    BY <1>4 DEF Busy
  <1>6. HeldStep(t, n)
    BY <1>3, <1>4, <1>5 DEF HeldStep
  <1> QED  BY <1>1, <1>6, HeldStepKeeps

(* An event that fires is for a client socket of its thread, whose handler takes it over. *)
LEMMA HandlesHeld ==
  ASSUME TypeOK, Members, Members', HeldInv, NEW t \in Thread, Handles(t)
  PROVE  HeldInv'
  <1>1. PICK e \in queue[t] : Handler(t, e)
    BY DEF Handles
  <1>2. wk[t].pc = "idle" /\ Live(t, e)
    BY <1>1 DEF Handler, Received, Answered, ClientFails, ServiceAnswers, ServiceForeign, ServiceFails, Fired, Live
  <1>3. PICK n \in Fd : n = e.sock
    BY DEF Members
  <1>4. /\ sock[n].thread = t /\ (e.what # "service" => e.fd = n) /\ QueueOK(t) /\ Holds(t, n)
        /\ \A f : Live(t, f) /\ f.sock = n => f = e
    BY <1>2, <1>3 DEF HeldInv, LiveOK, Live, Single, Holds, HasLive
  <1>5. DelEvent(t, e) /\ UNCHANGED <<pipe, acc>>
    BY <1>1, <1>3, <1>4
    DEF Handler, Received, Answered, ClientFails, ServiceAnswers, ServiceForeign, ServiceFails
  <1>6. /\ QueueOK(t)'
        /\ \A u \in Thread \ {t} : queue'[u] = queue[u] /\ epoll'[u] = epoll[u]
        /\ \A f : Live(t, f)' => Live(t, f) /\ f # e
    BY <1>4, <1>5, DelKeepsLive
  <1>7. /\ sock'[n].fd = sock[n].fd /\ sock'[n].thread = sock[n].thread
        /\ \A m \in Fd \ {n} : sock'[m] = sock[m]
    <2>1. CASE Received(t, e)
      <3>1. sock' = [sock EXCEPT ![n].status = "PROCESS"]
        BY <1>3, <1>4, <2>1 DEF Received
      <3> QED  BY <3>1, StatusDoes
    <2>2. CASE Answered(t, e)
      <3>1. sock' = [sock EXCEPT ![n].status = "OVER"]
        BY <1>3, <1>4, <2>2 DEF Answered
      <3> QED  BY <3>1, StatusDoes
    <2> QED  BY <1>1, <2>1, <2>2 DEF Handler, ClientFails, ServiceAnswers, ServiceForeign, ServiceFails
  <1>8. PICK pc \in {"call", "error", "fini", "giveback", "leave", "release"} :
           \E in, a : Enter(t, pc, in, n, a)
    BY <1>1, <1>3, <1>4, CatchAtType
    DEF Handler, Received, Answered, ClientFails, ServiceAnswers, ServiceForeign, ServiceFails
  <1>9. wk'[t].pc = pc /\ wk'[t].sock = n /\ \A u \in Thread \ {t} : wk'[u] = wk[u]
    BY <1>8, EnterDoes
  <1>10. BusyOK(t)' /\ (~sock'[n].fd => sock'[n].thread = NoThread)
    BY <1>4, <1>7, <1>9 DEF BusyOK, HeldInv
  <1>11. \A f : Live(t, f)' => f.sock # n
    BY <1>4, <1>6
  <1>12. HeldStep(t, n)
    BY <1>5, <1>6, <1>7, <1>9, <1>10, <1>11 DEF HeldStep
  <1> QED  BY <1>2, <1>4, <1>12, HeldStepKeeps

(* A process thread at work has its client. *)
LEMMA BusyHas ==
  ASSUME Members, HeldInv, NEW t \in Thread, wk[t].pc \notin {"idle", "close"}
  PROVE  /\ wk[t].sock \in Fd /\ Busy(t, wk[t].sock) /\ sock[wk[t].sock].thread = t /\ QueueOK(t)
         /\ wk[t].pc \in {"connect", "register"} => sock[wk[t].sock].api # NoApi
         /\ wk[t].pc \in WithApi => wk[t].api \in Api
         /\ ~sock[wk[t].sock].fd => sock[wk[t].sock].thread = NoThread
  BY DEF Members, HeldInv, Busy, BusyOK

(* Closing a descriptor lets no further event fire. *)
LEMMA CloseLetsGo ==
  ASSUME TypeOK, NEW m \in Fd, CloseFile(m)
  PROVE  \A u \in Thread : epoll'[u] \subseteq epoll[u]
  BY CloseFileDoes

(* _call_server keeps the client with its thread, or passes it to the event of the api. *)
LEMMA CallsHeld ==
  ASSUME TypeOK, Members, Members', HeldInv, NEW t \in Thread, Calls(t)
  PROVE  HeldInv'
  <1>1. wk[t].pc \notin {"idle", "close"}
    BY DEF Calls, CallServer, NoApiToCall, Connect, ConnectFails, Register
  <1>2. PICK n \in Fd : n = wk[t].sock
    BY <1>1, BusyHas
  <1>3. /\ n = wk[t].sock /\ Busy(t, n) /\ sock[n].thread = t /\ QueueOK(t)
        /\ wk[t].pc \in {"connect", "register"} => sock[n].api # NoApi
        /\ ~sock[n].fd => sock[n].thread = NoThread
    BY <1>1, <1>2, BusyHas
  <1>4. UNCHANGED <<pipe, acc>>
    BY DEF Calls, CallServer, NoApiToCall, Connect, ConnectFails, Register
  <1>5. CASE CallServer(t)
    <2>1. PICK a \in Api, tcpOk \in BOOLEAN :
             /\ IF api[a].fd # NoFd /\ ~tcpOk THEN CloseFile(api[a].fd) ELSE UNCHANGED <<file, epoll>>
             /\ sock' = [sock EXCEPT ![n].api = a]
             /\ wk' = [wk EXCEPT ![t].pc = "connect", ![t].api = a]
      BY <1>3, <1>5 DEF CallServer
    <2>2. \A u \in Thread : epoll'[u] \subseteq epoll[u]
      BY <2>1, CloseLetsGo DEF Members
    <2>3. queue' = queue
      BY <1>5 DEF CallServer
    <2>4. QueueOK(t)' /\ \A f : Live(t, f)' => Live(t, f)
      BY <1>3, <2>2, <2>3, CloseKeepsLive
    <2>5. /\ sock'[n].fd = sock[n].fd /\ sock'[n].thread = sock[n].thread /\ sock'[n].api = a
          /\ \A m \in Fd \ {n} : sock'[m] = sock[m]
      BY <2>1, ApiSetDoes
    <2>6. wk'[t].pc = "connect" /\ wk'[t].sock = n /\ \A u \in Thread \ {t} : wk'[u] = wk[u]
      BY <1>3, <2>1 DEF TypeOK
    <2>7. BusyOK(t)'
      BY <1>3, <2>5, <2>6 DEF BusyOK
    <2> QED  BY <1>3, <1>4, <2>2, <2>3, <2>4, <2>5, <2>6, <2>7, BusyStepKeeps
  <1>6. ASSUME UNCHANGED <<sock, queue, epoll>>, NEW pc \in {"error", "register", "release"}, Goto(t, pc),
               pc = "register" => sock[n].api # NoApi
        PROVE  HeldInv'
    <2>1. wk'[t].pc = pc /\ wk'[t].sock = n /\ \A u \in Thread \ {t} : wk'[u] = wk[u]
      BY <1>3, <1>6, GotoDoes
    <2>2. BusyOK(t)' /\ QueueOK(t)' /\ \A f : Live(t, f)' => Live(t, f)
      BY <1>3, <1>6, <2>1 DEF BusyOK, QueueOK, EqualFd, Live
    <2> QED  BY <1>3, <1>4, <1>6, <2>1, <2>2, BusyStepKeeps
  <1>7. CASE NoApiToCall(t) \/ Connect(t) \/ ConnectFails(t)
    BY <1>3, <1>6, <1>7 DEF NoApiToCall, Connect, ConnectFails
  <1>8. CASE Register(t)
    <2>1. PICK x : x = ServiceEvent(api[wk[t].api].fd, n)
      OBVIOUS
    <2>2. x.sock = n /\ x.what = "service"
      BY <2>1 DEF ServiceEvent
    <2>3. /\ \/ Added(t, x) /\ Return(t)
             \/ NotAdded(t, x) /\ Goto(t, "release")
          /\ sock' = sock /\ sock[n].api # NoApi
      BY <1>3, <1>8, <2>1 DEF Register
    <2>4. /\ QueueOK(t)'
          /\ \A u \in Thread \ {t} : queue'[u] = queue[u] /\ epoll'[u] = epoll[u]
          /\ \A f : Live(t, f)' => Live(t, f) \/ (f = x /\ Added(t, x))
      BY <1>3, <2>3, AddKeepsLive
    <2>5. LiveOK(t, x)'
      BY <1>3, <2>2, <2>3 DEF LiveOK
    <2>6. CASE Added(t, x) /\ Return(t)
      <3>1. wk'[t].pc = "idle" /\ \A u \in Thread \ {t} : wk'[u] = wk[u]
        BY <2>6, ReturnDoes
      <3>2. BusyOK(t)'
        BY <3>1 DEF BusyOK
      <3> QED  BY <1>3, <1>4, <2>2, <2>3, <2>4, <2>5, <3>1, <3>2, BusyStepKeeps
    <2>7. CASE NotAdded(t, x) /\ Goto(t, "release")
      <3>1. wk'[t].pc = "release" /\ wk'[t].sock = n /\ \A u \in Thread \ {t} : wk'[u] = wk[u]
        BY <1>3, <2>7, GotoDoes
      <3>2. BusyOK(t)'
        BY <1>3, <2>3, <3>1 DEF BusyOK
      <3>3. ~Added(t, x)
        BY <2>7 DEF Added, NotAdded, Fault, TypeOK
      <3> QED  BY <1>3, <1>4, <2>2, <2>3, <2>4, <3>1, <3>2, <3>3, BusyStepKeeps
    <2> QED  BY <2>3, <2>6, <2>7
  <1> QED  BY <1>5, <1>7, <1>8 DEF Calls

(* Giving an api back may close its descriptor. *)
LEMMA SetFreeLetsGo ==
  ASSUME TypeOK, Members, NEW a \in Api, NEW close, SetFree(a, close)
  PROVE  \A u \in Thread : epoll'[u] \subseteq epoll[u]
  <1>1. CASE CloseFile(api[a].fd) /\ api[a].fd # NoFd
    BY <1>1, CloseLetsGo DEF Members
  <1>2. CASE UNCHANGED <<file, epoll>>
    BY <1>2
  <1> QED  BY <1>1, <1>2 DEF SetFree

(* The releases of apis keep the client with its thread. *)
LEMMA ReleasesHeld ==
  ASSUME TypeOK, Members, Members', HeldInv, NEW t \in Thread, Releases(t)
  PROVE  HeldInv'
  <1>1. wk[t].pc \notin {"idle", "close"} /\ wk[t].pc \in WithApi
    BY DEF Releases, GiveBack, LeaveClient, ReleaseApi, FreeAgain, WithApi
  <1>2. PICK n \in Fd : n = wk[t].sock
    BY <1>1, BusyHas
  <1>3. /\ n = wk[t].sock /\ Busy(t, n) /\ sock[n].thread = t /\ QueueOK(t) /\ wk[t].api \in Api
        /\ ~sock[n].fd => sock[n].thread = NoThread
    BY <1>1, <1>2, BusyHas
  <1>4. UNCHANGED <<pipe, queue, acc>> /\ \A u \in Thread : epoll'[u] \subseteq epoll[u]
    <2>1. \E close : SetFree(wk[t].api, close)
      BY DEF Releases, GiveBack, LeaveClient, ReleaseApi, FreeAgain
    <2> QED  BY <1>3, <2>1, SetFreeLetsGo DEF Releases, GiveBack, LeaveClient, ReleaseApi, FreeAgain
  <1>5. QueueOK(t)' /\ \A f : Live(t, f)' => Live(t, f)
    BY <1>3, <1>4, CloseKeepsLive
  <1>6. /\ sock'[n].fd = sock[n].fd /\ sock'[n].thread = sock[n].thread
        /\ \A m \in Fd \ {n} : sock'[m] = sock[m]
    <2>1. sock' = sock \/ sock' = [sock EXCEPT ![n].api = NoApi]
      BY <1>3 DEF Releases, GiveBack, LeaveClient, ReleaseApi, FreeAgain
    <2> QED  BY <2>1, ApiSetDoes
  <1>7. /\ wk'[t].pc \in {"idle", "reply", "error"} /\ (wk'[t].pc # "idle" => wk'[t].sock = n)
        /\ \A u \in Thread \ {t} : wk'[u] = wk[u]
    <2>1. Goto(t, "reply") \/ Goto(t, "error") \/ Return(t)
      BY DEF Releases, GiveBack, LeaveClient, ReleaseApi, FreeAgain
    <2> QED  BY <1>3, <2>1, GotoDoes, ReturnDoes
  <1>8. BusyOK(t)'
    BY <1>3, <1>6, <1>7 DEF BusyOK
  <1> QED  BY <1>3, <1>4, <1>5, <1>6, <1>7, <1>8, BusyStepKeeps

(* Answers pass the client on; fini and close let it go. *)
LEMMA AnswersHeld ==
  ASSUME TypeOK, Members, Members', HeldInv, NEW t \in Thread, Answers(t)
  PROVE  HeldInv'
  <1>1. CASE CloseSocket(t)
    <2>1. wk[t].sock \in Fd /\ CloseFile(wk[t].sock) /\ Return(t) /\ UNCHANGED <<sock, queue, pipe, acc>>
      BY <1>1 DEF CloseSocket, Members
    <2>2. \A u \in Thread : epoll'[u] \subseteq epoll[u]
      BY <2>1, CloseLetsGo
    <2>3. \A u \in Thread : wk'[u] = wk[u] \/ wk'[u].pc = "idle"
      BY <2>1, ReturnDoes
    <2> QED  BY <2>1, <2>2, <2>3, LettingGoKeeps DEF AccHolds
  <1>2. CASE ~CloseSocket(t)
    <2>1. wk[t].pc \notin {"idle", "close"}
      BY <1>2 DEF Answers, Reply, WriteError, Fini
    <2>2. PICK n \in Fd : n = wk[t].sock
      BY <2>1, BusyHas
    <2>3. n = wk[t].sock /\ Busy(t, n) /\ sock[n].thread = t /\ QueueOK(t)
          /\ (~sock[n].fd => sock[n].thread = NoThread)
      BY <2>1, <2>2, BusyHas
    <2>4. CASE Fini(t)
      <3>1. /\ UNCHANGED <<pipe, queue, epoll, acc>> /\ sock' = [sock EXCEPT ![n] = Reset(@)]
            /\ Goto(t, "close") \/ Return(t)
        BY <2>3, <2>4 DEF Fini
      <3>2. sock'[n].thread = NoThread /\ \A m \in Fd \ {n} : sock'[m] = sock[m]
        BY <3>1, ResetDoes
      <3>3. wk'[t].pc \in {"idle", "close"} /\ \A u \in Thread \ {t} : wk'[u] = wk[u]
        BY <3>1, GotoDoes, ReturnDoes
      <3>4. BusyOK(t)' /\ QueueOK(t)' /\ \A f : Live(t, f)' => Live(t, f)
        BY <2>3, <3>1, <3>3 DEF BusyOK, QueueOK, EqualFd, Live
      <3> QED  BY <2>3, <3>1, <3>2, <3>3, <3>4, BusyStepKeeps
    <2>6. CASE /\ Reply(t) \/ WriteError(t)
               /\ UNCHANGED <<sock, queue, epoll>> /\ (Goto(t, "again") \/ Return(t))
      <3>1. UNCHANGED <<pipe, acc>>
        BY <2>6 DEF Reply, WriteError
      <3>2. /\ wk'[t].pc \in {"idle", "again"} /\ (wk'[t].pc # "idle" => wk'[t].sock = n)
            /\ \A u \in Thread \ {t} : wk'[u] = wk[u]
        BY <2>3, <2>6, GotoDoes, ReturnDoes
      <3>3. BusyOK(t)'
        BY <2>3, <2>6, <3>2 DEF BusyOK
      <3>4. QueueOK(t)' /\ \A f : Live(t, f)' => Live(t, f)
        BY <2>3, <2>6 DEF QueueOK, EqualFd, Live
      <3> QED  BY <2>3, <2>6, <3>1, <3>2, <3>3, <3>4, BusyStepKeeps
    <2>5. CASE /\ Reply(t) \/ WriteError(t)
               /\ ~(UNCHANGED <<sock, queue, epoll>> /\ (Goto(t, "again") \/ Return(t)))
      <3>1. PICK x : x = SendEvent(n)
        OBVIOUS
      <3>2. x.sock = n /\ x.fd = n /\ x.what = "send"
        BY <3>1 DEF SendEvent
      <3>3. /\ \/ Added(t, x) /\ Return(t)
               \/ NotAdded(t, x) /\ (Goto(t, "again") \/ Return(t))
            /\ sock' = [sock EXCEPT ![n].status = "SEND"] /\ UNCHANGED <<pipe, acc>>
        BY <2>3, <2>5, <3>1 DEF Reply, WriteError, Escape
      <3>4. /\ sock'[n].fd = sock[n].fd /\ sock'[n].thread = sock[n].thread
            /\ \A m \in Fd \ {n} : sock'[m] = sock[m]
        BY <3>3, StatusDoes
      <3>5. /\ QueueOK(t)'
            /\ \A u \in Thread \ {t} : queue'[u] = queue[u] /\ epoll'[u] = epoll[u]
            /\ \A f : Live(t, f)' => Live(t, f) \/ (f = x /\ Added(t, x))
        BY <2>3, <3>3, AddKeepsLive
      <3>6. LiveOK(t, x)'
        BY <2>3, <3>2, <3>4 DEF LiveOK
      <3>7. /\ wk'[t].pc \in {"idle", "again"} /\ (wk'[t].pc # "idle" => wk'[t].sock = n)
            /\ Added(t, x) => wk'[t].pc = "idle"
            /\ \A u \in Thread \ {t} : wk'[u] = wk[u]
        <4>1. ~(Added(t, x) /\ NotAdded(t, x))
          BY DEF Added, NotAdded, Fault, TypeOK
        <4> QED  BY <2>3, <3>3, <4>1, GotoDoes, ReturnDoes
      <3>8. BusyOK(t)'
        BY <2>3, <3>4, <3>7 DEF BusyOK
      <3> QED  BY <2>3, <3>2, <3>3, <3>4, <3>5, <3>6, <3>7, <3>8, BusyStepKeeps
    <2> QED  BY <1>2, <2>4, <2>5, <2>6 DEF Answers
  <1> QED  BY <1>1, <1>2

----------------------------------------------------------------------------
(* A message is held by its pipe alone. *)
LEMMA MsgHeldAlone ==
  ASSUME Members, HeldInv, NEW t \in Thread, NEW n \in Fd, HasMsg(t, n)
  PROVE  /\ sock[n].thread = t /\ ~AccHolds(n)
         /\ \A u \in Thread \ {t} : ~HasMsg(u, n)
         /\ \A u \in Thread : ~HasLive(u, n) /\ ~Busy(u, n)
  <1>1. sock[n].thread = t /\ ~AccHolds(n)
    BY DEF HasMsg, HeldInv, Single
  <1>2. \A u \in Thread \ {t} : ~HasMsg(u, n)
    BY <1>1 DEF HasMsg, HeldInv
  <1>3. \A u \in Thread : ~Holds(u, n)
    BY HeldAlone
  <1> QED  BY <1>1, <1>2, <1>3 DEF Holds

(* _process_dispatch takes over the client of its message. *)
LEMMA ReadsPipeHeld ==
  ASSUME TypeOK, Members, Members', HeldInv, NEW t \in Thread, ReadsPipe(t)
  PROVE  HeldInv'
  <1>1. /\ wk[t].pc = "idle" /\ pipe[t] # <<>> /\ pipe' = [pipe EXCEPT ![t] = Tail(@)]
        /\ UNCHANGED <<sock, acc>>
    BY DEF ReadsPipe, StartReading, RefuseClient
  <1>2. /\ Len(pipe[t]) \in Nat \ {0} /\ Head(pipe[t]) = pipe[t][1]
        /\ Len(pipe'[t]) = Len(pipe[t]) - 1
        /\ \A i \in 1..Len(pipe'[t]) : i + 1 \in 1..Len(pipe[t]) /\ pipe'[t][i] = pipe[t][i + 1]
        /\ \A u \in Thread \ {t} : pipe'[u] = pipe[u]
    BY <1>1, TailDoes
  <1>3. PICK n \in Fd : n = Head(pipe[t]).fd
    BY <1>2 DEF Members
  <1>4. HasMsg(t, n)
    BY <1>2, <1>3 DEF HasMsg
  <1>5. /\ sock[n].thread = t /\ ~AccHolds(n)
        /\ \A u \in Thread \ {t} : ~HasMsg(u, n)
        /\ \A u \in Thread : ~HasLive(u, n) /\ ~Busy(u, n)
    BY <1>4, MsgHeldAlone
  <1>6. PICK x : x = RecvEvent(n)
    OBVIOUS
  <1>7. x.sock = n /\ x.fd = n /\ x.what = "recv"
    BY <1>6 DEF RecvEvent
  <1>8. \/ Added(t, x) /\ wk' = wk
        \/ /\ NotAdded(t, x) \/ UNCHANGED <<queue, epoll>>
           /\ wk' = [wk EXCEPT ![t] = [pc |-> CatchAt(n), in |-> "pipe", sock |-> n, api |-> NoApi]]
    BY <1>3, <1>5, <1>6 DEF ReadsPipe, StartReading, RefuseClient
  <1>9. /\ QueueOK(t)'
        /\ \A u \in Thread \ {t} : queue'[u] = queue[u] /\ epoll'[u] = epoll[u]
        /\ \A f : Live(t, f)' => Live(t, f) \/ (f = x /\ wk' = wk)
    <2>1. QueueOK(t)
      BY DEF HeldInv
    <2>2. CASE UNCHANGED <<queue, epoll>>
      BY <2>1, <2>2 DEF QueueOK, EqualFd, Live
    <2>3. CASE Added(t, x) /\ wk' = wk
      BY <2>1, <2>3, AddKeepsLive
    <2>4. CASE NotAdded(t, x)
      <3>1. ~Added(t, x)
        BY <2>4 DEF Added, NotAdded, Fault, TypeOK
      <3> QED  BY <2>1, <2>4, <3>1, AddKeepsLive
    <2> QED  BY <1>8, <2>2, <2>3, <2>4
  <1>10. /\ \A u \in Thread \ {t} : wk'[u] = wk[u]
         /\ \/ wk' = wk
            \/ wk'[t].sock = n /\ wk'[t].pc \in {"error", "fini"} /\ \A f : Live(t, f)' => Live(t, f)
    <2>1. CASE wk' = wk
      BY <2>1
    <2>2. CASE wk' = [wk EXCEPT ![t] = [pc |-> CatchAt(n), in |-> "pipe", sock |-> n, api |-> NoApi]]
      <3>1. wk'[t].sock = n /\ wk'[t].pc \in {"error", "fini"} /\ \A u \in Thread \ {t} : wk'[u] = wk[u]
        BY <2>2, CatchAtType DEF TypeOK
      <3>2. wk' # wk
        BY <1>1, <3>1
      <3> QED  BY <1>9, <3>1, <3>2
    <2> QED  BY <1>8, <2>1, <2>2
  <1>11. /\ \A m \in Fd \ {n}, u \in Thread : HasLive(u, m)' => HasLive(u, m)
         /\ \A u \in Thread \ {t} : \A f : Live(u, f)' => Live(u, f)
         /\ \A m \in Fd \ {n}, u \in Thread : Busy(u, m)' => Busy(u, m)
         /\ \A u \in Thread \ {t} : ~HasLive(u, n)' /\ ~Busy(u, n)'
         /\ ~HasLive(t, n)' \/ ~Busy(t, n)'
    <2>1. \A m \in Fd \ {n}, u \in Thread : HasLive(u, m)' => HasLive(u, m)
      BY <1>7, <1>9 DEF HasLive, Live
    <2>2. \A u \in Thread \ {t} : \A f : Live(u, f)' => Live(u, f)
      BY <1>9 DEF Live
    <2>3. \A m \in Fd \ {n}, u \in Thread : Busy(u, m)' => Busy(u, m)
      BY <1>10 DEF Busy
    <2>4. \A u \in Thread \ {t} : ~HasLive(u, n)' /\ ~Busy(u, n)'
      BY <1>5, <1>9, <1>10 DEF HasLive, Live, Busy
    <2>5. ~HasLive(t, n)' \/ ~Busy(t, n)'
      BY <1>1, <1>5, <1>10 DEF HasLive, Live, Busy
    <2> QED  BY <2>1, <2>2, <2>3, <2>4, <2>5
  <1>12. /\ \A u \in Thread, m \in Fd : HasMsg(u, m)' => HasMsg(u, m)
         /\ \A u \in Thread : ~HasMsg(u, n)'
    <2>1. \A u \in Thread, m \in Fd : HasMsg(u, m)' => HasMsg(u, m)
      BY <1>2 DEF HasMsg
    <2>2. ~HasMsg(t, n)'
      <3>1. SUFFICES ASSUME NEW i \in 1..Len(pipe'[t]), pipe'[t][i].fd = n PROVE FALSE
        BY DEF HasMsg
      <3>2. i + 1 \in 1..Len(pipe[t]) /\ pipe[t][i + 1].fd = n /\ 1 \in 1..Len(pipe[t]) /\ i + 1 # 1
        BY <1>2, <3>1
      <3> QED  BY <1>2, <1>3, <3>2 DEF HeldInv, Single
    <2> QED  BY <1>5, <2>1, <2>2
  <1>13. ASSUME NEW u \in Thread PROVE \A i \in 1..Len(pipe'[u]) : sock'[pipe'[u][i].fd].thread = u
    BY <1>1, <1>2 DEF HeldInv
  <1>14. ASSUME NEW u \in Thread, NEW f \in queue'[u], Live(u, f)' PROVE LiveOK(u, f)'
    <2>1. CASE Live(u, f)
      BY <1>1, <2>1 DEF HeldInv, Live, LiveOK
    <2>2. CASE ~Live(u, f)
      <3>1. u = t /\ f = x
        BY <1>9, <1>11, <1>14, <2>2
      <3> QED  BY <1>1, <1>5, <1>7, <3>1 DEF LiveOK
    <2> QED  BY <2>1, <2>2
  <1>15. ASSUME NEW u \in Thread PROVE BusyOK(u)' /\ QueueOK(u)'
    <2>1. CASE u = t
      BY <1>1, <1>5, <1>9, <1>10, <2>1 DEF BusyOK
    <2>2. CASE u # t
      BY <1>1, <1>9, <1>10, <2>2 DEF HeldInv, BusyOK, QueueOK, EqualFd
    <2> QED  BY <2>1, <2>2
  <1>16. ASSUME NEW u \in Thread PROVE Single(u)'
    <2>1. \A m \in Fd : AccHolds(m)' => ~HasMsg(u, m)' /\ ~HasLive(u, m)' /\ ~Busy(u, m)'
      <3>1. \A m \in Fd : AccHolds(m)' => AccHolds(m) /\ m # n
        BY <1>1, <1>5 DEF AccHolds
      <3> QED  BY <1>11, <1>12, <3>1 DEF HeldInv, Single
    <2>2. \A i, j \in 1..Len(pipe'[u]) : pipe'[u][i].fd = pipe'[u][j].fd => i = j
      <3>1. CASE u = t
        <4> SUFFICES ASSUME NEW i \in 1..Len(pipe'[t]), NEW j \in 1..Len(pipe'[t]),
                            pipe'[t][i].fd = pipe'[t][j].fd
                     PROVE  i = j
          BY <3>1
        <4>1. i + 1 = j + 1
          BY <1>2 DEF HeldInv, Single
        <4> QED  BY <4>1
      <3>2. CASE u # t
        BY <1>2, <3>2 DEF HeldInv, Single
      <3> QED  BY <3>1, <3>2
    <2>3. \A i \in 1..Len(pipe'[u]) : ~HasLive(u, pipe[u][i].fd)' /\ ~Busy(u, pipe[u][i].fd)'
      <3> SUFFICES ASSUME NEW m \in Fd, HasMsg(u, m)' PROVE ~HasLive(u, m)' /\ ~Busy(u, m)'
        BY DEF HasMsg, Members
      <3>1. m # n /\ HasMsg(u, m)
        BY <1>12
      <3>2. ~HasLive(u, m) /\ ~Busy(u, m)
        BY <3>1, MsgHeldAlone
      <3> QED  BY <1>11, <3>1, <3>2
    <2>4. \A f \in queue'[u] : Live(u, f)' => ~Busy(u, f.sock)'
      <3> SUFFICES ASSUME NEW m \in Fd, HasLive(u, m)' PROVE ~Busy(u, m)'
        BY DEF HasLive, Live, Members
      <3>1. CASE m = n
        BY <1>11, <3>1
      <3>2. CASE m # n
        <4>1. HasLive(u, m)
          BY <1>11, <3>2
        <4> QED  BY <1>11, <3>2, <4>1 DEF HeldInv, Single, HasLive, Live
      <3> QED  BY <3>1, <3>2
    <2>5. \A f, g \in queue'[u] : Live(u, f)' /\ Live(u, g)' /\ f.sock = g.sock => f = g
      <3> SUFFICES ASSUME NEW f, NEW g, Live(u, f)', Live(u, g)', f.sock = g.sock PROVE f = g
        OBVIOUS
      <3>1. \A h : Live(u, h)' => Live(u, h) \/ h = x
        BY <1>9, <1>11
      <3>2. \A h : Live(u, h) => h.sock # n
        BY <1>5 DEF HasLive, Live
      <3>3. CASE f = x \/ g = x
        BY <1>7, <3>1, <3>2, <3>3
      <3>4. CASE f # x /\ g # x
        BY <3>1, <3>4 DEF HeldInv, Single, Live
      <3> QED  BY <3>3, <3>4
    <2> QED  BY <2>1, <2>2, <2>3, <2>4, <2>5 DEF Single
  <1>17. \A m \in Fd : ~sock'[m].fd => sock'[m].thread = NoThread
    BY <1>1 DEF HeldInv
  <1>18. acc'.pc = "pipe" => sock'[acc'.fd].thread # NoThread
    BY <1>1 DEF HeldInv
  <1> QED  BY <1>13, <1>14, <1>15, <1>16, <1>17, <1>18 DEF HeldInv

----------------------------------------------------------------------------
(* The accept thread changes a client socket that nobody else holds. *)
LEMMA AccStepKeeps ==
  ASSUME Members, HeldInv, Members', NEW n \in Fd, UNCHANGED <<pipe, queue, epoll, wk>>,
         \A u \in Thread : ~HasMsg(u, n) /\ ~HasLive(u, n) /\ ~Busy(u, n),
         \A m \in Fd \ {n} : sock'[m] = sock[m], ~sock'[n].fd => sock'[n].thread = NoThread,
         \A m \in Fd : AccHolds(m)' => m = n,
         acc'.pc = "pipe" => acc'.fd = n /\ sock'[n].thread # NoThread
  PROVE  HeldInv'
  <1>1. \A u \in Thread : \A m : /\ HasMsg(u, m)' <=> HasMsg(u, m)
                                 /\ HasLive(u, m)' <=> HasLive(u, m)
                                 /\ Busy(u, m)' <=> Busy(u, m)
                                 /\ Live(u, m)' <=> Live(u, m)
    BY DEF HasMsg, HasLive, Busy, Live
  <1>2. ASSUME NEW u \in Thread
        PROVE  /\ \A i \in 1..Len(pipe[u]) : sock'[pipe[u][i].fd].thread = u
               /\ \A e \in queue[u] : Live(u, e) => LiveOK(u, e)'
               /\ BusyOK(u)'
    <2>1. \A i \in 1..Len(pipe[u]) : pipe[u][i].fd \in Fd \ {n}
      BY DEF HasMsg, Members
    <2>2. \A e \in queue[u] : Live(u, e) => e.sock \in Fd \ {n}
      BY DEF HasLive, Live, Members
    <2>3. wk[u].pc \notin {"idle", "close"} => wk[u].sock \in Fd \ {n}
      BY DEF Busy, Members
    <2>4. \A e \in queue[u] : Live(u, e) => LiveOK(u, e)'
      BY <2>2 DEF HeldInv, LiveOK
    <2>5. BusyOK(u)'
      BY <2>3 DEF HeldInv, BusyOK
    <2> QED  BY <2>1, <2>4, <2>5 DEF HeldInv
  <1>3. ASSUME NEW u \in Thread PROVE Single(u)' /\ QueueOK(u)'
    <2>1. \A m \in Fd : AccHolds(m)' => ~HasMsg(u, m)' /\ ~HasLive(u, m)' /\ ~Busy(u, m)'
      BY <1>1
    <2>2. \A i \in 1..Len(pipe[u]) : ~HasLive(u, pipe[u][i].fd)' /\ ~Busy(u, pipe[u][i].fd)'
      BY <1>1 DEF HeldInv, Single
    <2>3. \A e \in queue[u] : Live(u, e)' => ~Busy(u, e.sock)'
      BY <1>1 DEF HeldInv, Single
    <2>4. \A e, f \in queue[u] : Live(u, e)' /\ Live(u, f)' /\ e.sock = f.sock => e = f
      BY <1>1 DEF HeldInv, Single
    <2>5. Single(u)'
      BY <2>1, <2>2, <2>3, <2>4 DEF HeldInv, Single
    <2>6. QueueOK(u)'
      BY DEF HeldInv, QueueOK, EqualFd
    <2> QED  BY <2>5, <2>6
  <1>4. \A m \in Fd : ~sock'[m].fd => sock'[m].thread = NoThread
    BY DEF HeldInv
  <1> QED  BY <1>1, <1>2, <1>3, <1>4 DEF HeldInv

(* Nobody holds a socket object that was reset when init takes it. *)
LEMMA InitSocketHeld ==
  ASSUME TypeOK, Members, Members', HeldInv, InitSocket
  PROVE  HeldInv'
  <1>1. PICK n \in Fd : n = acc.fd
    BY DEF InitSocket, Members
  <1>2. /\ acc.pc = "init" /\ sock[n].thread = NoThread
        /\ UNCHANGED <<pipe, queue, epoll, wk>>
    BY <1>1 DEF InitSocket
  <1>3. \A u \in Thread : ~HasMsg(u, n) /\ ~HasLive(u, n) /\ ~Busy(u, n)
    <2>1. \A u \in Thread : u # NoThread
      BY DEF Thread, NoThread
    <2> QED  BY <1>2, <2>1, MsgHeldAlone, HeldAlone DEF Holds
  <1>4. /\ sock'[n].fd /\ (acc'.pc = "pipe" => sock'[n].thread \in Thread)
        /\ acc'.fd = n /\ \A m \in Fd \ {n} : sock'[m] = sock[m]
    <2>1. CASE /\ sock' = [sock EXCEPT ![n] = [fd |-> TRUE, status |-> "READ", thread |-> acc.next,
                                               seq |-> acc.seq + 1, api |-> sock[n].api]]
               /\ acc' = [acc EXCEPT !.pc = "pipe", !.seq = @ + 1, !.next = NextThread]
      BY <1>1, <2>1 DEF TypeOK
    <2>2. CASE /\ sock' = [sock EXCEPT ![n].fd = TRUE]
               /\ acc' = [acc EXCEPT !.pc = "close1", !.seq = @ + 1, !.next = NextThread]
      <3>1. sock \in [Fd -> Socket] /\ sock[n] \in Socket
        BY DEF TypeOK
      <3>2. sock'[n].fd = TRUE /\ \A m \in Fd \ {n} : sock'[m] = sock[m]
        BY <2>2, <3>1 DEF Socket
      <3>3. acc'.pc = "close1" /\ acc'.fd = n
        BY <1>1, <2>2 DEF TypeOK
      <3> QED  BY <3>2, <3>3
    <2> QED  BY <1>1, <2>1, <2>2 DEF InitSocket
  <1>5. /\ \A m \in Fd : AccHolds(m)' => m = n
        /\ acc'.pc = "pipe" => acc'.fd = n /\ sock'[n].thread # NoThread
    BY <1>4 DEF AccHolds, Thread, NoThread
  <1> QED  BY <1>2, <1>3, <1>4, <1>5, AccStepKeeps

(* The accept thread closes the client socket that it alone holds. *)
LEMMA FiniAcceptedHeld ==
  ASSUME TypeOK, Members, Members', HeldInv, FiniAccepted
  PROVE  HeldInv'
  <1>1. PICK n \in Fd : n = acc.fd
    BY DEF FiniAccepted, Members
  <1>2. AccHolds(n) /\ UNCHANGED <<pipe, queue, epoll, wk>> /\ sock' = [sock EXCEPT ![n] = Reset(@)]
    BY <1>1 DEF FiniAccepted, AccHolds
  <1>3. \A u \in Thread : ~HasMsg(u, n) /\ ~HasLive(u, n) /\ ~Busy(u, n)
    BY <1>2 DEF HeldInv, Single
  <1>4. sock'[n].thread = NoThread /\ \A m \in Fd \ {n} : sock'[m] = sock[m]
    BY <1>2, ResetDoes
  <1>5. acc'.pc \in {"close2", "idle"}
    BY DEF FiniAccepted, TypeOK
  <1> QED  BY <1>2, <1>3, <1>4, <1>5, AccStepKeeps DEF AccHolds

(* The accept thread passes its client socket on to the thread it belongs to. *)
LEMMA WritePipeHeld ==
  ASSUME TypeOK, Members, Members', HeldInv, WritePipe
  PROVE  HeldInv'
  <1>1. PICK n \in Fd : n = acc.fd
    BY DEF WritePipe, Members
  <1>2. /\ acc.pc = "pipe" /\ UNCHANGED <<sock, queue, epoll, wk>> /\ AccHolds(n)
        /\ sock[n].thread \in Thread
    BY <1>1 DEF WritePipe, AccHolds, HeldInv, Members
  <1>3. CASE acc' = [acc EXCEPT !.pc = "close1"] /\ UNCHANGED pipe
    <2>1. acc'.pc = "close1" /\ acc'.fd = acc.fd
      BY <1>3 DEF TypeOK
    <2> QED  BY <1>2, <1>3, <2>1, LettingGoKeeps DEF AccHolds
  <1>4. CASE ~(acc' = [acc EXCEPT !.pc = "close1"] /\ UNCHANGED pipe)
    <2>1. PICK t \in Thread : t = sock[n].thread
      BY <1>2
    <2>2. PICK msg : msg = [fd |-> n, seq |-> sock[n].seq]
      OBVIOUS
    <2>3. msg \in Msg /\ msg.fd = n
      BY <2>2, SocketTypes DEF TypeOK, Msg
    <2>4. /\ pipe' = [pipe EXCEPT ![t] = Append(@, msg)]
          /\ acc' = [acc EXCEPT !.pc = "idle", !.fd = NoFd]
      BY <1>1, <1>4, <2>1, <2>2 DEF WritePipe
    <2>5. acc'.pc = "idle"
      BY <2>4 DEF TypeOK
    <2>6. /\ Len(pipe[t]) \in Nat /\ Len(pipe'[t]) = Len(pipe[t]) + 1
          /\ \A i \in 1..Len(pipe[t]) : pipe'[t][i] = pipe[t][i]
          /\ pipe'[t][Len(pipe[t]) + 1] = msg
          /\ \A u \in Thread \ {t} : pipe'[u] = pipe[u]
      <3>1. pipe[t] \in Seq(Msg) /\ pipe'[t] = Append(pipe[t], msg)
            /\ \A u \in Thread \ {t} : pipe'[u] = pipe[u]
        BY <2>4 DEF TypeOK
      <3>2. PICK s \in Seq(Msg) : s = pipe[t]
        BY <3>1
      <3>3. /\ Len(s) \in Nat /\ Len(Append(s, msg)) = Len(s) + 1
            /\ \A i \in 1..Len(s) : Append(s, msg)[i] = s[i]
            /\ Append(s, msg)[Len(s) + 1] = msg
        BY <2>3, AppendProperties, LenProperties
      <3> QED  BY <3>1, <3>2, <3>3
    <2>7. \A i \in 1..Len(pipe'[t]) : i \in 1..Len(pipe[t]) \/ (i = Len(pipe[t]) + 1 /\ pipe'[t][i] = msg)
      BY <2>6
    <2>8. \A u \in Thread : ~HasMsg(u, n) /\ ~HasLive(u, n) /\ ~Busy(u, n)
      BY <1>2 DEF HeldInv, Single
    <2>9. \A u \in Thread, m \in Fd \ {n} : HasMsg(u, m)' => HasMsg(u, m)
      <3> SUFFICES ASSUME NEW u \in Thread, NEW m \in Fd \ {n}, HasMsg(u, m)' PROVE HasMsg(u, m)
        OBVIOUS
      <3>1. PICK i \in 1..Len(pipe'[u]) : pipe'[u][i].fd = m
        BY DEF HasMsg
      <3>2. i \in 1..Len(pipe[u]) /\ pipe'[u][i] = pipe[u][i]
        BY <2>3, <2>6, <2>7, <3>1
      <3> QED  BY <3>1, <3>2 DEF HasMsg
    <2>10. \A u \in Thread : \A m : /\ HasLive(u, m)' <=> HasLive(u, m)
                                    /\ Busy(u, m)' <=> Busy(u, m)
                                    /\ Live(u, m)' <=> Live(u, m)
      BY <1>2 DEF HasLive, Busy, Live
    <2>11. ASSUME NEW u \in Thread
           PROVE  \A i \in 1..Len(pipe'[u]) : sock'[pipe'[u][i].fd].thread = u
      <3>1. CASE u = t
        <4> SUFFICES ASSUME NEW i \in 1..Len(pipe'[t]) PROVE sock'[pipe'[t][i].fd].thread = t
          BY <3>1
        <4>1. CASE pipe'[t][i] = msg
          BY <1>2, <2>1, <2>3, <4>1
        <4>2. CASE i \in 1..Len(pipe[t])
          BY <1>2, <2>6, <4>2 DEF HeldInv
        <4> QED  BY <2>7, <4>1, <4>2
      <3>2. CASE u # t
        BY <1>2, <2>6, <3>2 DEF HeldInv
      <3> QED  BY <3>1, <3>2
    <2>12. ASSUME NEW u \in Thread
           PROVE  BusyOK(u)' /\ QueueOK(u)' /\ \A e \in queue[u] : Live(u, e)' => LiveOK(u, e)'
      <3>1. BusyOK(u)' /\ QueueOK(u)'
        BY <1>2 DEF HeldInv, BusyOK, QueueOK, EqualFd
      <3>2. \A e \in queue[u] : Live(u, e)' => LiveOK(u, e)'
        BY <1>2, <2>10 DEF HeldInv, LiveOK
      <3> QED  BY <3>1, <3>2
    <2>13. ASSUME NEW u \in Thread PROVE Single(u)'
      <3>1. \A m \in Fd : ~AccHolds(m)'
        BY <2>5 DEF AccHolds
      <3>2. \A i, j \in 1..Len(pipe'[u]) : pipe'[u][i].fd = pipe'[u][j].fd => i = j
        <4>1. CASE u = t
          <5>1. \A i \in 1..Len(pipe[t]) : pipe[t][i].fd # n
            BY <2>8 DEF HasMsg
          <5>2. \A i, j \in 1..Len(pipe[t]) : pipe[t][i].fd = pipe[t][j].fd => i = j
            BY DEF HeldInv, Single
          <5>3. \A i \in 1..Len(pipe'[t]) :
                   \/ i \in 1..Len(pipe[t]) /\ pipe'[t][i].fd = pipe[t][i].fd /\ pipe'[t][i].fd # n
                   \/ i = Len(pipe[t]) + 1 /\ pipe'[t][i].fd = n
            BY <2>3, <2>6, <2>7, <5>1
          <5>4. SUFFICES ASSUME NEW i \in 1..Len(pipe'[t]), NEW j \in 1..Len(pipe'[t]),
                                pipe'[t][i].fd = pipe'[t][j].fd
                         PROVE  i = j
            BY <4>1
          <5> QED  BY <5>2, <5>3, <5>4
        <4>2. CASE u # t
          BY <2>6, <4>2 DEF HeldInv, Single
        <4> QED  BY <4>1, <4>2
      <3>3. \A i \in 1..Len(pipe'[u]) : ~HasLive(u, pipe[u][i].fd)' /\ ~Busy(u, pipe[u][i].fd)'
        <4> SUFFICES ASSUME NEW m \in Fd, HasMsg(u, m)' PROVE ~HasLive(u, m)' /\ ~Busy(u, m)'
          BY DEF HasMsg, Members
        <4>1. CASE m = n
          BY <2>8, <2>10, <4>1
        <4>2. CASE m # n
          BY <2>9, <2>10, <4>2, MsgHeldAlone
        <4> QED  BY <4>1, <4>2
      <3>4. \A e \in queue[u] : Live(u, e)' => ~Busy(u, e.sock)'
        BY <2>10 DEF HeldInv, Single
      <3>5. \A e, f \in queue[u] : Live(u, e)' /\ Live(u, f)' /\ e.sock = f.sock => e = f
        BY <2>10 DEF HeldInv, Single
      <3> QED  BY <1>2, <3>1, <3>2, <3>3, <3>4, <3>5 DEF Single
    <2> QED  BY <1>2, <2>5, <2>11, <2>12, <2>13 DEF HeldInv
  <1> QED  BY <1>3, <1>4 DEF WritePipe

(* The invariant holds at first ... *)
LEMMA InitHeld ==
  ASSUME Init, Members
  PROVE  HeldInv
  <1>1. \A n \in Fd : ~sock[n].fd => sock[n].thread = NoThread
    BY DEF Init
  <1>2. acc.pc = "idle"
    BY DEF Init
  <1>3. ASSUME NEW t \in Thread
        PROVE  wk[t].pc = "idle" /\ queue[t] = {} /\ epoll[t] = {} /\ Len(pipe[t]) = 0
    BY DEF Init
  <1>4. \A t \in Thread : BusyOK(t) /\ Single(t) /\ QueueOK(t)
    BY <1>2, <1>3 DEF BusyOK, Single, QueueOK, AccHolds
  <1> QED  BY <1>1, <1>2, <1>3, <1>4 DEF HeldInv

(* ... and every step keeps it, whatever fails. *)
LEMMA NextHeld ==
  ASSUME TypeInv, TypeInv', HeldInv, [Next]_vars
  PROVE  HeldInv'
  <1>1. TypeOK /\ Members /\ Members'
    <2>1. TypeInv' => Members'
      BY TypeGivesMembers, PTL
    <2> QED  BY <2>1, TypeGivesMembers DEF TypeInv
  <1>2. CASE UNCHANGED vars
    BY <1>1, <1>2, LettingGoKeeps DEF vars, AccHolds
  <1>3. CASE AcceptThread
    <2>1. CASE Accept
      <3>1. acc'.pc = "init" /\ UNCHANGED <<sock, queue, pipe, epoll, wk>>
        BY <2>1 DEF Accept, TypeOK
      <3> QED  BY <1>1, <3>1, LettingGoKeeps DEF AccHolds
    <2>2. CASE InitAborts
      <3>1. UNCHANGED <<sock, queue, pipe, epoll, wk, acc>>
        BY <2>2 DEF InitAborts
      <3> QED  BY <1>1, <3>1, LettingGoKeeps DEF AccHolds
    <2>3. CASE CloseClientFd \/ CloseAccepted
      <3>1. /\ acc.fd \in Fd /\ CloseFile(acc.fd) /\ UNCHANGED <<sock, queue, pipe, wk>>
            /\ acc'.pc \in {"fini", "idle"} /\ (acc'.pc = "fini" => acc.pc = "close1" /\ acc'.fd = acc.fd)
        BY <1>1, <2>3 DEF CloseClientFd, CloseAccepted, Members, TypeOK
      <3>2. \A u \in Thread : epoll'[u] \subseteq epoll[u]
        BY <1>1, <3>1, CloseLetsGo
      <3> QED  BY <1>1, <3>1, <3>2, LettingGoKeeps DEF AccHolds
    <2> QED
      BY <1>1, <1>3, <2>1, <2>2, <2>3, InitSocketHeld, WritePipeHeld, FiniAcceptedHeld DEF AcceptThread
  <1>4. ASSUME NEW t \in Thread, ProcessThread(t) PROVE HeldInv'
    BY <1>1, <1>4, Kinds, ReadsPipeHeld, HandlesHeld, CallsHeld, ReleasesHeld, AnswersHeld
  <1> QED  BY <1>2, <1>3, <1>4 DEF Next

(* So it always holds. *)
LEMMA HeldCorrect == Spec => [](TypeInv /\ HeldInv)
  <1>1. Init => TypeInv /\ HeldInv
    BY InitType, TypeGivesMembers, InitHeld
  <1>2. TypeInv /\ HeldInv /\ [Next]_vars => (TypeInv /\ HeldInv)'
    BY NextType, NextHeld
  <1> QED  BY <1>1, <1>2, PTL DEF Spec

(* A handler that runs finds its client socket in use, and a service handler its api
   (HandlersFindClient), whatever system calls fail and how often: _get_thread_no
   never throws out of a handler and no NULL api is followed. *)
THEOREM HandlersFindTheirClient == Spec => []HandlersFindClient
  <1>1. TypeInv /\ HeldInv => HandlersFindClient
    <2> SUFFICES ASSUME TypeInv, HeldInv PROVE HandlersFindClient
      OBVIOUS
    <2>1. \A t \in Thread : t # NoThread
      BY DEF Thread, NoThread
    <2>2. ASSUME NEW t \in Thread, NEW e \in queue[t], e.fd \in epoll[t]
          PROVE  sock[e.sock].thread # NoThread /\ (e.what = "service" => sock[e.sock].api # NoApi)
      BY <2>1, <2>2 DEF HeldInv, Live, LiveOK
    <2>3. ASSUME NEW t \in Thread, wk[t].pc \notin {"idle", "close"}
          PROVE  sock[wk[t].sock].thread # NoThread
      BY <2>1, <2>3 DEF HeldInv, BusyOK
    <2> QED  BY <2>2, <2>3 DEF HandlersFindClient
  <1> QED  BY <1>1, HeldCorrect, PTL

----------------------------------------------------------------------------
(* Nothing is torn, and no api is to be given back once more. *)
Whole == ~torn /\ \A t \in Thread : wk[t].pc # "again"

(* Without failures nothing is ever torn ... *)
LEMMA StaysWhole ==
  ASSUME NoFaults, TypeInv, CarryInv, Whole, [Next]_vars
  PROVE  Whole'
  <1>1. TypeOK /\ Members /\ ~torn
    BY TypeGivesMembers DEF TypeInv, Whole
  <1>2. \A t, e : NotAdded(t, e) => torn' = torn
    BY DEF NoFaults, NotAdded, Fault
  <1>3. CASE UNCHANGED vars
    BY <1>3 DEF vars, Whole
  <1>4. CASE AcceptThread
    <2>1. ~CloseAccepted
      BY DEF CloseAccepted, CarryInv, AccInv
    <2>2. UNCHANGED <<torn, wk>>
      BY <1>4, <2>1
      DEF AcceptThread, Accept, InitSocket, InitAborts, WritePipe, CloseClientFd, FiniAccepted
    <2> QED  BY <2>2 DEF Whole
  <1>5. ASSUME NEW t \in Thread, ProcessThread(t) PROVE Whole'
    <2>1. ~FreeAgain(t)
      BY DEF FreeAgain, Whole
    <2>2. torn' = torn
      <3>1. CASE ReadsPipe(t)
        BY <1>2, <3>1 DEF ReadsPipe, StartReading, RefuseClient, Added
      <3>2. CASE Handles(t)
        BY <3>2 DEF Handles, Handler, Received, Answered, ClientFails, ServiceAnswers, ServiceForeign, ServiceFails
      <3>3. CASE Calls(t)
        BY <1>2, <3>3 DEF Calls, CallServer, NoApiToCall, Connect, ConnectFails, Register, Added
      <3>4. CASE Releases(t)
        BY <2>1, <3>4 DEF Releases, GiveBack, LeaveClient, ReleaseApi
      <3>5. CASE Answers(t)
        BY <1>2, <3>5 DEF Answers, Reply, WriteError, Fini, CloseSocket, Added, NoFaults, Fault
      <3> QED  BY <1>5, <3>1, <3>2, <3>3, <3>4, <3>5, Kinds
    <2>3. wk'[t].pc # "again"
      <3>1. CASE Reply(t)
        <4>1. ~NotAdded(sock[wk[t].sock].thread, SendEvent(wk[t].sock))
          BY <1>1, <2>2, <3>1, AnswerAdds DEF Reply
        <4> QED  BY <1>1, <3>1, <4>1, ReturnDoes DEF Reply, NoFaults, Fault
      <3>2. wk[t].pc # "again"
        BY DEF Whole
      <3> QED  BY <1>1, <1>5, <3>1, <3>2, WkChanges
    <2> QED  BY <1>1, <1>5, <2>2, <2>3, WkChanges DEF Whole
  <1> QED  BY <1>3, <1>4, <1>5 DEF Next

(* ... and the two invariants always hold. *)
LEMMA WholeCorrect ==
  ASSUME NoFaults
  PROVE  Spec => [](TypeInv /\ CarryInv)
  <1>1. AcceptsSucceed
    BY DEF NoFaults, AcceptsSucceed
  <1>2. Spec => [](TypeInv /\ (torn \/ CarryInv))
    BY <1>1, CarryCorrect
  <1>3. Init => Whole
    BY DEF Init, Whole
  <1>4. TypeInv /\ (torn \/ CarryInv) /\ Whole /\ [Next]_vars => Whole'
    BY StaysWhole DEF Whole
  <1>5. TypeInv /\ (torn \/ CarryInv) /\ Whole => TypeInv /\ CarryInv
    BY DEF Whole
  <1> QED  BY <1>2, <1>3, <1>4, <1>5, PTL DEF Spec

(* Without failing system calls each connection goes through the stages of ConnLife.
   The mapping of RelayServerProps, with the variables it reads as arguments.  *)
Numbers(f, k) == {n \in Fd : f[n] = ClientFile(k)}
Phase(o) ==
    CASE o.status = "READ"             -> "reading"
      [] o.status = "PROCESS"          -> "processing"
      [] o.status \in {"SEND", "OVER"} -> "answering"
      [] OTHER                         -> "closing"
SocketStage(o, k) == IF o.seq # k THEN "accepted" ELSE Phase(o)
StageOf(f, s, q, k) ==
    IF Numbers(f, k) # {} THEN SocketStage(s[CHOOSE n \in Numbers(f, k) : TRUE], k)
    ELSE IF k <= q \/ Numbers(f, k) # {} THEN "closed" ELSE "new"
ServedBy(o, k) == IF o.seq = k THEN o.thread ELSE NoThread
ServerOf(f, s, k) ==
    IF \E n \in Numbers(f, k) : s[n].seq = k
    THEN s[CHOOSE n \in Numbers(f, k) : TRUE].thread ELSE NoThread
LifeStage  == [k \in 1..MaxAccepts |-> StageOf(file, sock, acc.seq, k)]
LifeServer == [k \in 1..MaxAccepts |-> ServerOf(file, sock, k)]

(* A connection has one number, under its own sequence number as soon as init gave it
   to the socket object.                                                       *)
ConnInv ==
    /\ \A m, n \in Fd, k \in 1..MaxAccepts :
          file[m] = ClientFile(k) /\ file[n] = ClientFile(k) => m = n
    /\ \A n \in Fd, k \in 1..MaxAccepts :
          file[n] = ClientFile(k) =>
             IF k <= acc.seq THEN sock[n].seq = k
             ELSE acc.pc = "init" /\ acc.fd = n /\ k = acc.seq + 1

(* The stage and the thread of a connection that has one number, or none. *)
LEMMA HeldMaps ==
  ASSUME NEW f, NEW s, NEW q, NEW k, NEW n \in Fd, f[n] = ClientFile(k),
         \A m \in Fd : f[m] = ClientFile(k) => m = n
  PROVE  /\ StageOf(f, s, q, k) = SocketStage(s[n], k)
         /\ ServerOf(f, s, k) = ServedBy(s[n], k)
  <1>1. Numbers(f, k) = {n}
    BY DEF Numbers
  <1>2. (CHOOSE m \in {n} : TRUE) = n
    OBVIOUS
  <1>3. (\E m \in {n} : s[m].seq = k) <=> s[n].seq = k
    OBVIOUS
  <1> QED  BY <1>1, <1>2, <1>3 DEF StageOf, ServerOf, ServedBy

(* (none) *)
LEMMA FreeMaps ==
  ASSUME NEW f, NEW s, NEW q, NEW k, \A m \in Fd : f[m] # ClientFile(k)
  PROVE  /\ StageOf(f, s, q, k) = IF k <= q THEN "closed" ELSE "new"
         /\ ServerOf(f, s, k) = NoThread
  <1>1. Numbers(f, k) = {}
    BY DEF Numbers
  <1> QED  BY <1>1 DEF StageOf, ServerOf

(* The steps of ConnLife under the mapping. *)
LEMMA LifeMaps ==
  /\ LifeStage' = LifeStage /\ LifeServer' = LifeServer => UNCHANGED Life!lifeVars
  /\ \A k \in 1..MaxAccepts :
        /\ LifeStage[k] = "new" /\ LifeStage' = [LifeStage EXCEPT ![k] = "accepted"]
              /\ LifeServer' = LifeServer => Life!Accept(k)
        /\ LifeStage[k] = "reading" /\ LifeStage' = [LifeStage EXCEPT ![k] = "processing"]
              /\ LifeServer' = LifeServer => Life!Process(k)
        /\ LifeStage[k] \in {"reading", "processing"}
              /\ LifeStage' = [LifeStage EXCEPT ![k] = "answering"]
              /\ LifeServer' = LifeServer => Life!Answer(k)
        /\ LifeStage[k] = "answering" /\ LifeStage' = [LifeStage EXCEPT ![k] = "closing"]
              /\ LifeServer' = [LifeServer EXCEPT ![k] = NoThread] => Life!Release(k)
        /\ LifeStage[k] = "closing" /\ LifeStage' = [LifeStage EXCEPT ![k] = "closed"]
              /\ LifeServer' = LifeServer => Life!Close(k)
        /\ \A t \in Thread :
              LifeStage[k] = "accepted" /\ LifeStage' = [LifeStage EXCEPT ![k] = "reading"]
              /\ LifeServer' = [LifeServer EXCEPT ![k] = t] => Life!Assign(k, t)
  BY DEF LifeStage, LifeServer, StageOf, ServerOf, SocketStage, Phase, Numbers,
         Life!lifeVars, Life!Step, Life!Accept, Life!Process, Life!Answer, Life!Release,
         Life!Close, Life!Assign, FdOf, StageAt, Begun

(* A step that changes no client's file, stage or thread. *)
SameClients ==
    \A n \in Fd, k \in 1..MaxAccepts : file'[n] = ClientFile(k) <=> file[n] = ClientFile(k)
Quiet ==
    /\ SameClients /\ acc'.seq = acc.seq /\ (acc.pc = "init" => acc' = acc)
    /\ \A n \in Fd : /\ sock'[n].seq = sock[n].seq /\ sock'[n].thread = sock[n].thread
                      /\ Phase(sock'[n]) = Phase(sock[n])

(* Such a step is a stutter of ConnLife. *)
LEMMA QuietStutters ==
  ASSUME ConnInv, Quiet
  PROVE  ConnInv' /\ UNCHANGED Life!lifeVars
  <1>1. ConnInv'
    BY DEF ConnInv, Quiet, SameClients
  <1>2. \A k \in 1..MaxAccepts : Numbers(file', k) = Numbers(file, k)
    BY DEF Quiet, SameClients, Numbers
  <1>3. ASSUME NEW k \in 1..MaxAccepts
        PROVE  /\ StageOf(file', sock', acc'.seq, k) = StageOf(file, sock, acc.seq, k)
               /\ ServerOf(file', sock', k) = ServerOf(file, sock, k)
    <2>1. CASE \A m \in Fd : file[m] # ClientFile(k)
      <3>1. \A m \in Fd : file'[m] # ClientFile(k)
        BY <2>1 DEF Quiet, SameClients
      <3>2. /\ StageOf(file, sock, acc.seq, k) = IF k <= acc.seq THEN "closed" ELSE "new"
            /\ ServerOf(file, sock, k) = NoThread
        BY <2>1, FreeMaps
      <3>3. /\ StageOf(file', sock', acc'.seq, k) = IF k <= acc'.seq THEN "closed" ELSE "new"
            /\ ServerOf(file', sock', k) = NoThread
        BY <3>1, FreeMaps
      <3>4. acc'.seq = acc.seq
        BY DEF Quiet
      <3> QED  BY <3>2, <3>3, <3>4
    <2>2. CASE \E m \in Fd : file[m] = ClientFile(k)
      <3>1. PICK n \in Fd : file[n] = ClientFile(k)
        BY <2>2
      <3>2. \A m \in Fd : file[m] = ClientFile(k) => m = n
        BY <3>1 DEF ConnInv
      <3>3. file'[n] = ClientFile(k) /\ \A m \in Fd : file'[m] = ClientFile(k) => m = n
        BY <3>1, <3>2 DEF Quiet, SameClients
      <3>4. SocketStage(sock'[n], k) = SocketStage(sock[n], k) /\ ServedBy(sock'[n], k) = ServedBy(sock[n], k)
        BY DEF Quiet, SocketStage, ServedBy
      <3> QED  BY <3>1, <3>2, <3>3, <3>4, HeldMaps
    <2> QED  BY <2>1, <2>2
  <1>4. LifeStage' = LifeStage /\ LifeServer' = LifeServer
    BY <1>3 DEF LifeStage, LifeServer
  <1> QED  BY <1>1, <1>4, LifeMaps

(* A step that changes the stage and the thread of connection k only. *)
LEMMA OneMoves ==
  ASSUME NEW k \in 1..MaxAccepts, NEW x, NEW y,
         StageOf(file', sock', acc'.seq, k) = x, ServerOf(file', sock', k) = y,
         \A j \in 1..MaxAccepts \ {k} :
            /\ StageOf(file', sock', acc'.seq, j) = StageOf(file, sock, acc.seq, j)
            /\ ServerOf(file', sock', j) = ServerOf(file, sock, j)
  PROVE  /\ LifeStage' = [LifeStage EXCEPT ![k] = x] /\ LifeServer' = [LifeServer EXCEPT ![k] = y]
         /\ LifeStage[k] = StageOf(file, sock, acc.seq, k)
         /\ (y = ServerOf(file, sock, k) => LifeServer' = LifeServer)
  BY DEF LifeStage, LifeServer

(* The connections that the step of number n is not about. *)
LEMMA OthersStay ==
  ASSUME ConnInv, NEW n \in Fd, NEW j \in 1..MaxAccepts,
         file[n] # ClientFile(j), file'[n] # ClientFile(j), j <= acc'.seq <=> j <= acc.seq,
         \A m \in Fd \ {n} : sock'[m] = sock[m] /\ file'[m] = file[m]
  PROVE  /\ StageOf(file', sock', acc'.seq, j) = StageOf(file, sock, acc.seq, j)
         /\ ServerOf(file', sock', j) = ServerOf(file, sock, j)
  <1>1. CASE \A m \in Fd : file[m] # ClientFile(j)
    <2>1. \A m \in Fd : file'[m] # ClientFile(j)
      BY <1>1
    <2> QED  BY <1>1, <2>1, FreeMaps
  <1>2. CASE \E m \in Fd : file[m] = ClientFile(j)
    <2>1. PICK m \in Fd : file[m] = ClientFile(j)
      BY <1>2
    <2>2. \A l \in Fd : file[l] = ClientFile(j) => l = m
      BY <2>1 DEF ConnInv
    <2>3. file'[m] = ClientFile(j) /\ sock'[m] = sock[m] /\ \A l \in Fd : file'[l] = ClientFile(j) => l = m
      BY <2>1, <2>2
    <2> QED  BY <2>1, <2>2, <2>3, HeldMaps
  <1> QED  BY <1>1, <1>2

(* accept: a new connection. *)
LEMMA AcceptMoves ==
  ASSUME TypeInv, Members, CarryInv, ConnInv, Accept
  PROVE  ConnInv' /\ Life!LifeNext
  <1>1. PICK n \in Fd : AcceptFd(n, acc.seq + 1) /\ acc' = [acc EXCEPT !.pc = "init", !.fd = n]
    BY DEF Accept
  <1>2. acc'.pc = "init" /\ acc'.fd = n /\ acc'.seq = acc.seq /\ acc.pc = "idle" /\ sock' = sock
        /\ acc.seq < MaxAccepts /\ acc.seq \in Nat
    <2>1. acc'.pc = "init" /\ acc'.fd = n /\ acc'.seq = acc.seq
      BY <1>1 DEF TypeInv, TypeOK
    <2> QED  BY <2>1 DEF Accept, Members
  <1>3. /\ file[n] = Closed /\ file'[n] = ClientFile(acc.seq + 1)
        /\ \A m \in Fd \ {n} : file'[m] = file[m]
    BY <1>1 DEF AcceptFd, TypeInv, TypeOK
  <1>4. PICK k \in 1..MaxAccepts : k = acc.seq + 1
    BY <1>2
  <1>5. \A m \in Fd : file[m] # ClientFile(k)
    BY <1>2, <1>4 DEF ConnInv
  <1>6. \A m \in Fd : file'[m] = ClientFile(k) => m = n
    BY <1>3, <1>5
  <1>7. \A j \in 1..MaxAccepts \ {k} : file[n] # ClientFile(j) /\ file'[n] # ClientFile(j)
    BY <1>3, <1>4, FileKinds
  <1>8. ConnInv'
    <2>1. \A m, l \in Fd, j \in 1..MaxAccepts :
             file'[m] = ClientFile(j) /\ file'[l] = ClientFile(j) => m = l
      BY <1>3, <1>6, <1>7 DEF ConnInv
    <2>2. ASSUME NEW m \in Fd, NEW j \in 1..MaxAccepts, file'[m] = ClientFile(j)
          PROVE  IF j <= acc'.seq THEN sock'[m].seq = j
                 ELSE acc'.pc = "init" /\ acc'.fd = m /\ j = acc'.seq + 1
      <3>1. CASE m = n
        BY <1>2, <1>4, <1>7, <2>2, <3>1
      <3>2. CASE m # n
        BY <1>2, <1>3, <2>2, <3>2 DEF ConnInv
      <3> QED  BY <3>1, <3>2
    <2> QED  BY <2>1, <2>2 DEF ConnInv
  <1>9. sock[n].seq # k
    BY <1>2, <1>4 DEF CarryInv, SockOK, Members
  <1>10. /\ StageOf(file', sock', acc'.seq, k) = "accepted"
         /\ ServerOf(file', sock', k) = NoThread
    <2>1. SocketStage(sock'[n], k) = "accepted" /\ ServedBy(sock'[n], k) = NoThread
      BY <1>2, <1>9 DEF SocketStage, ServedBy
    <2> QED  BY <1>3, <1>4, <1>6, <2>1, HeldMaps
  <1>11. StageOf(file, sock, acc.seq, k) = "new" /\ ServerOf(file, sock, k) = NoThread
    <2>1. ~(k <= acc.seq)
      BY <1>2, <1>4
    <2> QED  BY <1>5, <2>1, FreeMaps
  <1>12. \A j \in 1..MaxAccepts \ {k} :
            /\ StageOf(file', sock', acc'.seq, j) = StageOf(file, sock, acc.seq, j)
            /\ ServerOf(file', sock', j) = ServerOf(file, sock, j)
    BY <1>2, <1>3, <1>7, OthersStay
  <1>13. Life!Accept(k)
    BY <1>10, <1>11, <1>12, OneMoves, LifeMaps
  <1> QED  BY <1>8, <1>13 DEF Life!LifeNext

(* init: it is a process thread's, with the sequence number it was accepted under. *)
LEMMA InitSocketMoves ==
  ASSUME NoFaults, TypeInv, Members, CarryInv, ConnInv, InitSocket
  PROVE  ConnInv' /\ Life!LifeNext
  <1>1. acc.pc = "init" /\ file' = file
    BY DEF InitSocket
  <1>2. PICK n \in Fd : n = acc.fd
    BY <1>1 DEF Members
  <1>3. /\ sock' = [sock EXCEPT ![n] = [fd |-> TRUE, status |-> "READ", thread |-> acc.next,
                                        seq |-> acc.seq + 1, api |-> sock[n].api]]
        /\ acc' = [acc EXCEPT !.pc = "pipe", !.seq = @ + 1, !.next = NextThread]
    BY <1>2 DEF InitSocket, NoFaults, Fault
  <1>4. PICK k \in 1..MaxAccepts : k = acc.seq + 1
    BY <1>1 DEF TypeInv, TypeOK, PCsFit, AccFit
  <1>5. /\ sock'[n].status = "READ" /\ sock'[n].thread = acc.next /\ sock'[n].seq = k
        /\ \A m \in Fd \ {n} : sock'[m] = sock[m]
    BY <1>3, <1>4 DEF TypeInv, TypeOK
  <1>6. acc'.seq = k /\ acc.next \in Thread /\ acc.seq \in Nat
    BY <1>3, <1>4 DEF TypeInv, TypeOK
  <1>7. file[n] = ClientFile(k) /\ \A m \in Fd : file[m] = ClientFile(k) => m = n
    BY <1>1, <1>2, <1>4 DEF CarryInv, AccInv, ConnInv
  <1>8. \A j \in 1..MaxAccepts \ {k} : file[n] # ClientFile(j) /\ (j <= acc'.seq <=> j <= acc.seq)
    BY <1>4, <1>6, <1>7, FileKinds
  <1>9. ConnInv'
    <2>1. ASSUME NEW m \in Fd, NEW j \in 1..MaxAccepts, file[m] = ClientFile(j)
          PROVE  j <= acc'.seq /\ sock'[m].seq = j
      <3>1. CASE j = k
        BY <1>5, <1>6, <1>7, <2>1, <3>1
      <3>2. CASE j # k
        BY <1>4, <1>5, <1>8, <2>1, <3>2 DEF ConnInv
      <3> QED  BY <3>1, <3>2
    <2> QED  BY <1>1, <2>1 DEF ConnInv
  <1>10. sock[n].seq # k
    BY <1>4, <1>6 DEF CarryInv, SockOK, Members
  <1>11. StageOf(file, sock, acc.seq, k) = "accepted"
    <2>1. SocketStage(sock[n], k) = "accepted"
      BY <1>10 DEF SocketStage
    <2> QED  BY <1>7, <2>1, HeldMaps
  <1>12. /\ StageOf(file', sock', acc'.seq, k) = "reading"
         /\ ServerOf(file', sock', k) = acc.next
    <2>1. SocketStage(sock'[n], k) = "reading" /\ ServedBy(sock'[n], k) = acc.next
      BY <1>5 DEF SocketStage, Phase, ServedBy
    <2> QED  BY <1>1, <1>7, <2>1, HeldMaps
  <1>13. \A j \in 1..MaxAccepts \ {k} :
            /\ StageOf(file', sock', acc'.seq, j) = StageOf(file, sock, acc.seq, j)
            /\ ServerOf(file', sock', j) = ServerOf(file, sock, j)
    BY <1>1, <1>5, <1>8, OthersStay
  <1>14. PICK t \in Thread : t = acc.next
    BY <1>6
  <1>15. /\ LifeStage' = [LifeStage EXCEPT ![k] = "reading"]
         /\ LifeServer' = [LifeServer EXCEPT ![k] = t] /\ LifeStage[k] = "accepted"
    BY <1>11, <1>12, <1>13, <1>14, OneMoves
  <1>16. Life!Assign(k, t)
    BY <1>15, LifeMaps
  <1> QED  BY <1>9, <1>16 DEF Life!LifeNext

(* A step for an open client socket moves its connection. *)
LEMMA SocketMoves ==
  ASSUME TypeInv, Members, CarryInv, ConnInv, NEW n \in Fd, sock[n].fd, UNCHANGED <<file, acc>>,
         sock'[n].seq = sock[n].seq, \A m \in Fd \ {n} : sock'[m] = sock[m]
  PROVE  /\ ConnInv'
         /\ \E k \in 1..MaxAccepts :
               /\ LifeStage[k] = Phase(sock[n])
               /\ LifeStage' = [LifeStage EXCEPT ![k] = Phase(sock'[n])]
               /\ LifeServer' = [LifeServer EXCEPT ![k] = sock'[n].thread]
               /\ sock'[n].thread = sock[n].thread => LifeServer' = LifeServer
  <1>1. file[n] = ClientFile(sock[n].seq) /\ file[n] \in File
    BY DEF TypeInv, TypeOK, CarryInv, SockOK
  <1>2. PICK k \in 1..MaxAccepts : k = sock[n].seq
    BY <1>1, FileKinds DEF File
  <1>3. file[n] = ClientFile(k) /\ \A m \in Fd : file[m] = ClientFile(k) => m = n
    BY <1>1, <1>2 DEF ConnInv
  <1>4. ConnInv'
    BY DEF ConnInv
  <1>5. /\ SocketStage(sock[n], k) = Phase(sock[n]) /\ ServedBy(sock[n], k) = sock[n].thread
        /\ SocketStage(sock'[n], k) = Phase(sock'[n]) /\ ServedBy(sock'[n], k) = sock'[n].thread
    BY <1>2 DEF SocketStage, ServedBy
  <1>6. /\ StageOf(file, sock, acc.seq, k) = Phase(sock[n])
        /\ ServerOf(file, sock, k) = sock[n].thread
        /\ StageOf(file', sock', acc'.seq, k) = Phase(sock'[n])
        /\ ServerOf(file', sock', k) = sock'[n].thread
    BY <1>3, <1>5, HeldMaps
  <1>7. \A j \in 1..MaxAccepts \ {k} :
            /\ StageOf(file', sock', acc'.seq, j) = StageOf(file, sock, acc.seq, j)
            /\ ServerOf(file', sock', j) = ServerOf(file, sock, j)
    <2>1. \A j \in 1..MaxAccepts \ {k} : file[n] # ClientFile(j) /\ file'[n] # ClientFile(j)
      BY <1>3, FileKinds
    <2> QED  BY <2>1, OthersStay
  <1> QED  BY <1>4, <1>6, <1>7, OneMoves

(* The number of a released socket is closed. *)
LEMMA CloseMoves ==
  ASSUME TypeInv, Members, CarryInv, ConnInv, NEW t \in Thread, CloseSocket(t)
  PROVE  ConnInv' /\ Life!LifeNext
  <1>1. wk[t].pc = "close" /\ UNCHANGED <<sock, acc>>
    BY DEF CloseSocket
  <1>2. PICK n \in Fd : n = wk[t].sock
    BY <1>1, WorkerCarries
  <1>3. /\ ~sock[n].fd /\ file[n] = ClientFile(sock[n].seq) /\ sock[n].seq <= acc.seq
        /\ sock[n].thread = NoThread /\ sock[n].status = "FREE" /\ file[n] \in File
    BY <1>1, <1>2 DEF CarryInv, WorkOK, SockOK, TypeInv, TypeOK
  <1>4. PICK k \in 1..MaxAccepts : k = sock[n].seq
    BY <1>3, FileKinds DEF File
  <1>5. file[n] = ClientFile(k) /\ \A m \in Fd : file[m] = ClientFile(k) => m = n
    BY <1>3, <1>4 DEF ConnInv
  <1>6. file'[n] = Closed /\ \A m \in Fd \ {n} : file'[m] = file[m]
    BY <1>2, CloseFileDoes DEF CloseSocket, TypeInv
  <1>7. \A j \in 1..MaxAccepts : file'[n] # ClientFile(j) /\ (j # k => file[n] # ClientFile(j))
    BY <1>5, <1>6, FileKinds
  <1>8. ConnInv'
    BY <1>1, <1>6, <1>7 DEF ConnInv
  <1>9. StageOf(file, sock, acc.seq, k) = "closing" /\ ServerOf(file, sock, k) = NoThread
    <2>1. SocketStage(sock[n], k) = "closing" /\ ServedBy(sock[n], k) = NoThread
      BY <1>3, <1>4 DEF SocketStage, Phase, ServedBy
    <2> QED  BY <1>5, <2>1, HeldMaps
  <1>10. StageOf(file', sock', acc'.seq, k) = "closed" /\ ServerOf(file', sock', k) = NoThread
    <2>1. k <= acc'.seq /\ \A m \in Fd : file'[m] # ClientFile(k)
      BY <1>1, <1>3, <1>4, <1>5, <1>6, <1>7
    <2> QED  BY <2>1, FreeMaps
  <1>11. \A j \in 1..MaxAccepts \ {k} :
            /\ StageOf(file', sock', acc'.seq, j) = StageOf(file, sock, acc.seq, j)
            /\ ServerOf(file', sock', j) = ServerOf(file, sock, j)
    BY <1>1, <1>6, <1>7, OthersStay
  <1>12. /\ LifeStage' = [LifeStage EXCEPT ![k] = "closed"] /\ LifeServer' = LifeServer
         /\ LifeStage[k] = "closing"
    BY <1>9, <1>10, <1>11, OneMoves
  <1>13. Life!Close(k)
    BY <1>12, LifeMaps
  <1> QED  BY <1>8, <1>13 DEF Life!LifeNext

(* The answer, the error and the release. *)
LEMMA AnswersMove ==
  ASSUME NoFaults, TypeInv, Members, CarryInv, ConnInv, NEW t \in Thread, Answers(t)
  PROVE  ConnInv' /\ Life!LifeNext
  <1>1. wk[t].pc # "idle"
    BY DEF Answers, Reply, WriteError, Fini, CloseSocket
  <1>2. PICK n \in Fd : n = wk[t].sock
    BY <1>1, WorkerCarries
  <1>3. WorkOK(t) /\ TypeOK
    BY DEF CarryInv, TypeInv
  <1>4. CASE Reply(t) \/ WriteError(t)
    <2>1. /\ sock' = [sock EXCEPT ![n].status = "SEND"] /\ UNCHANGED <<file, acc>>
          /\ sock[n].fd /\ sock[n].status \in {"READ", "PROCESS"}
      BY <1>2, <1>3, <1>4 DEF Reply, WriteError, WorkOK, NoFaults, Fault
    <2>2. /\ sock'[n].thread = sock[n].thread /\ sock'[n].status = "SEND" /\ sock'[n].seq = sock[n].seq
          /\ \A m \in Fd \ {n} : sock'[m] = sock[m]
      BY <1>3, <2>1, StatusDoes
    <2>3. Phase(sock[n]) \in {"reading", "processing"} /\ Phase(sock'[n]) = "answering"
      BY <2>1, <2>2 DEF Phase
    <2>4. PICK k \in 1..MaxAccepts :
             /\ LifeStage[k] = Phase(sock[n]) /\ LifeStage' = [LifeStage EXCEPT ![k] = Phase(sock'[n])]
             /\ LifeServer' = LifeServer
      BY <2>1, <2>2, SocketMoves
    <2>5. Life!Answer(k)
      BY <2>3, <2>4, LifeMaps
    <2>6. ConnInv'
      BY <2>1, <2>2, SocketMoves
    <2> QED  BY <2>5, <2>6 DEF Life!LifeNext
  <1>5. CASE Fini(t)
    <2>1. /\ sock' = [sock EXCEPT ![n] = Reset(@)] /\ UNCHANGED <<file, acc>>
          /\ sock[n].fd /\ sock[n].status \in {"SEND", "OVER"}
      BY <1>2, <1>3, <1>5 DEF Fini, WorkOK
    <2>2. /\ sock'[n].thread = NoThread /\ sock'[n].status = "FREE" /\ sock'[n].seq = sock[n].seq
          /\ \A m \in Fd \ {n} : sock'[m] = sock[m]
      BY <1>3, <2>1, ResetDoes
    <2>3. Phase(sock[n]) = "answering" /\ Phase(sock'[n]) = "closing"
      BY <2>1, <2>2 DEF Phase
    <2>4. PICK k \in 1..MaxAccepts :
             /\ LifeStage[k] = Phase(sock[n]) /\ LifeStage' = [LifeStage EXCEPT ![k] = Phase(sock'[n])]
             /\ LifeServer' = [LifeServer EXCEPT ![k] = sock'[n].thread]
      BY <2>1, <2>2, SocketMoves
    <2>5. Life!Release(k)
      BY <2>2, <2>3, <2>4, LifeMaps
    <2>6. ConnInv'
      BY <2>1, <2>2, SocketMoves
    <2> QED  BY <2>5, <2>6 DEF Life!LifeNext
  <1>6. CASE CloseSocket(t)
    BY <1>6, CloseMoves
  <1> QED  BY <1>4, <1>5, <1>6 DEF Answers

(* The handlers of events: only a complete request moves its connection. *)
LEMMA HandlesMove ==
  ASSUME TypeInv, Members, CarryInv, ConnInv, NEW t \in Thread, Handles(t)
  PROVE  ConnInv' /\ (Life!LifeNext \/ UNCHANGED Life!lifeVars)
  <1>1. PICK e \in queue[t] : Handler(t, e)
    BY DEF Handles
  <1>2. wk[t].pc = "idle" /\ UNCHANGED <<file, acc>>
    BY <1>1 DEF Handler, Received, Answered, ClientFails, ServiceAnswers, ServiceForeign, ServiceFails, Fired
  <1>3. PICK n \in Fd : n = e.sock
    BY DEF Members
  <1>4. EventOK(t, e) /\ TypeOK
    BY DEF CarryInv, TypeInv
  <1>5. CASE Received(t, e)
    <2>1. sock' = [sock EXCEPT ![n].status = "PROCESS"] /\ sock[n].fd /\ sock[n].status = "READ"
      BY <1>3, <1>4, <1>5 DEF Received, StatusIs, EventOK
    <2>2. /\ sock'[n].thread = sock[n].thread /\ sock'[n].status = "PROCESS" /\ sock'[n].seq = sock[n].seq
          /\ \A m \in Fd \ {n} : sock'[m] = sock[m]
      BY <1>4, <2>1, StatusDoes
    <2>3. Phase(sock[n]) = "reading" /\ Phase(sock'[n]) = "processing"
      BY <2>1, <2>2 DEF Phase
    <2>4. PICK k \in 1..MaxAccepts :
             /\ LifeStage[k] = Phase(sock[n]) /\ LifeStage' = [LifeStage EXCEPT ![k] = Phase(sock'[n])]
             /\ LifeServer' = LifeServer
      BY <1>2, <2>1, <2>2, SocketMoves
    <2>5. Life!Process(k)
      BY <2>3, <2>4, LifeMaps
    <2>6. ConnInv'
      BY <1>2, <2>1, <2>2, SocketMoves
    <2> QED  BY <2>5, <2>6 DEF Life!LifeNext
  <1>6. CASE Answered(t, e)
    <2>1. sock' = [sock EXCEPT ![n].status = "OVER"] /\ sock[n].status = "SEND"
      BY <1>3, <1>4, <1>6 DEF Answered, StatusIs, EventOK
    <2>2. /\ sock'[n].thread = sock[n].thread /\ sock'[n].status = "OVER" /\ sock'[n].seq = sock[n].seq
          /\ \A m \in Fd \ {n} : sock'[m] = sock[m]
      BY <1>4, <2>1, StatusDoes
    <2>3. Phase(sock'[n]) = Phase(sock[n])
      BY <2>1, <2>2 DEF Phase
    <2> QED  BY <1>2, <2>2, <2>3, QuietStutters DEF Quiet, SameClients
  <1>7. CASE sock' = sock
    BY <1>2, <1>7, QuietStutters DEF Quiet, SameClients
  <1> QED  BY <1>1, <1>5, <1>6, <1>7
           DEF Handler, ClientFails, ServiceAnswers, ServiceForeign, ServiceFails

(* The number of an api that is opened or closed is no client's. *)
LEMMA ApiFileQuiet ==
  ASSUME TypeOK, NEW m \in Fd, NEW x, file' = [file EXCEPT ![m] = x],
         \A k \in 1..MaxAccepts : file[m] # ClientFile(k) /\ x # ClientFile(k)
  PROVE  SameClients
  BY DEF TypeOK, SameClients

(* What a step does to the api of a client leaves the connections. *)
LEMMA ApiStepQuiet ==
  ASSUME TypeOK, ConnInv, NEW n \in Fd, NEW a,
         SameClients, acc' = acc, sock' = sock \/ sock' = [sock EXCEPT ![n].api = a]
  PROVE  ConnInv' /\ UNCHANGED Life!lifeVars
  <1>1. ASSUME NEW m \in Fd
        PROVE  /\ sock'[m].seq = sock[m].seq /\ sock'[m].thread = sock[m].thread
               /\ sock'[m].status = sock[m].status
    <2>1. CASE sock' = sock
      BY <2>1
    <2>2. CASE sock' = [sock EXCEPT ![n].api = a]
      BY <2>2, ApiSetDoes
    <2> QED  BY <2>1, <2>2
  <1>2. Quiet
    BY <1>1 DEF Quiet, Phase
  <1> QED  BY <1>2, QuietStutters

(* The calls and the releases. *)
LEMMA CallsQuiet ==
  ASSUME TypeInv, Members, CarryInv, ConnInv, NEW t \in Thread, Calls(t) \/ Releases(t)
  PROVE  ConnInv' /\ UNCHANGED Life!lifeVars
  <1>1. TypeOK /\ acc' = acc
    BY DEF TypeInv, Calls, Releases, CallServer, NoApiToCall, Connect, ConnectFails, Register,
           GiveBack, LeaveClient, ReleaseApi, FreeAgain
  <1>2. wk[t].pc # "idle"
    BY DEF Calls, Releases, CallServer, NoApiToCall, Connect, ConnectFails, Register,
           GiveBack, LeaveClient, ReleaseApi, FreeAgain
  <1>3. PICK n \in Fd : n = wk[t].sock
    BY <1>2, WorkerCarries
  <1>4. ASSUME NEW a \in Api, api[a].fd # NoFd, CloseFile(api[a].fd) PROVE SameClients
    <2>1. api[a].fd \in Fd /\ file[api[a].fd] = ApiFile(a)
      BY <1>4 DEF Members, CarryInv, ApiFiles
    <2> QED  BY <1>1, <1>4, <2>1, FileKinds, ApiFileQuiet DEF CloseFile
  <1>5. ASSUME file' = file PROVE SameClients
    BY <1>5 DEF SameClients
  <1>6. SameClients
    <2>1. CASE CallServer(t)
      BY <1>4, <1>5, <2>1 DEF CallServer
    <2>2. CASE NoApiToCall(t) \/ ConnectFails(t) \/ Register(t)
      BY <1>5, <2>2 DEF NoApiToCall, ConnectFails, Register
    <2>3. CASE Connect(t)
      <3>1. CASE file' = file
        BY <1>5, <3>1
      <3>2. CASE file' # file
        <4>1. PICK m \in Fd : ApiFd(m, wk[t].api)
          BY <2>3, <3>2 DEF Connect
        <4> QED  BY <1>1, <4>1, FileKinds, ApiFileQuiet DEF ApiFd
      <3> QED  BY <3>1, <3>2
    <2>4. CASE Releases(t)
      <3>1. wk[t].api \in Api
        BY <2>4 DEF Releases, GiveBack, LeaveClient, ReleaseApi, FreeAgain, Members, WithApi
      <3> QED  BY <1>4, <1>5, <2>4, <3>1 DEF Releases, GiveBack, LeaveClient, ReleaseApi, FreeAgain, SetFree
    <2> QED  BY <2>1, <2>2, <2>3, <2>4 DEF Calls
  <1>7. \E a : sock' = sock \/ sock' = [sock EXCEPT ![n].api = a]
    BY <1>3 DEF Calls, Releases, CallServer, NoApiToCall, Connect, ConnectFails, Register,
                GiveBack, LeaveClient, ReleaseApi, FreeAgain
  <1> QED  BY <1>1, <1>6, <1>7, ApiStepQuiet

(* A step leaves the connections if it leaves the files and the client sockets. *)
LEMMA SocketsQuiet ==
  ASSUME ConnInv, UNCHANGED <<file, sock>>, acc'.seq = acc.seq, acc.pc = "init" => acc' = acc
  PROVE  ConnInv' /\ UNCHANGED Life!lifeVars
  BY QuietStutters DEF Quiet, SameClients

(* Every step is one of ConnLife or leaves the connections. *)
LEMMA NextMoves ==
  ASSUME NoFaults, TypeInv, CarryInv, ConnInv, [Next]_vars
  PROVE  ConnInv' /\ [Life!LifeNext]_(Life!lifeVars)
  <1>1. Members
    BY TypeGivesMembers
  <1>2. CASE UNCHANGED vars
    BY <1>2, SocketsQuiet DEF vars
  <1>3. CASE AcceptThread
    <2>1. ~InitAborts /\ ~CloseClientFd /\ ~FiniAccepted /\ ~CloseAccepted
      BY DEF InitAborts, CloseClientFd, FiniAccepted, CloseAccepted, CarryInv, AccInv
    <2>2. CASE WritePipe
      <3>1. acc.pc = "pipe" /\ UNCHANGED <<file, sock>>
        BY <2>2 DEF WritePipe
      <3>2. acc'.seq = acc.seq
        BY <2>2 DEF WritePipe, TypeInv, TypeOK
      <3> QED  BY <3>1, <3>2, SocketsQuiet
    <2> QED  BY <1>1, <1>3, <2>1, <2>2, AcceptMoves, InitSocketMoves DEF AcceptThread
  <1>4. ASSUME NEW t \in Thread, ProcessThread(t)
        PROVE  ConnInv' /\ [Life!LifeNext]_(Life!lifeVars)
    <2>1. CASE ReadsPipe(t)
      <3>1. UNCHANGED <<file, sock, acc>>
        BY <2>1 DEF ReadsPipe, StartReading, RefuseClient
      <3> QED  BY <3>1, SocketsQuiet
    <2> QED  BY <1>1, <1>4, <2>1, Kinds, HandlesMove, CallsQuiet, AnswersMove
  <1> QED  BY <1>2, <1>3, <1>4 DEF Next

(* No connection has begun at first. *)
LEMMA InitMoves == Init => ConnInv /\ Life!LifeInit
  <1> SUFFICES ASSUME Init PROVE ConnInv /\ Life!LifeInit
    OBVIOUS
  <1>1. acc.seq = 0 /\ \A n \in Fd, k \in 1..MaxAccepts : file[n] # ClientFile(k)
    BY FileKinds DEF Init
  <1>2. \A k \in 1..MaxAccepts :
           StageOf(file, sock, acc.seq, k) = "new" /\ ServerOf(file, sock, k) = NoThread
    BY <1>1, FreeMaps
  <1>3. LifeStage = [k \in 1..MaxAccepts |-> "new"] /\ LifeServer = [k \in 1..MaxAccepts |-> NoThread]
    BY <1>2 DEF LifeStage, LifeServer
  <1>4. Life!LifeInit
    BY <1>3 DEF LifeStage, LifeServer, StageOf, ServerOf, SocketStage, Phase, Numbers,
                Life!LifeInit, FdOf, StageAt, Begun
  <1> QED  BY <1>1, <1>4 DEF ConnInv

(* As long as no system call and no look-up fails, every connection goes through the stages of ConnLife:
   it is handed to one process thread, goes forward only, is answered or told an error,
   and its number is closed once, after its socket object was released, although numbers
   are given again as soon as they are closed (relay_server.cpp:319, :427, :963, :1011,
   client_socket.cpp:67, :104).                                                    *)
THEOREM ImplementsConnLife == NoFaults => (Spec => ImplementsLife)
  <1> SUFFICES ASSUME NoFaults PROVE Spec => ImplementsLife
    OBVIOUS
  <1>1. Init => ConnInv /\ Life!LifeInit
    BY InitMoves
  <1>2. TypeInv /\ CarryInv /\ ConnInv /\ [Next]_vars => ConnInv' /\ [Life!LifeNext]_(Life!lifeVars)
    BY NextMoves
  <1>3. Spec => [](TypeInv /\ CarryInv)
    BY WholeCorrect
  <1> QED  BY <1>1, <1>2, <1>3, PTL DEF Spec, ImplementsLife, Life!LifeSpec

=============================================================================

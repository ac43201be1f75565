-------------------------- MODULE RelayServerProps --------------------------
(* The correctness properties of RelayServer, and its mapping to ConnLife. *)
EXTENDS RelayServer, FiniteSets

(* CClientSocket::init finds a socket object that was reset (client_socket.cpp:70,
   :73): the number is given out again only after everything else is released.  It
   does not after an accept failed, its number was closed twice, and the second time
   was an api's, which closes it once more, under the client that has it by then. *)
InitFindsReset ==
    acc.pc = "init" => ~sock[acc.fd].fd /\ sock[acc.fd].thread = NoThread

(* A message read from a pipe is for the connection that was put into it, in the
   thread the connection was given to (relay_server.cpp:452): a connection cannot
   be closed, and its number used again, while its message is on the way.        *)
MessagesMatch ==
    \A t \in Thread : \A i \in 1..Len(pipe[t]) :
        LET m == pipe[t][i] IN
        /\ sock[m.fd].fd /\ sock[m.fd].seq = m.seq /\ sock[m.fd].thread = t
        /\ file[m.fd] = ClientFile(m.seq)

(* A handler runs on the thread that its client socket belongs to, so it changes
   no other thread's queue, and _get_thread_no never throws out of it.          *)
OwnThread ==
    \A t \in Thread : \A e \in queue[t] : sock[e.sock].thread = t

(* Every queued event is in the epoll set, for an open descriptor, and no
   descriptor is waited for by two threads or twice by one: the event is deleted
   before its descriptor is closed or its api given to another thread.         *)
EventsLive ==
    \A t \in Thread : \A e \in queue[t] :
        /\ file[e.fd] # Closed /\ e.fd \in epoll[t]
        /\ \A u \in Thread : \A f \in queue[u] : e.fd = f.fd => t = u /\ e = f

(* The api whose answer is waited for is the one the client socket points to, it
   is in use, and made its call for that client (relay_server.cpp:848, :947).    *)
RightAnswer ==
    \A t \in Thread : \A e \in queue[t] :
        e.what = "service" =>
            /\ sock[e.sock].status = "PROCESS" /\ sock[e.sock].api # NoApi
            /\ LET a == sock[e.sock].api IN
               api[a].fd = e.fd /\ api[a].used /\ api[a].seq = sock[e.sock].seq
                                /\ file[e.fd] = ApiFile(a)

(* How many places a client socket is carried on from: the accept thread, a
   message, an event that can fire, a process thread.                          *)
Carriers(n) ==
    Cardinality({x \in {acc} : x.pc # "idle" /\ x.fd = n})
    + Cardinality({p \in {<<t, i>> : t \in Thread, i \in 1..PipeSize} :
                     p[2] <= Len(pipe[p[1]]) /\ pipe[p[1]][p[2]].fd = n})
    + Cardinality({p \in UNION {{t} \X queue[t] : t \in Thread} :
                     p[2].sock = n /\ p[2].fd \in epoll[p[1]]})
    + Cardinality({t \in Thread : wk[t].pc # "idle" /\ wk[t].sock = n})

(* A client is never forgotten and never served twice at once: what is to be done
   next for an open client socket is in exactly one place.                     *)
CarriedOnce == \A n \in Fd : sock[n].fd => Carriers(n) = 1

(* A handler that runs finds its client socket in use, and a service handler its
   api (relay_server.h:65), whatever fails in the system: otherwise _get_thread_no
   throws outside of the try blocks, or a NULL pointer is followed.             *)
HandlersFindClient ==
    /\ \A t \in Thread : \A e \in queue[t] : e.fd \in epoll[t] =>
          /\ sock[e.sock].thread # NoThread
          /\ e.what = "service" => sock[e.sock].api # NoApi
    /\ \A t \in Thread : wk[t].pc \in {"call", "connect", "register", "giveback",
                                      "reply", "again", "release"} =>
          sock[wk[t].sock].thread # NoThread

(* A process thread calls close(2) with a number that still stands for the connection
   that is to be closed: the number is not someone else's by then.             *)
ClosesOwn ==
    /\ \A t \in Thread : wk[t].pc = "close" =>
          file[wk[t].sock] = ClientFile(sock[wk[t].sock].seq)
    /\ \A a \in Api : api[a].fd # NoFd => file[api[a].fd] = ApiFile(a)

(* No exception leaves a handler, and no assertion fails: thread_run would end the
   process (event_thread.cpp:150), and all its clients with it.                *)
Survives == ~exited

(* CEventDecQueue::add: in a normal queue there is no equal descriptor
   (event_queue.cpp:135), whoever is about to add one.                          *)
NoEqualFd ==
    /\ \A t \in Thread : \A i \in 1..Len(pipe[t]) : ~EqualFd(t, pipe[t][i].fd)
    /\ \A t \in Thread : wk[t].pc \in {"reply", "error"} => ~EqualFd(t, wk[t].sock)
    /\ \A t \in Thread : wk[t].pc = "register" => ~EqualFd(t, api[wk[t].api].fd)

(* A thread acts only on what is its own: its messages, its client sockets, its
   events, the api it waits for and the numbers it closes or inits, although a number may
   be given to anybody as soon as it is closed.  Failures do not change that until
   one has torn something: an event stayed queued without its descriptor in the epoll
   set (epoll_monitor.cpp:85), a failed accept closed a number of another
   (relay_server.cpp:348), an api was freed again under another call (:786), or an
   error could not be written (:1068).                                         *)
OwnOnly ==
    /\ TypeOK
    /\ \/ torn
       \/ /\ InitFindsReset /\ MessagesMatch /\ OwnThread /\ EventsLive /\ RightAnswer
          /\ ClosesOwn /\ NoEqualFd

(* Every client is carried on from one place, and no exception ends them all, until a
   failure has torn something: a failed accept and an api freed twice do no harm by
   themselves, they need another that takes the number or the api in between.  *)
ServedOnce == torn \/ (CarriedOnce /\ Survives)

----------------------------------------------------------------------------
(* ConnLife: a connection is the sequence number it is accepted under. *)
FdOf(k) == {n \in Fd : file[n] = ClientFile(k)}

StageAt(n, k) ==
    IF sock[n].seq # k THEN "accepted"
    ELSE CASE sock[n].status = "READ"             -> "reading"
           [] sock[n].status = "PROCESS"          -> "processing"
           [] sock[n].status \in {"SEND", "OVER"} -> "answering"
           [] OTHER                               -> "closing"

Begun(k) == k <= acc.seq \/ FdOf(k) # {}

Life == INSTANCE ConnLife WITH
    Conn   <- 1..MaxAccepts,
    stage  <- [k \in 1..MaxAccepts |->
                 IF FdOf(k) # {} THEN StageAt(CHOOSE n \in FdOf(k) : TRUE, k)
                 ELSE IF Begun(k) THEN "closed" ELSE "new"],
    server <- [k \in 1..MaxAccepts |->
                 IF \E n \in FdOf(k) : sock[n].seq = k
                 THEN sock[CHOOSE n \in FdOf(k) : TRUE].thread ELSE NoThread]

(* Each connection goes through the stages of ConnLife on one thread. *)
ImplementsLife == Life!LifeSpec

----------------------------------------------------------------------------
(* Fairness: the threads run, clients and back ends act or fail. *)
FairSpec ==
    /\ Spec
    /\ WF_vars(~exited /\ AcceptThread)
    /\ \A t \in Thread : WF_vars(~exited /\ ProcessThread(t))

(* Every client that was accepted is closed in the end (client_socket.cpp:104), unless
   a failure has torn something: a client whose api is freed under it, or whose error
   cannot be written, waits for ever.                                          *)
ClientsEnd == \A n \in Fd : sock[n].fd ~> (~sock[n].fd \/ torn)
=============================================================================

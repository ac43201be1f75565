---------------------------- MODULE SessionProps ----------------------------
(***************************************************************************)
(* What must hold of one request over streams.                             *)
(***************************************************************************)
EXTENDS Session

(* For each client and for its api one event is queued, and what it asks for is what
   the status needs next: the handlers act on the status, not on the event
   (client_socket.cpp:28, api_base.cpp:32), and nothing else calls them.     *)
EventFits ==
    /\ \A s \in Socket :
          /\ cev[s] = CASE sock[s].status = "READ" -> {"READ"}
                        [] sock[s].status = "SEND" -> {"WRITE"}
                        [] OTHER                   -> {}
          /\ (sock[s].status = "PROCESS") <=> (api.used /\ api.sock = s)
    /\ api.used =>
          CASE api.status = "READ" \/ api.login = "RECVING" -> aev = {"READ"}
            [] api.status = "SEND"                          -> aev = {"WRITE"}
            [] OTHER                                        -> "WRITE" \in aev
    /\ ~api.used => aev = {}

StateFits == TypeOK /\ EventFits

Prefix(s, t) == Len(s) <= Len(t) /\ s = SubSeq(t, 1, Len(s))

(* What a client gets is the beginning of one packet, the answer of the back end to
   its own request or an error; once its socket is released it has all of it,
   unless it closed the connection itself.                                   *)
AnsweredOnce ==
    \A s \in Socket : call[s] > 0 =>
       \E t \in {"answer", "error"} :
          LET p == Packet(Message(t, call[s])) IN
          /\ Prefix(cl[s].tx, p)
          /\ sock[s].status = "FREE" /\ ~cl[s].shut => cl[s].tx = p

(* What a back end gets is whole packets in their order: the login, then the call
   of the client that is being served, which is read from that client's socket
   object only when the connection is there (api_base.cpp:46).               *)
CallFramed ==
    bk.tx # <<>> =>
       /\ api.used
       /\ \/ kind = "middle" /\ ~bk.logged /\ Prefix(bk.tx, Packet(Message("login", 0)))
          \/ Prefix(bk.tx, Packet(Message("call", call[api.sock])))

(* No call is sent on a middle connection before its login was answered. *)
LoginFirst ==
    kind = "middle" /\ api.status \in {"SEND", "READ"} => bk.logged

(* Whole packets, the right ones, in their order, in both directions. *)
Framed == AnsweredOnce /\ CallFramed /\ LoginFirst

(* A connection that is kept for the next call is logged in, and nothing is left in
   it or in the object from the last one: the answer to the next request is the
   next thing that is read.                                                  *)
KeptClean ==
    ~api.used /\ bk.state # "none" =>
       /\ kind = "middle" /\ api.init /\ api.login = "LOGIN_OK" /\ bk.logged
       /\ ~api.head /\ api.done = 0
       /\ bk.rx = <<>> /\ bk.wire = <<>> /\ bk.tx = <<>>

(* The assertions of CApiBase::encode (api_base.cpp:92-95) and of CMiddleApi::_init
   (middle_api.cpp:90) hold whenever the api is taken.                       *)
AssertsHold ==
    ~api.used =>
       /\ api.status = "FREE" /\ ~api.req
       /\ api.login = "NO_CONNECT" => bk.state = "none"

(* Whichever way a call ended, the next one finds the api as if it had never been used. *)
TakenClean == KeptClean /\ AssertsHold

(* A client that connected is answered and released, or dropped, if the network
   delivers and a back end that has a request answers it or closes.          *)
RequestEnds == \A s \in Socket : (sock[s].status # "FREE") ~> (sock[s].status = "FREE")

Reference == INSTANCE CallReply WITH
    phase <- [s \in Socket |-> CASE sock[s].status = "FREE" -> "idle"
                                 [] sock[s].status = "SEND" -> "reply"
                                 [] OTHER                   -> "open"],
    reply <- [s \in Socket |-> IF sock[s].status = "SEND" THEN Whole(sock[s]) ELSE NoMessage]

(* One reply to each client, its own: Session implements CallReply. *)
ImplementsCallReply == Reference!Spec
=============================================================================

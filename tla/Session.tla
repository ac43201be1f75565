------------------------------ MODULE Session ------------------------------
(***************************************************************************)
(* One request from its first byte to the last byte of its answer, over    *)
(* streams: the client socket (src/client_socket.cpp), the api that serves *)
(* it (api/api_base.cpp, api/middle_api.cpp, api/relay_api.cpp), the read  *)
(* and write of a part (sys/socket_base.cpp), and the handlers of the      *)
(* process thread that drive them (src/relay_server.cpp).  RelayServer     *)
(* has many clients and threads and takes a packet for one event; here     *)
(* there is one api, one thread and few sockets, and a packet arrives and  *)
(* leaves in pieces.                                                       *)
(*                                                                         *)
(* A packet is HeadLen units of header, with its length, and BodyLen units *)
(* of the rest; a unit knows the packet it is from and its place there.    *)
(* A handler of the relay is one step; streams move between them.          *)
(***************************************************************************)
EXTENDS Naturals, Sequences

CONSTANTS
    Kinds,      \* which protocols the site may use: "middle", "relay"
    Socket,     \* the client socket objects
    Calls,      \* how many clients connect (bound)
    HeadLen,    \* units of a header
    BodyLen,    \* units of the rest
    NoSocket

ASSUME SessionAssumption ==
    /\ Kinds \subseteq {"middle", "relay"}
    /\ NoSocket \notin Socket
    /\ Calls \in Nat /\ HeadLen \in Nat \ {0} /\ BodyLen \in Nat \ {0}

VARIABLES
    kind,       \* the protocol of the api
    calls,      \* how many clients were accepted
    call,       \* _seq_no: the number of the client each object serves
    sock,       \* CClientSocket: _status, _is_head and the process buffer
    cev,        \* what its event in the queue asks for; {} when there is none
    req,        \* its _req_packet
    api,        \* the api, and the object it was taken for
    aev,        \* what its event asks for
    cl,         \* the connection of each client
    bk          \* the connection to the back end

client == <<calls, call, sock, cev, req, cl>>
vars   == <<kind, client, api, aev, bk>>

Size == HeadLen + BodyLen

Least(m, n) == IF m < n THEN m ELSE n

Types == {"request", "login", "call", "login_ok", "answer", "error", "bad_head", "bad_packet"}

Message(t, k) == [type |-> t, call |-> k]
NoMessage     == Message("none", 0)
Messages      == [type : Types, call : 0..Calls]
Packet(m)     == [i \in 1..Size |-> [msg |-> m, at |-> i]]
Units         == [msg : Messages, at : 1..Size]

(* What a peer sent and the network has, what arrived and was not read, what the
   relay sent and the peer has not used, and whether the peer has closed.    *)
Silent == [wire |-> <<>>, rx |-> <<>>, tx |-> <<>>, shut |-> FALSE]
NoLink == [state |-> "none", logged |-> FALSE,
           wire |-> <<>>, rx |-> <<>>, tx |-> <<>>, shut |-> FALSE]

FreeSocket == [status |-> "FREE", head |-> FALSE, buf |-> <<>>, done |-> 0, total |-> 0]
FreeApi    == [used |-> FALSE, sock |-> NoSocket, status |-> "FREE", init |-> FALSE,
               login |-> "NO_CONNECT", connecting |-> FALSE, head |-> FALSE, req |-> FALSE,
               buf |-> <<>>, done |-> 0, total |-> 0]

Streams == Seq(Units)

TypeOK ==
    /\ kind \in Kinds /\ calls \in 0..Calls
    /\ call \in [Socket -> 0..Calls]
    /\ sock \in [Socket -> [status : {"FREE", "READ", "PROCESS", "SEND"}, head : BOOLEAN,
                            buf : Streams, done : 0..Size, total : 0..Size]]
    /\ cev \in [Socket -> SUBSET {"READ", "WRITE"}]
    /\ req \in [Socket -> Messages \cup {NoMessage}]
    /\ cl \in [Socket -> [wire : Streams, rx : Streams, tx : Streams, shut : BOOLEAN]]
    /\ api \in [used : BOOLEAN, sock : Socket \cup {NoSocket},
                status : {"FREE", "INITING", "SEND", "READ"}, init : BOOLEAN,
                login : {"NO_CONNECT", "CONNECTING", "SENDING", "RECVING", "LOGIN_OK"},
                connecting : BOOLEAN, head : BOOLEAN, req : BOOLEAN,
                buf : Streams, done : 0..Size, total : 0..Size]
    /\ aev \subseteq {"READ", "WRITE"}
    /\ bk \in [state : {"none", "connecting", "refused", "up"}, logged : BOOLEAN,
               wire : Streams, rx : Streams, tx : Streams, shut : BOOLEAN]

Init ==
    /\ kind \in Kinds /\ calls = 0
    /\ call = [s \in Socket |-> 0]
    /\ sock = [s \in Socket |-> FreeSocket]
    /\ cev = [s \in Socket |-> {}]
    /\ req = [s \in Socket |-> NoMessage]
    /\ cl = [s \in Socket |-> Silent]
    /\ api = FreeApi /\ aev = {} /\ bk = NoLink

----------------------------------------------------------------------------
(* Reading and writing a part of the packet in an object o, a client socket or an
   api.  "in" is what arrived.                                               *)

Outcome(ret, o, in) == [ret |-> ret, o |-> o, in |-> in]

(* A header with a length in range; read() gives what there is, and one that is not
   whole is an error.                                                        *)
HeadOk(in) == Len(in) >= HeadLen /\ Head(in).at = 1 /\ Head(in).msg.type # "bad_head"

(* _recv_head *)
RecvHead(o, in) ==
    IF ~HeadOk(in)
    THEN Outcome("THROW", o, in)
    ELSE Outcome("MORE", [o EXCEPT !.head = TRUE, !.buf = SubSeq(in, 1, HeadLen),
                                   !.done = HeadLen, !.total = Size],
                 SubSeq(in, HeadLen + 1, Len(in)))

(* What is left to be read or written. *)
Left(o) == o.total - o.done

(* CSocketOpt::read: 0 means that the peer has closed, or that the count was 0. *)
ReadThrows(count, in, shut) == count = 0 \/ (in = <<>> /\ shut)

(* CSocketBase::_recv *)
Recv(o, in, shut) ==
    LET n == Least(Left(o), Len(in)) IN
    IF n = 0
    THEN Outcome(IF ReadThrows(Left(o), in, shut) THEN "THROW" ELSE "MORE", o, in)
    ELSE Outcome(IF n = Left(o) THEN "OK" ELSE "MORE",
                 [o EXCEPT !.buf = SubSeq(@, 1, o.done) \o SubSeq(in, 1, n), !.done = @ + n],
                 SubSeq(in, n + 1, Len(in)))

(* The header first, unless it has been read, and the rest with it. *)
RecvPacket(o, in, shut) ==
    LET h == IF o.head THEN Outcome("MORE", o, in) ELSE RecvHead(o, in) IN
    IF h.ret = "THROW" THEN h ELSE Recv(h.o, h.in, shut)

(* Mutation: _processed is not set back. *)
Loaded_KeepsDone(o, m) == [o EXCEPT !.buf = Packet(m), !.total = Size]

(* encode: a packet to be sent is in the buffer. *)
Loaded(o, m) == [o EXCEPT !.buf = Packet(m), !.done = 0, !.total = Size]

(* CSocketBase::_send: write() takes n units. *)
Sent(o, n) == [o EXCEPT !.done = @ + n]
Part(o, n) == SubSeq(o.buf, o.done + 1, o.done + n)

(* A peer that has closed gets nothing more. *)
Receives(peer, units) == IF peer.shut THEN peer ELSE [peer EXCEPT !.tx = @ \o units]

(* The packet that is whole in the buffer. *)
Whole(o) == Head(o.buf).msg

----------------------------------------------------------------------------
(* The client socket. *)

(* _process_accept and init give an object that was reset to the next client, which
   sends a packet, perhaps one with a bad header.                            *)
Accept(s) ==
    /\ sock[s].status = "FREE" /\ calls < Calls
    /\ calls' = calls + 1
    /\ call' = [call EXCEPT ![s] = calls + 1]
    /\ \E t \in {"request", "bad_head"} :
          cl' = [cl EXCEPT ![s] = [Silent EXCEPT !.wire = Packet(Message(t, calls + 1))]]
    /\ sock' = [sock EXCEPT ![s].status = "READ"]
    /\ cev' = [cev EXCEPT ![s] = {"READ"}]
    /\ UNCHANGED <<kind, req, api, aev, bk>>

(* Mutation: nobody waits until what was encoded can be sent. *)
Reply_NoEvent(s, m) ==
    /\ sock' = [sock EXCEPT ![s] = [Loaded(sock[s], m) EXCEPT !.status = "SEND"]]
    /\ cev' = [cev EXCEPT ![s] = {}]

(* encode, and the event to send what was encoded. *)
Reply(s, m) ==
    /\ sock' = [sock EXCEPT ![s] = [Loaded(sock[s], m) EXCEPT !.status = "SEND"]]
    /\ cev' = [cev EXCEPT ![s] = {"WRITE"}]

(* _write_error, from the catch clauses. *)
WriteError(s) == Reply(s, Message("error", call[s]))

Readable(s) == "READ" \in cev[s] /\ sock[s].status = "READ" /\ (cl[s].rx # <<>> \/ cl[s].shut)
Writable(s) == "WRITE" \in cev[s] /\ sock[s].status = "SEND"

FromClient(s) == RecvPacket(sock[s], cl[s].rx, cl[s].shut)

ReadRequest(s) ==
    /\ Readable(s) /\ FromClient(s).ret = "MORE"
    /\ sock' = [sock EXCEPT ![s] = FromClient(s).o]
    /\ cl' = [cl EXCEPT ![s].rx = FromClient(s).in]
    /\ UNCHANGED <<kind, calls, call, cev, req, api, aev, bk>>

(* Mutation: the client is dropped, as it is when sending fails. *)
ReadRequestFails_Drops(s) ==
    /\ Readable(s) /\ FromClient(s).ret = "THROW"
    /\ sock' = [sock EXCEPT ![s] = FreeSocket]
    /\ cev' = [cev EXCEPT ![s] = {}]
    /\ UNCHANGED <<kind, calls, call, req, cl, api, aev, bk>>

ReadRequestFails(s) ==
    /\ Readable(s) /\ FromClient(s).ret = "THROW"
    /\ WriteError(s)
    /\ UNCHANGED <<kind, calls, call, req, cl, api, aev, bk>>

(* RECV_OK: the event is deleted and the packet decoded. *)
Received(s) ==
    /\ Readable(s) /\ FromClient(s).ret = "OK"
    /\ req' = [req EXCEPT ![s] = Whole(FromClient(s).o)]
    /\ cl' = [cl EXCEPT ![s].rx = FromClient(s).in]
    /\ UNCHANGED <<kind, calls, call>>

(* It is no request, it is not allowed, or there is no api for it. *)
Refuse(s) ==
    /\ Received(s) /\ WriteError(s)
    /\ UNCHANGED <<api, aev, bk>>

(* OVER, and fini: everything of the client is reset. *)
Fini(s) ==
    /\ sock' = [sock EXCEPT ![s] = FreeSocket]
    /\ cev' = [cev EXCEPT ![s] = {}]
    /\ req' = [req EXCEPT ![s] = NoMessage]

SendReply(s) ==
    /\ Writable(s)
    /\ \E n \in 0..Left(sock[s]) :
          /\ cl' = [cl EXCEPT ![s] = Receives(@, Part(sock[s], n))]
          /\ \/ n = Left(sock[s]) /\ Fini(s)
             \/ /\ n < Left(sock[s])
                /\ sock' = [sock EXCEPT ![s] = Sent(@, n)]
                /\ UNCHANGED <<cev, req>>
    /\ UNCHANGED <<kind, calls, call, api, aev, bk>>

(* Sending fails: the catch clause releases the socket. *)
SendReplyFails(s) ==
    /\ Writable(s) /\ cl[s].shut
    /\ Fini(s)
    /\ UNCHANGED <<kind, calls, call, cl, api, aev, bk>>

----------------------------------------------------------------------------
(* The api. *)

(* _fini: a relay api is closed whatever it is told. *)
Closes(close) == close \/ kind = "relay"

(* Mutation: an api that failed is given back with its connection open. *)
SetFree_NeverCloses(a, close, in) ==
    IF kind = "relay"
    THEN api' = FreeApi /\ bk' = NoLink
    ELSE /\ api' = [a EXCEPT !.used = FALSE, !.sock = NoSocket, !.status = "FREE",
                             !.req = FALSE, !.done = 0, !.total = 0]
         /\ bk' = [bk EXCEPT !.rx = in]

(* set_free and fini *)
SetFree(a, close, in) ==
    IF Closes(close)
    THEN api' = FreeApi /\ bk' = NoLink
    ELSE /\ api' = [a EXCEPT !.used = FALSE, !.sock = NoSocket, !.status = "FREE",
                             !.req = FALSE, !.done = 0, !.total = 0]
         /\ bk' = [bk EXCEPT !.rx = in]

(* The catch clauses of _service_handler and _call_server. *)
ServiceFails(s) == aev' = {} /\ SetFree(api, TRUE, bk.rx) /\ WriteError(s)

(* check_tcp_ok *)
TcpOk == bk.state = "up" /\ ~bk.shut

(* socket and connect, which does not block. *)
Connect == bk' = [NoLink EXCEPT !.state = "connecting"]

(* _encode: the packet of the call for the request m. *)
CallPacket(m) == Message("call", m.call)

(* _decode_login_packet throws unless the login succeeded. *)
LoginOk(m) == m.type = "login_ok"

(* _decode throws unless this is an answer without an error; for a relay api whatever
   came is the answer.                                                       *)
IsAnswer(m) == kind = "relay" \/ m.type = "answer"

(* INIT_OK: the request m, in the buffer of the client socket, is encoded only now. *)
InitOk(a, m) ==
    /\ api' = [Loaded(a, CallPacket(m)) EXCEPT !.status = "SEND"]
    /\ aev' = {"WRITE"}

Taken(a, s) == [a EXCEPT !.used = TRUE, !.sock = s, !.req = TRUE]

(* _call_server takes the api. *)
Called(s) ==
    /\ Received(s) /\ ~api.used
    /\ sock' = [sock EXCEPT ![s] = [FromClient(s).o EXCEPT !.status = "PROCESS"]]
    /\ cev' = [cev EXCEPT ![s] = {}]

(* It is connected and logged in. *)
CallKept(s) ==
    /\ Called(s)
    /\ TcpOk /\ api.init
    /\ InitOk(Taken(api, s), req'[s])
    /\ UNCHANGED bk

(* It is not: what set_used finds closed is closed here too, and connected again. *)
CallConnects(s) ==
    /\ Called(s)
    /\ ~TcpOk
    /\ api' = [Taken(FreeApi, s) EXCEPT !.status = "INITING", !.connecting = (kind = "relay"),
                                        !.login = IF kind = "middle" THEN "CONNECTING" ELSE @]
    /\ Connect
    /\ aev' = {"READ", "WRITE"}

(* connect() fails at once, or the packet is too long to be encoded. *)
CallFails(s) ==
    /\ Received(s) /\ ~api.used
    /\ ServiceFails(s)

(* An event of the api, for which its peer is ready; epoll tells nothing of a
   connection that is still being made.                                      *)
FiredApi ==
    /\ api.used
    /\ \/ "READ" \in aev /\ (bk.rx # <<>> \/ bk.shut)
       \/ "WRITE" \in aev /\ bk.state = "up"

FromBack == RecvPacket(api, bk.rx, bk.shut)

(* SO_ERROR tells that the connection was refused. *)
ConnectFails ==
    /\ api.used /\ aev # {} /\ api.status = "INITING" /\ bk.state = "refused"
    /\ ServiceFails(api.sock)
    /\ UNCHANGED <<kind, calls, call, req, cl>>

(* A relay api is initialised once it is connected. *)
RelayConnected ==
    /\ FiredApi /\ kind = "relay" /\ api.status = "INITING"
    /\ InitOk([api EXCEPT !.init = TRUE, !.connecting = FALSE], req[api.sock])
    /\ UNCHANGED <<kind, client, bk>>

(* EM_CONNECTING falls through to EM_SENDING. *)
LoginPacket ==
    IF api.login = "CONNECTING" THEN Loaded(api, Message("login", 0)) ELSE api

(* Mutation: the event goes on asking for a write, which is always possible. *)
LoginSent_KeepsMask(a) ==
    /\ api' = [a EXCEPT !.login = "RECVING", !.done = 0, !.total = 0]
    /\ UNCHANGED aev

(* SEND_OK of the login packet. *)
LoginSent(a) ==
    /\ api' = [a EXCEPT !.login = "RECVING", !.done = 0, !.total = 0]
    /\ aev' = {"READ"}

SendLogin ==
    /\ FiredApi /\ kind = "middle" /\ api.status = "INITING"
    /\ api.login \in {"CONNECTING", "SENDING"}
    /\ \E n \in 0..Left(LoginPacket) :
          /\ bk' = Receives(bk, Part(LoginPacket, n))
          /\ \/ n = Left(LoginPacket) /\ LoginSent(Sent(LoginPacket, n))
             \/ /\ n < Left(LoginPacket)
                /\ api' = [Sent(LoginPacket, n) EXCEPT !.login = "SENDING"]
                /\ UNCHANGED aev
    /\ UNCHANGED <<kind, client>>

Receiving == api.status = "READ" \/ (api.status = "INITING" /\ api.login = "RECVING")

ReadPart ==
    /\ FiredApi /\ Receiving
    /\ FromBack.ret = "MORE"
    /\ api' = FromBack.o
    /\ bk' = [bk EXCEPT !.rx = FromBack.in]
    /\ UNCHANGED <<kind, client, aev>>

(* CMiddleApi::_recv resets the mark of the header; a relay api is closed anyway. *)
ReadWhole(a) == IF kind = "middle" THEN [a EXCEPT !.head = FALSE] ELSE a

LoginAnswered ==
    /\ FiredApi /\ Receiving /\ api.status = "INITING"
    /\ FromBack.ret = "OK" /\ LoginOk(Whole(FromBack.o))
    /\ bk' = [bk EXCEPT !.rx = FromBack.in]
    /\ InitOk([ReadWhole(FromBack.o) EXCEPT !.init = TRUE, !.login = "LOGIN_OK"], req[api.sock])
    /\ UNCHANGED <<kind, client>>

SendCall ==
    /\ FiredApi /\ api.status = "SEND"
    /\ \E n \in 0..Left(api) :
          /\ bk' = Receives(bk, Part(api, n))
          /\ \/ /\ n = Left(api)
                /\ api' = [api EXCEPT !.status = "READ", !.buf = <<>>, !.done = 0, !.total = 0]
                /\ aev' = {"READ"}
             \/ n < Left(api) /\ api' = Sent(api, n) /\ UNCHANGED aev
    /\ UNCHANGED <<kind, client>>

(* The answer is whole: decode, set_free, and encode to the client. *)
Answered ==
    /\ FiredApi /\ Receiving /\ api.status = "READ"
    /\ FromBack.ret = "OK" /\ IsAnswer(Whole(FromBack.o))
    /\ aev' = {}
    /\ SetFree(ReadWhole(FromBack.o), FALSE, FromBack.in)
    /\ Reply(api.sock, Whole(FromBack.o))
    /\ UNCHANGED <<kind, calls, call, req, cl>>

(* read() fails, or the packet is not what was waited for. *)
ReadFails ==
    /\ FiredApi /\ Receiving
    /\ \/ FromBack.ret = "THROW"
       \/ /\ FromBack.ret = "OK"
          /\ IF api.status = "READ" THEN ~IsAnswer(Whole(FromBack.o))
                                    ELSE ~LoginOk(Whole(FromBack.o))
    /\ ServiceFails(api.sock)
    /\ UNCHANGED <<kind, calls, call, req, cl>>

WriteFails ==
    /\ FiredApi /\ bk.shut /\ ~Receiving
    /\ ServiceFails(api.sock)
    /\ UNCHANGED <<kind, calls, call, req, cl>>

----------------------------------------------------------------------------
(* The other ends, and the network. *)

Connected ==
    /\ bk.state = "connecting"
    /\ \E e \in {"up", "refused"} : bk' = [bk EXCEPT !.state = e]
    /\ UNCHANGED <<kind, client, api, aev>>

DeliverClient(s) ==
    /\ cl[s].wire # <<>>
    /\ cl' = [cl EXCEPT ![s].rx = Append(@, Head(cl[s].wire)), ![s].wire = Tail(@)]
    /\ UNCHANGED <<kind, calls, call, sock, cev, req, api, aev, bk>>

DeliverBack ==
    /\ bk.wire # <<>>
    /\ bk' = [bk EXCEPT !.rx = Append(@, Head(bk.wire)), !.wire = Tail(@)]
    /\ UNCHANGED <<kind, client, api, aev>>

(* A close may lose what is on its way, in both directions. *)
ClientCloses(s) ==
    /\ sock[s].status # "FREE" /\ ~cl[s].shut
    /\ cl' = [cl EXCEPT ![s].shut = TRUE, ![s].wire = <<>>, ![s].tx = <<>>]
    /\ UNCHANGED <<kind, calls, call, sock, cev, req, api, aev, bk>>

BackCloses ==
    /\ bk.state = "up" /\ ~bk.shut
    /\ bk' = [bk EXCEPT !.shut = TRUE, !.wire = <<>>, !.tx = <<>>]
    /\ UNCHANGED <<kind, client, api, aev>>

(* A back end answers a packet when it has all of it, once; or what it sends is not
   the answer, which only the middle protocol can tell.                      *)
BackAnswers ==
    LET m == Head(bk.tx).msg IN
    /\ bk.state = "up" /\ ~bk.shut /\ Len(bk.tx) >= Size
    /\ \E t \in {IF m.type = "login" THEN "login_ok" ELSE "answer", "bad_head"}
                 \cup IF kind = "middle" THEN {"bad_packet"} ELSE {} :
          bk' = [bk EXCEPT !.wire = @ \o Packet(Message(t, m.call)),
                           !.tx = SubSeq(@, Size + 1, Len(@)),
                           !.logged = @ \/ t = "login_ok"]
    /\ UNCHANGED <<kind, client, api, aev>>

----------------------------------------------------------------------------
ClientHandler(s) ==
    \/ ReadRequest(s) \/ ReadRequestFails(s) \/ Refuse(s)
    \/ CallKept(s) \/ CallConnects(s) \/ CallFails(s)
    \/ SendReply(s) \/ SendReplyFails(s)

ApiHandler ==
    \/ ConnectFails \/ RelayConnected \/ SendLogin \/ LoginAnswered \/ SendCall
    \/ ReadPart \/ Answered \/ ReadFails \/ WriteFails

BackEnd == Connected \/ DeliverBack \/ BackCloses \/ BackAnswers

Next ==
    \/ \E s \in Socket : Accept(s) \/ ClientHandler(s) \/ DeliverClient(s) \/ ClientCloses(s)
    \/ ApiHandler \/ BackEnd

Spec == Init /\ [][Next]_vars

(* The loop calls the handlers of what is ready (EventLoop), the network delivers,
   and a back end that was asked answers or closes.                          *)
FairSpec ==
    /\ Spec
    /\ \A s \in Socket : WF_vars(ClientHandler(s)) /\ WF_vars(DeliverClient(s))
    /\ WF_vars(ApiHandler) /\ WF_vars(BackEnd)
=============================================================================

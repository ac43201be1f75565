--------------------------- MODULE SessionProofs ---------------------------
(***************************************************************************)
(* Theorems about Session, for any number of sockets and clients and any   *)
(* lengths of header and rest: the events fit the statuses, what peers get *)
(* is whole packets and the right ones, a connection is kept only when     *)
(* nothing is left in it, and Session implements CallReply.                *)
(*                                                                         *)
(* The inductive invariant follows one packet through its stream: the      *)
(* units that were read, those that arrived and those on their way are     *)
(* consecutive units of it (Incoming), and what was written is its         *)
(* beginning (Outgoing).                                                   *)
(***************************************************************************)
EXTENDS SessionProps, SequenceTheorems, TLAPS

SocketRec == [status : {"FREE", "READ", "PROCESS", "SEND"}, head : BOOLEAN,
              buf : Streams, done : 0..Size, total : 0..Size]
ApiRec == [used : BOOLEAN, sock : Socket \cup {NoSocket},
           status : {"FREE", "INITING", "SEND", "READ"}, init : BOOLEAN,
           login : {"NO_CONNECT", "CONNECTING", "SENDING", "RECVING", "LOGIN_OK"},
           connecting : BOOLEAN, head : BOOLEAN, req : BOOLEAN,
           buf : Streams, done : 0..Size, total : 0..Size]
ClientRec == [wire : Streams, rx : Streams, tx : Streams, shut : BOOLEAN]
BackRec == [state : {"none", "connecting", "refused", "up"}, logged : BOOLEAN,
            wire : Streams, rx : Streams, tx : Streams, shut : BOOLEAN]

(* The units of q are those of m behind its first i. *)
From(q, m, i) == \A j \in 1..Len(q) : q[j] = [msg |-> m, at |-> i + j]

(* The object o reads m: what it has in its buffer, what has arrived and what is on
   its way follow one upon another, and are at most the packet.              *)
Incoming(o, in, wire, m) ==
    /\ From(in, m, o.done) /\ From(wire, m, o.done + Len(in))
    /\ o.done + Len(in) + Len(wire) <= Size
    /\ ~o.head => o.done = 0
    /\ o.head => /\ HeadLen <= o.done /\ o.done < Size /\ o.total = Size /\ Len(o.buf) = o.done
                 /\ From(o.buf, m, 0) /\ m.type # "bad_head"

(* The object o writes m, and its peer has what was written, unless it has closed. *)
Outgoing(o, peer, m) ==
    /\ o.buf = Packet(m) /\ o.total = Size /\ o.done < Size
    /\ peer.shut => peer.tx = <<>>
    /\ ~peer.shut => Len(peer.tx) = o.done /\ From(peer.tx, m, 0)

Own(s) == {Message(t, call[s]) : t \in {"answer", "error"}}

(* A client that was served has the whole of its answer, or has closed. *)
FreeClient(s) ==
    /\ cev[s] = {} /\ sock[s] = FreeSocket
    /\ call[s] > 0 => (cl[s].shut /\ cl[s].tx = <<>>) \/ \E m \in Own(s) : cl[s].tx = Packet(m)

ReadClient(s) ==
    /\ cev[s] = {"READ"} /\ cl[s].tx = <<>> /\ call[s] > 0
    /\ \E m \in Messages : m.call = call[s] /\ Incoming(sock[s], cl[s].rx, cl[s].wire, m)

ProcessClient(s) ==
    /\ cev[s] = {} /\ cl[s].tx = <<>> /\ call[s] > 0
    /\ req[s] \in Messages /\ req[s].call = call[s]
    /\ api.used /\ api.sock = s

SendClient(s) ==
    /\ cev[s] = {"WRITE"} /\ call[s] > 0
    /\ \E m \in Own(s) : Outgoing(sock[s], cl[s], m)

ClientOk(s) ==
    /\ sock[s].status = "FREE"    => FreeClient(s)
    /\ sock[s].status = "READ"    => ReadClient(s)
    /\ sock[s].status = "PROCESS" => ProcessClient(s)
    /\ sock[s].status = "SEND"    => SendClient(s)

Silence == bk.rx = <<>> /\ bk.wire = <<>>
Nothing == Silence /\ bk.tx = <<>>
Fresh   == ~api.head /\ api.done = 0

(* m was sent, and its answer, one of types, is still to come or is coming. *)
Awaiting(m, types) ==
    \/ Fresh /\ Silence /\ bk.tx = Packet(m)
    \/ bk.tx = <<>> /\ \E t \in types : Incoming(api, bk.rx, bk.wire, Message(t, m.call))

LoginMsg == Message("login", 0)
CallMsg  == Message("call", call[api.sock])

LoginTypes == {"bad_head", "bad_packet"} \cup IF bk.logged THEN {"login_ok"} ELSE {}
CallTypes  == {"answer", "bad_head"} \cup IF kind = "middle" THEN {"bad_packet"} ELSE {}

FreeApiOk ==
    /\ aev = {} /\ api.sock = NoSocket /\ api.status = "FREE" /\ ~api.req /\ Fresh
    /\ \/ api = FreeApi /\ bk = NoLink
       \/ kind = "middle" /\ api.init /\ api.login = "LOGIN_OK" /\ bk.logged /\ Nothing

(* What an api does before it can send a call: it connects, sends its login, and awaits
   the answer.                                                               *)
Connects ==
    /\ api.login = IF kind = "relay" THEN "NO_CONNECT" ELSE "CONNECTING"
    /\ aev = {"READ", "WRITE"} /\ Fresh /\ Nothing /\ ~bk.logged

SendsLogin ==
    /\ api.login = "SENDING" /\ kind = "middle"
    /\ aev = {"READ", "WRITE"} /\ ~api.head /\ Silence /\ ~bk.logged
    /\ Outgoing(api, bk, LoginMsg)

AwaitsLogin ==
    /\ api.login = "RECVING" /\ kind = "middle"
    /\ aev = {"READ"} /\ Awaiting(LoginMsg, LoginTypes)
    /\ bk.tx # <<>> => ~bk.logged

(* How an api that sends or has sent a call came to be logged in. *)
LoggedIn ==
    /\ kind = "middle" => bk.logged
    /\ api.login = IF kind = "middle" THEN "LOGIN_OK" ELSE "NO_CONNECT"

SendsCall ==
    /\ aev = {"WRITE"} /\ api.init /\ LoggedIn /\ ~api.head /\ Silence
    /\ Outgoing(api, bk, CallMsg)

AwaitsCall == aev = {"READ"} /\ api.init /\ LoggedIn /\ Awaiting(CallMsg, CallTypes)

UsedApiOk ==
    /\ api.sock \in Socket /\ sock[api.sock].status = "PROCESS" /\ api.status # "FREE"
    /\ api.status = "INITING" => Connects \/ SendsLogin \/ AwaitsLogin
    /\ api.status = "SEND"    => SendsCall
    /\ api.status = "READ"    => AwaitsCall

ApiOk == (api.used => UsedApiOk) /\ (~api.used => FreeApiOk)

IInv == TypeOK /\ (\A s \in Socket : ClientOk(s)) /\ ApiOk

(* --------------------------- sequences of units --------------------------- *)

LEMMA SizeType ==
  ASSUME SessionAssumption
  PROVE  Size \in Nat /\ HeadLen \in Nat /\ 0 < HeadLen /\ HeadLen < Size
  BY DEF SessionAssumption, Size

LEMMA PacketUnits ==
  ASSUME SessionAssumption, NEW m \in Messages
  PROVE  /\ Packet(m) \in Streams /\ Len(Packet(m)) = Size /\ Packet(m) # <<>>
         /\ \A i \in 1..Size : Packet(m)[i] = [msg |-> m, at |-> i]
         /\ From(Packet(m), m, 0) /\ Head(Packet(m)) = [msg |-> m, at |-> 1]
  <1>1. Packet(m) \in [1..Size -> Units]
    BY DEF Packet, Units
  <1>2. Packet(m) \in Streams
    BY <1>1, SizeType, SeqDef DEF Streams
  <1>3. Len(Packet(m)) = Size
    BY <1>1, <1>2, SizeType, LenProperties DEF Streams, Packet
  <1>4. \A i \in 1..Size : Packet(m)[i] = [msg |-> m, at |-> i]
    BY DEF Packet
  <1>5. From(Packet(m), m, 0)
    BY <1>3, <1>4, SizeType DEF From
  <1>6. Packet(m) # <<>>
    BY <1>3, SizeType
  <1>7. Head(Packet(m)) = Packet(m)[1]
    BY <1>2, <1>6 DEF Streams
  <1> QED  BY <1>2, <1>3, <1>4, <1>5, <1>6, <1>7, SizeType

(* A piece of a stream. *)
LEMMA Piece ==
  ASSUME NEW q \in Streams, NEW a \in 1..Len(q) + 1, NEW b \in a - 1..Len(q)
  PROVE  /\ SubSeq(q, a, b) \in Streams /\ Len(SubSeq(q, a, b)) = b - a + 1
         /\ \A i \in 1..b - a + 1 : SubSeq(q, a, b)[i] = q[a + i - 1]
  <1>1. \A i \in a..b : q[i] \in Units
    BY ElementOfSeq DEF Streams
  <1>2. /\ SubSeq(q, a, b) \in Seq(Units)
        /\ Len(SubSeq(q, a, b)) = IF a <= b THEN b - a + 1 ELSE 0
        /\ \A i \in 1..b - a + 1 : SubSeq(q, a, b)[i] = q[a + i - 1]
    BY <1>1, SubSeqProperties
  <1> QED  BY <1>2 DEF Streams

LEMMA FromPiece ==
  ASSUME NEW q \in Streams, NEW m, NEW i \in Nat, From(q, m, i),
         NEW a \in 1..Len(q) + 1, NEW b \in a - 1..Len(q)
  PROVE  From(SubSeq(q, a, b), m, i + a - 1)
  <1>1. Len(q) \in Nat
    BY DEF Streams
  <1>2. \A j \in 1..b - a + 1 : a + j - 1 \in 1..Len(q) /\ i + (a + j - 1) = (i + a - 1) + j
    BY <1>1
  <1> QED  BY <1>1, <1>2, Piece DEF From

LEMMA FromConcat ==
  ASSUME NEW p \in Streams, NEW q \in Streams, NEW m, NEW i \in Nat,
         From(p, m, i), From(q, m, i + Len(p))
  PROVE  p \o q \in Streams /\ Len(p \o q) = Len(p) + Len(q) /\ From(p \o q, m, i)
  <1>1. /\ p \o q \in Seq(Units) /\ Len(p \o q) = Len(p) + Len(q)
        /\ \A j \in 1..Len(p) + Len(q) : (p \o q)[j] = IF j <= Len(p) THEN p[j] ELSE q[j - Len(p)]
    BY ConcatProperties DEF Streams
  <1>2. Len(p) \in Nat /\ Len(q) \in Nat
    BY DEF Streams
  <1>3. \A j \in 1..Len(p) + Len(q) :
           j > Len(p) => j - Len(p) \in 1..Len(q) /\ (i + Len(p)) + (j - Len(p)) = i + j
    BY <1>2
  <1> QED  BY <1>1, <1>2, <1>3 DEF From, Streams

LEMMA FromStart ==
  ASSUME SessionAssumption, NEW m \in Messages, NEW q \in Streams, From(q, m, 0), Len(q) <= Size
  PROVE  Prefix(q, Packet(m)) /\ (Len(q) = Size => q = Packet(m))
  <1>1. Len(q) \in Nat
    BY DEF Streams
  <1>2. /\ SubSeq(Packet(m), 1, Len(q)) \in Streams /\ Len(SubSeq(Packet(m), 1, Len(q))) = Len(q)
        /\ \A i \in 1..Len(q) : SubSeq(Packet(m), 1, Len(q))[i] = Packet(m)[1 + i - 1]
    BY <1>1, Piece, PacketUnits, SizeType
  <1>3. \A i \in 1..Len(q) : q[i] = Packet(m)[i] /\ 1 + i - 1 = i
    <2> SUFFICES ASSUME NEW i \in 1..Len(q) PROVE q[i] = Packet(m)[i] /\ 1 + i - 1 = i  OBVIOUS
    <2>1. i \in 1..Size /\ 0 + i = i /\ 1 + i - 1 = i
      BY <1>1, SizeType
    <2>2. Packet(m)[i] = [msg |-> m, at |-> i]
      BY <2>1, PacketUnits
    <2>3. q[i] = [msg |-> m, at |-> 0 + i]
      BY DEF From
    <2> QED  BY <2>1, <2>2, <2>3
  <1>4. q = SubSeq(Packet(m), 1, Len(q))
    BY <1>2, <1>3, SeqEqual DEF Streams
  <1>5. Len(q) = Size => q = Packet(m)
    BY <1>3, PacketUnits, SeqEqual DEF Streams
  <1> QED  BY <1>4, <1>5, PacketUnits DEF Prefix

(* Nothing is the beginning of everything. *)
LEMMA FromNothing == <<>> \in Streams /\ Len(<<>>) = 0 /\ \A m, i : From(<<>>, m, i)
  BY DEF From, Streams

(* ------------------------- reading and writing a part --------------------- *)

(* What arrives next is what was next on its way. *)
LEMMA DeliverIncoming ==
  ASSUME SessionAssumption, NEW o \in SocketRec \cup ApiRec, NEW in \in Streams, NEW wire \in Streams,
         NEW m, Incoming(o, in, wire, m), wire # <<>>
  PROVE  Incoming(o, Append(in, Head(wire)), Tail(wire), m)
  <1>1. /\ Head(wire) \in Units /\ Tail(wire) \in Streams /\ Len(Tail(wire)) = Len(wire) - 1
        /\ \A i \in 1..Len(Tail(wire)) : Tail(wire)[i] = wire[i + 1]
        /\ Head(wire) = wire[1] /\ Len(wire) \in Nat \ {0}
    BY HeadTailProperties DEF Streams
  <1> DEFINE a == Append(in, Head(wire))
  <1>2. /\ a \in Streams /\ Len(a) = Len(in) + 1 /\ Len(in) \in Nat
        /\ \A i \in 1..Len(in) : a[i] = in[i]
        /\ a[Len(in) + 1] = wire[1]
    BY <1>1, AppendProperties DEF Streams
  <1>3. o.done \in Nat
    BY SizeType DEF SocketRec, ApiRec
  <1> HIDE DEF a
  <1>4. From(a, m, o.done)
    <2> SUFFICES ASSUME NEW j \in 1..Len(a) PROVE a[j] = [msg |-> m, at |-> o.done + j]
      BY DEF From
    <2>1. CASE j \in 1..Len(in)
      BY <1>2, <2>1 DEF Incoming, From
    <2>2. CASE j = Len(in) + 1
      <3>1. wire[1] = [msg |-> m, at |-> o.done + Len(in) + 1]
        BY <1>1 DEF Incoming, From
      <3>2. o.done + Len(in) + 1 = o.done + j
        BY <1>2, <1>3, <2>2
      <3> QED  BY <1>2, <2>2, <3>1, <3>2
    <2> QED  BY <1>2, <2>1, <2>2
  <1>5. From(Tail(wire), m, o.done + Len(a))
    <2> SUFFICES ASSUME NEW j \in 1..Len(Tail(wire))
                 PROVE  Tail(wire)[j] = [msg |-> m, at |-> o.done + Len(a) + j]
      BY DEF From
    <2>1. j + 1 \in 1..Len(wire) /\ o.done + Len(in) + (j + 1) = o.done + Len(a) + j
      <3>1. j \in 1..Len(wire) - 1
        BY <1>1
      <3>2. j \in Nat /\ Len(in) \in Nat /\ Len(a) = Len(in) + 1 /\ o.done \in Nat /\ Len(wire) \in Nat
        BY <1>1, <1>2, <1>3, <3>1
      <3> QED  BY <3>1, <3>2
    <2>2. wire[j + 1] = [msg |-> m, at |-> o.done + Len(in) + (j + 1)]
      BY <2>1 DEF Incoming, From
    <2> QED  BY <1>1, <2>1, <2>2
  <1>6. o.done + Len(a) + Len(Tail(wire)) <= Size
    BY <1>1, <1>2, <1>3, SizeType DEF Incoming
  <1> QED  BY <1>4, <1>5, <1>6 DEF Incoming, a

(* What Recv and RecvHead change of an object. *)
Same(o, p) ==
    /\ o \in SocketRec => p \in SocketRec /\ p.status = o.status
    /\ o \in ApiRec => p \in ApiRec /\ p.used = o.used /\ p.sock = o.sock /\ p.status = o.status
                       /\ p.init = o.init /\ p.login = o.login /\ p.req = o.req
                       /\ p.connecting = o.connecting

LEMMA RecvHeadReads ==
  ASSUME SessionAssumption, NEW o \in SocketRec \cup ApiRec, NEW in \in Streams, NEW wire \in Streams,
         NEW m, Incoming(o, in, wire, m), ~o.head, HeadOk(in)
  PROVE  /\ RecvHead(o, in).ret = "MORE" /\ Same(o, RecvHead(o, in).o)
         /\ RecvHead(o, in).o.head /\ RecvHead(o, in).in \in Streams
         /\ Incoming(RecvHead(o, in).o, RecvHead(o, in).in, wire, m)
         /\ RecvHead(o, in).o \in SocketRec \cup ApiRec
  <1> DEFINE h == SubSeq(in, 1, HeadLen)
             r == SubSeq(in, HeadLen + 1, Len(in))
             p == [o EXCEPT !.head = TRUE, !.buf = h, !.done = HeadLen, !.total = Size]
  <1>1. RecvHead(o, in).ret = "MORE" /\ RecvHead(o, in).o = p /\ RecvHead(o, in).in = r
    BY DEF RecvHead, Outcome
  <1>2. Len(in) \in Nat /\ HeadLen <= Len(in) /\ o.done = 0
    BY DEF HeadOk, Incoming, Streams
  <1>3. /\ h \in Streams /\ Len(h) = HeadLen /\ From(h, m, 0)
        /\ r \in Streams /\ Len(r) = Len(in) - HeadLen /\ From(r, m, HeadLen)
    <2>1. From(in, m, 0)
      BY <1>2 DEF Incoming
    <2>2. h \in Streams /\ Len(h) = HeadLen - 1 + 1 /\ From(h, m, 0 + 1 - 1)
      BY <1>2, <2>1, SizeType, Piece, FromPiece
    <2>3. r \in Streams /\ Len(r) = Len(in) - (HeadLen + 1) + 1 /\ From(r, m, 0 + (HeadLen + 1) - 1)
      BY <1>2, <2>1, SizeType, Piece, FromPiece
    <2>4. HeadLen - 1 + 1 = HeadLen /\ 0 + 1 - 1 = 0 /\ 0 + (HeadLen + 1) - 1 = HeadLen
          /\ Len(in) - (HeadLen + 1) + 1 = Len(in) - HeadLen
      BY <1>2, SizeType
    <2> QED  BY <2>2, <2>3, <2>4
  <1> HIDE DEF h, r
  <1>4. /\ Same(o, p) /\ p \in SocketRec \cup ApiRec
        /\ p.head = TRUE /\ p.buf = h /\ p.done = HeadLen /\ p.total = Size
    <2>1. HeadLen \in 0..Size /\ Size \in 0..Size
      BY SizeType
    <2>2. CASE o \in SocketRec
      BY <1>3, <2>1, <2>2 DEF Same, SocketRec, ApiRec
    <2>3. CASE o \in ApiRec
      BY <1>3, <2>1, <2>3 DEF Same, SocketRec, ApiRec
    <2> QED  BY <2>2, <2>3
  <1>5. m.type # "bad_head"
    <2>1. Head(in) = in[1] /\ 1 \in 1..Len(in)
      BY <1>2, SizeType DEF Streams
    <2>2. in[1] = [msg |-> m, at |-> 0 + 1]
      BY <1>2, <2>1 DEF Incoming, From
    <2> QED  BY <2>1, <2>2 DEF HeadOk
  <1>6. Incoming(p, r, wire, m)
    <2>1. From(wire, m, HeadLen + Len(r)) /\ HeadLen + Len(r) + Len(wire) <= Size
      <3>1. HeadLen + Len(r) = 0 + Len(in)
        BY <1>2, <1>3, SizeType
      <3> QED  BY <1>2, <3>1 DEF Incoming
    <2> HIDE DEF p
    <2> QED  BY <1>3, <1>4, <1>5, <2>1, SizeType DEF Incoming
  <1> HIDE DEF p
  <1> QED  BY <1>1, <1>3, <1>4, <1>6

(* _recv takes as much as there is of what is left. *)
LEMMA RecvReads ==
  ASSUME SessionAssumption, NEW o \in SocketRec \cup ApiRec, NEW in \in Streams, NEW wire \in Streams,
         NEW shut, NEW m, Incoming(o, in, wire, m), o.head, Recv(o, in, shut).ret # "THROW"
  PROVE  /\ Same(o, Recv(o, in, shut).o) /\ Recv(o, in, shut).in \in Streams
         /\ Recv(o, in, shut).o \in SocketRec \cup ApiRec
         /\ Recv(o, in, shut).ret = "MORE" =>
               Incoming(Recv(o, in, shut).o, Recv(o, in, shut).in, wire, m)
         /\ Recv(o, in, shut).ret = "OK" =>
               /\ Recv(o, in, shut).in = <<>> /\ wire = <<>>
               /\ Whole(Recv(o, in, shut).o) = m /\ m.type # "bad_head"
  <1> DEFINE n == Least(Left(o), Len(in))
             h == SubSeq(in, 1, n)
             r == SubSeq(in, n + 1, Len(in))
             b == SubSeq(o.buf, 1, o.done) \o h
             p == [o EXCEPT !.buf = b, !.done = o.done + n]
  <1>1. /\ o.done \in Nat /\ HeadLen <= o.done /\ o.done < Size /\ o.total = Size
        /\ Len(o.buf) = o.done /\ From(o.buf, m, 0) /\ m.type # "bad_head"
        /\ o.buf \in Streams /\ From(in, m, o.done) /\ From(wire, m, o.done + Len(in))
        /\ o.done + Len(in) + Len(wire) <= Size
    BY SizeType DEF Incoming, SocketRec, ApiRec
  <1>a. Len(in) \in Nat /\ Len(wire) \in Nat /\ Left(o) = Size - o.done /\ Size \in Nat
    BY <1>1, SizeType DEF Left, Streams
  <1>b. n = IF Left(o) < Len(in) THEN Left(o) ELSE Len(in)
    BY DEF Least
  <1> HIDE DEF n
  <1>2. /\ n \in 0..Len(in) /\ o.done + n <= Size /\ n <= Size - o.done /\ Len(in) \in Nat
        /\ Len(wire) \in Nat /\ (n < Size - o.done \/ n = Size - o.done)
        /\ n < Size - o.done => n = Len(in)
    BY <1>1, <1>a, <1>b
  <1>3. CASE n = 0
    <2>1. Recv(o, in, shut) = Outcome("MORE", o, in)
      BY <1>3 DEF Recv, Outcome, n
    <2>2. Same(o, o)
      BY DEF Same
    <2> QED  BY <2>1, <2>2 DEF Outcome
  <1>4. CASE n # 0
    <2>1. /\ Recv(o, in, shut).ret = IF n = Left(o) THEN "OK" ELSE "MORE"
          /\ Recv(o, in, shut).o = p /\ Recv(o, in, shut).in = r
      BY <1>4 DEF Recv, Outcome, n
    <2>2. /\ h \in Streams /\ Len(h) = n /\ From(h, m, o.done)
          /\ r \in Streams /\ Len(r) = Len(in) - n /\ From(r, m, o.done + n)
      <3>a. /\ 1 \in 1..Len(in) + 1 /\ n \in 1 - 1..Len(in)
            /\ n + 1 \in 1..Len(in) + 1 /\ Len(in) \in (n + 1) - 1..Len(in)
        BY <1>2
      <3>1. h \in Streams /\ Len(h) = n - 1 + 1 /\ From(h, m, o.done + 1 - 1)
        BY <1>1, <3>a, Piece, FromPiece
      <3>2. r \in Streams /\ Len(r) = Len(in) - (n + 1) + 1 /\ From(r, m, o.done + (n + 1) - 1)
        BY <1>1, <3>a, Piece, FromPiece
      <3>3. n - 1 + 1 = n /\ o.done + 1 - 1 = o.done /\ o.done + (n + 1) - 1 = o.done + n
            /\ Len(in) - (n + 1) + 1 = Len(in) - n
        BY <1>1, <1>2
      <3> QED  BY <3>1, <3>2, <3>3
    <2> HIDE DEF h, r
    <2>3. b \in Streams /\ Len(b) = o.done + n /\ From(b, m, 0)
      <3>1. SubSeq(o.buf, 1, o.done) = o.buf
        BY <1>1, SubSeqFull DEF Streams
      <3>2. 0 + Len(o.buf) = o.done
        BY <1>1
      <3>3. /\ o.buf \o h \in Streams /\ Len(o.buf \o h) = Len(o.buf) + Len(h)
            /\ From(o.buf \o h, m, 0)
        BY <1>1, <2>2, <3>2, FromConcat
      <3> QED  BY <1>1, <2>2, <3>1, <3>3
    <2> HIDE DEF b
    <2>4. /\ Same(o, p) /\ p \in SocketRec \cup ApiRec
          /\ p.head = TRUE /\ p.buf = b /\ p.done = o.done + n /\ p.total = Size
      <3>1. o.done + n \in 0..Size
        BY <1>1, <1>2, SizeType
      <3>2. CASE o \in SocketRec
        BY <1>1, <2>3, <3>1, <3>2 DEF Same, SocketRec, ApiRec
      <3>3. CASE o \in ApiRec
        BY <1>1, <2>3, <3>1, <3>3 DEF Same, SocketRec, ApiRec
      <3> QED  BY <3>2, <3>3
    <2> HIDE DEF p
    <2>5. CASE n < Size - o.done
      <3>1. From(wire, m, (o.done + n) + Len(r)) /\ (o.done + n) + Len(r) + Len(wire) <= Size
        <4>1. (o.done + n) + Len(r) = o.done + Len(in)
          BY <1>1, <1>2, <2>2
        <4> QED  BY <1>1, <4>1
      <3>2. Incoming(p, r, wire, m)
        <4>1. HeadLen <= p.done /\ p.done < Size /\ Len(p.buf) = p.done
          BY <1>1, <1>2, <2>3, <2>4, <2>5, SizeType
        <4>2. From(r, m, p.done) /\ From(p.buf, m, 0)
          BY <2>2, <2>3, <2>4
        <4>3. From(wire, m, p.done + Len(r)) /\ p.done + Len(r) + Len(wire) <= Size
          BY <2>4, <3>1
        <4> QED  BY <1>1, <2>4, <4>1, <4>2, <4>3 DEF Incoming
      <3>3. n # Left(o)
        BY <1>1, <1>2, <2>5, SizeType DEF Left
      <3> QED  BY <2>1, <2>2, <2>4, <3>2, <3>3
    <2>6. CASE n = Size - o.done
      <3>1. Len(r) = 0 /\ Len(wire) = 0
        BY <1>1, <1>2, <2>2, <2>6, SizeType
      <3>2. r = <<>> /\ wire = <<>>
        BY <2>2, <3>1, EmptySeq DEF Streams
      <3>3. Len(b) = Size
        BY <1>1, <1>2, <2>3, <2>6, SizeType
      <3>4. Whole(p) = m
        <4>1. Head(b) = b[1] /\ 1 \in 1..Len(b)
          BY <2>3, <3>3, SizeType DEF Streams
        <4>2. b[1] = [msg |-> m, at |-> 0 + 1]
          BY <2>3, <4>1 DEF From
        <4> QED  BY <2>4, <4>1, <4>2 DEF Whole
      <3>5. n = Left(o)
        BY <1>1, <2>6 DEF Left
      <3> QED  BY <1>1, <2>1, <2>2, <2>4, <3>2, <3>4, <3>5
    <2> QED  BY <1>2, <2>5, <2>6
  <1> QED  BY <1>3, <1>4

(* Reading a part of the packet m leaves the rest of it to be read; once the packet is
   whole, it is m and nothing is left.                                       *)
LEMMA ReadsPacket ==
  ASSUME SessionAssumption, NEW o \in SocketRec \cup ApiRec, NEW in \in Streams, NEW wire \in Streams,
         NEW shut, NEW m, Incoming(o, in, wire, m), RecvPacket(o, in, shut).ret # "THROW"
  PROVE  /\ Same(o, RecvPacket(o, in, shut).o) /\ RecvPacket(o, in, shut).in \in Streams
         /\ RecvPacket(o, in, shut).ret = "MORE" =>
               Incoming(RecvPacket(o, in, shut).o, RecvPacket(o, in, shut).in, wire, m)
         /\ RecvPacket(o, in, shut).ret = "OK" =>
               /\ RecvPacket(o, in, shut).in = <<>> /\ wire = <<>>
               /\ Whole(RecvPacket(o, in, shut).o) = m /\ m.type # "bad_head"
  <1>1. CASE o.head
    <2>1. RecvPacket(o, in, shut) = Recv(o, in, shut)
      BY <1>1 DEF RecvPacket, Outcome
    <2> QED  BY <1>1, <2>1, RecvReads
  <1>2. CASE ~o.head
    <2>1. HeadOk(in)
      BY <1>2 DEF RecvPacket, RecvHead, Outcome
    <2> DEFINE h == RecvHead(o, in)
    <2>2. /\ h.ret = "MORE" /\ Same(o, h.o) /\ h.o.head /\ h.in \in Streams
          /\ Incoming(h.o, h.in, wire, m) /\ h.o \in SocketRec \cup ApiRec
      BY <1>2, <2>1, RecvHeadReads
    <2>3. RecvPacket(o, in, shut) = Recv(h.o, h.in, shut)
      BY <1>2, <2>2 DEF RecvPacket
    <2> HIDE DEF h
    <2>4. /\ Same(h.o, RecvPacket(o, in, shut).o) /\ RecvPacket(o, in, shut).in \in Streams
          /\ RecvPacket(o, in, shut).ret = "MORE" =>
                Incoming(RecvPacket(o, in, shut).o, RecvPacket(o, in, shut).in, wire, m)
          /\ RecvPacket(o, in, shut).ret = "OK" =>
                /\ RecvPacket(o, in, shut).in = <<>> /\ wire = <<>>
                /\ Whole(RecvPacket(o, in, shut).o) = m /\ m.type # "bad_head"
      BY <2>2, <2>3, RecvReads
    <2>5. Same(o, RecvPacket(o, in, shut).o)
      BY <2>2, <2>4 DEF Same
    <2> QED  BY <2>4, <2>5
  <1> QED  BY <1>1, <1>2

SamePeer(p, q) ==
    /\ p \in ClientRec => q \in ClientRec
    /\ p \in BackRec => q \in BackRec /\ q.state = p.state /\ q.logged = p.logged
    /\ q.wire = p.wire /\ q.rx = p.rx /\ q.shut = p.shut

(* Writing a part of the packet m leaves the rest of it to be written; after the last
   part the peer has all of m, unless it has closed.                         *)
LEMMA SendsPart ==
  ASSUME SessionAssumption, NEW o \in SocketRec \cup ApiRec, NEW peer \in ClientRec \cup BackRec,
         NEW m \in Messages, Outgoing(o, peer, m), NEW n \in 0..Left(o)
  PROVE  /\ SamePeer(peer, Receives(peer, Part(o, n)))
         /\ Same(o, Sent(o, n)) /\ Sent(o, n).head = o.head
         /\ n < Left(o) => Outgoing(Sent(o, n), Receives(peer, Part(o, n)), m)
         /\ n = Left(o) => \/ peer.shut /\ Receives(peer, Part(o, n)).tx = <<>>
                           \/ Receives(peer, Part(o, n)).tx = Packet(m)
  <1> DEFINE q == Receives(peer, Part(o, n))
             r == Sent(o, n)
             u == Part(o, n)
  <1>1. /\ o.done \in Nat /\ o.done < Size /\ o.total = Size /\ Size \in Nat /\ o.buf = Packet(m)
        /\ Left(o) = Size - o.done
    BY SizeType DEF Outgoing, SocketRec, ApiRec, Left
  <1>2. n \in Nat /\ o.done + n <= Size /\ (n = Left(o) <=> o.done + n = Size)
        /\ (n < Left(o) <=> o.done + n < Size)
    BY <1>1
  <1>3. u \in Streams /\ Len(u) = n /\ From(u, m, o.done)
    <2>1. /\ Packet(m) \in Streams /\ Len(Packet(m)) = Size /\ From(Packet(m), m, 0)
      BY PacketUnits
    <2>2. o.done + 1 \in 1..Size + 1 /\ o.done + n \in (o.done + 1) - 1..Size
      BY <1>1, <1>2
    <2>3. u = SubSeq(Packet(m), o.done + 1, o.done + n)
      BY <1>1 DEF Part
    <2>4. u \in Streams /\ Len(u) = (o.done + n) - (o.done + 1) + 1
          /\ From(u, m, 0 + (o.done + 1) - 1)
      BY <2>1, <2>2, <2>3, Piece, FromPiece
    <2>5. (o.done + n) - (o.done + 1) + 1 = n /\ 0 + (o.done + 1) - 1 = o.done
      BY <1>1, <1>2
    <2> QED  BY <2>4, <2>5
  <1>4. /\ Same(o, r) /\ r.head = o.head /\ r.buf = o.buf /\ r.total = o.total
        /\ r.done = o.done + n
    <2>1. r = [o EXCEPT !.done = o.done + n] /\ o.done + n \in 0..Size
      BY <1>1, <1>2 DEF Sent
    <2> HIDE DEF r
    <2>2. CASE o \in SocketRec
      BY <2>1, <2>2 DEF Same, SocketRec, ApiRec
    <2>3. CASE o \in ApiRec
      BY <2>1, <2>3 DEF Same, SocketRec, ApiRec
    <2> QED  BY <2>2, <2>3
  <1> HIDE DEF r, u
  <1>5. CASE peer.shut
    <2>1. q = peer /\ peer.tx = <<>>
      BY <1>5 DEF Receives, Outgoing
    <2>2. SamePeer(peer, q)
      BY <2>1 DEF SamePeer
    <2> HIDE DEF q
    <2>3. o.done + n < Size => Outgoing(r, q, m)
      BY <1>1, <1>4, <1>5, <2>1 DEF Outgoing
    <2> QED  BY <1>2, <1>4, <1>5, <2>1, <2>2, <2>3 DEF q, r
  <1>6. CASE ~peer.shut
    <2>1. peer.tx \in Streams /\ Len(peer.tx) = o.done /\ From(peer.tx, m, 0)
      BY <1>6 DEF Outgoing, ClientRec, BackRec
    <2>2. /\ peer.tx \o u \in Streams /\ Len(peer.tx \o u) = o.done + n
          /\ From(peer.tx \o u, m, 0)
      <3>1. 0 + Len(peer.tx) = o.done
        BY <1>1, <2>1
      <3> QED  BY <1>3, <2>1, <3>1, FromConcat
    <2>3. SamePeer(peer, q) /\ q.tx = peer.tx \o u /\ q.shut = peer.shut
      <3>1. q = [peer EXCEPT !.tx = peer.tx \o u]
        BY <1>6 DEF Receives, u
      <3> HIDE DEF q
      <3>2. CASE peer \in ClientRec
        BY <2>2, <3>1, <3>2 DEF SamePeer, ClientRec, BackRec
      <3>3. CASE peer \in BackRec
        BY <2>2, <3>1, <3>3 DEF SamePeer, ClientRec, BackRec
      <3> QED  BY <3>2, <3>3
    <2> HIDE DEF q
    <2>4. o.done + n < Size => Outgoing(r, q, m)
      BY <1>1, <1>4, <1>6, <2>2, <2>3 DEF Outgoing
    <2>5. o.done + n = Size => q.tx = Packet(m)
      BY <1>2, <2>2, <2>3, FromStart
    <2> QED  BY <1>2, <1>4, <2>3, <2>4, <2>5 DEF q, r
  <1> QED  BY <1>5, <1>6

(* ------------------------- what a step leaves alone ----------------------- *)

LEMMA TypeParts ==
  TypeOK <=>
    /\ kind \in Kinds /\ calls \in 0..Calls /\ call \in [Socket -> 0..Calls]
    /\ sock \in [Socket -> SocketRec] /\ cev \in [Socket -> SUBSET {"READ", "WRITE"}]
    /\ req \in [Socket -> Messages \cup {NoMessage}] /\ cl \in [Socket -> ClientRec]
    /\ api \in ApiRec /\ aev \subseteq {"READ", "WRITE"} /\ bk \in BackRec
  BY DEF TypeOK, SocketRec, ApiRec, ClientRec, BackRec

LEMMA TypePartsNext ==
  TypeOK' <=>
    /\ kind' \in Kinds /\ calls' \in 0..Calls /\ call' \in [Socket -> 0..Calls]
    /\ sock' \in [Socket -> SocketRec] /\ cev' \in [Socket -> SUBSET {"READ", "WRITE"}]
    /\ req' \in [Socket -> Messages \cup {NoMessage}] /\ cl' \in [Socket -> ClientRec]
    /\ api' \in ApiRec /\ aev' \subseteq {"READ", "WRITE"} /\ bk' \in BackRec
  BY DEF TypeOK, SocketRec, ApiRec, ClientRec, BackRec

LEMMA SameClient ==
  ASSUME NEW s \in Socket, ClientOk(s),
         sock'[s] = sock[s], cev'[s] = cev[s], call'[s] = call[s], cl'[s] = cl[s], req'[s] = req[s],
         sock[s].status = "PROCESS" => api'.used /\ api'.sock = s
  PROVE  ClientOk(s)'
  BY DEF ClientOk, FreeClient, ReadClient, ProcessClient, SendClient, Own

(* Only the client of the api is in process, so what a step does for one client leaves
   the others as they are.                                                   *)
LEMMA OtherClients ==
  ASSUME \A x \in Socket : ClientOk(x), NEW s \in Socket, ClientOk(s)',
         \A x \in Socket \ {s} : /\ sock'[x] = sock[x] /\ cev'[x] = cev[x] /\ call'[x] = call[x]
                                 /\ cl'[x] = cl[x] /\ req'[x] = req[x],
         (api.used /\ api.sock # s) => api'.used /\ api'.sock = api.sock
  PROVE  \A x \in Socket : ClientOk(x)'
  <1> SUFFICES ASSUME NEW x \in Socket \ {s} PROVE ClientOk(x)'  OBVIOUS
  <1>1. sock[x].status = "PROCESS" => api.used /\ api.sock = x
    BY DEF ClientOk, ProcessClient
  <1> QED  BY <1>1, SameClient

(* A step of the api for none of them. *)
LEMMA SameClients ==
  ASSUME \A x \in Socket : ClientOk(x), UNCHANGED client, api'.used = api.used, api'.sock = api.sock
  PROVE  \A x \in Socket : ClientOk(x)'
  <1> SUFFICES ASSUME NEW x \in Socket PROVE ClientOk(x)'  OBVIOUS
  <1>1. sock[x].status = "PROCESS" => api.used /\ api.sock = x
    BY DEF ClientOk, ProcessClient
  <1> QED  BY <1>1, SameClient DEF client

LEMMA SameApi ==
  ASSUME ApiOk, UNCHANGED <<kind, api, aev, bk>>,
         api.used => sock'[api.sock].status = "PROCESS" /\ call'[api.sock] = call[api.sock]
  PROVE  ApiOk'
  <1>1. CASE api.used
    <2>1. CallMsg' = CallMsg
      BY <1>1 DEF CallMsg
    <2>2. UsedApiOk
      BY <1>1 DEF ApiOk
    <2>3. UsedApiOk'
      BY <1>1, <2>1, <2>2
      DEF UsedApiOk, Connects, SendsLogin, AwaitsLogin, SendsCall, AwaitsCall, LoggedIn, Awaiting,
          LoginTypes, CallTypes, Fresh, Nothing, Silence
    <2> QED  BY <1>1, <2>3 DEF ApiOk
  <1>2. CASE ~api.used
    BY <1>2 DEF ApiOk, FreeApiOk, Fresh, Nothing, Silence
  <1> QED  BY <1>1, <1>2

(* encode to a client that has got nothing yet. *)
LEMMA Replies ==
  ASSUME SessionAssumption, TypeOK, NEW s \in Socket, NEW m \in Messages, m \in Own(s), Reply(s, m),
         call[s] > 0, call' = call, cl'[s].tx = <<>>
  PROVE  /\ ClientOk(s)' /\ sock' \in [Socket -> SocketRec]
         /\ cev' \in [Socket -> SUBSET {"READ", "WRITE"}]
         /\ sock'[s].status = "SEND" /\ Whole(sock'[s]) = m
         /\ \A x \in Socket \ {s} : sock'[x] = sock[x] /\ cev'[x] = cev[x]
  <1>1. Packet(m) \in Streams /\ Head(Packet(m)).msg = m /\ 0 \in 0..Size /\ Size \in 0..Size /\ 0 < Size
    BY PacketUnits, SizeType
  <1> DEFINE o == [sock[s] EXCEPT !.buf = Packet(m), !.done = 0, !.total = Size, !.status = "SEND"]
  <1>2. sock[s] \in SocketRec /\ sock \in [Socket -> SocketRec]
        /\ cev \in [Socket -> SUBSET {"READ", "WRITE"}]
    BY TypeParts
  <1>3. o \in SocketRec /\ o.buf = Packet(m) /\ o.done = 0 /\ o.total = Size /\ o.status = "SEND"
    BY <1>1, <1>2 DEF SocketRec
  <1>4. sock' = [sock EXCEPT ![s] = o] /\ cev' = [cev EXCEPT ![s] = {"WRITE"}]
    BY DEF Reply, Loaded
  <1> HIDE DEF o
  <1>5. /\ sock'[s] = o /\ cev'[s] = {"WRITE"} /\ sock' \in [Socket -> SocketRec]
        /\ cev' \in [Socket -> SUBSET {"READ", "WRITE"}]
        /\ \A x \in Socket \ {s} : sock'[x] = sock[x] /\ cev'[x] = cev[x]
    BY <1>2, <1>3, <1>4
  <1>6. Outgoing(sock'[s], cl'[s], m)
    BY <1>1, <1>3, <1>5, FromNothing DEF Outgoing
  <1>7. SendClient(s)'
    BY <1>5, <1>6 DEF SendClient, Own
  <1> QED  BY <1>1, <1>3, <1>5, <1>7 DEF ClientOk, Whole

(* The types of what the relay and the others make up. *)
LEMMA MessageTypes ==
  ASSUME SessionAssumption, TypeOK
  PROVE  /\ \A t \in Types, k \in 0..Calls : Message(t, k) \in Messages
         /\ \A s \in Socket : call[s] \in 0..Calls
         /\ \A s \in Socket : \A m \in Own(s) : m \in Messages /\ m.call = call[s]
                                                /\ m.type \in {"answer", "error"}
         /\ LoginMsg \in Messages
  <1>1. \A t \in Types, k \in 0..Calls : Message(t, k) \in Messages
    BY DEF Message, Messages
  <1>2. \A s \in Socket : call[s] \in 0..Calls
    BY DEF TypeOK
  <1>3. LoginMsg \in Messages
    BY <1>1 DEF LoginMsg, Types, SessionAssumption
  <1>4. \A s \in Socket : \A m \in Own(s) : m \in Messages /\ m.call = call[s]
                                            /\ m.type \in {"answer", "error"}
    BY <1>1, <1>2 DEF Own, Types, Message
  <1> QED  BY <1>1, <1>2, <1>3, <1>4

LEMMA FreshTypes ==
  ASSUME SessionAssumption
  PROVE  FreeSocket \in SocketRec /\ FreeApi \in ApiRec /\ NoLink \in BackRec /\ Silent \in ClientRec
  BY SizeType, FromNothing
  DEF FreeSocket, FreeApi, NoLink, Silent, SocketRec, ApiRec, BackRec, ClientRec

LEMMA InitInv == SessionAssumption /\ Init => IInv
  <1> SUFFICES ASSUME SessionAssumption, Init PROVE IInv  OBVIOUS
  <1>1. TypeOK
    <2>1. 0 \in 0..Calls
      BY DEF SessionAssumption
    <2> QED  BY <2>1, FreshTypes, TypeParts DEF Init
  <1>2. \A s \in Socket : ClientOk(s)
    BY DEF Init, ClientOk, FreeClient, FreeSocket
  <1>3. ApiOk
    BY DEF Init, ApiOk, FreeApiOk, Fresh, FreeApi
  <1> QED  BY <1>1, <1>2, <1>3 DEF IInv

(* ------------------------------- the clients ------------------------------ *)

LEMMA AcceptStep == ASSUME SessionAssumption, IInv, NEW s \in Socket, Accept(s) PROVE IInv'
  <1>1. /\ sock[s] = FreeSocket /\ sock[s].status = "FREE" /\ calls + 1 \in 0..Calls /\ calls + 1 > 0
        /\ sock \in [Socket -> SocketRec] /\ cl \in [Socket -> ClientRec]
        /\ call \in [Socket -> 0..Calls] /\ cev \in [Socket -> SUBSET {"READ", "WRITE"}]
    <2>1. sock[s].status = "FREE" /\ sock[s] = FreeSocket
      BY DEF IInv, ClientOk, FreeClient, Accept
    <2>2. calls \in 0..Calls /\ calls < Calls
      BY TypeParts DEF IInv, Accept
    <2>3. calls + 1 \in 0..Calls /\ calls + 1 > 0
      BY <2>2 DEF SessionAssumption
    <2> QED  BY <2>1, <2>3, TypeParts DEF IInv
  <1>2. PICK t \in {"request", "bad_head"} :
           cl' = [cl EXCEPT ![s] = [Silent EXCEPT !.wire = Packet(Message(t, calls + 1))]]
    BY DEF Accept
  <1> DEFINE m == Message(t, calls + 1)
             c == [Silent EXCEPT !.wire = Packet(m)]
             o == [FreeSocket EXCEPT !.status = "READ"]
  <1>3. m \in Messages /\ m.call = calls + 1
    BY <1>1, MessageTypes DEF IInv, Types, Message
  <1>4. Packet(m) \in Streams /\ Len(Packet(m)) = Size /\ From(Packet(m), m, 0)
    BY <1>3, PacketUnits
  <1> HIDE DEF m
  <1>5. /\ c \in ClientRec /\ c.wire = Packet(m) /\ c.rx = <<>> /\ c.tx = <<>>
    BY <1>4, FreshTypes DEF Silent, ClientRec
  <1>6. o \in SocketRec /\ o.status = "READ" /\ o.done = 0 /\ ~o.head
    BY FreshTypes DEF FreeSocket, SocketRec
  <1>7. /\ sock' = [sock EXCEPT ![s] = o] /\ cl' = [cl EXCEPT ![s] = c]
        /\ cev' = [cev EXCEPT ![s] = {"READ"}] /\ call' = [call EXCEPT ![s] = calls + 1]
        /\ calls' = calls + 1 /\ UNCHANGED <<kind, req, api, aev, bk>>
    BY <1>1, <1>2 DEF Accept, m
  <1> HIDE DEF c, o
  <1>8. TypeOK'
    BY <1>1, <1>5, <1>6, <1>7, TypeParts, TypePartsNext DEF IInv
  <1>9. ClientOk(s)'
    <2>1. sock'[s] = o /\ cl'[s] = c /\ cev'[s] = {"READ"} /\ call'[s] = calls + 1
      BY <1>1, <1>7
    <2>2. Incoming(o, c.rx, c.wire, m)
      <3>1. 0 + Len(<<>>) = 0 /\ 0 + Len(<<>>) + Size <= Size
        BY SizeType, FromNothing
      <3> QED  BY <1>4, <1>5, <1>6, <3>1, FromNothing DEF Incoming
    <2>3. ReadClient(s)'
      BY <1>1, <1>3, <1>5, <2>1, <2>2 DEF ReadClient
    <2> QED  BY <1>6, <2>1, <2>3 DEF ClientOk
  <1>10. \A x \in Socket \ {s} : /\ sock'[x] = sock[x] /\ cev'[x] = cev[x] /\ call'[x] = call[x]
                                 /\ cl'[x] = cl[x] /\ req'[x] = req[x]
    BY <1>1, <1>7
  <1>11. \A x \in Socket : ClientOk(x)'
    BY <1>7, <1>9, <1>10, OtherClients DEF IInv
  <1>12. api.used => api.sock \in Socket /\ api.sock # s /\ sock[api.sock].status = "PROCESS"
    BY <1>1 DEF IInv, ApiOk, UsedApiOk
  <1>13. ApiOk'
    BY <1>7, <1>10, <1>12, SameApi DEF IInv
  <1> QED  BY <1>8, <1>11, <1>13 DEF IInv

(* What a handler reads from a client that is still sending its request. *)
LEMMA ClientReadsPart ==
  ASSUME SessionAssumption, IInv, NEW s \in Socket, Readable(s)
  PROVE  /\ sock[s].status = "READ" /\ ReadClient(s)
         /\ api.used => api.sock \in Socket /\ api.sock # s /\ sock[api.sock].status = "PROCESS"
         /\ FromClient(s).ret # "THROW" => FromClient(s).o \in SocketRec
                                           /\ FromClient(s).o.status = "READ"
                                           /\ FromClient(s).in \in Streams
         /\ FromClient(s).ret = "MORE" =>
               \E m \in Messages : m.call = call[s]
                                   /\ Incoming(FromClient(s).o, FromClient(s).in, cl[s].wire, m)
         /\ FromClient(s).ret = "OK" =>
               Whole(FromClient(s).o) \in Messages /\ Whole(FromClient(s).o).call = call[s]
  <1>1. sock[s].status = "READ" /\ ReadClient(s)
    BY DEF Readable, IInv, ClientOk
  <1>2. api.used => api.sock \in Socket /\ api.sock # s /\ sock[api.sock].status = "PROCESS"
    BY <1>1 DEF IInv, ApiOk, UsedApiOk
  <1>3. sock[s] \in SocketRec /\ cl[s].rx \in Streams /\ cl[s].wire \in Streams
    BY TypeParts DEF IInv, ClientRec
  <1>4. PICK m \in Messages : m.call = call[s] /\ Incoming(sock[s], cl[s].rx, cl[s].wire, m)
    BY <1>1 DEF ReadClient
  <1>5. FromClient(s).ret # "THROW" =>
          /\ Same(sock[s], FromClient(s).o) /\ FromClient(s).in \in Streams
          /\ FromClient(s).ret = "MORE" => Incoming(FromClient(s).o, FromClient(s).in, cl[s].wire, m)
          /\ FromClient(s).ret = "OK" => Whole(FromClient(s).o) = m
    BY <1>3, <1>4, ReadsPacket DEF FromClient
  <1> QED  BY <1>1, <1>2, <1>3, <1>4, <1>5 DEF Same

LEMMA ReadRequestStep == ASSUME SessionAssumption, IInv, NEW s \in Socket, ReadRequest(s) PROVE IInv'
  <1> DEFINE o == FromClient(s).o
             in == FromClient(s).in
  <1>1. /\ Readable(s) /\ FromClient(s).ret = "MORE"
        /\ sock' = [sock EXCEPT ![s] = o] /\ cl' = [cl EXCEPT ![s].rx = in]
        /\ UNCHANGED <<kind, calls, call, cev, req, api, aev, bk>>
    BY DEF ReadRequest
  <1>2. /\ sock[s].status = "READ" /\ ReadClient(s)
        /\ api.used => api.sock \in Socket /\ api.sock # s /\ sock[api.sock].status = "PROCESS"
        /\ o \in SocketRec /\ o.status = "READ" /\ in \in Streams
        /\ \E m \in Messages : m.call = call[s] /\ Incoming(o, in, cl[s].wire, m)
    BY <1>1, ClientReadsPart
  <1> HIDE DEF o, in
  <1>3. sock \in [Socket -> SocketRec] /\ cl \in [Socket -> ClientRec]
    BY TypeParts DEF IInv
  <1>4. /\ sock'[s] = o /\ sock' \in [Socket -> SocketRec]
        /\ \A x \in Socket \ {s} : sock'[x] = sock[x]
    BY <1>1, <1>2, <1>3
  <1>5. /\ cl'[s] \in ClientRec /\ cl'[s].rx = in /\ cl'[s].wire = cl[s].wire /\ cl'[s].tx = cl[s].tx
        /\ \A x \in Socket \ {s} : cl'[x] = cl[x]
    BY <1>1, <1>2, <1>3 DEF ClientRec
  <1>6. cl' \in [Socket -> ClientRec]
    BY <1>1, <1>3, <1>5
  <1>7. TypeOK'
    BY <1>1, <1>4, <1>6, TypeParts, TypePartsNext DEF IInv
  <1>8. ClientOk(s)'
    BY <1>1, <1>2, <1>4, <1>5 DEF ClientOk, ReadClient
  <1>9. \A x \in Socket : ClientOk(x)'
    BY <1>1, <1>4, <1>5, <1>8, OtherClients DEF IInv
  <1>10. ApiOk'
    BY <1>1, <1>2, <1>4, SameApi DEF IInv
  <1> QED  BY <1>7, <1>9, <1>10 DEF IInv

LEMMA ErrorIsOwn ==
  ASSUME SessionAssumption, IInv, NEW s \in Socket
  PROVE  Message("error", call[s]) \in Own(s) /\ Message("error", call[s]) \in Messages
  BY MessageTypes DEF IInv, Own, Types

LEMMA ReadRequestFailsStep ==
  ASSUME SessionAssumption, IInv, NEW s \in Socket, ReadRequestFails(s) PROVE IInv'
  <1>1. /\ Readable(s) /\ Reply(s, Message("error", call[s]))
        /\ UNCHANGED <<kind, calls, call, req, cl, api, aev, bk>>
    BY DEF ReadRequestFails, WriteError
  <1>2. /\ ReadClient(s)
        /\ api.used => api.sock \in Socket /\ api.sock # s /\ sock[api.sock].status = "PROCESS"
    BY <1>1, ClientReadsPart
  <1>3. /\ ClientOk(s)' /\ sock' \in [Socket -> SocketRec]
        /\ cev' \in [Socket -> SUBSET {"READ", "WRITE"}]
        /\ \A x \in Socket \ {s} : sock'[x] = sock[x] /\ cev'[x] = cev[x]
    BY <1>1, <1>2, ErrorIsOwn, Replies DEF IInv, ReadClient
  <1>4. TypeOK'
    BY <1>1, <1>3, TypeParts, TypePartsNext DEF IInv
  <1>5. \A x \in Socket : ClientOk(x)'
    BY <1>1, <1>3, OtherClients DEF IInv
  <1>6. ApiOk'
    BY <1>1, <1>2, <1>3, SameApi DEF IInv
  <1> QED  BY <1>4, <1>5, <1>6 DEF IInv

(* RECV_OK: the request is decoded, and it is the client's own. *)
LEMMA ReceivesOwn ==
  ASSUME SessionAssumption, IInv, NEW s \in Socket, Received(s)
  PROVE  /\ Readable(s) /\ ReadClient(s) /\ UNCHANGED <<kind, calls, call>>
         /\ api.used => api.sock \in Socket /\ api.sock # s /\ sock[api.sock].status = "PROCESS"
         /\ FromClient(s).o \in SocketRec
         /\ req' \in [Socket -> Messages \cup {NoMessage}]
         /\ req'[s] \in Messages /\ req'[s].call = call[s]
         /\ cl' \in [Socket -> ClientRec] /\ cl'[s].tx = <<>>
         /\ \A x \in Socket \ {s} : req'[x] = req[x] /\ cl'[x] = cl[x]
  <1> DEFINE w == Whole(FromClient(s).o)
             in == FromClient(s).in
  <1>1. /\ Readable(s) /\ FromClient(s).ret = "OK" /\ req' = [req EXCEPT ![s] = w]
        /\ cl' = [cl EXCEPT ![s].rx = in] /\ UNCHANGED <<kind, calls, call>>
    BY DEF Received
  <1>2. /\ ReadClient(s) /\ FromClient(s).o \in SocketRec /\ in \in Streams
        /\ w \in Messages /\ w.call = call[s]
        /\ api.used => api.sock \in Socket /\ api.sock # s /\ sock[api.sock].status = "PROCESS"
    BY <1>1, ClientReadsPart
  <1> HIDE DEF w, in
  <1>3. req \in [Socket -> Messages \cup {NoMessage}] /\ cl \in [Socket -> ClientRec]
    BY TypeParts DEF IInv
  <1>4. /\ cl'[s] \in ClientRec /\ cl'[s].tx = cl[s].tx
        /\ \A x \in Socket \ {s} : cl'[x] = cl[x]
    BY <1>1, <1>2, <1>3 DEF ClientRec
  <1>5. cl' \in [Socket -> ClientRec]
    BY <1>1, <1>3, <1>4
  <1>6. /\ req' \in [Socket -> Messages \cup {NoMessage}] /\ req'[s] = w
        /\ \A x \in Socket \ {s} : req'[x] = req[x]
    BY <1>1, <1>2, <1>3
  <1> QED  BY <1>1, <1>2, <1>4, <1>5, <1>6 DEF ReadClient

LEMMA RefuseStep == ASSUME SessionAssumption, IInv, NEW s \in Socket, Refuse(s) PROVE IInv'
  <1>1. Received(s) /\ Reply(s, Message("error", call[s])) /\ UNCHANGED <<api, aev, bk>>
    BY DEF Refuse, WriteError
  <1>2. /\ ReadClient(s) /\ UNCHANGED <<kind, calls, call>>
        /\ api.used => api.sock \in Socket /\ api.sock # s /\ sock[api.sock].status = "PROCESS"
        /\ req' \in [Socket -> Messages \cup {NoMessage}]
        /\ cl' \in [Socket -> ClientRec] /\ cl'[s].tx = <<>>
        /\ \A x \in Socket \ {s} : req'[x] = req[x] /\ cl'[x] = cl[x]
    BY <1>1, ReceivesOwn
  <1>3. /\ ClientOk(s)' /\ sock' \in [Socket -> SocketRec]
        /\ cev' \in [Socket -> SUBSET {"READ", "WRITE"}]
        /\ \A x \in Socket \ {s} : sock'[x] = sock[x] /\ cev'[x] = cev[x]
    BY <1>1, <1>2, ErrorIsOwn, Replies DEF IInv, ReadClient
  <1>4. TypeOK'
    BY <1>1, <1>2, <1>3, TypeParts, TypePartsNext DEF IInv
  <1>5. \A x \in Socket : ClientOk(x)'
    BY <1>1, <1>2, <1>3, OtherClients DEF IInv
  <1>6. ApiOk'
    BY <1>1, <1>2, <1>3, SameApi DEF IInv
  <1> QED  BY <1>4, <1>5, <1>6 DEF IInv

(* fini, of a client that has all of its answer or has closed. *)
LEMMA Finishes ==
  ASSUME SessionAssumption, TypeOK, NEW s \in Socket, Fini(s), call' = call,
         (cl'[s].shut /\ cl'[s].tx = <<>>) \/ \E m \in Own(s) : cl'[s].tx = Packet(m)
  PROVE  /\ ClientOk(s)' /\ sock' \in [Socket -> SocketRec] /\ sock'[s].status = "FREE"
         /\ cev' \in [Socket -> SUBSET {"READ", "WRITE"}]
         /\ req' \in [Socket -> Messages \cup {NoMessage}]
         /\ \A x \in Socket \ {s} : sock'[x] = sock[x] /\ cev'[x] = cev[x] /\ req'[x] = req[x]
  <1>1. /\ sock \in [Socket -> SocketRec] /\ cev \in [Socket -> SUBSET {"READ", "WRITE"}]
        /\ req \in [Socket -> Messages \cup {NoMessage}] /\ FreeSocket \in SocketRec
    BY TypeParts, FreshTypes
  <1>2. /\ sock' = [sock EXCEPT ![s] = FreeSocket] /\ cev' = [cev EXCEPT ![s] = {}]
        /\ req' = [req EXCEPT ![s] = NoMessage]
    BY DEF Fini
  <1>3. sock'[s] = FreeSocket /\ cev'[s] = {} /\ FreeSocket.status = "FREE"
    BY <1>1, <1>2 DEF FreeSocket
  <1>4. FreeClient(s)'
    BY <1>3 DEF FreeClient, Own
  <1>5. ClientOk(s)'
    BY <1>3, <1>4 DEF ClientOk
  <1>6. /\ sock' \in [Socket -> SocketRec] /\ cev' \in [Socket -> SUBSET {"READ", "WRITE"}]
        /\ req' \in [Socket -> Messages \cup {NoMessage}]
        /\ \A x \in Socket \ {s} : sock'[x] = sock[x] /\ cev'[x] = cev[x] /\ req'[x] = req[x]
    BY <1>1, <1>2
  <1> QED  BY <1>3, <1>5, <1>6

LEMMA ClientWrites ==
  ASSUME SessionAssumption, IInv, NEW s \in Socket, Writable(s)
  PROVE  /\ sock[s].status = "SEND" /\ SendClient(s)
         /\ api.used => api.sock \in Socket /\ api.sock # s /\ sock[api.sock].status = "PROCESS"
  <1>1. sock[s].status = "SEND" /\ SendClient(s)
    BY DEF Writable, IInv, ClientOk
  <1> QED  BY <1>1 DEF IInv, ApiOk, UsedApiOk

LEMMA SendReplyStep == ASSUME SessionAssumption, IInv, NEW s \in Socket, SendReply(s) PROVE IInv'
  <1>1. /\ sock[s].status = "SEND" /\ SendClient(s) /\ UNCHANGED <<kind, calls, call, api, aev, bk>>
        /\ api.used => api.sock \in Socket /\ api.sock # s /\ sock[api.sock].status = "PROCESS"
    BY ClientWrites DEF SendReply
  <1>2. PICK n \in 0..Left(sock[s]) :
          /\ cl' = [cl EXCEPT ![s] = Receives(@, Part(sock[s], n))]
          /\ \/ n = Left(sock[s]) /\ Fini(s)
             \/ /\ n < Left(sock[s])
                /\ sock' = [sock EXCEPT ![s] = Sent(@, n)]
                /\ UNCHANGED <<cev, req>>
    BY DEF SendReply
  <1>3. /\ sock \in [Socket -> SocketRec] /\ cl \in [Socket -> ClientRec]
        /\ sock[s] \in SocketRec /\ cl[s] \in ClientRec
    BY TypeParts DEF IInv
  <1>4. PICK m \in Own(s) : Outgoing(sock[s], cl[s], m) /\ m \in Messages
    BY <1>1, MessageTypes DEF SendClient, IInv
  <1> DEFINE c == Receives(cl[s], Part(sock[s], n))
             o == Sent(sock[s], n)
  <1>5. /\ SamePeer(cl[s], c) /\ Same(sock[s], o)
        /\ n < Left(sock[s]) => Outgoing(o, c, m)
        /\ n = Left(sock[s]) => (cl[s].shut /\ c.tx = <<>>) \/ c.tx = Packet(m)
    BY <1>3, <1>4, SendsPart
  <1> HIDE DEF c, o
  <1>6. c \in ClientRec /\ c.shut = cl[s].shut /\ o \in SocketRec /\ o.status = "SEND"
    BY <1>1, <1>3, <1>5 DEF SamePeer, Same
  <1>7. cl' = [cl EXCEPT ![s] = c]
    BY <1>2 DEF c
  <1>8. cl' \in [Socket -> ClientRec] /\ cl'[s] = c /\ \A x \in Socket \ {s} : cl'[x] = cl[x]
    BY <1>3, <1>6, <1>7
  <1>9. /\ ClientOk(s)' /\ sock' \in [Socket -> SocketRec]
        /\ cev' \in [Socket -> SUBSET {"READ", "WRITE"}]
        /\ req' \in [Socket -> Messages \cup {NoMessage}]
        /\ \A x \in Socket \ {s} : sock'[x] = sock[x] /\ cev'[x] = cev[x] /\ req'[x] = req[x]
    <2>1. CASE n = Left(sock[s]) /\ Fini(s)
      BY <1>1, <1>4, <1>5, <1>6, <1>8, <2>1, Finishes DEF IInv
    <2>2. CASE n < Left(sock[s]) /\ sock' = [sock EXCEPT ![s] = Sent(@, n)] /\ UNCHANGED <<cev, req>>
      <3>1. sock' = [sock EXCEPT ![s] = o]
        BY <2>2 DEF o
      <3>2. /\ sock' \in [Socket -> SocketRec] /\ sock'[s] = o
            /\ \A x \in Socket \ {s} : sock'[x] = sock[x]
        BY <1>3, <1>6, <3>1
      <3>3. SendClient(s)'
        BY <1>1, <1>5, <1>8, <2>2, <3>2 DEF SendClient, Own
      <3>4. ClientOk(s)'
        BY <1>6, <3>2, <3>3 DEF ClientOk
      <3> QED  BY <2>2, <3>2, <3>4, TypeParts DEF IInv
    <2> QED  BY <1>2, <2>1, <2>2
  <1>10. TypeOK'
    BY <1>1, <1>8, <1>9, TypeParts, TypePartsNext DEF IInv
  <1>11. \A x \in Socket : ClientOk(x)'
    BY <1>1, <1>8, <1>9, OtherClients DEF IInv
  <1>12. ApiOk'
    BY <1>1, <1>9, SameApi DEF IInv
  <1> QED  BY <1>10, <1>11, <1>12 DEF IInv

LEMMA SendReplyFailsStep ==
  ASSUME SessionAssumption, IInv, NEW s \in Socket, SendReplyFails(s) PROVE IInv'
  <1>1. /\ SendClient(s) /\ cl[s].shut /\ Fini(s) /\ UNCHANGED <<kind, calls, call, cl, api, aev, bk>>
        /\ api.used => api.sock \in Socket /\ api.sock # s /\ sock[api.sock].status = "PROCESS"
    BY ClientWrites DEF SendReplyFails
  <1>2. cl[s].tx = <<>>
    BY <1>1 DEF SendClient, Outgoing
  <1>3. /\ ClientOk(s)' /\ sock' \in [Socket -> SocketRec]
        /\ cev' \in [Socket -> SUBSET {"READ", "WRITE"}]
        /\ req' \in [Socket -> Messages \cup {NoMessage}]
        /\ \A x \in Socket \ {s} : sock'[x] = sock[x] /\ cev'[x] = cev[x] /\ req'[x] = req[x]
    BY <1>1, <1>2, Finishes DEF IInv
  <1>4. TypeOK'
    BY <1>1, <1>3, TypeParts, TypePartsNext DEF IInv
  <1>5. \A x \in Socket : ClientOk(x)'
    BY <1>1, <1>3, OtherClients DEF IInv
  <1>6. ApiOk'
    BY <1>1, <1>3, SameApi DEF IInv
  <1> QED  BY <1>4, <1>5, <1>6 DEF IInv

(* -------------------------------- the api --------------------------------- *)

(* INIT_OK, over a connection in which nothing is left. *)
LEMMA StartsCall ==
  ASSUME SessionAssumption, IInv, NEW a \in ApiRec, NEW m \in Messages, InitOk(a, m),
         a.used, a.sock \in Socket, a.init, ~a.head, m.call = call[a.sock],
         a.login = IF kind = "middle" THEN "LOGIN_OK" ELSE "NO_CONNECT",
         kind = "middle" => bk'.logged, Nothing', call' = call, kind' = kind,
         sock'[a.sock].status = "PROCESS"
  PROVE  ApiOk' /\ api' \in ApiRec /\ api'.used /\ api'.sock = a.sock /\ aev' = {"WRITE"}
  <1> DEFINE c == Message("call", m.call)
  <1>1. c \in Messages /\ CallPacket(m) = c
    BY MessageTypes DEF IInv, Messages, Types, CallPacket
  <1>2. Packet(c) \in Streams /\ 0 \in 0..Size /\ Size \in 0..Size /\ 0 < Size
    BY <1>1, PacketUnits, SizeType
  <1>3. api' = [a EXCEPT !.buf = Packet(c), !.done = 0, !.total = Size, !.status = "SEND"]
        /\ aev' = {"WRITE"}
    BY <1>1 DEF InitOk, Loaded
  <1> HIDE DEF c
  <1>4. /\ api' \in ApiRec /\ api'.buf = Packet(c) /\ api'.done = 0 /\ api'.total = Size
        /\ api'.status = "SEND" /\ api'.used = TRUE /\ api'.sock = a.sock /\ api'.init = TRUE
        /\ api'.head = FALSE /\ api'.login = a.login
    BY <1>2, <1>3 DEF ApiRec
  <1>5. CallMsg' = c
    BY <1>4 DEF CallMsg, c
  <1>6. Outgoing(api', bk', c)
    BY <1>2, <1>4, FromNothing DEF Outgoing, Nothing
  <1>7. SendsCall'
    BY <1>3, <1>4, <1>5, <1>6 DEF SendsCall, LoggedIn, Nothing, Silence
  <1> QED  BY <1>3, <1>4, <1>7 DEF ApiOk, UsedApiOk

(* After a failure the api is as it was made. *)
LEMMA FailsFree ==
  ASSUME SessionAssumption, aev' = {}, api' = FreeApi, bk' = NoLink
  PROVE  ApiOk' /\ api' \in ApiRec /\ bk' \in BackRec /\ ~api'.used /\ aev' \subseteq {"READ", "WRITE"}
  BY FreshTypes DEF ApiOk, FreeApiOk, FreeApi, Fresh

LEMMA ServiceFailsFree ==
  ASSUME SessionAssumption, NEW s, ServiceFails(s)
  PROVE  /\ ApiOk' /\ api' \in ApiRec /\ bk' \in BackRec /\ ~api'.used
         /\ aev' \subseteq {"READ", "WRITE"} /\ Reply(s, Message("error", call[s]))
  BY FailsFree DEF ServiceFails, SetFree, Closes, WriteError

LEMMA CallFailsStep == ASSUME SessionAssumption, IInv, NEW s \in Socket, CallFails(s) PROVE IInv'
  <1>1. Received(s) /\ ~api.used /\ ServiceFails(s)
    BY DEF CallFails
  <1>2. /\ ReadClient(s) /\ UNCHANGED <<kind, calls, call>>
        /\ req' \in [Socket -> Messages \cup {NoMessage}]
        /\ cl' \in [Socket -> ClientRec] /\ cl'[s].tx = <<>>
        /\ \A x \in Socket \ {s} : req'[x] = req[x] /\ cl'[x] = cl[x]
    BY <1>1, ReceivesOwn
  <1>3. /\ ApiOk' /\ api' \in ApiRec /\ bk' \in BackRec /\ aev' \subseteq {"READ", "WRITE"}
        /\ Reply(s, Message("error", call[s]))
    BY <1>1, ServiceFailsFree
  <1>4. /\ ClientOk(s)' /\ sock' \in [Socket -> SocketRec]
        /\ cev' \in [Socket -> SUBSET {"READ", "WRITE"}]
        /\ \A x \in Socket \ {s} : sock'[x] = sock[x] /\ cev'[x] = cev[x]
    BY <1>2, <1>3, ErrorIsOwn, Replies DEF IInv, ReadClient
  <1>5. TypeOK'
    BY <1>2, <1>3, <1>4, TypeParts, TypePartsNext DEF IInv
  <1>6. \A x \in Socket : ClientOk(x)'
    BY <1>1, <1>2, <1>4, OtherClients DEF IInv
  <1> QED  BY <1>3, <1>5, <1>6 DEF IInv

(* _call_server: the client is in process. *)
LEMMA CalledProcess ==
  ASSUME SessionAssumption, IInv, NEW s \in Socket, Called(s), api'.used, api'.sock = s,
         api' \in ApiRec, bk' \in BackRec, aev' \subseteq {"READ", "WRITE"}
  PROVE  /\ TypeOK' /\ (\A x \in Socket : ClientOk(x)') /\ sock'[s].status = "PROCESS"
         /\ UNCHANGED <<kind, call>> /\ req'[s] \in Messages /\ req'[s].call = call[s]
  <1>1. /\ Received(s) /\ ~api.used
        /\ sock' = [sock EXCEPT ![s] = [FromClient(s).o EXCEPT !.status = "PROCESS"]]
        /\ cev' = [cev EXCEPT ![s] = {}]
    BY DEF Called
  <1>2. /\ ReadClient(s) /\ UNCHANGED <<kind, calls, call>> /\ FromClient(s).o \in SocketRec
        /\ req' \in [Socket -> Messages \cup {NoMessage}]
        /\ req'[s] \in Messages /\ req'[s].call = call[s]
        /\ cl' \in [Socket -> ClientRec] /\ cl'[s].tx = <<>>
        /\ \A x \in Socket \ {s} : req'[x] = req[x] /\ cl'[x] = cl[x]
    BY <1>1, ReceivesOwn
  <1> DEFINE o == [FromClient(s).o EXCEPT !.status = "PROCESS"]
  <1>3. o \in SocketRec /\ o.status = "PROCESS"
    BY <1>2 DEF SocketRec
  <1>a. sock' = [sock EXCEPT ![s] = o]
    BY <1>1
  <1> HIDE DEF o
  <1>4. /\ sock' \in [Socket -> SocketRec] /\ sock'[s].status = "PROCESS" /\ cev'[s] = {}
        /\ cev' \in [Socket -> SUBSET {"READ", "WRITE"}]
        /\ \A x \in Socket \ {s} : sock'[x] = sock[x] /\ cev'[x] = cev[x]
    BY <1>1, <1>3, <1>a, TypeParts DEF IInv
  <1>5. ClientOk(s)'
    BY <1>2, <1>4 DEF ClientOk, ProcessClient, ReadClient
  <1>6. TypeOK'
    BY <1>2, <1>4, TypeParts, TypePartsNext DEF IInv
  <1>7. \A x \in Socket : ClientOk(x)'
    BY <1>1, <1>2, <1>4, <1>5, OtherClients DEF IInv
  <1> QED  BY <1>2, <1>4, <1>6, <1>7

LEMMA CallKeptStep == ASSUME SessionAssumption, IInv, NEW s \in Socket, CallKept(s) PROVE IInv'
  <1>1. /\ Called(s) /\ TcpOk /\ api.init /\ InitOk(Taken(api, s), req'[s]) /\ bk' = bk /\ ~api.used
    BY DEF CallKept, Called
  <1>2. /\ api \in ApiRec /\ bk \in BackRec /\ FreeApiOk
    BY <1>1, TypeParts DEF IInv, ApiOk
  <1>3. kind = "middle" /\ api.login = "LOGIN_OK" /\ bk.logged /\ Nothing
    BY <1>1, <1>2 DEF FreeApiOk, NoLink, TcpOk
  <1> DEFINE a == Taken(api, s)
  <1>4. /\ a \in ApiRec /\ a.used = TRUE /\ a.sock = s /\ a.init = api.init /\ a.head = api.head
        /\ a.login = api.login
    BY <1>2 DEF Taken, ApiRec
  <1> HIDE DEF a
  <1>5. api' \in ApiRec /\ api'.used /\ api'.sock = s /\ aev' \subseteq {"READ", "WRITE"}
    <2>1. req'[s] \in Messages
      BY <1>1, ReceivesOwn DEF Called
    <2> DEFINE c == CallPacket(req'[s])
    <2>2. c \in Messages
      BY <2>1, MessageTypes DEF IInv, Messages, Types, CallPacket
    <2>3. api' = [a EXCEPT !.buf = Packet(c), !.done = 0, !.total = Size, !.status = "SEND"]
          /\ aev' = {"WRITE"}
      BY <1>1 DEF InitOk, Loaded, a
    <2>4. Packet(c) \in Streams /\ 0 \in 0..Size /\ Size \in 0..Size
      BY <2>2, PacketUnits, SizeType
    <2> HIDE DEF c
    <2> QED  BY <1>4, <2>3, <2>4 DEF ApiRec
  <1>6. /\ TypeOK' /\ (\A x \in Socket : ClientOk(x)') /\ sock'[s].status = "PROCESS"
        /\ UNCHANGED <<kind, call>> /\ req'[s] \in Messages /\ req'[s].call = call[s]
    BY <1>1, <1>2, <1>5, CalledProcess
  <1>7. Nothing' /\ (kind = "middle" => bk'.logged)
    BY <1>1, <1>3 DEF Nothing, Silence
  <1>8. ApiOk'
    <2>1. ~a.head /\ a.init /\ InitOk(a, req'[s])
      BY <1>1, <1>2, <1>4 DEF FreeApiOk, Fresh, a
    <2> QED  BY <1>3, <1>4, <1>6, <1>7, <2>1, StartsCall
  <1> QED  BY <1>6, <1>8 DEF IInv

LEMMA CallConnectsStep ==
  ASSUME SessionAssumption, IInv, NEW s \in Socket, CallConnects(s) PROVE IInv'
  <1>1. /\ Called(s) /\ aev' = {"READ", "WRITE"} /\ bk' = [NoLink EXCEPT !.state = "connecting"]
        /\ api' = [Taken(FreeApi, s) EXCEPT !.status = "INITING", !.connecting = (kind = "relay"),
                                            !.login = IF kind = "middle" THEN "CONNECTING" ELSE @]
    BY DEF CallConnects, Connect
  <1>2. /\ api'.used = TRUE /\ api'.sock = s /\ api'.status = "INITING" /\ api'.head = FALSE
        /\ api'.login = (IF kind = "middle" THEN "CONNECTING" ELSE "NO_CONNECT") /\ api'.done = 0
        /\ api' \in ApiRec
    <2>1. 0 \in 0..Size /\ <<>> \in Streams
      BY SizeType, FromNothing
    <2> QED  BY <1>1, <2>1 DEF Taken, FreeApi, ApiRec
  <1>3. /\ bk' \in BackRec /\ bk'.rx = <<>> /\ bk'.wire = <<>> /\ bk'.tx = <<>> /\ ~bk'.logged
    BY <1>1, FromNothing DEF NoLink, BackRec
  <1>4. /\ TypeOK' /\ (\A x \in Socket : ClientOk(x)') /\ sock'[s].status = "PROCESS"
        /\ UNCHANGED <<kind, call>>
    BY <1>1, <1>2, <1>3, CalledProcess
  <1>5. kind \in {"middle", "relay"}
    BY TypeParts DEF IInv, SessionAssumption
  <1>6. Connects'
    BY <1>1, <1>2, <1>3, <1>4, <1>5 DEF Connects, Fresh, Nothing, Silence
  <1>7. ApiOk'
    BY <1>2, <1>4, <1>6 DEF ApiOk, UsedApiOk
  <1> QED  BY <1>4, <1>7 DEF IInv

(* The client of the api, while it is in use. *)
LEMMA InProcess ==
  ASSUME IInv, api.used
  PROVE  /\ UsedApiOk /\ api.sock \in Socket /\ sock[api.sock].status = "PROCESS"
         /\ ProcessClient(api.sock) /\ api \in ApiRec /\ bk \in BackRec /\ kind \in Kinds
  BY TypeParts DEF IInv, ApiOk, UsedApiOk, ClientOk

(* Whatever fails, the client is told and the api is free. *)
LEMMA FailStep ==
  ASSUME SessionAssumption, IInv, api.used, ServiceFails(api.sock),
         UNCHANGED <<kind, calls, call, req, cl>>
  PROVE  IInv'
  <1>s. PICK s \in Socket : s = api.sock
    BY InProcess
  <1>1. ProcessClient(s)
    BY <1>s, InProcess
  <1>2. /\ ApiOk' /\ api' \in ApiRec /\ bk' \in BackRec /\ aev' \subseteq {"READ", "WRITE"}
        /\ Reply(s, Message("error", call[s]))
    BY <1>s, ServiceFailsFree
  <1>a. /\ Message("error", call[s]) \in Own(s) /\ Message("error", call[s]) \in Messages
        /\ call[s] > 0 /\ call' = call /\ cl'[s].tx = <<>> /\ cl' = cl /\ req' = req /\ TypeOK
        /\ UNCHANGED <<kind, calls>>
    BY <1>1, ErrorIsOwn DEF IInv, ProcessClient
  <1>3. /\ ClientOk(s)' /\ sock' \in [Socket -> SocketRec]
        /\ cev' \in [Socket -> SUBSET {"READ", "WRITE"}]
        /\ \A x \in Socket \ {s} : sock'[x] = sock[x] /\ cev'[x] = cev[x]
    BY <1>1, <1>2, <1>a, Replies
  <1>4. TypeOK'
    BY <1>2, <1>3, TypeParts, TypePartsNext DEF IInv
  <1>5. \A x \in Socket : ClientOk(x)'
    <2>1. ~(api.used /\ api.sock # s)
      BY <1>s
    <2> QED  BY <1>1, <1>3, <1>a, <2>1, OtherClients DEF IInv
  <1> QED  BY <1>2, <1>4, <1>5 DEF IInv

LEMMA FailSteps ==
  ASSUME SessionAssumption, IInv, ConnectFails \/ ReadFails \/ WriteFails PROVE IInv'
  BY FailStep DEF ConnectFails, ReadFails, WriteFails, FiredApi

(* A step of the api for its client, which it does not touch. *)
LEMMA ApiStep ==
  ASSUME SessionAssumption, IInv, UNCHANGED <<kind, client>>, api' \in ApiRec, bk' \in BackRec,
         aev' \subseteq {"READ", "WRITE"}, api'.used = api.used, api'.sock = api.sock, ApiOk'
  PROVE  IInv'
  <1>1. TypeOK'
    BY TypeParts, TypePartsNext DEF IInv, client
  <1>2. \A x \in Socket : ClientOk(x)'
    BY SameClients DEF IInv
  <1> QED  BY <1>1, <1>2 DEF IInv

LEMMA RelayConnectedStep == ASSUME SessionAssumption, IInv, RelayConnected PROVE IInv'
  <1> DEFINE a == [api EXCEPT !.init = TRUE, !.connecting = FALSE]
  <1>1. /\ api.used /\ kind = "relay" /\ api.status = "INITING" /\ UNCHANGED <<kind, client, bk>>
        /\ InitOk(a, req[api.sock])
    BY DEF RelayConnected, FiredApi
  <1>2. /\ UsedApiOk /\ api.sock \in Socket /\ sock[api.sock].status = "PROCESS"
        /\ ProcessClient(api.sock) /\ api \in ApiRec /\ bk \in BackRec
    BY <1>1, InProcess
  <1>3. Connects
    BY <1>1, <1>2 DEF UsedApiOk, SendsLogin, AwaitsLogin
  <1>4. /\ a \in ApiRec /\ a.used = api.used /\ a.sock = api.sock /\ a.init = TRUE
        /\ a.head = api.head /\ a.login = api.login
    BY <1>2 DEF ApiRec
  <1> HIDE DEF a
  <1>5. req[api.sock] \in Messages /\ req[api.sock].call = call[a.sock]
    BY <1>2, <1>4 DEF ProcessClient
  <1>6. Nothing' /\ call' = call /\ sock' = sock
    BY <1>1, <1>3 DEF Connects, Nothing, Silence, client
  <1>7. ApiOk' /\ api' \in ApiRec /\ api'.used /\ api'.sock = a.sock /\ aev' = {"WRITE"}
    BY <1>1, <1>2, <1>3, <1>4, <1>5, <1>6, StartsCall DEF Connects, Fresh
  <1> QED  BY <1>1, <1>2, <1>4, <1>7, ApiStep

(* The login packet, or what is left of it, is being sent. *)
LEMMA SendLoginStep == ASSUME SessionAssumption, IInv, SendLogin PROVE IInv'
  <1>1. /\ api.used /\ kind = "middle" /\ api.status = "INITING"
        /\ api.login \in {"CONNECTING", "SENDING"} /\ UNCHANGED <<kind, client>>
    BY DEF SendLogin, FiredApi
  <1>2. /\ UsedApiOk /\ api.sock \in Socket /\ sock[api.sock].status = "PROCESS"
        /\ api \in ApiRec /\ bk \in BackRec
    BY <1>1, InProcess
  <1>3. Connects \/ SendsLogin
    BY <1>1, <1>2 DEF UsedApiOk, AwaitsLogin
  <1>4. aev = {"READ", "WRITE"} /\ Silence /\ ~bk.logged /\ ~api.head
    BY <1>3 DEF Connects, SendsLogin, Fresh, Nothing
  <1>5. LoginMsg \in Messages
    BY MessageTypes DEF IInv
  <1>6. PICK p \in ApiRec : /\ p = LoginPacket /\ Outgoing(p, bk, LoginMsg) /\ ~p.head
                            /\ p.used = api.used /\ p.sock = api.sock /\ p.status = "INITING"
    <2>1. CASE api.login = "CONNECTING"
      <3>1. Connects
        BY <1>3, <2>1 DEF SendsLogin
      <3>2. Packet(LoginMsg) \in Streams /\ 0 \in 0..Size /\ Size \in 0..Size /\ 0 < Size
        BY <1>5, PacketUnits, SizeType
      <3>3. LoginPacket = [api EXCEPT !.buf = Packet(LoginMsg), !.done = 0, !.total = Size]
        BY <2>1 DEF LoginPacket, Loaded, LoginMsg
      <3>4. /\ LoginPacket \in ApiRec /\ LoginPacket.buf = Packet(LoginMsg) /\ LoginPacket.done = 0
            /\ LoginPacket.total = Size /\ LoginPacket.head = api.head
            /\ LoginPacket.used = api.used /\ LoginPacket.sock = api.sock
            /\ LoginPacket.status = api.status
        BY <1>2, <3>2, <3>3 DEF ApiRec
      <3>5. Outgoing(LoginPacket, bk, LoginMsg)
        BY <3>1, <3>2, <3>4, FromNothing DEF Outgoing, Connects, Nothing
      <3> QED  BY <1>1, <1>4, <3>4, <3>5
    <2>2. CASE api.login = "SENDING"
      <3>1. SendsLogin /\ LoginPacket = api
        BY <1>1, <1>3, <2>2 DEF Connects, LoginPacket
      <3> QED  BY <1>1, <1>2, <3>1 DEF SendsLogin
    <2> QED  BY <1>1, <2>1, <2>2
  <1>7. PICK n \in 0..Left(p) :
          /\ bk' = Receives(bk, Part(p, n))
          /\ \/ n = Left(p) /\ LoginSent(Sent(p, n))
             \/ n < Left(p) /\ api' = [Sent(p, n) EXCEPT !.login = "SENDING"] /\ UNCHANGED aev
    BY <1>6 DEF SendLogin
  <1>8. /\ SamePeer(bk, bk') /\ Same(p, Sent(p, n)) /\ Sent(p, n).head = p.head
        /\ n < Left(p) => Outgoing(Sent(p, n), bk', LoginMsg)
        /\ n = Left(p) => (bk.shut /\ bk'.tx = <<>>) \/ bk'.tx = Packet(LoginMsg)
    BY <1>2, <1>5, <1>6, <1>7, SendsPart
  <1>9. PICK q \in ApiRec : /\ q = Sent(p, n) /\ q.used = api.used /\ q.sock = api.sock
                            /\ q.status = "INITING" /\ ~q.head
    BY <1>6, <1>8 DEF Same
  <1>10. bk' \in BackRec /\ Silence' /\ ~bk'.logged
    BY <1>2, <1>4, <1>8 DEF SamePeer, Silence
  <1>11. CASE n = Left(p) /\ LoginSent(q)
    <2>1. /\ api' \in ApiRec /\ api'.used = api.used /\ api'.sock = api.sock /\ ~api'.head
          /\ api'.status = "INITING" /\ api'.login = "RECVING" /\ api'.done = 0 /\ aev' = {"READ"}
      <3>1. api' = [q EXCEPT !.login = "RECVING", !.done = 0, !.total = 0] /\ aev' = {"READ"}
        BY <1>11 DEF LoginSent
      <3>2. 0 \in 0..Size
        BY SizeType
      <3> QED  BY <1>9, <3>1, <3>2 DEF ApiRec
    <2>2. Awaiting(LoginMsg, LoginTypes)'
      <3>1. CASE bk'.tx = Packet(LoginMsg)
        BY <1>10, <2>1, <3>1 DEF Awaiting, Fresh, LoginMsg, Message, Packet
      <3>2. CASE bk'.tx = <<>>
        <4>1. Incoming(api', <<>>, <<>>, Message("bad_head", LoginMsg.call))
          <5>1. 0 + Len(<<>>) + Len(<<>>) <= Size
            BY SizeType, FromNothing
          <5> QED  BY <2>1, <5>1, FromNothing DEF Incoming
        <4>2. "bad_head" \in LoginTypes'
          BY DEF LoginTypes
        <4>3. bk'.rx = <<>> /\ bk'.wire = <<>> /\ LoginMsg' = LoginMsg
          BY <1>10 DEF Silence, LoginMsg
        <4> QED  BY <3>2, <4>1, <4>2, <4>3 DEF Awaiting
      <3> QED  BY <1>8, <1>11, <3>1, <3>2
    <2>3. AwaitsLogin'
      BY <1>1, <1>10, <2>1, <2>2 DEF AwaitsLogin
    <2>4. ApiOk'
      BY <1>1, <1>2, <2>1, <2>3 DEF ApiOk, UsedApiOk, client
    <2> QED  BY <1>1, <1>10, <2>1, <2>4, ApiStep
  <1>12. CASE n < Left(p) /\ api' = [q EXCEPT !.login = "SENDING"] /\ UNCHANGED aev
    <2>1. /\ api' \in ApiRec /\ api'.used = api.used /\ api'.sock = api.sock /\ ~api'.head
          /\ api'.status = "INITING" /\ api'.login = "SENDING"
          /\ api'.buf = q.buf /\ api'.done = q.done /\ api'.total = q.total
      BY <1>9, <1>12 DEF ApiRec
    <2>2. Outgoing(api', bk', LoginMsg)
      BY <1>8, <1>9, <1>12, <2>1 DEF Outgoing
    <2>3. SendsLogin'
      BY <1>1, <1>4, <1>10, <1>12, <2>1, <2>2 DEF SendsLogin, LoginMsg
    <2>4. ApiOk'
      BY <1>1, <1>2, <2>1, <2>3 DEF ApiOk, UsedApiOk, client
    <2>5. aev' \subseteq {"READ", "WRITE"}
      BY <1>4, <1>12
    <2> QED  BY <1>1, <1>10, <2>1, <2>4, <2>5, ApiStep
  <1> QED  BY <1>7, <1>9, <1>11, <1>12

LEMMA SendCallStep == ASSUME SessionAssumption, IInv, SendCall PROVE IInv'
  <1>1. api.used /\ api.status = "SEND" /\ UNCHANGED <<kind, client>>
    BY DEF SendCall, FiredApi
  <1>2. /\ UsedApiOk /\ api.sock \in Socket /\ sock[api.sock].status = "PROCESS"
        /\ api \in ApiRec /\ bk \in BackRec
    BY <1>1, InProcess
  <1>3. SendsCall
    BY <1>1, <1>2 DEF UsedApiOk
  <1>4. PICK m \in Messages : m = CallMsg
    BY <1>2, MessageTypes DEF IInv, CallMsg, Types
  <1>5. PICK n \in 0..Left(api) :
          /\ bk' = Receives(bk, Part(api, n))
          /\ \/ /\ n = Left(api)
                /\ api' = [api EXCEPT !.status = "READ", !.buf = <<>>, !.done = 0, !.total = 0]
                /\ aev' = {"READ"}
             \/ n < Left(api) /\ api' = Sent(api, n) /\ UNCHANGED aev
    BY DEF SendCall
  <1>6. /\ SamePeer(bk, bk') /\ Same(api, Sent(api, n)) /\ Sent(api, n).head = api.head
        /\ n < Left(api) => Outgoing(Sent(api, n), bk', m)
        /\ n = Left(api) => (bk.shut /\ bk'.tx = <<>>) \/ bk'.tx = Packet(m)
    BY <1>2, <1>3, <1>4, <1>5, SendsPart DEF SendsCall
  <1>7. bk' \in BackRec /\ Silence' /\ bk'.logged = bk.logged
    BY <1>2, <1>3, <1>6 DEF SamePeer, Silence, SendsCall
  <1>8. CASE /\ n = Left(api) /\ aev' = {"READ"}
             /\ api' = [api EXCEPT !.status = "READ", !.buf = <<>>, !.done = 0, !.total = 0]
    <2>1. /\ api' \in ApiRec /\ api'.used = api.used /\ api'.sock = api.sock /\ api'.head = api.head
          /\ api'.status = "READ" /\ api'.login = api.login /\ api'.done = 0 /\ api'.init = api.init
      <3>1. 0 \in 0..Size /\ <<>> \in Streams
        BY SizeType, FromNothing
      <3> QED  BY <1>2, <1>8, <3>1 DEF ApiRec
    <2>2. CallMsg' = m
      BY <1>1, <1>4, <2>1 DEF CallMsg, client
    <2>3. Awaiting(CallMsg, CallTypes)'
      <3>1. CASE bk'.tx = Packet(m)
        BY <1>3, <1>7, <2>1, <2>2, <3>1 DEF Awaiting, Fresh, SendsCall, Packet
      <3>2. CASE bk'.tx = <<>>
        <4>1. Incoming(api', <<>>, <<>>, Message("answer", m.call))
          <5>1. 0 + Len(<<>>) + Len(<<>>) <= Size
            BY SizeType, FromNothing
          <5> QED  BY <1>3, <2>1, <5>1, FromNothing DEF Incoming, SendsCall
        <4>2. "answer" \in CallTypes'
          BY DEF CallTypes
        <4>3. bk'.rx = <<>> /\ bk'.wire = <<>>
          BY <1>7 DEF Silence
        <4> QED  BY <2>2, <3>2, <4>1, <4>2, <4>3 DEF Awaiting
      <3> QED  BY <1>6, <1>8, <3>1, <3>2
    <2>4. AwaitsCall'
      BY <1>1, <1>3, <1>7, <1>8, <2>1, <2>3 DEF AwaitsCall, SendsCall, LoggedIn
    <2>5. ApiOk'
      BY <1>1, <1>2, <2>1, <2>4 DEF ApiOk, UsedApiOk, client
    <2> QED  BY <1>1, <1>7, <1>8, <2>1, <2>5, ApiStep
  <1>9. CASE n < Left(api) /\ api' = Sent(api, n) /\ UNCHANGED aev
    <2>1. /\ api' \in ApiRec /\ api'.used = api.used /\ api'.sock = api.sock /\ api'.head = api.head
          /\ api'.status = "SEND" /\ api'.login = api.login /\ api'.init = api.init
      BY <1>1, <1>2, <1>6, <1>9 DEF Same
    <2>2. CallMsg' = m
      BY <1>1, <1>4, <2>1 DEF CallMsg, client
    <2>3. SendsCall'
      BY <1>1, <1>3, <1>6, <1>7, <1>9, <2>1, <2>2 DEF SendsCall, LoggedIn
    <2>4. ApiOk'
      BY <1>1, <1>2, <2>1, <2>3 DEF ApiOk, UsedApiOk, client
    <2>5. aev' \subseteq {"READ", "WRITE"}
      BY <1>3, <1>9 DEF SendsCall
    <2> QED  BY <1>1, <1>7, <2>1, <2>4, <2>5, ApiStep
  <1> QED  BY <1>5, <1>8, <1>9

(* A read that succeeds reads a packet that was awaited. *)
(* What is awaited is a message. *)
LEMMA AwaitedTypes ==
  ASSUME SessionAssumption, TypeOK, api.sock \in Socket
  PROVE  /\ \A t \in LoginTypes : Message(t, LoginMsg.call) \in Messages
         /\ \A t \in CallTypes : Message(t, CallMsg.call) \in Messages
         /\ LoginTypes \subseteq Types /\ CallTypes \subseteq Types
         /\ CallMsg \in Messages
  <1>1. LoginTypes \subseteq Types /\ CallTypes \subseteq Types
    BY DEF LoginTypes, CallTypes, Types
  <1>2. LoginMsg.call = 0 /\ 0 \in 0..Calls
    BY DEF LoginMsg, Message, SessionAssumption
  <1>3. CallMsg.call = call[api.sock] /\ call[api.sock] \in 0..Calls /\ CallMsg \in Messages
    BY MessageTypes DEF CallMsg, Message, Types, Messages
  <1> QED  BY <1>1, <1>2, <1>3, MessageTypes

LEMMA ReadsAwaited ==
  ASSUME SessionAssumption, NEW m, NEW types, Awaiting(m, types), FromBack.ret # "THROW",
         api \in ApiRec, bk \in BackRec, \A t \in types : Message(t, m.call) \in Messages
  PROVE  /\ bk.tx = <<>> /\ Same(api, FromBack.o) /\ FromBack.in \in Streams
         /\ \E t \in types :
               /\ FromBack.ret = "MORE" =>
                     Incoming(FromBack.o, FromBack.in, bk.wire, Message(t, m.call))
               /\ FromBack.ret = "OK" =>
                     /\ FromBack.in = <<>> /\ bk.wire = <<>> /\ t # "bad_head"
                     /\ Whole(FromBack.o) = Message(t, m.call)
  <1>1. ~(Fresh /\ Silence)
    <2> SUFFICES ASSUME Fresh, Silence PROVE FALSE  OBVIOUS
    <2>1. ~HeadOk(bk.rx)
      BY SizeType, FromNothing DEF HeadOk, Silence
    <2>2. FromBack.ret = "THROW"
      BY <2>1 DEF FromBack, RecvPacket, RecvHead, Outcome, Fresh
    <2> QED  BY <2>2
  <1>2. PICK t \in types : bk.tx = <<>> /\ Incoming(api, bk.rx, bk.wire, Message(t, m.call))
    BY <1>1 DEF Awaiting
  <1>3. bk.rx \in Streams /\ bk.wire \in Streams
    BY DEF BackRec
  <1>4. ASSUME NEW w \in Messages, Incoming(api, bk.rx, bk.wire, w)
        PROVE  /\ Same(api, FromBack.o) /\ FromBack.in \in Streams
               /\ FromBack.ret = "MORE" => Incoming(FromBack.o, FromBack.in, bk.wire, w)
               /\ FromBack.ret = "OK" => /\ FromBack.in = <<>> /\ bk.wire = <<>>
                                         /\ Whole(FromBack.o) = w /\ w.type # "bad_head"
    BY <1>3, <1>4, ReadsPacket DEF FromBack, Messages
  <1>5. Message(t, m.call).type = t
    BY DEF Message
  <1>6. /\ Same(api, FromBack.o) /\ FromBack.in \in Streams
        /\ FromBack.ret = "MORE" => Incoming(FromBack.o, FromBack.in, bk.wire, Message(t, m.call))
        /\ FromBack.ret = "OK" => /\ FromBack.in = <<>> /\ bk.wire = <<>>
                                  /\ Whole(FromBack.o) = Message(t, m.call)
                                  /\ Message(t, m.call).type # "bad_head"
    BY <1>2, <1>4
  <1> QED  BY <1>2, <1>5, <1>6

LEMMA ReadPartStep == ASSUME SessionAssumption, IInv, ReadPart PROVE IInv'
  <1>1. /\ api.used /\ Receiving /\ FromBack.ret = "MORE" /\ api' = FromBack.o
        /\ bk' = [bk EXCEPT !.rx = FromBack.in] /\ UNCHANGED <<kind, client, aev>>
    BY DEF ReadPart, FiredApi
  <1>2. /\ UsedApiOk /\ api.sock \in Socket /\ sock[api.sock].status = "PROCESS"
        /\ api \in ApiRec /\ bk \in BackRec
    BY <1>1, InProcess
  <1>3. ASSUME NEW m, NEW types, Awaiting(m, types), \A t \in types : Message(t, m.call) \in Messages
        PROVE  /\ Same(api, api') /\ bk' \in BackRec /\ bk'.logged = bk.logged
               /\ bk'.tx = <<>> /\ \E t \in types : Incoming(api', bk'.rx, bk'.wire, Message(t, m.call))
    <2>1. /\ bk.tx = <<>> /\ Same(api, FromBack.o) /\ FromBack.in \in Streams
          /\ \E t \in types : Incoming(FromBack.o, FromBack.in, bk.wire, Message(t, m.call))
      BY <1>1, <1>2, <1>3, ReadsAwaited
    <2>2. /\ bk' \in BackRec /\ bk'.logged = bk.logged /\ bk'.tx = bk.tx /\ bk'.wire = bk.wire
          /\ bk'.rx = FromBack.in
      BY <1>1, <1>2, <2>1 DEF BackRec
    <2> QED  BY <1>1, <2>1, <2>2
  <1>4. CASE api.status = "INITING"
    <2>1. AwaitsLogin
      BY <1>1, <1>2, <1>4 DEF Receiving, UsedApiOk, Connects, SendsLogin
    <2>2. /\ Same(api, api') /\ bk' \in BackRec /\ bk'.logged = bk.logged /\ bk'.tx = <<>>
          /\ \E t \in LoginTypes : Incoming(api', bk'.rx, bk'.wire, Message(t, LoginMsg.call))
      BY <1>2, <1>3, <2>1, AwaitedTypes DEF AwaitsLogin, IInv
    <2>3. /\ api' \in ApiRec /\ api'.used = api.used /\ api'.sock = api.sock
          /\ api'.status = api.status /\ api'.login = api.login
      BY <1>2, <2>2 DEF Same
    <2>4. LoginTypes' = LoginTypes /\ LoginMsg' = LoginMsg
      BY <2>2 DEF LoginTypes, LoginMsg
    <2>5. AwaitsLogin'
      BY <1>1, <2>1, <2>2, <2>3, <2>4 DEF AwaitsLogin, Awaiting
    <2>6. ApiOk'
      BY <1>1, <1>2, <1>4, <2>3, <2>5 DEF ApiOk, UsedApiOk, client
    <2>7. aev' \subseteq {"READ", "WRITE"}
      BY <1>1, TypeParts DEF IInv
    <2> QED  BY <1>1, <2>2, <2>3, <2>6, <2>7, ApiStep
  <1>5. CASE api.status = "READ"
    <2>1. AwaitsCall
      BY <1>2, <1>5 DEF UsedApiOk
    <2>2. /\ Same(api, api') /\ bk' \in BackRec /\ bk'.logged = bk.logged /\ bk'.tx = <<>>
          /\ \E t \in CallTypes : Incoming(api', bk'.rx, bk'.wire, Message(t, CallMsg.call))
      BY <1>2, <1>3, <2>1, AwaitedTypes DEF AwaitsCall, IInv
    <2>3. /\ api' \in ApiRec /\ api'.used = api.used /\ api'.sock = api.sock /\ api'.init = api.init
          /\ api'.status = api.status /\ api'.login = api.login
      BY <1>2, <2>2 DEF Same
    <2>4. CallTypes' = CallTypes /\ CallMsg' = CallMsg
      BY <1>1, <2>3 DEF CallTypes, CallMsg, client
    <2>5. AwaitsCall'
      BY <1>1, <2>1, <2>2, <2>3, <2>4 DEF AwaitsCall, Awaiting, LoggedIn
    <2>6. ApiOk'
      BY <1>1, <1>2, <1>5, <2>3, <2>5 DEF ApiOk, UsedApiOk, client
    <2>7. aev' \subseteq {"READ", "WRITE"}
      BY <1>1, TypeParts DEF IInv
    <2> QED  BY <1>1, <2>2, <2>3, <2>6, <2>7, ApiStep
  <1> QED  BY <1>1, <1>4, <1>5 DEF Receiving

(* The login is answered: nothing else is left in the connection. *)
LEMMA LoginAnsweredStep == ASSUME SessionAssumption, IInv, LoginAnswered PROVE IInv'
  <1> DEFINE a == [ReadWhole(FromBack.o) EXCEPT !.init = TRUE, !.login = "LOGIN_OK"]
  <1>1. /\ api.used /\ Receiving /\ api.status = "INITING" /\ FromBack.ret = "OK"
        /\ LoginOk(Whole(FromBack.o)) /\ bk' = [bk EXCEPT !.rx = FromBack.in]
        /\ InitOk(a, req[api.sock]) /\ UNCHANGED <<kind, client>>
    BY DEF LoginAnswered, FiredApi
  <1>2. /\ UsedApiOk /\ api.sock \in Socket /\ sock[api.sock].status = "PROCESS"
        /\ ProcessClient(api.sock) /\ api \in ApiRec /\ bk \in BackRec
    BY <1>1, InProcess
  <1>3. AwaitsLogin
    BY <1>1, <1>2 DEF Receiving, UsedApiOk, Connects, SendsLogin
  <1>4. /\ bk.tx = <<>> /\ Same(api, FromBack.o) /\ FromBack.in = <<>> /\ bk.wire = <<>>
        /\ \E t \in LoginTypes : Whole(FromBack.o) = Message(t, LoginMsg.call)
    BY <1>1, <1>2, <1>3, AwaitedTypes, ReadsAwaited DEF AwaitsLogin, IInv
  <1>5. "login_ok" \in LoginTypes
    BY <1>1, <1>4 DEF LoginOk, Message
  <1>6. bk.logged
    BY <1>5 DEF LoginTypes
  <1>7. /\ bk' \in BackRec /\ bk'.logged = bk.logged /\ Nothing'
    BY <1>1, <1>2, <1>4, FromNothing DEF BackRec, Nothing, Silence
  <1>8. /\ a \in ApiRec /\ a.used = api.used /\ a.sock = api.sock /\ a.init = TRUE
        /\ a.head = FALSE /\ a.login = "LOGIN_OK"
    <2>1. /\ FromBack.o \in ApiRec /\ FromBack.o.used = api.used /\ FromBack.o.sock = api.sock
      BY <1>2, <1>4 DEF Same
    <2>2. ReadWhole(FromBack.o) = [FromBack.o EXCEPT !.head = FALSE]
      BY <1>3 DEF ReadWhole, AwaitsLogin
    <2> QED  BY <2>1, <2>2 DEF ApiRec
  <1> HIDE DEF a
  <1>9. req[api.sock] \in Messages /\ req[api.sock].call = call[a.sock]
    BY <1>2, <1>8 DEF ProcessClient
  <1>10. call' = call /\ sock' = sock
    BY <1>1 DEF client
  <1>11. ApiOk' /\ api' \in ApiRec /\ api'.used /\ api'.sock = a.sock /\ aev' = {"WRITE"}
    BY <1>1, <1>2, <1>3, <1>6, <1>7, <1>8, <1>9, <1>10, StartsCall DEF AwaitsLogin
  <1> QED  BY <1>1, <1>7, <1>8, <1>11, ApiStep

(* The answer is whole: the api is free, with nothing left in its connection, and the
   client gets its own answer.                                               *)
LEMMA AnsweredGives ==
  ASSUME SessionAssumption, IInv, Answered
  PROVE  /\ Whole(FromBack.o) \in Own(api.sock) /\ Whole(FromBack.o) \in Messages
         /\ bk.tx = <<>> /\ bk.wire = <<>> /\ FromBack.in = <<>> /\ Same(api, FromBack.o)
         /\ LoggedIn /\ api.init
  <1>1. /\ api.used /\ api.status = "READ" /\ FromBack.ret = "OK" /\ IsAnswer(Whole(FromBack.o))
    BY DEF Answered, FiredApi
  <1>2. /\ UsedApiOk /\ api.sock \in Socket /\ api \in ApiRec /\ bk \in BackRec
    BY <1>1, InProcess
  <1>3. AwaitsCall
    BY <1>1, <1>2 DEF UsedApiOk
  <1>4. PICK t \in CallTypes :
          /\ bk.tx = <<>> /\ Same(api, FromBack.o) /\ FromBack.in = <<>> /\ bk.wire = <<>>
          /\ Whole(FromBack.o) = Message(t, CallMsg.call) /\ t # "bad_head"
    BY <1>1, <1>2, <1>3, AwaitedTypes, ReadsAwaited DEF AwaitsCall, IInv
  <1>5. t = "answer"
    BY <1>1, <1>4 DEF IsAnswer, CallTypes, Message
  <1>6. Whole(FromBack.o) \in Own(api.sock)
    BY <1>4, <1>5 DEF CallMsg, Message, Own
  <1>7. Whole(FromBack.o) \in Messages
    BY <1>2, <1>6, MessageTypes DEF IInv
  <1> QED  BY <1>3, <1>4, <1>6, <1>7 DEF AwaitsCall

LEMMA AnsweredStep == ASSUME SessionAssumption, IInv, Answered PROVE IInv'
  <1>1. /\ api.used /\ api.status = "READ" /\ aev' = {} /\ UNCHANGED <<kind, calls, call, req, cl>>
        /\ SetFree(ReadWhole(FromBack.o), FALSE, FromBack.in)
        /\ Reply(api.sock, Whole(FromBack.o))
    BY DEF Answered, FiredApi
  <1>s. PICK s \in Socket : s = api.sock /\ ProcessClient(s) /\ api \in ApiRec /\ bk \in BackRec
    BY <1>1, InProcess
  <1>2. PICK m \in Messages : /\ m = Whole(FromBack.o) /\ m \in Own(s) /\ Reply(s, m)
                              /\ bk.tx = <<>> /\ bk.wire = <<>> /\ FromBack.in = <<>>
                              /\ Same(api, FromBack.o) /\ LoggedIn /\ api.init
    BY <1>1, <1>s, AnsweredGives
  <1>3. /\ ClientOk(s)' /\ sock' \in [Socket -> SocketRec]
        /\ cev' \in [Socket -> SUBSET {"READ", "WRITE"}]
        /\ \A x \in Socket \ {s} : sock'[x] = sock[x] /\ cev'[x] = cev[x]
    <2>1. call[s] > 0 /\ call' = call /\ cl'[s].tx = <<>> /\ TypeOK
      BY <1>1, <1>s DEF ProcessClient, IInv
    <2> QED  BY <1>2, <2>1, Replies
  <1>4. api' \in ApiRec /\ bk' \in BackRec /\ ApiOk'
    <2>1. CASE kind = "relay"
      BY <1>1, <2>1, FailsFree DEF SetFree, Closes
    <2>2. CASE kind = "middle"
      <3> DEFINE a == ReadWhole(FromBack.o)
      <3>1. /\ FromBack.o \in ApiRec /\ FromBack.o.init = api.init /\ FromBack.o.login = api.login
        BY <1>s, <1>2 DEF Same
      <3>2. a \in ApiRec /\ a.head = FALSE /\ a.init = api.init /\ a.login = api.login
        BY <2>2, <3>1 DEF ReadWhole, ApiRec
      <3>3. /\ api' = [a EXCEPT !.used = FALSE, !.sock = NoSocket, !.status = "FREE",
                                !.req = FALSE, !.done = 0, !.total = 0]
            /\ bk' = [bk EXCEPT !.rx = <<>>]
        BY <1>1, <1>2, <2>2 DEF SetFree, Closes
      <3> HIDE DEF a
      <3>4. /\ api' \in ApiRec /\ api'.used = FALSE /\ api'.sock = NoSocket /\ api'.status = "FREE"
            /\ api'.req = FALSE /\ api'.done = 0 /\ api'.head = FALSE
            /\ api'.init = api.init /\ api'.login = api.login
        <4>1. 0 \in 0..Size
          BY SizeType
        <4> QED  BY <3>2, <3>3, <4>1 DEF ApiRec
      <3>5. /\ bk' \in BackRec /\ bk'.rx = <<>> /\ bk'.wire = <<>> /\ bk'.tx = <<>>
            /\ bk'.logged = bk.logged
        BY <1>s, <1>2, <3>3, FromNothing DEF BackRec
      <3>6. FreeApiOk'
        BY <1>1, <1>2, <2>2, <3>4, <3>5 DEF FreeApiOk, LoggedIn, Fresh, Nothing, Silence
      <3> QED  BY <3>4, <3>5, <3>6 DEF ApiOk
    <2>3. kind \in {"middle", "relay"}
      BY TypeParts DEF IInv, SessionAssumption
    <2> QED  BY <2>1, <2>2, <2>3
  <1>5. TypeOK'
    BY <1>1, <1>3, <1>4, TypeParts, TypePartsNext DEF IInv
  <1>6. \A x \in Socket : ClientOk(x)'
    BY <1>1, <1>s, <1>3, OtherClients DEF IInv
  <1> QED  BY <1>4, <1>5, <1>6 DEF IInv

(* --------------------------- the other ends ------------------------------- *)

LEMMA DeliverClientStep ==
  ASSUME SessionAssumption, IInv, NEW s \in Socket, DeliverClient(s) PROVE IInv'
  <1> DEFINE w == cl[s].wire
             c == [cl[s] EXCEPT !.rx = Append(@, Head(w)), !.wire = Tail(@)]
  <1>1. /\ w # <<>> /\ cl' = [cl EXCEPT ![s] = c]
        /\ UNCHANGED <<kind, calls, call, sock, cev, req, api, aev, bk>>
    BY DEF DeliverClient
  <1>2. cl \in [Socket -> ClientRec] /\ cl[s] \in ClientRec /\ w \in Streams /\ cl[s].rx \in Streams
        /\ sock[s] \in SocketRec
    BY TypeParts DEF IInv, ClientRec
  <1>3. Append(cl[s].rx, Head(w)) \in Streams /\ Tail(w) \in Streams
    BY <1>1, <1>2, HeadTailProperties, AppendProperties DEF Streams
  <1>4. /\ c \in ClientRec /\ c.rx = Append(cl[s].rx, Head(w)) /\ c.wire = Tail(w)
        /\ c.tx = cl[s].tx /\ c.shut = cl[s].shut
    BY <1>2, <1>3 DEF ClientRec
  <1> HIDE DEF c
  <1>5. /\ cl' \in [Socket -> ClientRec] /\ cl'[s] = c
        /\ \A x \in Socket \ {s} : cl'[x] = cl[x]
    BY <1>1, <1>2, <1>4
  <1>6. ClientOk(s)'
    <2>1. CASE sock[s].status = "READ"
      <3>1. PICK m \in Messages : m.call = call[s] /\ Incoming(sock[s], cl[s].rx, w, m)
        BY <2>1 DEF IInv, ClientOk, ReadClient
      <3>2. Incoming(sock[s], c.rx, c.wire, m)
        BY <1>1, <1>2, <1>4, <3>1, DeliverIncoming
      <3>3. ReadClient(s)'
        BY <1>1, <1>4, <1>5, <2>1, <3>1, <3>2 DEF IInv, ClientOk, ReadClient
      <3> QED  BY <1>1, <2>1, <3>3 DEF ClientOk
    <2>2. CASE sock[s].status # "READ"
      BY <1>1, <1>4, <1>5, <2>2
      DEF IInv, ClientOk, FreeClient, ProcessClient, SendClient, Own, Outgoing
    <2> QED  BY <2>1, <2>2
  <1>7. TypeOK'
    BY <1>1, <1>5, TypeParts, TypePartsNext DEF IInv
  <1>8. \A x \in Socket : ClientOk(x)'
    BY <1>1, <1>5, <1>6, OtherClients DEF IInv
  <1>9. ApiOk'
    <2>1. api.used => sock[api.sock].status = "PROCESS"
      BY DEF IInv, ApiOk, UsedApiOk
    <2> QED  BY <1>1, <2>1, SameApi DEF IInv
  <1> QED  BY <1>7, <1>8, <1>9 DEF IInv

LEMMA ClientClosesStep ==
  ASSUME SessionAssumption, IInv, NEW s \in Socket, ClientCloses(s) PROVE IInv'
  <1> DEFINE c == [cl[s] EXCEPT !.shut = TRUE, !.wire = <<>>, !.tx = <<>>]
  <1>1. /\ sock[s].status # "FREE" /\ cl' = [cl EXCEPT ![s] = c]
        /\ UNCHANGED <<kind, calls, call, sock, cev, req, api, aev, bk>>
    BY DEF ClientCloses
  <1>2. cl \in [Socket -> ClientRec] /\ cl[s] \in ClientRec /\ cl[s].rx \in Streams
        /\ sock[s] \in SocketRec /\ cl[s].wire \in Streams
    BY TypeParts DEF IInv, ClientRec
  <1>3. c \in ClientRec /\ c.rx = cl[s].rx /\ c.wire = <<>> /\ c.tx = <<>> /\ c.shut = TRUE
    BY <1>2, FromNothing DEF ClientRec
  <1> HIDE DEF c
  <1>4. /\ cl' \in [Socket -> ClientRec] /\ cl'[s] = c
        /\ \A x \in Socket \ {s} : cl'[x] = cl[x]
    BY <1>1, <1>2, <1>3
  <1>5. ClientOk(s)'
    <2>1. CASE sock[s].status = "READ"
      <3>1. PICK m \in Messages : m.call = call[s] /\ Incoming(sock[s], cl[s].rx, cl[s].wire, m)
        BY <2>1 DEF IInv, ClientOk, ReadClient
      <3>2. sock[s].done + Len(cl[s].rx) + Len(<<>>) <= Size
        BY <1>2, <3>1, SizeType, FromNothing DEF Incoming, SocketRec, Streams
      <3>3. Incoming(sock[s], c.rx, c.wire, m)
        BY <1>3, <3>1, <3>2, FromNothing DEF Incoming
      <3>4. ReadClient(s)'
        BY <1>1, <1>3, <1>4, <2>1, <3>1, <3>3 DEF IInv, ClientOk, ReadClient
      <3> QED  BY <1>1, <2>1, <3>4 DEF ClientOk
    <2>2. CASE sock[s].status # "READ"
      BY <1>1, <1>3, <1>4, <2>2
      DEF IInv, ClientOk, FreeClient, ProcessClient, SendClient, Own, Outgoing
    <2> QED  BY <2>1, <2>2
  <1>6. TypeOK'
    BY <1>1, <1>4, TypeParts, TypePartsNext DEF IInv
  <1>7. \A x \in Socket : ClientOk(x)'
    BY <1>1, <1>4, <1>5, OtherClients DEF IInv
  <1>8. ApiOk'
    <2>1. api.used => sock[api.sock].status = "PROCESS"
      BY DEF IInv, ApiOk, UsedApiOk
    <2> QED  BY <1>1, <2>1, SameApi DEF IInv
  <1> QED  BY <1>6, <1>7, <1>8 DEF IInv

(* What a step of the back end does to an api that waits for it: only the state of the
   connection, what is in it, and whether it is logged in may change.        *)
LEMMA BackStep ==
  ASSUME SessionAssumption, IInv, UNCHANGED <<kind, client, api, aev>>, bk' \in BackRec, ApiOk'
  PROVE  IInv'
  <1>1. api' \in ApiRec /\ aev' \subseteq {"READ", "WRITE"}
    BY TypeParts DEF IInv
  <1> QED  BY <1>1, ApiStep

LEMMA ConnectedStep == ASSUME SessionAssumption, IInv, Connected PROVE IInv'
  <1>1. bk.state = "connecting" /\ UNCHANGED <<kind, client, api, aev>>
    BY DEF Connected
  <1>2. PICK e \in {"up", "refused"} : bk' = [bk EXCEPT !.state = e]
    BY DEF Connected
  <1>3. bk \in BackRec
    BY TypeParts DEF IInv
  <1>4. /\ bk' \in BackRec /\ bk'.logged = bk.logged /\ bk'.wire = bk.wire /\ bk'.rx = bk.rx
        /\ bk'.tx = bk.tx /\ bk'.shut = bk.shut
    BY <1>2, <1>3 DEF BackRec
  <1>5. CASE api.used
    <2>1. UsedApiOk
      BY <1>5 DEF IInv, ApiOk
    <2>2. sock' = sock /\ CallMsg' = CallMsg /\ LoginMsg' = LoginMsg
          /\ LoginTypes' = LoginTypes /\ CallTypes' = CallTypes
      BY <1>1, <1>4 DEF CallMsg, LoginMsg, LoginTypes, CallTypes, client
    <2>3. UsedApiOk'
      BY <1>1, <1>4, <2>1, <2>2
      DEF UsedApiOk, Connects, SendsLogin, AwaitsLogin, SendsCall, AwaitsCall, LoggedIn, Awaiting,
          Outgoing, Fresh, Nothing, Silence
    <2>4. ApiOk'
      BY <1>1, <1>5, <2>3 DEF ApiOk
    <2> QED  BY <1>1, <1>4, <2>4, BackStep
  <1>6. CASE ~api.used
    <2>1. FreeApiOk /\ bk # NoLink
      BY <1>1, <1>6 DEF IInv, ApiOk, NoLink
    <2>2. FreeApiOk'
      BY <1>1, <1>4, <2>1 DEF FreeApiOk, Fresh, Nothing, Silence
    <2>3. ApiOk'
      BY <1>1, <1>6, <2>2 DEF ApiOk
    <2> QED  BY <1>1, <1>4, <2>3, BackStep
  <1> QED  BY <1>5, <1>6

(* Something is on its way only while the api awaits it. *)
LEMMA OnTheWay ==
  ASSUME IInv, bk.wire # <<>>
  PROVE  /\ api.used /\ UsedApiOk /\ bk.tx = <<>>
         /\ \/ /\ api.status = "INITING" /\ AwaitsLogin
               /\ \E t \in LoginTypes : Incoming(api, bk.rx, bk.wire, Message(t, LoginMsg.call))
            \/ /\ api.status = "READ" /\ AwaitsCall
               /\ \E t \in CallTypes : Incoming(api, bk.rx, bk.wire, Message(t, CallMsg.call))
  <1>1. api.used /\ UsedApiOk
    BY DEF IInv, ApiOk, FreeApiOk, NoLink, Nothing, Silence
  <1>2. api \in ApiRec
    BY TypeParts DEF IInv
  <1>3. CASE api.status = "INITING"
    <2>1. AwaitsLogin
      BY <1>1, <1>3 DEF UsedApiOk, Connects, SendsLogin, Nothing, Silence
    <2> QED  BY <1>1, <1>3, <2>1 DEF AwaitsLogin, Awaiting, Silence
  <1>4. CASE api.status = "SEND"
    BY <1>1, <1>4 DEF UsedApiOk, SendsCall, Silence
  <1>5. CASE api.status = "READ"
    BY <1>1, <1>5 DEF UsedApiOk, AwaitsCall, Awaiting, Silence
  <1> QED  BY <1>1, <1>2, <1>3, <1>4, <1>5 DEF ApiRec, UsedApiOk

(* Once its message is on its way, the api goes on awaiting it. *)
LEMMA StillAwaits ==
  ASSUME SessionAssumption, IInv, UNCHANGED <<kind, client, api, aev>>, bk' \in BackRec,
         api.used, bk'.tx = <<>>,
         \/ /\ api.status = "INITING" /\ AwaitsLogin
            /\ \E t \in LoginTypes' : Incoming(api, bk'.rx, bk'.wire, Message(t, LoginMsg.call))
         \/ /\ api.status = "READ" /\ AwaitsCall /\ (bk.logged => bk'.logged)
            /\ \E t \in CallTypes : Incoming(api, bk'.rx, bk'.wire, Message(t, CallMsg.call))
  PROVE  IInv'
  <1>1. UsedApiOk /\ sock' = sock /\ CallMsg' = CallMsg /\ LoginMsg' = LoginMsg
        /\ CallTypes' = CallTypes
    BY DEF CallMsg, LoginMsg, CallTypes, client, IInv, ApiOk
  <1>2. ApiOk'
    <2>1. CASE api.status = "INITING" /\ AwaitsLogin /\
               \E t \in LoginTypes' : Incoming(api, bk'.rx, bk'.wire, Message(t, LoginMsg.call))
      <3>1. AwaitsLogin'
        BY <1>1, <2>1 DEF AwaitsLogin, Awaiting
      <3> QED  BY <1>1, <2>1, <3>1 DEF ApiOk, UsedApiOk
    <2>2. CASE api.status = "READ" /\ AwaitsCall /\ (bk.logged => bk'.logged) /\
               \E t \in CallTypes : Incoming(api, bk'.rx, bk'.wire, Message(t, CallMsg.call))
      <3>1. AwaitsCall'
        BY <1>1, <2>2 DEF AwaitsCall, Awaiting, LoggedIn
      <3> QED  BY <1>1, <2>2, <3>1 DEF ApiOk, UsedApiOk
    <2> QED  BY <2>1, <2>2
  <1> QED  BY <1>2, BackStep

LEMMA DeliverBackStep == ASSUME SessionAssumption, IInv, DeliverBack PROVE IInv'
  <1> DEFINE w == bk.wire
  <1>1. /\ w # <<>> /\ bk' = [bk EXCEPT !.rx = Append(bk.rx, Head(w)), !.wire = Tail(w)]
        /\ UNCHANGED <<kind, client, api, aev>>
    BY DEF DeliverBack
  <1>2. bk \in BackRec /\ w \in Streams /\ bk.rx \in Streams /\ api \in ApiRec
    BY TypeParts DEF IInv, BackRec
  <1>3. Append(bk.rx, Head(w)) \in Streams /\ Tail(w) \in Streams
    BY <1>1, <1>2, HeadTailProperties, AppendProperties DEF Streams
  <1>4. /\ bk' \in BackRec /\ bk'.rx = Append(bk.rx, Head(w)) /\ bk'.wire = Tail(w)
        /\ bk'.tx = bk.tx /\ bk'.logged = bk.logged
    BY <1>1, <1>2, <1>3 DEF BackRec
  <1>5. \A m : Incoming(api, bk.rx, w, m) => Incoming(api, bk'.rx, bk'.wire, m)
    BY <1>1, <1>2, <1>4, DeliverIncoming
  <1>6. LoginTypes' = LoginTypes
    BY <1>4 DEF LoginTypes
  <1>7. api.used /\ bk'.tx = <<>>
    BY <1>1, <1>4, OnTheWay
  <1>8. \/ /\ api.status = "INITING" /\ AwaitsLogin
           /\ \E t \in LoginTypes' : Incoming(api, bk'.rx, bk'.wire, Message(t, LoginMsg.call))
        \/ /\ api.status = "READ" /\ AwaitsCall /\ (bk.logged => bk'.logged)
           /\ \E t \in CallTypes : Incoming(api, bk'.rx, bk'.wire, Message(t, CallMsg.call))
    BY <1>1, <1>4, <1>5, <1>6, OnTheWay
  <1> QED  BY <1>1, <1>4, <1>7, <1>8, StillAwaits

(* An api whose packet is whole in the connection has sent it, and awaits its answer. *)
LEMMA Asked ==
  ASSUME SessionAssumption, IInv, bk.state = "up", ~bk.shut, Len(bk.tx) >= Size
  PROVE  /\ api.used /\ UsedApiOk /\ Fresh /\ Silence
         /\ \/ api.status = "INITING" /\ AwaitsLogin /\ bk.tx = Packet(LoginMsg)
            \/ api.status = "READ" /\ AwaitsCall /\ bk.tx = Packet(CallMsg)
  <1>1. bk.tx # <<>>
    BY SizeType, FromNothing
  <1>2. api.used /\ UsedApiOk
    BY <1>1 DEF IInv, ApiOk, FreeApiOk, NoLink, Nothing
  <1>3. \A m : ~Outgoing(api, bk, m)
    <2>1. api.done \in Nat /\ Len(bk.tx) \in Nat
      BY SizeType, TypeParts DEF IInv, ApiRec, BackRec, Streams
    <2> QED  BY <2>1, SizeType DEF Outgoing
  <1>4. CASE api.status = "INITING"
    <2>1. AwaitsLogin
      BY <1>1, <1>2, <1>3, <1>4 DEF UsedApiOk, Connects, SendsLogin, Nothing
    <2> QED  BY <1>1, <1>2, <1>4, <2>1 DEF AwaitsLogin, Awaiting
  <1>5. CASE api.status = "READ"
    <2>1. AwaitsCall
      BY <1>2, <1>5 DEF UsedApiOk
    <2> QED  BY <1>1, <1>2, <1>5, <2>1 DEF AwaitsCall, Awaiting
  <1>6. CASE api.status = "SEND"
    BY <1>2, <1>3, <1>6 DEF UsedApiOk, SendsCall
  <1> QED  BY <1>2, <1>4, <1>5, <1>6, TypeParts DEF IInv, ApiRec, UsedApiOk

LEMMA BackAnswersStep == ASSUME SessionAssumption, IInv, BackAnswers PROVE IInv'
  <1> DEFINE m == Head(bk.tx).msg
  <1>1. /\ bk.state = "up" /\ ~bk.shut /\ Len(bk.tx) >= Size /\ UNCHANGED <<kind, client, api, aev>>
    BY DEF BackAnswers
  <1>2. PICK t \in {IF m.type = "login" THEN "login_ok" ELSE "answer", "bad_head"}
                   \cup IF kind = "middle" THEN {"bad_packet"} ELSE {} :
          bk' = [bk EXCEPT !.wire = @ \o Packet(Message(t, m.call)),
                           !.tx = SubSeq(@, Size + 1, Len(@)), !.logged = @ \/ t = "login_ok"]
    BY DEF BackAnswers
  <1> HIDE DEF m
  <1>3. /\ api.used /\ UsedApiOk /\ Fresh /\ Silence /\ bk \in BackRec /\ api.sock \in Socket
        /\ \/ api.status = "INITING" /\ AwaitsLogin /\ bk.tx = Packet(LoginMsg)
           \/ api.status = "READ" /\ AwaitsCall /\ bk.tx = Packet(CallMsg)
    BY <1>1, Asked, InProcess
  <1>4. LoginMsg \in Messages /\ CallMsg \in Messages
    BY <1>3, MessageTypes, AwaitedTypes DEF IInv
  <1>5. /\ bk.tx = Packet(m) /\ m \in Messages
        /\ \/ api.status = "INITING" /\ AwaitsLogin /\ m = LoginMsg
           \/ api.status = "READ" /\ AwaitsCall /\ m = CallMsg
    <2>1. \A w \in Messages : Head(Packet(w)).msg = w
      BY PacketUnits
    <2> QED  BY <1>3, <1>4, <2>1 DEF m
  <1> DEFINE w == Message(t, m.call)
  <1>6. w \in Messages
    BY <1>5, MessageTypes DEF IInv, Types, Messages
  <1>7. /\ Packet(w) \in Streams /\ Len(Packet(w)) = Size /\ From(Packet(w), w, 0)
        /\ bk.wire \o Packet(w) = Packet(w) /\ SubSeq(bk.tx, Size + 1, Len(bk.tx)) = <<>>
    <2>1. /\ Packet(w) \in Streams /\ Len(Packet(w)) = Size /\ From(Packet(w), w, 0)
          /\ Len(Packet(m)) = Size /\ Packet(m) \in Streams
      BY <1>5, <1>6, PacketUnits
    <2>2. bk.wire \o Packet(w) = Packet(w)
      BY <1>3, <2>1 DEF Silence, Streams
    <2>3. SubSeq(Packet(m), Size + 1, Size) \in Streams
          /\ Len(SubSeq(Packet(m), Size + 1, Size)) = Size - (Size + 1) + 1
      BY <2>1, Piece, SizeType
    <2>4. SubSeq(Packet(m), Size + 1, Size) = <<>>
      BY <2>3, SizeType, EmptySeq DEF Streams
    <2> QED  BY <1>5, <2>1, <2>2, <2>4
  <1>8. bk' = [bk EXCEPT !.wire = Packet(w), !.tx = <<>>, !.logged = bk.logged \/ t = "login_ok"]
    BY <1>2, <1>7
  <1> HIDE DEF w
  <1>9. /\ bk' \in BackRec /\ bk'.wire = Packet(w) /\ bk'.tx = <<>> /\ bk'.rx = <<>>
        /\ bk'.logged = (bk.logged \/ t = "login_ok")
    BY <1>3, <1>7, <1>8, FromNothing DEF BackRec, Silence
  <1>10. Incoming(api, bk'.rx, bk'.wire, w)
    <2>1. 0 + Len(<<>>) = 0 /\ 0 + Len(<<>>) + Size <= Size
      BY SizeType, FromNothing
    <2> QED  BY <1>3, <1>7, <1>9, <2>1, FromNothing DEF Incoming, Fresh
  <1>11. CASE api.status = "INITING" /\ AwaitsLogin /\ m = LoginMsg
    <2>1. m.type = "login"
      BY <1>11 DEF LoginMsg, Message
    <2>2. t \in LoginTypes'
      BY <1>2, <1>9, <2>1 DEF LoginTypes
    <2> QED  BY <1>1, <1>3, <1>9, <1>10, <1>11, <2>2, StillAwaits DEF w
  <1>12. CASE api.status = "READ" /\ AwaitsCall /\ m = CallMsg
    <2>1. m.type = "call"
      BY <1>12 DEF CallMsg, Message
    <2>2. t \in CallTypes
      BY <1>2, <2>1 DEF CallTypes
    <2> QED  BY <1>1, <1>3, <1>9, <1>10, <1>12, <2>2, StillAwaits DEF w
  <1> QED  BY <1>5, <1>11, <1>12

(* A close leaves nothing on its way; what the api awaits will not come, or not all. *)
LEMMA LosesAwaited ==
  ASSUME SessionAssumption, api \in ApiRec, bk \in BackRec, NEW m, NEW types, "bad_head" \in types,
         Awaiting(m, types)
  PROVE  \E t \in types : Incoming(api, bk.rx, <<>>, Message(t, m.call))
  <1>1. CASE Fresh /\ Silence /\ bk.tx = Packet(m)
    <2>1. 0 + Len(<<>>) + Len(<<>>) <= Size
      BY SizeType, FromNothing
    <2>2. Incoming(api, bk.rx, <<>>, Message("bad_head", m.call))
      BY <1>1, <2>1, FromNothing DEF Incoming, Fresh, Silence
    <2> QED  BY <2>2
  <1>2. ASSUME NEW t \in types, Incoming(api, bk.rx, bk.wire, Message(t, m.call))
        PROVE  Incoming(api, bk.rx, <<>>, Message(t, m.call))
    <2>1. api.done + Len(bk.rx) + Len(<<>>) <= Size
      BY <1>2, SizeType, FromNothing DEF Incoming, ApiRec, BackRec, Streams
    <2> QED  BY <1>2, <2>1, FromNothing DEF Incoming
  <1> QED  BY <1>1, <1>2 DEF Awaiting

LEMMA BackClosesStep == ASSUME SessionAssumption, IInv, BackCloses PROVE IInv'
  <1>1. /\ bk.state = "up" /\ UNCHANGED <<kind, client, api, aev>>
        /\ bk' = [bk EXCEPT !.shut = TRUE, !.wire = <<>>, !.tx = <<>>]
    BY DEF BackCloses
  <1>2. bk \in BackRec /\ api \in ApiRec
    BY TypeParts DEF IInv
  <1>3. /\ bk' \in BackRec /\ bk'.logged = bk.logged /\ bk'.wire = <<>> /\ bk'.rx = bk.rx
        /\ bk'.tx = <<>> /\ bk'.shut = TRUE
    BY <1>1, <1>2, FromNothing DEF BackRec
  <1>4. LoginTypes' = LoginTypes
    BY <1>3 DEF LoginTypes
  <1>5. CASE api.used /\ api.status = "INITING" /\ AwaitsLogin
    <2>1. \E t \in LoginTypes : Incoming(api, bk.rx, <<>>, Message(t, LoginMsg.call))
      BY <1>2, <1>5, LosesAwaited DEF AwaitsLogin, LoginTypes
    <2> QED  BY <1>1, <1>3, <1>4, <1>5, <2>1, StillAwaits
  <1>6. CASE api.used /\ api.status = "READ"
    <2>1. AwaitsCall
      BY <1>6 DEF IInv, ApiOk, UsedApiOk
    <2>2. \E t \in CallTypes : Incoming(api, bk.rx, <<>>, Message(t, CallMsg.call))
      BY <1>2, <2>1, LosesAwaited DEF AwaitsCall, CallTypes
    <2> QED  BY <1>1, <1>3, <1>6, <2>1, <2>2, StillAwaits
  <1>7. CASE api.used /\ ~(api.status = "INITING" /\ AwaitsLogin) /\ api.status # "READ"
    <2>1. UsedApiOk /\ CallMsg' = CallMsg /\ LoginMsg' = LoginMsg /\ sock' = sock
      BY <1>1, <1>7 DEF IInv, ApiOk, CallMsg, LoginMsg, client
    <2>2. \A m : Outgoing(api, bk, m) => Outgoing(api, bk', m)
      BY <1>3 DEF Outgoing
    <2>3. UsedApiOk'
      BY <1>1, <1>3, <1>7, <2>1, <2>2
      DEF UsedApiOk, Connects, SendsLogin, SendsCall, LoggedIn, Fresh, Nothing, Silence
    <2>4. ApiOk'
      BY <1>1, <1>7, <2>3 DEF ApiOk
    <2> QED  BY <1>1, <1>3, <2>4, BackStep
  <1>8. CASE ~api.used
    <2>1. FreeApiOk /\ bk # NoLink
      BY <1>1, <1>8 DEF IInv, ApiOk, NoLink
    <2>2. FreeApiOk'
      BY <1>1, <1>3, <2>1 DEF FreeApiOk, Fresh, Nothing, Silence
    <2>3. ApiOk'
      BY <1>1, <1>8, <2>2 DEF ApiOk
    <2> QED  BY <1>1, <1>3, <2>3, BackStep
  <1> QED  BY <1>5, <1>6, <1>7, <1>8

(* ------------------------------ the invariant ----------------------------- *)

LEMMA NextInv == ASSUME SessionAssumption, IInv, Next PROVE IInv'
  <1>1. ASSUME NEW s \in Socket, Accept(s) PROVE IInv'
    BY <1>1, AcceptStep
  <1>2. ASSUME NEW s \in Socket, ClientHandler(s) PROVE IInv'
    BY <1>2, ReadRequestStep, ReadRequestFailsStep, RefuseStep, CallKeptStep, CallConnectsStep,
       CallFailsStep, SendReplyStep, SendReplyFailsStep DEF ClientHandler
  <1>3. ASSUME NEW s \in Socket, DeliverClient(s) PROVE IInv'
    BY <1>3, DeliverClientStep
  <1>4. ASSUME NEW s \in Socket, ClientCloses(s) PROVE IInv'
    BY <1>4, ClientClosesStep
  <1>5. ASSUME ApiHandler PROVE IInv'
    BY <1>5, FailSteps, RelayConnectedStep, SendLoginStep, LoginAnsweredStep, SendCallStep,
       ReadPartStep, AnsweredStep DEF ApiHandler
  <1>6. ASSUME BackEnd PROVE IInv'
    BY <1>6, ConnectedStep, DeliverBackStep, BackClosesStep, BackAnswersStep DEF BackEnd
  <1> QED  BY <1>1, <1>2, <1>3, <1>4, <1>5, <1>6 DEF Next

LEMMA StutterInv == ASSUME IInv, UNCHANGED vars PROVE IInv'
  BY DEF vars, client, IInv, TypeOK, ClientOk, FreeClient, ReadClient, ProcessClient, SendClient, Own,
         ApiOk, FreeApiOk, UsedApiOk, Connects, SendsLogin, AwaitsLogin, SendsCall, AwaitsCall,
         LoggedIn, Awaiting, LoginTypes, CallTypes, LoginMsg, CallMsg, Fresh, Nothing, Silence

LEMMA InvAlways == Spec => []IInv
  <1>1. Init => IInv
    BY InitInv, SessionAssumption
  <1>2. IInv /\ [Next]_vars => IInv'
    BY NextInv, StutterInv, SessionAssumption
  <1> QED  BY <1>1, <1>2, PTL DEF Spec

(* ------------------------------- theorems --------------------------------- *)

(* At every moment each client and the api have the one event that their status needs
   next, so that the handlers, which act on the status, are called when they can go on,
   and the variables have their types.                                       *)
THEOREM KeepsStateFits == Spec => []StateFits
  <1>1. ASSUME IInv PROVE StateFits
    <2>1. ASSUME NEW s \in Socket
          PROVE  /\ cev[s] = CASE sock[s].status = "READ" -> {"READ"}
                               [] sock[s].status = "SEND" -> {"WRITE"}
                               [] OTHER                   -> {}
                 /\ (sock[s].status = "PROCESS") <=> (api.used /\ api.sock = s)
      <3>1. ClientOk(s) /\ sock[s].status \in {"FREE", "READ", "PROCESS", "SEND"}
        BY <1>1, TypeParts DEF IInv, SocketRec
      <3>2. (sock[s].status = "PROCESS") <=> (api.used /\ api.sock = s)
        BY <1>1, <3>1, InProcess DEF ClientOk, ProcessClient
      <3>3. cev[s] = CASE sock[s].status = "READ" -> {"READ"}
                       [] sock[s].status = "SEND" -> {"WRITE"}
                       [] OTHER                   -> {}
        BY <3>1 DEF ClientOk, FreeClient, ReadClient, ProcessClient, SendClient
      <3> QED  BY <3>2, <3>3
    <2>2. ASSUME api.used
          PROVE  CASE api.status = "READ" \/ api.login = "RECVING" -> aev = {"READ"}
                   [] api.status = "SEND"                          -> aev = {"WRITE"}
                   [] OTHER                                        -> "WRITE" \in aev
      <3>1. UsedApiOk /\ api.status \in {"FREE", "INITING", "SEND", "READ"}
        BY <1>1, <2>2, InProcess DEF ApiRec
      <3> QED  BY <3>1
               DEF UsedApiOk, Connects, SendsLogin, AwaitsLogin, SendsCall, AwaitsCall, LoggedIn
    <2>3. ~api.used => aev = {}
      BY <1>1 DEF IInv, ApiOk, FreeApiOk
    <2> QED  BY <1>1, <2>1, <2>2, <2>3 DEF StateFits, EventFits, IInv
  <1> QED  BY <1>1, InvAlways, PTL

LEMMA SomePrefix ==
  ASSUME SessionAssumption, NEW m \in Messages
  PROVE  Prefix(<<>>, Packet(m)) /\ Prefix(Packet(m), Packet(m))
  BY FromStart, FromNothing, PacketUnits, SizeType

(* What was written of a packet is its beginning. *)
LEMMA WrittenPrefix ==
  ASSUME SessionAssumption, NEW o \in SocketRec \cup ApiRec, NEW peer \in ClientRec \cup BackRec,
         NEW m \in Messages, Outgoing(o, peer, m)
  PROVE  Prefix(peer.tx, Packet(m))
  <1>1. CASE peer.shut
    BY <1>1, SomePrefix DEF Outgoing
  <1>2. CASE ~peer.shut
    <2>1. peer.tx \in Streams /\ From(peer.tx, m, 0) /\ Len(peer.tx) = o.done /\ o.done <= Size
      BY <1>2, SizeType DEF Outgoing, ClientRec, BackRec, SocketRec, ApiRec
    <2> QED  BY <2>1, FromStart
  <1> QED  BY <1>1, <1>2

LEMMA ClientsFramed == ASSUME SessionAssumption, IInv PROVE AnsweredOnce
  <1> SUFFICES ASSUME NEW s \in Socket, call[s] > 0
               PROVE  \E t \in {"answer", "error"} :
                         LET p == Packet(Message(t, call[s])) IN
                         /\ Prefix(cl[s].tx, p)
                         /\ sock[s].status = "FREE" /\ ~cl[s].shut => cl[s].tx = p
    BY DEF AnsweredOnce
  <1>1. /\ ClientOk(s) /\ sock[s] \in SocketRec /\ cl[s] \in ClientRec
        /\ \A m \in Own(s) : m \in Messages
    BY TypeParts, MessageTypes DEF IInv
  <1>2. \E m \in Own(s) : /\ Prefix(cl[s].tx, Packet(m))
                          /\ sock[s].status = "FREE" /\ ~cl[s].shut => cl[s].tx = Packet(m)
    <2>e. Message("error", call[s]) \in Own(s)
      BY DEF Own
    <2>1. CASE cl[s].tx = <<>> /\ (sock[s].status = "FREE" => cl[s].shut)
      BY <1>1, <2>e, <2>1, SomePrefix
    <2>2. ASSUME NEW m \in Own(s), cl[s].tx = Packet(m)
          PROVE  Prefix(cl[s].tx, Packet(m))
      BY <1>1, <2>2, SomePrefix
    <2>3. ASSUME NEW m \in Own(s), Outgoing(sock[s], cl[s], m)
          PROVE  Prefix(cl[s].tx, Packet(m))
      BY <1>1, <2>3, WrittenPrefix
    <2>4. CASE sock[s].status = "FREE"
      BY <1>1, <2>1, <2>2, <2>4 DEF ClientOk, FreeClient
    <2>5. CASE sock[s].status = "SEND"
      BY <1>1, <2>3, <2>5 DEF ClientOk, SendClient
    <2>6. CASE sock[s].status \in {"READ", "PROCESS"}
      BY <1>1, <2>1, <2>6 DEF ClientOk, ReadClient, ProcessClient
    <2> QED  BY <1>1, <2>4, <2>5, <2>6 DEF SocketRec
  <1> QED  BY <1>2 DEF Own

LEMMA BackFramed == ASSUME SessionAssumption, IInv PROVE CallFramed
  <1> SUFFICES ASSUME bk.tx # <<>>
               PROVE  /\ api.used
                      /\ \/ kind = "middle" /\ ~bk.logged /\ Prefix(bk.tx, Packet(LoginMsg))
                         \/ Prefix(bk.tx, Packet(CallMsg))
    BY DEF CallFramed, LoginMsg, CallMsg
  <1>1. api.used
    BY DEF IInv, ApiOk, FreeApiOk, NoLink, Nothing
  <1>2. UsedApiOk /\ api \in ApiRec /\ bk \in BackRec /\ api.sock \in Socket
    BY <1>1, InProcess
  <1>3. LoginMsg \in Messages /\ CallMsg \in Messages
    BY <1>2, MessageTypes, AwaitedTypes DEF IInv
  <1>4. \A m \in Messages : /\ Outgoing(api, bk, m) => Prefix(bk.tx, Packet(m))
                            /\ bk.tx = Packet(m) => Prefix(bk.tx, Packet(m))
    BY <1>2, WrittenPrefix, SomePrefix
  <1>5. CASE api.status = "INITING"
    BY <1>1, <1>2, <1>3, <1>4, <1>5
    DEF UsedApiOk, Connects, SendsLogin, AwaitsLogin, Awaiting, Nothing
  <1>6. CASE api.status \in {"SEND", "READ"}
    BY <1>1, <1>2, <1>3, <1>4, <1>6 DEF UsedApiOk, SendsCall, AwaitsCall, Awaiting
  <1> QED  BY <1>2, <1>5, <1>6 DEF ApiRec, UsedApiOk

(* A client gets the beginning of one packet, the answer to its own request or an error,
   and the whole of it before its socket is released; a back end gets whole packets, the
   login before the first call, and the call of the client that is being served. *)
THEOREM KeepsFramed == Spec => []Framed
  <1>1. ASSUME IInv PROVE Framed
    <2>1. LoginFirst
      BY <1>1 DEF LoginFirst, IInv, ApiOk, FreeApiOk, UsedApiOk, SendsCall, AwaitsCall, LoggedIn
    <2> QED  BY <1>1, <2>1, ClientsFramed, BackFramed, SessionAssumption DEF Framed
  <1> QED  BY <1>1, InvAlways, PTL

(* However a call ended, nothing of it is left in a connection that is kept, which is
   logged in, and the assertions about an api that is taken hold.            *)
THEOREM KeepsTakenClean == Spec => []TakenClean
  <1>1. ASSUME IInv PROVE TakenClean
    <2>1. ~api.used => FreeApiOk
      BY <1>1 DEF IInv, ApiOk
    <2> QED  BY <2>1 DEF TakenClean, KeptClean, AssertsHold, FreeApiOk, NoLink, FreeApi, Fresh,
                         Nothing, Silence
  <1> QED  BY <1>1, InvAlways, PTL

(* ----------------------------- the refinement ----------------------------- *)

Phases == [s \in Socket |-> CASE sock[s].status = "FREE" -> "idle"
                              [] sock[s].status = "SEND" -> "reply"
                              [] OTHER                   -> "open"]
Shown == [s \in Socket |-> IF sock[s].status = "SEND" THEN Whole(sock[s]) ELSE NoMessage]

LEMMA AbstractInit == SessionAssumption /\ Init => Reference!Init
  <1> SUFFICES ASSUME Init PROVE Reference!Init  OBVIOUS
  <1>1. Phases = [s \in Socket |-> "idle"]
    BY DEF Init, Phases, FreeSocket
  <1>2. Shown = [s \in Socket |-> Reference!NoReply]
    BY DEF Init, Shown, FreeSocket, NoMessage, Message, Reference!NoReply
  <1> QED  BY <1>1, <1>2 DEF Init, Reference!Init, Phases, Shown

(* A step that leaves every client in its phase. *)
LEMMA AbstractSame ==
  ASSUME UNCHANGED <<calls, call>>,
         \A x \in Socket :
            \/ sock'[x] = sock[x]
            \/ sock[x].status \in {"READ", "PROCESS"} /\ sock'[x].status \in {"READ", "PROCESS"}
            \/ /\ sock[x].status = "SEND" /\ sock'[x].status = "SEND"
               /\ sock'[x].buf = sock[x].buf
  PROVE  UNCHANGED Reference!vars
  <1>1. Phases' = Phases
    BY DEF Phases
  <1>2. Shown' = Shown
    <2> SUFFICES ASSUME NEW x \in Socket
                 PROVE  (IF sock'[x].status = "SEND" THEN Whole(sock'[x]) ELSE NoMessage)
                        = (IF sock[x].status = "SEND" THEN Whole(sock[x]) ELSE NoMessage)
      BY DEF Shown
    <2>1. sock'[x].buf = sock[x].buf => Whole(sock'[x]) = Whole(sock[x])
      BY DEF Whole
    <2> QED  BY <2>1
  <1> QED  BY <1>1, <1>2 DEF Reference!vars, Phases, Shown

LEMMA AbstractOpen ==
  ASSUME SessionAssumption, IInv, NEW s \in Socket, Accept(s)
  PROVE  Reference!Open(s)
  <1>1. sock \in [Socket -> SocketRec]
    BY TypeParts DEF IInv
  <1>2. /\ sock[s].status = "FREE" /\ calls < Calls /\ calls' = calls + 1
        /\ call' = [call EXCEPT ![s] = calls + 1]
        /\ sock'[s].status = "READ" /\ \A x \in Socket \ {s} : sock'[x] = sock[x]
    BY <1>1 DEF Accept, SocketRec
  <1>3. Phases[s] = "idle" /\ Phases' = [Phases EXCEPT ![s] = "open"]
    BY <1>2 DEF Phases
  <1>4. Shown' = Shown
    BY <1>2 DEF Shown
  <1> QED  BY <1>2, <1>3, <1>4 DEF Reference!Open, Phases, Shown

LEMMA AbstractDecide ==
  ASSUME SessionAssumption, IInv, NEW s \in Socket, NEW m \in Messages, m \in Own(s), Reply(s, m),
         UNCHANGED <<calls, call>>, sock[s].status \in {"READ", "PROCESS"}
  PROVE  Reference!Decide(s)
  <1> DEFINE o == [sock[s] EXCEPT !.buf = Packet(m), !.done = 0, !.total = Size, !.status = "SEND"]
  <1>1. sock \in [Socket -> SocketRec] /\ sock[s] \in SocketRec
    BY TypeParts DEF IInv
  <1>2. o.status = "SEND" /\ o.buf = Packet(m) /\ sock' = [sock EXCEPT ![s] = o]
    BY <1>1 DEF SocketRec, Reply, Loaded
  <1> HIDE DEF o
  <1>3. /\ sock'[s].status = "SEND" /\ Whole(sock'[s]) = m
        /\ \A x \in Socket \ {s} : sock'[x] = sock[x]
    BY <1>1, <1>2, PacketUnits DEF Whole
  <1>4. Phases[s] = "open" /\ Phases' = [Phases EXCEPT ![s] = "reply"]
    BY <1>3 DEF Phases
  <1>5. Shown' = [Shown EXCEPT ![s] = m]
    BY <1>3 DEF Shown
  <1>6. m \in Reference!Replies(call[s])
    BY DEF Own, Message, Reference!Replies
  <1> QED  BY <1>4, <1>5, <1>6 DEF Reference!Decide, Phases, Shown

LEMMA AbstractRelease ==
  ASSUME IInv, NEW s \in Socket, Fini(s), UNCHANGED <<calls, call>>, sock[s].status = "SEND"
  PROVE  Reference!Release(s)
  <1>1. sock \in [Socket -> SocketRec]
    BY TypeParts DEF IInv
  <1>2. sock'[s].status = "FREE" /\ \A x \in Socket \ {s} : sock'[x] = sock[x]
    BY <1>1 DEF Fini, FreeSocket
  <1>3. Phases[s] = "reply" /\ Phases' = [Phases EXCEPT ![s] = "idle"]
    BY <1>2 DEF Phases
  <1>4. Shown' = [Shown EXCEPT ![s] = Reference!NoReply]
    BY <1>2 DEF Shown, NoMessage, Message, Reference!NoReply
  <1> QED  BY <1>3, <1>4 DEF Reference!Release, Phases, Shown

(* The handlers of a client. *)
LEMMA ClientImplements ==
  ASSUME SessionAssumption, IInv, NEW s \in Socket, ClientHandler(s)
  PROVE  Reference!Decide(s) \/ Reference!Release(s) \/ UNCHANGED Reference!vars
  <1>t. sock \in [Socket -> SocketRec] /\ sock[s] \in SocketRec
    BY TypeParts DEF IInv
  <1>e. /\ Message("error", call[s]) \in Own(s) /\ Message("error", call[s]) \in Messages
    BY ErrorIsOwn
  <1>f. ASSUME WriteError(s), UNCHANGED <<calls, call>>, sock[s].status = "READ"
        PROVE  Reference!Decide(s)
    BY <1>e, <1>f, AbstractDecide DEF WriteError
  <1>1. CASE ReadRequest(s)
    <2> DEFINE o == FromClient(s).o
    <2>1. /\ sock[s].status = "READ" /\ o.status = "READ" /\ sock' = [sock EXCEPT ![s] = o]
          /\ UNCHANGED <<calls, call>>
      BY <1>1, ClientReadsPart DEF ReadRequest
    <2> HIDE DEF o
    <2>2. sock'[s].status = "READ" /\ \A x \in Socket \ {s} : sock'[x] = sock[x]
      BY <1>t, <2>1
    <2> QED  BY <2>1, <2>2, AbstractSame
  <1>2. CASE ReadRequestFails(s)
    BY <1>2, <1>f DEF ReadRequestFails, Readable
  <1>3. CASE Refuse(s)
    BY <1>3, <1>f DEF Refuse, Received, Readable
  <1>4. CASE CallFails(s)
    BY <1>4, <1>f DEF CallFails, ServiceFails, Received, Readable
  <1>5. CASE CallKept(s) \/ CallConnects(s)
    <2> DEFINE o == [FromClient(s).o EXCEPT !.status = "PROCESS"]
    <2>1. Called(s) /\ Received(s) /\ sock[s].status = "READ" /\ sock' = [sock EXCEPT ![s] = o]
          /\ UNCHANGED <<calls, call>>
      BY <1>5 DEF CallKept, CallConnects, Called, Received, Readable
    <2>2. o.status = "PROCESS"
      BY <2>1, ReceivesOwn DEF SocketRec
    <2> HIDE DEF o
    <2>3. sock'[s].status = "PROCESS" /\ \A x \in Socket \ {s} : sock'[x] = sock[x]
      BY <1>t, <2>1, <2>2
    <2> QED  BY <2>1, <2>3, AbstractSame
  <1>6. CASE SendReply(s)
    <2>1. UNCHANGED <<calls, call>> /\ sock[s].status = "SEND"
      BY <1>6 DEF SendReply, Writable
    <2>2. CASE Fini(s)
      BY <2>1, <2>2, AbstractRelease
    <2>3. ASSUME NEW n, sock' = [sock EXCEPT ![s] = Sent(@, n)]
          PROVE  UNCHANGED Reference!vars
      <3>1. sock'[s].status = sock[s].status /\ sock'[s].buf = sock[s].buf
            /\ \A x \in Socket \ {s} : sock'[x] = sock[x]
        BY <1>t, <2>3 DEF Sent, SocketRec
      <3> QED  BY <2>1, <3>1, AbstractSame
    <2> QED  BY <1>6, <2>2, <2>3 DEF SendReply
  <1>7. CASE SendReplyFails(s)
    BY <1>7, AbstractRelease DEF SendReplyFails, Writable
  <1> QED  BY <1>1, <1>2, <1>3, <1>4, <1>5, <1>6, <1>7 DEF ClientHandler

(* The handlers of the api. *)
LEMMA ApiImplements ==
  ASSUME SessionAssumption, IInv, ApiHandler
  PROVE  (\E s \in Socket : Reference!Decide(s)) \/ UNCHANGED Reference!vars
  <1>1. CASE UNCHANGED client
    BY <1>1, AbstractSame DEF client
  <1>2. CASE ConnectFails \/ ReadFails \/ WriteFails
    <2>1. api.used /\ WriteError(api.sock) /\ UNCHANGED <<calls, call>>
      BY <1>2 DEF ConnectFails, ReadFails, WriteFails, FiredApi, ServiceFails
    <2>2. PICK s \in Socket : s = api.sock /\ sock[s].status = "PROCESS"
      BY <2>1, InProcess
    <2>3. Reference!Decide(s)
      BY <2>1, <2>2, ErrorIsOwn, AbstractDecide DEF WriteError
    <2> QED  BY <2>3
  <1>3. CASE Answered
    <2>1. api.used /\ Reply(api.sock, Whole(FromBack.o)) /\ UNCHANGED <<calls, call>>
      BY <1>3 DEF Answered, FiredApi
    <2>2. PICK s \in Socket : s = api.sock /\ sock[s].status = "PROCESS"
      BY <2>1, InProcess
    <2>3. PICK m \in Messages : m = Whole(FromBack.o) /\ m \in Own(s)
      BY <1>3, <2>2, AnsweredGives
    <2>4. Reference!Decide(s)
      BY <2>1, <2>2, <2>3, AbstractDecide
    <2> QED  BY <2>4
  <1> QED  BY <1>1, <1>2, <1>3
           DEF ApiHandler, RelayConnected, SendLogin, LoginAnswered, SendCall, ReadPart

(* Each client that was accepted is replied to once, with the answer to its own request
   or an error, before its socket is released: every step of Session is one that
   CallReply allows, or changes nothing of it.                               *)
THEOREM Implements == Spec => ImplementsCallReply
  <1>1. Init => Reference!Init
    BY AbstractInit, SessionAssumption
  <1>2. IInv /\ [Next]_vars => [Reference!Next]_(Reference!vars)
    <2> SUFFICES ASSUME IInv, [Next]_vars PROVE Reference!Next \/ UNCHANGED Reference!vars
      OBVIOUS
    <2>1. ASSUME NEW s \in Socket, Accept(s) PROVE Reference!Next
      BY <2>1, AbstractOpen, SessionAssumption DEF Reference!Next
    <2>2. ASSUME NEW s \in Socket, ClientHandler(s)
          PROVE  Reference!Next \/ UNCHANGED Reference!vars
      BY <2>2, ClientImplements, SessionAssumption DEF Reference!Next
    <2>3. ASSUME ApiHandler PROVE Reference!Next \/ UNCHANGED Reference!vars
      BY <2>3, ApiImplements, SessionAssumption DEF Reference!Next
    <2>4. ASSUME NEW s \in Socket, DeliverClient(s) \/ ClientCloses(s)
          PROVE  UNCHANGED Reference!vars
      BY <2>4, AbstractSame DEF DeliverClient, ClientCloses
    <2>5. ASSUME BackEnd \/ UNCHANGED vars PROVE UNCHANGED Reference!vars
      BY <2>5, AbstractSame DEF BackEnd, Connected, DeliverBack, BackCloses, BackAnswers, client, vars
    <2> QED  BY <2>1, <2>2, <2>3, <2>4, <2>5 DEF Next
  <1> QED  BY <1>1, <1>2, InvAlways, PTL DEF Spec, Reference!Spec, ImplementsCallReply

=============================================================================

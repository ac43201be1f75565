----------------------------- MODULE ConnLife -----------------------------
(***************************************************************************)
(* What the relay promises for each client connection: it belongs to one   *)
(* process thread, goes forward only, gets an answer, and is closed once,  *)
(* after its socket object was released.                                   *)
(***************************************************************************)
EXTENDS Integers

CONSTANTS Conn, Thread, NoThread

VARIABLES
    stage,      \* how far each connection is
    server      \* the thread it belongs to

lifeVars == <<stage, server>>

Stages == {"new", "accepted", "reading", "processing", "answering", "closing", "closed"}

LifeInit ==
    /\ stage = [k \in Conn |-> "new"]
    /\ server = [k \in Conn |-> NoThread]

Step(k, from, to) == stage[k] \in from /\ stage' = [stage EXCEPT ![k] = to]

Accept(k) == Step(k, {"new"}, "accepted") /\ UNCHANGED server

Assign(k, t) == Step(k, {"accepted"}, "reading") /\ server' = [server EXCEPT ![k] = t]

Process(k) == Step(k, {"reading"}, "processing") /\ UNCHANGED server

(* With the answer of the server or with an error. *)
Answer(k) == Step(k, {"reading", "processing"}, "answering") /\ UNCHANGED server

Release(k) == Step(k, {"answering"}, "closing") /\ server' = [server EXCEPT ![k] = NoThread]

Close(k) == Step(k, {"closing"}, "closed") /\ UNCHANGED server

(* A connection that could not be handed to a thread is closed without answer. *)
Refuse(k) ==
    /\ Step(k, {"accepted", "reading"}, "closed")
    /\ server' = [server EXCEPT ![k] = NoThread]

LifeNext ==
    \E k \in Conn :
        \/ Accept(k) \/ Process(k) \/ Answer(k) \/ Release(k) \/ Close(k) \/ Refuse(k)
        \/ \E t \in Thread : Assign(k, t)

LifeSpec == LifeInit /\ [][LifeNext]_lifeVars
=============================================================================

----------------------------- MODULE CallReply -----------------------------
(***************************************************************************)
(* What the relay promises to its clients: a connection that was accepted  *)
(* is answered once before it is released, with the answer of the back end *)
(* to this very request or with an error.                                  *)
(***************************************************************************)
EXTENDS Naturals

CONSTANTS Socket, Calls

VARIABLES
    calls,      \* how many clients were accepted
    call,       \* the one that each socket serves
    phase,      \* "idle", "open": its request is awaited or served, "reply"
    reply       \* what is being sent to it

vars == <<calls, call, phase, reply>>

NoReply    == [type |-> "none", call |-> 0]
Replies(k) == [type : {"answer", "error"}, call : {k}]

Init ==
    /\ calls = 0 /\ call = [s \in Socket |-> 0]
    /\ phase = [s \in Socket |-> "idle"]
    /\ reply = [s \in Socket |-> NoReply]

Open(s) ==
    /\ phase[s] = "idle" /\ calls < Calls
    /\ calls' = calls + 1
    /\ call' = [call EXCEPT ![s] = calls + 1]
    /\ phase' = [phase EXCEPT ![s] = "open"]
    /\ UNCHANGED reply

Decide(s) ==
    /\ phase[s] = "open"
    /\ phase' = [phase EXCEPT ![s] = "reply"]
    /\ \E m \in Replies(call[s]) : reply' = [reply EXCEPT ![s] = m]
    /\ UNCHANGED <<calls, call>>

Release(s) ==
    /\ phase[s] = "reply"
    /\ phase' = [phase EXCEPT ![s] = "idle"]
    /\ reply' = [reply EXCEPT ![s] = NoReply]
    /\ UNCHANGED <<calls, call>>

Next == \E s \in Socket : Open(s) \/ Decide(s) \/ Release(s)

Spec == Init /\ [][Next]_vars
=============================================================================

-------------------------- MODULE SwitchStatsProps --------------------------
(* The correctness properties of SwitchStats. *)
EXTENDS SwitchStats

Deciding == {"servername", "nextidc", "seton", "reset"}

(* The worker that found too many errors of k and still holds the lock. *)
Owner(w, k) == wk[w].pc \in Deciding /\ KeyAt(w) = k /\ lock[KindOf(k)] = w

Before(k, t)        == IF t = 0 THEN 0 ELSE log[k][t - 1]
Logged(k, from, to) == log[k][to] - Before(k, from)

(* A key whose switch is not under way has counted the errors since its window was
   opened and its id was reset, each once, whichever worker saw them, and no other
   (switch_key_stats.h:172, :341).  With an interval of 0 every event opens a window,
   and those of one second are not told apart.                                  *)
ErrorsExact ==
    \A k \in Key : stats[k].loaded /\ ~stats[k].to_be_switched =>
        LET happened == Logged(k, stats[k].begin, now) IN
        IF ConfOf(k).time_interval = 0 THEN stats[k].errors <= happened
                                       ELSE stats[k].errors = happened

(* A key that is to be switched saw enough requests, and its errors really happened
   within one interval (switch_key_stats.h:197): nothing else moves a server.    *)
DecisionJustified ==
    \A k \in Key : stats[k].loaded /\ stats[k].to_be_switched =>
        LET b == stats[k].begin  c == ConfOf(k)  last == b + c.time_interval - 1
        IN /\ TooManyErrors(stats[k].requests, stats[k].errors, c)
           /\ Logged(k, b, IF last < now THEN last ELSE now) >= stats[k].errors

(* A server is moved for the errors that were counted, each once and in their window. *)
StatsExact == TypeOK /\ ErrorsExact /\ DecisionJustified

(* to_be_switched_ stops a key from counting; without a reload it is set only while
   the worker that set it is still deciding, so that it is reset soon
   (switch_mgr.cpp:185).                                                        *)
FlagOwned ==
    \A k \in Key : stats[k].to_be_switched => \E w \in Worker : Owner(w, k)

(* A worker holds one of the two locks at most, and only while it decides. *)
LockHeldByDecider ==
    \A d \in Kind, w \in Worker : lock[d] = w => wk[w].pc \in Deciding /\ wk[w].kind = d

(* The exception of server_name does not end the process: after a failed call the
   error is returned to the client (relay_server.cpp:790).                      *)
ErrorIsReturned == exited # "exception"

(* Without a reload a decision leaves neither a key that counts no more nor an exception. *)
DecisionsEnd == FlagOwned /\ ErrorIsReturned

----------------------------------------------------------------------------
(* Fairness: workers and the reload go on; a mutex is given to one who waits when
   nobody else takes it any more.  Back ends answer or fail.                    *)
FairSpec ==
    /\ Spec
    /\ WF_vars(exited = "no" /\ Reload)
    /\ \A w \in Worker : WF_vars(exited = "no" /\ Step(w))

(* Every call comes to its end: nobody waits for a lock for ever. *)
CallsEnd ==
    \A w \in Worker : wk[w].pc # "idle" ~> wk[w].pc = "idle" \/ exited # "no"
=============================================================================

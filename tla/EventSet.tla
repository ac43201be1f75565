------------------------------ MODULE EventSet ------------------------------
(***************************************************************************)
(* What the event loop of a thread promises to the handlers, without its   *)
(* list and its addresses: in a round a watched descriptor is served at    *)
(* most once, with the event that watches it now; only its own handler     *)
(* takes an event away.                                                    *)
(***************************************************************************)
CONSTANTS Event, Fd, NULL

VARIABLES
    watched,    \* the event of each descriptor, or NULL
    due,        \* descriptors still to be served in this round
    serving     \* the event whose handler runs, or NULL

vars == <<watched, due, serving>>

Init ==
    /\ \E n \in Fd, e \in Event : watched = [k \in Fd |-> IF k = n THEN e ELSE NULL]
    /\ due = {} /\ serving = NULL

Watch(n, e) ==
    /\ watched[n] = NULL /\ \A k \in Fd : watched[k] # e
    /\ watched' = [watched EXCEPT ![n] = e]
    /\ UNCHANGED <<due, serving>>

(* The handler stops watching its descriptor, whether it goes on or not. *)
Unwatch ==
    /\ serving # NULL
    /\ watched' = [n \in Fd |-> IF watched[n] = serving THEN NULL ELSE watched[n]]
    /\ serving' \in {serving, NULL}
    /\ UNCHANGED due

Round ==
    /\ due = {} /\ serving = NULL
    /\ due' \subseteq {n \in Fd : watched[n] # NULL}
    /\ UNCHANGED <<watched, serving>>

Serve(n) ==
    /\ serving = NULL /\ n \in due
    /\ due' = due \ {n}
    /\ serving' \in {watched[n], NULL}      \* NULL: not what the event asks for
    /\ UNCHANGED watched

Return == serving' = NULL /\ UNCHANGED <<watched, due>>

Next ==
    \/ Unwatch \/ Round \/ Return
    \/ \E n \in Fd : Serve(n) \/ \E e \in Event : Watch(n, e)

Spec == Init /\ [][Next]_vars
=============================================================================

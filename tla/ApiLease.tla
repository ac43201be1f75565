----------------------------- MODULE ApiLease -----------------------------
(***************************************************************************)
(* What the connection pools promise: an api is lent to one call at a      *)
(* time, one that was retired by an IDC switch is never lent again, and it *)
(* goes away only when no call has it any more. An api that is taken out   *)
(* of its owner's hands is spoilt: nothing is promised of it from then on, *)
(* and everything still of the others.                                     *)
(***************************************************************************)
CONSTANTS Call, Api, NoCall

VARIABLES
    owner,      \* the call each api is lent to
    retired,    \* apis that belong to an IDC that was switched away from
    spoilt      \* apis that somebody else gave back

leaseVars == <<owner, retired, spoilt>>

LeaseTypeOK ==
    /\ owner \in [Api -> Call \cup {NoCall}]
    /\ retired \subseteq Api /\ spoilt \subseteq Api

LeaseInit ==
    /\ owner = [a \in Api |-> NoCall]
    /\ retired = {} /\ spoilt = {}

Lend(c, a) ==
    /\ owner[a] = NoCall /\ a \notin retired \cup spoilt
    /\ \A b \in Api : owner[b] # c
    /\ owner' = [owner EXCEPT ![a] = c]
    /\ UNCHANGED <<retired, spoilt>>

GiveBack(c, a) ==
    /\ owner[a] = c
    /\ owner' = [owner EXCEPT ![a] = NoCall]
    /\ UNCHANGED <<retired, spoilt>>

(* The api is given back by a call that has not got it any more. *)
Spoil(a) ==
    /\ owner[a] # NoCall
    /\ spoilt' = spoilt \cup {a}
    /\ owner' = [owner EXCEPT ![a] = NoCall]
    /\ UNCHANGED retired

(* A switch retires apis, lent ones included. *)
Retire(apis) ==
    /\ retired' = retired \cup apis
    /\ UNCHANGED <<owner, spoilt>>

(* Retired apis that nobody has are deleted; their addresses may come back. *)
Dispose(apis) ==
    /\ apis \subseteq retired
    /\ \A a \in apis : owner[a] = NoCall
    /\ retired' = retired \ apis
    /\ UNCHANGED <<owner, spoilt>>

LeaseNext ==
    \/ \E c \in Call, a \in Api : Lend(c, a) \/ GiveBack(c, a)
    \/ \E a \in Api : Spoil(a)
    \/ \E apis \in SUBSET Api : Retire(apis) \/ Dispose(apis)

LeaseSpec == LeaseInit /\ [][LeaseNext]_leaseVars
=============================================================================

---------------------------- MODULE ApiPoolProps ----------------------------
(* The correctness properties of ApiPool, and its mapping to ApiLease. *)
EXTENDS ApiPool

(* No two calls use one api, unless it was torn: is_free and set_used run under the
   pool lock, but set_free runs under none (api_pool.cpp:45, relay_server.cpp:786,
   :960).                                                                     *)
ExclusiveLease ==
    \A c, d \in Call :
        pc[c] \in Using /\ pc[d] \in Using /\ held[c] = held[d] /\ held[c] \notin torn
            => c = d

(* What a call uses is neither deleted nor marked free, so no other worker can
   take it from the pool or delete it in the clean-up of a switch.            *)
HeldIsUsed ==
    \A c \in Call : pc[c] \in Using /\ held[c] \notin torn
        => api[held[c]].live /\ api[held[c]].used

(* What is marked used is used by a call: no api is lost to the pool, which would
   count it for ever (api_pool.cpp:338-340).                                   *)
UsedIsHeld ==
    \A a \in Api \ torn : api[a].live /\ api[a].used =>
        \E c \in Call : pc[c] \in Using /\ held[c] = a

(* CApiBase::encode asserts that the api carries no request (api_base.cpp:93):
   whoever got an api from the pool finds it without one.                     *)
EncodeAsserts == \A c \in Call : pc[c] = "got" => api[held[c]].req = NoCall

(* The same of the apis that were not torn. *)
LentClean ==
    \A c \in Call : pc[c] = "got" /\ held[c] \notin torn => api[held[c]].req = NoCall

(* The scan of the current pool calls is_free on every element without a NULL
   check (api_pool.cpp:233), so the holes the clean-up of a switch leaves must
   never be seen there, nor an api that was deleted, nor one api twice.       *)
CurrentPoolIntact ==
    \A s \in Site : \A i \in 1..Len(Current(s)) :
        /\ Current(s)[i] # NoApi
        /\ api[Current(s)[i]].live
        /\ \A r \in Site, h \in {0, 1} : \A j \in 1..Len(pool[r][h]) :
              pool[r][h][j] = Current(s)[i] => r = s /\ h = half[s] /\ j = i

(* _pool_size, counted by hand across switches, is the size of the current
   vector (the test of api_pool.cpp:343) and stays within max_conn_num.       *)
PoolSizeExact ==
    \A s \in Site : poolSize[s] = Len(Current(s)) /\ poolSize[s] <= MaxConn

(* A connection in the pool carries no answer to an earlier call: the next
   call on it would read that answer as its own (relay_server.cpp:786, :960). *)
FreeIsClean ==
    \A a \in Api \ torn : api[a].live /\ ~api[a].used =>
        api[a].req = NoCall /\ api[a].wire = NoCall

(* What is lent is lent to one call, alive, marked used and without anything of the
   calls before, and what is marked used is lent, although set_free takes no lock, and
   although a call that fails after it gave its api back gives it back once more
   (relay_server.cpp:960, :967-979, :786). When another call has the api by then, that
   api is torn: the damage stays with this one api, whichever calls come to hold it. *)
LeaseSafe == ExclusiveLease /\ HeldIsUsed /\ UsedIsHeld /\ LentClean /\ FreeIsClean

(* The shape of the pools, of which the invariants above are parts or
   consequences: what a vector holds is alive and is held once, the vector that
   is not current is empty unless a switch is being drained, and a call about to
   create an api has room for it, although others take and return apis and ask
   for switches meanwhile (api_pool.cpp:188-352).                              *)
SlotsLive ==
    \A s \in Site, h \in {0, 1} : \A i \in 1..Len(pool[s][h]) :
        pool[s][h][i] # NoApi => api[pool[s][h][i]].live

OneSlotEach ==
    \A s, r \in Site, h, g \in {0, 1} :
        \A i \in 1..Len(pool[s][h]), j \in 1..Len(pool[r][g]) :
            pool[s][h][i] # NoApi /\ pool[s][h][i] = pool[r][g][j]
                => s = r /\ h = g /\ i = j

CurrentFull == \A s \in Site : \A i \in 1..Len(Current(s)) : Current(s)[i] # NoApi

OldEmpty == \A s \in Site : switchState[s] # "ONGOING" => Old(s) = <<>>

RoomToCreate == \A c \in Call : pc[c] = "create" => poolSize[site[c]] < MaxConn

PoolInv ==
    SlotsLive /\ OneSlotEach /\ CurrentFull /\ OldEmpty /\ PoolSizeExact /\ RoomToCreate

(* A call takes an api, never one of an IDC the server was switched away from
   (api_pool.cpp:278-283, :319): after the switch the old vector is not lent. *)
Taken(c) == pc[c] \notin Using /\ pc'[c] \in Using
LendsCurrentIdc ==
    [][\A c \in Call : Taken(c) => api'[held'[c]].idc = cur[ServerOf[site[c]]]]_vars

----------------------------------------------------------------------------
(* ApiLease: an api is lent while a call uses it; it is retired when it is
   alive and outside the current pools.                                       *)
Has(c, a) == pc[c] \in Using /\ held[c] = a /\ a \notin torn

OwnerOf(a) ==
    IF \E c \in Call : Has(c, a) THEN CHOOSE c \in Call : Has(c, a) ELSE NoCall

InCurrentPool(a) ==
    \E s \in Site : \E i \in 1..Len(Current(s)) : Current(s)[i] = a

Lease == INSTANCE ApiLease WITH
            owner   <- [a \in Api |-> OwnerOf(a)],
            retired <- {a \in Api : api[a].live /\ ~InCurrentPool(a)},
            spoilt  <- torn

(* The pools implement ApiLease: lent to one call at a time, never after a
   switch retired it, deleted only when no call has it; all but the apis that a
   call gave back for another one.                                            *)
ImplementsLease == Lease!LeaseSpec

----------------------------------------------------------------------------
(* Fairness: every worker goes on running its handlers, the backend answers
   or the connection fails, and clients keep sending requests to every site.  *)
FairSpec ==
    /\ Spec
    /\ \A c \in Call : WF_vars(Get(c)) /\ WF_vars(Send(c) \/ Receive(c) \/ Fail(c))
                       /\ WF_vars(Reply(c) \/ WriteError(c) \/ FreeAgain(c))
                       /\ SF_vars(SetSwitchOn(c))
    /\ \A s \in Site : SF_vars(\E c \in Call : Lock(c, s))

(* A switch that was asked for is made or found to be impossible, although
   every call is refused BUSY until the old pool is drained (api_pool.cpp:266). *)
SwitchIsServed == \A s \in Site : needSwitch[s] ~> ~needSwitch[s]

(* A switch that was begun ends: the old pool is emptied. *)
SwitchEnds == \A s \in Site : switchState[s] = "ONGOING" ~> switchState[s] = "FINISHED"

(* Both, one switch after the other. *)
SwitchesEnd == SwitchIsServed /\ SwitchEnds
=============================================================================

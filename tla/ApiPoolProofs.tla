--------------------------- MODULE ApiPoolProofs ---------------------------
(* Proofs about ApiPool, for every value of its constants. *)
EXTENDS ApiPoolProps, SequenceTheorems, TLAPS

(* The operations on an api return api objects. *)
LEMMA ApiObjectOps ==
    ASSUME NEW o \in ApiObject, NEW b, NEW i \in Idcs, NEW c \in Call
    PROVE  /\ Fini(o, b) \in ApiObject
           /\ SetFree(o, b) \in ApiObject
           /\ SetUsed(o, b) \in ApiObject
           /\ Deleted(o) \in ApiObject
           /\ Sent(o, c) \in ApiObject
           /\ Answered(o) \in ApiObject
           /\ NewApi(i) \in ApiObject
BY DEF ApiObject, Fini, SetFree, SetUsed, NewApi, Deleted, Sent, Answered

(* The fields of an api that the invariants are about, after each operation. *)
LEMMA FreeFields ==
    ASSUME NEW o \in ApiObject, NEW b
    PROVE  /\ SetFree(o, b).live = o.live /\ ~SetFree(o, b).used
           /\ SetFree(o, b).req = NoCall
           /\ o.wire = NoCall => SetFree(o, b).wire = NoCall
BY DEF ApiObject, Fini, SetFree

LEMMA CloseFields ==
    ASSUME NEW o \in ApiObject
    PROVE  /\ SetFree(o, TRUE).live = o.live /\ ~SetFree(o, TRUE).used
           /\ SetFree(o, TRUE).req = NoCall /\ SetFree(o, TRUE).wire = NoCall
BY DEF ApiObject, Fini, SetFree

LEMMA UsedFields ==
    ASSUME NEW o \in ApiObject, NEW b \in BOOLEAN
    PROVE  /\ SetUsed(o, b).live = o.live /\ SetUsed(o, b).used
           /\ o.req = NoCall => SetUsed(o, b).req = NoCall
BY DEF ApiObject, Fini, SetUsed

LEMMA WireFields ==
    ASSUME NEW o \in ApiObject, NEW c \in Call
    PROVE  /\ Sent(o, c).live = o.live /\ Sent(o, c).used = o.used
           /\ Answered(o).live = o.live /\ Answered(o).used = o.used
           /\ Answered(o).wire = NoCall
BY DEF ApiObject, Sent, Answered

LEMMA NewFields ==
    ASSUME NEW i \in Idcs
    PROVE  NewApi(i).live /\ NewApi(i).used /\ NewApi(i).req = NoCall
BY DEF NewApi

(* The clean-up keeps the length of the vector and what is in use. *)
LEMMA WithoutFreeSeq ==
    ASSUME NEW seq \in Seq(Api \cup {NoApi})
    PROVE  /\ WithoutFree(seq) \in Seq(Api \cup {NoApi})
           /\ Len(WithoutFree(seq)) = Len(seq)
           /\ \A i \in 1..Len(seq) : WithoutFree(seq)[i] =
                   IF i \in FreeSlots(seq) THEN NoApi ELSE seq[i]
<1>1. Len(seq) \in Nat /\ \A i \in 1..Len(seq) : seq[i] \in Api \cup {NoApi}
  BY ElementOfSeq, LenProperties
<1>2. WithoutFree(seq) \in [1..Len(seq) -> Api \cup {NoApi}]
  BY <1>1 DEF WithoutFree
<1>3. WithoutFree(seq) \in Seq(Api \cup {NoApi})
  BY <1>1, <1>2, SeqDef
<1>4. Len(WithoutFree(seq)) = Len(seq)
  BY <1>1, <1>2, <1>3, LenProperties
<1> QED
  BY <1>3, <1>4 DEF WithoutFree

(* Initial states are well typed. *)
LEMMA InitTypeOK == Init => TypeOK
<1> SUFFICES ASSUME Init PROVE TypeOK
  OBVIOUS
<1>1. api \in [Api -> ApiObject]
  BY ApiPoolAssumption DEF Init, ApiObject, Idcs
<1>2. pool \in [Site -> [{0, 1} -> Seq(Api \cup {NoApi})]]
  BY DEF Init
<1>3. pc \in [Call -> PCs]
  BY DEF Init, PCs, After
<1>4. /\ half \in [Site -> {0, 1}]
      /\ poolSize \in [Site -> Nat]
      /\ needSwitch \in [Site -> BOOLEAN]
      /\ switchState \in [Site -> {"PRIOR", "ONGOING", "FINISHED"}]
      /\ lock \in [Site -> Call \cup {NoCall}]
  BY DEF Init
<1>5. /\ cur \in [Server -> Idcs]
      /\ site \in [Call -> Site \cup {NoSite}]
      /\ held \in [Call -> Api \cup {NoApi}]
      /\ idc \in [Call -> Idcs]
      /\ reload \in [step : {"none", "cleared", "read"}, left : 0..Reloads]
      /\ faults \in 0..MaxFaults /\ torn \subseteq Api
  BY ApiPoolAssumption DEF Init, Idcs
<1> QED
  BY <1>1, <1>2, <1>3, <1>4, <1>5 DEF TypeOK

(* Where the pointers of a call lead: a call under way has a site, one that
   may touch an api points to one, and a call inside CApiPool::get owns the
   lock of its pool.                                                         *)
Pointing == Using \cup After

PointerInv ==
    \A c \in Call :
        /\ pc[c] # "idle" => site[c] \in Site
        /\ pc[c] \in Pointing => held[c] \in Api
        /\ pc[c] \in InLock => lock[site[c]] = c

TypeInv == TypeOK /\ PointerInv

LEMMA InitTypeInv == Init => TypeInv
BY InitTypeOK DEF Init, TypeInv, PointerInv, Pointing, After, Using, InLock

Pools == [Site -> [{0, 1} -> Seq(Api \cup {NoApi})]]

(* One vector of one pool replaced. *)
LEMMA PoolUpdate ==
    ASSUME NEW p \in Pools, NEW s \in Site, NEW h \in {0, 1},
           NEW seq \in Seq(Api \cup {NoApi})
    PROVE  /\ [p EXCEPT ![s][h] = seq] \in Pools
           /\ \A r \in Site, g \in {0, 1} :
                 [p EXCEPT ![s][h] = seq][r][g] = IF r = s /\ g = h THEN seq ELSE p[r][g]
BY DEF Pools

(* The two vectors of a pool are sequences, and so are their current and old one. *)
LEMMA PoolHalves ==
    ASSUME TypeOK, NEW s \in Site
    PROVE  /\ pool \in Pools /\ half[s] \in {0, 1} /\ 1 - half[s] \in {0, 1}
           /\ Current(s) \in Seq(Api \cup {NoApi}) /\ Old(s) \in Seq(Api \cup {NoApi})
           /\ Len(Old(s)) \in Nat /\ Len(Current(s)) \in Nat
<1>1. pool \in Pools /\ half[s] \in {0, 1} /\ 1 - half[s] \in {0, 1}
  BY DEF TypeOK, Pools
<1>2. Current(s) \in Seq(Api \cup {NoApi}) /\ Old(s) \in Seq(Api \cup {NoApi})
  BY <1>1 DEF Pools, Current, Old
<1> QED
  BY <1>1, <1>2, LenProperties

----------------------------------------------------------------------------
(* Every step of CApiPool::get keeps the types and the pointers. *)

LEMMA LockType ==
    ASSUME TypeInv, NEW c \in Call, NEW s \in Site, Lock(c, s)
    PROVE  TypeInv'
<1>1. TypeOK'
  BY DEF TypeInv, TypeOK, Lock, Goto, poolVars, PCs, InLock, After
<1>2. PointerInv'
  BY ApiPoolAssumption
  DEF TypeInv, TypeOK, PointerInv, Pointing, After, Using, InLock, Lock, Goto
<1> QED
  BY <1>1, <1>2 DEF TypeInv

LEMMA SweepType ==
    ASSUME TypeInv, NEW c \in Call, Sweep(c)
    PROVE  TypeInv'
<1>1. site[c] \in Site /\ TypeOK
  BY DEF TypeInv, PointerInv, Sweep
<1>2. api' \in [Api -> ApiObject]
  BY <1>1, ApiObjectOps DEF TypeOK, Sweep
<1>3. pool' \in Pools
  BY <1>1, PoolHalves, PoolUpdate, WithoutFreeSeq DEF Sweep
<1>4. TypeOK'
  BY <1>1, <1>2, <1>3 DEF TypeOK, Pools, Sweep, Goto, PCs, InLock, After
<1>5. PointerInv'
  BY DEF TypeInv, TypeOK, PointerInv, Pointing, After, Using, InLock, Sweep, Goto
<1> QED
  BY <1>4, <1>5 DEF TypeInv

LEMMA CheckType ==
    ASSUME TypeInv, NEW c \in Call, Check(c)
    PROVE  TypeInv'
<1>1. site[c] \in Site /\ TypeOK
  BY DEF TypeInv, PointerInv, Check
<1>2. pool' \in Pools
  <2>1. pool' = pool \/ pool' = [pool EXCEPT ![site[c]][1 - half[site[c]]] = <<>>]
    BY DEF Check
  <2>2. <<>> \in Seq(Api \cup {NoApi}) /\ pool \in Pools /\ 1 - half[site[c]] \in {0, 1}
    BY <1>1, PoolHalves, EmptySeq
  <2>3. [pool EXCEPT ![site[c]][1 - half[site[c]]] = <<>>] \in Pools
    BY <1>1, <2>2, PoolUpdate
  <2> QED
    BY <2>1, <2>2, <2>3
<1>3. TypeOK'
  BY <1>1, <1>2 DEF TypeOK, Pools, Check, Goto, PCs, InLock, After
<1>4. PointerInv'
  BY DEF TypeInv, TypeOK, PointerInv, Pointing, After, Using, InLock, Check, Goto
<1> QED
  BY <1>3, <1>4 DEF TypeInv

(* Taking a free api, or none: api, lock, held and pc keep their types. *)
LEMMA TakeType ==
    ASSUME TypeInv, NEW c \in Call, pc[c] = "pick", TakeFreeOrGrow(c),
           UNCHANGED <<pool, half, poolSize, switchState, cur, site, idc, reload, faults, torn>>,
           needSwitch' \in [Site -> BOOLEAN]
    PROVE  TypeInv'
<1>1. site[c] \in Site /\ TypeOK
  BY DEF TypeInv, PointerInv
<1>2. CASE FreeSlots(Current(site[c])) = {}
  <2>1. pc' = [pc EXCEPT ![c] = "readidc"] /\ UNCHANGED <<api, lock, held>>
    BY <1>2 DEF TakeFreeOrGrow, Goto
  <2>2. TypeOK'
    BY <1>1, <2>1 DEF TypeOK, PCs, InLock, After
  <2>3. PointerInv'
    BY <2>1 DEF TypeInv, TypeOK, PointerInv, Pointing, After, Using, InLock
  <2> QED
    BY <2>2, <2>3 DEF TypeInv
<1>3. CASE FreeSlots(Current(site[c])) # {}
  <2>1. PICK i \in FreeSlots(Current(site[c])), tcpOk \in BOOLEAN :
            /\ api' = [api EXCEPT ![Current(site[c])[i]] = SetUsed(@, tcpOk)]
            /\ held' = [held EXCEPT ![c] = Current(site[c])[i]]
            /\ Unlock(c)
            /\ Goto(c, "got")
    BY <1>3 DEF TakeFreeOrGrow
  <2>2. Current(site[c])[i] \in Api
    BY <1>1, PoolHalves, ElementOfSeq DEF FreeSlots
  <2>3. api' \in [Api -> ApiObject]
    BY <1>1, <2>1, <2>2, ApiObjectOps DEF TypeOK
  <2>4. TypeOK'
    BY <1>1, <2>1, <2>2, <2>3 DEF TypeOK, Unlock, Goto, PCs, After, Using
  <2>5. PointerInv'
    BY <2>1, <2>2, ApiPoolAssumption
    DEF TypeInv, TypeOK, PointerInv, Pointing, After, Using, InLock, Unlock, Goto
  <2> QED
    BY <2>4, <2>5 DEF TypeInv
<1> QED
  BY <1>2, <1>3

LEMMA PickType ==
    ASSUME TypeInv, NEW c \in Call, Pick(c) \/ PickLastIdc(c)
    PROVE  TypeInv'
<1>1. needSwitch' \in [Site -> BOOLEAN]
  BY DEF TypeInv, TypeOK, Pick, PickLastIdc, poolVars
<1> QED
  BY <1>1, TakeType DEF Pick, PickLastIdc, poolVars

LEMMA ThrowType ==
    ASSUME TypeInv, NEW c \in Call, pc[c] \in InLock, Throw(c),
           UNCHANGED <<api, poolVars, cur, reload, faults, torn>>
    PROVE  TypeInv'
<1>1. site[c] \in Site /\ TypeOK
  BY DEF TypeInv, PointerInv, InLock
<1>2. TypeOK'
  BY <1>1 DEF TypeOK, Throw, Unlock, Goto, PCs, After, poolVars
<1>3. PointerInv'
  BY ApiPoolAssumption
  DEF TypeInv, TypeOK, PointerInv, Pointing, After, Using, InLock, Throw, Unlock, Goto, poolVars
<1> QED
  BY <1>2, <1>3 DEF TypeInv

LEMMA SwapType ==
    ASSUME TypeInv, NEW c \in Call, Swap(c)
    PROVE  TypeInv'
<1>1. site[c] \in Site /\ TypeOK
  BY DEF TypeInv, PointerInv, Swap
<1>2. TypeOK'
  BY <1>1, PoolHalves DEF TypeOK, Swap, Goto, PCs, InLock, After
<1>3. PointerInv'
  BY DEF TypeInv, TypeOK, PointerInv, Pointing, After, Using, InLock, Swap, Goto
<1> QED
  BY <1>2, <1>3 DEF TypeInv

LEMMA AdvanceType ==
    ASSUME TypeInv, NEW c \in Call, AdvanceIdc(c)
    PROVE  TypeInv'
<1>1. site[c] \in Site /\ TypeOK
  BY DEF TypeInv, PointerInv, AdvanceIdc
<1>2. TypeOK'
  BY <1>1, ApiPoolAssumption DEF TypeOK, AdvanceIdc, Goto, PCs, InLock, After, Idcs
<1>3. PointerInv'
  BY DEF TypeInv, TypeOK, PointerInv, Pointing, After, Using, InLock, AdvanceIdc, Goto
<1> QED
  BY <1>2, <1>3 DEF TypeInv

LEMMA ReadIdcType ==
    ASSUME TypeInv, NEW c \in Call, ReadIdc(c)
    PROVE  TypeInv'
<1>1. CASE poolSize[site[c]] < MaxConn
  <2>1. site[c] \in Site /\ TypeOK
    BY DEF TypeInv, PointerInv, ReadIdc
  <2>2. TypeOK'
    <3>1. cur[ServerOf[site[c]]] \in Idcs
      BY <2>1, ApiPoolAssumption DEF TypeOK
    <3>2. idc' = [idc EXCEPT ![c] = cur[ServerOf[site[c]]]]
      BY <1>1 DEF ReadIdc
    <3>3. idc' \in [Call -> Idcs]
      BY <2>1, <3>1, <3>2 DEF TypeOK
    <3>4. pc' \in [Call -> PCs]
      BY ZenonT(60), <1>1, <2>1 DEF TypeOK, ReadIdc, Goto, PCs, InLock, After
    <3>5. UNCHANGED <<api, poolVars, lock, cur, site, held, reload, faults, torn>>
      BY <1>1 DEF ReadIdc
    <3> QED
      BY <2>1, <3>3, <3>4, <3>5 DEF TypeOK, poolVars
  <2>3. PointerInv'
    BY <1>1 DEF TypeInv, TypeOK, PointerInv, Pointing, After, Using, InLock, ReadIdc, Goto, poolVars
  <2> QED
    BY <2>2, <2>3 DEF TypeInv
<1>2. CASE ~(poolSize[site[c]] < MaxConn)
  BY <1>2, ThrowType DEF ReadIdc, InLock
<1> QED
  BY <1>1, <1>2

LEMMA CreateType ==
    ASSUME TypeInv, NEW c \in Call, Create(c)
    PROVE  TypeInv'
<1>1. site[c] \in Site /\ TypeOK
  BY DEF TypeInv, PointerInv, Create
<1>2. PICK a \in Api :
          /\ api' = [api EXCEPT ![a] = NewApi(idc[c])]
          /\ pool' = [pool EXCEPT ![site[c]][half[site[c]]] = Append(@, a)]
          /\ held' = [held EXCEPT ![c] = a]
  BY DEF Create
<1>3. api' \in [Api -> ApiObject]
  BY <1>1, <1>2, ApiObjectOps DEF TypeOK
<1>4. Append(Current(site[c]), a) \in Seq(Api \cup {NoApi})
  BY <1>1, PoolHalves, AppendProperties
<1>5. pool' = [pool EXCEPT ![site[c]][half[site[c]]] = Append(Current(site[c]), a)]
  BY <1>2 DEF Current
<1>6. pool' \in Pools
  BY <1>1, <1>4, <1>5, PoolHalves, PoolUpdate
<1>7. TypeOK'
  BY <1>1, <1>2, <1>3, <1>6 DEF TypeOK, Pools, Create, Unlock, Goto, PCs, After, Using
<1>8. PointerInv'
  BY <1>2, ApiPoolAssumption
  DEF TypeInv, TypeOK, PointerInv, Pointing, After, Using, InLock, Create, Unlock, Goto
<1> QED
  BY <1>7, <1>8 DEF TypeInv

LEMMA GetType ==
    ASSUME TypeInv, NEW c \in Call, Get(c)
    PROVE  TypeInv'
<1>1. CASE SwitchBusy(c) \/ CreateThrows(c)
  BY <1>1, ThrowType DEF SwitchBusy, CreateThrows, InLock
<1> QED
  BY <1>1, SweepType, CheckType, PickType, SwapType, AdvanceType, ReadIdcType, CreateType
  DEF Get

----------------------------------------------------------------------------
(* Every step that uses an api, ends a call or asks for a switch keeps the types
   and the pointers.                                                             *)

LEMMA StoreType ==
    ASSUME api \in [Api -> ApiObject], NEW a \in Api, NEW o \in ApiObject, Store(a, o)
    PROVE  api' \in [Api -> ApiObject]
BY DEF Store

LEMMA SendType ==
    ASSUME TypeInv, NEW c \in Call, Send(c)
    PROVE  TypeInv'
<1>1. held[c] \in Api /\ TypeOK
  BY DEF TypeInv, PointerInv, Pointing, After, Using, Send
<1>2. api' \in [Api -> ApiObject]
  BY <1>1, StoreType, ApiObjectOps DEF Send, TypeOK
<1>3. TypeOK'
  BY <1>1, <1>2 DEF TypeOK, Send, Goto, poolVars, PCs, After, Using
<1>4. PointerInv'
  BY DEF TypeInv, TypeOK, PointerInv, Pointing, After, Using, InLock, Send, Goto
<1> QED
  BY <1>3, <1>4 DEF TypeInv

LEMMA ReceiveType ==
    ASSUME TypeInv, NEW c \in Call, Receive(c)
    PROVE  TypeInv'
<1>1. held[c] \in Api /\ TypeOK
  BY DEF TypeInv, PointerInv, Pointing, Using, Receive
<1>2. SetFree(Answered(api[held[c]]), ~KeepsConnection(site[c])) \in ApiObject
  <2>1. Answered(api[held[c]]) \in ApiObject
    BY <1>1, ApiObjectOps DEF TypeOK
  <2>2. idc[c] \in Idcs
    BY <1>1 DEF TypeOK
  <2> QED
    BY <2>1, <2>2, ApiObjectOps
<1>3. api' \in [Api -> ApiObject]
  BY <1>1, <1>2, StoreType DEF Receive, TypeOK
<1>4. TypeOK'
  BY <1>1, <1>3 DEF TypeOK, Receive, Goto, poolVars, PCs, After
<1>5. PointerInv'
  BY DEF TypeInv, TypeOK, PointerInv, Pointing, After, Using, InLock, Receive, Goto
<1> QED
  BY <1>4, <1>5 DEF TypeInv

LEMMA FreeType ==
    ASSUME TypeInv, NEW c \in Call, Fail(c) \/ FreeAgain(c)
    PROVE  TypeInv'
<1>1. held[c] \in Api /\ TypeOK
  BY DEF TypeInv, PointerInv, Pointing, After, Using, Fail, FreeAgain
<1>2. api' \in [Api -> ApiObject]
  BY <1>1, StoreType, ApiObjectOps DEF Fail, FreeAgain, TypeOK
<1>3. TypeOK'
  BY <1>1, <1>2 DEF TypeOK, Fail, FreeAgain, Goto, poolVars, PCs, After
<1>4. PointerInv'
  BY ZenonT(60) DEF TypeInv, TypeOK, PointerInv, Pointing, After, Using, InLock, Fail, FreeAgain, Goto
<1> QED
  BY <1>3, <1>4 DEF TypeInv

LEMMA DoneType ==
    ASSUME TypeInv, NEW c \in Call, Done(c),
           UNCHANGED <<api, pool, half, poolSize, switchState, lock, cur, reload, faults, torn>>,
           needSwitch' \in [Site -> BOOLEAN], pc[c] \notin InLock
    PROVE  TypeInv'
<1>1. TypeOK /\ 1 \in Idcs
  BY ApiPoolAssumption DEF TypeInv, Idcs
<1>2. /\ pc' \in [Call -> PCs] /\ site' \in [Call -> Site \cup {NoSite}]
      /\ held' \in [Call -> Api \cup {NoApi}] /\ idc' \in [Call -> Idcs]
  BY <1>1 DEF TypeOK, Done, Goto, PCs
<1>3. TypeOK'
  BY <1>1, <1>2 DEF TypeOK
<1>4. PointerInv'
  BY ZenonT(60) DEF TypeInv, TypeOK, PointerInv, Pointing, After, Using, InLock, Done, Goto
<1> QED
  BY <1>3, <1>4 DEF TypeInv

LEMMA EndType ==
    ASSUME TypeInv, NEW c \in Call, Reply(c) \/ WriteError(c)
    PROVE  TypeInv'
<1>1. needSwitch' \in [Site -> BOOLEAN] /\ pc[c] \notin InLock
  BY DEF TypeInv, TypeOK, Reply, WriteError, InLock, poolVars
<1> QED
  BY <1>1, DoneType DEF Reply, WriteError, poolVars

(* A step that moves a call on in the rest of its handler. *)
LEMMA MoveType ==
    ASSUME TypeInv, NEW c \in Call, NEW l \in PCs \ InLock, Goto(c, l), pc[c] # "idle",
           l \in Pointing => held[c] \in Api, faults' \in 0..MaxFaults,
           needSwitch' \in [Site -> BOOLEAN],
           UNCHANGED <<api, pool, half, poolSize, switchState, lock, cur, site, held, idc,
                       reload, torn>>
    PROVE  TypeInv'
<1>1. TypeOK'
  BY DEF TypeInv, TypeOK, Goto
<1>2. PointerInv'
  BY DEF TypeInv, TypeOK, PointerInv, Goto
<1> QED
  BY <1>1, <1>2 DEF TypeInv

LEMMA SwitchOnType ==
    ASSUME TypeInv, NEW c \in Call, SetSwitchOn(c)
    PROVE  TypeInv'
<1>1. needSwitch' \in [Site -> BOOLEAN] /\ pc[c] \notin InLock /\ pc[c] # "idle" /\ TypeOK
  BY DEF TypeInv, TypeOK, SetSwitchOn, InLock
<1>2. CASE held[c] = NoApi
  BY <1>1, <1>2, DoneType DEF SetSwitchOn
<1>3. CASE held[c] # NoApi
  <2>1. held[c] \in Api /\ "answering" \in PCs \ InLock
    BY <1>1, <1>3 DEF TypeOK, PCs, After, InLock
  <2> QED
    BY <1>1, <1>3, <2>1, MoveType DEF SetSwitchOn, TypeOK
<1> QED
  BY <1>2, <1>3

LEMMA TailType ==
    ASSUME TypeInv, NEW c \in Call, LookUpThrows(c) \/ AddThrows(c) \/ TrySwitch(c)
    PROVE  TypeInv'
<1>1. /\ TypeOK /\ pc[c] # "idle" /\ {"caught", "switching"} \subseteq PCs \ InLock
      /\ "switching" \notin Pointing
  BY DEF TypeInv, LookUpThrows, AddThrows, TrySwitch, PCs, After, InLock, Pointing, Using
<1>2. faults' \in 0..MaxFaults /\ needSwitch' \in [Site -> BOOLEAN]
  BY <1>1, ApiPoolAssumption DEF TypeOK, LookUpThrows, AddThrows, TrySwitch, poolVars
<1>3. CASE LookUpThrows(c) \/ AddThrows(c)
  <2>1. held[c] \in Api
    BY <1>3 DEF TypeInv, PointerInv, Pointing, After, LookUpThrows, AddThrows
  <2> QED
    BY <1>1, <1>2, <1>3, <2>1, MoveType DEF LookUpThrows, AddThrows, poolVars
<1>4. CASE TrySwitch(c)
  BY <1>1, <1>2, <1>4, MoveType DEF TrySwitch, poolVars
<1> QED
  BY <1>3, <1>4

LEMMA UseType ==
    ASSUME TypeInv, NEW c \in Call, Use(c)
    PROVE  TypeInv'
BY SendType, ReceiveType, FreeType, EndType, SwitchOnType, TailType DEF Use

LEMMA ReloadType ==
    ASSUME TypeInv, Reload
    PROVE  TypeInv'
<1>1. reload' \in [step : {"none", "cleared", "read"}, left : 0..Reloads]
  BY ApiPoolAssumption DEF TypeInv, TypeOK, Reload, ReloadClear, ReloadRead, ReloadHasite
<1>2. cur' \in [Server -> Idcs]
  BY ApiPoolAssumption
  DEF TypeInv, TypeOK, Reload, ReloadClear, ReloadRead, ReloadHasite, Idcs
<1>3. TypeOK'
  BY <1>1, <1>2 DEF TypeInv, TypeOK, Reload, ReloadClear, ReloadRead, ReloadHasite,
     poolVars, callVars
<1>4. PointerInv'
  BY DEF TypeInv, PointerInv, Reload, ReloadClear, ReloadRead, ReloadHasite, callVars
<1> QED
  BY <1>3, <1>4 DEF TypeInv

LEMMA NextType == TypeInv /\ [Next]_vars => TypeInv'
<1> SUFFICES ASSUME TypeInv, [Next]_vars PROVE TypeInv'
  OBVIOUS
<1>1. CASE UNCHANGED vars
  BY <1>1 DEF TypeInv, TypeOK, PointerInv, vars, poolVars, callVars
<1>2. CASE Next
  BY <1>2, GetType, UseType, LockType, ReloadType DEF Next
<1> QED
  BY <1>1, <1>2

(* Every reachable state is well typed, reloads included: the CApiBase pointer of
   a call that uses an api is never NULL, and a call inside CApiPool::get owns
   the lock of its pool (api_pool.cpp:45-51, relay_server.cpp:832-873).        *)
THEOREM TypeCorrect == Spec => []TypeOK
<1>1. Spec => []TypeInv
  BY InitTypeInv, NextType, PTL DEF Spec
<1> QED
  BY <1>1, PTL DEF TypeInv

-----------------------------------------------------------------------------
(* The pools keep their shape, and an api serves one call at a time.        *)

(* What a vector holds. *)
LEMMA SlotType ==
    ASSUME TypeOK, NEW s \in Site, NEW h \in {0, 1}
    PROVE  /\ pool[s][h] \in Seq(Api \cup {NoApi}) /\ Len(pool[s][h]) \in Nat
           /\ \A i \in 1..Len(pool[s][h]) : pool[s][h][i] \in Api \cup {NoApi}
<1>1. pool[s][h] \in Seq(Api \cup {NoApi})
  BY DEF TypeOK
<1> QED
  BY <1>1, ElementOfSeq, LenProperties

LEMMA InitPoolInv == Init => PoolInv
<1> SUFFICES ASSUME Init PROVE PoolInv
  OBVIOUS
<1>1. \A s \in Site : half[s] = 0 /\ pool[s][0] = <<>> /\ pool[s][1] = <<>> /\ Len(<<>>) = 0
  BY DEF Init
<1>2. \A s \in Site : Current(s) = <<>> /\ Old(s) = <<>>
  BY <1>1 DEF Current, Old
<1>3. SlotsLive /\ OneSlotEach
  BY <1>1 DEF SlotsLive, OneSlotEach
<1>4. CurrentFull /\ OldEmpty
  BY <1>1, <1>2 DEF CurrentFull, OldEmpty
<1>5. PoolSizeExact /\ RoomToCreate
  BY <1>1, <1>2, ApiPoolAssumption DEF PoolSizeExact, RoomToCreate, Init
<1> QED
  BY <1>3, <1>4, <1>5 DEF PoolInv

(* A step that leaves the vectors alone and deletes nothing. *)
LEMMA PoolInvKept ==
    ASSUME TypeOK, PoolInv, UNCHANGED <<pool, half, poolSize, switchState>>,
           \A a \in Api : api[a].live => api'[a].live,
           \A c \in Call : pc'[c] = "create" => pc[c] = "create" /\ site'[c] = site[c]
    PROVE  PoolInv'
<1>1. SlotsLive'
  BY SlotType DEF PoolInv, SlotsLive
<1>2. OneSlotEach' /\ CurrentFull' /\ OldEmpty' /\ PoolSizeExact'
  BY DEF PoolInv, OneSlotEach, CurrentFull, OldEmpty, PoolSizeExact, Current, Old
<1>3. RoomToCreate'
  BY DEF PoolInv, RoomToCreate
<1> QED
  BY <1>1, <1>2, <1>3 DEF PoolInv

LEMMA SweepPool ==
    ASSUME TypeInv, PoolInv, NEW c \in Call, Sweep(c)
    PROVE  PoolInv'
<1> DEFINE s == site[c]
           o == 1 - half[s]
           new == WithoutFree(Old(s))
<1>1. s \in Site /\ TypeOK /\ half[s] \in {0, 1} /\ o \in {0, 1} /\ o # half[s]
  BY DEF TypeInv, TypeOK, PointerInv, Sweep
<1>2. /\ Old(s) \in Seq(Api \cup {NoApi}) /\ new \in Seq(Api \cup {NoApi})
      /\ Len(new) = Len(Old(s)) /\ pool[s][o] = Old(s)
      /\ \A i \in 1..Len(Old(s)) :
            new[i] = IF i \in FreeSlots(Old(s)) THEN NoApi ELSE Old(s)[i]
  BY <1>1, PoolHalves, WithoutFreeSeq DEF Old
<1>3. \A r \in Site, g \in {0, 1} :
         pool'[r][g] = IF r = s /\ g = o THEN new ELSE pool[r][g]
  <2>1. pool' = [pool EXCEPT ![s][o] = new] /\ pool \in Pools
    BY <1>1, PoolHalves DEF Sweep
  <2> HIDE DEF s, o, new
  <2> QED
    BY <1>1, <2>1 DEF Pools
<1>4. \A r \in Site, g \in {0, 1} :
         /\ Len(pool'[r][g]) = Len(pool[r][g])
         /\ \A i \in 1..Len(pool[r][g]) :
               pool'[r][g][i] # NoApi => pool'[r][g][i] = pool[r][g][i]
  BY <1>2, <1>3
<1>5. \A a \in Api : (\A i \in FreeSlots(Old(s)) : Old(s)[i] # a) => api'[a] = api[a]
  BY DEF Sweep
<1> HIDE DEF s, o, new
<1>6. SlotsLive'
  <2> SUFFICES ASSUME NEW r \in Site, NEW g \in {0, 1}, NEW i \in 1..Len(pool'[r][g]),
                      pool'[r][g][i] # NoApi
               PROVE  api'[pool'[r][g][i]].live
    BY DEF SlotsLive
  <2> DEFINE a == pool[r][g][i]
  <2>1. i \in 1..Len(pool[r][g]) /\ pool'[r][g][i] = a /\ a # NoApi /\ a \in Api
    BY <1>1, <1>4, SlotType
  <2>2. ASSUME NEW j \in FreeSlots(Old(s)), Old(s)[j] = a PROVE FALSE
    <3>1. j \in 1..Len(Old(s))
      BY DEF FreeSlots
    <3>2. r = s /\ g = o /\ i = j
      BY <1>1, <1>2, <2>1, <2>2, <3>1 DEF PoolInv, OneSlotEach
    <3> QED
      BY <1>2, <1>3, <2>1, <2>2, <3>1, <3>2
  <2>3. api'[a] = api[a]
    BY <1>5, <2>1, <2>2
  <2> QED
    BY <2>1, <2>3 DEF PoolInv, SlotsLive
<1>7. OneSlotEach'
  <2> SUFFICES ASSUME NEW r \in Site, NEW q \in Site, NEW h \in {0, 1}, NEW g \in {0, 1},
                      NEW i \in 1..Len(pool'[r][h]), NEW j \in 1..Len(pool'[q][g]),
                      pool'[r][h][i] # NoApi, pool'[r][h][i] = pool'[q][g][j]
               PROVE  r = q /\ h = g /\ i = j
    BY DEF OneSlotEach
  <2>1. /\ i \in 1..Len(pool[r][h]) /\ pool'[r][h][i] = pool[r][h][i]
        /\ j \in 1..Len(pool[q][g]) /\ pool'[q][g][j] = pool[q][g][j]
    BY ZenonT(120), <1>4
  <2>2. pool[r][h][i] # NoApi /\ pool[r][h][i] = pool[q][g][j]
    BY <2>1
  <2>3. \A k \in 1..Len(pool[r][h]), l \in 1..Len(pool[q][g]) :
           pool[r][h][k] # NoApi /\ pool[r][h][k] = pool[q][g][l] => r = q /\ h = g /\ k = l
    BY SMTT(30) DEF PoolInv, OneSlotEach
  <2> QED
    BY <2>1, <2>2, <2>3
<1>8. half' = half /\ switchState' = switchState /\ poolSize' = poolSize /\ site' = site
  BY DEF Sweep
<1>9. \A r \in Site : /\ half[r] \in {0, 1} /\ 1 - half[r] \in {0, 1}
                      /\ ~(r = s /\ half[r] = o)
  BY <1>1 DEF TypeOK
<1>10. \A r \in Site : Current(r)' = Current(r)
  BY <1>3, <1>8, <1>9 DEF Current
<1>11. CurrentFull' /\ PoolSizeExact'
  BY <1>8, <1>10 DEF PoolInv, CurrentFull, PoolSizeExact
<1>12. switchState[s] = "ONGOING" => OldEmpty'
  BY <1>3, <1>8, <1>9 DEF PoolInv, OldEmpty, Old
<1>13. switchState[s] # "ONGOING" => OldEmpty'
  <2> SUFFICES ASSUME switchState[s] # "ONGOING" PROVE OldEmpty'
    OBVIOUS
  <2>1. Old(s) = <<>> /\ Len(Old(s)) = 0
    BY <1>1 DEF PoolInv, OldEmpty
  <2>2. new = <<>>
    BY <1>2, <2>1, EmptySeq
  <2> QED
    BY <1>2, <1>3, <1>8, <1>9, <2>1, <2>2 DEF PoolInv, OldEmpty, Old
<1>14. RoomToCreate'
  BY <1>1, <1>8 DEF PoolInv, RoomToCreate, Sweep, Goto, TypeOK
<1> QED
  BY <1>6, <1>7, <1>11, <1>12, <1>13, <1>14 DEF PoolInv

LEMMA CheckPool ==
    ASSUME TypeInv, PoolInv, NEW c \in Call, Check(c)
    PROVE  PoolInv'
<1> DEFINE s == site[c]
           o == 1 - half[s]
<1>1. s \in Site /\ TypeOK /\ half[s] \in {0, 1} /\ o \in {0, 1} /\ o # half[s]
  BY DEF TypeInv, TypeOK, PointerInv, Check
<1>2. \A d \in Call : pc'[d] = "create" => pc[d] = "create" /\ site'[d] = site[d]
  BY <1>1 DEF TypeOK, Check, Goto
<1>3. CASE UNCHANGED <<pool, switchState>>
  BY <1>1, <1>2, <1>3, PoolInvKept DEF Check
<1>4. CASE /\ pool' = [pool EXCEPT ![s][o] = <<>>]
           /\ switchState' = [switchState EXCEPT ![s] = "FINISHED"]
  <2>1. \A r \in Site, g \in {0, 1} :
           pool'[r][g] = IF r = s /\ g = o THEN <<>> ELSE pool[r][g]
    <3>1. pool \in Pools
      BY <1>1, PoolHalves
    <3> HIDE DEF s, o
    <3> QED
      BY <1>1, <1>4, <3>1 DEF Pools
  <2>2. \A r \in Site : half[r] \in {0, 1} /\ 1 - half[r] \in {0, 1} /\ ~(r = s /\ half[r] = o)
    BY <1>1 DEF TypeOK
  <2>3. half' = half /\ poolSize' = poolSize /\ site' = site /\ api' = api
    BY DEF Check
  <2>4. Len(<<>>) = 0 /\ 1..0 = {}
    OBVIOUS
  <2> HIDE DEF s, o
  <2>5. SlotsLive'
    BY <2>1, <2>3, <2>4 DEF PoolInv, SlotsLive
  <2>10. OneSlotEach'
    <3> SUFFICES ASSUME NEW r \in Site, NEW q \in Site, NEW h \in {0, 1}, NEW g \in {0, 1},
                        NEW i \in 1..Len(pool'[r][h]), NEW j \in 1..Len(pool'[q][g]),
                        pool'[r][h][i] # NoApi, pool'[r][h][i] = pool'[q][g][j]
                 PROVE  r = q /\ h = g /\ i = j
      BY DEF OneSlotEach
    <3>1. pool'[r][h] = pool[r][h] /\ pool'[q][g] = pool[q][g]
      BY <2>1, <2>4
    <3> QED
      BY <3>1 DEF PoolInv, OneSlotEach
  <2>6. \A r \in Site : Current(r)' = Current(r)
    BY <2>1, <2>2, <2>3 DEF Current
  <2>7. CurrentFull' /\ PoolSizeExact'
    BY <2>3, <2>6 DEF PoolInv, CurrentFull, PoolSizeExact
  <2>8. OldEmpty'
    BY <1>1, <1>4, <2>1, <2>2, <2>3 DEF PoolInv, OldEmpty, Old, TypeOK
  <2>9. RoomToCreate'
    BY <1>2, <2>3 DEF PoolInv, RoomToCreate
  <2> QED
    BY <2>5, <2>10, <2>7, <2>8, <2>9 DEF PoolInv
<1> QED
  BY <1>3, <1>4 DEF Check

LEMMA SwapPool ==
    ASSUME TypeInv, PoolInv, NEW c \in Call, Swap(c)
    PROVE  PoolInv'
<1> DEFINE s == site[c]
<1>1. s \in Site /\ TypeOK /\ lock[s] = c
  BY DEF TypeInv, PointerInv, Swap, InLock
<1>2. /\ half' = [half EXCEPT ![s] = 1 - @] /\ poolSize' = [poolSize EXCEPT ![s] = Len(Old(s))]
      /\ switchState' = [switchState EXCEPT ![s] = "ONGOING"]
      /\ pool' = pool /\ api' = api /\ site' = site
  BY DEF Swap
<1>3. Old(s) = <<>> /\ Len(Old(s)) = 0
  BY <1>1 DEF Swap, PoolInv, OldEmpty
<1> HIDE DEF s
<1>4. \A r \in Site : Current(r)' = IF r = s THEN <<>> ELSE Current(r)
  BY <1>1, <1>2, <1>3 DEF Current, Old, TypeOK
<1>5. SlotsLive' /\ OneSlotEach'
  BY <1>2 DEF PoolInv, SlotsLive, OneSlotEach
<1>6. CurrentFull'
  BY <1>3, <1>4 DEF PoolInv, CurrentFull
<1>7. PoolSizeExact'
  BY <1>1, <1>2, <1>3, <1>4, ApiPoolAssumption DEF PoolInv, PoolSizeExact, TypeOK
<1>8. OldEmpty'
  BY <1>1, <1>2 DEF PoolInv, OldEmpty, Old, TypeOK
<1>9. RoomToCreate'
  <2> SUFFICES ASSUME NEW d \in Call, pc'[d] = "create" PROVE poolSize'[site[d]] < MaxConn
    BY <1>2 DEF RoomToCreate
  <2>1. d # c /\ pc[d] = "create"
    BY <1>1 DEF Swap, Goto, TypeOK
  <2>2. site[d] # s
    BY <1>1, <2>1 DEF TypeInv, PointerInv, InLock
  <2> QED
    BY <1>2, <2>1, <2>2 DEF PoolInv, RoomToCreate, TypeInv, PointerInv, TypeOK
<1> QED
  BY <1>5, <1>6, <1>7, <1>8, <1>9 DEF PoolInv

LEMMA ReadIdcPool ==
    ASSUME TypeInv, PoolInv, NEW c \in Call, ReadIdc(c)
    PROVE  PoolInv'
<1>1. TypeOK /\ UNCHANGED <<api, pool, half, poolSize, switchState, site>>
  BY DEF TypeInv, ReadIdc, poolVars, Throw
<1>2. SlotsLive' /\ OneSlotEach'
  BY <1>1 DEF PoolInv, SlotsLive, OneSlotEach
<1>4. CurrentFull' /\ OldEmpty' /\ PoolSizeExact'
  BY <1>1 DEF PoolInv, CurrentFull, OldEmpty, PoolSizeExact, Current, Old
<1>3. RoomToCreate'
  BY <1>1 DEF PoolInv, RoomToCreate, ReadIdc, Throw, Goto, TypeOK
<1> QED
  BY <1>2, <1>3, <1>4 DEF PoolInv

LEMMA CreatePool ==
    ASSUME TypeInv, PoolInv, NEW c \in Call, Create(c)
    PROVE  PoolInv'
<1> DEFINE s == site[c]
           n == Len(Current(s))
<1>1. s \in Site /\ TypeOK /\ half[s] \in {0, 1} /\ lock[s] = c
  BY DEF TypeInv, TypeOK, PointerInv, InLock, Create
<1>2. PICK a \in Api :
          /\ ~api[a].live
          /\ api' = [api EXCEPT ![a] = NewApi(idc[c])]
          /\ pool' = [pool EXCEPT ![s][half[s]] = Append(@, a)]
  BY DEF Create
<1> DEFINE new == Append(Current(s), a)
<1>3. /\ n \in Nat /\ new \in Seq(Api \cup {NoApi}) /\ Len(new) = n + 1
      /\ (\A i \in 1..n : new[i] = Current(s)[i]) /\ new[n + 1] = a
  BY <1>1, PoolHalves, AppendProperties
<1>4. \A r \in Site, g \in {0, 1} :
         pool'[r][g] = IF r = s /\ g = half[s] THEN new ELSE pool[r][g]
  <2>1. pool' = [pool EXCEPT ![s][half[s]] = new]
    BY <1>2 DEF Current
  <2> HIDE DEF s, new
  <2> QED
    BY <1>1, <2>1, PoolHalves DEF Pools
<1>5. half' = half /\ switchState' = switchState /\ site' = site
      /\ poolSize' = [poolSize EXCEPT ![s] = @ + 1]
  BY DEF Create
<1>6. a # NoApi /\ api'[a].live /\ \A b \in Api : b # a => api'[b] = api[b]
  BY <1>1, <1>2, ApiPoolAssumption DEF NewApi, TypeOK
<1>7. pool[s][half[s]] = Current(s)
  BY DEF Current
<1> HIDE DEF s, n, new
<1>8. \A r \in Site, g \in {0, 1} : \A i \in 1..Len(pool'[r][g]) :
         \/ /\ i \in 1..Len(pool[r][g]) /\ pool'[r][g][i] = pool[r][g][i]
            /\ pool[r][g][i] # a
         \/ r = s /\ g = half[s] /\ i = n + 1 /\ pool'[r][g][i] = a
  <2> SUFFICES ASSUME NEW r \in Site, NEW g \in {0, 1}, NEW i \in 1..Len(pool'[r][g])
               PROVE  \/ /\ i \in 1..Len(pool[r][g]) /\ pool'[r][g][i] = pool[r][g][i]
                         /\ pool[r][g][i] # a
                      \/ r = s /\ g = half[s] /\ i = n + 1 /\ pool'[r][g][i] = a
    OBVIOUS
  <2>1. \A j \in 1..Len(pool[r][g]) : pool[r][g][j] # a
    BY <1>2, <1>6 DEF PoolInv, SlotsLive
  <2>2. CASE ~(r = s /\ g = half[s])
    BY <1>4, <2>1, <2>2
  <2>3. CASE r = s /\ g = half[s]
    BY <1>3, <1>4, <1>7, <2>1, <2>3 DEF n
  <2> QED
    BY <2>2, <2>3
<1>9. SlotsLive'
  <2> SUFFICES ASSUME NEW r \in Site, NEW g \in {0, 1}, NEW i \in 1..Len(pool'[r][g]),
                      pool'[r][g][i] # NoApi
               PROVE  api'[pool'[r][g][i]].live
    BY DEF SlotsLive
  <2>1. CASE pool'[r][g][i] = a
    BY <1>6, <2>1
  <2>2. CASE /\ i \in 1..Len(pool[r][g]) /\ pool'[r][g][i] = pool[r][g][i]
             /\ pool[r][g][i] # a
    BY <1>1, <1>6, <2>2, SlotType DEF PoolInv, SlotsLive
  <2> QED
    BY <1>8, <2>1, <2>2
<1>10. OneSlotEach'
  <2> SUFFICES ASSUME NEW r \in Site, NEW q \in Site, NEW h \in {0, 1}, NEW g \in {0, 1},
                      NEW i \in 1..Len(pool'[r][h]), NEW j \in 1..Len(pool'[q][g]),
                      pool'[r][h][i] # NoApi, pool'[r][h][i] = pool'[q][g][j]
               PROVE  r = q /\ h = g /\ i = j
    BY DEF OneSlotEach
  <2>1. CASE pool'[r][h][i] = a
    <3>1. r = s /\ h = half[s] /\ i = n + 1
      BY ZenonT(120), <1>8, <2>1
    <3>2. q = s /\ g = half[s] /\ j = n + 1
      BY ZenonT(120), <1>8, <2>1
    <3> QED
      BY <3>1, <3>2
  <2>2. CASE pool'[r][h][i] # a
    <3>1. /\ i \in 1..Len(pool[r][h]) /\ pool'[r][h][i] = pool[r][h][i]
          /\ j \in 1..Len(pool[q][g]) /\ pool'[q][g][j] = pool[q][g][j]
      BY ZenonT(60), <1>8, <2>2
    <3>2. pool[r][h][i] # NoApi /\ pool[r][h][i] = pool[q][g][j]
      BY <3>1
    <3>3. \A k \in 1..Len(pool[r][h]), l \in 1..Len(pool[q][g]) :
             pool[r][h][k] # NoApi /\ pool[r][h][k] = pool[q][g][l] => r = q /\ h = g /\ k = l
      BY SMTT(30) DEF PoolInv, OneSlotEach
    <3> QED
      BY <3>1, <3>2, <3>3
  <2> QED
    BY <2>1, <2>2
<1>11. \A r \in Site : half[r] \in {0, 1} /\ 1 - half[r] \in {0, 1} /\ 1 - half[r] # half[r]
  BY <1>1 DEF TypeOK
<1>12. \A r \in Site : /\ Current(r)' = IF r = s THEN new ELSE Current(r)
                       /\ Old(r)' = Old(r)
  BY <1>1, <1>4, <1>5, <1>11 DEF Current, Old
<1>13. CurrentFull'
  BY <1>3, <1>6, <1>12 DEF PoolInv, CurrentFull, n
<1>14. OldEmpty'
  BY <1>5, <1>12 DEF PoolInv, OldEmpty
<1>15. PoolSizeExact'
  <2>1. poolSize[s] = n /\ n < MaxConn
    BY <1>1 DEF PoolInv, PoolSizeExact, RoomToCreate, Create, s, n
  <2> QED
    BY <1>1, <1>3, <1>5, <1>12, <2>1, ApiPoolAssumption DEF PoolInv, PoolSizeExact, TypeOK
<1>16. RoomToCreate'
  <2> SUFFICES ASSUME NEW d \in Call, pc'[d] = "create" PROVE poolSize'[site[d]] < MaxConn
    BY <1>5 DEF RoomToCreate
  <2>1. d # c /\ pc[d] = "create"
    BY <1>1 DEF Create, Goto, TypeOK
  <2>2. site[d] # s
    BY <1>1, <2>1 DEF TypeInv, PointerInv, InLock
  <2> QED
    BY <1>5, <2>1, <2>2 DEF PoolInv, RoomToCreate, TypeInv, PointerInv, TypeOK
<1> QED
  BY <1>9, <1>10, <1>13, <1>14, <1>15, <1>16 DEF PoolInv

(* Taking a free api deletes nothing and changes no vector. *)
LEMMA PickStep ==
    ASSUME TypeInv, NEW c \in Call, Pick(c) \/ PickLastIdc(c)
    PROVE  /\ site[c] \in Site /\ TakeFreeOrGrow(c)
           /\ UNCHANGED <<pool, half, poolSize, switchState, site, reload>>
BY DEF TypeInv, PointerInv, Pick, PickLastIdc, poolVars

LEMMA PickPool ==
    ASSUME TypeInv, PoolInv, NEW c \in Call, Pick(c) \/ PickLastIdc(c)
    PROVE  PoolInv'
<1>1. TypeOK /\ UNCHANGED <<pool, half, poolSize, switchState, site>>
  BY PickStep DEF TypeInv
<1>2. \A a \in Api : api[a].live => api'[a].live
  <2>1. CASE api' = api
    BY <2>1
  <2>2. CASE \E a \in Api, b \in BOOLEAN : api' = [api EXCEPT ![a] = SetUsed(@, b)]
    <3>1. PICK a \in Api, b \in BOOLEAN : api' = [api EXCEPT ![a] = SetUsed(api[a], b)]
      BY <2>2
    <3>2. api[a] \in ApiObject
      BY DEF TypeInv, TypeOK
    <3>3. SetUsed(api[a], b).live = api[a].live
      BY <3>2, UsedFields
    <3> QED
      BY <1>1, <3>1, <3>3 DEF TypeOK
  <2>3. api' = api \/ \E a \in Api, b \in BOOLEAN : api' = [api EXCEPT ![a] = SetUsed(@, b)]
    <3>1. TakeFreeOrGrow(c) /\ site[c] \in Site
      BY PickStep
    <3>2. \A i \in FreeSlots(Current(site[c])) : Current(site[c])[i] \in Api
      BY <1>1, <3>1, PoolHalves, ElementOfSeq DEF FreeSlots
    <3> QED
      BY <3>1, <3>2 DEF TakeFreeOrGrow
  <2> QED
    BY <2>1, <2>2, <2>3
<1>3. \A d \in Call : pc'[d] = "create" => pc[d] = "create"
  BY <1>1, PickStep DEF TakeFreeOrGrow, Goto, TypeOK
<1> QED
  BY <1>1, <1>2, <1>3, PoolInvKept

(* The steps that write neither an api nor a pool. *)
LEMMA QuietPool ==
    ASSUME TypeInv, PoolInv, NEW c \in Call,
           \/ SwitchBusy(c) \/ AdvanceIdc(c) \/ CreateThrows(c) \/ Reply(c)
           \/ LookUpThrows(c) \/ AddThrows(c) \/ WriteError(c) \/ TrySwitch(c) \/ SetSwitchOn(c)
           \/ \E s \in Site : Lock(c, s)
    PROVE  PoolInv'
<1>1. TypeOK /\ UNCHANGED <<api, pool, half, poolSize, switchState>>
  BY DEF TypeInv, SwitchBusy, AdvanceIdc, CreateThrows, Reply, LookUpThrows, AddThrows, WriteError,
         TrySwitch, SetSwitchOn, Lock, poolVars
<1>2. \A d \in Call : pc'[d] = "create" => pc[d] = "create" /\ site'[d] = site[d]
  BY <1>1 DEF SwitchBusy, AdvanceIdc, CreateThrows, Reply, LookUpThrows, AddThrows, WriteError,
              TrySwitch, SetSwitchOn, Lock, Goto, Done, Throw, TypeOK
<1> QED
  BY <1>1, <1>2, PoolInvKept

(* The steps that store through the pointer of a call. *)
LEMMA StorePool ==
    ASSUME TypeInv, PoolInv, NEW c \in Call,
           Send(c) \/ Receive(c) \/ Fail(c) \/ FreeAgain(c)
    PROVE  PoolInv'
<1>1. /\ TypeOK /\ held[c] \in Api /\ api[held[c]] \in ApiObject /\ idc[c] \in Idcs
      /\ UNCHANGED <<pool, half, poolSize, switchState, site>>
  BY DEF TypeInv, TypeOK, PointerInv, Pointing, After, Using, Send, Receive, Fail, FreeAgain, poolVars
<1>2. \A o : o.live = api[held[c]].live /\ Store(held[c], o) =>
                 \A a \in Api : api[a].live => api'[a].live
  BY <1>1 DEF Store, TypeOK
<1>3. \A a \in Api : api[a].live => api'[a].live
  <2>1. CASE Send(c)
    <3>1. Sent(api[held[c]], c).live = api[held[c]].live
      BY <1>1, WireFields
    <3> QED
      BY <1>2, <2>1, <3>1 DEF Send
  <2>2. CASE Receive(c)
    <3> DEFINE o == SetFree(Answered(api[held[c]]), ~KeepsConnection(site[c]))
    <3>1. Answered(api[held[c]]) \in ApiObject
          /\ Answered(api[held[c]]).live = api[held[c]].live
      BY <1>1, ApiObjectOps, WireFields
    <3>2. o.live = api[held[c]].live
      BY <1>1, <3>1, FreeFields
    <3>3. Store(held[c], o)
      BY <2>2 DEF Receive
    <3> HIDE DEF o
    <3> QED
      BY <1>2, <3>2, <3>3
  <2>3. CASE Fail(c) \/ FreeAgain(c)
    <3>1. SetFree(api[held[c]], TRUE).live = api[held[c]].live
      BY <1>1, CloseFields
    <3> QED
      BY <1>2, <2>3, <3>1 DEF Fail, FreeAgain
  <2> QED
    BY <2>1, <2>2, <2>3
<1>4. \A d \in Call : pc'[d] = "create" => pc[d] = "create"
  BY <1>1 DEF Send, Receive, Fail, FreeAgain, Goto, TypeOK
<1> QED
  BY <1>1, <1>3, <1>4, PoolInvKept

LEMMA ReloadPool ==
    ASSUME TypeInv, PoolInv, Reload
    PROVE  PoolInv'
<1>1. TypeOK /\ UNCHANGED <<api, pool, half, poolSize, switchState, pc, site>>
  BY DEF TypeInv, Reload, ReloadClear, ReloadRead, ReloadHasite, poolVars, callVars
<1> QED
  BY <1>1, PoolInvKept

LEMMA NextPool == TypeInv /\ PoolInv /\ [Next]_vars => PoolInv'
<1> SUFFICES ASSUME TypeInv, PoolInv, [Next]_vars PROVE PoolInv'
  OBVIOUS
<1>1. CASE UNCHANGED vars
  BY <1>1, PoolInvKept DEF TypeInv, vars, poolVars, callVars
<1>2. CASE \E c \in Call : Get(c) \/ Use(c) \/ \E s \in Site : Lock(c, s)
  BY <1>2, SweepPool, CheckPool, PickPool, SwapPool, ReadIdcPool, CreatePool, QuietPool,
     StorePool DEF Get, Use
<1> QED
  BY <1>1, <1>2, ReloadPool DEF Next

LEMMA SpecPoolInv == Spec => [](TypeInv /\ PoolInv)
<1>1. Init => TypeInv /\ PoolInv
  BY InitTypeInv, InitPoolInv
<1>2. TypeInv /\ PoolInv /\ [Next]_vars => (TypeInv /\ PoolInv)'
  BY NextType, NextPool
<1> QED
  BY <1>1, <1>2, PTL DEF Spec

(* The scan of CApiPool::_get calls is_free on every element of the current vector
   without a NULL check (api_pool.cpp:233): every element is an api that is alive
   and sits in no other place, whatever switches, reloads and failures happened.  *)
THEOREM CurrentPoolSafe == Spec => []CurrentPoolIntact
<1>1. TypeInv /\ PoolInv => CurrentPoolIntact
  <2> SUFFICES ASSUME TypeOK, PoolInv, NEW s \in Site, NEW i \in 1..Len(Current(s))
               PROVE  /\ Current(s)[i] # NoApi
                      /\ api[Current(s)[i]].live
                      /\ \A r \in Site, h \in {0, 1} : \A j \in 1..Len(pool[r][h]) :
                            pool[r][h][j] = Current(s)[i] => r = s /\ h = half[s] /\ j = i
    BY DEF TypeInv, CurrentPoolIntact
  <2>1. Current(s) = pool[s][half[s]] /\ half[s] \in {0, 1}
    BY DEF Current, TypeOK
  <2>2. Current(s)[i] # NoApi
    BY DEF PoolInv, CurrentFull
  <2>3. api[Current(s)[i]].live
    BY <2>1, <2>2 DEF PoolInv, SlotsLive
  <2>4. ASSUME NEW r \in Site, NEW h \in {0, 1}, NEW j \in 1..Len(pool[r][h]),
               pool[r][h][j] = Current(s)[i]
        PROVE  r = s /\ h = half[s] /\ j = i
    BY SMTT(30), <2>1, <2>2, <2>4 DEF PoolInv, OneSlotEach
  <2> QED
    BY <2>2, <2>3, <2>4
<1> QED
  BY <1>1, SpecPoolInv, PTL

(* The pool keeps its shape, reloads and double releases included: who is in which slot,
   which vector is drained, the size kept by hand, and whether there is room for what
   a call is about to create.                                                  *)
THEOREM PoolShape == Spec => []PoolInv
  BY SpecPoolInv

----------------------------------------------------------------------------
(* One call at a time uses an api, but for the apis that are torn. *)

LEMMA InitLease == Init => LeaseSafe
<1> SUFFICES ASSUME Init PROVE LeaseSafe
  OBVIOUS
<1>1. HeldIsUsed /\ ExclusiveLease /\ LentClean
  BY DEF Init, HeldIsUsed, ExclusiveLease, LentClean, Using
<1>2. UsedIsHeld /\ FreeIsClean
  BY DEF Init, UsedIsHeld, FreeIsClean
<1> QED
  BY <1>1, <1>2 DEF LeaseSafe

(* A step that lends nothing, takes nothing back and writes no api. *)
LEMMA LeaseKept ==
    ASSUME LeaseSafe, api' = api, torn' = torn,
           \A d \in Call :
              /\ pc'[d] \in Using <=> pc[d] \in Using
              /\ pc'[d] \in Using => held'[d] = held[d] /\ pc'[d] = pc[d]
    PROVE  LeaseSafe'
<1>1. HeldIsUsed' /\ ExclusiveLease' /\ UsedIsHeld'
  BY DEF LeaseSafe, HeldIsUsed, ExclusiveLease, UsedIsHeld
<1>2. LentClean' /\ FreeIsClean'
  BY DEF LeaseSafe, LentClean, FreeIsClean, Using
<1> QED
  BY <1>1, <1>2 DEF LeaseSafe

(* A step on a torn api, or one that tears it, touches no other. *)
LEMMA LeaseTorn ==
    ASSUME LeaseSafe, NEW c \in Call, NEW a \in Api, a \in torn', torn \subseteq torn',
           \A b \in Api : b # a => api'[b] = api[b],
           \A d \in Call : d # c => pc'[d] = pc[d] /\ held'[d] = held[d],
           pc[c] \in Using => held[c] = a,
           pc'[c] \in Using => held'[c] = a,
           \A d \in Call : pc[d] \in Using => held[d] \in Api
    PROVE  LeaseSafe'
<1>1. \A d \in Call : pc'[d] \in Using /\ held'[d] \notin torn' =>
         /\ d # c /\ pc'[d] = pc[d] /\ held'[d] = held[d] /\ held[d] \in Api
         /\ held[d] # a /\ held[d] \notin torn
  OBVIOUS
<1>2. HeldIsUsed'
  BY <1>1 DEF LeaseSafe, HeldIsUsed
<1>3. ExclusiveLease'
  BY <1>1 DEF LeaseSafe, ExclusiveLease
<1>4. UsedIsHeld'
  <2> SUFFICES ASSUME NEW b \in Api, b \notin torn', api'[b].live, api'[b].used
               PROVE  \E d \in Call : pc'[d] \in Using /\ held'[d] = b
    BY DEF UsedIsHeld
  <2>1. b # a /\ b \notin torn /\ api'[b] = api[b]
    OBVIOUS
  <2>2. PICK d \in Call : pc[d] \in Using /\ held[d] = b
    BY <2>1 DEF LeaseSafe, UsedIsHeld
  <2> QED
    BY <2>1, <2>2
<1>5. LentClean'
  BY <1>1 DEF LeaseSafe, LentClean, Using
<1>6. FreeIsClean'
  BY DEF LeaseSafe, FreeIsClean
<1> QED
  BY <1>2, <1>3, <1>4, <1>5, <1>6 DEF LeaseSafe

(* What the calls other than the one that steps keep. *)
LEMMA UsersPoint == TypeInv => \A d \in Call : pc[d] \in Using => held[d] \in Api
BY DEF TypeInv, PointerInv, Pointing

(* A step that lends an api nobody uses. *)
LEMMA LeaseTaken ==
    ASSUME TypeInv, LeaseSafe, NEW c \in Call, NEW a \in Api, torn' = torn,
           pc[c] \notin Using,
           pc' = [pc EXCEPT ![c] = "got"], held' = [held EXCEPT ![c] = a],
           a \notin torn => \A d \in Call : pc[d] \in Using => held[d] # a,
           a \notin torn => api'[a].live /\ api'[a].used /\ api'[a].req = NoCall,
           \A b \in Api : b # a => api'[b] = api[b]
    PROVE  LeaseSafe'
<1>1. \A d \in Call : /\ d # c => pc'[d] = pc[d] /\ held'[d] = held[d]
                      /\ pc[d] \in Using => held[d] \in Api
                      /\ pc'[c] = "got" /\ held'[c] = a
  BY UsersPoint DEF TypeInv, TypeOK
<1>2. CASE a \in torn
  BY <1>1, <1>2, LeaseTorn
<1>3. CASE a \notin torn
  <2>1. HeldIsUsed'
    BY <1>1, <1>3 DEF LeaseSafe, HeldIsUsed
  <2>2. ExclusiveLease'
    BY <1>1, <1>3 DEF LeaseSafe, ExclusiveLease
  <2>3. UsedIsHeld'
    <3> SUFFICES ASSUME NEW b \in Api, b \notin torn, api'[b].live, api'[b].used
                 PROVE  \E d \in Call : pc'[d] \in Using /\ held'[d] = b
      BY DEF UsedIsHeld
    <3>1. CASE b = a
      BY <1>1, <3>1 DEF Using
    <3>2. CASE b # a
      <4>1. PICK d \in Call : pc[d] \in Using /\ held[d] = b
        BY <3>2 DEF LeaseSafe, UsedIsHeld
      <4> QED
        BY <1>1, <4>1
    <3> QED
      BY <3>1, <3>2
  <2>4. LentClean'
    BY <1>1, <1>3 DEF LeaseSafe, LentClean, Using
  <2>5. FreeIsClean'
    BY <1>3 DEF LeaseSafe, FreeIsClean
  <2> QED
    BY <2>1, <2>2, <2>3, <2>4, <2>5 DEF LeaseSafe
<1> QED
  BY <1>2, <1>3

LEMMA TakeLease ==
    ASSUME TypeInv, PoolInv, LeaseSafe, NEW c \in Call, Pick(c) \/ PickLastIdc(c)
    PROVE  LeaseSafe'
<1>1. site[c] \in Site /\ TakeFreeOrGrow(c) /\ torn' = torn /\ pc[c] = "pick" /\ TypeOK
  BY PickStep DEF Pick, PickLastIdc, TypeInv
<1>2. CASE FreeSlots(Current(site[c])) = {}
  <2>1. api' = api /\ held' = held /\ pc' = [pc EXCEPT ![c] = "readidc"]
    BY <1>1, <1>2 DEF TakeFreeOrGrow, Goto
  <2> QED
    BY <1>1, <2>1, LeaseKept DEF TypeOK, Using
<1>3. CASE FreeSlots(Current(site[c])) # {}
  <2>1. PICK i \in FreeSlots(Current(site[c])), tcpOk \in BOOLEAN :
            /\ api' = [api EXCEPT ![Current(site[c])[i]] = SetUsed(@, tcpOk)]
            /\ held' = [held EXCEPT ![c] = Current(site[c])[i]]
            /\ Goto(c, "got")
    BY <1>1, <1>3 DEF TakeFreeOrGrow
  <2> DEFINE a == Current(site[c])[i]
  <2>2. a \in Api /\ ~api[a].used
    BY <1>1, PoolHalves, ElementOfSeq DEF FreeSlots
  <2>3. api[a].live
    <3>1. Current(site[c]) = pool[site[c]][half[site[c]]] /\ half[site[c]] \in {0, 1}
      BY <1>1 DEF Current, TypeOK
    <3> QED
      BY <1>1, <2>2, <3>1, ApiPoolAssumption DEF FreeSlots, PoolInv, SlotsLive
  <2>4. api[a] \in ApiObject /\ (a \notin torn => api[a].req = NoCall)
    BY <1>1, <2>2, <2>3 DEF LeaseSafe, FreeIsClean, TypeOK
  <2>5. api' = [api EXCEPT ![a] = SetUsed(api[a], tcpOk)]
    BY <2>1
  <2>6. held' = [held EXCEPT ![c] = a] /\ pc' = [pc EXCEPT ![c] = "got"]
    BY <2>1 DEF Goto
  <2> HIDE DEF a
  <2>7. /\ a \notin torn => api'[a].live /\ api'[a].used /\ api'[a].req = NoCall
        /\ \A b \in Api : b # a => api'[b] = api[b]
    BY <1>1, <2>2, <2>3, <2>4, <2>5, UsedFields DEF TypeOK
  <2>8. a \notin torn => \A d \in Call : pc[d] \in Using => held[d] # a
    BY <2>2 DEF LeaseSafe, HeldIsUsed
  <2> QED
    BY <1>1, <2>2, <2>6, <2>7, <2>8, LeaseTaken DEF Using
<1> QED
  BY <1>2, <1>3

LEMMA CreateLease ==
    ASSUME TypeInv, LeaseSafe, NEW c \in Call, Create(c)
    PROVE  LeaseSafe'
<1>1. PICK a \in Api : /\ ~api[a].live
                       /\ api' = [api EXCEPT ![a] = NewApi(idc[c])]
                       /\ held' = [held EXCEPT ![c] = a]
  BY DEF Create
<1>2. /\ api'[a].live /\ api'[a].used /\ api'[a].req = NoCall
      /\ \A b \in Api : b # a => api'[b] = api[b]
  BY <1>1, NewFields DEF TypeInv, TypeOK
<1>3. a \notin torn => \A d \in Call : pc[d] \in Using => held[d] # a
  BY <1>1 DEF LeaseSafe, HeldIsUsed
<1>4. pc[c] \notin Using /\ torn' = torn /\ pc' = [pc EXCEPT ![c] = "got"]
  BY DEF Create, Goto, Using
<1> QED
  BY <1>1, <1>2, <1>3, <1>4, LeaseTaken

LEMMA SweepLease ==
    ASSUME TypeInv, LeaseSafe, NEW c \in Call, Sweep(c)
    PROVE  LeaseSafe'
<1>1. \A a \in Api : api'[a] = api[a] \/ (~api[a].used /\ ~api'[a].live)
  <2> SUFFICES ASSUME NEW a \in Api
               PROVE  api'[a] = api[a] \/ (~api[a].used /\ ~api'[a].live)
    OBVIOUS
  <2>1. api[a] \in ApiObject
    BY DEF TypeInv, TypeOK
  <2>2. ~Deleted(api[a]).live
    BY <2>1 DEF Deleted, ApiObject
  <2> QED
    BY <2>2 DEF Sweep, FreeSlots
<1>2. torn' = torn /\ \A d \in Call : /\ pc'[d] \in Using <=> pc[d] \in Using
                                      /\ pc'[d] \in Using => pc[d] = pc'[d]
                                      /\ pc[d] \in Using => held[d] \in Api
                                      /\ held'[d] = held[d]
  BY UsersPoint DEF Sweep, Goto, Using, TypeInv, TypeOK
<1>3. HeldIsUsed'
  BY <1>1, <1>2 DEF LeaseSafe, HeldIsUsed
<1>4. ExclusiveLease'
  BY <1>2 DEF LeaseSafe, ExclusiveLease
<1>5. UsedIsHeld'
  BY <1>1, <1>2 DEF LeaseSafe, UsedIsHeld
<1>6. LentClean'
  BY <1>1, <1>2 DEF LeaseSafe, LentClean, HeldIsUsed, Using
<1>7. FreeIsClean'
  BY <1>1, <1>2 DEF LeaseSafe, FreeIsClean
<1> QED
  BY <1>3, <1>4, <1>5, <1>6, <1>7 DEF LeaseSafe

(* What a call stores through its pointer touches one api. *)
LEMMA StoreOne ==
    ASSUME TypeOK, NEW a \in Api, NEW o, Store(a, o)
    PROVE  \A b \in Api : b # a => api'[b] = api[b]
BY DEF Store, TypeOK

LEMMA SendLease ==
    ASSUME TypeInv, LeaseSafe, NEW c \in Call, Send(c)
    PROVE  LeaseSafe'
<1> DEFINE a == held[c]
<1>1. a \in Api /\ api[a] \in ApiObject /\ pc[c] = "got" /\ TypeOK
  BY DEF TypeInv, TypeOK, PointerInv, Pointing, Using, Send
<1>2. \A b \in Api : b # a => api'[b] = api[b]
  BY <1>1, StoreOne DEF Send
<1>3. /\ held' = held /\ pc'[c] = "waiting" /\ torn' = torn
      /\ \A d \in Call : d # c => pc'[d] = pc[d] /\ held'[d] = held[d]
      /\ \A d \in Call : pc[d] \in Using => held[d] \in Api
  BY <1>1, UsersPoint DEF Send, Goto, TypeOK
<1>4. CASE a \in torn
  BY <1>1, <1>2, <1>3, <1>4, LeaseTorn
<1>5. CASE a \notin torn
  <2>1. api[a].live /\ api[a].used
    BY <1>1, <1>5 DEF LeaseSafe, HeldIsUsed, Using
  <2>2. api' = [api EXCEPT ![a] = Sent(api[a], c)]
    BY <2>1 DEF Send, Store
  <2>3. api'[a].live /\ api'[a].used
    BY <1>1, <2>1, <2>2, WireFields DEF TypeOK
  <2>4. \A d \in Call : d # c /\ pc[d] \in Using => held[d] # a
    BY <1>1, <1>5 DEF LeaseSafe, ExclusiveLease, Using
  <2>5. HeldIsUsed'
    BY <1>1, <1>2, <1>3, <2>3 DEF LeaseSafe, HeldIsUsed, Using
  <2>6. ExclusiveLease'
    BY <1>1, <1>3 DEF LeaseSafe, ExclusiveLease, Using
  <2>7. UsedIsHeld'
    <3> SUFFICES ASSUME NEW b \in Api, b \notin torn, api'[b].live, api'[b].used
                 PROVE  \E d \in Call : pc'[d] \in Using /\ held'[d] = b
      BY <1>3 DEF UsedIsHeld
    <3>1. api[b].live /\ api[b].used
      BY <1>2, <2>1
    <3>2. PICK d \in Call : pc[d] \in Using /\ held[d] = b
      BY <3>1 DEF LeaseSafe, UsedIsHeld
    <3> QED
      BY <1>3, <3>2 DEF Using
  <2> HIDE DEF a
  <2>8. LentClean'
    BY <1>2, <1>3, <2>4 DEF LeaseSafe, LentClean, Using
  <2>9. FreeIsClean'
    BY <1>2, <1>3, <2>3 DEF LeaseSafe, FreeIsClean
  <2> QED
    BY <2>5, <2>6, <2>7, <2>8, <2>9 DEF LeaseSafe
<1> QED
  BY <1>4, <1>5

(* The answer came, or the call failed: the api is given back clean. *)
LEMMA GiveBackLease ==
    ASSUME TypeInv, LeaseSafe, NEW c \in Call, Receive(c) \/ Fail(c)
    PROVE  LeaseSafe'
<1> DEFINE a == held[c]
<1>1. a \in Api /\ api[a] \in ApiObject /\ pc[c] \in Using /\ TypeOK
  BY DEF TypeInv, TypeOK, PointerInv, Pointing, Using, Receive, Fail
<1>2. \A b \in Api : b # a => api'[b] = api[b]
  BY <1>1, StoreOne DEF Receive, Fail
<1>3. /\ pc'[c] \notin Using /\ torn' = torn
      /\ \A d \in Call : d # c => pc'[d] = pc[d] /\ held'[d] = held[d]
      /\ \A d \in Call : pc[d] \in Using => held[d] \in Api
  BY <1>1, UsersPoint DEF Receive, Fail, Goto, Using, TypeOK
<1>4. CASE a \in torn
  BY <1>1, <1>2, <1>3, <1>4, LeaseTorn
<1>5. CASE a \notin torn
  <2>1. api[a].live /\ api[a].used
    BY <1>1, <1>5 DEF LeaseSafe, HeldIsUsed
  <2>2. PICK o : /\ api' = [api EXCEPT ![a] = o]
                 /\ ~o.used /\ o.req = NoCall /\ o.wire = NoCall
    <3>1. CASE Receive(c)
      <4> DEFINE freed == SetFree(Answered(api[a]), ~KeepsConnection(site[c]))
      <4>1. Answered(api[a]) \in ApiObject /\ Answered(api[a]).wire = NoCall
        BY <1>1, ApiObjectOps, WireFields DEF TypeOK
      <4>2. ~freed.used /\ freed.req = NoCall /\ freed.wire = NoCall
        BY <4>1, FreeFields
      <4>3. api' = [api EXCEPT ![a] = freed]
        BY <2>1, <3>1 DEF Receive, Store
      <4> HIDE DEF a, freed
      <4> QED
        BY <4>2, <4>3
    <3>2. CASE Fail(c)
      <4> DEFINE freed == SetFree(api[a], TRUE)
      <4>1. ~freed.used /\ freed.req = NoCall /\ freed.wire = NoCall
        BY <1>1, CloseFields
      <4>2. api' = [api EXCEPT ![a] = freed]
        BY <2>1, <3>2 DEF Fail, Store
      <4> HIDE DEF a, freed
      <4> QED
        BY <4>1, <4>2
    <3> QED
      BY <3>1, <3>2
  <2>3. ~api'[a].used /\ api'[a].req = NoCall /\ api'[a].wire = NoCall
    BY <1>1, <2>2 DEF TypeOK
  <2>4. \A d \in Call : d # c /\ pc[d] \in Using => held[d] # a
    BY <1>1, <1>5 DEF LeaseSafe, ExclusiveLease
  <2>5. UsedIsHeld'
    <3> SUFFICES ASSUME NEW b \in Api, b \notin torn, api'[b].live, api'[b].used
                 PROVE  \E d \in Call : pc'[d] \in Using /\ held'[d] = b
      BY <1>3 DEF UsedIsHeld
    <3>1. b # a /\ api[b].live /\ api[b].used
      BY <1>2, <2>3
    <3>2. PICK d \in Call : pc[d] \in Using /\ held[d] = b
      BY <3>1 DEF LeaseSafe, UsedIsHeld
    <3> QED
      BY <1>3, <3>1, <3>2
  <2> HIDE DEF a
  <2>6. HeldIsUsed'
    BY <1>2, <1>3, <2>4 DEF LeaseSafe, HeldIsUsed
  <2>7. ExclusiveLease'
    BY <1>3 DEF LeaseSafe, ExclusiveLease
  <2>8. LentClean'
    BY <1>2, <1>3, <2>4 DEF LeaseSafe, LentClean, Using
  <2>9. FreeIsClean'
    BY <1>2, <1>3, <2>3 DEF LeaseSafe, FreeIsClean
  <2> QED
    BY <2>5, <2>6, <2>7, <2>8, <2>9 DEF LeaseSafe
<1> QED
  BY <1>4, <1>5

(* A second release meets an api that is deleted, one that is free, or one that
   another call has: that one is torn.                                         *)
LEMMA FreeAgainLease ==
    ASSUME TypeInv, LeaseSafe, NEW c \in Call, FreeAgain(c)
    PROVE  LeaseSafe'
<1> DEFINE a == held[c]
<1>1. a \in Api /\ api[a] \in ApiObject /\ pc[c] = "caught" /\ TypeOK
  BY DEF TypeInv, TypeOK, PointerInv, Pointing, After, FreeAgain
<1>2. \A b \in Api : b # a => api'[b] = api[b]
  BY <1>1, StoreOne DEF FreeAgain
<1>3. /\ pc[c] \notin Using /\ pc'[c] \notin Using
      /\ \A d \in Call : d # c => pc'[d] = pc[d] /\ held'[d] = held[d]
      /\ \A d \in Call : pc[d] \in Using => held[d] \in Api
  BY <1>1, UsersPoint DEF FreeAgain, Goto, Using, TypeOK
<1>4. CASE a \in torn'
  <2>1. torn \subseteq torn'
    BY DEF FreeAgain
  <2> QED
    BY <1>1, <1>2, <1>3, <1>4, <2>1, LeaseTorn
<1>5. CASE a \notin torn'
  <2>1. torn' = torn /\ a \notin torn /\ ~(api[a].live /\ api[a].used)
    BY <1>5 DEF FreeAgain
  <2>2. \A d \in Call : pc[d] \in Using => held[d] # a
    BY <2>1 DEF LeaseSafe, HeldIsUsed
  <2>3. CASE ~api[a].live
    <3>1. api' = api
      BY <2>3 DEF FreeAgain, Store
    <3>2. \A d \in Call : /\ pc'[d] \in Using <=> pc[d] \in Using
                          /\ pc'[d] \in Using => held'[d] = held[d] /\ pc'[d] = pc[d]
      BY <1>3
    <3> QED
      BY <2>1, <3>1, <3>2, LeaseKept
  <2>4. CASE api[a].live
    <3>1. api' = [api EXCEPT ![a] = SetFree(api[a], TRUE)]
      BY <2>4 DEF FreeAgain, Store
    <3>2. ~api'[a].used /\ api'[a].req = NoCall /\ api'[a].wire = NoCall
      BY <1>1, <3>1, CloseFields DEF TypeOK
    <3> HIDE DEF a
    <3>3. UsedIsHeld'
      <4> SUFFICES ASSUME NEW b \in Api, b \notin torn, api'[b].live, api'[b].used
                   PROVE  \E d \in Call : pc'[d] \in Using /\ held'[d] = b
        BY <2>1 DEF UsedIsHeld
      <4>1. b # a /\ api[b].live /\ api[b].used
        BY <1>2, <3>2
      <4>2. PICK d \in Call : pc[d] \in Using /\ held[d] = b
        BY <4>1 DEF LeaseSafe, UsedIsHeld
      <4> QED
        BY <1>3, <4>2
    <3>4. HeldIsUsed'
      BY <1>2, <1>3, <2>1, <2>2 DEF LeaseSafe, HeldIsUsed
    <3>5. ExclusiveLease'
      BY <1>3, <2>1 DEF LeaseSafe, ExclusiveLease
    <3>6. LentClean'
      BY <1>2, <1>3, <2>1, <2>2 DEF LeaseSafe, LentClean, Using
    <3>7. FreeIsClean'
      BY <1>2, <2>1, <3>2 DEF LeaseSafe, FreeIsClean
    <3> QED
      BY <3>3, <3>4, <3>5, <3>6, <3>7 DEF LeaseSafe
  <2> QED
    BY <2>3, <2>4
<1> QED
  BY <1>4, <1>5

(* The steps that neither lend an api nor write one. *)
LEMMA QuietLease ==
    ASSUME TypeInv, LeaseSafe, NEW c \in Call,
           \/ Check(c) \/ SwitchBusy(c) \/ Swap(c) \/ AdvanceIdc(c) \/ ReadIdc(c)
           \/ CreateThrows(c) \/ Reply(c) \/ LookUpThrows(c) \/ AddThrows(c)
           \/ WriteError(c) \/ TrySwitch(c) \/ SetSwitchOn(c)
           \/ \E s \in Site : Lock(c, s)
    PROVE  LeaseSafe'
<1>1. api' = api /\ torn' = torn
  BY DEF Check, SwitchBusy, Swap, AdvanceIdc, ReadIdc, CreateThrows, Reply, WriteError,
         TrySwitch, SetSwitchOn, LookUpThrows, AddThrows, Lock
<1>2. /\ pc[c] \notin Using /\ pc'[c] \notin Using
      /\ \A d \in Call : d # c => pc'[d] = pc[d] /\ held'[d] = held[d]
  BY DEF Check, SwitchBusy, Swap, AdvanceIdc, ReadIdc, CreateThrows, Reply, WriteError,
         TrySwitch, SetSwitchOn, LookUpThrows, AddThrows, Lock, Throw, Done, Goto, Using,
         TypeInv, TypeOK
<1>3. \A d \in Call : /\ pc'[d] \in Using <=> pc[d] \in Using
                      /\ pc'[d] \in Using => held'[d] = held[d] /\ pc'[d] = pc[d]
  BY <1>2
<1> QED
  BY <1>1, <1>3, LeaseKept

LEMMA NextLease == TypeInv /\ PoolInv /\ LeaseSafe /\ [Next]_vars => LeaseSafe'
<1> SUFFICES ASSUME TypeInv, PoolInv, LeaseSafe, [Next]_vars PROVE LeaseSafe'
  OBVIOUS
<1>1. CASE UNCHANGED vars
  BY <1>1, LeaseKept DEF vars, callVars
<1>2. CASE \E c \in Call : Get(c) \/ Use(c) \/ \E s \in Site : Lock(c, s)
  BY <1>2, TakeLease, CreateLease, SweepLease, SendLease, GiveBackLease, FreeAgainLease,
     QuietLease
  DEF Get, Use
<1>3. CASE Reload
  BY <1>3, LeaseKept DEF Reload, ReloadClear, ReloadRead, ReloadHasite, callVars
<1> QED
  BY <1>1, <1>2, <1>3 DEF Next

(* An api is used by one call, which finds it alive, marked used and without a packet,
   what is marked used is used by a call, and a free one waits for no answer, although
   set_free runs without the lock of the pool, whatever is reloaded and whatever fails
   (api_base.cpp:93, :183, relay_server.cpp:786, :960). The only apis this is not said
   of are those that a call gave back a second time while another one had them.      *)
THEOREM LeaseStaysSafe == Spec => []LeaseSafe
<1>1. TypeInv /\ PoolInv /\ LeaseSafe /\ [Next]_vars => LeaseSafe'
  BY NextLease
<1> QED
  BY <1>1, InitLease, SpecPoolInv, PTL DEF Spec

(* Without a reload and without a failing call nothing throws after the api was given
   back. *)
NothingThrows ==
    /\ reload = [step |-> "none", left |-> 0] /\ faults = 0
    /\ torn = {} /\ \A c \in Call : pc[c] # "caught"

(* As long as the configuration is not reloaded and add_event does not fail, no api is
   torn: no call gives an api back twice, and what LeaseSafe says holds of all of them
   (relay_server.cpp:960-979, :786).                                               *)
THEOREM NoneIsTorn == Spec /\ Reloads = 0 /\ MaxFaults = 0 => [](torn = {})
<1> SUFFICES ASSUME Reloads = 0, MaxFaults = 0 PROVE Spec => [](torn = {})
  OBVIOUS
<1>1. Init => NothingThrows
  BY DEF Init, NothingThrows
<1>2. NothingThrows /\ TypeInv /\ [Next]_vars => NothingThrows'
  <2> SUFFICES ASSUME NothingThrows, TypeInv, [Next]_vars PROVE NothingThrows'
    OBVIOUS
  <2>1. CASE UNCHANGED vars
    BY <2>1 DEF vars, callVars, NothingThrows
  <2>2. ASSUME NEW c \in Call, Get(c) PROVE NothingThrows'
    BY <2>2
    DEF Get, Sweep, Check, Pick, PickLastIdc, TakeFreeOrGrow, SwitchBusy, Swap, AdvanceIdc,
        ReadIdc, Create, CreateThrows, Throw, Goto, NothingThrows, TypeInv, TypeOK
  <2>3. ASSUME NEW c \in Call, Use(c) PROVE NothingThrows'
    <3>1. ~LookUpThrows(c) /\ ~AddThrows(c) /\ ~FreeAgain(c)
      <4>1. reload.left = 0 /\ faults = 0 /\ pc[c] # "caught"
        BY DEF NothingThrows
      <4>2. ~(reload.left < Reloads) /\ ~(faults > 0)
        BY <4>1
      <4> QED
        BY <4>1, <4>2 DEF LookUpThrows, AddThrows, FreeAgain
    <3> QED
      BY <2>3, <3>1
      DEF Use, Send, Receive, Fail, Reply, WriteError, TrySwitch, SetSwitchOn, Done, Goto,
          NothingThrows, TypeInv, TypeOK
  <2>4. ASSUME NEW c \in Call, NEW s \in Site, Lock(c, s) PROVE NothingThrows'
    BY <2>4 DEF Lock, Goto, NothingThrows, TypeInv, TypeOK
  <2>5. ~Reload
    BY DEF NothingThrows, Reload, ReloadClear, ReloadRead, ReloadHasite
  <2> QED
    BY <2>1, <2>2, <2>3, <2>4, <2>5 DEF Next
<1>3. NothingThrows => torn = {}
  BY DEF NothingThrows
<1>4. Spec => []TypeInv
  BY SpecPoolInv, PTL
<1> QED
  BY <1>1, <1>2, <1>3, <1>4, PTL DEF Spec

----------------------------------------------------------------------------
(* The pools implement ApiLease. *)

(* Who has an api, of what the calls do, point to, and of what is torn. *)
HasIn(p, h, t, c, a) == p[c] \in Using /\ h[c] = a /\ a \notin t

Holder(p, h, t, a) ==
    IF \E c \in Call : HasIn(p, h, t, c, a)
    THEN CHOOSE c \in Call : HasIn(p, h, t, c, a)
    ELSE NoCall

Owners  == [a \in Api |-> OwnerOf(a)]
Retired == {a \in Api : api[a].live /\ ~InCurrentPool(a)}

LEMMA OwnersHold ==
    /\ Owners = [a \in Api |-> Holder(pc, held, torn, a)]
    /\ Owners' = [a \in Api |-> Holder(pc', held', torn', a)]
BY DEF Owners, OwnerOf, Has, Holder, HasIn

LEMMA HolderIs ==
    ASSUME NEW p, NEW h, NEW t, NEW a, NEW c \in Call, HasIn(p, h, t, c, a),
           \A d \in Call : HasIn(p, h, t, d, a) => d = c
    PROVE  Holder(p, h, t, a) = c
BY DEF Holder

LEMMA HolderNone ==
    ASSUME NEW p, NEW h, NEW t, NEW a, \A d \in Call : ~HasIn(p, h, t, d, a)
    PROVE  Holder(p, h, t, a) = NoCall
BY DEF Holder

LEMMA HolderSame ==
    ASSUME NEW p, NEW h, NEW t, NEW q, NEW g, NEW u, NEW a,
           \A c, d \in Call : HasIn(p, h, t, c, a) /\ HasIn(p, h, t, d, a) => c = d,
           \A d \in Call : HasIn(p, h, t, d, a) <=> HasIn(q, g, u, d, a)
    PROVE  Holder(p, h, t, a) = Holder(q, g, u, a)
<1>1. ASSUME NEW c \in Call, HasIn(p, h, t, c, a)
      PROVE  Holder(p, h, t, a) = Holder(q, g, u, a)
  <2>1. \A d \in Call : HasIn(p, h, t, d, a) => d = c
    BY <1>1
  <2>2. Holder(p, h, t, a) = c
    BY <1>1, <2>1, HolderIs
  <2>3. HasIn(q, g, u, c, a) /\ \A d \in Call : HasIn(q, g, u, d, a) => d = c
    BY <1>1, <2>1
  <2>4. Holder(q, g, u, a) = c
    BY <2>3, HolderIs
  <2> QED
    BY <2>2, <2>4
<1>2. CASE \A c \in Call : ~HasIn(p, h, t, c, a)
  <2>1. \A d \in Call : ~HasIn(q, g, u, d, a)
    BY <1>2
  <2> QED
    BY <1>2, <2>1, HolderNone
<1> QED
  BY <1>1, <1>2

(* One call at a time has an api. *)
LEMMA OneHas ==
    ASSUME LeaseSafe
    PROVE  \A a, c, d : c \in Call /\ d \in Call /\ HasIn(pc, held, torn, c, a)
                           /\ HasIn(pc, held, torn, d, a) => c = d
BY DEF LeaseSafe, ExclusiveLease, HasIn

(* Who uses an api that is not torn has it, and nobody has one that is torn or is not
   alive and used.                                                                *)
LEMMA OwnersAre ==
    ASSUME TypeInv, LeaseSafe
    PROVE  /\ \A c \in Call : pc[c] \in Using => held[c] \in Api
           /\ \A c \in Call, a \in Api : HasIn(pc, held, torn, c, a) => Owners[a] = c
           /\ \A a \in Api : a \in torn \/ ~(api[a].live /\ api[a].used) => Owners[a] = NoCall
           /\ \A c \in Call, a \in Api : Owners[a] = c => HasIn(pc, held, torn, c, a)
<1>1. ASSUME NEW c \in Call, NEW a \in Api, HasIn(pc, held, torn, c, a)
      PROVE  Owners[a] = c
  <2>1. \A d \in Call : HasIn(pc, held, torn, d, a) => d = c
    BY <1>1, OneHas
  <2>2. Holder(pc, held, torn, a) = c
    BY <1>1, <2>1, HolderIs
  <2> QED
    BY <2>2, OwnersHold
<1>2. ASSUME NEW a \in Api, a \in torn \/ ~(api[a].live /\ api[a].used)
      PROVE  Owners[a] = NoCall
  <2>1. \A d \in Call : ~HasIn(pc, held, torn, d, a)
    BY <1>2 DEF LeaseSafe, HeldIsUsed, HasIn
  <2> QED
    BY <2>1, HolderNone, OwnersHold
<1>3. ASSUME NEW c \in Call, NEW a \in Api, Owners[a] = c
      PROVE  HasIn(pc, held, torn, c, a)
  <2>1. Owners[a] = Holder(pc, held, torn, a) /\ c # NoCall
    BY OwnersHold, ApiPoolAssumption DEF ApiPoolAssumption
  <2>2. PICK d \in Call : HasIn(pc, held, torn, d, a)
    BY <1>3, <2>1 DEF Holder
  <2>3. Owners[a] = d
    BY <1>1, <2>2
  <2> QED
    BY <1>3, <2>2, <2>3
<1> QED
  BY <1>1, <1>2, <1>3, UsersPoint

LEMMA OwnersKept ==
    ASSUME LeaseSafe,
           \A a \in Api, d \in Call :
              HasIn(pc, held, torn, d, a) <=> HasIn(pc', held', torn', d, a)
    PROVE  Owners' = Owners
<1>1. ASSUME NEW a \in Api PROVE Holder(pc, held, torn, a) = Holder(pc', held', torn', a)
  BY OneHas, HolderSame
<1> QED
  BY <1>1, OwnersHold

LEMMA RetiredKept ==
    ASSUME UNCHANGED <<pool, half>>, \A a \in Api : api'[a].live = api[a].live
    PROVE  Retired' = Retired
BY DEF Retired, InCurrentPool, Current

(* A step that changes nothing of this is a stutter of ApiLease. *)
LEMMA LeaseStutter ==
    ASSUME Owners' = Owners, Retired' = Retired, torn' = torn
    PROVE  UNCHANGED Lease!leaseVars
BY DEF Lease!leaseVars, Owners, Retired

(* The owners after c took a, or a was taken from whoever had it. *)
LEMMA OwnersChange ==
    ASSUME LeaseSafe, NEW a \in Api, NEW o,
           \A b \in Api, d \in Call : b # a =>
              (HasIn(pc, held, torn, d, b) <=> HasIn(pc', held', torn', d, b)),
           \/ o \in Call /\ \A d \in Call : HasIn(pc', held', torn', d, a) <=> d = o
           \/ o = NoCall /\ \A d \in Call : ~HasIn(pc', held', torn', d, a)
    PROVE  Owners' = [Owners EXCEPT ![a] = o]
<1>1. ASSUME NEW b \in Api, b # a PROVE Owners'[b] = Owners[b]
  <2>1. Holder(pc, held, torn, b) = Holder(pc', held', torn', b)
    BY <1>1, OneHas, HolderSame
  <2> QED
    BY <2>1, OwnersHold
<1>2. Owners'[a] = o
  <2>1. Holder(pc', held', torn', a) = o
    BY HolderIs, HolderNone
  <2> QED
    BY <2>1, OwnersHold
<1> QED
  BY <1>1, <1>2, OwnersHold

(* A call that used none takes an api that nobody has; of a torn one ApiLease knows
   nothing.                                                                        *)
LEMMA Lends ==
    ASSUME TypeInv, LeaseSafe, NEW c \in Call, NEW a \in Api, pc[c] \notin Using,
           ~(api[a].live /\ api[a].used), a \notin Retired, Retired' = Retired, torn' = torn,
           pc' = [pc EXCEPT ![c] = "got"], held' = [held EXCEPT ![c] = a]
    PROVE  Lease!Lend(c, a) \/ UNCHANGED Lease!leaseVars
<1>1. Owners[a] = NoCall /\ \A b \in Api : Owners[b] # c
  BY OwnersAre DEF HasIn
<1>2. /\ pc'[c] \in Using /\ held'[c] = a
      /\ \A d \in Call : d # c => pc'[d] = pc[d] /\ held'[d] = held[d]
  BY DEF TypeInv, TypeOK, Using
<1>3. \A d \in Call : ~HasIn(pc, held, torn, d, a)
  BY DEF LeaseSafe, HeldIsUsed, HasIn
<1>4. \A b \in Api, d \in Call : b # a =>
         (HasIn(pc, held, torn, d, b) <=> HasIn(pc', held', torn', d, b))
  BY <1>2 DEF HasIn
<1>5. CASE a \notin torn
  <2>1. \A d \in Call : HasIn(pc', held', torn', d, a) <=> d = c
    BY <1>2, <1>3, <1>5 DEF HasIn
  <2>2. Owners' = [Owners EXCEPT ![a] = c]
    BY <1>4, <2>1, OwnersChange
  <2> QED
    BY <1>1, <1>5, <2>2 DEF Lease!Lend, Owners, Retired
<1>6. CASE a \in torn
  <2>1. \A d \in Call : ~HasIn(pc', held', torn', d, a)
    BY <1>6 DEF HasIn
  <2>2. Owners' = Owners
    BY <1>3, <1>4, <2>1, OwnersKept
  <2> QED
    BY <2>2, LeaseStutter
<1> QED
  BY <1>5, <1>6

LEMMA PickLends ==
    ASSUME TypeInv, PoolInv, LeaseSafe, NEW c \in Call, Pick(c) \/ PickLastIdc(c)
    PROVE  (\E a \in Api : Lease!Lend(c, a)) \/ UNCHANGED Lease!leaseVars
<1>1. /\ site[c] \in Site /\ TakeFreeOrGrow(c) /\ UNCHANGED <<pool, half, torn>>
      /\ pc[c] = "pick" /\ TypeOK
  BY PickStep DEF Pick, PickLastIdc, TypeInv
<1>2. CASE FreeSlots(Current(site[c])) = {}
  <2>1. api' = api /\ held' = held /\ pc' = [pc EXCEPT ![c] = "readidc"]
    BY <1>1, <1>2 DEF TakeFreeOrGrow, Goto
  <2>2. \A d \in Call : pc'[d] \in Using <=> pc[d] \in Using
    BY <1>1, <2>1 DEF TypeOK, Using
  <2>3. Owners' = Owners
    BY <1>1, <2>1, <2>2, OwnersKept DEF HasIn
  <2>4. Retired' = Retired
    BY <1>1, <2>1, RetiredKept
  <2> QED
    BY <1>1, <2>3, <2>4, LeaseStutter
<1>3. CASE FreeSlots(Current(site[c])) # {}
  <2>1. PICK i \in FreeSlots(Current(site[c])), tcpOk \in BOOLEAN :
            /\ api' = [api EXCEPT ![Current(site[c])[i]] = SetUsed(@, tcpOk)]
            /\ held' = [held EXCEPT ![c] = Current(site[c])[i]]
            /\ Goto(c, "got")
    BY <1>1, <1>3 DEF TakeFreeOrGrow
  <2> DEFINE a == Current(site[c])[i]
  <2>2. a \in Api /\ ~api[a].used /\ InCurrentPool(a)
    BY <1>1, PoolHalves, ElementOfSeq DEF FreeSlots, InCurrentPool
  <2>3. /\ api' = [api EXCEPT ![a] = SetUsed(api[a], tcpOk)]
        /\ held' = [held EXCEPT ![c] = a] /\ pc' = [pc EXCEPT ![c] = "got"]
    BY <2>1 DEF Goto
  <2> HIDE DEF a
  <2>4. \A b \in Api : api'[b].live = api[b].live
    <3>1. SetUsed(api[a], tcpOk).live = api[a].live
      BY <1>1, <2>2, UsedFields DEF TypeOK
    <3> QED
      BY <1>1, <2>2, <2>3, <3>1 DEF TypeOK
  <2>5. Retired' = Retired /\ a \notin Retired
    BY <1>1, <2>2, <2>4, RetiredKept DEF Retired
  <2>6. Lease!Lend(c, a) \/ UNCHANGED Lease!leaseVars
    BY <1>1, <2>2, <2>3, <2>5, Lends DEF Using
  <2> QED
    BY <2>2, <2>6
<1> QED
  BY <1>2, <1>3

(* A step of one call that neither starts nor stops using an api. *)
LEMMA OwnersQuiet ==
    ASSUME TypeOK, LeaseSafe, NEW c \in Call, NEW l, pc' = [pc EXCEPT ![c] = l], torn' = torn,
           l \in Using <=> pc[c] \in Using, pc[c] \in Using => held'[c] = held[c],
           \A d \in Call : d # c => held'[d] = held[d]
    PROVE  Owners' = Owners
<1>1. \A d \in Call : pc'[d] \in Using <=> pc[d] \in Using
  BY DEF TypeOK
<1>2. \A d \in Call : pc[d] \in Using => held'[d] = held[d]
  OBVIOUS
<1> QED
  BY <1>1, <1>2, OwnersKept DEF HasIn

(* The current vectors: the clean-up works on the other one, a switch swaps the two of
   its pool, and a new api is pushed to the current one.                         *)
LEMMA CleanUpCurrent ==
    ASSUME TypeInv, NEW c \in Call, Sweep(c) \/ Check(c)
    PROVE  \A r \in Site : Current(r)' = Current(r)
<1> DEFINE s == site[c]
           o == 1 - half[s]
<1>1. s \in Site /\ TypeOK /\ o \in {0, 1}
  <2>1. pc[c] # "idle" /\ TypeOK
    BY DEF TypeInv, Sweep, Check
  <2>2. s \in Site
    BY <2>1 DEF TypeInv, PointerInv
  <2> QED
    BY <2>1, <2>2, PoolHalves
<1>2. PICK seq : half' = half /\ (pool' = pool \/ pool' = [pool EXCEPT ![s][o] = seq])
  BY DEF Sweep, Check
<1>3. \A r \in Site : half[r] \in {0, 1} /\ ~(r = s /\ half[r] = o)
  BY <1>1 DEF TypeOK
<1> HIDE DEF s, o
<1>4. \A r \in Site, g \in {0, 1} : ~(r = s /\ g = o) => pool'[r][g] = pool[r][g]
  BY <1>1, <1>2, PoolHalves DEF Pools
<1> QED
  BY <1>2, <1>3, <1>4 DEF Current

LEMMA SwapCurrent ==
    ASSUME TypeInv, PoolInv, NEW c \in Call, Swap(c)
    PROVE  \A r \in Site : Current(r)' = IF r = site[c] THEN <<>> ELSE Current(r)
<1>1. site[c] \in Site /\ TypeOK
  BY DEF TypeInv, PointerInv, Swap
<1>2. Old(site[c]) = <<>>
  BY <1>1 DEF Swap, PoolInv, OldEmpty
<1> QED
  BY <1>1, <1>2 DEF Swap, Current, Old, TypeOK

LEMMA PushCurrent ==
    ASSUME TypeOK, NEW s \in Site, NEW a \in Api, half' = half,
           pool' = [pool EXCEPT ![s][half[s]] = Append(@, a)]
    PROVE  /\ \A r \in Site :
                 Current(r)' = IF r = s THEN Append(Current(s), a) ELSE Current(r)
           /\ Len(Current(s)) \in Nat /\ Len(Append(Current(s), a)) = Len(Current(s)) + 1
           /\ \A i \in 1..Len(Current(s)) : Append(Current(s), a)[i] = Current(s)[i]
           /\ Append(Current(s), a)[Len(Current(s)) + 1] = a
<1> DEFINE new == Append(Current(s), a)
<1>1. pool' = [pool EXCEPT ![s][half[s]] = new] /\ pool \in Pools
  BY PoolHalves DEF Current
<1>2. \A r \in Site : half[r] \in {0, 1}
  BY DEF TypeOK
<1>3. \A r \in Site, g \in {0, 1} :
         pool'[r][g] = IF r = s /\ g = half[s] THEN new ELSE pool[r][g]
  <2>1. PICK h \in {0, 1} : h = half[s]
    BY <1>2
  <2> HIDE DEF new
  <2>2. \A r \in Site, g \in {0, 1} : [pool EXCEPT ![s][h] = new][r][g]
                                         = IF r = s /\ g = h THEN new ELSE pool[r][g]
    BY <1>1 DEF Pools
  <2> QED
    BY <1>1, <2>1, <2>2
<1>4. \A r \in Site : Current(r)' = IF r = s THEN new ELSE Current(r)
  <2> HIDE DEF new
  <2> QED
    BY <1>2, <1>3 DEF Current
<1> QED
  BY <1>4, PoolHalves, AppendProperties

LEMMA CurrentSame ==
    ASSUME \A r \in Site : Current(r)' = Current(r)
    PROVE  \A a \in Api : InCurrentPool(a)' <=> InCurrentPool(a)
BY DEF InCurrentPool

(* The apis of the vector that is not current are retired. *)
LEMMA OldRetired ==
    ASSUME TypeInv, PoolInv, NEW s \in Site, NEW i \in 1..Len(Old(s)), Old(s)[i] # NoApi
    PROVE  Old(s)[i] \in Retired
<1> DEFINE a == Old(s)[i]
           o == 1 - half[s]
<1>1. TypeOK /\ o \in {0, 1} /\ Old(s) = pool[s][o]
  BY PoolHalves DEF TypeInv, Old
<1>2. a \in Api /\ api[a].live
  BY <1>1, SlotType DEF PoolInv, SlotsLive
<1>3. ASSUME NEW r \in Site, NEW j \in 1..Len(Current(r)), Current(r)[j] = a PROVE FALSE
  <2>1. Current(r) = pool[r][half[r]] /\ half[r] \in {0, 1} /\ half[s] \in {0, 1}
    BY <1>1 DEF Current, TypeOK
  <2>2. r = s /\ half[r] = o
    BY SMTT(30), <1>1, <1>3, <2>1 DEF PoolInv, OneSlotEach
  <2> QED
    BY <2>1, <2>2
<1> QED
  BY <1>2, <1>3 DEF Retired, InCurrentPool

(* The clean-up deletes retired apis that nobody has. *)
LEMMA SweepDisposes ==
    ASSUME TypeInv, PoolInv, LeaseSafe, NEW c \in Call, Sweep(c)
    PROVE  \E apis \in SUBSET Api : Lease!Dispose(apis)
<1> DEFINE s == site[c]
           apis == {Old(s)[i] : i \in FreeSlots(Old(s))}
<1>1. s \in Site /\ TypeOK
  BY DEF TypeInv, PointerInv, Sweep
<1>2. \A r \in Site : Current(r)' = Current(r)
  BY CleanUpCurrent
<1>3. apis \subseteq Retired /\ \A a \in apis : ~api[a].used
  BY <1>1, OldRetired DEF FreeSlots
<1>4. \A a \in Api : api'[a] = IF a \in apis THEN Deleted(api[a]) ELSE api[a]
  BY DEF Sweep
<1>5. Owners' = Owners
  <2>1. pc' = [pc EXCEPT ![c] = "check"] /\ held' = held /\ pc[c] = "sweep" /\ torn' = torn
    BY DEF Sweep, Goto
  <2> QED
    BY <1>1, <2>1, OwnersQuiet DEF Using
<1> HIDE DEF s, apis
<1>6. Retired' = Retired \ apis
  <2>1. \A a \in Api : api[a] \in ApiObject /\ ~Deleted(api[a]).live
    BY <1>1 DEF Deleted, ApiObject, TypeOK
  <2>2. \A a \in Api : InCurrentPool(a)' <=> InCurrentPool(a)
    BY <1>2, CurrentSame
  <2> QED
    BY <1>4, <2>1, <2>2 DEF Retired
<1>7. apis \in SUBSET Api /\ \A a \in apis : Owners[a] = NoCall
  <2>1. apis \in SUBSET Api
    BY <1>3 DEF Retired
  <2> QED
    BY <1>3, <2>1, OwnersAre
<1>8. PICK gone \in SUBSET Api : gone = apis
  BY <1>7
<1>9. Lease!Dispose(gone)
  <2>1. torn' = torn
    BY DEF Sweep
  <2> QED
    BY <2>1, <1>3, <1>5, <1>6, <1>7, <1>8 DEF Lease!Dispose, Owners, Retired
<1> QED
  BY <1>9

(* A switch retires the apis of the vector that was current. *)
LEMMA SwapRetires ==
    ASSUME TypeInv, PoolInv, LeaseSafe, NEW c \in Call, Swap(c)
    PROVE  \E apis \in SUBSET Api : Lease!Retire(apis)
<1> DEFINE s == site[c]
           apis == {Current(s)[i] : i \in 1..Len(Current(s))}
<1>1. s \in Site /\ TypeOK
  BY DEF TypeInv, PointerInv, Swap
<1>2. api' = api
  BY DEF Swap
<1>4. Owners' = Owners
  <2>1. pc' = [pc EXCEPT ![c] = "advance"] /\ held' = held /\ pc[c] = "pick" /\ torn' = torn
    BY DEF Swap, Goto
  <2> QED
    BY <1>1, <2>1, OwnersQuiet DEF Using
<1>5. \A r \in Site : Current(r)' = IF r = s THEN <<>> ELSE Current(r)
  BY SwapCurrent
<1> HIDE DEF s
<1>6. ASSUME NEW i \in 1..Len(Current(s))
      PROVE  /\ Current(s)[i] \in Api /\ api[Current(s)[i]].live
             /\ \A r \in Site : \A j \in 1..Len(Current(r)) :
                   Current(r)[j] = Current(s)[i] => r = s
  <2>1. \A r \in Site : Current(r) = pool[r][half[r]] /\ half[r] \in {0, 1}
    BY <1>1 DEF Current, TypeOK
  <2>2. Current(s)[i] # NoApi
    BY <1>1 DEF PoolInv, CurrentFull
  <2>3. Current(s)[i] \in Api /\ api[Current(s)[i]].live
    BY <1>1, <2>1, <2>2, SlotType DEF PoolInv, SlotsLive
  <2>4. ASSUME NEW r \in Site, NEW j \in 1..Len(Current(r)), Current(r)[j] = Current(s)[i]
        PROVE  r = s
    BY SMTT(30), <1>1, <2>1, <2>2, <2>4 DEF PoolInv, OneSlotEach
  <2> QED
    BY <2>3, <2>4
<1>7. ASSUME NEW a \in Api
      PROVE  InCurrentPool(a)' <=> InCurrentPool(a) /\ a \notin apis
  <2>1. 1..Len(<<>>) = {}
    OBVIOUS
  <2>2. InCurrentPool(a)' <=> \E r \in Site : r # s /\ \E i \in 1..Len(Current(r)) : Current(r)[i] = a
    BY <1>5, <2>1 DEF InCurrentPool
  <2>3. InCurrentPool(a) /\ a \notin apis
           <=> \E r \in Site : r # s /\ \E i \in 1..Len(Current(r)) : Current(r)[i] = a
    BY <1>1, <1>6 DEF InCurrentPool
  <2> QED
    BY <2>2, <2>3
<1>8. apis \subseteq Api /\ \A a \in apis : api[a].live
  BY <1>6
<1> HIDE DEF apis
<1>9. Retired' = Retired \cup apis
  BY <1>2, <1>7, <1>8 DEF Retired
<1>10. PICK left \in SUBSET Api : left = apis
  BY <1>8
<1>11. Lease!Retire(left)
  <2>1. torn' = torn
    BY DEF Swap
  <2> QED
    BY <2>1, <1>4, <1>9, <1>10 DEF Lease!Retire, Owners, Retired
<1> QED
  BY <1>11

(* The drained vector is cleared: what it held stays retired. *)
LEMMA CheckKeeps ==
    ASSUME TypeInv, LeaseSafe, NEW c \in Call, Check(c)
    PROVE  UNCHANGED Lease!leaseVars
<1>1. TypeOK
  BY DEF TypeInv
<1>2. \A r \in Site : Current(r)' = Current(r)
  BY CleanUpCurrent
<1>3. Owners' = Owners
  <2>1. pc' = [pc EXCEPT ![c] = "pick"] /\ held' = held /\ pc[c] = "check" /\ torn' = torn
    BY DEF Check, Goto
  <2> QED
    BY <1>1, <2>1, OwnersQuiet DEF Using
<1>4. Retired' = Retired
  <2>1. api' = api /\ \A a \in Api : InCurrentPool(a)' <=> InCurrentPool(a)
    BY <1>2, CurrentSame DEF Check
  <2> QED
    BY <2>1 DEF Retired
<1> QED
  BY <1>3, <1>4, LeaseStutter DEF Check

(* A new api goes to the current pool, and to the call. *)
LEMMA CreateLends ==
    ASSUME TypeInv, LeaseSafe, NEW c \in Call, Create(c)
    PROVE  (\E a \in Api : Lease!Lend(c, a)) \/ UNCHANGED Lease!leaseVars
<1> DEFINE s == site[c]
           n == Len(Current(s))
<1>1. s \in Site /\ TypeOK /\ pc[c] = "create"
  BY DEF TypeInv, PointerInv, Create
<1>2. PICK a \in Api :
          /\ ~api[a].live
          /\ api' = [api EXCEPT ![a] = NewApi(idc[c])]
          /\ pool' = [pool EXCEPT ![s][half[s]] = Append(@, a)]
          /\ held' = [held EXCEPT ![c] = a]
  BY DEF Create
<1> DEFINE new == Append(Current(s), a)
<1>4. half' = half /\ pc' = [pc EXCEPT ![c] = "got"] /\ torn' = torn
  BY DEF Create, Goto
<1>5. /\ \A r \in Site : Current(r)' = IF r = s THEN new ELSE Current(r)
      /\ n \in Nat /\ Len(new) = n + 1
      /\ (\A i \in 1..n : new[i] = Current(s)[i]) /\ new[n + 1] = a
  <2> HIDE DEF s
  <2> QED
    BY <1>1, <1>2, <1>4, PushCurrent
<1>6. api'[a].live /\ \A b \in Api : b # a => api'[b] = api[b]
  BY <1>1, <1>2 DEF NewApi, TypeOK
<1> HIDE DEF s, new
<1>7. ASSUME NEW b \in Api, b # a PROVE InCurrentPool(b)' <=> InCurrentPool(b)
  <2>1. (\E i \in 1..Len(new) : new[i] = b) <=> (\E i \in 1..n : Current(s)[i] = b)
    BY <1>5, <1>7
  <2>2. \A r \in Site : (\E i \in 1..Len(Current(r)') : Current(r)'[i] = b)
                           <=> (\E i \in 1..Len(Current(r)) : Current(r)[i] = b)
    BY <1>5, <2>1
  <2> QED
    BY <2>2 DEF InCurrentPool
<1>8. InCurrentPool(a)'
  <2>1. n + 1 \in 1..Len(new) /\ new[n + 1] = a
    BY <1>5
  <2> QED
    BY <1>1, <1>5, <2>1 DEF InCurrentPool
<1>9. a \notin Retired /\ Retired' = Retired
  BY <1>2, <1>6, <1>7, <1>8 DEF Retired
<1>10. Lease!Lend(c, a) \/ UNCHANGED Lease!leaseVars
  BY <1>1, <1>2, <1>4, <1>9, Lends DEF Using
<1> QED
  BY <1>10

(* A store through the pointer of a call keeps every api alive. *)
LEMMA StoreLive ==
    ASSUME TypeOK, NEW a \in Api, NEW o, Store(a, o), o.live = api[a].live
    PROVE  \A b \in Api : api'[b].live = api[b].live
BY DEF Store, TypeOK

LEMMA SendKeeps ==
    ASSUME TypeInv, LeaseSafe, NEW c \in Call, Send(c)
    PROVE  UNCHANGED Lease!leaseVars
<1>1. held[c] \in Api /\ api[held[c]] \in ApiObject /\ pc[c] = "got" /\ TypeOK
  BY DEF TypeInv, TypeOK, PointerInv, Pointing, After, Using, Send
<1>2. Store(held[c], Sent(api[held[c]], c)) /\ held' = held /\ pc' = [pc EXCEPT ![c] = "waiting"]
      /\ UNCHANGED <<pool, half, torn>>
  BY DEF Send, Goto, poolVars
<1>3. Sent(api[held[c]], c).live = api[held[c]].live
  BY <1>1, WireFields
<1>4. \A b \in Api : api'[b].live = api[b].live
  BY <1>1, <1>2, <1>3, StoreLive
<1>5. Owners' = Owners
  BY <1>1, <1>2, OwnersQuiet DEF Using
<1> QED
  BY <1>2, <1>4, <1>5, RetiredKept, LeaseStutter

(* The answer came, or the call failed: the call gives back what it has, unless it is
   torn.                                                                          *)
LEMMA UseGivesBack ==
    ASSUME TypeInv, LeaseSafe, NEW c \in Call, Receive(c) \/ Fail(c)
    PROVE  (\E a \in Api : Lease!GiveBack(c, a)) \/ UNCHANGED Lease!leaseVars
<1>1. /\ held[c] \in Api /\ api[held[c]] \in ApiObject /\ idc[c] \in Idcs
      /\ pc[c] \in Using /\ TypeOK
  BY DEF TypeInv, TypeOK, PointerInv, Pointing, Using, Receive, Fail
<1>2. PICK a \in Api : a = held[c]
  BY <1>1
<1>3. PICK o : Store(a, o) /\ o.live = api[a].live
  <2>1. CASE Receive(c)
    <3>1. Answered(api[a]) \in ApiObject /\ Answered(api[a]).live = api[a].live
      BY <1>1, <1>2, ApiObjectOps, WireFields
    <3>2. SetFree(Answered(api[a]), ~KeepsConnection(site[c])).live = api[a].live
      BY <3>1, FreeFields
    <3> QED
      BY <1>2, <2>1, <3>2 DEF Receive
  <2>2. CASE Fail(c)
    <3>1. SetFree(api[a], TRUE).live = api[a].live
      BY <1>1, <1>2, CloseFields
    <3> QED
      BY <1>2, <2>2, <3>1 DEF Fail
  <2> QED
    BY <2>1, <2>2
<1>4. \A b \in Api : api'[b].live = api[b].live
  BY <1>1, <1>3, StoreLive
<1>5. Retired' = Retired
  BY <1>4, RetiredKept DEF Receive, Fail, poolVars
<1>6. /\ pc'[c] \notin Using /\ torn' = torn
      /\ \A d \in Call : d # c => pc'[d] = pc[d] /\ held'[d] = held[d]
  BY <1>1 DEF Receive, Fail, Goto, Using, TypeOK
<1>7. \A b \in Api, d \in Call : b # a =>
         (HasIn(pc, held, torn, d, b) <=> HasIn(pc', held', torn', d, b))
  BY <1>2, <1>6 DEF HasIn
<1>8. CASE a \notin torn
  <2>1. HasIn(pc, held, torn, c, a)
    BY <1>1, <1>2, <1>8 DEF HasIn
  <2>2. \A d \in Call : ~HasIn(pc', held', torn', d, a)
    BY <1>6, <2>1, OneHas DEF HasIn
  <2>3. Owners' = [Owners EXCEPT ![a] = NoCall]
    BY <1>7, <2>2, OwnersChange
  <2>4. Owners[a] = c
    BY <2>1, OwnersAre
  <2>5. Lease!GiveBack(c, a)
    BY <1>5, <1>6, <2>3, <2>4 DEF Lease!GiveBack, Owners, Retired
  <2> QED
    BY <2>5
<1>9. CASE a \in torn
  <2>1. \A d \in Call : HasIn(pc, held, torn, d, a) <=> HasIn(pc', held', torn', d, a)
    BY <1>6, <1>9 DEF HasIn
  <2>2. Owners' = Owners
    BY <1>7, <2>1, OwnersKept
  <2> QED
    BY <1>5, <1>6, <2>2, LeaseStutter
<1> QED
  BY <1>8, <1>9

(* A second release spoils the api of another call, or changes nothing that ApiLease
   knows of.                                                                        *)
LEMMA FreeAgainSpoils ==
    ASSUME TypeInv, LeaseSafe, NEW c \in Call, FreeAgain(c)
    PROVE  (\E a \in Api : Lease!Spoil(a)) \/ UNCHANGED Lease!leaseVars
<1>1. /\ held[c] \in Api /\ api[held[c]] \in ApiObject /\ pc[c] = "caught" /\ TypeOK
  BY DEF TypeInv, TypeOK, PointerInv, Pointing, After, FreeAgain
<1>2. PICK a \in Api : a = held[c]
  BY <1>1
<1>3. \A b \in Api : api'[b].live = api[b].live
  <2>1. Store(a, SetFree(api[a], TRUE)) /\ SetFree(api[a], TRUE).live = api[a].live
    BY <1>1, <1>2, CloseFields DEF FreeAgain
  <2> QED
    BY <1>1, <2>1, StoreLive
<1>4. Retired' = Retired
  BY <1>3, RetiredKept DEF FreeAgain, poolVars
<1>5. /\ pc[c] \notin Using /\ pc'[c] \notin Using
      /\ \A d \in Call : d # c => pc'[d] = pc[d] /\ held'[d] = held[d]
  BY <1>1 DEF FreeAgain, Goto, Using, TypeOK
<1>6. CASE torn' = torn
  <2>1. \A b \in Api, d \in Call :
           HasIn(pc, held, torn, d, b) <=> HasIn(pc', held', torn', d, b)
    BY <1>5, <1>6 DEF HasIn
  <2> QED
    BY <1>4, <1>6, <2>1, OwnersKept, LeaseStutter
<1>7. CASE torn' # torn
  <2>1. torn' = torn \cup {a} /\ a \notin torn /\ api[a].live /\ api[a].used
    BY <1>2, <1>7 DEF FreeAgain
  <2>2. PICK d \in Call : HasIn(pc, held, torn, d, a)
    BY <2>1 DEF LeaseSafe, UsedIsHeld, HasIn
  <2>3. Owners[a] # NoCall
    BY <2>2, OwnersAre, ApiPoolAssumption
  <2>4. \A b \in Api, e \in Call : b # a =>
           (HasIn(pc, held, torn, e, b) <=> HasIn(pc', held', torn', e, b))
    BY <1>5, <2>1 DEF HasIn
  <2>5. \A e \in Call : ~HasIn(pc', held', torn', e, a)
    BY <2>1 DEF HasIn
  <2>6. Owners' = [Owners EXCEPT ![a] = NoCall]
    BY <2>4, <2>5, OwnersChange
  <2>7. Lease!Spoil(a)
    BY <1>4, <2>1, <2>3, <2>6 DEF Lease!Spoil, Owners, Retired
  <2> QED
    BY <2>7
<1> QED
  BY <1>6, <1>7

(* The steps that neither lend an api nor write one or a vector. *)
LEMMA QuietKeeps ==
    ASSUME TypeInv, LeaseSafe, NEW c \in Call,
           \/ SwitchBusy(c) \/ AdvanceIdc(c) \/ ReadIdc(c) \/ CreateThrows(c) \/ Reply(c)
           \/ LookUpThrows(c) \/ AddThrows(c) \/ WriteError(c) \/ TrySwitch(c)
           \/ SetSwitchOn(c) \/ \E s \in Site : Lock(c, s)
    PROVE  UNCHANGED Lease!leaseVars
<1>1. UNCHANGED <<api, pool, half, torn>>
  BY DEF SwitchBusy, AdvanceIdc, ReadIdc, CreateThrows, Reply, WriteError, TrySwitch,
         SetSwitchOn, LookUpThrows, AddThrows, Lock, poolVars
<1>2. /\ pc[c] \notin Using /\ pc'[c] \notin Using
      /\ \A d \in Call : d # c => pc'[d] = pc[d] /\ held'[d] = held[d]
  BY DEF SwitchBusy, AdvanceIdc, ReadIdc, CreateThrows, Reply, WriteError, TrySwitch,
         SetSwitchOn, LookUpThrows, AddThrows, Lock, Throw, Done, Goto, Using, TypeInv, TypeOK
<1>3. \A b \in Api, d \in Call :
         HasIn(pc, held, torn, d, b) <=> HasIn(pc', held', torn', d, b)
  BY <1>1, <1>2 DEF HasIn
<1>4. Owners' = Owners
  BY <1>3, OwnersKept
<1>5. Retired' = Retired
  BY <1>1, RetiredKept
<1> QED
  BY <1>1, <1>4, <1>5, LeaseStutter

LEMMA NextLends ==
    ASSUME TypeInv, PoolInv, LeaseSafe, [Next]_vars
    PROVE  [Lease!LeaseNext]_(Lease!leaseVars)
<1>1. CASE UNCHANGED vars
  <2>1. UNCHANGED <<api, pool, half, pc, held, torn>>
    BY <1>1 DEF vars, poolVars, callVars
  <2> QED
    BY <2>1, RetiredKept, OwnersKept, LeaseStutter DEF HasIn
<1>2. ASSUME NEW c \in Call, Get(c) \/ Use(c) \/ \E s \in Site : Lock(c, s)
      PROVE  [Lease!LeaseNext]_(Lease!leaseVars)
  <2>1. CASE Sweep(c)
    BY <2>1, SweepDisposes DEF Lease!LeaseNext
  <2>2. CASE Check(c)
    BY <2>2, CheckKeeps
  <2>3. CASE Pick(c) \/ PickLastIdc(c)
    BY <2>3, PickLends DEF Lease!LeaseNext
  <2>4. CASE Swap(c)
    BY <2>4, SwapRetires DEF Lease!LeaseNext
  <2>5. CASE Create(c)
    BY <2>5, CreateLends DEF Lease!LeaseNext
  <2>6. CASE Send(c)
    BY <2>6, SendKeeps
  <2>7. CASE Receive(c) \/ Fail(c)
    BY <2>7, UseGivesBack DEF Lease!LeaseNext
  <2>8. CASE \/ SwitchBusy(c) \/ AdvanceIdc(c) \/ ReadIdc(c) \/ CreateThrows(c) \/ Reply(c)
             \/ LookUpThrows(c) \/ AddThrows(c) \/ WriteError(c) \/ TrySwitch(c)
             \/ SetSwitchOn(c) \/ \E s \in Site : Lock(c, s)
    BY <2>8, QuietKeeps
  <2>9. CASE FreeAgain(c)
    BY <2>9, FreeAgainSpoils DEF Lease!LeaseNext
  <2> QED
    BY <1>2, <2>1, <2>2, <2>3, <2>4, <2>5, <2>6, <2>7, <2>8, <2>9 DEF Get, Use
<1>3. CASE Reload
  <2>1. UNCHANGED <<api, pool, half, pc, held, torn>>
    BY <1>3 DEF Reload, ReloadClear, ReloadRead, ReloadHasite, poolVars, callVars
  <2> QED
    BY <2>1, RetiredKept, OwnersKept, LeaseStutter DEF HasIn
<1> QED
  BY <1>1, <1>2, <1>3 DEF Next

LEMMA InitLends == Init => Lease!LeaseInit
<1> SUFFICES ASSUME Init PROVE Lease!LeaseInit
  OBVIOUS
<1>1. Owners = [a \in Api |-> NoCall]
  <2>1. \A a \in Api, d \in Call : ~HasIn(pc, held, torn, d, a)
    BY DEF Init, Using, HasIn
  <2>2. \A a \in Api : Holder(pc, held, torn, a) = NoCall
    BY <2>1, HolderNone
  <2> QED
    BY <2>2, OwnersHold
<1>2. Retired = {} /\ torn = {}
  BY DEF Init, Retired
<1> QED
  BY <1>1, <1>2 DEF Lease!LeaseInit, Owners, Retired

(* The pools keep the promise of ApiLease: an api is lent to one call at a time and only by
   taking it from the current vector, a switch retires those that are lent as well, and the
   clean-up deletes what is retired and nobody has, although apis are given back without
   the lock of the pool, whatever is reloaded and whatever fails. The promise ends for an
   api that another call gave back a second time, for that one alone
   (api_pool.cpp:188-352, api_base.cpp:183, relay_server.cpp:786).                 *)
THEOREM ImplementsLeases == Spec => ImplementsLease
<1>1. TypeInv /\ PoolInv /\ LeaseSafe /\ [Next]_vars => [Lease!LeaseNext]_(Lease!leaseVars)
  BY NextLends
<1> QED
  BY <1>1, InitLends, SpecPoolInv, LeaseStaysSafe, PTL DEF Spec, ImplementsLease, Lease!LeaseSpec

----------------------------------------------------------------------------
(* Without a reload, and with a pool for each server, what is lent is of the current IDC. *)

OnePoolEach == \A s, r \in Site : ServerOf[s] = ServerOf[r] => s = r

(* No reload is under way, and none is to come. *)
NoReload == reload = [step |-> "none", left |-> 0]

LEMMA SpecNoReload == Spec /\ Reloads = 0 => []NoReload
<1>1. Init /\ Reloads = 0 => NoReload
  BY DEF Init, NoReload
<1>2. NoReload /\ [Next]_vars => NoReload'
  <2> SUFFICES ASSUME NoReload, [Next]_vars PROVE reload' = reload
    BY DEF NoReload
  <2>1. CASE UNCHANGED vars
    BY <2>1 DEF vars
  <2>2. ASSUME NEW c \in Call, Get(c) PROVE reload' = reload
    BY <2>2 DEF Get, Sweep, Check, Pick, PickLastIdc, SwitchBusy, Swap, AdvanceIdc, ReadIdc,
                Create, CreateThrows
  <2>3. ASSUME NEW c \in Call, Use(c) PROVE reload' = reload
    BY <2>3 DEF Use, Send, Receive, Fail, Reply, LookUpThrows, AddThrows, FreeAgain,
                WriteError, TrySwitch, SetSwitchOn
  <2>4. ASSUME NEW c \in Call, NEW s \in Site, Lock(c, s) PROVE reload' = reload
    BY <2>4 DEF Lock
  <2>5. ~Reload
    BY DEF NoReload, Reload, ReloadClear, ReloadRead, ReloadHasite
  <2> QED
    BY <2>1, <2>2, <2>3, <2>4, <2>5 DEF Next
<1> QED
  BY <1>1, <1>2, PTL DEF Spec

(* The current vector holds apis of the current IDC; it is empty while the switch has
   swapped the vectors and not yet moved the server on.                         *)
IdcInv ==
    /\ \A s \in Site : \A i \in 1..Len(Current(s)) :
          api[Current(s)[i]].idc = cur[ServerOf[s]]
    /\ \A c \in Call : pc[c] = "create" => idc[c] = cur[ServerOf[site[c]]]
    /\ \A c \in Call : pc[c] = "advance" => Current(site[c]) = <<>>

LEMMA CurrentSlots ==
    ASSUME TypeInv, PoolInv, NEW s \in Site, NEW i \in 1..Len(Current(s))
    PROVE  Current(s)[i] \in Api /\ api[Current(s)[i]].live
<1>1. TypeOK /\ Current(s) = pool[s][half[s]] /\ half[s] \in {0, 1}
  BY DEF TypeInv, TypeOK, Current
<1>2. Current(s)[i] # NoApi
  BY DEF PoolInv, CurrentFull
<1> QED
  BY <1>1, <1>2, SlotType DEF PoolInv, SlotsLive

(* A step that moves no server on and pushes to no current vector. *)
LEMMA IdcKept ==
    ASSUME TypeInv, PoolInv, IdcInv, cur' = cur,
           \A a \in Api : api'[a].idc = api[a].idc,
           \A s \in Site : Current(s)' = Current(s),
           \A d \in Call : pc'[d] \in {"create", "advance"} =>
               pc'[d] = pc[d] /\ site'[d] = site[d] /\ idc'[d] = idc[d]
    PROVE  IdcInv'
<1>1. \A s \in Site : \A i \in 1..Len(Current(s)) : api'[Current(s)[i]].idc = cur'[ServerOf[s]]
  BY CurrentSlots DEF IdcInv
<1>2. \A d \in Call : pc'[d] = "create" => idc'[d] = cur'[ServerOf[site'[d]]]
  BY DEF IdcInv
<1>3. \A d \in Call : pc'[d] = "advance" => Current(site[d])' = <<>> /\ site'[d] = site[d]
  BY DEF IdcInv, TypeInv, PointerInv
<1> QED
  BY <1>1, <1>2, <1>3 DEF IdcInv, Current

(* The steps of the clean-up and of taking a free api. *)
LEMMA TakeIdc ==
    ASSUME TypeInv, PoolInv, IdcInv, NEW c \in Call,
           Sweep(c) \/ Check(c) \/ Pick(c) \/ PickLastIdc(c)
    PROVE  IdcInv'
<1>1. TypeOK /\ cur' = cur
  BY DEF TypeInv, Sweep, Check, Pick, PickLastIdc
<1>2. \A a \in Api : api[a] \in ApiObject
  BY <1>1 DEF TypeOK
<1>3. \A d \in Call : pc'[d] \in {"create", "advance"} =>
         pc'[d] = pc[d] /\ site'[d] = site[d] /\ idc'[d] = idc[d]
  BY <1>1 DEF Sweep, Check, Pick, PickLastIdc, TakeFreeOrGrow, Goto, TypeOK
<1>4. CASE Sweep(c) \/ Check(c)
  <2>1. \A a \in Api : api'[a] = api[a] \/ api'[a] = Deleted(api[a])
    BY <1>4 DEF Sweep, Check
  <2>2. \A a \in Api : api'[a].idc = api[a].idc
    <3>1. \A a \in Api : Deleted(api[a]).idc = api[a].idc
      BY <1>2 DEF Deleted, ApiObject
    <3> QED
      BY <2>1, <3>1
  <2> QED
    BY <1>1, <1>3, <1>4, <2>2, CleanUpCurrent, IdcKept
<1>5. CASE Pick(c) \/ PickLastIdc(c)
  <2>1. UNCHANGED <<pool, half>> /\ site[c] \in Site /\ TakeFreeOrGrow(c)
    BY <1>5, PickStep
  <2>2. \A s \in Site : Current(s)' = Current(s)
    BY <2>1 DEF Current
  <2>3. ASSUME NEW a \in Api PROVE api'[a].idc = api[a].idc
    <3>1. CASE api' = api
      BY <3>1
    <3>2. ASSUME NEW i \in FreeSlots(Current(site[c])), NEW tcpOk \in BOOLEAN,
                 api' = [api EXCEPT ![Current(site[c])[i]] = SetUsed(@, tcpOk)]
          PROVE  api'[a].idc = api[a].idc
      <4>1. api'[a] = api[a] \/ api'[a] = SetUsed(api[a], tcpOk)
        BY <1>1, <3>2 DEF TypeOK
      <4>2. SetUsed(api[a], tcpOk).idc = api[a].idc
        BY <1>2 DEF SetUsed, Fini, ApiObject
      <4> QED
        BY <4>1, <4>2
    <3> QED
      BY <2>1, <3>1, <3>2 DEF TakeFreeOrGrow
  <2> QED
    BY <1>1, <1>3, <2>2, <2>3, IdcKept
<1> QED
  BY <1>4, <1>5

(* The vectors are swapped, then the server moves on: no api of the pool is current in
   between, and no other pool is of that server.                                *)
LEMMA SwapIdc ==
    ASSUME TypeInv, PoolInv, IdcInv, NEW c \in Call, Swap(c)
    PROVE  IdcInv'
<1>1. TypeOK /\ api' = api /\ cur' = cur /\ site' = site /\ idc' = idc
  BY DEF TypeInv, Swap
<1>2. \A r \in Site : Current(r)' = IF r = site[c] THEN <<>> ELSE Current(r)
  BY SwapCurrent
<1>3. \A s \in Site : \A i \in 1..Len(Current(s)') :
         i \in 1..Len(Current(s)) /\ Current(s)'[i] = Current(s)[i]
  BY <1>2
<1>4. \A d \in Call : d # c => pc'[d] = pc[d]
  BY <1>1 DEF Swap, Goto, TypeOK
<1>5. pc'[c] = "advance"
  BY <1>1 DEF Swap, Goto, TypeOK
<1>6. \A d \in Call : pc[d] # "idle" => site[d] \in Site
  BY DEF TypeInv, PointerInv
<1>7. \A s \in Site : \A i \in 1..Len(Current(s)') : api'[Current(s)'[i]].idc = cur'[ServerOf[s]]
  BY <1>1, <1>3 DEF IdcInv
<1>8. \A d \in Call : pc'[d] = "create" => idc'[d] = cur'[ServerOf[site'[d]]]
  BY <1>1, <1>4, <1>5 DEF IdcInv
<1>9. ASSUME NEW d \in Call, pc'[d] = "advance" PROVE Current(site[d])' = <<>>
  <2>1. site[d] \in Site
    BY <1>4, <1>6, <1>9 DEF Swap
  <2>2. d = c \/ Current(site[d]) = <<>>
    BY <1>4, <1>9 DEF IdcInv
  <2>3. \A r \in Site : (r = site[c] \/ Current(r) = <<>>) => Current(r)' = <<>>
    BY <1>2
  <2> QED
    BY <1>1, <2>1, <2>2, <2>3 DEF Current
<1> QED
  BY <1>7, <1>8, <1>9, <1>1 DEF IdcInv, Current

LEMMA AdvanceIdcIdc ==
    ASSUME TypeInv, IdcInv, OnePoolEach, NEW c \in Call, AdvanceIdc(c)
    PROVE  IdcInv'
<1> DEFINE s == site[c]
<1>1. /\ TypeOK /\ s \in Site /\ lock[s] = c /\ Current(s) = <<>>
      /\ UNCHANGED <<api, pool, half, site, idc>>
  BY DEF TypeInv, PointerInv, InLock, IdcInv, AdvanceIdc
<1>2. \A r \in Site : r # s => cur'[ServerOf[r]] = cur[ServerOf[r]]
  BY <1>1, ApiPoolAssumption DEF AdvanceIdc, OnePoolEach, TypeOK, ApiPoolAssumption
<1>3. \A d \in Call : pc'[d] \in {"create", "advance"} =>
         pc'[d] = pc[d] /\ site[d] \in Site /\ site[d] # s
  BY <1>1 DEF AdvanceIdc, Goto, TypeInv, TypeOK, PointerInv, InLock
<1> HIDE DEF s
<1>4. \A r \in Site : Current(r)' = Current(r)
  BY <1>1 DEF Current
<1>5. \A r \in Site : \A i \in 1..Len(Current(r)) : api'[Current(r)[i]].idc = cur'[ServerOf[r]]
  BY <1>1, <1>2 DEF IdcInv
<1>6. \A d \in Call : pc'[d] = "create" => idc'[d] = cur'[ServerOf[site'[d]]]
  BY <1>1, <1>2, <1>3 DEF IdcInv
<1>7. \A d \in Call : pc'[d] = "advance" => Current(site[d]) = <<>>
  BY <1>3 DEF IdcInv
<1> QED
  BY <1>1, <1>4, <1>5, <1>6, <1>7 DEF IdcInv, Current

LEMMA ReadIdcIdc ==
    ASSUME TypeInv, IdcInv, NEW c \in Call, ReadIdc(c)
    PROVE  IdcInv'
<1>1. TypeOK /\ UNCHANGED <<api, pool, half, cur, site>>
  BY DEF TypeInv, ReadIdc, Throw, poolVars
<1>2. \A d \in Call : pc'[d] = "create" => idc'[d] = cur[ServerOf[site[d]]]
  <2> SUFFICES ASSUME NEW d \in Call, pc'[d] = "create" PROVE idc'[d] = cur[ServerOf[site[d]]]
    OBVIOUS
  <2>1. CASE d = c
    BY <1>1, <2>1 DEF ReadIdc, Throw, Goto, TypeOK
  <2>2. CASE d # c
    BY <1>1, <2>2 DEF ReadIdc, Throw, Goto, TypeOK, IdcInv
  <2> QED
    BY <2>1, <2>2
<1>3. \A d \in Call : pc'[d] = "advance" => pc[d] = "advance"
  BY <1>1 DEF ReadIdc, Throw, Goto, TypeOK
<1>4. \A s \in Site : \A i \in 1..Len(Current(s)) : api'[Current(s)[i]].idc = cur'[ServerOf[s]]
  BY <1>1 DEF IdcInv
<1>5. \A d \in Call : pc'[d] = "advance" => Current(site[d]) = <<>>
  BY <1>3 DEF IdcInv
<1> QED
  BY <1>1, <1>2, <1>4, <1>5 DEF IdcInv, Current

(* A new api is of the IDC that was read under the same lock. *)
LEMMA CreateIdc ==
    ASSUME TypeInv, PoolInv, IdcInv, NEW c \in Call, Create(c)
    PROVE  IdcInv' /\ api'[held'[c]].idc = cur[ServerOf[site[c]]]
<1> DEFINE s == site[c]
           n == Len(Current(s))
<1>1. s \in Site /\ TypeOK /\ lock[s] = c /\ idc[c] = cur[ServerOf[s]]
  BY DEF TypeInv, PointerInv, InLock, Create, IdcInv
<1>2. PICK a \in Api :
          /\ ~api[a].live
          /\ api' = [api EXCEPT ![a] = NewApi(idc[c])]
          /\ pool' = [pool EXCEPT ![s][half[s]] = Append(@, a)]
          /\ held' = [held EXCEPT ![c] = a]
  BY DEF Create
<1> DEFINE new == Append(Current(s), a)
<1>3. UNCHANGED <<half, cur, site, idc>>
  BY DEF Create
<1>4. /\ \A r \in Site : Current(r)' = IF r = s THEN new ELSE Current(r)
      /\ n \in Nat /\ Len(new) = n + 1
      /\ (\A i \in 1..n : new[i] = Current(s)[i]) /\ new[n + 1] = a
  <2> HIDE DEF s
  <2> QED
    BY <1>1, <1>2, <1>3, PushCurrent
<1>5. /\ api'[a].idc = cur[ServerOf[s]] /\ held'[c] = a
      /\ \A b \in Api : b # a => api'[b] = api[b]
  BY <1>1, <1>2 DEF NewApi, TypeOK
<1>6. \A d \in Call : pc'[d] \in {"create", "advance"} =>
         pc'[d] = pc[d] /\ site[d] \in Site /\ site[d] # s
  BY <1>1 DEF Create, Goto, TypeInv, TypeOK, PointerInv, InLock
<1> HIDE DEF s, new
<1>7. ASSUME NEW r \in Site, NEW i \in 1..Len(Current(r))
      PROVE  api'[Current(r)[i]].idc = cur[ServerOf[r]]
  <2>1. Current(r)[i] \in Api /\ Current(r)[i] # a
    BY <1>2, CurrentSlots
  <2> QED
    BY <1>5, <2>1 DEF IdcInv
<1>8. ASSUME NEW r \in Site, NEW i \in 1..Len(Current(r)')
      PROVE  api'[Current(r)'[i]].idc = cur'[ServerOf[r]]
  <2>1. CASE r # s
    BY <1>3, <1>4, <1>7, <2>1
  <2>2. CASE r = s
    <3>1. i \in 1..n \/ i = n + 1
      BY <1>4, <2>2
    <3> QED
      BY <1>1, <1>3, <1>4, <1>5, <1>7, <2>2, <3>1
  <2> QED
    BY <2>1, <2>2
<1>9. \A d \in Call : pc'[d] = "create" => idc'[d] = cur'[ServerOf[site'[d]]]
  BY <1>3, <1>6 DEF IdcInv
<1>10. \A d \in Call : pc'[d] = "advance" => Current(site[d])' = <<>> /\ site'[d] = site[d]
  <2>1. \A d \in Call : pc'[d] = "advance" => Current(site[d]) = <<>>
    BY <1>6 DEF IdcInv
  <2>2. \A r \in Site : r # s => Current(r)' = Current(r)
    BY <1>4
  <2> QED
    BY <1>3, <1>6, <2>1, <2>2 DEF Current
<1>11. IdcInv'
  BY <1>3, <1>8, <1>9, <1>10 DEF IdcInv, Current
<1> QED
  BY <1>3, <1>5, <1>11 DEF s

LEMMA UseIdc ==
    ASSUME TypeInv, PoolInv, IdcInv, NEW c \in Call,
           Send(c) \/ Receive(c) \/ Fail(c) \/ FreeAgain(c)
    PROVE  IdcInv'
<1>1. /\ held[c] \in Api /\ api[held[c]] \in ApiObject /\ TypeOK
      /\ UNCHANGED <<pool, half, cur, site, idc>>
  BY DEF TypeInv, TypeOK, PointerInv, Pointing, After, Using, Send, Receive, Fail, FreeAgain,
         poolVars
<1>2. PICK o : Store(held[c], o) /\ o.idc = api[held[c]].idc
  <2>1. CASE Send(c)
    <3>1. Sent(api[held[c]], c).idc = api[held[c]].idc
      BY <1>1 DEF Sent, ApiObject
    <3> QED
      BY <2>1, <3>1 DEF Send
  <2>2. CASE Receive(c)
    <3>1. SetFree(Answered(api[held[c]]), ~KeepsConnection(site[c])).idc = api[held[c]].idc
      BY <1>1 DEF SetFree, Fini, Answered, ApiObject
    <3> QED
      BY <2>2, <3>1 DEF Receive
  <2>3. CASE Fail(c) \/ FreeAgain(c)
    <3>1. SetFree(api[held[c]], TRUE).idc = api[held[c]].idc
      BY <1>1 DEF SetFree, Fini, ApiObject
    <3> QED
      BY <2>3, <3>1 DEF Fail, FreeAgain
  <2> QED
    BY <2>1, <2>2, <2>3
<1>3. \A a \in Api : api'[a].idc = api[a].idc
  BY <1>1, <1>2 DEF Store, TypeOK
<1>4. \A s \in Site : Current(s)' = Current(s)
  BY <1>1 DEF Current
<1>5. \A d \in Call : pc'[d] \in {"create", "advance"} => pc'[d] = pc[d]
  BY <1>1 DEF Send, Receive, Fail, FreeAgain, Goto, TypeOK
<1> QED
  BY <1>1, <1>3, <1>4, <1>5, IdcKept

LEMMA QuietIdc ==
    ASSUME TypeInv, PoolInv, IdcInv, NEW c \in Call,
           \/ SwitchBusy(c) \/ CreateThrows(c) \/ Reply(c) \/ LookUpThrows(c) \/ AddThrows(c)
           \/ WriteError(c) \/ TrySwitch(c) \/ SetSwitchOn(c) \/ \E s \in Site : Lock(c, s)
    PROVE  IdcInv'
<1>2. UNCHANGED <<api, pool, half, cur>> /\ TypeOK
  BY DEF SwitchBusy, CreateThrows, Reply, WriteError, TrySwitch, SetSwitchOn, LookUpThrows,
         AddThrows, Lock, poolVars, TypeInv
<1>3. \A d \in Call : pc'[d] \in {"create", "advance"} =>
         pc'[d] = pc[d] /\ site'[d] = site[d] /\ idc'[d] = idc[d]
  BY <1>2 DEF SwitchBusy, CreateThrows, Reply, WriteError, TrySwitch, SetSwitchOn,
              LookUpThrows, AddThrows, Lock, Throw, Done, Goto, TypeOK
<1>4. \A s \in Site : Current(s)' = Current(s)
  BY <1>2 DEF Current
<1> QED
  BY <1>2, <1>3, <1>4, IdcKept

LEMMA NextIdc ==
    ASSUME TypeInv, PoolInv, NoReload, IdcInv, OnePoolEach, [Next]_vars
    PROVE  IdcInv'
<1>1. CASE UNCHANGED vars
  BY <1>1 DEF vars, poolVars, callVars, IdcInv, Current
<1>2. CASE \E c \in Call : Get(c) \/ Use(c) \/ \E s \in Site : Lock(c, s)
  BY <1>2, TakeIdc, SwapIdc, AdvanceIdcIdc, ReadIdcIdc, CreateIdc, UseIdc, QuietIdc
  DEF Get, Use
<1>3. ~Reload
  BY DEF NoReload, Reload, ReloadClear, ReloadRead, ReloadHasite
<1> QED
  BY <1>1, <1>2, <1>3 DEF Next

(* Only these steps let a call take an api. *)
LEMMA TakenBy ==
    ASSUME TypeInv, NEW c \in Call, NEW d \in Call, Taken(c),
           Get(d) \/ Use(d) \/ \E s \in Site : Lock(d, s)
    PROVE  d = c /\ (Pick(c) \/ PickLastIdc(c) \/ Create(c))
<1>1. \A l \in PCs \ Using : pc' # [pc EXCEPT ![d] = l]
  BY DEF TypeInv, TypeOK, Taken, Using
<1>2. PCs \ Using = InLock \cup After \cup {"idle", "erring", "switching"}
  BY DEF PCs, InLock, After, Using
<1>3. CASE Get(d)
  <2>1. Pick(d) \/ PickLastIdc(d) \/ Create(d)
    BY <1>1, <1>2, <1>3
    DEF Get, Sweep, Check, SwitchBusy, Swap, AdvanceIdc, ReadIdc, CreateThrows, Throw, Goto,
        InLock
  <2>2. d = c
    BY <2>1 DEF Pick, PickLastIdc, TakeFreeOrGrow, Create, Goto, Taken, TypeInv, TypeOK
  <2> QED
    BY <2>1, <2>2
<1>4. CASE Use(d)
  <2>1. Send(d)
    BY <1>1, <1>2, <1>4
    DEF Use, Receive, Fail, Reply, LookUpThrows, AddThrows, FreeAgain, WriteError, TrySwitch, SetSwitchOn,
        Done, Goto, After
  <2> QED
    BY <2>1 DEF Send, Goto, Taken, Using, TypeInv, TypeOK
<1>5. CASE \E s \in Site : Lock(d, s)
  BY <1>1, <1>2, <1>5 DEF Lock, Goto, InLock
<1> QED
  BY <1>3, <1>4, <1>5

LEMMA PickIdc ==
    ASSUME TypeInv, PoolInv, IdcInv, NEW c \in Call, Taken(c), Pick(c) \/ PickLastIdc(c)
    PROVE  api'[held'[c]].idc = cur[ServerOf[site[c]]]
<1> DEFINE s == site[c]
<1>1. s \in Site /\ TakeFreeOrGrow(c) /\ TypeOK
  BY PickStep DEF TypeInv
<1>2. FreeSlots(Current(s)) # {}
  BY <1>1 DEF TakeFreeOrGrow, Goto, Taken, Using, TypeOK
<1>3. PICK i \in FreeSlots(Current(s)), tcpOk \in BOOLEAN :
          /\ api' = [api EXCEPT ![Current(s)[i]] = SetUsed(@, tcpOk)]
          /\ held' = [held EXCEPT ![c] = Current(s)[i]]
  BY <1>1, <1>2 DEF TakeFreeOrGrow
<1> DEFINE a == Current(s)[i]
<1>4. a \in Api /\ api[a].idc = cur[ServerOf[s]]
  BY <1>1, CurrentSlots DEF FreeSlots, IdcInv
<1>5. held' = [held EXCEPT ![c] = a] /\ api' = [api EXCEPT ![a] = SetUsed(api[a], tcpOk)]
  BY <1>3
<1> HIDE DEF a, s
<1>6. SetUsed(api[a], tcpOk).idc = api[a].idc
  BY <1>1, <1>4 DEF SetUsed, Fini, ApiObject, TypeOK
<1>7. held'[c] = a /\ api'[a] = SetUsed(api[a], tcpOk)
  BY <1>1, <1>4, <1>5 DEF TypeOK
<1> QED
  BY <1>4, <1>6, <1>7 DEF s

LEMMA NextLendsCurrent ==
    ASSUME TypeInv, PoolInv, NoReload, IdcInv, [Next]_vars
    PROVE  [\A c \in Call : Taken(c) => api'[held'[c]].idc = cur[ServerOf[site[c]]]]_vars
<1>1. ASSUME NEW c \in Call, Taken(c), ~UNCHANGED vars
      PROVE  api'[held'[c]].idc = cur[ServerOf[site[c]]]
  <2>1. ~Reload
    BY DEF NoReload, Reload, ReloadClear, ReloadRead, ReloadHasite
  <2>2. PICK d \in Call : Get(d) \/ Use(d) \/ \E s \in Site : Lock(d, s)
    BY <1>1, <2>1 DEF Next
  <2>3. Pick(c) \/ PickLastIdc(c) \/ Create(c)
    BY <1>1, <2>2, TakenBy
  <2> QED
    BY <1>1, <2>3, PickIdc, CreateIdc
<1> QED
  BY <1>1

(* As long as the configuration is not reloaded and each server has one pool, a call is
   lent an api of the IDC its server is switched to, never one of an IDC it was switched
   away from, although the vectors are swapped before the server is moved on and apis
   come back to either vector meanwhile (api_pool.cpp:266-283, :319).            *)
THEOREM LendsOfCurrentIdc == Spec /\ Reloads = 0 /\ OnePoolEach => LendsCurrentIdc
<1> SUFFICES ASSUME OnePoolEach PROVE Spec /\ Reloads = 0 => LendsCurrentIdc
  OBVIOUS
<1>1. Init => IdcInv
  <2>1. ASSUME Init, NEW s \in Site PROVE Current(s) = <<>>
    BY <2>1 DEF Init, Current
  <2> QED
    BY <2>1 DEF Init, IdcInv
<1>2. TypeInv /\ PoolInv /\ NoReload /\ IdcInv /\ [Next]_vars => IdcInv'
  BY NextIdc
<1>3. TypeInv /\ PoolInv /\ NoReload /\ IdcInv /\ [Next]_vars
        => [\A c \in Call : Taken(c) => api'[held'[c]].idc = cur[ServerOf[site[c]]]]_vars
  BY NextLendsCurrent
<1> QED
  BY <1>1, <1>2, <1>3, SpecPoolInv, SpecNoReload, PTL DEF Spec, LendsCurrentIdc
=============================================================================

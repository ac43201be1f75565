------------------------- MODULE SwitchStatsProofs -------------------------
(* Proofs about SwitchStats, for every value of its constants. *)
EXTENDS SwitchStatsProps, TLAPS

(* Counting an event keeps a statistic a statistic. *)
LEMMA Counters ==
    ASSUME NEW st \in Stat, NEW c, NEW t \in 0..MaxTime
    PROVE  /\ IncrementRequests(st, c, t) \in Stat
           /\ IncrementErrors(st, c, t) \in Stat
<1> DEFINE r == IF st.requests = 0 THEN 1 ELSE st.requests
           e == IF st.requests = 0 THEN 1 ELSE st.errors + 1
           b == TooManyErrors(r, e, c)
<1>1. IncrementRequests(st, c, t) \in Stat
  <2>1. [st EXCEPT !.requests = @ + 1] \in Stat
    BY DEF Stat
  <2>2. [st EXCEPT !.requests = 1, !.errors = 0, !.begin = t] \in Stat
    BY DEF Stat
  <2> QED BY <2>1, <2>2, Zenon DEF IncrementRequests
<1>2. r \in Nat /\ e \in Nat
  BY DEF Stat
<1>3. b \in BOOLEAN
  BY Zenon DEF TooManyErrors
<1>4. [st EXCEPT !.requests = r, !.errors = e, !.to_be_switched = b] \in Stat
  <2> HIDE DEF r, e, b
  <2> QED BY <1>2, <1>3 DEF Stat
<1>5. [st EXCEPT !.requests = 1, !.errors = 1, !.begin = t] \in Stat
  BY DEF Stat
<1>6. IncrementErrors(st, c, t) =
        IF st.to_be_switched THEN st
        ELSE IF t - st.begin < c.time_interval
        THEN [st EXCEPT !.requests = r, !.errors = e, !.to_be_switched = b]
        ELSE [st EXCEPT !.requests = 1, !.errors = 1, !.begin = t]
  BY Zenon DEF IncrementErrors
<1>7. IncrementErrors(st, c, t) \in Stat
  <2> HIDE DEF r, e, b
  <2> QED BY <1>4, <1>5, <1>6, Zenon
<1> QED BY <1>1, <1>7

LEMMA Entries ==
    ASSUME NEW t \in 0..MaxTime
    PROVE  Absent \in Stat /\ Fresh(t) \in Stat
BY SwitchStatsAssumption DEF Absent, Fresh, Stat

LEMMA Tables ==
    ASSUME NEW keys, NEW t \in 0..MaxTime
    PROVE  Loaded(keys, t) \in [Key -> Stat]
BY Entries DEF Loaded

LEMMA IdleTyped == Idle \in WkState
<1>1. (CHOOSE s \in Service : TRUE) \in Service
  BY SwitchStatsAssumption
<1>2. (CHOOSE e \in Error : TRUE) \in Error
  BY SwitchStatsAssumption
<1> QED BY <1>1, <1>2 DEF Idle, WkState, WkPCs, Kind

(* Where a worker goes to. *)
LEMMA Moves ==
    ASSUME wk \in [Worker -> WkState], NEW w \in Worker, NEW pc \in WkPCs, NEW d \in Kind
    PROVE  /\ Goto(w, pc) => wk' \in [Worker -> WkState]
           /\ Return(w) => wk' \in [Worker -> WkState]
           /\ GoOn(w, pc, d) => wk' \in [Worker -> WkState]
BY IdleTyped DEF Goto, Return, GoOn, WkState

LEMMA Begins ==
    ASSUME wk \in [Worker -> WkState], NEW w \in Worker, NEW pc \in WkPCs, NEW d \in Kind,
           NEW s \in Service, NEW x \in Site \cup {NoSite}
    PROVE  [wk EXCEPT ![w].pc = pc, ![w].kind = d, ![w].service = s, ![w].site = x]
              \in [Worker -> WkState]
BY ZenonT(60) DEF WkState

LEMMA Refusals ==
    ASSUME wk \in [Worker -> WkState], NEW w \in Worker, NEW pc \in WkPCs, NEW s \in Service
    PROVE  [wk EXCEPT ![w].pc = pc, ![w].service = s] \in [Worker -> WkState]
BY DEF WkState

LEMMA LookUps ==
    ASSUME wk \in [Worker -> WkState], NEW w \in Worker, NEW pc \in WkPCs,
           NEW x \in Site \cup {NoSite}
    PROVE  [wk EXCEPT ![w].pc = pc, ![w].site = x] \in [Worker -> WkState]
BY DEF WkState

LEMMA Resets ==
    ASSUME stats \in [Key -> Stat], now \in 0..MaxTime, NEW k
    PROVE  ResetKey(k) \in [Key -> Stat]
BY Entries DEF ResetKey

LEMMA Histories ==
    ASSUME log \in [Key -> [0..MaxTime -> Nat]], NEW keys, Forget(keys)
    PROVE  log' \in [Key -> [0..MaxTime -> Nat]]
BY DEF Forget, NoErrors

----------------------------------------------------------------------------
(* What TypeOK needs to be inductive: a reload has a configuration to read. *)
TypeInv == TypeOK /\ (main.pc # "idle" => main.gen < Len(Confs))

(* Steps of a worker, and of main, which change one thing of a type. *)
LEMMA WorkerMoves ==
    ASSUME TypeInv, wk' \in [Worker -> WkState],
           UNCHANGED <<now, need, idc, stats, lock, main, log, tables>>,
           calls' \in 0..MaxCalls, exited' \in {"no", "exception", "race"}
    PROVE  TypeInv'
BY DEF TypeInv, TypeOK, tables

LEMMA BeginTyped ==
    ASSUME TypeInv, NEW w \in Worker, NEW s \in Service, BeginCall(w, s) \/ RefuseCall(w, s)
    PROVE  TypeInv'
<1>1. calls' \in 0..MaxCalls /\ exited' \in {"no", "exception", "race"}
  BY SwitchStatsAssumption DEF TypeInv, TypeOK, BeginCall, RefuseCall
<1>2. wk' \in [Worker -> WkState]
  <2>1. wk \in [Worker -> WkState] /\ route[s] \in Site \cup {NoSite}
    BY DEF TypeInv, TypeOK
  <2>2. CASE BeginCall(w, s)
    <3> DEFINE pc == IF route[s] = NoSite THEN "writeerror" ELSE "reqcheck"
    <3>1. pc \in WkPCs /\ "service" \in Kind
      BY DEF WkPCs, Kind
    <3>2. wk' = [wk EXCEPT ![w].pc = pc, ![w].kind = "service", ![w].service = s,
                           ![w].site = route[s]]
      BY <2>2 DEF BeginCall
    <3> HIDE DEF pc
    <3> QED BY <2>1, <3>1, <3>2, Begins
  <2>3. CASE RefuseCall(w, s)
    BY <2>1, <2>3, Refusals DEF RefuseCall, WkPCs, Kind
  <2> QED BY <2>2, <2>3
<1>3. UNCHANGED <<now, need, idc, stats, lock, main, log, tables>>
  BY DEF BeginCall, RefuseCall
<1> QED BY <1>1, <1>2, <1>3, WorkerMoves

(* The steps that only move their worker. *)
MoveOnly(w) ==
    \/ RequestCheck(w) \/ CallServer(w) \/ CallSucceeds(w) \/ CallFails(w)
    \/ \E e \in Error : AnswerIsError(w, e) \/ WriteError(w, e)
    \/ ErrorCheck(w) \/ ServerName(w) \/ NextIdc(w)

LEMMA MovesTyped ==
    ASSUME TypeInv, NEW w \in Worker, MoveOnly(w)
    PROVE  TypeInv'
<1> USE Moves DEF WkPCs, Kind
<1>0. wk \in [Worker -> WkState] /\ route \in [Service -> Site \cup {NoSite}]
  BY DEF TypeInv, TypeOK
<1>1. ASSUME NEW e \in Error, NEW b \in BOOLEAN, TrySwitch(w, e, b)
      PROVE  wk' \in [Worker -> WkState]
  BY <1>0, <1>1 DEF TrySwitch, WkState
<1>2. CASE RequestCheck(w)
  BY <1>0, <1>2, WorkerMoves DEF RequestCheck, RequestCounted, TypeInv, TypeOK
<1>3. CASE CallServer(w)
  <2> DEFINE x == route[wk[w].service]
             pc == IF x = NoSite THEN "writeerror" ELSE "getapi"
  <2>0. x \in Site \cup {NoSite} /\ pc \in WkPCs
    BY <1>0 DEF WkState
  <2>2. wk' = [wk EXCEPT ![w].pc = pc, ![w].site = x]
    BY <1>3 DEF CallServer
  <2>1. wk' \in [Worker -> WkState]
    <3> HIDE DEF x, pc
    <3> QED BY ZenonT(60), <1>0, <2>0, <2>2, LookUps
  <2> QED BY <1>3, <2>1, WorkerMoves DEF CallServer, TypeInv, TypeOK
<1>4. CASE CallSucceeds(w)
  BY <1>0, <1>4, WorkerMoves DEF CallSucceeds, TypeInv, TypeOK
<1>5. CASE CallFails(w)
  BY <1>0, <1>5, WorkerMoves DEF CallFails, TypeInv, TypeOK
<1>6. ASSUME NEW e \in Error, AnswerIsError(w, e) PROVE TypeInv'
  BY <1>0, <1>1, <1>6, WorkerMoves DEF AnswerIsError, TypeInv, TypeOK
<1>7. ASSUME NEW e \in Error, WriteError(w, e) PROVE TypeInv'
  BY <1>0, <1>1, <1>7, WorkerMoves DEF WriteError, TypeInv, TypeOK
<1>8. CASE ErrorCheck(w)
  BY <1>0, <1>8, WorkerMoves DEF ErrorCheck, NotSwitched, TypeInv, TypeOK
<1>9. CASE ServerName(w)
  BY <1>0, <1>9, WorkerMoves DEF ServerName, TypeInv, TypeOK
<1>10. CASE NextIdc(w)
  BY <1>0, <1>10, WorkerMoves DEF NextIdc, TypeInv, TypeOK
<1> QED BY <1>2, <1>3, <1>4, <1>5, <1>6, <1>7, <1>8, <1>9, <1>10 DEF MoveOnly

LEMMA RequestCountTyped ==
    ASSUME TypeInv, NEW w \in Worker, RequestCount(w)
    PROVE  TypeInv'
<1>1. wk' \in [Worker -> WkState]
  BY Moves DEF RequestCount, RequestCounted, TypeInv, TypeOK, WkPCs, Kind
<1>2. stats' \in [Key -> Stat]
  BY Counters DEF RequestCount, TypeInv, TypeOK
<1> QED BY <1>1, <1>2 DEF RequestCount, TypeInv, TypeOK, tables

LEMMA GetApiTyped ==
    ASSUME TypeInv, NEW w \in Worker, GetApi(w)
    PROVE  TypeInv'
<1>1. wk' \in [Worker -> WkState]
  BY Moves DEF GetApi, TypeInv, TypeOK, WkPCs, Kind
<1>2. server' \in [Site -> {"none", "blank", "real"}]
  BY DEF GetApi, TypeInv, TypeOK
<1> QED BY <1>1, <1>2 DEF GetApi, TypeInv, TypeOK

LEMMA ErrorCountTyped ==
    ASSUME TypeInv, NEW w \in Worker, ErrorCount(w)
    PROVE  TypeInv'
<1> DEFINE k == KeyAt(w)  d == wk[w].kind
<1>0. wk \in [Worker -> WkState] /\ d \in Kind
  BY DEF TypeInv, TypeOK, WkState
<1>1. wk' \in [Worker -> WkState]
  <2>1. CASE stats'[k].to_be_switched
    BY <1>0, <2>1, Moves DEF ErrorCount, NeedSwitch, WkPCs
  <2>2. CASE ~stats'[k].to_be_switched
    <3>1. NotSwitched(w)
      BY <2>2 DEF ErrorCount, NeedSwitch
    <3> QED BY <1>0, <3>1, Moves DEF NotSwitched, WkPCs, Kind
  <2> QED BY <2>1, <2>2
<1>2. stats' \in [Key -> Stat]
  <2>1. stats \in [Key -> Stat] /\ now \in 0..MaxTime
    BY DEF TypeInv, TypeOK
  <2>2. CASE stats[k].loaded
    <3>1. k \in DOMAIN stats => IncrementErrors(stats[k], ConfOf(k), now) \in Stat
      BY <2>1, Counters
    <3>2. stats' = [stats EXCEPT ![k] = IncrementErrors(stats[k], ConfOf(k), now)]
      BY <2>2 DEF ErrorCount, NeedSwitch
    <3> HIDE DEF k
    <3> QED BY <2>1, <3>1, <3>2
  <2>3. CASE ~stats[k].loaded
    BY <2>1, <2>3 DEF ErrorCount, NeedSwitch
  <2> QED BY <2>2, <2>3
<1>3. log' \in [Key -> [0..MaxTime -> Nat]]
  <2>1. log \in [Key -> [0..MaxTime -> Nat]]
    BY DEF TypeInv, TypeOK
  <2>2. CASE UNCHANGED log
    BY <2>1, <2>2
  <2>3. CASE log' = [log EXCEPT ![k] = Counted(@)]
    <3>1. \A h \in [0..MaxTime -> Nat] : Counted(h) \in [0..MaxTime -> Nat]
      BY DEF Counted
    <3> HIDE DEF k
    <3> QED BY <2>1, <2>3, <3>1
  <2> QED BY <2>2, <2>3 DEF ErrorCount, NeedSwitch
<1>4. lock' \in [Kind -> Worker \cup {Main, NoOne}]
  <2>1. lock \in [Kind -> Worker \cup {Main, NoOne}]
    BY DEF TypeInv, TypeOK
  <2>2. UNCHANGED lock \/ lock' = [lock EXCEPT ![d] = w]
    BY DEF ErrorCount, NeedSwitch
  <2> HIDE DEF d
  <2> QED BY <2>1, <2>2
<1>5. UNCHANGED <<now, calls, need, idc, main, exited, tables>>
  BY DEF ErrorCount, NeedSwitch
<1> QED BY <1>1, <1>2, <1>3, <1>4, <1>5 DEF TypeInv, TypeOK, tables

LEMMA DecisionTyped ==
    ASSUME TypeInv, NEW w \in Worker, NoServerName(w) \/ SetSwitchOn(w)
    PROVE  TypeInv'
<1>1. wk' \in [Worker -> WkState]
  BY Moves DEF NoServerName, SetSwitchOn, TypeInv, TypeOK, WkPCs, Kind
<1>2. lock' \in [Kind -> Worker \cup {Main, NoOne}]
  BY DEF NoServerName, SetSwitchOn, TypeInv, TypeOK
<1>3. exited' \in {"no", "exception", "race"}
  BY DEF NoServerName, SetSwitchOn, TypeInv, TypeOK
<1>4. need' \in [Site -> BOOLEAN]
  <2>1. CASE SetSwitchOn(w)
    <3>1. (SwitchOn /\ wk[w].site \in pools) \in BOOLEAN
      BY Zenon
    <3> QED BY <2>1, <3>1, Zenon DEF SetSwitchOn, TypeInv, TypeOK
  <2>2. CASE NoServerName(w)
    BY <2>2 DEF NoServerName, TypeInv, TypeOK
  <2> QED BY <2>1, <2>2
<1> QED BY <1>1, <1>2, <1>3, <1>4 DEF NoServerName, SetSwitchOn, TypeInv, TypeOK, tables

LEMMA ResetTyped ==
    ASSUME TypeInv, NEW w \in Worker, ResetStats(w) \/ ResetOther(w)
    PROVE  TypeInv'
<1>1. wk' \in [Worker -> WkState]
  BY Moves DEF ResetStats, ResetOther, TypeInv, TypeOK, WkPCs, Kind
<1>2. stats' \in [Key -> Stat]
  BY Resets DEF ResetStats, ResetOther, TypeInv, TypeOK
<1>3. log' \in [Key -> [0..MaxTime -> Nat]]
  BY Histories DEF ResetStats, ResetOther, TypeInv, TypeOK
<1>4. lock' \in [Kind -> Worker \cup {Main, NoOne}]
  BY DEF ResetStats, ResetOther, TypeInv, TypeOK
<1> QED BY <1>1, <1>2, <1>3, <1>4 DEF ResetStats, ResetOther, TypeInv, TypeOK, tables

LEMMA RaceTyped ==
    ASSUME TypeInv, NEW w \in Worker, RacingLookup(w)
    PROVE  TypeInv'
BY WorkerMoves DEF RacingLookup, TypeInv, TypeOK

LEMMA OtherTyped ==
    ASSUME TypeInv, Tick \/ \E x \in Site : ServeSwitch(x)
    PROVE  TypeInv'
<1>1. CASE Tick
  BY <1>1, SwitchStatsAssumption DEF Tick, TypeInv, TypeOK, tables
<1>2. ASSUME NEW x \in Site, ServeSwitch(x) PROVE TypeInv'
  BY <1>2, SwitchStatsAssumption DEF ServeSwitch, TypeInv, TypeOK, tables
<1> QED BY <1>1, <1>2

(* The configuration a reload is reading. *)
LEMMA NextConf ==
    ASSUME TypeInv, main.pc # "idle"
    PROVE  /\ main.gen + 1 \in 1..Len(Confs)
           /\ NewConf.sites \subseteq Site /\ NewConf.route \in [Service -> Site \cup {NoSite}]
<1>1. main.gen + 1 \in 1..Len(Confs)
  BY SwitchStatsAssumption DEF TypeInv, TypeOK
<1> QED BY <1>1, SwitchStatsAssumption DEF NewConf

LEMMA ReloadTyped ==
    ASSUME TypeInv, Reload
    PROVE  TypeInv'
<1> USE DEF MainGoto, MainPCs, Kind
<1>0. main \in [pc : MainPCs, kind : Kind, gen : 1..Len(Confs)]
  BY DEF TypeInv, TypeOK
<1>1. CASE ReloadClear
  BY <1>0, <1>1 DEF ReloadClear, TypeInv, TypeOK
<1>2. CASE ReloadRead
  BY <1>0, <1>2, NextConf DEF ReloadRead, TypeInv, TypeOK
<1>3. CASE ReloadHasite
  <2>0. idc' \in 1..NumIdcs
    BY <1>3, SwitchStatsAssumption DEF ReloadHasite
  <2>1. main' \in [pc : MainPCs, kind : Kind, gen : 1..Len(Confs)] /\ main'.gen < Len(Confs)
    BY <1>0, <1>3 DEF ReloadHasite, TypeInv
  <2>2. UNCHANGED <<now, calls, need, stats, lock, wk, exited, log, route, server, pools,
                     keygen, is_init>>
    BY <1>3 DEF ReloadHasite, tables
  <2> HIDE DEF MainGoto, MainPCs, Kind
  <2> QED BY <2>0, <2>1, <2>2 DEF TypeInv, TypeOK
<1>4. CASE ReloadCore
  BY <1>0, <1>4, NextConf DEF ReloadCore, TypeInv, TypeOK
<1>5. CASE ReinitClear
  <2>1. stats' \in [Key -> Stat]
    BY <1>5, Entries, SwitchStatsAssumption DEF ReinitClear, TypeInv, TypeOK
  <2> QED BY <1>0, <1>5, <2>1 DEF ReinitClear, TypeInv, TypeOK
<1>6. CASE ReinitFill
  <2>1. stats' \in [Key -> Stat]
    BY <1>6, Tables DEF ReinitFill, TypeInv, TypeOK
  <2>2. log' \in [Key -> [0..MaxTime -> Nat]]
    BY <1>6, Histories DEF ReinitFill, TypeInv, TypeOK
  <2>3. main' \in [pc : MainPCs, kind : Kind, gen : 1..Len(Confs)]
        /\ (main'.pc # "idle" => main'.gen < Len(Confs))
    BY <1>0, <1>6, NextConf DEF ReinitFill, TypeInv
  <2>4. keygen' \in [Kind -> 1..Len(Confs)]
    BY <1>6, NextConf DEF ReinitFill, TypeInv, TypeOK
  <2> QED BY <1>6, <2>1, <2>2, <2>3, <2>4 DEF ReinitFill, TypeInv, TypeOK
<1> QED BY <1>1, <1>2, <1>3, <1>4, <1>5, <1>6 DEF Reload

LEMMA InitTyped == Init => TypeInv
<1> SUFFICES ASSUME Init PROVE TypeInv
  OBVIOUS
<1>1. 0 \in 0..MaxTime /\ 0 \in 0..MaxCalls /\ 1 \in 1..Len(Confs) /\ 1 \in 1..NumIdcs
  BY SwitchStatsAssumption
<1>2. stats \in [Key -> Stat]
  BY <1>1, Tables DEF Init
<1>3. wk \in [Worker -> WkState]
  BY IdleTyped DEF Init
<1>4. log \in [Key -> [0..MaxTime -> Nat]]
  BY DEF Init, NoErrors
<1>5. Confs[1].sites \subseteq Site /\ Confs[1].route \in [Service -> Site \cup {NoSite}]
  BY <1>1, SwitchStatsAssumption
<1> QED BY <1>1, <1>2, <1>3, <1>4, <1>5 DEF Init, TypeInv, TypeOK, MainPCs, Kind

LEMMA StepTyped == TypeInv /\ [Next]_vars => TypeInv'
<1> SUFFICES ASSUME TypeInv, [Next]_vars PROVE TypeInv'
  OBVIOUS
<1>1. CASE UNCHANGED vars
  BY <1>1 DEF vars, tables, TypeInv, TypeOK
<1>2. CASE Tick \/ \E x \in Site : ServeSwitch(x)
  BY <1>2, OtherTyped
<1>3. CASE Reload
  BY <1>3, ReloadTyped
<1>4. ASSUME NEW w \in Worker, WorkerNext(w) PROVE TypeInv'
  <2>1. CASE \E s \in Service : BeginCall(w, s) \/ RefuseCall(w, s)
    BY <2>1, BeginTyped
  <2>2. CASE MoveOnly(w)
    BY <2>2, MovesTyped
  <2>3. CASE RequestCount(w)
    BY <2>3, RequestCountTyped
  <2>4. CASE GetApi(w)
    BY <2>4, GetApiTyped
  <2>5. CASE ErrorCount(w)
    BY <2>5, ErrorCountTyped
  <2>6. CASE NoServerName(w) \/ SetSwitchOn(w)
    BY <2>6, DecisionTyped
  <2>7. CASE ResetStats(w) \/ ResetOther(w)
    BY <2>7, ResetTyped
  <2>8. CASE RacingLookup(w)
    BY <2>8, RaceTyped
  <2> QED BY <1>4, <2>1, <2>2, <2>3, <2>4, <2>5, <2>6, <2>7, <2>8 DEF WorkerNext, Step, MoveOnly
<1> QED BY <1>1, <1>2, <1>3, <1>4 DEF Next

(* Every variable of the statistics keeps its type, through any number of reloads. *)
THEOREM TypeCorrect == Spec => []TypeOK
<1>1. TypeInv => TypeOK
  BY DEF TypeInv
<1> QED BY InitTyped, StepTyped, <1>1, PTL DEF Spec

----------------------------------------------------------------------------
(* Who holds the locks. *)

DecidingHolds == \A w \in Worker : wk[w].pc \in Deciding => lock[wk[w].kind] = w
MainHolds     == \A d \in Kind : lock[d] = Main <=> main.pc = "fill" /\ main.kind = d

LockInv == TypeInv /\ LockHeldByDecider /\ DecidingHolds /\ MainHolds

OthersStay(w) == \A v \in Worker \ {w} : wk'[v] = wk[v]

LEMMA Stays ==
    ASSUME TypeInv, NEW w \in Worker, NEW pc, NEW d
    PROVE  /\ Goto(w, pc) => /\ OthersStay(w) /\ wk'[w].pc = pc /\ wk'[w].kind = wk[w].kind
                             /\ wk'[w].service = wk[w].service /\ wk'[w].site = wk[w].site
           /\ Return(w) => OthersStay(w) /\ wk'[w].pc = "idle"
           /\ GoOn(w, pc, d) => /\ OthersStay(w) /\ wk'[w].pc = pc /\ wk'[w].kind = d
                                /\ wk'[w].service = wk[w].service /\ wk'[w].site = wk[w].site
BY DEF Goto, Return, GoOn, Idle, OthersStay, TypeInv, TypeOK, WkState

(* A step that neither takes nor releases a lock. *)
LEMMA LockKept ==
    ASSUME LockInv, TypeInv', NEW w \in Worker, OthersStay(w), UNCHANGED <<lock, main>>,
           wk'[w].pc \in Deciding <=> wk[w].pc \in Deciding,
           wk[w].pc \in Deciding => wk'[w].kind = wk[w].kind
    PROVE  LockInv'
<1>1. LockHeldByDecider'
  BY DEF LockInv, LockHeldByDecider, OthersStay
<1>2. DecidingHolds'
  BY DEF LockInv, DecidingHolds, OthersStay
<1>3. MainHolds'
  BY DEF LockInv, MainHolds
<1> QED BY <1>1, <1>2, <1>3 DEF LockInv

(* A step that releases the lock of the decision it ends. *)
LEMMA LockReleased ==
    ASSUME LockInv, TypeInv', NEW w \in Worker, OthersStay(w), UNCHANGED main,
           wk[w].pc \in Deciding, wk'[w].pc \notin Deciding,
           lock' = [lock EXCEPT ![wk[w].kind] = NoOne]
    PROVE  LockInv'
<1>0. /\ wk[w].kind \in Kind /\ lock[wk[w].kind] = w /\ w # NoOne /\ w # Main /\ NoOne # Main
      /\ NoOne \notin Worker
  BY SwitchStatsAssumption DEF LockInv, DecidingHolds, TypeInv, TypeOK, WkState
<1>1. \A d \in Kind : lock'[d] = IF d = wk[w].kind THEN NoOne ELSE lock[d]
  BY DEF LockInv, TypeInv, TypeOK
<1>2. LockHeldByDecider'
  BY <1>0, <1>1 DEF LockInv, LockHeldByDecider, OthersStay
<1>3. DecidingHolds'
  <2> SUFFICES ASSUME NEW v \in Worker, wk'[v].pc \in Deciding PROVE lock'[wk'[v].kind] = v
    BY DEF DecidingHolds
  <2>1. v # w /\ wk'[v] = wk[v] /\ wk[v].kind \in Kind
    BY DEF OthersStay, LockInv, TypeInv, TypeOK, WkState
  <2>2. lock[wk[v].kind] = v
    BY <2>1 DEF LockInv, DecidingHolds
  <2> QED BY <1>0, <1>1, <2>1, <2>2
<1>4. MainHolds'
  BY <1>0, <1>1 DEF LockInv, MainHolds
<1> QED BY <1>2, <1>3, <1>4 DEF LockInv

LEMMA LockTaken ==
    ASSUME LockInv, TypeInv', NEW w \in Worker, OthersStay(w), UNCHANGED main,
           wk[w].pc \notin Deciding, wk'[w].pc \in Deciding, wk'[w].kind = wk[w].kind,
           lock[wk[w].kind] = NoOne, lock' = [lock EXCEPT ![wk[w].kind] = w]
    PROVE  LockInv'
<1>0. wk[w].kind \in Kind /\ w # NoOne /\ w # Main /\ NoOne # Main /\ NoOne \notin Worker
  BY SwitchStatsAssumption DEF LockInv, TypeInv, TypeOK, WkState
<1>1. \A d \in Kind : lock'[d] = IF d = wk[w].kind THEN w ELSE lock[d]
  BY DEF LockInv, TypeInv, TypeOK
<1>2. LockHeldByDecider'
  BY <1>0, <1>1 DEF LockInv, LockHeldByDecider, OthersStay
<1>3. DecidingHolds'
  <2> SUFFICES ASSUME NEW v \in Worker, wk'[v].pc \in Deciding PROVE lock'[wk'[v].kind] = v
    BY DEF DecidingHolds
  <2>1. CASE v = w
    BY <1>0, <1>1, <2>1
  <2>2. CASE v # w
    <3>1. wk'[v] = wk[v] /\ wk[v].kind \in Kind
      BY <2>2 DEF OthersStay, LockInv, TypeInv, TypeOK, WkState
    <3>2. lock[wk[v].kind] = v
      BY <3>1 DEF LockInv, DecidingHolds
    <3> QED BY <1>0, <1>1, <3>1, <3>2
  <2> QED BY <2>1, <2>2
<1>4. MainHolds'
  BY <1>0, <1>1 DEF LockInv, MainHolds
<1> QED BY <1>2, <1>3, <1>4 DEF LockInv

(* A step of a worker that decides nothing, before and after. *)
LEMMA LockUntouched ==
    ASSUME LockInv, TypeInv', NEW w \in Worker, OthersStay(w), UNCHANGED <<lock, main>>,
           wk[w].pc \notin Deciding, wk'[w].pc \notin Deciding
    PROVE  LockInv'
BY LockKept

(* The steps before a decision: where they lead. *)
CallPCs == {"idle", "reqcheck", "reqcount", "call", "getapi", "wait", "writeerror"}

CallStep(w) ==
    \/ \E s \in Service : BeginCall(w, s) \/ RefuseCall(w, s)
    \/ RequestCheck(w) \/ RequestCount(w) \/ CallServer(w) \/ GetApi(w)
    \/ CallSucceeds(w) \/ CallFails(w)

ErrorStep(w) == \E e \in Error : AnswerIsError(w, e) \/ WriteError(w, e)

LEMMA CallMoves ==
    ASSUME TypeInv, NEW w \in Worker, CallStep(w)
    PROVE  OthersStay(w) /\ wk[w].pc \in CallPCs /\ wk'[w].pc \in CallPCs /\ UNCHANGED <<lock, main>>
<1> USE DEF CallPCs
<1>0. wk \in [Worker -> WkState]
  BY DEF TypeInv, TypeOK
<1>1. ASSUME NEW s \in Service, BeginCall(w, s)
      PROVE  OthersStay(w) /\ wk'[w].pc \in CallPCs
  <2> DEFINE pc == IF route[s] = NoSite THEN "writeerror" ELSE "reqcheck"
  <2>1. wk' = [wk EXCEPT ![w].pc = pc, ![w].kind = "service", ![w].service = s,
                         ![w].site = route[s]]
    BY <1>1 DEF BeginCall
  <2>2. pc \in CallPCs
    OBVIOUS
  <2> HIDE DEF pc, CallPCs
  <2> QED BY <1>0, <2>1, <2>2 DEF OthersStay, WkState
<1>2. ASSUME NEW s \in Service, RefuseCall(w, s)
      PROVE  OthersStay(w) /\ wk'[w].pc \in CallPCs
  BY <1>0, <1>2 DEF RefuseCall, OthersStay, WkState
<1>3. CASE RequestCheck(w) \/ RequestCount(w)
  BY <1>0, <1>3, Stays DEF RequestCheck, RequestCount, RequestCounted
<1>4. CASE CallServer(w)
  BY <1>0, <1>4 DEF CallServer, OthersStay, WkState
<1>5. CASE GetApi(w) \/ CallSucceeds(w) \/ CallFails(w)
  BY <1>0, <1>5, Stays DEF GetApi, CallSucceeds, CallFails
<1>6. wk[w].pc \in CallPCs /\ UNCHANGED <<lock, main>>
  BY DEF CallStep, BeginCall, RefuseCall, RequestCheck, RequestCount, CallServer, GetApi,
     CallSucceeds, CallFails
<1> QED BY <1>1, <1>2, <1>3, <1>4, <1>5, <1>6 DEF CallStep

LEMMA ErrorMoves ==
    ASSUME TypeInv, NEW w \in Worker, ErrorStep(w)
    PROVE  /\ OthersStay(w) /\ wk[w].pc \in CallPCs
           /\ \/ wk'[w].pc \in CallPCs
              \/ wk'[w].pc = "errcheck" /\ wk'[w].site = route[wk[w].service]
           /\ UNCHANGED <<now, calls, need, idc, stats, lock, main, exited, log, tables>>
<1>0. wk \in [Worker -> WkState]
  BY DEF TypeInv, TypeOK
<1>1. ASSUME NEW b, NEW e, TrySwitch(w, e, b)
      PROVE  OthersStay(w) /\ wk'[w].pc = "errcheck" /\ wk'[w].site = route[wk[w].service]
  BY <1>0, <1>1 DEF TrySwitch, OthersStay
<1>2. PICK e \in Error : AnswerIsError(w, e) \/ WriteError(w, e)
  BY DEF ErrorStep
<1> QED BY <1>1, <1>2, Stays DEF AnswerIsError, WriteError, CallPCs

LEMMA CheckMoves ==
    ASSUME TypeInv, NEW w \in Worker, ErrorCheck(w) \/ ResetOther(w)
    PROVE  /\ OthersStay(w) /\ wk[w].pc \notin Deciding /\ UNCHANGED <<lock, main>>
           /\ wk'[w].pc \in {"errcount", "errcheck", "idle"}
           /\ wk'[w].pc # "idle" => wk'[w].site = wk[w].site /\ wk[w].pc = "errcheck"
<1>1. NotSwitched(w) => /\ OthersStay(w) /\ wk'[w].pc \in {"errcheck", "idle"}
                        /\ wk'[w].pc = "errcheck" => wk'[w].site = wk[w].site
  <2>1. CASE GoOn(w, "errcheck", "site")
    BY <2>1, Stays
  <2>2. CASE Return(w)
    BY <2>2, Stays
  <2> QED BY <2>1, <2>2 DEF NotSwitched
<1>2. ErrorCheck(w) => NotSwitched(w) \/ Goto(w, "errcount")
  BY DEF ErrorCheck
<1>3. ResetOther(w) => Return(w)
  BY DEF ResetOther
<1>4. UNCHANGED <<lock, main>> /\ wk[w].pc \notin Deciding
      /\ (wk[w].pc = "errcheck" \/ ResetOther(w))
  BY DEF ErrorCheck, ResetOther, Deciding
<1>5. CASE ErrorCheck(w)
  <2>1. wk[w].pc = "errcheck"
    BY <1>5 DEF ErrorCheck
  <2>2. CASE NotSwitched(w)
    BY <1>1, <1>4, <2>1, <2>2
  <2>3. CASE Goto(w, "errcount")
    BY <1>4, <2>1, <2>3, Stays
  <2> QED BY <1>2, <1>5, <2>2, <2>3
<1>6. CASE ResetOther(w)
  BY <1>3, <1>4, <1>6, Stays
<1> QED BY <1>5, <1>6

LEMMA CallLocks ==
    ASSUME LockInv, TypeInv', NEW w \in Worker,
           CallStep(w) \/ ErrorStep(w) \/ ErrorCheck(w) \/ ResetOther(w)
    PROVE  LockInv'
<1> USE DEF CallPCs, Deciding
<1>1. TypeInv
  BY DEF LockInv
<1>2. CASE CallStep(w)
  BY <1>1, <1>2, CallMoves, LockUntouched
<1>3. CASE ErrorStep(w)
  BY <1>1, <1>3, ErrorMoves, LockUntouched
<1>4. CASE ErrorCheck(w) \/ ResetOther(w)
  BY <1>1, <1>4, CheckMoves, LockUntouched
<1> QED BY <1>2, <1>3, <1>4

LEMMA DecisionLocks ==
    ASSUME LockInv, TypeInv', NEW w \in Worker,
           \/ ErrorCount(w) \/ ServerName(w) \/ NoServerName(w) \/ NextIdc(w)
           \/ SetSwitchOn(w) \/ ResetStats(w)
    PROVE  LockInv'
<1> USE DEF Deciding
<1>0. wk \in [Worker -> WkState] /\ TypeInv
  BY DEF LockInv, TypeInv, TypeOK
<1>1. CASE ErrorCount(w)
  <2>1. CASE lock' = [lock EXCEPT ![wk[w].kind] = w] /\ Goto(w, "servername")
    BY <1>0, <1>1, <2>1, Stays, LockTaken DEF ErrorCount, NeedSwitch
  <2>2. CASE UNCHANGED lock /\ NotSwitched(w)
    <3>1. OthersStay(w) /\ wk'[w].pc \in {"errcheck", "idle"}
      BY <1>0, <2>2, Stays DEF NotSwitched
    <3> QED BY <1>1, <2>2, <3>1, LockUntouched DEF ErrorCount, NeedSwitch
  <2> QED BY <1>1, <2>1, <2>2 DEF ErrorCount, NeedSwitch
<1>2. CASE ServerName(w) \/ NextIdc(w) \/ SetSwitchOn(w)
  <2>1. /\ OthersStay(w) /\ wk'[w].pc \in {"nextidc", "seton", "reset"}
        /\ wk'[w].kind = wk[w].kind /\ wk[w].pc \in Deciding
    BY <1>0, <1>2, Stays DEF ServerName, NextIdc, SetSwitchOn
  <2> QED BY <1>2, <2>1, LockKept DEF ServerName, NextIdc, SetSwitchOn
<1>3. CASE NoServerName(w)
  <2>1. OthersStay(w) /\ wk'[w].pc \in {"writeerror", "idle"}
    BY <1>0, <1>3, Stays DEF NoServerName
  <2> QED BY <1>3, <2>1, LockReleased DEF NoServerName
<1>4. CASE ResetStats(w)
  <2>1. OthersStay(w) /\ wk'[w].pc = "resetother"
    BY <1>0, <1>4, Stays DEF ResetStats
  <2> QED BY <1>4, <2>1, LockReleased DEF ResetStats
<1> QED BY <1>1, <1>2, <1>3, <1>4

LEMMA MainLocks ==
    ASSUME LockInv, TypeInv', Reload
    PROVE  LockInv'
<1> USE DEF MainGoto
<1>0. /\ lock \in [Kind -> Worker \cup {Main, NoOne}] /\ main.kind \in Kind /\ UNCHANGED wk
      /\ main \in [pc : MainPCs, kind : Kind, gen : 1..Len(Confs)]
      /\ Main # NoOne /\ Main \notin Worker /\ NoOne \notin Worker
      /\ \A w \in Worker : wk[w].kind \in Kind
  BY SwitchStatsAssumption DEF LockInv, TypeInv, TypeOK, WkState, Reload, ReloadClear,
     ReloadRead, ReloadHasite, ReloadCore, ReinitClear, ReinitFill
<1>1. CASE ReloadClear \/ ReloadRead \/ ReloadHasite \/ ReloadCore
  <2>1. UNCHANGED lock /\ main.pc # "fill" /\ main'.pc # "fill"
    BY <1>0, <1>1 DEF ReloadClear, ReloadRead, ReloadHasite, ReloadCore
  <2> QED BY <1>0, <2>1 DEF LockInv, LockHeldByDecider, DecidingHolds, MainHolds
<1>2. CASE ReinitClear
  <2>1. /\ \A d \in Kind : lock'[d] = IF d = main.kind THEN Main ELSE lock[d]
        /\ lock[main.kind] = NoOne /\ main.pc # "fill" /\ main'.pc = "fill" /\ main'.kind = main.kind
    BY <1>0, <1>2 DEF ReinitClear
  <2> QED BY <1>0, <2>1 DEF LockInv, LockHeldByDecider, DecidingHolds, MainHolds
<1>3. CASE ReinitFill
  <2>1. /\ \A d \in Kind : lock'[d] = IF d = main.kind THEN NoOne ELSE lock[d]
        /\ main.pc = "fill" /\ main'.pc # "fill"
    BY <1>0, <1>3 DEF ReinitFill
  <2> QED BY <1>0, <2>1 DEF LockInv, LockHeldByDecider, DecidingHolds, MainHolds
<1> QED BY <1>1, <1>2, <1>3 DEF Reload

LEMMA InitLocks == Init => LockInv
<1> SUFFICES ASSUME Init PROVE LockInv
  OBVIOUS
<1>1. \A d \in Kind : lock[d] = NoOne
  BY DEF Init
<1>2. \A w \in Worker : wk[w].pc = "idle"
  BY DEF Init, Idle
<1>3. NoOne \notin Worker /\ NoOne # Main /\ main.pc # "fill"
  BY SwitchStatsAssumption DEF Init
<1> QED BY <1>1, <1>2, <1>3, InitTyped
        DEF LockInv, LockHeldByDecider, DecidingHolds, MainHolds, Deciding

LEMMA StepLocks == LockInv /\ [Next]_vars => LockInv'
<1> SUFFICES ASSUME LockInv, [Next]_vars PROVE LockInv'
  OBVIOUS
<1>0. TypeInv'
  BY StepTyped DEF LockInv
<1>1. CASE UNCHANGED vars \/ Tick \/ \E x \in Site : ServeSwitch(x)
  <2>1. UNCHANGED <<lock, main, wk>>
    BY <1>1 DEF vars, Tick, ServeSwitch
  <2> QED BY <1>0, <2>1 DEF LockInv, LockHeldByDecider, DecidingHolds, MainHolds
<1>2. CASE Reload
  BY <1>0, <1>2, MainLocks
<1>3. ASSUME NEW w \in Worker, WorkerNext(w) PROVE LockInv'
  <2>1. CASE RacingLookup(w)
    <3>1. UNCHANGED <<lock, main, wk>>
      BY <2>1 DEF RacingLookup
    <3> QED BY <1>0, <3>1 DEF LockInv, LockHeldByDecider, DecidingHolds, MainHolds
  <2>2. CASE ~RacingLookup(w)
    BY <1>0, <1>3, <2>2, CallLocks, DecisionLocks DEF WorkerNext, Step, CallStep, ErrorStep
  <2> QED BY <2>1, <2>2
<1> QED BY <1>1, <1>2, <1>3 DEF Next

(* Through any number of reloads, whatever path leaves a decision, an exception
   included, gives back the lock of its kind, and only deciders hold one: so nobody
   waits for a lock while it holds the other (switch_mgr.cpp:185, :228).         *)
THEOREM LocksReleased == Spec => []LockHeldByDecider
<1>1. LockInv => LockHeldByDecider
  BY DEF LockInv
<1> QED BY InitLocks, StepLocks, <1>1, PTL DEF Spec

----------------------------------------------------------------------------
(* Without a reload. *)

Switching == Deciding \cup {"errcheck", "errcount"}

Tables1 ==
    /\ Len(Confs) = 1
    /\ route = Confs[1].route
    /\ \A x \in Confs[1].sites : server[x] = "real"
    /\ \A w \in Worker : wk[w].pc \in Switching => wk[w].site \in Confs[1].sites

FlagsLoaded == \A k \in Key : stats[k].to_be_switched => stats[k].loaded

FlagInv == LockInv /\ Tables1 /\ FlagsLoaded /\ FlagOwned /\ ErrorIsReturned

(* Nothing is reloaded, every site is known, and a key is of the kind it is counted as. *)
LEMMA Settled ==
    ASSUME FlagInv
    PROVE  /\ main.pc = "idle" /\ ~Reload
           /\ \A w \in Worker : ~RacingLookup(w) /\ ~NoServerName(w)
           /\ \A s \in Service : route[s] \in Confs[1].sites
           /\ \A w \in Worker : wk[w].pc \in Switching =>
                 KeyAt(w) \in Key /\ KindOf(KeyAt(w)) = wk[w].kind
<1>1. main.pc = "idle" /\ main.gen = 1
  BY DEF FlagInv, Tables1, LockInv, TypeInv, TypeOK
<1>2. ~Reload /\ \A w \in Worker : ~RacingLookup(w)
  BY <1>1 DEF FlagInv, Tables1, Reload, ReloadClear, ReloadRead, ReloadHasite, ReloadCore,
     ReinitClear, ReinitFill, RacingLookup
<1>3. Confs[1].sites \subseteq Site /\ Confs[1].route \in [Service -> Confs[1].sites]
  BY SwitchStatsAssumption DEF FlagInv, Tables1
<1>4. \A w \in Worker : ~NoServerName(w)
  BY <1>3 DEF FlagInv, Tables1, Switching, Deciding, NoServerName
<1>5. \A s \in Service : route[s] \in Confs[1].sites
  BY <1>3 DEF FlagInv, Tables1
<1>6. ASSUME NEW w \in Worker, wk[w].pc \in Switching
      PROVE  KeyAt(w) \in Key /\ KindOf(KeyAt(w)) = wk[w].kind
  <2>1. wk[w].site \in Site /\ wk[w].service \in Service /\ wk[w].kind \in Kind
    BY <1>3, <1>6 DEF FlagInv, Tables1, LockInv, TypeInv, TypeOK, WkState
  <2> QED BY <2>1, SwitchStatsAssumption DEF KeyAt, KindOf, Key, Kind
<1> QED BY <1>1, <1>2, <1>4, <1>5, <1>6

(* A counted request leaves the flag; a counted error leaves the entry. *)
LEMMA CountersKeep ==
    ASSUME NEW st \in Stat, NEW c, NEW t
    PROVE  /\ IncrementRequests(st, c, t).to_be_switched = st.to_be_switched
           /\ IncrementRequests(st, c, t).loaded = st.loaded
           /\ IncrementErrors(st, c, t).loaded = st.loaded
<1>1. /\ IncrementRequests(st, c, t).to_be_switched = st.to_be_switched
      /\ IncrementRequests(st, c, t).loaded = st.loaded
  BY DEF IncrementRequests, Stat
<1>2. IncrementErrors(st, c, t).loaded = st.loaded
  <2> DEFINE r == IF st.requests = 0 THEN 1 ELSE st.requests
             e == IF st.requests = 0 THEN 1 ELSE st.errors + 1
             b == TooManyErrors(r, e, c)
  <2>1. IncrementErrors(st, c, t) =
          IF st.to_be_switched THEN st
          ELSE IF t - st.begin < c.time_interval
          THEN [st EXCEPT !.requests = r, !.errors = e, !.to_be_switched = b]
          ELSE [st EXCEPT !.requests = 1, !.errors = 1, !.begin = t]
    BY Zenon DEF IncrementErrors
  <2>2. [st EXCEPT !.requests = r, !.errors = e, !.to_be_switched = b].loaded = st.loaded
    <3> HIDE DEF r, e, b
    <3> QED BY DEF Stat
  <2>3. [st EXCEPT !.requests = 1, !.errors = 1, !.begin = t].loaded = st.loaded
    BY DEF Stat
  <2> HIDE DEF r, e, b
  <2> QED BY <2>1, <2>2, <2>3
<1> QED BY <1>1, <1>2

(* The flags stay, and the deciders with their keys. *)
SameFlags ==
    \A k \in Key : /\ stats'[k].to_be_switched = stats[k].to_be_switched
                   /\ stats'[k].loaded = stats[k].loaded

LEMMA FlagsKept ==
    ASSUME FlagInv, NEW w \in Worker, OthersStay(w), UNCHANGED lock, SameFlags,
           wk[w].pc \in Deciding =>
               /\ wk'[w].pc \in Deciding /\ wk'[w].kind = wk[w].kind
               /\ wk'[w].service = wk[w].service /\ wk'[w].site = wk[w].site
    PROVE  FlagsLoaded' /\ FlagOwned'
<1>1. FlagsLoaded'
  BY DEF FlagInv, FlagsLoaded, SameFlags
<1>2. ASSUME NEW k \in Key, stats'[k].to_be_switched
      PROVE  \E v \in Worker : Owner(v, k)'
  <2>1. PICK v \in Worker : Owner(v, k)
    BY <1>2 DEF FlagInv, FlagOwned, SameFlags
  <2>2. CASE v = w
    BY <2>1, <2>2 DEF Owner, KeyAt
  <2>3. CASE v # w
    BY <2>1, <2>3 DEF Owner, KeyAt, OthersStay
  <2> QED BY <2>2, <2>3
<1> QED BY <1>1, <1>2 DEF FlagOwned

(* So does the knowledge of the sites. *)
LEMMA TablesKept ==
    ASSUME FlagInv, NEW w \in Worker, OthersStay(w), UNCHANGED <<route, server>>,
           wk'[w].pc \in Switching => wk'[w].site \in Confs[1].sites
    PROVE  Tables1'
BY DEF FlagInv, Tables1, OthersStay

LEMMA CallFlags ==
    ASSUME FlagInv, NEW w \in Worker, CallStep(w) \/ ErrorStep(w) \/ ErrorCheck(w)
    PROVE  Tables1' /\ FlagsLoaded' /\ FlagOwned' /\ ErrorIsReturned'
<1> USE DEF CallPCs, Deciding, Switching
<1>0. TypeInv /\ stats \in [Key -> Stat] /\ server \in [Site -> {"none", "blank", "real"}]
  BY DEF FlagInv, LockInv, TypeInv, TypeOK
<1>1. CASE CallStep(w)
  <2>1. OthersStay(w) /\ wk[w].pc \in CallPCs /\ wk'[w].pc \in CallPCs /\ UNCHANGED lock
    BY <1>0, <1>1, CallMoves
  <2>2. SameFlags
    <3>1. CASE RequestCount(w)
      BY <1>0, <3>1, CountersKeep DEF RequestCount, SameFlags
    <3>2. CASE ~RequestCount(w)
      BY <1>1, <3>2 DEF CallStep, BeginCall, RefuseCall, RequestCheck, CallServer, GetApi,
         CallSucceeds, CallFails, SameFlags
    <3> QED BY <3>1, <3>2
  <2>3. route' = route /\ exited' = exited
    BY <1>1 DEF CallStep, BeginCall, RefuseCall, RequestCheck, RequestCount, CallServer, GetApi,
       CallSucceeds, CallFails, tables
  <2>4. \A x \in Confs[1].sites : server'[x] = "real"
    <3>1. CASE GetApi(w)
      <4>1. \A x \in Confs[1].sites : x \in Site /\ server[x] = "real"
        BY SwitchStatsAssumption DEF FlagInv, Tables1
      <4>2. \A x \in Site : server[x] = "real" => server'[x] = "real"
        BY <1>0, <3>1 DEF GetApi
      <4> QED BY <4>1, <4>2
    <3>2. CASE ~GetApi(w)
      BY <1>1, <3>2 DEF CallStep, BeginCall, RefuseCall, RequestCheck, RequestCount, CallServer,
         CallSucceeds, CallFails, tables, FlagInv, Tables1
    <3> QED BY <3>1, <3>2
  <2>5. Tables1'
    BY <2>1, <2>3, <2>4 DEF FlagInv, Tables1, OthersStay
  <2>6. FlagsLoaded' /\ FlagOwned'
    BY <2>1, <2>2, FlagsKept
  <2> QED BY <2>3, <2>5, <2>6 DEF FlagInv, ErrorIsReturned
<1>2. CASE ErrorStep(w)
  <2>1. /\ OthersStay(w) /\ wk[w].pc \notin Deciding
        /\ wk'[w].pc \in Switching => wk'[w].site = route[wk[w].service]
        /\ UNCHANGED <<stats, lock, exited, route, server>>
    BY <1>0, <1>2, ErrorMoves DEF tables
  <2>2. wk[w].service \in Service
    BY <1>0 DEF TypeInv, TypeOK, WkState
  <2>3. Tables1'
    BY <2>1, <2>2, Settled, TablesKept
  <2>4. FlagsLoaded' /\ FlagOwned'
    BY <2>1, FlagsKept DEF SameFlags
  <2> QED BY <2>1, <2>3, <2>4 DEF FlagInv, ErrorIsReturned
<1>3. CASE ErrorCheck(w)
  <2>1. /\ OthersStay(w) /\ wk[w].pc = "errcheck"
        /\ wk'[w].pc # "idle" => wk'[w].site = wk[w].site
    BY <1>0, <1>3, CheckMoves DEF ErrorCheck
  <2>2. UNCHANGED <<stats, lock, exited, route, server>>
    BY <1>3 DEF ErrorCheck, tables
  <2>3. Tables1'
    BY <2>1, <2>2, TablesKept DEF FlagInv, Tables1
  <2>4. FlagsLoaded' /\ FlagOwned'
    BY <2>1, <2>2, FlagsKept DEF SameFlags
  <2> QED BY <2>2, <2>3, <2>4 DEF FlagInv, ErrorIsReturned
<1> QED BY <1>1, <1>2, <1>3

LEMMA DecideFlags ==
    ASSUME FlagInv, NEW w \in Worker, ServerName(w) \/ NextIdc(w) \/ SetSwitchOn(w)
    PROVE  Tables1' /\ FlagsLoaded' /\ FlagOwned' /\ ErrorIsReturned'
<1> USE DEF Deciding, Switching
<1>1. TypeInv
  BY DEF FlagInv, LockInv
<1>2. /\ OthersStay(w) /\ wk'[w].pc \in Deciding /\ wk[w].pc \in Deciding
      /\ wk'[w].kind = wk[w].kind /\ wk'[w].service = wk[w].service /\ wk'[w].site = wk[w].site
  BY <1>1, Stays DEF ServerName, NextIdc, SetSwitchOn
<1>3. UNCHANGED <<stats, lock, exited, route, server>>
  BY DEF ServerName, NextIdc, SetSwitchOn, tables
<1>4. Tables1'
  BY <1>2, <1>3, TablesKept DEF FlagInv, Tables1
<1>5. FlagsLoaded' /\ FlagOwned'
  BY <1>2, <1>3, FlagsKept DEF SameFlags
<1> QED BY <1>3, <1>4, <1>5 DEF FlagInv, ErrorIsReturned

(* Nobody decides for a kind whose lock is free, so none of its keys is due. *)
LEMMA NoneDue ==
    ASSUME FlagInv, NEW d, lock[d] = NoOne, NEW k \in Key, KindOf(k) = d
    PROVE  ~stats[k].to_be_switched
BY SwitchStatsAssumption DEF FlagInv, FlagOwned, Owner

LEMMA ErrorFlags ==
    ASSUME FlagInv, NEW w \in Worker, ErrorCount(w)
    PROVE  Tables1' /\ FlagsLoaded' /\ FlagOwned' /\ ErrorIsReturned'
<1> DEFINE k == KeyAt(w)  d == wk[w].kind
<1>0. /\ TypeInv /\ wk[w].pc = "errcount" /\ lock[d] = NoOne /\ d \in Kind
      /\ stats \in [Key -> Stat] /\ lock \in [Kind -> Worker \cup {Main, NoOne}]
  BY DEF FlagInv, LockInv, TypeInv, TypeOK, WkState, ErrorCount, NeedSwitch
<1>1. k \in Key /\ KindOf(k) = d /\ ~stats[k].to_be_switched
  BY <1>0, Settled, NoneDue DEF Switching
<1>2. UNCHANGED <<exited, route, server>>
  BY DEF ErrorCount, NeedSwitch, tables
<1>3. /\ \A j \in Key \ {k} : stats'[j] = stats[j]
      /\ stats'[k].loaded = stats[k].loaded
      /\ stats'[k].to_be_switched => stats[k].loaded
  <2>1. CASE stats[k].loaded
    <3>1. stats' = [stats EXCEPT ![k] = IncrementErrors(stats[k], ConfOf(k), now)]
      BY <2>1 DEF ErrorCount, NeedSwitch
    <3>2. stats[k] \in Stat
      BY <1>0, <1>1
    <3>3. IncrementErrors(stats[k], ConfOf(k), now).loaded = stats[k].loaded
      BY <3>2, CountersKeep
    <3> HIDE DEF k
    <3> QED BY <1>0, <1>1, <2>1, <3>1, <3>3
  <2>2. CASE ~stats[k].loaded
    BY <1>1, <2>2 DEF ErrorCount, NeedSwitch
  <2> QED BY <2>1, <2>2
<1>4. CASE stats'[k].to_be_switched
  <2>1. Goto(w, "servername") /\ lock' = [lock EXCEPT ![d] = w]
    BY <1>4 DEF ErrorCount, NeedSwitch
  <2>2. /\ OthersStay(w) /\ wk'[w].pc = "servername" /\ wk'[w].kind = d
        /\ wk'[w].service = wk[w].service /\ wk'[w].site = wk[w].site
    BY <1>0, <2>1, Stays
  <2>3. lock'[d] = w /\ \A c \in Kind \ {d} : lock'[c] = lock[c]
    BY <1>0, <2>1
  <2>4. Tables1'
    BY <1>0, <1>2, <2>2, TablesKept DEF FlagInv, Tables1, Switching
  <2>5. FlagsLoaded'
    BY <1>3 DEF FlagInv, FlagsLoaded
  <2>6. ASSUME NEW j \in Key, stats'[j].to_be_switched
        PROVE  \E v \in Worker : Owner(v, j)'
    <3>1. CASE j = k
      BY <1>1, <2>2, <2>3, <3>1 DEF Owner, KeyAt, Deciding
    <3>2. CASE j # k
      <4>1. stats[j].to_be_switched
        BY <1>3, <2>6, <3>2
      <4>2. PICK v \in Worker : Owner(v, j)
        BY <4>1 DEF FlagInv, FlagOwned
      <4>3. KindOf(j) # d
        BY <1>0, <4>1, NoneDue
      <4>4. v # w /\ KindOf(j) \in Kind
        BY <1>0, <4>2 DEF Owner, Deciding, KindOf, Kind
      <4> QED BY <2>2, <2>3, <4>2, <4>3, <4>4 DEF Owner, KeyAt, OthersStay
    <3> QED BY <3>1, <3>2
  <2> QED BY <1>2, <2>4, <2>5, <2>6 DEF FlagOwned, FlagInv, ErrorIsReturned
<1>5. CASE ~stats'[k].to_be_switched
  <2>1. NotSwitched(w) /\ UNCHANGED lock
    BY <1>5 DEF ErrorCount, NeedSwitch
  <2>2. OthersStay(w) /\ (wk'[w].pc # "idle" => wk'[w].site = wk[w].site)
    <3>1. CASE GoOn(w, "errcheck", "site")
      BY <1>0, <3>1, Stays
    <3>2. CASE Return(w)
      BY <1>0, <3>2, Stays
    <3> QED BY <2>1, <3>1, <3>2 DEF NotSwitched
  <2>3. SameFlags
    <3> SUFFICES ASSUME NEW j \in Key
                 PROVE  /\ stats'[j].to_be_switched = stats[j].to_be_switched
                        /\ stats'[j].loaded = stats[j].loaded
      BY DEF SameFlags
    <3>1. CASE j # k
      BY <1>3, <3>1
    <3>2. CASE j = k
      <4>1. stats[k].to_be_switched = FALSE /\ stats'[k].to_be_switched = FALSE
        <5>1. stats' \in [Key -> Stat]
          BY ErrorCountTyped, <1>0 DEF TypeInv, TypeOK
        <5> QED BY <1>0, <1>1, <1>5, <5>1 DEF Stat
      <4> QED BY <1>3, <3>2, <4>1
    <3> QED BY <3>1, <3>2
  <2>4. Tables1'
    BY <1>0, <1>2, <2>2, TablesKept DEF FlagInv, Tables1, Switching, Deciding
  <2>5. FlagsLoaded' /\ FlagOwned'
    BY <1>0, <2>1, <2>2, <2>3, FlagsKept DEF Deciding
  <2> QED BY <1>2, <2>4, <2>5 DEF FlagInv, ErrorIsReturned
<1> QED BY <1>4, <1>5

(* What a reset leaves of the flags: none of the key, and no new one. *)
LEMMA ResetClears ==
    ASSUME TypeInv, NEW k, stats' = ResetKey(k)
    PROVE  /\ \A j \in Key : stats'[j].to_be_switched =>
                 stats[j].to_be_switched /\ stats'[j].loaded = stats[j].loaded
           /\ k \in Key /\ stats[k].loaded => ~stats'[k].to_be_switched
<1>1. \A j \in Key : stats'[j] = IF j \in SameId(k) THEN Fresh(now) ELSE stats[j]
  BY DEF ResetKey
<1>2. ~Fresh(now).to_be_switched
  BY DEF Fresh
<1>3. k \in Key /\ stats[k].loaded => k \in SameId(k)
  BY DEF SameId
<1> QED BY <1>1, <1>2, <1>3

LEMMA ResetFlags ==
    ASSUME FlagInv, NEW w \in Worker, ResetStats(w) \/ ResetOther(w)
    PROVE  Tables1' /\ FlagsLoaded' /\ FlagOwned' /\ ErrorIsReturned'
<1> DEFINE k == KeyAt(w)
<1>0. /\ TypeInv /\ stats' = ResetKey(k) /\ UNCHANGED <<exited, route, server>>
      /\ lock \in [Kind -> Worker \cup {Main, NoOne}]
  BY DEF FlagInv, LockInv, TypeInv, TypeOK, ResetStats, ResetOther, tables
<1>1. OthersStay(w) /\ wk'[w].pc \in {"resetother", "idle"}
  BY <1>0, Stays DEF ResetStats, ResetOther
<1>2. Tables1'
  BY <1>0, <1>1, TablesKept DEF Switching, Deciding
<1>3. FlagsLoaded'
  BY <1>0, ResetClears DEF FlagInv, FlagsLoaded
<1>4. ASSUME NEW j \in Key, stats'[j].to_be_switched
      PROVE  \E v \in Worker : Owner(v, j)'
  <2>1. stats[j].to_be_switched
    BY <1>0, <1>4, ResetClears
  <2>2. PICK v \in Worker : Owner(v, j)
    BY <2>1 DEF FlagInv, FlagOwned
  <2>3. CASE ResetStats(w)
    <3>1. /\ k \in Key /\ lock[wk[w].kind] = w /\ wk[w].kind \in Kind
          /\ lock' = [lock EXCEPT ![wk[w].kind] = NoOne]
      BY <2>3, Settled DEF ResetStats, Deciding, Switching, FlagInv, LockInv, DecidingHolds,
         TypeInv, TypeOK, WkState
    <3>2. j # k
      BY <1>0, <1>4, <2>1, <3>1, ResetClears DEF FlagInv, FlagsLoaded
    <3>3. v # w
      BY <2>2, <3>2 DEF Owner
    <3>4. lock[KindOf(j)] = v /\ KindOf(j) \in Kind
      BY <2>2 DEF Owner, KindOf, Kind
    <3>5. lock'[KindOf(j)] = v
      BY <1>0, <3>1, <3>3, <3>4
    <3> QED BY <1>1, <2>2, <3>3, <3>5 DEF Owner, KeyAt, OthersStay
  <2>4. CASE ResetOther(w)
    <3>1. v # w /\ lock' = lock
      BY <2>2, <2>4 DEF ResetOther, Owner, Deciding
    <3> QED BY <1>1, <2>2, <3>1 DEF Owner, KeyAt, OthersStay
  <2> QED BY <2>3, <2>4
<1> QED BY <1>0, <1>2, <1>3, <1>4 DEF FlagOwned, FlagInv, ErrorIsReturned

LEMMA InitFlags == Init /\ Len(Confs) = 1 => FlagInv
<1> SUFFICES ASSUME Init, Len(Confs) = 1 PROVE FlagInv
  OBVIOUS
<1>1. LockInv
  BY InitLocks
<1>2. Confs[1].sites \subseteq Site
  BY SwitchStatsAssumption
<1>3. Tables1
  BY <1>2 DEF Init, Idle, Tables1, Switching, Deciding
<1>4. \A k \in Key : ~stats[k].to_be_switched
  BY DEF Init, Loaded, Fresh, Absent
<1> QED BY <1>1, <1>3, <1>4 DEF FlagInv, FlagsLoaded, FlagOwned, ErrorIsReturned, Init

LEMMA StepFlags == FlagInv /\ [Next]_vars => FlagInv'
<1> SUFFICES ASSUME FlagInv, [Next]_vars PROVE FlagInv'
  OBVIOUS
<1>0. LockInv'
  BY StepLocks DEF FlagInv
<1>1. CASE UNCHANGED vars \/ Tick \/ \E x \in Site : ServeSwitch(x)
  <2>1. UNCHANGED <<stats, lock, wk, exited, route, server>>
    BY <1>1 DEF vars, tables, Tick, ServeSwitch
  <2> QED BY <1>0, <2>1
          DEF FlagInv, Tables1, FlagsLoaded, FlagOwned, Owner, KeyAt, ErrorIsReturned
<1>2. CASE Reload
  BY <1>2, Settled
<1>3. ASSUME NEW w \in Worker, WorkerNext(w) PROVE FlagInv'
  <2>1. ~RacingLookup(w) /\ ~NoServerName(w)
    BY Settled
  <2>2. \/ CallStep(w) \/ ErrorStep(w) \/ ErrorCheck(w)
        \/ ErrorCount(w) \/ ServerName(w) \/ NextIdc(w) \/ SetSwitchOn(w)
        \/ ResetStats(w) \/ ResetOther(w)
    BY <1>3, <2>1 DEF WorkerNext, Step, CallStep, ErrorStep
  <2> QED BY <1>0, <2>2, CallFlags, ErrorFlags, DecideFlags, ResetFlags DEF FlagInv
<1> QED BY <1>1, <1>2, <1>3 DEF Next

(* As long as nothing is reloaded, a key stops counting only while a worker that holds
   the lock of its kind decides about it (switch_mgr.cpp:185), and server_name throws
   for no site, so that no error answer ends the process (relay_server.cpp:790).  *)
THEOREM DecisionsSafe == Len(Confs) = 1 => (Spec => []DecisionsEnd)
<1>1. FlagInv => DecisionsEnd
  BY DEF FlagInv, DecisionsEnd
<1> QED BY InitFlags, StepFlags, <1>1, PTL DEF Spec

----------------------------------------------------------------------------
(* What is counted, and what happened. *)

(* Of a history at t: nothing happens later, and its counts only grow. *)
History(h, t) ==
    /\ h \in [0..MaxTime -> Nat]
    /\ \A i \in 0..MaxTime : i > t => h[i] = h[t]
    /\ \A i, j \in 0..MaxTime : i <= j => h[i] <= h[j]

Since(h, from, to) == h[to] - (IF from = 0 THEN 0 ELSE h[from - 1])

(* An entry at t, its history and its configuration: as long as it counts, nothing
   happened yet in the second that will open the next window.                   *)
Right(st, h, c, t) ==
    /\ st.begin <= t
    /\ st.requests = 0 => st.errors = 0
    /\ ~st.to_be_switched =>
          /\ st.errors <= Since(h, st.begin, t)
          /\ c.time_interval # 0 =>
                /\ st.errors = Since(h, st.begin, t)
                /\ t >= st.begin + c.time_interval => Since(h, t, t) = 0
    /\ st.to_be_switched =>
          /\ c.time_interval # 0
          /\ TooManyErrors(st.requests, st.errors, c)
          /\ LET last == st.begin + c.time_interval - 1 IN
             Since(h, st.begin, IF last < t THEN last ELSE t) >= st.errors

CountInv ==
    /\ TypeInv
    /\ \A k \in Key :
          /\ History(log[k], now)
          /\ stats[k].loaded => /\ k \in DOMAIN Confs[keygen[KindOf(k)]].keys
                                /\ Right(stats[k], log[k], ConfOf(k), now)

LEMMA SinceInt ==
    ASSUME NEW h, NEW t, History(h, t), MaxTime \in Nat, NEW a \in 0..MaxTime, NEW b \in 0..MaxTime
    PROVE  Since(h, a, b) \in Int
<1>1. h[b] \in Nat /\ (a # 0 => h[a - 1] \in Nat)  BY DEF History
<1> QED  BY <1>1 DEF Since

LEMMA HistoryCounted ==
    ASSUME NEW h, now \in 0..MaxTime, MaxTime \in Nat, History(h, now)
    PROVE  /\ History(Counted(h), now)
           /\ \A i \in 0..MaxTime : Counted(h)[i] = IF i < now THEN h[i] ELSE h[i] + 1
BY DEF History, Counted

LEMMA HistoryBlank ==
    ASSUME NEW t \in 0..MaxTime, MaxTime \in Nat, NEW c
    PROVE  History(NoErrors, t) /\ Right(Fresh(t), NoErrors, c, t)
BY DEF History, NoErrors, Right, Fresh, Since

LEMMA RightLater ==
    ASSUME NEW st \in Stat, NEW h, NEW c, c.time_interval \in Nat, MaxTime \in Nat,
           NEW t \in 0..MaxTime, t + 1 \in 0..MaxTime, History(h, t), Right(st, h, c, t)
    PROVE  History(h, t + 1) /\ Right(st, h, c, t + 1)
<1>1. History(h, t + 1)  BY DEF History
<1>2. PICK n : n = c.time_interval /\ n \in Nat  OBVIOUS
<1>3. st.begin \in 0..MaxTime /\ st.errors \in Nat /\ st.requests \in Nat  BY DEF Stat
<1>4. CASE ~st.to_be_switched
  <2>1. h[t + 1] = h[t]  BY DEF History
  <2>2. Since(h, st.begin, t + 1) = Since(h, st.begin, t) /\ Since(h, t + 1, t + 1) = 0
    BY <2>1, <1>3 DEF Since, History
  <2> QED  BY <1>1, <1>3, <1>4, <2>2 DEF Right
<1>5. CASE st.to_be_switched
  <2> DEFINE last == st.begin + n - 1
             seen(i) == Since(h, st.begin, IF last < i THEN last ELSE i)
  <2>1. n # 0 /\ TooManyErrors(st.requests, st.errors, c) /\ seen(t) >= st.errors
    BY <1>2, <1>5 DEF Right
  <2>2. seen(t + 1) >= seen(t)
    <3>1. last \in Nat /\ st.begin <= t  BY <1>2, <1>3, <2>1 DEF Right
    <3>2. CASE last < t
      <4>1. last < t + 1 /\ last \in 0..MaxTime  BY <3>1, <3>2
      <4>2. PICK i \in Int : i = Since(h, st.begin, last)  BY <1>3, <4>1, SinceInt
      <4>3. seen(t) = i /\ seen(t + 1) = i  BY <3>2, <4>1, <4>2
      <4> QED  BY <4>3
    <3>3. CASE last >= t
      <4>1. h[t + 1] >= h[t] /\ h[t + 1] \in Nat /\ h[t] \in Nat  BY DEF History
      <4>2. st.begin # 0 => h[st.begin - 1] \in Nat  BY <1>3, <3>1 DEF History
      <4> QED  BY <1>3, <3>1, <3>3, <4>1, <4>2 DEF Since
    <3> QED  BY <3>1, <3>2, <3>3
  <2>3. seen(t) \in Int /\ seen(t + 1) \in Int
    <3>1. last \in Nat  BY <1>2, <1>3, <2>1
    <3>2. \A i \in {t, t + 1} : (IF last < i THEN last ELSE i) \in 0..MaxTime  BY <3>1
    <3> QED  BY <1>1, <1>3, <3>2, SinceInt
  <2>4. seen(t + 1) >= st.errors  BY <1>3, <2>1, <2>2, <2>3
  <2> QED  BY <1>1, <1>2, <1>3, <1>5, <2>1, <2>4 DEF Right
<1> QED  BY <1>4, <1>5

LEMMA RightRequests ==
    ASSUME NEW st \in Stat, NEW h, NEW c, c.time_interval \in Nat, MaxTime \in Nat,
           NEW t \in 0..MaxTime, History(h, t), Right(st, h, c, t)
    PROVE  Right(IncrementRequests(st, c, t), h, c, t)
<1>1. PICK n : n = c.time_interval /\ n \in Nat  OBVIOUS
<1>2. st.begin \in 0..MaxTime /\ st.errors \in Nat /\ st.requests \in Nat  BY DEF Stat
<1>3. CASE st.to_be_switched
  BY <1>3 DEF IncrementRequests
<1>4. CASE ~st.to_be_switched /\ t - st.begin < n
  <2>1. PICK new : new = [st EXCEPT !.requests = @ + 1] /\ new = IncrementRequests(st, c, t)
    BY <1>1, <1>4 DEF IncrementRequests
  <2>2. /\ new.begin = st.begin /\ new.errors = st.errors /\ ~new.to_be_switched
        /\ new.requests = st.requests + 1
    BY <1>4, <2>1 DEF Stat
  <2>3. new.requests # 0  BY <1>2, <2>2
  <2> QED  BY <1>4, <2>1, <2>2, <2>3 DEF Right
<1>5. CASE ~st.to_be_switched /\ ~(t - st.begin < n)
  <2>1. PICK new : /\ new = [st EXCEPT !.requests = 1, !.errors = 0, !.begin = t]
                   /\ new = IncrementRequests(st, c, t)
    BY <1>1, <1>5 DEF IncrementRequests
  <2>2. new.begin = t /\ new.errors = 0 /\ ~new.to_be_switched /\ new.requests = 1
    BY <1>5, <2>1 DEF Stat
  <2>3. 0 <= Since(h, t, t) /\ (n # 0 => Since(h, t, t) = 0)
    <3>1. t # 0 => h[t - 1] <= h[t] /\ h[t - 1] \in Nat  BY DEF History
    <3>2. h[t] \in Nat  BY DEF History
    <3>3. 0 <= Since(h, t, t)  BY <3>1, <3>2 DEF Since
    <3>4. n # 0 => Since(h, t, t) = 0  BY <1>1, <1>2, <1>5 DEF Right
    <3> QED  BY <3>3, <3>4
  <2>4. n # 0 => ~(t >= t + n)  BY <1>1
  <2>5. t <= t  OBVIOUS
  <2>6. Right(new, h, c, t)  BY <1>1, <2>2, <2>3, <2>4, <2>5, Zenon DEF Right
  <2> QED  BY <2>1, <2>6
<1> QED  BY <1>3, <1>4, <1>5

LEMMA RightErrors ==
    ASSUME NEW st \in Stat, NEW h, NEW c, c.time_interval \in Nat, MaxTime \in Nat,
           now \in 0..MaxTime, History(h, now), Right(st, h, c, now)
    PROVE  Right(IncrementErrors(st, c, now), Counted(h), c, now)
<1>1. PICK n : n = c.time_interval /\ n \in Nat  OBVIOUS
<1>2. st.begin \in 0..MaxTime /\ st.errors \in Nat /\ st.requests \in Nat  BY DEF Stat
<1>3. PICK g : g = Counted(h)  OBVIOUS
<1>4. History(g, now) /\ \A i \in 0..MaxTime : g[i] = IF i < now THEN h[i] ELSE h[i] + 1
  BY <1>3, HistoryCounted
<1>5. st.begin <= now  BY DEF Right
<1>6. Since(g, st.begin, now) = Since(h, st.begin, now) + 1 /\ Since(g, now, now) = Since(h, now, now) + 1
  <2>1. g[now] = h[now] + 1 /\ h[now] \in Nat  BY <1>4 DEF History
  <2>2. \A i \in 0..MaxTime : i <= now /\ i # 0 => g[i - 1] = h[i - 1] /\ h[i - 1] \in Nat
    BY <1>4 DEF History
  <2> QED  BY <1>2, <1>5, <2>1, <2>2 DEF Since
<1>7. Since(h, st.begin, now) \in Int /\ Since(h, now, now) \in Int  BY <1>2, SinceInt
<1>8. CASE st.to_be_switched
  <2> DEFINE last == st.begin + n - 1
             to == IF last < now THEN last ELSE now
  <2>1. n # 0 /\ TooManyErrors(st.requests, st.errors, c) /\ Since(h, st.begin, to) >= st.errors
    BY <1>1, <1>8 DEF Right
  <2>2. to \in 0..MaxTime /\ to <= now  BY <1>1, <1>2, <2>1
  <2>3. Since(h, st.begin, to) \in Int /\ Since(g, st.begin, to) >= Since(h, st.begin, to)
    <3>1. g[to] >= h[to] /\ h[to] \in Nat /\ g[to] \in Nat
      BY <1>4, <2>2 DEF History
    <3>2. st.begin # 0 => g[st.begin - 1] = h[st.begin - 1] /\ h[st.begin - 1] \in Nat
      <4>1. PICK i \in Nat : i = st.begin /\ i \in 0..MaxTime /\ i <= now  BY <1>2, <1>5
      <4>2. i # 0 => i - 1 \in 0..MaxTime /\ i - 1 < now  BY <4>1
      <4>3. h \in [0..MaxTime -> Nat]  BY DEF History
      <4> QED  BY <1>4, <4>1, <4>2, <4>3
    <3> HIDE DEF to
    <3> QED  BY <3>1, <3>2 DEF Since
  <2>4. Since(g, st.begin, to) >= st.errors
    <3>1. Since(g, st.begin, to) \in Int  BY <1>2, <1>4, <2>2, SinceInt
    <3> HIDE DEF to
    <3> QED  BY <1>2, <2>1, <2>3, <3>1
  <2>5. st.requests = 0 => st.errors = 0  BY DEF Right
  <2>6. Right(st, g, c, now)  BY <1>1, <1>5, <1>8, <2>1, <2>4, <2>5 DEF Right
  <2> QED  BY <1>3, <1>8, <2>6 DEF IncrementErrors
<1>9. CASE ~st.to_be_switched /\ now - st.begin < n
  <2>1. PICK r : r = (IF st.requests = 0 THEN 1 ELSE st.requests) /\ r \in Nat \ {0}  BY <1>2
  <2>2. PICK e : e = (IF st.requests = 0 THEN 1 ELSE st.errors + 1) /\ e = st.errors + 1 /\ e \in Nat
    BY <1>2 DEF Right
  <2>3. PICK b \in BOOLEAN : b = TooManyErrors(r, e, c)  BY Zenon DEF TooManyErrors
  <2>4. PICK new : /\ new = [st EXCEPT !.requests = r, !.errors = e, !.to_be_switched = b]
                   /\ new = IncrementErrors(st, c, now)
    BY <1>1, <1>9, <2>1, <2>2, <2>3, Zenon DEF IncrementErrors
  <2>5. new.begin = st.begin /\ new.errors = e /\ new.requests = r /\ new.to_be_switched = b
    BY <2>4 DEF Stat
  <2>6. n # 0  BY <1>2, <1>5, <1>9
  <2>7. e = Since(g, st.begin, now)
    <3>1. st.errors = Since(h, st.begin, now)  BY <1>1, <1>9, <2>6 DEF Right
    <3> QED  BY <1>6, <2>2, <3>1
  <2>8. r # 0 /\ ~(now >= st.begin + n) /\ ~(st.begin + n - 1 < now)
        /\ e <= Since(g, st.begin, now) /\ Since(g, st.begin, now) >= e
    BY <1>1, <1>2, <1>9, <2>1, <2>2, <2>7
  <2>9. Right(new, g, c, now)
    BY <1>1, <1>5, <2>3, <2>5, <2>6, <2>7, <2>8, Zenon DEF Right
  <2> QED  BY <1>3, <2>4, <2>9
<1>10. CASE ~st.to_be_switched /\ ~(now - st.begin < n)
  <2>1. PICK new : /\ new = [st EXCEPT !.requests = 1, !.errors = 1, !.begin = now]
                   /\ new = IncrementErrors(st, c, now)
    BY <1>1, <1>10, Zenon DEF IncrementErrors
  <2>2. new.begin = now /\ new.errors = 1 /\ ~new.to_be_switched /\ new.requests = 1
    BY <1>10, <2>1 DEF Stat
  <2>3. 1 <= Since(g, now, now) /\ (n # 0 => 1 = Since(g, now, now))
    <3>1. now # 0 => h[now - 1] <= h[now] /\ h[now - 1] \in Nat  BY DEF History
    <3>2. h[now] \in Nat  BY DEF History
    <3>3. 0 <= Since(h, now, now)  BY <3>1, <3>2 DEF Since
    <3>4. n # 0 => Since(h, now, now) = 0  BY <1>1, <1>2, <1>10 DEF Right
    <3> QED  BY <1>6, <1>7, <3>3, <3>4
  <2>4. n # 0 => ~(now >= now + n)  BY <1>1
  <2>5. now <= now /\ 1 # 0  OBVIOUS
  <2>6. Right(new, g, c, now)  BY <1>1, <2>2, <2>3, <2>4, <2>5, Zenon DEF Right
  <2> QED  BY <1>3, <2>1, <2>6
<1> QED  BY <1>8, <1>9, <1>10

(* What is asked of the statistics follows. *)
LEMMA CountInvExact == CountInv => StatsExact
<1> SUFFICES ASSUME CountInv PROVE StatsExact
  OBVIOUS
<1>1. TypeOK  BY DEF CountInv, TypeInv
<1>2. \A k, a, b : Logged(k, a, b) = Since(log[k], a, b)  BY DEF Logged, Before, Since
<1>3. ErrorsExact
  BY <1>2, Zenon DEF CountInv, Right, ErrorsExact
<1>4. DecisionJustified
  BY <1>2, Zenon DEF CountInv, Right, DecisionJustified
<1> QED  BY <1>1, <1>3, <1>4 DEF StatsExact

(* The configuration of an entry. *)
LEMMA Intervals ==
    ASSUME TypeInv, NEW k \in Key, k \in DOMAIN Confs[keygen[KindOf(k)]].keys
    PROVE  ConfOf(k).time_interval \in Nat
<1>1. KindOf(k) \in Kind  BY DEF KindOf, Kind
<1>2. PICK g \in 1..Len(Confs) : g = keygen[KindOf(k)]  BY <1>1 DEF TypeInv, TypeOK
<1>3. PICK K \in SUBSET Key : Confs[g].keys \in [K -> KeyConf]  BY SwitchStatsAssumption
<1>4. Confs[g].keys[k] \in KeyConf  BY <1>2, <1>3
<1> QED  BY <1>2, <1>4 DEF ConfOf, KeyConf

LEMMA CountStays ==
    ASSUME CountInv, TypeInv', UNCHANGED <<now, keygen, stats, log>>
    PROVE  CountInv'
BY DEF CountInv, ConfOf

LEMMA CountTick ==
    ASSUME CountInv, TypeInv', Tick
    PROVE  CountInv'
<1>1. now \in 0..MaxTime /\ now' = now + 1 /\ now + 1 \in 0..MaxTime /\ MaxTime \in Nat
      /\ UNCHANGED <<stats, log, keygen>>
  BY SwitchStatsAssumption DEF CountInv, TypeInv, TypeOK, Tick, tables
<1> SUFFICES ASSUME NEW k \in Key
             PROVE  /\ History(log[k], now + 1)
                    /\ stats[k].loaded => Right(stats[k], log[k], ConfOf(k), now + 1)
  BY <1>1 DEF CountInv, ConfOf
<1>2. History(log[k], now)  BY DEF CountInv
<1>3. History(log[k], now + 1)  BY <1>1, <1>2 DEF History
<1>4. ASSUME stats[k].loaded PROVE Right(stats[k], log[k], ConfOf(k), now + 1)
  <2>1. ConfOf(k).time_interval \in Nat /\ Right(stats[k], log[k], ConfOf(k), now)
    BY <1>4, Intervals DEF CountInv
  <2>2. stats[k] \in Stat  BY DEF CountInv, TypeInv, TypeOK
  <2> QED  BY <1>1, <1>2, <2>1, <2>2, RightLater
<1> QED  BY <1>3, <1>4

LEMMA CountRequest ==
    ASSUME CountInv, TypeInv', NEW w \in Worker, RequestCount(w)
    PROVE  CountInv'
<1>1. PICK k : k = KeyAt(w)  OBVIOUS
<1>2. /\ now \in 0..MaxTime /\ MaxTime \in Nat /\ UNCHANGED <<now, log, keygen>>
      /\ stats \in [Key -> Stat] /\ TypeInv
  BY SwitchStatsAssumption DEF CountInv, TypeInv, TypeOK, RequestCount, tables
<1>3. CASE stats' = stats
  BY <1>2, <1>3, CountStays
<1>4. CASE stats[k].loaded /\ stats' = [stats EXCEPT ![k] = IncrementRequests(@, ConfOf(k), now)]
  <2> SUFFICES ASSUME NEW j \in Key, stats'[j].loaded
               PROVE  /\ j \in DOMAIN Confs[keygen[KindOf(j)]].keys
                      /\ Right(stats'[j], log[j], ConfOf(j), now)
    BY <1>2 DEF CountInv, ConfOf
  <2>1. CASE j # k
    <3>1. stats'[j] = stats[j]  BY <1>2, <1>4, <2>1
    <3> QED  BY <3>1 DEF CountInv
  <2>2. CASE j = k
    <3>1. stats'[k] = IncrementRequests(stats[k], ConfOf(k), now)  BY <1>2, <1>4, <2>2
    <3>2. /\ k \in DOMAIN Confs[keygen[KindOf(k)]].keys /\ Right(stats[k], log[k], ConfOf(k), now)
          /\ History(log[k], now)
      BY <1>4, <2>2 DEF CountInv
    <3>3. ConfOf(k).time_interval \in Nat  BY <1>2, <2>2, <3>2, Intervals
    <3>4. stats[k] \in Stat  BY <1>2, <2>2
    <3> QED  BY <1>2, <2>2, <3>1, <3>2, <3>3, <3>4, RightRequests
  <2> QED  BY <2>1, <2>2
<1> QED  BY <1>1, <1>3, <1>4 DEF RequestCount

LEMMA CountError ==
    ASSUME CountInv, TypeInv', NEW w \in Worker, ErrorCount(w)
    PROVE  CountInv'
<1>1. PICK k : k = KeyAt(w)  OBVIOUS
<1>2. /\ now \in 0..MaxTime /\ MaxTime \in Nat /\ UNCHANGED <<now, keygen>>
      /\ stats \in [Key -> Stat] /\ TypeInv /\ log \in [Key -> [0..MaxTime -> Nat]]
  BY SwitchStatsAssumption DEF CountInv, TypeInv, TypeOK, ErrorCount, NeedSwitch, tables
<1>3. CASE UNCHANGED <<stats, log>>
  BY <1>2, <1>3, CountStays
<1>4. CASE /\ stats[k].loaded /\ stats' = [stats EXCEPT ![k] = IncrementErrors(@, ConfOf(k), now)]
           /\ log' = [log EXCEPT ![k] = Counted(@)]
  <2> SUFFICES ASSUME NEW j \in Key
               PROVE  /\ History(log'[j], now)
                      /\ stats'[j].loaded => /\ j \in DOMAIN Confs[keygen[KindOf(j)]].keys
                                             /\ Right(stats'[j], log'[j], ConfOf(j), now)
    BY <1>2 DEF CountInv, ConfOf
  <2>1. CASE j # k
    <3>1. stats'[j] = stats[j] /\ log'[j] = log[j]  BY <1>2, <1>4, <2>1
    <3> QED  BY <3>1 DEF CountInv
  <2>2. CASE j = k
    <3>1. stats'[k] = IncrementErrors(stats[k], ConfOf(k), now) /\ log'[k] = Counted(log[k])
      BY <1>2, <1>4, <2>2
    <3>2. /\ k \in DOMAIN Confs[keygen[KindOf(k)]].keys /\ Right(stats[k], log[k], ConfOf(k), now)
          /\ History(log[k], now)
      BY <1>4, <2>2 DEF CountInv
    <3>3. ConfOf(k).time_interval \in Nat  BY <1>2, <2>2, <3>2, Intervals
    <3>4. stats[k] \in Stat  BY <1>2, <2>2
    <3>5. History(Counted(log[k]), now)  BY <1>2, <3>2, HistoryCounted
    <3> QED  BY <1>2, <2>2, <3>1, <3>2, <3>3, <3>4, <3>5, RightErrors
  <2> QED  BY <2>1, <2>2
<1> QED  BY <1>1, <1>3, <1>4 DEF ErrorCount, NeedSwitch

LEMMA CountReset ==
    ASSUME CountInv, TypeInv', NEW w \in Worker, ResetStats(w) \/ ResetOther(w)
    PROVE  CountInv'
<1>1. PICK gone : gone = SameId(KeyAt(w))  OBVIOUS
<1>2. /\ now \in 0..MaxTime /\ MaxTime \in Nat /\ UNCHANGED <<now, keygen>>
      /\ stats' = ResetKey(KeyAt(w)) /\ Forget(SameId(KeyAt(w)))
  BY SwitchStatsAssumption DEF CountInv, TypeInv, TypeOK, ResetStats, ResetOther, tables
<1>3. \A j \in Key : /\ stats'[j] = IF j \in gone THEN Fresh(now) ELSE stats[j]
                     /\ log'[j] = IF j \in gone THEN NoErrors ELSE log[j]
  BY <1>1, <1>2 DEF ResetKey, Forget
<1>4. \A j \in gone : stats[j].loaded  BY <1>1 DEF SameId
<1> SUFFICES ASSUME NEW j \in Key
             PROVE  /\ History(log'[j], now)
                    /\ stats'[j].loaded => /\ j \in DOMAIN Confs[keygen[KindOf(j)]].keys
                                           /\ Right(stats'[j], log'[j], ConfOf(j), now)
  BY <1>2 DEF CountInv, ConfOf
<1>5. CASE j \in gone
  <2>1. stats'[j] = Fresh(now) /\ log'[j] = NoErrors  BY <1>5, <1>3
  <2>2. History(NoErrors, now) /\ Right(Fresh(now), NoErrors, ConfOf(j), now)  BY <1>2, HistoryBlank
  <2> QED  BY <1>4, <1>5, <2>1, <2>2 DEF CountInv
<1>6. CASE j \notin gone
  <2>1. stats'[j] = stats[j] /\ log'[j] = log[j]  BY <1>6, <1>3
  <2> QED  BY <2>1 DEF CountInv
<1> QED  BY <1>5, <1>6

LEMMA CountReinit ==
    ASSUME CountInv, TypeInv', ReinitClear \/ ReinitFill
    PROVE  CountInv'
<1>1. now \in 0..MaxTime /\ MaxTime \in Nat /\ now' = now
  BY SwitchStatsAssumption DEF CountInv, TypeInv, TypeOK, ReinitClear, ReinitFill
<1>2. PICK d : d = main.kind  OBVIOUS
<1>3. CASE ReinitClear
  <2>1. /\ UNCHANGED <<log, keygen>>
        /\ \A j \in Key : stats'[j] = IF KindOf(j) = d THEN Absent ELSE stats[j]
    BY <1>2, <1>3 DEF ReinitClear, OfKind
  <2>2. ~Absent.loaded  BY DEF Absent
  <2> QED  BY <1>1, <2>1, <2>2 DEF CountInv, ConfOf
<1>4. CASE ReinitFill
  <2>1. PICK keys : keys = DOMAIN NewConf.keys  OBVIOUS
  <2>2. \A j \in Key :
           /\ stats'[j] = IF KindOf(j) = d THEN Loaded(keys, now)[j] ELSE stats[j]
           /\ log'[j] = IF KindOf(j) = d THEN NoErrors ELSE log[j]
    BY <1>2, <1>4, <2>1 DEF ReinitFill, OfKind, Forget
  <2>3. keygen' = [keygen EXCEPT ![d] = main.gen + 1] /\ keygen \in [Kind -> 1..Len(Confs)]
    BY <1>2, <1>4 DEF ReinitFill, CountInv, TypeInv, TypeOK
  <2>4. \A j \in Key : KindOf(j) \in Kind  BY DEF KindOf, Kind
  <2> SUFFICES ASSUME NEW j \in Key
               PROVE  /\ History(log'[j], now)
                      /\ stats'[j].loaded => /\ j \in DOMAIN Confs[keygen'[KindOf(j)]].keys
                                             /\ Right(stats'[j], log'[j], ConfOf(j)', now)
    BY <1>1 DEF CountInv
  <2>5. CASE KindOf(j) # d
    <3>1. keygen'[KindOf(j)] = keygen[KindOf(j)]  BY <2>3, <2>4, <2>5
    <3>2. ConfOf(j)' = ConfOf(j)  BY <3>1 DEF ConfOf
    <3> QED  BY <2>2, <2>5, <3>1, <3>2 DEF CountInv
  <2>6. CASE KindOf(j) = d
    <3>1. keygen'[KindOf(j)] = main.gen + 1  BY <2>3, <2>4, <2>6
    <3>2. stats'[j] = (IF j \in keys THEN Fresh(now) ELSE Absent) /\ log'[j] = NoErrors
      BY <2>2, <2>6 DEF Loaded
    <3>3. ~Absent.loaded  BY DEF Absent
    <3>4. History(NoErrors, now) /\ Right(Fresh(now), NoErrors, ConfOf(j)', now)
      BY <1>1, HistoryBlank
    <3>5. stats'[j].loaded => j \in keys  BY <3>2, <3>3
    <3> QED  BY <2>1, <3>1, <3>2, <3>4, <3>5 DEF NewConf
  <2> QED  BY <2>5, <2>6
<1> QED  BY <1>3, <1>4

LEMMA InitCounts == Init => CountInv
<1> SUFFICES ASSUME Init PROVE CountInv
  OBVIOUS
<1>1. now = 0 /\ 0 \in 0..MaxTime /\ MaxTime \in Nat  BY SwitchStatsAssumption DEF Init
<1>2. \A k \in Key : log[k] = NoErrors /\ keygen[KindOf(k)] = 1
  BY DEF Init, KindOf, Kind
<1>3. \A k \in Key : stats[k] = IF k \in DOMAIN Confs[1].keys THEN Fresh(0) ELSE Absent
  BY DEF Init, Loaded
<1>4. ~Absent.loaded  BY DEF Absent
<1>5. History(NoErrors, 0) /\ \A c : Right(Fresh(0), NoErrors, c, 0)  BY <1>1, HistoryBlank
<1> QED  BY <1>1, <1>2, <1>3, <1>4, <1>5, InitTyped DEF CountInv

LEMMA StepCounts == CountInv /\ [Next]_vars => CountInv'
<1> SUFFICES ASSUME CountInv, [Next]_vars PROVE CountInv'
  OBVIOUS
<1>1. TypeInv'  BY StepTyped DEF CountInv
<1>2. CASE UNCHANGED vars \/ \E x \in Site : ServeSwitch(x)
  <2>1. UNCHANGED <<now, keygen, stats, log>>  BY <1>2 DEF vars, tables, ServeSwitch
  <2> QED  BY <1>1, <2>1, CountStays
<1>3. CASE Tick  BY <1>1, <1>3, CountTick
<1>4. CASE Reload
  <2>1. CASE ReloadClear \/ ReloadRead \/ ReloadHasite \/ ReloadCore
    <3>1. UNCHANGED <<now, keygen, stats, log>>
      BY <2>1 DEF ReloadClear, ReloadRead, ReloadHasite, ReloadCore, tables
    <3> QED  BY <1>1, <3>1, CountStays
  <2> QED  BY <1>1, <1>4, <2>1, CountReinit DEF Reload
<1>5. ASSUME NEW w \in Worker, WorkerNext(w) PROVE CountInv'
  <2>1. CASE RequestCount(w)  BY <1>1, <2>1, CountRequest
  <2>2. CASE ErrorCount(w)  BY <1>1, <2>2, CountError
  <2>3. CASE ResetStats(w) \/ ResetOther(w)  BY <1>1, <2>3, CountReset
  <2>4. CASE /\ ~RequestCount(w) /\ ~ErrorCount(w) /\ ~ResetStats(w) /\ ~ResetOther(w)
    <3>1. UNCHANGED <<now, keygen, stats, log>>
      BY <1>5, <2>4
         DEF WorkerNext, Step, BeginCall, RefuseCall, RequestCheck, CallServer, GetApi,
             CallSucceeds, CallFails, AnswerIsError, WriteError, ErrorCheck, ServerName,
             NoServerName, NextIdc, SetSwitchOn, RacingLookup, tables
    <3> QED  BY <1>1, <3>1, CountStays
  <2> QED  BY <2>1, <2>2, <2>3, <2>4
<1> QED  BY <1>2, <1>3, <1>4, <1>5 DEF Next

(* Through any number of reloads, whoever counts: a key counts the errors of its window,
   each once, and is only to be switched for errors that happened in one interval
   (switch_key_stats.h:172).                                                    *)
THEOREM CountsExactly == Spec => []StatsExact
BY InitCounts, StepCounts, CountInvExact, PTL DEF Spec

(* The part about a key that is not to be switched, which TLC also checks with a reload
   in between (switch_key_stats.h:341).                                         *)
THEOREM ErrorsCountedOnce == Spec => []ErrorsExact
<1>1. CountInv => ErrorsExact  BY CountInvExact DEF StatsExact
<1> QED  BY InitCounts, StepCounts, <1>1, PTL DEF Spec
=============================================================================

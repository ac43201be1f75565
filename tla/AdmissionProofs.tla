-------------------------- MODULE AdmissionProofs --------------------------
(***************************************************************************)
(* Proofs about the admission of requests.                                 *)
(***************************************************************************)
EXTENDS AdmissionProps, FiniteSetTheorems, WellFoundedInduction, TLAPS

(* --------------------------- lemmas about data --------------------------- *)

(* Appending to a sequence keeps what it holds. *)
LEMMA AppendGrows ==
  ASSUME NEW S, NEW s \in Seq(S), NEW e
  PROVE  /\ \E T : Append(s, e) \in Seq(T)
         /\ Len(s) \in Nat /\ Len(Append(s, e)) = Len(s) + 1
         /\ \A i \in 1..Len(s) : Append(s, e)[i] = s[i]
         /\ Append(s, e)[Len(s) + 1] = e
  <1> DEFINE T == S \cup {e}
  <1>1. s \in Seq(T) /\ e \in T
    OBVIOUS
  <1>2. Append(s, e) \in Seq(T)
    BY <1>1
  <1>3. /\ Len(s) \in Nat /\ Len(Append(s, e)) = Len(s) + 1
        /\ \A i \in 1..Len(s) : Append(s, e)[i] = s[i]
        /\ Append(s, e)[Len(s) + 1] = e
    BY <1>1
  <1> QED  BY <1>2, <1>3

(* One function over another. *)
LEMMA OverHolds ==
  ASSUME NEW f, NEW g
  PROVE  /\ DOMAIN Over(f, g) = DOMAIN f \cup DOMAIN g
         /\ \A x \in DOMAIN f : Over(f, g)[x] = f[x]
         /\ \A x \in DOMAIN g \ DOMAIN f : Over(f, g)[x] = g[x]
  BY DEF Over

LEMMA OverType ==
  ASSUME NEW S, NEW f, NEW g, f \in [DOMAIN f -> S], g \in [DOMAIN g -> S]
  PROVE  Over(f, g) \in [DOMAIN f \cup DOMAIN g -> S]
  BY DEF Over

(* The counters a table asks for. *)
LEMMA LimitCountersType ==
  ASSUME now \in 0..MaxNow, NEW d \in Files \cup {Installed}, d.limits # Missing
  PROVE  LET new == LimitCounters(Table(d.limits)) IN
         /\ new \in [DOMAIN new -> Count]
         /\ \A c \in DOMAIN new : c[1] = "limit" /\ new[c].begin = now /\ new[c].count = 0
  <1> DEFINE tbl == Table(d.limits)
  <1>1. \A k \in DOMAIN tbl : k = <<k[1], k[2]>> /\ IsPolicy(tbl[k])
    BY AdmissionAssumption
  <1> HIDE DEF tbl
  <1>2. ASSUME NEW k \in DOMAIN tbl
        PROVE  /\ Policy(tbl[<<k[1], k[2]>>]) \in Count
               /\ Policy(tbl[<<k[1], k[2]>>]).begin = now /\ Policy(tbl[<<k[1], k[2]>>]).count = 0
    <2>1. tbl[<<k[1], k[2]>>] = tbl[k] /\ IsPolicy(tbl[k])
      BY <1>1
    <2> QED  BY <2>1 DEF Policy, IsPolicy, Count
  <1>3. \A c \in DOMAIN LimitCounters(tbl) : \E k \in DOMAIN tbl : c = <<"limit", k[1], k[2]>>
    BY DEF LimitCounters
  <1>4. ASSUME NEW c \in DOMAIN LimitCounters(tbl)
        PROVE  /\ LimitCounters(tbl)[c] \in Count /\ c[1] = "limit"
               /\ LimitCounters(tbl)[c].begin = now /\ LimitCounters(tbl)[c].count = 0
    <2>1. PICK k \in DOMAIN tbl : c = <<"limit", k[1], k[2]>>
      BY <1>3
    <2>2. LimitCounters(tbl)[c] = Policy(tbl[<<k[1], k[2]>>])
      BY <2>1 DEF LimitCounters
    <2> QED  BY <1>2, <2>1, <2>2
  <1>5. LimitCounters(tbl) = [c \in DOMAIN LimitCounters(tbl) |-> LimitCounters(tbl)[c]]
    BY DEF LimitCounters
  <1>6. LimitCounters(tbl) \in [DOMAIN LimitCounters(tbl) -> Count]
    BY <1>4, <1>5
  <1> QED  BY <1>4, <1>6 DEF tbl

LEMMA RuleCountersType ==
  ASSUME now \in 0..MaxNow, NEW f \in RuleFile
  PROVE  LET new == RuleCounters(Table(f)) IN
         /\ new \in [DOMAIN new -> Count]
         /\ \A c \in DOMAIN new : c[1] # "limit" /\ new[c].begin = now /\ new[c].count = 0
         /\ \A m \in DOMAIN Table(f) :
               /\ MasterOf(m) \in DOMAIN new
               /\ \A i \in DOMAIN Items(Table(f)[m]) : ServiceOf(m, i) \in DOMAIN new
  <1> DEFINE tbl == Table(f)
             new == RuleCounters(tbl)
  <1>1. \A m \in DOMAIN tbl :
           /\ IsPolicy(tbl[m].master)
           /\ \A i \in DOMAIN Items(tbl[m]) : IsPolicy(ItemPolicy(tbl[m], i))
    BY AdmissionAssumption
  <1> HIDE DEF tbl
  <1>2. DOMAIN new = {MasterOf(m) : m \in DOMAIN tbl}
                     \cup UNION {{ServiceOf(m, i) : i \in DOMAIN Items(tbl[m])} : m \in DOMAIN tbl}
    BY DEF RuleCounters
  <1>3. new = [c \in DOMAIN new |-> new[c]]
    BY DEF RuleCounters
  <1>4. ASSUME NEW p, IsPolicy(p)
        PROVE  Policy(p) \in Count /\ Policy(p).begin = now /\ Policy(p).count = 0
    BY <1>4 DEF Policy, IsPolicy, Count
  <1>5. ASSUME NEW c \in DOMAIN new
        PROVE  new[c] \in Count /\ c[1] # "limit" /\ new[c].begin = now /\ new[c].count = 0
    <2>1. new[c] = Policy(IF c[1] = "master" THEN tbl[c[2]].master ELSE ItemPolicy(tbl[c[2]], c[3]))
      BY <1>2 DEF RuleCounters
    <2>2. CASE \E m \in DOMAIN tbl : c = MasterOf(m)
      <3>1. PICK m \in DOMAIN tbl : c = MasterOf(m)
        BY <2>2
      <3>2. c[1] = "master" /\ c[2] = m
        BY <3>1 DEF MasterOf
      <3> QED  BY <1>1, <1>4, <2>1, <3>2
    <2>3. CASE \E m \in DOMAIN tbl : \E i \in DOMAIN Items(tbl[m]) : c = ServiceOf(m, i)
      <3>1. PICK m \in DOMAIN tbl : \E i \in DOMAIN Items(tbl[m]) : c = ServiceOf(m, i)
        BY <2>3
      <3>2. PICK i \in DOMAIN Items(tbl[m]) : c = ServiceOf(m, i)
        BY <3>1
      <3>3. c[1] = "service" /\ c[2] = m /\ c[3] = i
        BY <3>2 DEF ServiceOf
      <3> QED  BY <1>1, <1>4, <2>1, <3>3
    <2> QED  BY <1>2, <2>2, <2>3
  <1>6. new \in [DOMAIN new -> Count]
    BY <1>3, <1>5
  <1>7. ASSUME NEW m \in DOMAIN tbl
        PROVE  /\ MasterOf(m) \in DOMAIN new
               /\ \A i \in DOMAIN Items(tbl[m]) : ServiceOf(m, i) \in DOMAIN new
    BY <1>2
  <1> QED  BY <1>5, <1>6, <1>7 DEF tbl

LEMMA UnstartedType ==
  ASSUME NEW C
  PROVE  Unstarted(C) \in [C -> Stat] /\ \A c \in C : Unstarted(C)[c] = NewStat
  <1>1. NewStat \in Stat
    BY DEF NewStat, Stat
  <1> QED  BY <1>1 DEF Unstarted

----------------------------------------------------------------------------
(* Types.  What has to be added to TypeOK to keep it: a thread that counts holds a
   counter that is still there, of the kind it is at, and one that follows a rule
   finds all counters of that rule.                                          *)

RulesCounted ==
    \A m \in DOMAIN rules.tbl :
       /\ MasterOf(m) \in DOMAIN counter
       /\ \A i \in DOMAIN Items(rules.tbl[m]) : ServiceOf(m, i) \in DOMAIN counter

CtrInv ==
    /\ counter \in [DOMAIN counter -> Count] /\ stat \in [DOMAIN counter -> Stat]
    /\ \A c \in DOMAIN counter : counter[c].begin <= now
    /\ RulesCounted

JobInv(w) ==
    /\ DOMAIN job[w] = {"at", "req", "service", "from"}
    /\ DOMAIN reg[w] = {"step", "ctr", "now", "value"}
    /\ job[w].at \in Stage
    /\ job[w].at # "idle" => job[w].req \in Requests /\ job[w].from \in 1..Len(past)
    /\ job[w].at = "idle" => job[w] = NoJob
    /\ reg[w].step \in {"none", "begin", "opened", "count"}
    /\ (reg[w].step # "none") <=> (job[w].at \in Counting)
    /\ reg[w].value \in Nat /\ reg[w].now \in 0..now
    /\ job[w].at \in Counting => reg[w].ctr \in DOMAIN counter /\ reg[w].ctr[1] = job[w].at
    /\ job[w].at \in InRules => MasterKey(job[w].req) \in DOMAIN rules.tbl
    /\ job[w].at = "master" => reg[w].ctr = MasterOf(MasterKey(job[w].req))
    /\ job[w].at = "service" => \E i : reg[w].ctr = ServiceOf(MasterKey(job[w].req), i)

RestInv ==
    /\ DOMAIN job = Worker /\ DOMAIN reg = Worker
    /\ DOMAIN reload = {"at", "file", "ok", "from"} /\ DOMAIN rules = {"on", "tbl"} /\ DOMAIN auth = {"on", "tbl"}
    /\ disk \in Files \cup {Installed}
    /\ auth.on \in BOOLEAN /\ rules.on \in BOOLEAN
    /\ now \in 0..MaxNow /\ arrived \in 0..MaxRequests /\ left \in 0..Reloads
    /\ reload.at \in {"idle", "types", "access", "readaccess", "limits", "readlimits",
                      "others", "auth", "readauth"}
    /\ reload.file \in DOMAIN Ranges /\ reload.from \in 1..Len(past) /\ mgr \in {"idle", "read"}
    /\ \E S : past \in Seq(S)
    /\ Len(past) \in Nat \ {0}

LEMMA NoJobFields ==
  DOMAIN NoJob = {"at", "req", "service", "from"} /\ NoJob.at = "idle"
  <1>1. NoJob.at = "idle"
    BY DEF NoJob
  <1>2. DOMAIN NoJob = {"at", "req", "service", "from"}
    BY DEF NoJob
  <1> QED  BY <1>1, <1>2

TypeInv == CtrInv /\ (\A w \in Worker : JobInv(w)) /\ RestInv

LEMMA TypeGivesType ==
  ASSUME TypeInv
  PROVE  TypeOK
  <1>1. \A w \in Worker :
          /\ job[w].at \in Stage
          /\ job[w] # NoJob =>
                job[w].at # "idle" /\ job[w].req \in Requests /\ job[w].from \in 1..Len(past)
          /\ reg[w].step \in {"none", "begin", "opened", "count"}
          /\ (reg[w].step # "none") <=> (job[w].at \in Counting)
    BY DEF TypeInv, JobInv
  <1> QED  BY <1>1 DEF TypeInv, CtrInv, RestInv, TypeOK

LEMMA InitType ==
  ASSUME Init
  PROVE  TypeInv
  <1>1. now = 0 /\ now \in 0..MaxNow /\ disk = Installed /\ Installed.limits # Missing
    BY AdmissionAssumption DEF Init
  <1>2. PICK f \in RuleFile :
           /\ rules = [on |-> TRUE, tbl |-> Table(f)]
           /\ counter = Over(LimitCounters(Table(Installed.limits)), RuleCounters(Table(f)))
    BY <1>1 DEF Init
  <1> DEFINE lim == LimitCounters(Table(Installed.limits))
             rul == RuleCounters(Table(f))
  <1>3. /\ lim \in [DOMAIN lim -> Count]
        /\ \A c \in DOMAIN lim : c[1] = "limit" /\ lim[c].begin = now /\ lim[c].count = 0
    BY <1>1, LimitCountersType
  <1>4. /\ rul \in [DOMAIN rul -> Count]
        /\ \A c \in DOMAIN rul : c[1] # "limit" /\ rul[c].begin = now /\ rul[c].count = 0
        /\ \A m \in DOMAIN Table(f) :
               /\ MasterOf(m) \in DOMAIN rul
               /\ \A i \in DOMAIN Items(Table(f)[m]) : ServiceOf(m, i) \in DOMAIN rul
    BY <1>1, RuleCountersType
  <1>5. counter = Over(lim, rul)
    BY <1>2
  <1> HIDE DEF lim, rul
  <1>6. DOMAIN counter = DOMAIN lim \cup DOMAIN rul /\ counter \in [DOMAIN counter -> Count]
    <2>1. DOMAIN counter = DOMAIN lim \cup DOMAIN rul
      BY <1>5, OverHolds
    <2>2. Over(lim, rul) \in [DOMAIN lim \cup DOMAIN rul -> Count]
      BY <1>3, <1>4, OverType
    <2> QED  BY <1>5, <2>1, <2>2
  <1>7. stat \in [DOMAIN counter -> Stat]
    BY UnstartedType DEF Init
  <1>8. \A c \in DOMAIN counter : counter[c].begin <= now
    <2>1. /\ \A c \in DOMAIN lim : counter[c] = lim[c]
          /\ \A c \in DOMAIN rul \ DOMAIN lim : counter[c] = rul[c]
      <3>1. /\ \A c \in DOMAIN lim : Over(lim, rul)[c] = lim[c]
            /\ \A c \in DOMAIN rul \ DOMAIN lim : Over(lim, rul)[c] = rul[c]
        BY OverHolds
      <3> QED  BY <1>5, <3>1
    <2>2. \A c \in DOMAIN counter : counter[c].begin = now
      BY <1>3, <1>4, <1>6, <2>1
    <2> QED  BY <1>1, <2>2
  <1>9. RulesCounted
    BY <1>2, <1>4, <1>6 DEF RulesCounted
  <1>10. past \in Seq({Snapshot}) /\ Len(past) = 1
    BY DEF Init
  <1>11. ASSUME NEW w \in Worker PROVE JobInv(w)
    <2>1. job[w] = NoJob /\ reg[w] = NoReg
      BY DEF Init
    <2>2. "idle" \in Stage /\ "idle" \notin Counting /\ "idle" \notin InRules
      BY DEF Stage, Counting, InRules
    <2>3. /\ DOMAIN job[w] = {"at", "req", "service", "from"} /\ job[w].at = "idle"
          /\ DOMAIN reg[w] = {"step", "ctr", "now", "value"} /\ reg[w].step = "none"
          /\ reg[w].value = 0 /\ reg[w].now = 0
      <3>1. DOMAIN job[w] = {"at", "req", "service", "from"} /\ job[w].at = "idle"
        BY <2>1, NoJobFields
      <3>2. /\ DOMAIN reg[w] = {"step", "ctr", "now", "value"} /\ reg[w].step = "none"
            /\ reg[w].value = 0 /\ reg[w].now = 0
        BY <2>1 DEF NoReg
      <3> QED  BY <3>1, <3>2
    <2> QED  BY <1>1, <2>1, <2>2, <2>3 DEF JobInv
  <1>12. RestInv
    <2>1. DOMAIN job = Worker /\ DOMAIN reg = Worker
      BY DEF Init
    <2>2. /\ DOMAIN reload = {"at", "file", "ok", "from"} /\ reload.at = "idle" /\ reload.file = 1
          /\ reload.from = 1
          /\ DOMAIN rules = {"on", "tbl"} /\ DOMAIN auth = {"on", "tbl"}
      BY <1>2 DEF Init
    <2>4. auth.on \in BOOLEAN /\ rules.on \in BOOLEAN
      BY <1>2 DEF Init
    <2>3. 1 \in DOMAIN Ranges /\ arrived \in 0..MaxRequests /\ left \in 0..Reloads /\ mgr = "idle"
      BY AdmissionAssumption DEF Init
    <2>5. Len(past) \in Nat \ {0} /\ (\E S : past \in Seq(S)) /\ 1 \in 1..Len(past)
      BY <1>10
    <2> QED  BY <1>1, <2>1, <2>2, <2>3, <2>4, <2>5 DEF RestInv
  <1> QED  BY <1>6, <1>7, <1>8, <1>9, <1>11, <1>12 DEF TypeInv, CtrInv

(* The numbers of a counter and of its history. *)
LEMMA CounterFields ==
  ASSUME CtrInv, NEW c \in DOMAIN counter
  PROVE  /\ DOMAIN counter[c] = {"time", "max", "begin", "count"}
         /\ counter[c].time \in Nat /\ counter[c].max \in Nat
         /\ counter[c].begin \in Nat /\ counter[c].count \in Nat
  <1>1. counter[c] \in Count
    BY DEF CtrInv
  <1> QED  BY <1>1 DEF Count

LEMMA StatFields ==
  ASSUME CtrInv, NEW c \in DOMAIN counter
  PROVE  /\ DOMAIN stat = DOMAIN counter
         /\ DOMAIN stat[c] = {"all", "passed", "refused", "items", "torn"}
         /\ stat[c].all \in Nat /\ stat[c].passed \in Nat /\ stat[c].refused \in Nat
         /\ stat[c].items \in Nat /\ stat[c].torn \in BOOLEAN
  <1>1. stat[c] \in Stat /\ DOMAIN stat = DOMAIN counter
    BY DEF CtrInv
  <1> QED  BY <1>1 DEF Stat

(* ------------------------------- the steps ------------------------------ *)

(* A step that changes nothing but where a thread is, and where that is. *)
Waits(w) == job[w].at # "idle" /\ job[w].at \notin Counting
MovesTo(w, S) ==
    /\ Waits(w) /\ OnlyJob
    /\ DOMAIN job' = Worker /\ \A v \in Worker \ {w} : job'[v] = job[v]
    /\ \/ job'[w] = NoJob
       \/ /\ job'[w].at \in S /\ DOMAIN job'[w] = {"at", "req", "service", "from"}
          /\ job'[w].req = job[w].req /\ job'[w].from = job[w].from

LEMMA GotoMoves ==
  ASSUME TypeInv, NEW w \in Worker, NEW p, Goto(w, p)
  PROVE  /\ DOMAIN job' = Worker /\ \A v \in Worker \ {w} : job'[v] = job[v]
         /\ job'[w].at = p /\ DOMAIN job'[w] = {"at", "req", "service", "from"}
         /\ job'[w].req = job[w].req /\ job'[w].from = job[w].from
  BY DEF TypeInv, JobInv, RestInv, Goto

LEMMA PassMoves ==
  ASSUME TypeInv, NEW w \in Worker, NEW p, NEW ok, Pass(w, ok, p)
  PROVE  /\ DOMAIN job' = Worker /\ \A v \in Worker \ {w} : job'[v] = job[v]
         /\ \/ job'[w] = NoJob /\ ~ok
            \/ /\ ok /\ job'[w].at = p /\ DOMAIN job'[w] = {"at", "req", "service", "from"}
               /\ job'[w].req = job[w].req /\ job'[w].from = job[w].from
  <1>1. CASE ok
    BY <1>1, GotoMoves DEF Pass
  <1>2. CASE ~ok
    BY <1>2 DEF Pass, TypeInv, RestInv
  <1> QED  BY <1>1, <1>2

Quiet == {"auth", "authlist", "conf", "freq", "rule", "rulelock", "call"}

(* Counting begins on a counter that is there, at the stage that is named for it. *)
Begins(w, c) ==
    /\ Load(w, c) /\ c \in DOMAIN counter
    /\ job[w].at # "idle" /\ job[w].at \notin Counting
    /\ \/ c[1] = "limit" /\ job[w].at = "freq"
       \/ /\ c[1] = "master" /\ job[w].at = "rulelock"
          /\ c = MasterOf(MasterKey(job[w].req)) /\ MasterKey(job[w].req) \in DOMAIN rules.tbl
       \/ /\ c[1] = "service" /\ job[w].at = "keys"
          /\ \E i : c = ServiceOf(MasterKey(job[w].req), i)

LEMMA StepKinds ==
  ASSUME TypeInv, NEW w \in Worker, Step(w)
  PROVE  MovesTo(w, Quiet) \/ (\E c : Begins(w, c)) \/ StoreBegin(w) \/ StoreCount(w)
  <1>1. ASSUME NEW p \in Quiet, Goto(w, p), OnlyJob, Waits(w)
        PROVE  MovesTo(w, Quiet)
    BY <1>1, GotoMoves DEF MovesTo
  <1>2. ASSUME NEW p \in Quiet, NEW ok, Pass(w, ok, p), OnlyJob, Waits(w)
        PROVE  MovesTo(w, Quiet)
    BY <1>2, PassMoves DEF MovesTo
  <1>3. CASE CheckAccess(w)
    <2>0. Waits(w)
      BY <1>3 DEF CheckAccess, Waits, Counting
    <2>1. "auth" \in Quiet
      BY DEF Quiet
    <2> QED  BY <1>2, <1>3, <2>0, <2>1 DEF CheckAccess
  <1>4. CASE ReadIsInit(w)
    <2>0. Waits(w)
      BY <1>4 DEF ReadIsInit, Waits, Counting
    <2>1. (IF auth.on THEN "authlist" ELSE "conf") \in Quiet
      BY DEF Quiet
    <2> QED  BY <1>1, <1>4, <2>0, <2>1 DEF ReadIsInit
  <1>5. CASE Authorized(w)
    <2>0. Waits(w)
      BY <1>5 DEF Authorized, Waits, Counting
    <2>1. "conf" \in Quiet
      BY DEF Quiet
    <2> QED  BY <1>2, <1>5, <2>0, <2>1 DEF Authorized
  <1>6. CASE GetConf(w)
    <2>0. Waits(w)
      BY <1>6 DEF GetConf, Waits, Counting
    <2>1. DOMAIN job = Worker /\ DOMAIN job[w] = {"at", "req", "service", "from"}
      BY DEF TypeInv, JobInv, RestInv
    <2>2. "freq" \in Quiet
      BY DEF Quiet
    <2>3. CASE RequestKey(job[w].req) \in DOMAIN types
      <3>1. job' = [job EXCEPT ![w].at = "freq", ![w].service = types[RequestKey(job[w].req)]]
        BY <1>6, <2>3 DEF GetConf
      <3> QED  BY <1>6, <2>0, <2>1, <2>2, <3>1 DEF GetConf, MovesTo
    <2>4. CASE RequestKey(job[w].req) \notin DOMAIN types
      BY <1>6, <2>0, <2>1, <2>4 DEF GetConf, MovesTo
    <2> QED  BY <2>3, <2>4
  <1>7. CASE CheckFrequency(w)
    <2>0. Waits(w)
      BY <1>7 DEF CheckFrequency, Waits, Counting
    <2>1. "rule" \in Quiet
      BY DEF Quiet
    <2>2. LimitOf(job[w].req)[1] = "limit" /\ "freq" \notin Counting
      BY DEF LimitOf, Counting
    <2>3. CASE LimitOf(job[w].req) \in DOMAIN counter /\ Load(w, LimitOf(job[w].req))
      <3>1. job[w].at = "freq"
        BY <1>7 DEF CheckFrequency
      <3>2. Begins(w, LimitOf(job[w].req))
        BY <2>2, <2>3, <3>1 DEF Begins
      <3> QED  BY <3>2
    <2> QED  BY <1>1, <1>7, <2>0, <2>1, <2>3 DEF CheckFrequency
  <1>8. CASE CheckRules(w)
    <2>0. Waits(w)
      BY <1>8 DEF CheckRules, Waits, Counting
    <2>1. (IF rules.on THEN "rulelock" ELSE "call") \in Quiet
      BY DEF Quiet
    <2> QED  BY <1>1, <1>8, <2>0, <2>1 DEF CheckRules
  <1>9. CASE CountMaster(w)
    <2> DEFINE m == MasterKey(job[w].req)
    <2>0. Waits(w)
      BY <1>9 DEF CountMaster, Waits, Counting
    <2>1. "call" \in Quiet
      BY DEF Quiet
    <2>2. MasterOf(m)[1] = "master" /\ "rulelock" \notin Counting
      BY DEF MasterOf, Counting
    <2>3. CASE rules.on /\ m \in DOMAIN rules.tbl /\ Load(w, MasterOf(m))
      <3>1. job[w].at = "rulelock"
        BY <1>9 DEF CountMaster
      <3>2. MasterOf(m) \in DOMAIN counter
        BY <2>3 DEF TypeInv, CtrInv, RulesCounted
      <3>3. Begins(w, MasterOf(m))
        BY <2>2, <2>3, <3>1, <3>2 DEF Begins
      <3> QED  BY <3>3
    <2> QED  BY <1>1, <1>9, <2>0, <2>1, <2>3 DEF CountMaster
  <1>10. CASE CountService(w)
    <2> DEFINE m == MasterKey(job[w].req)
    <2>0. Waits(w)
      BY <1>10 DEF CountService, Waits, Counting
    <2>1. "call" \in Quiet
      BY DEF Quiet
    <2>2. CASE \E i \in Matching(w) : Load(w, ServiceOf(m, i))
      <3>1. PICK i \in Matching(w) : Load(w, ServiceOf(m, i))
        BY <2>2
      <3>2. job[w].at = "keys" /\ "keys" \in InRules /\ "keys" \notin Counting
        BY <1>10 DEF CountService, InRules, Counting
      <3>3. m \in DOMAIN rules.tbl
        BY <3>2 DEF TypeInv, JobInv
      <3>4. i \in DOMAIN Items(rules.tbl[m])
        BY DEF Matching
      <3>5. ServiceOf(m, i) \in DOMAIN counter
        BY <3>3, <3>4 DEF TypeInv, CtrInv, RulesCounted
      <3>6. ServiceOf(m, i)[1] = "service"
        BY DEF ServiceOf
      <3>7. Begins(w, ServiceOf(m, i))
        BY <3>1, <3>2, <3>5, <3>6 DEF Begins
      <3> QED  BY <3>7
    <2> QED  BY <1>1, <1>10, <2>0, <2>1, <2>2 DEF CountService
  <1>11. CASE Call(w)
    <2>0. Waits(w)
      BY <1>11 DEF Call, Waits, Counting
    <2>1. DOMAIN job = Worker
      BY DEF TypeInv, RestInv
    <2> QED  BY <1>11, <2>0, <2>1 DEF Call, MovesTo
  <1> QED  BY <1>3, <1>4, <1>5, <1>6, <1>7, <1>8, <1>9, <1>10, <1>11 DEF Step

(* A thread that a step leaves alone. *)
LEMMA JobKept ==
  ASSUME TypeInv, NEW v \in Worker, job'[v] = job[v], reg'[v] = reg[v],
         now' \in Nat, now <= now', Len(past)' \in Nat, Len(past) <= Len(past)',
         job[v].at \in Counting => reg[v].ctr \in DOMAIN counter',
         job[v].at \in InRules => MasterKey(job[v].req) \in DOMAIN rules'.tbl
  PROVE  JobInv(v)'
  <1>1. now \in Nat /\ Len(past) \in Nat
    BY AdmissionAssumption DEF TypeInv, RestInv
  <1>2. /\ job[v].from \in 1..Len(past) => job[v].from \in 1..Len(past)'
        /\ reg[v].now \in 0..now => reg[v].now \in 0..now'
    BY <1>1
  <1>3. JobInv(v)
    BY DEF TypeInv
  <1> QED  BY <1>2, <1>3 DEF JobInv

LEMMA MoveType ==
  ASSUME TypeInv, NEW w \in Worker, MovesTo(w, Quiet)
  PROVE  TypeInv'
  <1>1. UNCHANGED <<tables, rules, counter, reload, mgr, left, disk, now, arrived, reg, stat, past>>
    BY DEF MovesTo, OnlyJob
  <1>2. CtrInv'
    BY <1>1 DEF TypeInv, CtrInv, RulesCounted
  <1>3. RestInv'
    BY <1>1 DEF TypeInv, RestInv, tables, MovesTo
  <1>4. ASSUME NEW v \in Worker PROVE JobInv(v)'
    <2>1. JobInv(v)
      BY DEF TypeInv
    <2>2. CASE v # w
      <3>1. job'[v] = job[v] /\ reg'[v] = reg[v]
        BY <1>1, <2>2 DEF MovesTo
      <3>2. now \in Nat /\ Len(past) \in Nat
        BY AdmissionAssumption DEF TypeInv, RestInv
      <3> QED  BY <1>1, <2>1, <3>1, <3>2, JobKept DEF JobInv
    <2>3. CASE v = w
      <3>1. job[w].at # "idle" /\ job[w].at \notin Counting /\ reg'[w] = reg[w] /\ past' = past /\ now' = now
        BY <1>1 DEF MovesTo, Waits
      <3>2. Quiet \subseteq Stage /\ "idle" \notin Quiet /\ "idle" \in Stage
        BY DEF Quiet, Stage
      <3>3. Quiet \cap Counting = {} /\ Quiet \cap InRules = {} /\ Counting \cap {"idle"} = {} /\ "idle" \notin InRules
        BY DEF Quiet, Counting, InRules
      <3>4. "master" \in Counting /\ "service" \in Counting
        BY DEF Counting
      <3>5. CASE job'[w] = NoJob
        BY <2>1, <2>3, <3>1, <3>2, <3>3, <3>4, <3>5, NoJobFields DEF JobInv
      <3>6. CASE /\ job'[w].at \in Quiet /\ DOMAIN job'[w] = {"at", "req", "service", "from"}
                 /\ job'[w].req = job[w].req /\ job'[w].from = job[w].from
        BY <2>1, <2>3, <3>1, <3>2, <3>3, <3>4, <3>6 DEF JobInv
      <3> QED  BY <3>5, <3>6 DEF MovesTo
    <2> QED  BY <2>2, <2>3
  <1> QED  BY <1>2, <1>3, <1>4 DEF TypeInv

(* What the beginning of a count does. *)
LEMMA BeginDoes ==
  ASSUME TypeInv, NEW w \in Worker, NEW c, Begins(w, c)
  PROVE  /\ UNCHANGED <<tables, rules, counter, reload, mgr, left, disk, now, arrived, past>>
         /\ DOMAIN job' = Worker /\ \A v \in Worker \ {w} : job'[v] = job[v]
         /\ job'[w].at = c[1] /\ DOMAIN job'[w] = {"at", "req", "service", "from"}
         /\ job'[w].req = job[w].req /\ job'[w].from = job[w].from
         /\ DOMAIN reg' = Worker /\ \A v \in Worker \ {w} : reg'[v] = reg[v]
         /\ DOMAIN reg'[w] = {"step", "ctr", "now", "value"}
         /\ reg'[w].ctr = c /\ reg'[w].now = now
         /\ Opens(c) => reg'[w].step = "begin" /\ reg'[w].value = FirstCount(c)
         /\ ~Opens(c) => reg'[w].step = "count" /\ reg'[w].value = counter[c].count + 1
         /\ stat' = [stat EXCEPT ![c] =
                  IF Busy(w, c) THEN [@ EXCEPT !.torn = TRUE]
                  ELSE IF Opens(c) THEN [@ EXCEPT !.passed = 0, !.refused = 0, !.torn = FALSE] ELSE @]
  <1>1. Goto(w, c[1])
    BY DEF Begins, Load
  <1>2. /\ UNCHANGED <<tables, rules, counter, reload, mgr, left, disk, now, arrived, past>>
        /\ reg' = [reg EXCEPT ![w] =
                 [step |-> IF Opens(c) THEN "begin" ELSE "count", ctr |-> c, now |-> now,
                  value |-> IF Opens(c) THEN FirstCount(c) ELSE counter[c].count + 1]]
        /\ stat' = [stat EXCEPT ![c] =
                  IF Busy(w, c) THEN [@ EXCEPT !.torn = TRUE]
                  ELSE IF Opens(c) THEN [@ EXCEPT !.passed = 0, !.refused = 0, !.torn = FALSE] ELSE @]
    BY DEF Begins, Load
  <1>3. DOMAIN reg = Worker
    BY DEF TypeInv, RestInv
  <1>4. /\ DOMAIN reg' = Worker /\ \A v \in Worker \ {w} : reg'[v] = reg[v]
        /\ reg'[w] = [step |-> IF Opens(c) THEN "begin" ELSE "count", ctr |-> c, now |-> now,
                      value |-> IF Opens(c) THEN FirstCount(c) ELSE counter[c].count + 1]
    BY <1>2, <1>3
  <1>5. /\ DOMAIN reg'[w] = {"step", "ctr", "now", "value"}
        /\ reg'[w].ctr = c /\ reg'[w].now = now
        /\ Opens(c) => reg'[w].step = "begin" /\ reg'[w].value = FirstCount(c)
        /\ ~Opens(c) => reg'[w].step = "count" /\ reg'[w].value = counter[c].count + 1
    BY <1>4
  <1> QED  BY <1>1, <1>2, <1>4, <1>5, GotoMoves

(* The history of the counter it begins on. *)
LEMMA BeginStat ==
  ASSUME TypeInv, NEW w \in Worker, NEW c, Begins(w, c)
  PROVE  /\ DOMAIN stat' = DOMAIN counter /\ \A d \in DOMAIN counter \ {c} : stat'[d] = stat[d]
         /\ DOMAIN stat'[c] = {"all", "passed", "refused", "items", "torn"}
         /\ stat'[c].all = stat[c].all /\ stat'[c].items = stat[c].items
         /\ Busy(w, c) => stat'[c].passed = stat[c].passed /\ stat'[c].refused = stat[c].refused
                          /\ stat'[c].torn
         /\ ~Busy(w, c) /\ Opens(c) => stat'[c].passed = 0 /\ stat'[c].refused = 0 /\ ~stat'[c].torn
         /\ ~Busy(w, c) /\ ~Opens(c) => stat'[c] = stat[c]
  <1>1. stat' = [stat EXCEPT ![c] =
                  IF Busy(w, c) THEN [@ EXCEPT !.torn = TRUE]
                  ELSE IF Opens(c) THEN [@ EXCEPT !.passed = 0, !.refused = 0, !.torn = FALSE] ELSE @]
    BY BeginDoes
  <1>2. DOMAIN stat = DOMAIN counter /\ c \in DOMAIN counter
        /\ DOMAIN stat[c] = {"all", "passed", "refused", "items", "torn"}
    BY StatFields DEF TypeInv, Begins
  <1>3. /\ DOMAIN stat' = DOMAIN counter /\ \A d \in DOMAIN counter \ {c} : stat'[d] = stat[d]
        /\ stat'[c] = IF Busy(w, c) THEN [stat[c] EXCEPT !.torn = TRUE]
                  ELSE IF Opens(c) THEN [stat[c] EXCEPT !.passed = 0, !.refused = 0, !.torn = FALSE]
                  ELSE stat[c]
    BY <1>1, <1>2
  <1>4. CASE Busy(w, c)
    BY <1>2, <1>3, <1>4
  <1>5. CASE ~Busy(w, c) /\ Opens(c)
    BY <1>2, <1>3, <1>5
  <1>6. CASE ~Busy(w, c) /\ ~Opens(c)
    BY <1>2, <1>3, <1>6
  <1> QED  BY <1>3, <1>4, <1>5, <1>6

LEMMA BeginType ==
  ASSUME TypeInv, NEW w \in Worker, NEW c, Begins(w, c)
  PROVE  TypeInv'
  <1>1. UNCHANGED <<tables, rules, counter, reload, mgr, left, disk, now, arrived, past>>
    BY BeginDoes
  <1>2. c \in DOMAIN counter /\ CtrInv
    BY DEF TypeInv, Begins
  <1>3. stat' \in [DOMAIN counter -> Stat]
    <2>1. stat' = [stat EXCEPT ![c] =
                  IF Busy(w, c) THEN [@ EXCEPT !.torn = TRUE]
                  ELSE IF Opens(c) THEN [@ EXCEPT !.passed = 0, !.refused = 0, !.torn = FALSE] ELSE @]
      BY BeginDoes
    <2>2. stat \in [DOMAIN counter -> Stat] /\ stat[c] \in Stat
      BY <1>2 DEF CtrInv
    <2>3. [stat[c] EXCEPT !.torn = TRUE] \in Stat
      BY <2>2 DEF Stat
    <2>4. [stat[c] EXCEPT !.passed = 0, !.refused = 0, !.torn = FALSE] \in Stat
      BY <2>2 DEF Stat
    <2> QED  BY <1>2, <2>1, <2>2, <2>3, <2>4
  <1>4. CtrInv'
    BY <1>1, <1>2, <1>3 DEF CtrInv, RulesCounted
  <1>5. RestInv'
    BY <1>1, BeginDoes DEF TypeInv, RestInv, tables
  <1>6. now \in Nat /\ Len(past) \in Nat
    BY AdmissionAssumption DEF TypeInv, RestInv
  <1>7. /\ \A v \in Worker \ {w} : job'[v] = job[v] /\ reg'[v] = reg[v]
        /\ Opens(c) => reg'[w].step = "begin" /\ reg'[w].value = FirstCount(c)
        /\ ~Opens(c) => reg'[w].step = "count" /\ reg'[w].value = counter[c].count + 1
    BY BeginDoes
  <1>8. ASSUME NEW v \in Worker PROVE JobInv(v)'
    <2>1. JobInv(v)
      BY DEF TypeInv
    <2>2. CASE v # w
      <3>1. job'[v] = job[v] /\ reg'[v] = reg[v]
        BY <1>7, <2>2
      <3> QED  BY <1>1, <1>6, <2>1, <3>1, JobKept DEF JobInv
    <2>3. CASE v = w
      <3>1. /\ job'[w].at = c[1] /\ DOMAIN job'[w] = {"at", "req", "service", "from"}
            /\ job'[w].req = job[w].req /\ job'[w].from = job[w].from
            /\ DOMAIN reg'[w] = {"step", "ctr", "now", "value"}
            /\ reg'[w].ctr = c /\ reg'[w].now = now
        BY BeginDoes
      <3>2. c[1] \in Counting /\ Counting \subseteq Stage /\ c[1] # "idle"
        BY DEF Begins, Counting, Stage
      <3>3. reg'[w].step \in {"begin", "count"} /\ reg'[w].value \in Nat
        <4>1. FirstCount(c) \in Nat /\ counter[c].count + 1 \in Nat
          BY <1>2, CounterFields DEF FirstCount
        <4> QED  BY <1>7, <4>1
      <3>4. job[w].at # "idle" /\ now \in 0..now
        BY <1>6 DEF Begins
      <3>5. c[1] \in InRules => MasterKey(job[w].req) \in DOMAIN rules.tbl
        BY <2>1, <2>3 DEF Begins, InRules, JobInv
      <3>6. /\ c[1] = "master" => c = MasterOf(MasterKey(job[w].req))
            /\ c[1] = "service" => \E i : c = ServiceOf(MasterKey(job[w].req), i)
        BY DEF Begins
      <3> QED  BY <1>1, <1>2, <2>1, <2>3, <3>1, <3>2, <3>3, <3>4, <3>5, <3>6 DEF JobInv
    <2> QED  BY <2>2, <2>3
  <1> QED  BY <1>4, <1>5, <1>8 DEF TypeInv

(* Storing the time a window began at. *)
LEMMA StoreBeginDoes ==
  ASSUME TypeInv, NEW w \in Worker, StoreBegin(w)
  PROVE  /\ UNCHANGED <<tables, rules, reload, mgr, left, disk, now, arrived, job, stat, past>>
         /\ reg[w].ctr \in DOMAIN counter /\ job[w].at \in Counting /\ reg[w].step = "begin"
         /\ DOMAIN counter' = DOMAIN counter
         /\ \A d \in DOMAIN counter \ {reg[w].ctr} : counter'[d] = counter[d]
         /\ counter'[reg[w].ctr] = [counter[reg[w].ctr] EXCEPT !.begin = reg[w].now]
         /\ DOMAIN reg' = Worker /\ \A v \in Worker \ {w} : reg'[v] = reg[v]
         /\ DOMAIN reg'[w] = {"step", "ctr", "now", "value"} /\ reg'[w].step = "opened"
         /\ reg'[w].ctr = reg[w].ctr /\ reg'[w].now = reg[w].now /\ reg'[w].value = reg[w].value
         /\ counter' \in [DOMAIN counter -> Count]
  <1>1. JobInv(w) /\ DOMAIN reg = Worker /\ CtrInv
    BY DEF TypeInv, RestInv
  <1>2. reg[w].step = "begin" /\ job[w].at \in Counting /\ reg[w].ctr \in DOMAIN counter
    BY <1>1 DEF StoreBegin, JobInv
  <1>3. /\ counter' = [counter EXCEPT ![reg[w].ctr].begin = reg[w].now]
        /\ reg' = [reg EXCEPT ![w].step = "opened"]
        /\ UNCHANGED <<tables, rules, reload, mgr, left, disk, now, arrived, job, stat, past>>
    BY DEF StoreBegin
  <1>4. /\ DOMAIN counter' = DOMAIN counter
        /\ \A d \in DOMAIN counter \ {reg[w].ctr} : counter'[d] = counter[d]
        /\ counter'[reg[w].ctr] = [counter[reg[w].ctr] EXCEPT !.begin = reg[w].now]
    BY <1>2, <1>3
  <1>5. DOMAIN reg[w] = {"step", "ctr", "now", "value"}
    BY <1>1 DEF JobInv
  <1>6. /\ DOMAIN reg' = Worker /\ \A v \in Worker \ {w} : reg'[v] = reg[v]
        /\ DOMAIN reg'[w] = {"step", "ctr", "now", "value"} /\ reg'[w].step = "opened"
        /\ reg'[w].ctr = reg[w].ctr /\ reg'[w].now = reg[w].now /\ reg'[w].value = reg[w].value
    BY <1>1, <1>3, <1>5
  <1>7. counter' \in [DOMAIN counter -> Count]
    <2>1. reg[w].now \in 0..MaxNow
      BY <1>1, AdmissionAssumption DEF JobInv, TypeInv, RestInv
    <2>2. counter \in [DOMAIN counter -> Count] /\ counter[reg[w].ctr] \in Count
      BY <1>1, <1>2 DEF CtrInv
    <2>3. [counter[reg[w].ctr] EXCEPT !.begin = reg[w].now] \in Count
      BY <2>1, <2>2 DEF Count
    <2> QED  BY <1>2, <1>3, <2>2, <2>3
  <1> QED  BY <1>2, <1>3, <1>4, <1>6, <1>7

LEMMA StoreBeginType ==
  ASSUME TypeInv, NEW w \in Worker, StoreBegin(w)
  PROVE  TypeInv'
  <1>1. UNCHANGED <<tables, rules, reload, mgr, left, disk, now, arrived, job, stat, past>>
    BY StoreBeginDoes
  <1>2. DOMAIN counter' = DOMAIN counter /\ counter' \in [DOMAIN counter -> Count]
    BY StoreBeginDoes
  <1>3. now \in Nat /\ Len(past) \in Nat /\ CtrInv /\ JobInv(w)
    BY AdmissionAssumption DEF TypeInv, RestInv
  <1>4. \A d \in DOMAIN counter : counter'[d].begin <= now
    <2>1. /\ \A d \in DOMAIN counter \ {reg[w].ctr} : counter'[d] = counter[d]
          /\ counter'[reg[w].ctr] = [counter[reg[w].ctr] EXCEPT !.begin = reg[w].now]
          /\ reg[w].ctr \in DOMAIN counter
      BY StoreBeginDoes
    <2>2. DOMAIN counter[reg[w].ctr] = {"time", "max", "begin", "count"}
      BY <1>3, <2>1, CounterFields
    <2>3. counter'[reg[w].ctr].begin = reg[w].now /\ reg[w].now <= now
      BY <1>3, <2>1, <2>2 DEF JobInv
    <2> QED  BY <1>3, <2>1, <2>3 DEF CtrInv
  <1>5. CtrInv'
    BY <1>1, <1>2, <1>3, <1>4 DEF CtrInv, RulesCounted
  <1>6. RestInv'
    BY <1>1, StoreBeginDoes DEF TypeInv, RestInv, tables
  <1>7. ASSUME NEW v \in Worker PROVE JobInv(v)'
    <2>1. JobInv(v)
      BY DEF TypeInv
    <2>2. CASE v # w
      <3>1. reg'[v] = reg[v]
        BY <2>2, StoreBeginDoes
      <3> QED  BY <1>1, <1>2, <1>3, <2>1, <3>1, JobKept DEF JobInv
    <2>3. CASE v = w
      <3>1. /\ DOMAIN reg'[w] = {"step", "ctr", "now", "value"} /\ reg'[w].step = "opened"
            /\ reg'[w].ctr = reg[w].ctr /\ reg'[w].now = reg[w].now /\ reg'[w].value = reg[w].value
            /\ job[w].at \in Counting
        BY StoreBeginDoes
      <3> QED  BY <1>1, <1>2, <2>1, <2>3, <3>1 DEF JobInv
    <2> QED  BY <2>2, <2>3
  <1> QED  BY <1>5, <1>6, <1>7 DEF TypeInv

(* Storing the count, which ends it. *)
LEMMA StoreCountDoes ==
  ASSUME TypeInv, NEW w \in Worker, StoreCount(w)
  PROVE  /\ UNCHANGED <<tables, rules, reload, mgr, left, disk, now, arrived, past>>
         /\ reg[w].ctr \in DOMAIN counter /\ job[w].at \in Counting
         /\ reg[w].step \in {"opened", "count"}
         /\ DOMAIN counter' = DOMAIN counter
         /\ \A d \in DOMAIN counter \ {reg[w].ctr} : counter'[d] = counter[d]
         /\ counter'[reg[w].ctr] = [counter[reg[w].ctr] EXCEPT !.count = reg[w].value]
         /\ counter' \in [DOMAIN counter -> Count]
         /\ DOMAIN reg' = Worker /\ \A v \in Worker \ {w} : reg'[v] = reg[v]
         /\ reg'[w] = NoReg
         /\ DOMAIN job' = Worker /\ \A v \in Worker \ {w} : job'[v] = job[v]
         /\ \/ job'[w] = NoJob /\ ~InLimit(w)
            \/ /\ InLimit(w) /\ job'[w].at = After[job[w].at]
               /\ DOMAIN job'[w] = {"at", "req", "service", "from"}
               /\ job'[w].req = job[w].req /\ job'[w].from = job[w].from
         /\ CountDone(reg[w].ctr, InLimit(w))
  <1>1. JobInv(w) /\ DOMAIN reg = Worker /\ CtrInv
    BY DEF TypeInv, RestInv
  <1>2. reg[w].step \in {"opened", "count"}
    BY DEF StoreCount
  <1>3. job[w].at \in Counting /\ reg[w].ctr \in DOMAIN counter
    BY <1>1, <1>2 DEF JobInv
  <1>4. /\ counter' = [counter EXCEPT ![reg[w].ctr].count = reg[w].value]
        /\ reg' = [reg EXCEPT ![w] = NoReg]
        /\ UNCHANGED <<tables, rules, reload, mgr, left, disk, now, arrived, past>>
        /\ Pass(w, InLimit(w), After[job[w].at])
        /\ CountDone(reg[w].ctr, InLimit(w))
    BY DEF StoreCount
  <1>5. /\ DOMAIN counter' = DOMAIN counter
        /\ \A d \in DOMAIN counter \ {reg[w].ctr} : counter'[d] = counter[d]
        /\ counter'[reg[w].ctr] = [counter[reg[w].ctr] EXCEPT !.count = reg[w].value]
    BY <1>3, <1>4
  <1>6. DOMAIN reg' = Worker /\ (\A v \in Worker \ {w} : reg'[v] = reg[v]) /\ reg'[w] = NoReg
    BY <1>1, <1>4
  <1>7. counter' \in [DOMAIN counter -> Count]
    <2>1. counter \in [DOMAIN counter -> Count] /\ counter[reg[w].ctr] \in Count
      BY <1>1, <1>3 DEF CtrInv
    <2>2. reg[w].value \in Nat
      BY <1>1 DEF JobInv
    <2>3. [counter[reg[w].ctr] EXCEPT !.count = reg[w].value] \in Count
      BY <2>1, <2>2 DEF Count
    <2> QED  BY <1>3, <1>4, <2>1, <2>3
  <1> QED  BY <1>2, <1>3, <1>4, <1>5, <1>6, <1>7, PassMoves

LEMMA CountedStat ==
  ASSUME NEW s \in Stat, NEW a \in Nat, NEW p \in Nat, NEW r \in Nat
  PROVE  [s EXCEPT !.all = a, !.passed = p, !.refused = r] \in Stat
  BY DEF Stat

(* The histories after it. *)
LEMMA StoreCountStat ==
  ASSUME TypeInv, NEW w \in Worker, StoreCount(w), NEW c, c = reg[w].ctr
  PROVE  /\ DOMAIN stat' = DOMAIN counter /\ stat' \in [DOMAIN counter -> Stat]
         /\ DOMAIN stat'[c] = {"all", "passed", "refused", "items", "torn"}
         /\ stat'[c].all = stat[c].all + 1
         /\ stat'[c].passed = (IF InLimit(w) THEN stat[c].passed + 1 ELSE stat[c].passed)
         /\ stat'[c].refused = (IF InLimit(w) THEN stat[c].refused ELSE stat[c].refused + 1)
         /\ stat'[c].items = stat[c].items /\ stat'[c].torn = stat[c].torn
         /\ \A d \in DOMAIN counter \ {c} :
               IF c[1] = "service" /\ d = MasterOf(c[2])
               THEN /\ stat'[d].all = stat[d].all /\ stat'[d].passed = stat[d].passed
                    /\ stat'[d].refused = stat[d].refused /\ stat'[d].torn = stat[d].torn
                    /\ stat'[d].items = stat[d].items + 1
               ELSE stat'[d] = stat[d]
  <1>1. c \in DOMAIN counter /\ CtrInv /\ CountDone(c, InLimit(w))
    BY StoreCountDoes DEF TypeInv
  <1>2. DOMAIN stat = DOMAIN counter
        /\ \A d \in DOMAIN counter : /\ DOMAIN stat[d] = {"all", "passed", "refused", "items", "torn"}
                                     /\ stat[d] \in Stat
    BY <1>1, StatFields DEF CtrInv
  <1>3. stat' = [d \in DOMAIN counter |->
        IF d = c
        THEN [stat[d] EXCEPT !.all = @ + 1, !.passed = IF InLimit(w) THEN @ + 1 ELSE @,
                             !.refused = IF InLimit(w) THEN @ ELSE @ + 1]
        ELSE IF c[1] = "service" /\ d = MasterOf(c[2])
             THEN [stat[d] EXCEPT !.items = @ + 1] ELSE stat[d]]
    BY <1>1, <1>2 DEF CountDone
  <1>4. stat'[c] = [stat[c] EXCEPT !.all = @ + 1, !.passed = IF InLimit(w) THEN @ + 1 ELSE @,
                                   !.refused = IF InLimit(w) THEN @ ELSE @ + 1]
    BY <1>1, <1>3
  <1>5. /\ DOMAIN stat'[c] = {"all", "passed", "refused", "items", "torn"}
        /\ stat'[c].all = stat[c].all + 1
        /\ stat'[c].passed = (IF InLimit(w) THEN stat[c].passed + 1 ELSE stat[c].passed)
        /\ stat'[c].refused = (IF InLimit(w) THEN stat[c].refused ELSE stat[c].refused + 1)
        /\ stat'[c].items = stat[c].items /\ stat'[c].torn = stat[c].torn
    BY <1>1, <1>2, <1>4
  <1>6. ASSUME NEW d \in DOMAIN counter \ {c}
        PROVE  IF c[1] = "service" /\ d = MasterOf(c[2])
               THEN /\ stat'[d].all = stat[d].all /\ stat'[d].passed = stat[d].passed
                    /\ stat'[d].refused = stat[d].refused /\ stat'[d].torn = stat[d].torn
                    /\ stat'[d].items = stat[d].items + 1
               ELSE stat'[d] = stat[d]
    <2>1. stat'[d] = IF c[1] = "service" /\ d = MasterOf(c[2])
                     THEN [stat[d] EXCEPT !.items = @ + 1] ELSE stat[d]
      BY <1>3
    <2> QED  BY <1>2, <2>1
  <1>7. [stat[c] EXCEPT !.all = @ + 1, !.passed = IF InLimit(w) THEN @ + 1 ELSE @,
                        !.refused = IF InLimit(w) THEN @ ELSE @ + 1] \in Stat
    <2>1. /\ stat[c] \in Stat /\ stat[c].all + 1 \in Nat
          /\ (IF InLimit(w) THEN stat[c].passed + 1 ELSE stat[c].passed) \in Nat
          /\ (IF InLimit(w) THEN stat[c].refused ELSE stat[c].refused + 1) \in Nat
      BY <1>1, <1>2, StatFields
    <2> QED  BY <2>1, CountedStat
  <1>8. \A d \in DOMAIN counter : [stat[d] EXCEPT !.items = @ + 1] \in Stat
    BY <1>2 DEF Stat
  <1>9. stat' \in [DOMAIN counter -> Stat]
    BY <1>2, <1>3, <1>7, <1>8
  <1> QED  BY <1>5, <1>6, <1>9

LEMMA StoreCountType ==
  ASSUME TypeInv, NEW w \in Worker, StoreCount(w)
  PROVE  TypeInv'
  <1>1. UNCHANGED <<tables, rules, reload, mgr, left, disk, now, arrived, past>>
    BY StoreCountDoes
  <1>2. DOMAIN counter' = DOMAIN counter /\ counter' \in [DOMAIN counter -> Count]
    BY StoreCountDoes
  <1>3. now \in Nat /\ Len(past) \in Nat /\ CtrInv /\ JobInv(w)
    BY AdmissionAssumption DEF TypeInv, RestInv
  <1>4. \A d \in DOMAIN counter : counter'[d].begin <= now
    <2>1. /\ \A d \in DOMAIN counter \ {reg[w].ctr} : counter'[d] = counter[d]
          /\ counter'[reg[w].ctr] = [counter[reg[w].ctr] EXCEPT !.count = reg[w].value]
          /\ reg[w].ctr \in DOMAIN counter
      BY StoreCountDoes
    <2>2. DOMAIN counter[reg[w].ctr] = {"time", "max", "begin", "count"}
      BY <1>3, <2>1, CounterFields
    <2>3. counter'[reg[w].ctr].begin = counter[reg[w].ctr].begin
      BY <2>1, <2>2
    <2> QED  BY <1>3, <2>1, <2>3 DEF CtrInv
  <1>5. stat' \in [DOMAIN counter -> Stat]
    BY StoreCountStat
  <1>6. CtrInv'
    BY <1>1, <1>2, <1>3, <1>4, <1>5 DEF CtrInv, RulesCounted
  <1>7. RestInv'
    BY <1>1, StoreCountDoes DEF TypeInv, RestInv, tables
  <1>8. /\ \A v \in Worker \ {w} : job'[v] = job[v] /\ reg'[v] = reg[v]
        /\ reg'[w] = NoReg /\ job[w].at \in Counting
        /\ \/ job'[w] = NoJob
           \/ /\ job'[w].at = After[job[w].at]
              /\ DOMAIN job'[w] = {"at", "req", "service", "from"}
              /\ job'[w].req = job[w].req /\ job'[w].from = job[w].from
    BY StoreCountDoes
  <1>9. ASSUME NEW v \in Worker PROVE JobInv(v)'
    <2>1. JobInv(v)
      BY DEF TypeInv
    <2>2. CASE v # w
      <3>1. job'[v] = job[v] /\ reg'[v] = reg[v]
        BY <1>8, <2>2
      <3> QED  BY <1>1, <1>2, <1>3, <2>1, <3>1, JobKept DEF JobInv
    <2>3. CASE v = w
      <3>1. /\ DOMAIN reg'[w] = {"step", "ctr", "now", "value"} /\ reg'[w].step = "none"
            /\ reg'[w].value = 0 /\ reg'[w].now = 0
        BY <1>8 DEF NoReg
      <3>2. 0 \in 0..now
        BY <1>3
      <3>3. CASE job'[w] = NoJob
        <4>1. "idle" \in Stage /\ "idle" \notin Counting /\ "idle" \notin InRules
          BY DEF Stage, Counting, InRules
        <4> QED  BY <1>1, <2>3, <3>1, <3>2, <3>3, <4>1, NoJobFields DEF JobInv
      <3>4. CASE /\ job'[w].at = After[job[w].at]
                 /\ DOMAIN job'[w] = {"at", "req", "service", "from"}
                 /\ job'[w].req = job[w].req /\ job'[w].from = job[w].from
        <4>1. \/ job[w].at = "limit" /\ job'[w].at = "rule"
              \/ job[w].at = "master" /\ job'[w].at = "keys"
              \/ job[w].at = "service" /\ job'[w].at = "call"
          <5>1. After["limit"] = "rule" /\ After["master"] = "keys" /\ After["service"] = "call"
            BY DEF After
          <5>2. job[w].at \in {"limit", "master", "service"}
            BY <1>8 DEF Counting
          <5> QED  BY <3>4, <5>1, <5>2
        <4>2. /\ job'[w].at \in Stage \ {"idle"} /\ job'[w].at \notin Counting
              /\ job'[w].at \in InRules => job[w].at \in InRules
              /\ job[w].at # "idle"
          BY <4>1 DEF Stage, Counting, InRules
        <4>3. job'[w].at \notin {"master", "service"}
          BY <4>1
        <4> QED  BY <1>1, <2>1, <2>3, <3>1, <3>2, <3>4, <4>2, <4>3 DEF JobInv
      <3> QED  BY <1>8, <3>3, <3>4
    <2> QED  BY <2>2, <2>3
  <1> QED  BY <1>6, <1>7, <1>9 DEF TypeInv

LEMMA ArriveDoes ==
  ASSUME TypeInv, NEW w \in Worker, NEW r \in Requests, Arrive(w, r)
  PROVE  /\ UNCHANGED <<tables, rules, counter, reload, mgr, left, disk, now, reg, stat, past>>
         /\ job[w] = NoJob /\ arrived' \in 0..MaxRequests
         /\ DOMAIN job' = Worker /\ \A v \in Worker \ {w} : job'[v] = job[v]
         /\ \/ job'[w] = NoJob
            \/ /\ job'[w].at = "access" /\ DOMAIN job'[w] = {"at", "req", "service", "from"}
               /\ job'[w].req = r /\ job'[w].from = Len(past)
  <1>1. DOMAIN job = Worker /\ arrived \in 0..MaxRequests
    BY DEF TypeInv, RestInv
  <1>2. arrived' \in 0..MaxRequests
    <2>1. arrived < MaxRequests /\ arrived' = arrived + 1
      BY DEF Arrive
    <2> QED  BY <1>1, <2>1, AdmissionAssumption
  <1>3. CASE HasKey(r)
    <2>1. PICK s : job' = [job EXCEPT ![w] =
                              [at |-> "access", req |-> r, service |-> s, from |-> Len(past)]]
      BY <1>3 DEF Arrive
    <2>2. /\ DOMAIN job' = Worker /\ \A v \in Worker \ {w} : job'[v] = job[v]
          /\ job'[w] = [at |-> "access", req |-> r, service |-> s, from |-> Len(past)]
      BY <1>1, <2>1
    <2>3. /\ job'[w].at = "access" /\ job'[w].req = r /\ job'[w].from = Len(past)
          /\ DOMAIN job'[w] = {"at", "req", "service", "from"}
      BY <2>2
    <2> QED  BY <1>2, <2>2, <2>3 DEF Arrive
  <1>4. CASE ~HasKey(r)
    <2>1. job' = [job EXCEPT ![w] = NoJob]
      BY <1>4 DEF Arrive
    <2> QED  BY <1>1, <1>2, <2>1 DEF Arrive
  <1> QED  BY <1>3, <1>4

LEMMA ArriveType ==
  ASSUME TypeInv, NEW w \in Worker, NEW r \in Requests, Arrive(w, r)
  PROVE  TypeInv'
  <1>1. UNCHANGED <<tables, rules, counter, reload, mgr, left, disk, now, reg, stat, past>>
    BY ArriveDoes
  <1>2. CtrInv'
    BY <1>1 DEF TypeInv, CtrInv, RulesCounted
  <1>3. RestInv'
    BY <1>1, ArriveDoes DEF TypeInv, RestInv, tables
  <1>4. ASSUME NEW v \in Worker PROVE JobInv(v)'
    <2>1. JobInv(v) /\ now \in Nat /\ Len(past) \in Nat \ {0}
      BY AdmissionAssumption DEF TypeInv, RestInv
    <2>2. CASE v # w
      <3>1. job'[v] = job[v] /\ reg'[v] = reg[v]
        BY <1>1, <2>2, ArriveDoes
      <3> QED  BY <1>1, <2>1, <3>1, JobKept DEF JobInv
    <2>3. CASE v = w
      <3>1. /\ "idle" \in Stage /\ "idle" \notin Counting /\ "idle" \notin InRules
            /\ "access" \in Stage /\ "access" \notin Counting /\ "access" \notin InRules
        BY DEF Stage, Counting, InRules
      <3>2. reg[w].step = "none"
        BY <2>1, <2>3, <3>1, ArriveDoes, NoJobFields DEF JobInv
      <3>3. CASE job'[w] = NoJob
        BY <1>1, <2>1, <2>3, <3>1, <3>2, <3>3, NoJobFields DEF JobInv
      <3>4. CASE /\ job'[w].at = "access" /\ DOMAIN job'[w] = {"at", "req", "service", "from"}
                 /\ job'[w].req = r /\ job'[w].from = Len(past)
        BY <1>1, <2>1, <2>3, <3>1, <3>2, <3>4 DEF JobInv
      <3> QED  BY <3>3, <3>4, ArriveDoes
    <2> QED  BY <2>2, <2>3
  <1> QED  BY <1>2, <1>3, <1>4 DEF TypeInv

(* What is remembered is added to what was. *)
LEMMA RememberDoes ==
  ASSUME TypeInv, Remember
  PROVE  /\ \E S : past' \in Seq(S)
         /\ Len(past) \in Nat \ {0} /\ Len(past)' = Len(past) + 1
         /\ \A i \in 1..Len(past) : past'[i] = past[i]
         /\ past'[Len(past) + 1] = Snapshot'
  <1>1. PICK S : past \in Seq(S)
    BY DEF TypeInv, RestInv
  <1>2. past' = Append(past, Snapshot')
    BY DEF Remember
  <1>3. Len(past) \in Nat \ {0}
    BY DEF TypeInv, RestInv
  <1>4. \A e : /\ \E T : Append(past, e) \in Seq(T)
               /\ Len(Append(past, e)) = Len(past) + 1
               /\ \A i \in 1..Len(past) : Append(past, e)[i] = past[i]
               /\ Append(past, e)[Len(past) + 1] = e
    BY <1>1, AppendGrows
  <1> QED  BY <1>2, <1>3, <1>4

LEMMA JobsKept ==
  ASSUME TypeInv, UNCHANGED <<job, reg>>,
         now' \in Nat, now <= now', Len(past)' \in Nat, Len(past) <= Len(past)',
         \A v \in Worker : job[v].at \in Counting => reg[v].ctr \in DOMAIN counter',
         \A v \in Worker : job[v].at \in InRules => MasterKey(job[v].req) \in DOMAIN rules'.tbl
  PROVE  \A v \in Worker : JobInv(v)'
  BY JobKept

(* A step of the reload that leaves the counters alone. *)
LEMMA TablesStepType ==
  ASSUME TypeInv, UNCHANGED <<rules, counter, stat, mgr, now, arrived, job, reg>>,
         disk' \in Files \cup {Installed}, left' \in 0..Reloads,
         DOMAIN reload' = {"at", "file", "ok", "from"}, reload'.file \in DOMAIN Ranges,
         reload'.from \in 1..Len(past),
         reload'.at \in {"idle", "types", "access", "readaccess", "limits", "readlimits",
                         "others", "auth", "readauth"},
         DOMAIN auth' = {"on", "tbl"}, auth'.on \in BOOLEAN,
         past' = past \/ Remember
  PROVE  TypeInv'
  <1>1. CtrInv'
    BY DEF TypeInv, CtrInv, RulesCounted
  <1>2. /\ \E S : past' \in Seq(S)
        /\ Len(past)' \in Nat \ {0} /\ Len(past) <= Len(past)' /\ Len(past) \in Nat
    <2>1. CASE past' = past
      BY <2>1 DEF TypeInv, RestInv
    <2>2. CASE Remember
      BY <2>2, RememberDoes
    <2> QED  BY <2>1, <2>2
  <1>3. RestInv'
    BY <1>2 DEF TypeInv, RestInv
  <1>4. now \in Nat /\ now' = now
    BY AdmissionAssumption DEF TypeInv, RestInv
  <1>5. \A v \in Worker : JobInv(v)
    BY DEF TypeInv
  <1>6. \A v \in Worker : JobInv(v)'
    BY <1>2, <1>4, <1>5, JobsKept DEF JobInv
  <1> QED  BY <1>1, <1>3, <1>6 DEF TypeInv

(* Where the main thread goes. *)
LEMMA ReloadGoes ==
  ASSUME TypeInv
  PROVE  /\ \A a : At(a) => /\ DOMAIN reload' = {"at", "file", "ok", "from"} /\ reload'.at = a
                            /\ reload'.file = 1 /\ reload'.ok = reload.ok
                            /\ reload'.from = reload.from
         /\ Fail => /\ DOMAIN reload' = {"at", "file", "ok", "from"} /\ reload'.at = "idle"
                    /\ reload'.file = 1 /\ ~reload'.ok /\ reload'.from = reload.from
         /\ 1 \in DOMAIN Ranges /\ reload.from \in 1..Len(past)
  <1>1. DOMAIN reload = {"at", "file", "ok", "from"}
    BY DEF TypeInv, RestInv
  <1>2. ASSUME NEW a, At(a)
        PROVE  /\ DOMAIN reload' = {"at", "file", "ok", "from"} /\ reload'.at = a
               /\ reload'.file = 1 /\ reload'.ok = reload.ok /\ reload'.from = reload.from
    BY <1>1, <1>2 DEF At
  <1>3. ASSUME Fail
        PROVE  /\ DOMAIN reload' = {"at", "file", "ok", "from"} /\ reload'.at = "idle"
               /\ reload'.file = 1 /\ ~reload'.ok /\ reload'.from = reload.from
    <2>1. reload' = [at |-> "idle", file |-> 1, ok |-> FALSE, from |-> reload.from]
      BY <1>3 DEF Fail
    <2> QED  BY <2>1
  <1>4. 1 \in DOMAIN Ranges /\ reload.from \in 1..Len(past)
    BY AdmissionAssumption DEF TypeInv, RestInv
  <1> QED  BY <1>2, <1>3, <1>4

LEMMA ReloadType ==
  ASSUME TypeInv, NEW d \in Files, Reload(d)
  PROVE  TypeInv'
  <1>1. reload' = [at |-> "types", file |-> 1, ok |-> TRUE, from |-> Len(past)]
    BY DEF Reload
  <1>2. /\ DOMAIN reload' = {"at", "file", "ok", "from"} /\ reload'.at = "types"
        /\ reload'.file \in DOMAIN Ranges /\ reload'.from \in 1..Len(past)
    <2>1. Len(past) \in 1..Len(past)
      BY DEF TypeInv, RestInv
    <2> QED  BY <1>1, <2>1, ReloadGoes
  <1>3. left' \in 0..Reloads /\ disk' \in Files \cup {Installed}
    BY AdmissionAssumption DEF Reload, TypeInv, RestInv
  <1>4. auth' = auth /\ past' = past /\ UNCHANGED <<rules, counter, stat, mgr, now, arrived, job, reg>>
    BY DEF Reload, NoWorker
  <1> QED  BY <1>2, <1>3, <1>4, TablesStepType DEF TypeInv, RestInv

LEMMA ReadTypesType ==
  ASSUME TypeInv, ReadTypes
  PROVE  TypeInv'
  <1>1. /\ auth' = auth /\ past' = past /\ disk' = disk /\ left' = left
        /\ UNCHANGED <<rules, counter, stat, mgr, now, arrived, job, reg>>
    BY DEF ReadTypes, NoWorker
  <1>2. /\ DOMAIN reload' = {"at", "file", "ok", "from"} /\ reload'.file \in DOMAIN Ranges
        /\ reload'.at \in {"idle", "types", "access"} /\ reload'.from \in 1..Len(past)
    <2>1. CASE Fail
      BY <2>1, ReloadGoes
    <2>2. CASE At("access")
      BY <2>2, ReloadGoes
    <2>3. CASE reload.file # Len(Ranges) /\ reload' = [reload EXCEPT !.file = @ + 1]
      <3>1. DOMAIN reload = {"at", "file", "ok", "from"} /\ reload.at = "types" /\ reload.file \in DOMAIN Ranges
            /\ reload.from \in 1..Len(past)
        BY DEF TypeInv, RestInv, ReadTypes
      <3>2. reload.file + 1 \in DOMAIN Ranges
        BY <2>3, <3>1, AdmissionAssumption
      <3>3. DOMAIN reload' = DOMAIN reload /\ reload'.at = reload.at /\ reload'.file = reload.file + 1
            /\ reload'.from = reload.from
        BY <2>3, <3>1
      <3> QED  BY <3>1, <3>2, <3>3
    <2> QED  BY <2>1, <2>2, <2>3 DEF ReadTypes
  <1> QED  BY <1>1, <1>2, TablesStepType DEF TypeInv, RestInv

LEMMA AccessType ==
  ASSUME TypeInv, ClearAccess \/ ReadAccess
  PROVE  TypeInv'
  <1>1. /\ auth' = auth /\ Remember /\ disk' = disk /\ left' = left
        /\ UNCHANGED <<rules, counter, stat, mgr, now, arrived, job, reg>>
        /\ At("readaccess") \/ At("limits") \/ Fail
    BY DEF ClearAccess, ReadAccess, NoWorker
  <1>2. /\ DOMAIN reload' = {"at", "file", "ok", "from"} /\ reload'.file \in DOMAIN Ranges
        /\ reload'.at \in {"idle", "readaccess", "limits"} /\ reload'.from \in 1..Len(past)
    BY <1>1, ReloadGoes
  <1> QED  BY <1>1, <1>2, TablesStepType DEF TypeInv, RestInv

LEMMA AuthType ==
  ASSUME TypeInv, AuthOff \/ ReadAuth
  PROVE  TypeInv'
  <1>1. /\ Remember /\ disk' = disk /\ left' = left
        /\ UNCHANGED <<rules, counter, stat, mgr, now, arrived, job, reg>>
        /\ At("readauth") \/ At("idle") \/ Fail
    BY DEF AuthOff, ReadAuth, NoWorker
  <1>2. /\ DOMAIN reload' = {"at", "file", "ok", "from"} /\ reload'.file \in DOMAIN Ranges
        /\ reload'.at \in {"idle", "readauth"} /\ reload'.from \in 1..Len(past)
    BY <1>1, ReloadGoes
  <1>3. DOMAIN auth' = {"on", "tbl"} /\ auth'.on \in BOOLEAN
    <2>1. DOMAIN auth = {"on", "tbl"}
      BY DEF TypeInv, RestInv
    <2>2. CASE auth' = [auth EXCEPT !.on = FALSE]
      BY <2>1, <2>2
    <2>3. CASE auth' = [on |-> FALSE, tbl |-> Empty]
      BY <2>3
    <2>4. CASE auth' = [on |-> TRUE, tbl |-> Table(disk.auth)]
      BY <2>4
    <2> QED  BY <2>2, <2>3, <2>4 DEF AuthOff, ReadAuth
  <1> QED  BY <1>1, <1>2, <1>3, TablesStepType DEF TypeInv, RestInv

LEMMA ReadOthersType ==
  ASSUME TypeInv, ReadOthers
  PROVE  TypeInv'
  <1>1. /\ UNCHANGED <<tables, rules, counter, disk, left, stat, past, mgr, now, arrived, job, reg>>
        /\ At("auth") \/ Fail
    BY DEF ReadOthers, NoWorker
  <1>2. /\ DOMAIN reload' = {"at", "file", "ok", "from"} /\ reload'.file \in DOMAIN Ranges
        /\ reload'.at \in {"idle", "auth"} /\ reload'.from \in 1..Len(past)
    BY <1>1, ReloadGoes
  <1>3. auth' = auth
    BY <1>1 DEF tables
  <1> QED  BY <1>1, <1>2, <1>3, TablesStepType DEF TypeInv, RestInv

LEMMA EmptyTable ==
  DOMAIN Empty = {} /\ \A S : Empty \in [{} -> S]
  <1>1. Empty = [k \in {} |-> <<>>[Last({i \in {} : <<>>[i].key = k})].val]
    BY DEF Empty, Table
  <1> QED  BY <1>1

(* A step that replaces counters nobody is counting on. *)
LEMMA CountersStepType ==
  ASSUME TypeInv, UNCHANGED <<tables, disk, now, arrived, job, reg, past>>,
         DOMAIN reload' = {"at", "file", "ok", "from"}, reload'.file \in DOMAIN Ranges,
         reload'.from \in 1..Len(past),
         reload'.at \in {"idle", "types", "access", "readaccess", "limits", "readlimits",
                         "others", "auth", "readauth"},
         mgr' \in {"idle", "read"}, left' \in 0..Reloads,
         DOMAIN rules' = {"on", "tbl"}, rules'.on \in BOOLEAN,
         CtrInv',
         \A v \in Worker : job[v].at \in Counting => reg[v].ctr \in DOMAIN counter',
         \A v \in Worker : job[v].at \in InRules => MasterKey(job[v].req) \in DOMAIN rules'.tbl
  PROVE  TypeInv'
  <1>1. RestInv'
    BY DEF TypeInv, RestInv, tables
  <1>2. now \in Nat /\ Len(past) \in Nat /\ now' = now /\ past' = past /\ UNCHANGED <<job, reg>>
    BY AdmissionAssumption DEF TypeInv, RestInv
  <1>3. \A v \in Worker : JobInv(v)'
    BY <1>2, JobsKept
  <1> QED  BY <1>1, <1>3 DEF TypeInv

(* The kind of the counter of a thread that counts is where the thread is. *)
LEMMA Holding ==
  ASSUME TypeInv, NEW v \in Worker
  PROVE  /\ job[v].at \in Counting =>
               reg[v].ctr \in DOMAIN counter /\ reg[v].ctr[1] = job[v].at
         /\ job[v].at \in InRules => MasterKey(job[v].req) \in DOMAIN rules.tbl
  BY DEF TypeInv, JobInv

LEMMA ClearLimitsDoes ==
  ASSUME TypeInv, ClearLimits
  PROVE  /\ DOMAIN counter' = NotLimits /\ counter' \in [NotLimits -> Count]
         /\ stat' \in [NotLimits -> Stat]
         /\ \A c \in NotLimits : counter'[c] = counter[c] /\ stat'[c] = stat[c]
         /\ NotLimits \subseteq DOMAIN counter
         /\ \A v \in Worker : job[v].at \in Counting => reg[v].ctr \in NotLimits
  <1>1. counter' = Keep(counter, NotLimits) /\ stat' = Keep(stat, NotLimits)
    BY DEF ClearLimits
  <1>2. /\ counter \in [DOMAIN counter -> Count] /\ stat \in [DOMAIN stat -> Stat]
        /\ DOMAIN stat = DOMAIN counter
    BY DEF TypeInv, CtrInv
  <1>3. NotLimits \subseteq DOMAIN counter
    BY DEF NotLimits
  <1>4. /\ counter' \in [DOMAIN counter \cap NotLimits -> Count]
        /\ stat' \in [DOMAIN stat \cap NotLimits -> Stat]
        /\ \A c \in DOMAIN counter \cap NotLimits : counter'[c] = counter[c]
        /\ \A c \in DOMAIN stat \cap NotLimits : stat'[c] = stat[c]
    <2>1. /\ Keep(counter, NotLimits) \in [DOMAIN counter \cap NotLimits -> Count]
          /\ \A c \in DOMAIN counter \cap NotLimits : Keep(counter, NotLimits)[c] = counter[c]
      BY <1>2 DEF Keep
    <2>2. /\ Keep(stat, NotLimits) \in [DOMAIN stat \cap NotLimits -> Stat]
          /\ \A c \in DOMAIN stat \cap NotLimits : Keep(stat, NotLimits)[c] = stat[c]
      BY <1>2 DEF Keep
    <2> QED  BY <1>1, <2>1, <2>2
  <1>5. DOMAIN counter \cap NotLimits = NotLimits /\ DOMAIN stat \cap NotLimits = NotLimits
    BY <1>2, <1>3
  <1>6. /\ DOMAIN counter' = NotLimits /\ counter' \in [NotLimits -> Count]
        /\ stat' \in [NotLimits -> Stat]
        /\ \A c \in NotLimits : counter'[c] = counter[c] /\ stat'[c] = stat[c]
    BY <1>4, <1>5
  <1>7. ASSUME NEW v \in Worker, job[v].at \in Counting PROVE reg[v].ctr \in NotLimits
    <2>1. reg[v].ctr \in DOMAIN counter /\ reg[v].ctr[1] = job[v].at /\ job[v].at # "limit"
      BY <1>7, Holding DEF ClearLimits
    <2> QED  BY <2>1 DEF NotLimits, IsLimit
  <1> QED  BY <1>3, <1>6, <1>7

LEMMA ClearLimitsType ==
  ASSUME TypeInv, ClearLimits
  PROVE  TypeInv'
  <1>1. /\ UNCHANGED <<tables, disk, now, arrived, job, reg, past, mgr, left, rules>>
        /\ At("readlimits")
    BY DEF ClearLimits, NoWorker
  <1>2. CtrInv'
    <2>1. RulesCounted'
      <3>1. RulesCounted
        BY DEF TypeInv, CtrInv
      <3>2. \A m : MasterOf(m) \in DOMAIN counter => MasterOf(m) \in NotLimits
        BY DEF NotLimits, IsLimit, MasterOf
      <3>3. \A m, i : ServiceOf(m, i) \in DOMAIN counter => ServiceOf(m, i) \in NotLimits
        BY DEF NotLimits, IsLimit, ServiceOf
      <3> QED  BY <1>1, <3>1, <3>2, <3>3, ClearLimitsDoes DEF RulesCounted
    <2>2. \A c \in DOMAIN counter' : counter'[c].begin <= now'
      BY <1>1, ClearLimitsDoes DEF TypeInv, CtrInv
    <2> QED  BY <2>1, <2>2, ClearLimitsDoes DEF CtrInv
  <1>3. \A v \in Worker : job[v].at \in Counting => reg[v].ctr \in DOMAIN counter'
    BY ClearLimitsDoes
  <1>4. \A v \in Worker : job[v].at \in InRules => MasterKey(job[v].req) \in DOMAIN rules'.tbl
    BY <1>1, Holding
  <1>5. DOMAIN reload' = {"at", "file", "ok", "from"} /\ reload'.file \in DOMAIN Ranges
        /\ reload'.at = "readlimits"
        /\ reload'.from \in 1..Len(past)
    BY <1>1, ReloadGoes
  <1> QED  BY <1>1, <1>2, <1>3, <1>4, <1>5, CountersStepType DEF TypeInv, RestInv

(* The limits that are read. *)
NewLimits == IF disk.limits = Missing THEN Empty ELSE LimitCounters(Table(disk.limits))

LEMMA ReadLimitsDoes ==
  ASSUME TypeInv, ReadLimits
  PROVE  /\ \A c \in DOMAIN NewLimits : /\ c[1] = "limit" /\ counter'[c] = NewLimits[c]
                                        /\ counter'[c] \in Count /\ counter'[c].begin = now
                                        /\ counter'[c].count = 0 /\ stat'[c] = NewStat
         /\ \A c \in DOMAIN counter \ DOMAIN NewLimits : counter'[c] = counter[c] /\ stat'[c] = stat[c]
         /\ DOMAIN counter' = DOMAIN NewLimits \cup DOMAIN counter
         /\ counter' \in [DOMAIN counter' -> Count] /\ stat' \in [DOMAIN counter' -> Stat]
         /\ \A v \in Worker : job[v].at \in Counting => reg[v].ctr \in DOMAIN counter \ DOMAIN NewLimits
  <1>1. counter' = Over(NewLimits, counter) /\ stat' = Over(Unstarted(DOMAIN NewLimits), stat)
    BY DEF ReadLimits, NewLimits
  <1>2. /\ NewLimits \in [DOMAIN NewLimits -> Count]
        /\ \A c \in DOMAIN NewLimits : c[1] = "limit" /\ NewLimits[c].begin = now /\ NewLimits[c].count = 0
    <2>1. CASE disk.limits = Missing
      <3>1. NewLimits = Empty
        BY <2>1 DEF NewLimits
      <3> QED  BY <3>1, EmptyTable
    <2>2. CASE disk.limits # Missing
      <3>1. NewLimits = LimitCounters(Table(disk.limits))
        BY <2>2 DEF NewLimits
      <3>2. now \in 0..MaxNow /\ disk \in Files \cup {Installed}
        BY DEF TypeInv, RestInv
      <3> QED  BY <2>2, <3>1, <3>2, LimitCountersType
    <2> QED  BY <2>1, <2>2
  <1>3. /\ counter \in [DOMAIN counter -> Count] /\ stat \in [DOMAIN stat -> Stat]
        /\ DOMAIN stat = DOMAIN counter
    BY DEF TypeInv, CtrInv
  <1> DEFINE un == Unstarted(DOMAIN NewLimits)
  <1>4. /\ un \in [DOMAIN NewLimits -> Stat] /\ DOMAIN un = DOMAIN NewLimits
        /\ \A c \in DOMAIN NewLimits : un[c] = NewStat
    BY UnstartedType
  <1>5. un \in [DOMAIN un -> Stat]
    BY <1>4
  <1> HIDE DEF un
  <1>6. /\ DOMAIN counter' = DOMAIN NewLimits \cup DOMAIN counter
        /\ \A c \in DOMAIN NewLimits : counter'[c] = NewLimits[c]
        /\ \A c \in DOMAIN counter \ DOMAIN NewLimits : counter'[c] = counter[c]
        /\ counter' \in [DOMAIN NewLimits \cup DOMAIN counter -> Count]
    <2>1. /\ DOMAIN Over(NewLimits, counter) = DOMAIN NewLimits \cup DOMAIN counter
          /\ \A c \in DOMAIN NewLimits : Over(NewLimits, counter)[c] = NewLimits[c]
          /\ \A c \in DOMAIN counter \ DOMAIN NewLimits : Over(NewLimits, counter)[c] = counter[c]
      BY OverHolds
    <2>2. Over(NewLimits, counter) \in [DOMAIN NewLimits \cup DOMAIN counter -> Count]
      BY <1>2, <1>3, OverType
    <2> QED  BY <1>1, <2>1, <2>2
  <1>7. /\ \A c \in DOMAIN un : Over(un, stat)[c] = un[c]
        /\ \A c \in DOMAIN stat \ DOMAIN un : Over(un, stat)[c] = stat[c]
        /\ Over(un, stat) \in [DOMAIN un \cup DOMAIN stat -> Stat]
    <2>1. /\ \A c \in DOMAIN un : Over(un, stat)[c] = un[c]
          /\ \A c \in DOMAIN stat \ DOMAIN un : Over(un, stat)[c] = stat[c]
      BY OverHolds
    <2>2. Over(un, stat) \in [DOMAIN un \cup DOMAIN stat -> Stat]
      BY <1>3, <1>5, OverType
    <2> QED  BY <2>1, <2>2
  <1>8. /\ \A c \in DOMAIN NewLimits : stat'[c] = NewStat
        /\ \A c \in DOMAIN counter \ DOMAIN NewLimits : stat'[c] = stat[c]
        /\ stat' \in [DOMAIN counter' -> Stat]
    BY <1>1, <1>3, <1>4, <1>6, <1>7 DEF un
  <1>9. ASSUME NEW v \in Worker, job[v].at \in Counting
        PROVE  reg[v].ctr \in DOMAIN counter \ DOMAIN NewLimits
    <2>1. reg[v].ctr \in DOMAIN counter /\ reg[v].ctr[1] = job[v].at /\ job[v].at # "limit"
      BY <1>9, Holding DEF ReadLimits
    <2> QED  BY <1>2, <2>1
  <1>10. \A c \in DOMAIN NewLimits : NewLimits[c] \in Count
    BY <1>2
  <1> QED  BY <1>2, <1>6, <1>8, <1>9, <1>10

LEMMA ReadLimitsType ==
  ASSUME TypeInv, ReadLimits
  PROVE  TypeInv'
  <1>1. /\ UNCHANGED <<tables, disk, now, arrived, job, reg, past, mgr, left, rules>>
        /\ At("others") \/ Fail
    BY DEF ReadLimits, NoWorker
  <1>2. CtrInv'
    <2>1. RulesCounted'
      BY <1>1, ReadLimitsDoes DEF RulesCounted, TypeInv, CtrInv
    <2>2. \A c \in DOMAIN counter' : counter'[c].begin <= now'
      <3>1. now \in Nat /\ \A c \in DOMAIN counter : counter[c].begin <= now
        BY AdmissionAssumption DEF TypeInv, CtrInv, RestInv
      <3> QED  BY <1>1, <3>1, ReadLimitsDoes
    <2> QED  BY <2>1, <2>2, ReadLimitsDoes DEF CtrInv
  <1>3. \A v \in Worker : job[v].at \in Counting => reg[v].ctr \in DOMAIN counter'
    BY ReadLimitsDoes
  <1>4. \A v \in Worker : job[v].at \in InRules => MasterKey(job[v].req) \in DOMAIN rules'.tbl
    BY <1>1, Holding
  <1>5. /\ DOMAIN reload' = {"at", "file", "ok", "from"} /\ reload'.file \in DOMAIN Ranges
        /\ reload'.at \in {"others", "idle"} /\ reload'.from \in 1..Len(past)
    BY <1>1, ReloadGoes
  <1> QED  BY <1>1, <1>2, <1>3, <1>4, <1>5, CountersStepType DEF TypeInv, RestInv

Limits == {c \in DOMAIN counter : IsLimit(c)}

LEMMA ReadRulesDoes ==
  ASSUME TypeInv, NEW f \in RuleFile, ReadRules(f)
  PROVE  LET new == RuleCounters(Table(f)) IN
         /\ \A c \in DOMAIN new : /\ c[1] # "limit"
                                  /\ counter'[c] \in Count /\ counter'[c].begin = now
                                  /\ counter'[c].count = 0 /\ stat'[c] = NewStat
         /\ \A c \in Limits : counter'[c] = counter[c] /\ stat'[c] = stat[c]
         /\ DOMAIN counter' = DOMAIN new \cup Limits
         /\ counter' \in [DOMAIN counter' -> Count] /\ stat' \in [DOMAIN counter' -> Stat]
         /\ \A v \in Worker : job[v].at \in Counting => reg[v].ctr \in Limits
         /\ \A m \in DOMAIN Table(f) :
               /\ MasterOf(m) \in DOMAIN counter'
               /\ \A i \in DOMAIN Items(Table(f)[m]) : ServiceOf(m, i) \in DOMAIN counter'
  <1> DEFINE new == RuleCounters(Table(f))
             un  == Unstarted(DOMAIN new)
             kc  == Keep(counter, Limits)
             ks  == Keep(stat, Limits)
  <1>1. counter' = Over(new, kc) /\ stat' = Over(un, ks)
    BY DEF ReadRules, Limits
  <1>2. /\ new \in [DOMAIN new -> Count]
        /\ \A c \in DOMAIN new : c[1] # "limit" /\ new[c].begin = now /\ new[c].count = 0
        /\ \A m \in DOMAIN Table(f) :
               /\ MasterOf(m) \in DOMAIN new
               /\ \A i \in DOMAIN Items(Table(f)[m]) : ServiceOf(m, i) \in DOMAIN new
    <2>1. now \in 0..MaxNow
      BY DEF TypeInv, RestInv
    <2> QED  BY <2>1, RuleCountersType
  <1>3. /\ counter \in [DOMAIN counter -> Count] /\ stat \in [DOMAIN stat -> Stat]
        /\ DOMAIN stat = DOMAIN counter /\ Limits \subseteq DOMAIN counter
    BY DEF TypeInv, CtrInv, Limits
  <1>4. /\ kc \in [Limits -> Count] /\ DOMAIN kc = Limits /\ \A c \in Limits : kc[c] = counter[c]
        /\ kc \in [DOMAIN kc -> Count]
    BY <1>3 DEF Keep
  <1>5. /\ ks \in [Limits -> Stat] /\ DOMAIN ks = Limits /\ \A c \in Limits : ks[c] = stat[c]
        /\ ks \in [DOMAIN ks -> Stat]
    BY <1>3 DEF Keep
  <1>6. /\ un \in [DOMAIN new -> Stat] /\ DOMAIN un = DOMAIN new
        /\ \A c \in DOMAIN new : un[c] = NewStat
    BY UnstartedType
  <1>7. un \in [DOMAIN un -> Stat]
    BY <1>6
  <1> HIDE DEF new, un, kc, ks
  <1>8. DOMAIN new \cap Limits = {}
    BY <1>2 DEF Limits, IsLimit
  <1>9. /\ DOMAIN Over(new, kc) = DOMAIN new \cup Limits
        /\ \A c \in DOMAIN new : Over(new, kc)[c] = new[c]
        /\ \A c \in Limits : Over(new, kc)[c] = counter[c]
        /\ Over(new, kc) \in [DOMAIN new \cup Limits -> Count]
    <2>1. /\ DOMAIN Over(new, kc) = DOMAIN new \cup DOMAIN kc
          /\ \A c \in DOMAIN new : Over(new, kc)[c] = new[c]
          /\ \A c \in DOMAIN kc \ DOMAIN new : Over(new, kc)[c] = kc[c]
      BY OverHolds
    <2>2. Over(new, kc) \in [DOMAIN new \cup DOMAIN kc -> Count]
      BY <1>2, <1>4, OverType
    <2> QED  BY <1>4, <1>8, <2>1, <2>2
  <1>10. /\ \A c \in DOMAIN new : Over(un, ks)[c] = NewStat
         /\ \A c \in Limits : Over(un, ks)[c] = stat[c]
         /\ Over(un, ks) \in [DOMAIN new \cup Limits -> Stat]
    <2>1. /\ \A c \in DOMAIN un : Over(un, ks)[c] = un[c]
          /\ \A c \in DOMAIN ks \ DOMAIN un : Over(un, ks)[c] = ks[c]
      BY OverHolds
    <2>2. Over(un, ks) \in [DOMAIN un \cup DOMAIN ks -> Stat]
      BY <1>5, <1>7, OverType
    <2> QED  BY <1>5, <1>6, <1>8, <2>1, <2>2
  <1>11. ASSUME NEW v \in Worker, job[v].at \in Counting PROVE reg[v].ctr \in Limits
    <2>1. reg[v].ctr \in DOMAIN counter /\ reg[v].ctr[1] = job[v].at /\ job[v].at \notin InRules
      BY <1>11, Holding DEF ReadRules
    <2>2. job[v].at = "limit"
      BY <1>11, <2>1 DEF Counting, InRules
    <2> QED  BY <2>1, <2>2 DEF Limits, IsLimit
  <1>12. \A c \in DOMAIN new : new[c] \in Count
    BY <1>2
  <1>13. /\ DOMAIN counter' = DOMAIN new \cup Limits
         /\ counter' \in [DOMAIN counter' -> Count] /\ stat' \in [DOMAIN counter' -> Stat]
    BY <1>1, <1>9, <1>10
  <1>14. \A c \in Limits : counter'[c] = counter[c] /\ stat'[c] = stat[c]
    BY <1>1, <1>9, <1>10
  <1>15. \A c \in DOMAIN new : counter'[c] = new[c] /\ stat'[c] = NewStat
    BY <1>1, <1>9, <1>10
  <1>16. \A c \in DOMAIN new : /\ c[1] # "limit"
                               /\ counter'[c] \in Count /\ counter'[c].begin = now
                               /\ counter'[c].count = 0 /\ stat'[c] = NewStat
    BY <1>2, <1>12, <1>15
  <1> QED  BY <1>2, <1>11, <1>13, <1>14, <1>16 DEF new

LEMMA ReadRulesType ==
  ASSUME TypeInv, NEW f \in RuleFile, ReadRules(f)
  PROVE  TypeInv'
  <1>1. /\ UNCHANGED <<tables, disk, now, arrived, job, reg, past, left, reload>>
        /\ rules' = [on |-> TRUE, tbl |-> Table(f)] /\ mgr' = "idle"
        /\ \A v \in Worker : job[v].at \notin InRules
    BY DEF ReadRules, NoThread
  <1>2. DOMAIN rules' = {"on", "tbl"} /\ rules'.on \in BOOLEAN /\ rules'.tbl = Table(f)
    BY <1>1
  <1>3. CtrInv'
    <2>1. RulesCounted'
      BY <1>2, ReadRulesDoes DEF RulesCounted
    <2>2. \A c \in DOMAIN counter' : counter'[c].begin <= now'
      <3>1. now \in Nat /\ \A c \in DOMAIN counter : counter[c].begin <= now
        BY AdmissionAssumption DEF TypeInv, CtrInv, RestInv
      <3>2. Limits \subseteq DOMAIN counter
        BY DEF Limits
      <3>3. DOMAIN counter' = DOMAIN RuleCounters(Table(f)) \cup Limits
        BY ReadRulesDoes
      <3>4. \A c \in DOMAIN RuleCounters(Table(f)) : counter'[c].begin = now
        BY ReadRulesDoes
      <3>5. \A c \in Limits : counter'[c] = counter[c]
        BY ReadRulesDoes
      <3> QED  BY <1>1, <3>1, <3>2, <3>3, <3>4, <3>5
    <2>3. counter' \in [DOMAIN counter' -> Count] /\ stat' \in [DOMAIN counter' -> Stat]
      BY ReadRulesDoes
    <2> QED  BY <2>1, <2>2, <2>3 DEF CtrInv
  <1>4. \A v \in Worker : job[v].at \in Counting => reg[v].ctr \in DOMAIN counter'
    BY ReadRulesDoes
  <1> QED  BY <1>1, <1>2, <1>3, <1>4, CountersStepType DEF TypeInv, RestInv

LEMMA RulesOffType ==
  ASSUME TypeInv, RulesOff
  PROVE  TypeInv'
  <1>1. /\ UNCHANGED <<tables, disk, now, arrived, job, reg, past, reload, counter, stat>>
        /\ rules' = [rules EXCEPT !.on = FALSE] /\ mgr' = "read" /\ left > 0 /\ left' = left - 1
    BY DEF RulesOff, NoThread
  <1>2. DOMAIN rules' = {"on", "tbl"} /\ rules'.on \in BOOLEAN /\ rules'.tbl = rules.tbl
    BY <1>1 DEF TypeInv, RestInv
  <1>3. CtrInv'
    BY <1>1, <1>2 DEF TypeInv, CtrInv, RulesCounted
  <1>4. left' \in 0..Reloads
    BY <1>1, AdmissionAssumption DEF TypeInv, RestInv
  <1>5. /\ \A v \in Worker : job[v].at \in Counting => reg[v].ctr \in DOMAIN counter'
        /\ \A v \in Worker : job[v].at \in InRules => MasterKey(job[v].req) \in DOMAIN rules'.tbl
    BY <1>1, <1>2, Holding
  <1> QED  BY <1>1, <1>2, <1>3, <1>4, <1>5, CountersStepType DEF TypeInv, RestInv

LEMMA TickType ==
  ASSUME TypeInv, Tick
  PROVE  TypeInv'
  <1>1. /\ UNCHANGED <<tables, rules, counter, reload, mgr, left, disk, arrived, job, reg, stat, past>>
        /\ now < MaxNow /\ now' = now + 1
    BY DEF Tick
  <1>2. now' \in 0..MaxNow /\ now \in Nat /\ now' \in Nat /\ now <= now'
    BY <1>1, AdmissionAssumption DEF TypeInv, RestInv
  <1>3. CtrInv'
    <2>1. \A c \in DOMAIN counter : counter[c].begin <= now'
      BY <1>2, CounterFields DEF TypeInv, CtrInv
    <2> QED  BY <1>1, <2>1 DEF TypeInv, CtrInv, RulesCounted
  <1>4. RestInv'
    BY <1>1, <1>2 DEF TypeInv, RestInv, tables
  <1>5. \A v \in Worker : JobInv(v)'
    <2>1. Len(past) \in Nat
      BY DEF TypeInv, RestInv
    <2> QED  BY <1>1, <1>2, <2>1, Holding, JobsKept
  <1> QED  BY <1>3, <1>4, <1>5 DEF TypeInv

LEMMA NextType ==
  ASSUME TypeInv, [Next]_vars
  PROVE  TypeInv'
  <1>1. ASSUME NEW w \in Worker, Step(w) PROVE TypeInv'
    BY <1>1, StepKinds, MoveType, BeginType, StoreBeginType, StoreCountType
  <1>2. CASE Reloading
    BY <1>2, ReloadType, ReadTypesType, AccessType, AuthType, ClearLimitsType, ReadLimitsType,
       ReadOthersType DEF Reloading
  <1>3. CASE UNCHANGED vars
    BY <1>3 DEF vars, tables, TypeInv, CtrInv, RulesCounted, JobInv, RestInv
  <1> QED  BY <1>1, <1>2, <1>3, ArriveType, RulesOffType, ReadRulesType, TickType DEF Next

(* The types of the state (TypeOK), for any files, requests and threads: a thread
   never counts on a counter that was deleted under it. *)
THEOREM TypeCorrect == Spec => []TypeOK
  <1>1. Init => TypeInv
    BY InitType
  <1>2. TypeInv /\ [Next]_vars => TypeInv'
    BY NextType
  <1>3. TypeInv => TypeOK
    BY TypeGivesType
  <1> QED  BY <1>1, <1>2, <1>3, PTL DEF Spec

----------------------------------------------------------------------------
(* Who is let in.  The lists that were in force are remembered in the order they were,
   the last of them being those in force now; a request that passed a check was on
   the list of that moment, and what was remembered stays.                   *)

ListedBy(w) == \E i \in job[w].from..Len(past) : Listed(past[i].access, job[w].req)
LetIn(w) ==
    \E i, j \in job[w].from..Len(past) :
       /\ i <= j
       /\ Listed(past[i].access, job[w].req)
       /\ ~past[j].on \/ OnList(past[j].auth, job[w].req)
Later == Stage \ {"idle", "access", "auth", "authlist"}

AdmJob(w) ==
    /\ job[w].at \in {"auth", "authlist"} => ListedBy(w)
    /\ job[w].at \in Later => LetIn(w)
AdmInv ==
    /\ past[Len(past)] = Snapshot
    /\ \A w \in Worker : AdmJob(w)
    /\ AuthorizationHolds

LEMMA InitAdm ==
  ASSUME Init
  PROVE  AdmInv
  <1>1. past[Len(past)] = Snapshot
    BY DEF Init
  <1>2. ASSUME NEW w \in Worker PROVE AdmJob(w)
    <2>1. job[w].at = "idle"
      BY NoJobFields DEF Init
    <2> QED  BY <2>1 DEF AdmJob, Later
  <1>3. auth.on
    BY DEF Init
  <1> QED  BY <1>1, <1>2, <1>3 DEF AdmInv, AuthorizationHolds

(* The past only grows, so that whoever was let in was. *)
LEMMA PastKept ==
  ASSUME TypeInv, past' = past \/ Remember, NEW v \in Worker,
         job[v].at # "idle", job'[v].req = job[v].req, job'[v].from = job[v].from
  PROVE  (ListedBy(v) => ListedBy(v)') /\ (LetIn(v) => LetIn(v)')
  <1>1. /\ Len(past) \in Nat /\ Len(past)' \in Nat /\ Len(past) <= Len(past)'
        /\ \A i \in 1..Len(past) : past'[i] = past[i]
    <2>1. CASE past' = past
      BY <2>1 DEF TypeInv, RestInv
    <2>2. CASE Remember
      BY <2>2, RememberDoes
    <2> QED  BY <2>1, <2>2
  <1>2. job[v].from \in 1..Len(past)
    BY DEF TypeInv, JobInv
  <1>3. \A i \in job[v].from..Len(past) :
           i \in job'[v].from..Len(past)' /\ past'[i] = past[i] /\ i \in Nat
    BY <1>1, <1>2
  <1>4. ASSUME ListedBy(v) PROVE ListedBy(v)'
    <2>1. PICK i \in job[v].from..Len(past) : Listed(past[i].access, job[v].req)
      BY <1>4 DEF ListedBy
    <2>2. i \in job'[v].from..Len(past)' /\ Listed(past'[i].access, job'[v].req)
      BY <1>3, <2>1
    <2> QED  BY <2>2 DEF ListedBy
  <1>5. ASSUME LetIn(v) PROVE LetIn(v)'
    <2>1. PICK i \in job[v].from..Len(past), j \in job[v].from..Len(past) :
             /\ i <= j
             /\ Listed(past[i].access, job[v].req)
             /\ ~past[j].on \/ OnList(past[j].auth, job[v].req)
      BY <1>5 DEF LetIn
    <2>2. /\ i \in job'[v].from..Len(past)' /\ j \in job'[v].from..Len(past)'
          /\ Listed(past'[i].access, job'[v].req)
          /\ ~past'[j].on \/ OnList(past'[j].auth, job'[v].req)
      BY <1>3, <2>1
    <2> QED  BY <2>1, <2>2 DEF LetIn
  <1> QED  BY <1>4, <1>5

(* What a step of a thread leaves. *)
LEMMA StepLeaves ==
  ASSUME TypeInv, NEW w \in Worker, Step(w)
  PROVE  /\ UNCHANGED <<types, access, auth, rules, reload, mgr, disk, past>>
         /\ \A v \in Worker \ {w} : job'[v] = job[v]
         /\ job[w].at # "idle"
         /\ \/ job'[w] = NoJob
            \/ job'[w].req = job[w].req /\ job'[w].from = job[w].from
  <1>1. CASE MovesTo(w, Quiet)
    <2>1. UNCHANGED <<types, access, auth, rules, reload, mgr, disk, past>>
      BY <1>1 DEF MovesTo, OnlyJob, tables
    <2>2. job[w].at # "idle" /\ \A v \in Worker \ {w} : job'[v] = job[v]
      BY <1>1 DEF MovesTo, Waits
    <2>3. \/ job'[w] = NoJob
          \/ job'[w].req = job[w].req /\ job'[w].from = job[w].from
      BY <1>1 DEF MovesTo
    <2> QED  BY <2>1, <2>2, <2>3
  <1>2. ASSUME NEW c, Begins(w, c)
        PROVE  /\ UNCHANGED <<types, access, auth, rules, reload, mgr, disk, past>>
               /\ \A v \in Worker \ {w} : job'[v] = job[v]
               /\ job[w].at # "idle" /\ job'[w].req = job[w].req /\ job'[w].from = job[w].from
    BY <1>2, BeginDoes DEF tables, Begins
  <1>3. "idle" \notin Counting
    BY DEF Counting
  <1>4. CASE StoreBegin(w)
    BY <1>3, <1>4, StoreBeginDoes DEF tables
  <1>5. CASE StoreCount(w)
    BY <1>3, <1>5, StoreCountDoes DEF tables
  <1> QED  BY <1>1, <1>2, <1>4, <1>5, StepKinds

(* The checks of the lists are all that a thread does before them. *)
LEMMA OnlyCheckAccess ==
  ASSUME TypeInv, NEW w \in Worker, Step(w)
  PROVE  /\ job[w].at = "access" => CheckAccess(w)
         /\ job[w].at = "auth" => ReadIsInit(w)
         /\ job[w].at = "authlist" => Authorized(w)
  <1>1. {"access", "auth", "authlist"} \cap Counting = {}
    BY DEF Counting
  <1>2. reg[w].step \in {"begin", "opened", "count"} => job[w].at \in Counting
    BY DEF TypeInv, JobInv
  <1> QED  BY <1>1, <1>2 DEF Step, CheckAccess, ReadIsInit, Authorized, GetConf, CheckFrequency,
              CheckRules, CountMaster, CountService, StoreBegin, StoreCount, Call

LEMMA StepAdm ==
  ASSUME TypeInv, AdmInv, NEW w \in Worker, Step(w)
  PROVE  AdmInv'
  <1>1. /\ UNCHANGED <<types, access, auth, rules, reload, mgr, disk, past>>
        /\ \A v \in Worker \ {w} : job'[v] = job[v]
        /\ job[w].at # "idle"
        /\ \/ job'[w] = NoJob
           \/ job'[w].req = job[w].req /\ job'[w].from = job[w].from
    BY StepLeaves
  <1>2. past'[Len(past')] = Snapshot' /\ AuthorizationHolds'
    BY <1>1 DEF AdmInv, Snapshot, AuthorizationHolds
  <1>3. ASSUME NEW v \in Worker, v # w PROVE AdmJob(v)'
    BY <1>1, <1>3 DEF AdmInv, AdmJob, ListedBy, LetIn
  <1>4. AdmJob(w)'
    <2> DEFINE n == Len(past)
    <2>0. /\ n \in job[w].from..n /\ n \in Nat
          /\ past[n].access = access /\ past[n].on = auth.on /\ past[n].auth = auth.tbl
      <3>1. job[w].from \in 1..n /\ n \in Nat
        BY <1>1 DEF TypeInv, JobInv, RestInv
      <3>2. past[n] = Snapshot
        BY DEF AdmInv
      <3> QED  BY <3>1, <3>2 DEF Snapshot
    <2>1. CASE job'[w] = NoJob
      BY <2>1, NoJobFields DEF AdmJob, Later
    <2>2. CASE job'[w] # NoJob /\ job[w].at = "access"
      <3>1. CheckAccess(w)
        BY <2>2, OnlyCheckAccess
      <3>2. job'[w].at = "auth" /\ Listed(access, job[w].req)
        BY <2>2, <3>1, PassMoves DEF CheckAccess
      <3>3. ListedBy(w)
        BY <2>0, <3>2 DEF ListedBy
      <3>4. ListedBy(w)'
        BY <1>1, <2>2, <3>3, PastKept
      <3> QED  BY <3>2, <3>4 DEF AdmJob, Later
    <2>3. CASE job'[w] # NoJob /\ job[w].at \in {"auth", "authlist"}
      <3>1. ReadIsInit(w) \/ Authorized(w)
        BY <2>3, OnlyCheckAccess
      <3>2. ListedBy(w)
        BY <2>3 DEF AdmInv, AdmJob
      <3>3. ListedBy(w)'
        BY <1>1, <2>3, <3>2, PastKept
      <3>4. job'[w].at = "authlist" \/ ~auth.on \/ OnList(auth.tbl, job[w].req)
        BY <2>3, <3>1, PassMoves, GotoMoves DEF ReadIsInit, Authorized
      <3>5. ASSUME ~auth.on \/ OnList(auth.tbl, job[w].req) PROVE LetIn(w)
        <4>1. PICK i \in job[w].from..n : Listed(past[i].access, job[w].req)
          BY <3>2 DEF ListedBy
        <4>2. i <= n
          BY <2>0, <4>1
        <4>3. ~past[n].on \/ OnList(past[n].auth, job[w].req)
          BY <2>0, <3>5
        <4> QED  BY <2>0, <4>1, <4>2, <4>3 DEF LetIn
      <3>6. job'[w].at # "authlist" => LetIn(w)'
        BY <1>1, <2>3, <3>4, <3>5, PastKept
      <3> QED  BY <3>3, <3>6 DEF AdmJob, Later
    <2>4. CASE job'[w] # NoJob /\ job[w].at \in Later
      <3>1. LetIn(w)
        BY <2>4 DEF AdmInv, AdmJob
      <3>2. LetIn(w)'
        BY <1>1, <2>4, <3>1, PastKept
      <3>3. LetIn(w)' => ListedBy(w)'
        BY DEF LetIn, ListedBy
      <3> QED  BY <3>2, <3>3 DEF AdmJob
    <2>5. job[w].at \in Stage
      BY DEF TypeInv, JobInv
    <2> QED  BY <1>1, <2>1, <2>2, <2>3, <2>4, <2>5 DEF Later
  <1> QED  BY <1>2, <1>3, <1>4 DEF AdmInv

(* A step of the main thread, which remembers the lists when it changes them. *)
LEMMA ListsAdm ==
  ASSUME TypeInv, AdmInv, UNCHANGED job, AuthorizationHolds',
         (past' = past /\ UNCHANGED <<access, auth>>) \/ Remember
  PROVE  AdmInv'
  <1>1. past'[Len(past)'] = Snapshot'
    <2>1. CASE past' = past /\ UNCHANGED <<access, auth>>
      BY <2>1 DEF AdmInv, Snapshot
    <2>2. CASE Remember
      BY <2>2, RememberDoes
    <2> QED  BY <2>1, <2>2
  <1>2. ASSUME NEW v \in Worker PROVE AdmJob(v)'
    <2>1. job[v].at # "idle" => (ListedBy(v) => ListedBy(v)') /\ (LetIn(v) => LetIn(v)')
      BY PastKept
    <2> QED  BY <2>1 DEF AdmInv, AdmJob, Later
  <1> QED  BY <1>1, <1>2 DEF AdmInv

LEMMA ArriveAdm ==
  ASSUME TypeInv, AdmInv, NEW w \in Worker, NEW r \in Requests, Arrive(w, r)
  PROVE  AdmInv'
  <1>1. UNCHANGED <<types, access, auth, reload, past>>
    BY ArriveDoes DEF tables
  <1>2. past'[Len(past')] = Snapshot' /\ AuthorizationHolds'
    BY <1>1 DEF AdmInv, Snapshot, AuthorizationHolds
  <1>3. ASSUME NEW v \in Worker, v # w PROVE AdmJob(v)'
    <2>1. job'[v] = job[v]
      BY <1>3, ArriveDoes
    <2> QED  BY <1>1, <2>1 DEF AdmInv, AdmJob, ListedBy, LetIn
  <1>4. job'[w].at \in {"idle", "access"}
    BY ArriveDoes, NoJobFields
  <1>5. AdmJob(w)'
    BY <1>4 DEF AdmJob, Later
  <1> QED  BY <1>2, <1>3, <1>5 DEF AdmInv

LEMMA NextAdm ==
  ASSUME TypeInv, AdmInv, [Next]_vars
  PROVE  AdmInv'
  <1> USE DEF tables
  <1>1. AuthorizationHolds
    BY DEF AdmInv
  <1>2. ASSUME NEW d \in Files, Reload(d) PROVE AdmInv'
    <2>1. past' = past /\ UNCHANGED <<access, auth, job>> /\ reload.at = "idle"
      BY <1>2 DEF Reload, NoWorker
    <2>2. AuthorizationHolds'
      BY <1>1, <2>1 DEF AuthorizationHolds
    <2> QED  BY <2>1, <2>2, ListsAdm
  <1>3. CASE ReadTypes
    <2>1. past' = past /\ UNCHANGED <<access, auth, job>> /\ reload.at = "types"
      BY <1>3 DEF ReadTypes, NoWorker
    <2>2. AuthorizationHolds'
      BY <1>1, <2>1 DEF AuthorizationHolds
    <2> QED  BY <2>1, <2>2, ListsAdm
  <1>4. CASE ClearAccess \/ ReadAccess
    <2>1. Remember /\ UNCHANGED <<auth, job>> /\ reload.at # "readauth"
      BY <1>4 DEF ClearAccess, ReadAccess, NoWorker
    <2>2. AuthorizationHolds'
      BY <1>1, <2>1 DEF AuthorizationHolds
    <2> QED  BY <2>1, <2>2, ListsAdm
  <1>5. CASE ClearLimits \/ ReadLimits \/ ReadOthers
    <2>1. past' = past /\ UNCHANGED <<access, auth, job>> /\ reload.at # "readauth"
      BY <1>5 DEF ClearLimits, ReadLimits, ReadOthers, NoWorker
    <2>2. AuthorizationHolds'
      BY <1>1, <2>1 DEF AuthorizationHolds
    <2> QED  BY <2>1, <2>2, ListsAdm
  <1>6. CASE AuthOff
    <2>1. Remember /\ UNCHANGED job /\ reload'.at = "readauth"
      BY <1>6, ReloadGoes DEF AuthOff, NoWorker
    <2> QED  BY <2>1, ListsAdm DEF AuthorizationHolds
  <1>7. CASE ReadAuth
    <2>1. Remember /\ UNCHANGED job
      BY <1>7 DEF ReadAuth, NoWorker
    <2>2. AuthorizationHolds'
      <3>1. CASE auth' = [on |-> FALSE, tbl |-> Empty]
        BY <3>1 DEF AuthorizationHolds
      <3>2. CASE auth' = [on |-> TRUE, tbl |-> Table(disk.auth)]
        BY <3>2 DEF AuthorizationHolds
      <3> QED  BY <1>7, <3>1, <3>2 DEF ReadAuth
    <2> QED  BY <2>1, <2>2, ListsAdm
  <1>8. CASE RulesOff \/ (\E f \in RuleFile : ReadRules(f)) \/ Tick \/ UNCHANGED vars
    <2>1. past' = past /\ UNCHANGED <<access, auth, job, reload>>
      BY <1>8 DEF RulesOff, ReadRules, Tick, NoThread, vars
    <2>2. AuthorizationHolds'
      BY <1>1, <2>1 DEF AuthorizationHolds
    <2> QED  BY <2>1, <2>2, ListsAdm
  <1> QED  BY <1>2, <1>3, <1>4, <1>5, <1>6, <1>7, <1>8, StepAdm, ArriveAdm DEF Next, Reloading

(* A request that reaches its service was on an address list in force since it was
   decoded, and after that on an authorisation list or the authorisation was being
   reloaded; authorisation is off only in a reload or because its file could not be
   opened (OnlyAdmitted): for any number of threads, files and requests, however
   the checks mix with the reloads. *)
THEOREM LetsInOnlyAdmitted == Spec => []OnlyAdmitted
  <1>1. Init => TypeInv /\ AdmInv
    BY InitType, InitAdm
  <1>2. TypeInv /\ AdmInv /\ [Next]_vars => (TypeInv /\ AdmInv)'
    BY NextType, NextAdm
  <1>3. TypeInv /\ AdmInv => OnlyAdmitted
    BY DEF AdmInv, AdmJob, LetIn, Later, OnlyAdmitted, Admitted
  <1> QED  BY <1>1, <1>2, <1>3, PTL DEF Spec

----------------------------------------------------------------------------
(* The tables and the files.  While the files are read, the tables read so far are
   those of the files, and the table about to be read is empty.              *)

LEMMA LeastOf ==
  ASSUME NEW T, T \subseteq Nat, T # {}
  PROVE  \E i \in T : \A j \in T : i <= j
  <1>1. IsWellFoundedOn(OpToRel(<, Nat), Nat)
    BY NatLessThanWellFounded
  <1>2. PICK i \in T : \A j \in T : <<j, i>> \notin OpToRel(<, Nat)
    BY <1>1, WFMin
  <1>3. \A j \in T : ~(j < i)
    BY <1>2 DEF OpToRel
  <1>4. i \in Nat /\ \A j \in T : j \in Nat
    OBVIOUS
  <1> QED  BY <1>3, <1>4

LEMMA LastOf ==
  ASSUME NEW n \in Nat, NEW T, T \subseteq 1..n, T # {}
  PROVE  Last(T) \in T /\ \A j \in T : j <= Last(T)
  <1> DEFINE U == {n - i : i \in T}
  <1>1. PICK k \in U : \A j \in U : k <= j
    <2>1. \A i \in T : i \in 1..n /\ n - i \in Nat
      OBVIOUS
    <2>2. U \subseteq Nat /\ U # {}
      BY <2>1
    <2> QED  BY <2>2, LeastOf
  <1>2. PICK i \in T : k = n - i
    OBVIOUS
  <1>3. ASSUME NEW j \in T PROVE j <= i
    <2>1. n - j \in U
      OBVIOUS
    <2>2. n - i <= n - j
      BY <1>1, <1>2, <2>1
    <2>3. j \in Int /\ i \in Int
      OBVIOUS
    <2> QED  BY <2>2, <2>3
  <1> QED  BY <1>3 DEF Last

LEMMA LastIs ==
  ASSUME NEW n \in Nat, NEW T, T \subseteq 1..n, n \in T
  PROVE  Last(T) = n
  <1>1. Last(T) \in T /\ n <= Last(T)
    <2>1. T # {}
      OBVIOUS
    <2> QED  BY <2>1, LastOf
  <1>2. Last(T) \in 1..n
    BY <1>1
  <1> QED  BY <1>1, <1>2

(* Reading the next file over what was read. *)
LEMMA TablesGrow ==
  ASSUME NEW S, NEW fs \in Seq(S), NEW n \in 1..Len(fs)
  PROVE  Over(Table(fs[n]), Tables(SubSeq(fs, 1, n - 1))) = Tables(SubSeq(fs, 1, n))
  <1> DEFINE a == SubSeq(fs, 1, n - 1)
             b == SubSeq(fs, 1, n)
             old == Tables(a)
             new == Tables(b)
             HasA(k) == {i \in 1..n - 1 : k \in DOMAIN Table(a[i])}
             HasB(k) == {i \in 1..n : k \in DOMAIN Table(b[i])}
  <1>1. /\ DOMAIN a = 1..n - 1 /\ DOMAIN b = 1..n /\ b[n] = fs[n] /\ n \in Nat /\ n - 1 \in Nat
        /\ \A i \in 1..n - 1 : i \in 1..n /\ a[i] = b[i]
        /\ \A i \in 1..n : i \in 1..n - 1 \/ i = n
    OBVIOUS
  <1> HIDE DEF a, b
  <1>2. /\ DOMAIN old = UNION {DOMAIN Table(a[i]) : i \in 1..n - 1}
        /\ \A k \in DOMAIN old : old[k] = Table(a[Last(HasA(k))])[k]
        /\ old = [k \in DOMAIN old |-> old[k]]
    BY <1>1 DEF Tables
  <1>3. /\ DOMAIN new = UNION {DOMAIN Table(b[i]) : i \in 1..n}
        /\ \A k \in DOMAIN new : new[k] = Table(b[Last(HasB(k))])[k]
        /\ new = [k \in DOMAIN new |-> new[k]]
    BY <1>1 DEF Tables
  <1> HIDE DEF old, new
  <1>4. DOMAIN new = DOMAIN Table(fs[n]) \cup DOMAIN old
    <2>1. ASSUME NEW k \in DOMAIN new PROVE k \in DOMAIN Table(fs[n]) \cup DOMAIN old
      BY <1>1, <1>2, <1>3
    <2>2. ASSUME NEW k \in DOMAIN Table(fs[n]) PROVE k \in DOMAIN new
      BY <1>1, <1>3
    <2>3. ASSUME NEW k \in DOMAIN old PROVE k \in DOMAIN new
      BY <1>1, <1>2, <1>3
    <2> QED  BY <2>1, <2>2, <2>3
  <1>5. ASSUME NEW k \in DOMAIN Table(fs[n]) PROVE new[k] = Table(fs[n])[k]
    <2>1. HasB(k) \subseteq 1..n /\ n \in HasB(k)
      BY <1>1
    <2>2. Last(HasB(k)) = n
      BY <1>1, <2>1, LastIs
    <2> QED  BY <1>1, <1>3, <1>4, <2>2
  <1>6. ASSUME NEW k \in DOMAIN old \ DOMAIN Table(fs[n]) PROVE new[k] = old[k]
    <2>1. HasB(k) = HasA(k)
      BY <1>1
    <2>2. HasA(k) \subseteq 1..n - 1 /\ HasA(k) # {}
      BY <1>2
    <2>3. Last(HasA(k)) \in 1..n - 1
      BY <1>1, <2>2, LastOf
    <2>4. new[k] = Table(b[Last(HasB(k))])[k] /\ old[k] = Table(a[Last(HasA(k))])[k]
      BY <1>2, <1>3, <1>4
    <2>5. a[Last(HasA(k))] = b[Last(HasB(k))]
      BY <1>1, <2>1, <2>3
    <2> QED  BY <2>4, <2>5
  <1>7. Over(Table(fs[n]), old) = [k \in DOMAIN new |-> new[k]]
    BY <1>4, <1>5, <1>6 DEF Over
  <1> QED  BY <1>3, <1>7 DEF old, new, a, b

LEMMA NoTables ==
  ASSUME NEW S, NEW fs \in Seq(S)
  PROVE  /\ Tables(SubSeq(fs, 1, 0)) = Empty
         /\ SubSeq(fs, 1, Len(fs)) = fs
  <1>1. SubSeq(fs, 1, 0) = << >> /\ SubSeq(fs, 1, Len(fs)) = fs
    OBVIOUS
  <1>2. Tables(<< >>) = Empty
    <2>1. DOMAIN Empty = {} /\ Empty = [k \in {} |-> Empty[k]]
      BY DEF Empty, Table
    <2>2. DOMAIN Tables(<< >>) = {} /\ Tables(<< >>) = [k \in {} |-> Tables(<< >>)[k]]
      BY DEF Tables
    <2> QED  BY <2>1, <2>2
  <1> QED  BY <1>1, <1>2

(* The types files of an edition are a sequence, one for each range. *)
LEMMA TypesFiles ==
  ASSUME NEW d \in Files \cup {Installed}
  PROVE  /\ d.types \in Seq({d.types[i] : i \in DOMAIN Ranges})
         /\ Len(d.types) = Len(Ranges) /\ Len(Ranges) \in Nat \ {0} /\ DOMAIN Ranges = 1..Len(Ranges)
  <1>1. /\ d.types = [i \in DOMAIN Ranges |-> d.types[i]]
        /\ Len(Ranges) \in Nat \ {0} /\ DOMAIN Ranges = 1..Len(Ranges)
    BY AdmissionAssumption
  <1>2. d.types \in [1..Len(Ranges) -> {d.types[i] : i \in DOMAIN Ranges}]
    BY <1>1
  <1> QED  BY <1>1, <1>2

(* How far the reload has come, and what it has read. *)
Follows ==
    /\ reload.at # "idle" => reload.ok
    /\ reload.at = "types" =>
          /\ types = Tables(SubSeq(disk.types, 1, reload.file - 1))
          /\ \A i \in 1..reload.file - 1 : disk.types[i] # Missing
    /\ reload.at \in {"access", "readaccess", "limits", "readlimits", "others", "auth", "readauth"} => Read(1)
    /\ reload.at = "readaccess" => access = Empty
    /\ reload.at \in {"limits", "readlimits", "others", "auth", "readauth"} => Read(2)
    /\ reload.at = "readlimits" => LimitsAre(Empty)
    /\ reload.at \in {"others", "auth", "readauth"} => Read(3)
    /\ reload.at \in {"auth", "readauth"} => disk.others # Missing
    /\ reload.at = "types" => OldAccess
    /\ reload.at \notin {"idle", "readauth"} => OldAuth
    /\ TablesFollowFiles

(* What the files that were read say of the tables, in this state and in the next. *)
LEMMA ReadMeans ==
  /\ Read(1) <=> Missing \notin {disk.types[i] : i \in DOMAIN Ranges} /\ types = Tables(disk.types)
  /\ Read(2) <=> disk.access # Missing /\ access = Table(disk.access)
  /\ Read(3) <=> disk.limits # Missing /\ LimitsAre(Table(disk.limits))
  /\ Read(4) <=> disk.others # Missing
  /\ Read(5) <=> disk.auth # Missing /\ auth = [on |-> TRUE, tbl |-> Table(disk.auth)]
  <1>1. Read(1) <=> Missing \notin {disk.types[i] : i \in DOMAIN Ranges} /\ types = Tables(disk.types)
    BY DEF Read
  <1>2. Read(2) <=> disk.access # Missing /\ access = Table(disk.access)
    BY DEF Read
  <1>3. Read(3) <=> disk.limits # Missing /\ LimitsAre(Table(disk.limits))
    BY DEF Read
  <1>4. Read(4) <=> disk.others # Missing
    BY DEF Read
  <1>5. Read(5) <=> disk.auth # Missing /\ auth = [on |-> TRUE, tbl |-> Table(disk.auth)]
    BY DEF Read
  <1> QED  BY <1>1, <1>2, <1>3, <1>4, <1>5

LEMMA FailedMeans ==
  /\ Failed(1) <=> \E i \in DOMAIN Ranges :
                      disk.types[i] = Missing /\ types = Tables(SubSeq(disk.types, 1, i - 1))
  /\ Failed(2) <=> disk.access = Missing /\ access = Empty
  /\ Failed(3) <=> disk.limits = Missing /\ LimitsAre(Empty)
  /\ Failed(4) <=> disk.others = Missing
  /\ Failed(5) <=> disk.auth = Missing /\ auth = [on |-> FALSE, tbl |-> Empty]
  <1>1. Failed(1) <=> \E i \in DOMAIN Ranges :
                         disk.types[i] = Missing /\ types = Tables(SubSeq(disk.types, 1, i - 1))
    BY DEF Failed
  <1>2. Failed(2) <=> disk.access = Missing /\ access = Empty
    BY DEF Failed
  <1>3. Failed(3) <=> disk.limits = Missing /\ LimitsAre(Empty)
    BY DEF Failed
  <1>4. Failed(4) <=> disk.others = Missing
    BY DEF Failed
  <1>5. Failed(5) <=> disk.auth = Missing /\ auth = [on |-> FALSE, tbl |-> Empty]
    BY DEF Failed
  <1> QED  BY <1>1, <1>2, <1>3, <1>4, <1>5

(* The lists of before the reload are remembered. *)
LEMMA OldKept ==
  ASSUME TypeInv, reload'.from = reload.from, past' = past \/ Remember
  PROVE  /\ OldAccess /\ access' = access => OldAccess'
         /\ OldAuth /\ auth' = auth => OldAuth'
  <1>1. past'[reload'.from] = past[reload.from]
    <2>1. reload.from \in 1..Len(past)
      BY DEF TypeInv, RestInv
    <2> QED  BY <2>1, RememberDoes
  <1>2. OldAccess /\ access' = access => OldAccess'
    BY <1>1 DEF OldAccess
  <1>3. OldAuth /\ auth' = auth => OldAuth'
    BY <1>1 DEF OldAuth
  <1> QED  BY <1>2, <1>3

(* The limits of a table, for the counters that are there. *)
LEMMA NewLimitsAre ==
  ASSUME NEW d \in Files \cup {Installed}, d.limits # Missing
  PROVE  LET tbl == Table(d.limits) new == LimitCounters(tbl) IN
         /\ DOMAIN new = {<<"limit", k[1], k[2]>> : k \in DOMAIN tbl}
         /\ \A k \in DOMAIN tbl : LET c == new[<<"limit", k[1], k[2]>>] IN
               c.time = tbl[k].time /\ c.max = tbl[k].max
  <1> DEFINE tbl == Table(d.limits)
             new == LimitCounters(tbl)
  <1>1. \A k \in DOMAIN tbl : k = <<k[1], k[2]>>
    BY AdmissionAssumption
  <1> HIDE DEF tbl
  <1>2. DOMAIN new = {<<"limit", k[1], k[2]>> : k \in DOMAIN tbl}
    BY DEF LimitCounters
  <1>3. ASSUME NEW k \in DOMAIN tbl
        PROVE  LET c == new[<<"limit", k[1], k[2]>>] IN c.time = tbl[k].time /\ c.max = tbl[k].max
    <2>1. new[<<"limit", k[1], k[2]>>] = Policy(tbl[<<k[1], k[2]>>])
      BY <1>2 DEF LimitCounters
    <2>2. new[<<"limit", k[1], k[2]>>] = Policy(tbl[k])
      BY <1>1, <2>1
    <2> QED  BY <2>2 DEF Policy
  <1> QED  BY <1>2, <1>3 DEF tbl

(* A step that leaves the tables, the files and the limits as they are. *)
LimitsStay ==
    /\ {c \in DOMAIN counter' : IsLimit(c)} = Limits
    /\ \A c \in Limits : counter'[c].time = counter[c].time /\ counter'[c].max = counter[c].max

LEMMA LimitsKeep ==
  ASSUME LimitsStay, UNCHANGED disk
  PROVE  /\ LimitsAre(Table(disk.limits)) => LimitsAre(Table(disk.limits))'
         /\ LimitsAre(Empty) => LimitsAre(Empty)'
  <1>1. ASSUME NEW tbl, LimitsAre(tbl)
        PROVE  /\ {c \in DOMAIN counter' : IsLimit(c)} = {<<"limit", k[1], k[2]>> : k \in DOMAIN tbl}
               /\ \A k \in DOMAIN tbl : LET c == counter'[<<"limit", k[1], k[2]>>] IN
                     c.time = tbl[k].time /\ c.max = tbl[k].max
    <2>1. Limits = {<<"limit", k[1], k[2]>> : k \in DOMAIN tbl}
      BY <1>1 DEF LimitsAre, Limits
    <2>2. ASSUME NEW k \in DOMAIN tbl
          PROVE  LET c == counter'[<<"limit", k[1], k[2]>>] IN c.time = tbl[k].time /\ c.max = tbl[k].max
      <3>1. <<"limit", k[1], k[2]>> \in Limits
        BY <2>1
      <3> QED  BY <1>1, <3>1 DEF LimitsAre, LimitsStay
    <2> QED  BY <2>1, <2>2 DEF LimitsStay
  <1>2. \A tbl : LimitsAre(tbl) =>
           /\ {c \in DOMAIN counter' : IsLimit(c)} = {<<"limit", k[1], k[2]>> : k \in DOMAIN tbl}
           /\ \A k \in DOMAIN tbl : LET c == counter'[<<"limit", k[1], k[2]>>] IN
                 c.time = tbl[k].time /\ c.max = tbl[k].max
    BY <1>1
  <1>3. LimitsAre(Table(disk.limits)) => LimitsAre(Table(disk.limits))'
    <2>1. Table(disk.limits)' = Table(disk.limits)
      OBVIOUS
    <2> QED  BY <1>2, <2>1 DEF LimitsAre, IsLimit
  <1>4. LimitsAre(Empty) => LimitsAre(Empty)'
    BY <1>2 DEF LimitsAre, IsLimit
  <1> QED  BY <1>3, <1>4

LEMMA FollowsKept ==
  ASSUME TypeInv, Follows, LimitsStay, UNCHANGED <<tables, disk, reload, past>>
  PROVE  Follows'
  <1>1. UNCHANGED <<types, access, auth, disk, reload, past>>
    BY DEF tables
  <1>2. \A n \in 1..5 : (Read(n) => Read(n)') /\ (Failed(n) => Failed(n)')
    <2>1. (Read(1) => Read(1)') /\ (Failed(1) => Failed(1)')
      BY <1>1 DEF Read, Failed
    <2>2. (Read(2) => Read(2)') /\ (Failed(2) => Failed(2)')
      BY <1>1 DEF Read, Failed
    <2>3. (Read(3) => Read(3)') /\ (Failed(3) => Failed(3)')
      BY <1>1, LimitsKeep DEF Read, Failed
    <2>4. (Read(4) => Read(4)') /\ (Failed(4) => Failed(4)')
      BY <1>1 DEF Read, Failed
    <2>5. (Read(5) => Read(5)') /\ (Failed(5) => Failed(5)')
      BY <1>1 DEF Read, Failed
    <2> QED  BY <2>1, <2>2, <2>3, <2>4, <2>5
  <1>3. LimitsAre(Empty) => LimitsAre(Empty)'
    BY <1>1, LimitsKeep
  <1>4. (OldAccess => OldAccess') /\ (OldAuth => OldAuth')
    BY <1>1, OldKept
  <1>5. TablesFollowFiles'
    <2>1. CASE reload.at # "idle"
      BY <1>1, <2>1 DEF TablesFollowFiles
    <2>2. CASE reload.at = "idle" /\ reload.ok
      BY <1>1, <1>2, <2>2 DEF TablesFollowFiles, Follows
    <2>3. CASE reload.at = "idle" /\ ~reload.ok
      <3>1. PICK n \in 1..5 : /\ Failed(n) /\ \A m \in 1..n - 1 : Read(m)
                              /\ n < 2 => OldAccess
                              /\ n < 5 => OldAuth
        BY <2>3 DEF TablesFollowFiles, Follows
      <3>2. Failed(n)' /\ \A m \in 1..n - 1 : m \in 1..5 /\ Read(m)'
        BY <1>2, <3>1
      <3> QED  BY <1>1, <1>4, <2>3, <3>1, <3>2 DEF TablesFollowFiles
    <2> QED  BY <2>1, <2>2, <2>3
  <1> QED  BY <1>1, <1>2, <1>3, <1>4, <1>5 DEF Follows

LEMMA StepFollows ==
  ASSUME TypeInv, Follows, NEW w \in Worker, Step(w)
  PROVE  Follows'
  <1>1. CASE UNCHANGED <<tables, disk, reload, counter, past>>
    <2>1. LimitsStay
      BY <1>1 DEF LimitsStay, Limits
    <2> QED  BY <1>1, <2>1, FollowsKept
  <1>2. CASE MovesTo(w, Quiet)
    <2>1. UNCHANGED <<tables, disk, reload, counter, past>>
      BY <1>2 DEF MovesTo, OnlyJob
    <2> QED  BY <1>1, <2>1
  <1>3. ASSUME NEW c, Begins(w, c) PROVE Follows'
    <2>1. UNCHANGED <<tables, disk, reload, counter, past>>
      BY <1>3, BeginDoes
    <2> QED  BY <1>1, <2>1
  <1>4. ASSUME DOMAIN counter' = DOMAIN counter,
               \A d \in DOMAIN counter : counter'[d].time = counter[d].time /\ counter'[d].max = counter[d].max
        PROVE  LimitsStay
    BY <1>4 DEF LimitsStay, Limits
  <1>5. CASE StoreBegin(w)
    <2>1. /\ UNCHANGED <<tables, disk, reload, past>> /\ DOMAIN counter' = DOMAIN counter
          /\ \A d \in DOMAIN counter \ {reg[w].ctr} : counter'[d] = counter[d]
          /\ counter'[reg[w].ctr] = [counter[reg[w].ctr] EXCEPT !.begin = reg[w].now]
          /\ reg[w].ctr \in DOMAIN counter
      BY <1>5, StoreBeginDoes
    <2>2. DOMAIN counter[reg[w].ctr] = {"time", "max", "begin", "count"}
      BY <2>1, CounterFields DEF TypeInv
    <2>3. /\ counter'[reg[w].ctr].time = counter[reg[w].ctr].time
          /\ counter'[reg[w].ctr].max = counter[reg[w].ctr].max
      BY <2>1, <2>2
    <2> QED  BY <1>4, <2>1, <2>3, FollowsKept
  <1>6. CASE StoreCount(w)
    <2>1. /\ UNCHANGED <<tables, disk, reload, past>> /\ DOMAIN counter' = DOMAIN counter
          /\ \A d \in DOMAIN counter \ {reg[w].ctr} : counter'[d] = counter[d]
          /\ counter'[reg[w].ctr] = [counter[reg[w].ctr] EXCEPT !.count = reg[w].value]
          /\ reg[w].ctr \in DOMAIN counter
      BY <1>6, StoreCountDoes
    <2>2. DOMAIN counter[reg[w].ctr] = {"time", "max", "begin", "count"}
      BY <2>1, CounterFields DEF TypeInv
    <2>3. /\ counter'[reg[w].ctr].time = counter[reg[w].ctr].time
          /\ counter'[reg[w].ctr].max = counter[reg[w].ctr].max
      BY <2>1, <2>2
    <2> QED  BY <1>4, <2>1, <2>3, FollowsKept
  <1> QED  BY <1>2, <1>3, <1>5, <1>6, StepKinds

(* The manager thread replaces the rules and keeps the limits. *)
LEMMA OthersFollow ==
  ASSUME TypeInv, Follows,
         \/ \E w \in Worker, r \in Requests : Arrive(w, r)
         \/ RulesOff \/ (\E f \in RuleFile : ReadRules(f)) \/ Tick \/ UNCHANGED vars
  PROVE  Follows'
  <1>1. CASE UNCHANGED <<tables, disk, reload, counter, past>>
    <2>1. LimitsStay
      BY <1>1 DEF LimitsStay, Limits
    <2> QED  BY <1>1, <2>1, FollowsKept
  <1>2. ASSUME NEW f \in RuleFile, ReadRules(f) PROVE Follows'
    <2>1. UNCHANGED <<tables, disk, reload, past>>
      BY <1>2 DEF ReadRules, NoThread
    <2>2. /\ \A c \in DOMAIN RuleCounters(Table(f)) : c[1] # "limit"
          /\ \A c \in Limits : counter'[c] = counter[c]
          /\ DOMAIN counter' = DOMAIN RuleCounters(Table(f)) \cup Limits
      BY <1>2, ReadRulesDoes
    <2>3. \A c \in Limits : IsLimit(c)
      BY DEF Limits
    <2>4. LimitsStay
      BY <2>2, <2>3 DEF LimitsStay, IsLimit
    <2> QED  BY <2>1, <2>4, FollowsKept
  <1>3. ASSUME NEW w \in Worker, NEW r \in Requests, Arrive(w, r) PROVE Follows'
    BY <1>1, <1>3 DEF Arrive
  <1>4. CASE RulesOff \/ Tick \/ UNCHANGED vars
    BY <1>1, <1>4 DEF RulesOff, NoThread, Tick, vars, tables
  <1> QED  BY <1>2, <1>3, <1>4

(* Reading the files. *)
LEMMA ReloadFollows ==
  ASSUME TypeInv, AdmInv, NEW d \in Files, Reload(d)
  PROVE  Follows'
  <1>1. /\ reload' = [at |-> "types", file |-> 1, ok |-> TRUE, from |-> Len(past)]
        /\ types' = Empty /\ disk' = d /\ UNCHANGED <<access, auth, past>>
    BY DEF Reload
  <1>2. reload'.at = "types" /\ reload'.file = 1 /\ reload'.ok /\ reload'.from = Len(past)
    BY <1>1
  <1>3. Tables(SubSeq(d.types, 1, 0)) = Empty
    BY TypesFiles, NoTables
  <1>4. TablesFollowFiles'
    BY <1>2 DEF TablesFollowFiles
  <1>5. OldAccess' /\ OldAuth'
    <2>1. past[Len(past)] = Snapshot
      BY DEF AdmInv
    <2>2. past'[reload'.from] = [access |-> access, on |-> auth.on, auth |-> auth.tbl]
      BY <1>1, <1>2, <2>1 DEF Snapshot
    <2> QED  BY <1>1, <2>2 DEF OldAccess, OldAuth
  <1> QED  BY <1>1, <1>2, <1>3, <1>4, <1>5 DEF Follows

LEMMA ReadTypesFollows ==
  ASSUME TypeInv, Follows, ReadTypes
  PROVE  Follows'
  <1> DEFINE n == reload.file
             f == disk.types[n]
  <1>1. /\ UNCHANGED <<disk, access, auth, past>> /\ reload.at = "types" /\ reload.ok
        /\ OldAccess /\ OldAuth
        /\ types = Tables(SubSeq(disk.types, 1, n - 1))
        /\ \A i \in 1..n - 1 : disk.types[i] # Missing
    BY DEF ReadTypes, Follows
  <1>2. /\ disk.types \in Seq({disk.types[i] : i \in DOMAIN Ranges})
        /\ Len(disk.types) = Len(Ranges) /\ Len(Ranges) \in Nat \ {0} /\ DOMAIN Ranges = 1..Len(Ranges)
        /\ n \in 1..Len(Ranges)
    BY TypesFiles DEF TypeInv, RestInv
  <1>3. CASE f = Missing
    <2>1. types' = types /\ reload'.at = "idle" /\ ~reload'.ok
      BY <1>3, ReloadGoes DEF ReadTypes
    <2>2. Failed(1)'
      BY <1>1, <1>2, <1>3, <2>1 DEF Failed
    <2>3. TablesFollowFiles'
      <3>1. OldAccess' /\ OldAuth'
        BY <1>1, <1>3, OldKept, ReloadGoes DEF ReadTypes
      <3> QED  BY <2>1, <2>2, <3>1 DEF TablesFollowFiles
    <2> QED  BY <2>1, <2>3 DEF Follows
  <1>4. CASE f # Missing
    <2>1. types' = Tables(SubSeq(disk.types, 1, n))
      <3>1. types' = Over(Table(f), types)
        BY <1>4 DEF ReadTypes
      <3>2. Over(Table(f), Tables(SubSeq(disk.types, 1, n - 1))) = Tables(SubSeq(disk.types, 1, n))
        BY <1>2, TablesGrow
      <3> QED  BY <1>1, <3>1, <3>2
    <2>2. \A i \in 1..n : disk.types[i] # Missing
      BY <1>1, <1>2, <1>4
    <2>3. CASE n = Len(Ranges)
      <3>1. reload'.at = "access" /\ reload'.ok
        BY <1>1, <1>4, <2>3, ReloadGoes DEF ReadTypes
      <3>2. SubSeq(disk.types, 1, n) = disk.types
        BY <1>2, <2>3, NoTables
      <3>3. types' = Tables(disk.types)
        BY <2>1, <3>2
      <3>4. Missing \notin {disk.types[i] : i \in DOMAIN Ranges}
        BY <1>2, <2>2, <2>3
      <3>5. Read(1)'
        BY <1>1, <3>3, <3>4 DEF Read
      <3>6. OldAuth'
        BY <1>1, <1>4, <2>3, OldKept, ReloadGoes DEF ReadTypes
      <3> QED  BY <3>1, <3>5, <3>6 DEF Follows, TablesFollowFiles
    <2>4. CASE n # Len(Ranges)
      <3>1. reload' = [reload EXCEPT !.file = @ + 1]
        BY <1>4, <2>4 DEF ReadTypes
      <3>2. DOMAIN reload = {"at", "file", "ok", "from"}
        BY DEF TypeInv, RestInv
      <3>3. reload'.at = "types" /\ reload'.ok /\ reload'.file = n + 1 /\ reload'.from = reload.from
        BY <1>1, <3>1, <3>2
      <3>4. reload'.file - 1 = n
        BY <1>2, <3>3
      <3>5. OldAccess' /\ OldAuth'
        BY <1>1, <3>3, OldKept
      <3> QED  BY <1>1, <2>1, <2>2, <3>3, <3>4, <3>5 DEF Follows, TablesFollowFiles
    <2> QED  BY <2>3, <2>4
  <1> QED  BY <1>3, <1>4

LEMMA AccessFollows ==
  ASSUME TypeInv, Follows, ClearAccess \/ ReadAccess
  PROVE  Follows'
  <1>1. UNCHANGED <<types, auth, disk>> /\ Remember /\ reload.ok /\ Read(1) /\ OldAuth
    BY DEF ClearAccess, ReadAccess, Follows
  <1>2. Read(1)'
    BY <1>1 DEF Read
  <1>3. OldAuth'
    BY <1>1, OldKept, ReloadGoes DEF ClearAccess, ReadAccess
  <1>4. CASE ClearAccess
    <2>1. reload'.at = "readaccess" /\ reload'.ok /\ access' = Empty
      BY <1>1, <1>4, ReloadGoes DEF ClearAccess
    <2> QED  BY <1>2, <1>3, <2>1 DEF Follows, TablesFollowFiles
  <1>5. CASE ReadAccess /\ disk.access = Missing
    <2>1. reload'.at = "idle" /\ ~reload'.ok /\ access' = access /\ access = Empty
      BY <1>5, ReloadGoes DEF ReadAccess, Follows
    <2>2. Failed(2)'
      BY <1>1, <1>5, <2>1 DEF Failed
    <2>3. TablesFollowFiles'
      <3>1. \A m \in 1..2 - 1 : Read(m)'
        BY <1>2
      <3> QED  BY <1>3, <2>1, <2>2, <3>1 DEF TablesFollowFiles
    <2> QED  BY <2>1, <2>3 DEF Follows
  <1>6. CASE ReadAccess /\ disk.access # Missing
    <2>1. reload'.at = "limits" /\ reload'.ok /\ access' = Table(disk.access)
      BY <1>1, <1>6, ReloadGoes DEF ReadAccess
    <2>2. Read(2)'
      BY <1>1, <1>6, <2>1 DEF Read
    <2> QED  BY <1>2, <1>3, <2>1, <2>2 DEF Follows, TablesFollowFiles
  <1> QED  BY <1>4, <1>5, <1>6

LEMMA LimitsFollow ==
  ASSUME TypeInv, Follows, ClearLimits \/ ReadLimits
  PROVE  Follows'
  <1>1. /\ UNCHANGED <<types, access, auth, disk, past>> /\ reload.ok
        /\ Read(1) /\ Read(2) /\ OldAuth
    BY DEF ClearLimits, ReadLimits, Follows, tables
  <1>2. Read(1)' /\ Read(2)'
    BY <1>1 DEF Read
  <1>3. OldAuth'
    BY <1>1, OldKept, ReloadGoes DEF ClearLimits, ReadLimits
  <1>4. DOMAIN Empty = {}
    BY EmptyTable
  <1>5. CASE ClearLimits
    <2>1. reload'.at = "readlimits" /\ reload'.ok
      BY <1>1, <1>5, ReloadGoes DEF ClearLimits
    <2>2. LimitsAre(Empty)'
      <3>1. \A c \in DOMAIN counter' : ~IsLimit(c)
        BY <1>5, ClearLimitsDoes DEF NotLimits
      <3> QED  BY <1>4, <3>1 DEF LimitsAre
    <2> QED  BY <1>2, <1>3, <2>1, <2>2 DEF Follows, TablesFollowFiles
  <1>6. ASSUME ReadLimits
        PROVE  /\ {c \in DOMAIN counter' : IsLimit(c)} = DOMAIN NewLimits
               /\ \A c \in DOMAIN NewLimits : counter'[c] = NewLimits[c]
    <2>1. LimitsAre(Empty)
      BY <1>6 DEF ReadLimits, Follows
    <2>2. \A c \in DOMAIN counter : ~IsLimit(c)
      BY <1>4, <2>1 DEF LimitsAre
    <2>3. /\ \A c \in DOMAIN NewLimits : c[1] = "limit" /\ counter'[c] = NewLimits[c]
          /\ DOMAIN counter' = DOMAIN NewLimits \cup DOMAIN counter
      BY <1>6, ReadLimitsDoes
    <2> QED  BY <2>2, <2>3 DEF IsLimit
  <1>7. CASE ReadLimits /\ disk.limits = Missing
    <2>1. reload'.at = "idle" /\ ~reload'.ok
      BY <1>7, ReloadGoes DEF ReadLimits
    <2>2. NewLimits = Empty
      BY <1>7 DEF NewLimits
    <2>3. LimitsAre(Empty)'
      BY <1>4, <1>6, <1>7, <2>2 DEF LimitsAre
    <2>4. Failed(3)'
      BY <1>1, <1>7, <2>3 DEF Failed
    <2>5. TablesFollowFiles'
      <3>1. \A m \in 1..3 - 1 : Read(m)'
        BY <1>2
      <3> QED  BY <1>3, <2>1, <2>4, <3>1 DEF TablesFollowFiles
    <2> QED  BY <2>1, <2>5 DEF Follows
  <1>8. CASE ReadLimits /\ disk.limits # Missing
    <2>1. reload'.at = "others" /\ reload'.ok
      BY <1>1, <1>8, ReloadGoes DEF ReadLimits
    <2> DEFINE tbl == Table(disk.limits)
    <2>2. /\ DOMAIN NewLimits = {<<"limit", k[1], k[2]>> : k \in DOMAIN tbl}
          /\ \A k \in DOMAIN tbl : LET c == NewLimits[<<"limit", k[1], k[2]>>] IN
                c.time = tbl[k].time /\ c.max = tbl[k].max
      BY <1>8, NewLimitsAre DEF NewLimits, TypeInv, RestInv
    <2>3. LimitsAre(tbl)'
      <3>1. /\ {c \in DOMAIN counter' : IsLimit(c)} = {<<"limit", k[1], k[2]>> : k \in DOMAIN tbl}
            /\ \A k \in DOMAIN tbl : LET c == counter'[<<"limit", k[1], k[2]>>] IN
                  c.time = tbl[k].time /\ c.max = tbl[k].max
        BY <1>6, <1>8, <2>2
      <3>2. tbl' = tbl
        BY <1>1
      <3> QED  BY <3>1, <3>2 DEF LimitsAre, IsLimit
    <2>4. Read(3)'
      BY <1>1, <1>8, <2>3 DEF Read
    <2> QED  BY <1>2, <1>3, <2>1, <2>4 DEF Follows, TablesFollowFiles
  <1> QED  BY <1>5, <1>7, <1>8

LEMMA ReadOthersFollow ==
  ASSUME TypeInv, Follows, ReadOthers
  PROVE  Follows'
  <1>1. /\ UNCHANGED <<types, access, auth, disk, counter, past>> /\ reload.ok
        /\ Read(1) /\ Read(2) /\ Read(3) /\ OldAuth
    BY DEF ReadOthers, Follows, tables
  <1>2. Read(1)' /\ Read(2)' /\ Read(3)'
    BY <1>1 DEF Read, LimitsAre
  <1>3. OldAuth'
    BY <1>1, OldKept, ReloadGoes DEF ReadOthers
  <1>4. CASE disk.others = Missing
    <2>1. reload'.at = "idle" /\ ~reload'.ok
      BY <1>4, ReloadGoes DEF ReadOthers
    <2>2. Failed(4)'
      BY <1>1, <1>4 DEF Failed
    <2>3. TablesFollowFiles'
      <3>1. \A m \in 1..4 - 1 : Read(m)'
        BY <1>2
      <3> QED  BY <1>3, <2>1, <2>2, <3>1 DEF TablesFollowFiles
    <2> QED  BY <2>1, <2>3 DEF Follows
  <1>5. CASE disk.others # Missing
    <2>1. reload'.at = "auth" /\ reload'.ok
      BY <1>1, <1>5, ReloadGoes DEF ReadOthers
    <2> QED  BY <1>1, <1>2, <1>3, <1>5, <2>1 DEF Follows, TablesFollowFiles
  <1> QED  BY <1>4, <1>5

LEMMA AuthFollows ==
  ASSUME TypeInv, Follows, AuthOff \/ ReadAuth
  PROVE  Follows'
  <1>1. /\ UNCHANGED <<types, access, disk, counter>> /\ reload.ok
        /\ Read(1) /\ Read(2) /\ Read(3) /\ disk.others # Missing
    BY DEF AuthOff, ReadAuth, Follows
  <1>2. Read(1)' /\ Read(2)' /\ Read(3)' /\ Read(4)'
    BY <1>1 DEF Read, LimitsAre
  <1>3. CASE AuthOff
    <2>1. reload'.at = "readauth" /\ reload'.ok
      BY <1>1, <1>3, ReloadGoes DEF AuthOff
    <2> QED  BY <1>1, <1>2, <2>1 DEF Follows, TablesFollowFiles
  <1>4. CASE ReadAuth /\ disk.auth = Missing
    <2>1. reload'.at = "idle" /\ ~reload'.ok
      BY <1>4, ReloadGoes DEF ReadAuth
    <2>2. Failed(5)'
      BY <1>1, <1>4 DEF Failed, ReadAuth
    <2>3. TablesFollowFiles'
      <3>1. \A m \in 1..5 - 1 : Read(m)'
        BY <1>2
      <3> QED  BY <2>1, <2>2, <3>1 DEF TablesFollowFiles
    <2> QED  BY <2>1, <2>3 DEF Follows
  <1>5. CASE ReadAuth /\ disk.auth # Missing
    <2>1. reload'.at = "idle" /\ reload'.ok
      BY <1>1, <1>5, ReloadGoes DEF ReadAuth
    <2>2. Read(5)'
      BY <1>1, <1>5 DEF Read, ReadAuth
    <2>3. TablesFollowFiles'
      <3>1. \A n \in 1..5 : Read(n)'
        BY <1>2, <2>2
      <3> QED  BY <2>1, <3>1 DEF TablesFollowFiles
    <2> QED  BY <2>1, <2>3 DEF Follows
  <1> QED  BY <1>3, <1>4, <1>5

LEMMA InitFollows ==
  ASSUME Init
  PROVE  Follows
  <1>1. /\ disk = Installed /\ now \in 0..MaxNow /\ Installed.limits # Missing
        /\ Installed.access # Missing /\ Installed.others # Missing /\ Installed.auth # Missing
        /\ Missing \notin {Installed.types[i] : i \in DOMAIN Ranges}
    BY AdmissionAssumption DEF Init
  <1>2. Read(1) /\ Read(2) /\ Read(4) /\ Read(5)
    BY <1>1 DEF Init, Read
  <1> DEFINE tbl == Table(Installed.limits)
             lim == LimitCounters(tbl)
  <1>3. Read(3)
    <2>1. PICK f \in RuleFile : counter = Over(lim, RuleCounters(Table(f)))
      BY <1>1 DEF Init
    <2>2. \A c \in DOMAIN RuleCounters(Table(f)) : ~IsLimit(c)
      BY <1>1, RuleCountersType DEF IsLimit
    <2>3. \A c \in DOMAIN lim : IsLimit(c)
      BY <1>1, LimitCountersType DEF IsLimit
    <2>4. /\ DOMAIN lim = {<<"limit", k[1], k[2]>> : k \in DOMAIN tbl}
          /\ \A k \in DOMAIN tbl : LET c == lim[<<"limit", k[1], k[2]>>] IN
                c.time = tbl[k].time /\ c.max = tbl[k].max
      BY <1>1, NewLimitsAre
    <2> HIDE DEF lim
    <2>5. DOMAIN counter = DOMAIN lim \cup DOMAIN RuleCounters(Table(f))
          /\ \A c \in DOMAIN lim : counter[c] = lim[c]
      <3>1. /\ DOMAIN Over(lim, RuleCounters(Table(f))) = DOMAIN lim \cup DOMAIN RuleCounters(Table(f))
            /\ \A c \in DOMAIN lim : Over(lim, RuleCounters(Table(f)))[c] = lim[c]
        BY OverHolds
      <3> QED  BY <2>1, <3>1
    <2>6. {c \in DOMAIN counter : IsLimit(c)} = DOMAIN lim
      BY <2>2, <2>3, <2>5
    <2>7. LimitsAre(tbl)
      BY <2>4, <2>5, <2>6 DEF LimitsAre
    <2> QED  BY <1>1, <2>7 DEF Read
  <1>4. reload.at = "idle" /\ reload.ok
    BY DEF Init
  <1> QED  BY <1>2, <1>3, <1>4 DEF Follows, TablesFollowFiles

(* After a reload every table is that of its file, and after one that failed the tables
   are so up to the file that could not be opened, whose table is empty, and the
   lists behind it are those of before (TablesFollowFiles): for any files, however
   requests and the manager thread mix with the reload.                      *)
THEOREM ReadsWhatIsThere == Spec => []TablesFollowFiles
  <1>1. Init => TypeInv /\ AdmInv /\ Follows
    BY InitType, InitAdm, InitFollows
  <1>2. TypeInv /\ AdmInv /\ Follows /\ [Next]_vars => (TypeInv /\ AdmInv /\ Follows)'
    <2> SUFFICES ASSUME TypeInv, AdmInv, Follows, [Next]_vars
                 PROVE  TypeInv' /\ AdmInv' /\ Follows'
      OBVIOUS
    <2>1. ASSUME Reloading PROVE Follows'
      BY <2>1, ReloadFollows, ReadTypesFollows, AccessFollows, LimitsFollow,
         ReadOthersFollow, AuthFollows DEF Reloading
    <2>2. ASSUME NEW w \in Worker, Step(w) PROVE Follows'
      BY <2>2, StepFollows
    <2>3. Follows'
      BY <2>1, <2>2, OthersFollow DEF Next
    <2> QED  BY <2>3, NextType, NextAdm
  <1>3. TypeInv /\ AdmInv /\ Follows => TablesFollowFiles
    BY DEF Follows
  <1> QED  BY <1>1, <1>2, <1>3, PTL DEF Spec

----------------------------------------------------------------------------
(* The limits.  What is counted is never more than what came.  As long as no two
   threads mixed on a counter, the history of its window is what its count says,
   and the one thread that may be counting holds the next count, or opened a
   window in which nothing has passed yet.                                   *)

On(w, c) == job[w].at \in Counting /\ reg[w].ctr = c

Most(c) == IF c[1] = "limit" THEN counter[c].max + 1
           ELSE IF counter[c].max = 0 THEN 1 ELSE counter[c].max
Exact(c) ==
    LET s == stat[c] k == counter[c] IN
    /\ s.passed <= Most(c)
    /\ s.refused > 0 => s.passed >= k.max /\ k.count > k.max
    /\ s.refused = 0 =>
          IF c[1] = "limit" THEN s.passed \in {k.count, k.count + 1} /\ k.count <= k.max
          ELSE s.passed = k.count

CounterInv(c) ==
    LET s == stat[c] IN
    /\ counter[c].count <= s.all
    /\ s.refused > 0 => s.all > counter[c].max
    /\ \A w \in Worker : On(w, c) => reg[w].value <= s.all + 1
    /\ \A v, w \in Worker : On(v, c) /\ On(w, c) /\ v # w => s.torn
    /\ ~s.torn =>
          /\ \A w \in Worker : On(w, c) =>
                IF reg[w].step = "count" THEN reg[w].value = counter[c].count + 1
                ELSE reg[w].value = FirstCount(c) /\ s.passed = 0 /\ s.refused = 0
          /\ (\A w \in Worker : On(w, c) => reg[w].step = "count") => Exact(c)
CountersInv == \A c \in DOMAIN counter : CounterInv(c)

(* A counter that a step leaves as it is. *)
LEMMA CounterKept ==
  ASSUME NEW c, CounterInv(c),
         counter'[c].count = counter[c].count, counter'[c].max = counter[c].max,
         stat'[c].all = stat[c].all, stat'[c].passed = stat[c].passed,
         stat'[c].refused = stat[c].refused, stat'[c].torn = stat[c].torn,
         \A w \in Worker : /\ On(w, c)' <=> On(w, c)
                           /\ On(w, c) => /\ reg'[w].value = reg[w].value
                                          /\ reg'[w].step = "count" <=> reg[w].step = "count"
  PROVE  CounterInv(c)'
  <1>1. Exact(c) => Exact(c)'
    BY DEF Exact, Most
  <1>2. /\ counter'[c].count <= stat'[c].all
        /\ stat'[c].refused > 0 => stat'[c].all > counter'[c].max
    BY DEF CounterInv
  <1>3. \A w \in Worker : On(w, c)' => reg'[w].value <= stat'[c].all + 1
    BY DEF CounterInv
  <1>4. \A v, w \in Worker : On(v, c)' /\ On(w, c)' /\ v # w => stat'[c].torn
    BY DEF CounterInv
  <1>5. ASSUME ~stat'[c].torn
        PROVE  \A w \in Worker : On(w, c)' =>
                  IF reg'[w].step = "count" THEN reg'[w].value = counter'[c].count + 1
                  ELSE reg'[w].value = FirstCount(c) /\ stat'[c].passed = 0 /\ stat'[c].refused = 0
    BY <1>5 DEF CounterInv
  <1>6. ASSUME ~stat'[c].torn, \A w \in Worker : On(w, c)' => reg'[w].step = "count"
        PROVE  Exact(c)'
    BY <1>1, <1>6 DEF CounterInv
  <1> QED  BY <1>2, <1>3, <1>4, <1>5, <1>6 DEF CounterInv, FirstCount

(* A counter that starts anew, with nobody counting on it. *)
LEMMA CounterFresh ==
  ASSUME NEW c, counter'[c].count = 0, counter'[c].max \in Nat, stat'[c] = NewStat,
         \A w \in Worker : ~On(w, c)'
  PROVE  CounterInv(c)'
  <1>1. stat'[c].all = 0 /\ stat'[c].passed = 0 /\ stat'[c].refused = 0
    BY DEF NewStat
  <1> QED  BY <1>1 DEF CounterInv, Exact, Most

LEMMA MoveCounters ==
  ASSUME TypeInv, CountersInv, NEW w \in Worker, MovesTo(w, Quiet)
  PROVE  CountersInv'
  <1>1. UNCHANGED <<counter, reg, stat>>
    BY DEF MovesTo, OnlyJob
  <1>2. job[w].at \notin Counting /\ job'[w].at \notin Counting
    BY NoJobFields DEF MovesTo, Waits, Quiet, Counting
  <1>3. \A v \in Worker : v # w => job'[v] = job[v]
    BY DEF MovesTo
  <1>4. ASSUME NEW c \in DOMAIN counter PROVE CounterInv(c)'
    <2>1. \A v \in Worker : On(v, c)' <=> On(v, c)
      BY <1>1, <1>2, <1>3 DEF On
    <2> QED  BY <1>1, <2>1, CounterKept DEF CountersInv
  <1> QED  BY <1>1, <1>4 DEF CountersInv

LEMMA BeginCounters ==
  ASSUME TypeInv, CountersInv, NEW w \in Worker, NEW c, Begins(w, c)
  PROVE  CountersInv'
  <1>1. UNCHANGED counter /\ c \in DOMAIN counter /\ CtrInv
    BY BeginDoes DEF Begins, TypeInv
  <1>2. /\ \A v \in Worker : v # w => job'[v] = job[v] /\ reg'[v] = reg[v]
        /\ job'[w].at = c[1] /\ c[1] \in Counting /\ reg'[w].ctr = c /\ job[w].at \notin Counting
    BY BeginDoes DEF Begins, Counting
  <1>3. /\ Opens(c) => reg'[w].step = "begin" /\ reg'[w].value = FirstCount(c)
        /\ ~Opens(c) => reg'[w].step = "count" /\ reg'[w].value = counter[c].count + 1
    BY BeginDoes
  <1>4. \A v \in Worker, d \in DOMAIN counter :
           On(v, d)' <=> IF v = w THEN d = c ELSE On(v, d)
    BY <1>2 DEF On
  <1>5. \A d \in DOMAIN counter : ~On(w, d)
    BY <1>2 DEF On
  <1>6. ASSUME NEW d \in DOMAIN counter, d # c PROVE CounterInv(d)'
    <2>1. stat'[d] = stat[d] /\ counter'[d] = counter[d] /\ CounterInv(d)
      BY <1>1, <1>6, BeginStat DEF CountersInv
    <2>2. \A v \in Worker : (On(v, d)' <=> On(v, d)) /\ (On(v, d) => reg'[v] = reg[v])
      BY <1>2, <1>4, <1>5, <1>6
    <2> QED  BY <2>1, <2>2, CounterKept
  <1>7. CounterInv(c)'
    <2> DEFINE s == stat[c]
               t == stat'[c]
               k == counter[c]
    <2>1. /\ s.all \in Nat /\ s.passed \in Nat /\ s.refused \in Nat
          /\ k.count \in Nat /\ k.max \in Nat
      BY <1>1, StatFields, CounterFields
    <2>2. /\ t.all = s.all
          /\ Busy(w, c) => t.passed = s.passed /\ t.refused = s.refused /\ t.torn
          /\ ~Busy(w, c) /\ Opens(c) => t.passed = 0 /\ t.refused = 0 /\ ~t.torn
          /\ ~Busy(w, c) /\ ~Opens(c) => t = s
      BY BeginStat
    <2>3. Busy(w, c) <=> \E v \in Worker : v # w /\ On(v, c)
      BY DEF Busy, On
    <2>4. CounterInv(c)
      BY <1>1 DEF CountersInv
    <2>5. /\ k.count <= s.all /\ (s.refused > 0 => s.all > k.max)
          /\ \A v \in Worker : On(v, c) => reg[v].value <= s.all + 1
      BY <2>4 DEF CounterInv
    <2>6. reg'[w].value <= t.all + 1
      BY <1>3, <2>1, <2>2, <2>5 DEF FirstCount
    <2>7. \A v \in Worker : On(v, c)' => reg'[v].value <= t.all + 1
      BY <1>2, <1>4, <1>1, <2>2, <2>5, <2>6
    <2>8. k.count <= t.all /\ (t.refused > 0 => t.all > k.max)
      BY <2>2, <2>5
    <2>9. CASE Busy(w, c)
      BY <1>1, <2>2, <2>7, <2>8, <2>9 DEF CounterInv
    <2>10. CASE ~Busy(w, c)
      <3>1. \A v \in Worker : On(v, c)' <=> v = w
        BY <1>1, <1>4, <2>3, <2>10
      <3>2. \A v \in Worker : ~On(v, c)
        BY <1>1, <1>5, <2>3, <2>10
      <3>3. CASE Opens(c)
        <4>1. /\ reg'[w].step = "begin" /\ reg'[w].value = FirstCount(c)
              /\ t.passed = 0 /\ t.refused = 0
          BY <1>3, <2>2, <2>10, <3>3
        <4> QED  BY <1>1, <2>7, <2>8, <3>1, <4>1 DEF CounterInv, FirstCount
      <3>4. CASE ~Opens(c)
        <4>1. t = s /\ reg'[w].step = "count" /\ reg'[w].value = k.count + 1
          BY <1>3, <2>2, <2>10, <3>4
        <4>2. ~t.torn => Exact(c)'
          BY <1>1, <2>4, <3>2, <4>1 DEF CounterInv, Exact, Most
        <4> QED  BY <1>1, <2>7, <2>8, <3>1, <4>1, <4>2 DEF CounterInv
      <3> QED  BY <3>3, <3>4
    <2> QED  BY <2>9, <2>10
  <1> QED  BY <1>1, <1>6, <1>7 DEF CountersInv

LEMMA StoreBeginCounters ==
  ASSUME TypeInv, CountersInv, NEW w \in Worker, StoreBegin(w)
  PROVE  CountersInv'
  <1> DEFINE c == reg[w].ctr
  <1>1. /\ UNCHANGED <<job, stat>> /\ DOMAIN counter' = DOMAIN counter /\ c \in DOMAIN counter
        /\ reg[w].step = "begin" /\ reg'[w].step = "opened"
        /\ reg'[w].ctr = c /\ reg'[w].value = reg[w].value
        /\ \A v \in Worker : v # w => reg'[v] = reg[v]
    BY StoreBeginDoes
  <1>2. \A d \in DOMAIN counter : counter'[d].count = counter[d].count /\ counter'[d].max = counter[d].max
    <2>1. /\ \A d \in DOMAIN counter \ {c} : counter'[d] = counter[d]
          /\ counter'[c] = [counter[c] EXCEPT !.begin = reg[w].now]
      BY StoreBeginDoes
    <2>2. DOMAIN counter[c] = {"time", "max", "begin", "count"}
      BY <1>1, CounterFields DEF TypeInv
    <2> QED  BY <2>1, <2>2
  <1>3. ASSUME NEW d \in DOMAIN counter PROVE CounterInv(d)'
    <2>1. CounterInv(d) /\ stat'[d] = stat[d]
      BY <1>1 DEF CountersInv
    <2>2. ASSUME NEW v \in Worker
          PROVE  /\ On(v, d)' <=> On(v, d)
                 /\ reg'[v].value = reg[v].value
                 /\ reg'[v].step = "count" <=> reg[v].step = "count"
      <3>1. CASE v = w
        BY <1>1, <3>1 DEF On
      <3>2. CASE v # w
        BY <1>1, <3>2 DEF On
      <3> QED  BY <3>1, <3>2
    <2> QED  BY <1>2, <2>1, <2>2, CounterKept
  <1> QED  BY <1>1, <1>3 DEF CountersInv

LEMMA StoreCountCounters ==
  ASSUME TypeInv, CountersInv, NEW w \in Worker, StoreCount(w), NEW c, c = reg[w].ctr
  PROVE  CountersInv'
  <1> DEFINE s == stat[c]
             t == stat'[c]
             k == counter[c]
             l == counter'[c]
             n == reg[w].value
  <1>1. /\ DOMAIN counter' = DOMAIN counter /\ c \in DOMAIN counter /\ CtrInv
        /\ job[w].at \in Counting /\ reg[w].step \in {"opened", "count"}
        /\ \A v \in Worker : v # w => reg'[v] = reg[v] /\ job'[v] = job[v]
        /\ \A d \in DOMAIN counter \ {c} : counter'[d] = counter[d]
    BY StoreCountDoes DEF TypeInv
  <1>2. job'[w].at \notin Counting
    <2>1. job'[w] = NoJob \/ job'[w].at = After[job[w].at]
      BY StoreCountDoes
    <2>2. After["limit"] = "rule" /\ After["master"] = "keys" /\ After["service"] = "call"
      BY DEF After
    <2> QED  BY <1>1, <2>1, <2>2, NoJobFields DEF Counting
  <1>3. /\ t.all = s.all + 1
        /\ t.passed = (IF InLimit(w) THEN s.passed + 1 ELSE s.passed)
        /\ t.refused = (IF InLimit(w) THEN s.refused ELSE s.refused + 1)
        /\ t.torn = s.torn
    BY StoreCountStat
  <1>4. ASSUME NEW d \in DOMAIN counter, d # c PROVE CounterInv(d)'
    <2>1. /\ stat'[d].all = stat[d].all /\ stat'[d].passed = stat[d].passed
          /\ stat'[d].refused = stat[d].refused /\ stat'[d].torn = stat[d].torn
      BY <1>4, StoreCountStat
    <2>2. ASSUME NEW v \in Worker PROVE (On(v, d)' <=> On(v, d)) /\ (On(v, d) => reg'[v] = reg[v])
      BY <1>1, <1>2, <1>4 DEF On
    <2> QED  BY <1>1, <1>4, <2>1, <2>2, CounterKept DEF CountersInv
  <1>5. /\ s.all \in Nat /\ s.passed \in Nat /\ s.refused \in Nat
        /\ k.count \in Nat /\ k.max \in Nat /\ n \in Nat
    BY <1>1, StatFields, CounterFields DEF TypeInv, JobInv
  <1>6. l.count = n /\ l.max = k.max
    <2>1. l = [k EXCEPT !.count = n]
      BY StoreCountDoes
    <2>2. DOMAIN k = {"time", "max", "begin", "count"}
      BY <1>1, CounterFields
    <2> QED  BY <2>1, <2>2
  <1>7. InLimit(w) <=> reg[w].step = "opened" \/ n <= k.max
    BY DEF InLimit
  <1>8. CounterInv(c) /\ On(w, c)
    BY <1>1 DEF CountersInv, On
  <1>9. /\ k.count <= s.all /\ n <= s.all + 1
        /\ s.refused > 0 => s.all > k.max
        /\ \A v \in Worker : On(v, c) => reg[v].value <= s.all + 1
        /\ \A v \in Worker : On(v, c) /\ v # w => s.torn
    BY <1>8 DEF CounterInv
  <1>10. \A v \in Worker : On(v, c)' => v # w /\ On(v, c) /\ reg'[v] = reg[v] /\ reg[v].value \in Nat
    <2>1. \A v \in Worker : reg[v].value \in Nat
      BY DEF TypeInv, JobInv
    <2> QED  BY <1>1, <1>2, <2>1 DEF On
  <1>11. l.count <= t.all /\ (t.refused > 0 => t.all > l.max)
    BY <1>3, <1>5, <1>6, <1>7, <1>9
  <1>12. \A v \in Worker : On(v, c)' => reg'[v].value <= t.all + 1
    BY <1>3, <1>5, <1>9, <1>10
  <1>13. \A u, v \in Worker : On(u, c)' /\ On(v, c)' /\ u # v => t.torn
    BY <1>3, <1>9, <1>10
  <1>14. ASSUME ~t.torn PROVE Exact(c)'
    <2>1. ~s.torn /\ \A v \in Worker : On(v, c) => v = w
      BY <1>3, <1>9, <1>14
    <2>2. CASE reg[w].step = "opened"
      <3>1. n = FirstCount(c) /\ s.passed = 0 /\ s.refused = 0 /\ InLimit(w)
        BY <1>7, <1>8, <2>1, <2>2 DEF CounterInv
      <3>2. l.count = FirstCount(c) /\ t.passed = 1 /\ t.refused = 0
        BY <1>3, <1>6, <3>1
      <3> QED  BY <1>5, <1>6, <3>2 DEF Exact, Most, FirstCount
    <2>3. CASE reg[w].step = "count"
      <3>1. n = k.count + 1 /\ Exact(c)
        BY <1>8, <2>1, <2>3 DEF CounterInv
      <3>2. /\ s.passed <= Most(c)
            /\ s.refused > 0 => s.passed >= k.max /\ k.count > k.max
            /\ s.refused = 0 =>
                  IF c[1] = "limit" THEN s.passed \in {k.count, k.count + 1} /\ k.count <= k.max
                  ELSE s.passed = k.count
        BY <3>1 DEF Exact
      <3>3. CASE n <= k.max
        <4>1. s.refused = 0 /\ t.passed = s.passed + 1 /\ t.refused = 0
          BY <1>3, <1>5, <1>7, <3>1, <3>2, <3>3
        <4> QED  BY <1>5, <1>6, <3>1, <3>2, <3>3, <4>1 DEF Exact, Most
      <3>4. CASE n > k.max
        <4>1. t.passed = s.passed /\ t.refused = s.refused + 1
          BY <1>3, <1>5, <1>7, <2>3, <3>4
        <4>2. s.passed >= k.max
          BY <1>5, <3>1, <3>2, <3>4
        <4> QED  BY <1>5, <1>6, <3>1, <3>2, <3>4, <4>1, <4>2 DEF Exact, Most
      <3> QED  BY <1>5, <3>3, <3>4
    <2> QED  BY <1>1, <2>2, <2>3
  <1>15. ASSUME ~t.torn, NEW v \in Worker PROVE ~On(v, c)'
    BY <1>3, <1>9, <1>10, <1>15
  <1>16. CounterInv(c)'
    BY <1>11, <1>12, <1>13, <1>14, <1>15 DEF CounterInv
  <1> QED  BY <1>1, <1>4, <1>16 DEF CountersInv

(* Steps that replace counters: nobody counts on those. *)
LEMMA ReloadCounters ==
  ASSUME TypeInv, CountersInv,
         ClearLimits \/ ReadLimits \/ \E f \in RuleFile : ReadRules(f)
  PROVE  CountersInv'
  <1>1. \A c, w : On(w, c)' <=> On(w, c)
    BY DEF ClearLimits, ReadLimits, ReadRules, NoWorker, NoThread, On
  <1>2. ASSUME NEW c \in DOMAIN counter, counter'[c] = counter[c], stat'[c] = stat[c]
        PROVE  CounterInv(c)'
    <2>1. UNCHANGED reg
      BY DEF ClearLimits, ReadLimits, ReadRules, NoWorker, NoThread
    <2> QED  BY <1>1, <1>2, <2>1, CounterKept DEF CountersInv
  <1>3. ASSUME NEW c, counter'[c] \in Count, counter'[c].count = 0, stat'[c] = NewStat,
               \A w \in Worker : ~On(w, c)
        PROVE  CounterInv(c)'
    <2>1. counter'[c].max \in Nat
      BY <1>3 DEF Count
    <2> QED  BY <1>1, <1>3, <2>1, CounterFresh
  <1>4. CASE ClearLimits
    <2>1. /\ DOMAIN counter' = NotLimits /\ NotLimits \subseteq DOMAIN counter
          /\ \A c \in NotLimits : counter'[c] = counter[c] /\ stat'[c] = stat[c]
      BY <1>4, ClearLimitsDoes
    <2> QED  BY <1>2, <2>1 DEF CountersInv
  <1>5. CASE ReadLimits
    <2>1. ASSUME NEW c \in DOMAIN NewLimits PROVE CounterInv(c)'
      <3>1. counter'[c] \in Count /\ counter'[c].count = 0 /\ stat'[c] = NewStat
        BY <1>5, ReadLimitsDoes
      <3>2. \A w \in Worker : ~On(w, c)
        BY <1>5, ReadLimitsDoes DEF On
      <3> QED  BY <1>3, <3>1, <3>2
    <2>2. ASSUME NEW c \in DOMAIN counter \ DOMAIN NewLimits PROVE CounterInv(c)'
      BY <1>2, <1>5, ReadLimitsDoes
    <2>3. DOMAIN counter' = DOMAIN NewLimits \cup DOMAIN counter
      BY <1>5, ReadLimitsDoes
    <2> QED  BY <2>1, <2>2, <2>3 DEF CountersInv
  <1>6. ASSUME NEW f \in RuleFile, ReadRules(f) PROVE CountersInv'
    <2> DEFINE new == RuleCounters(Table(f))
    <2>1. ASSUME NEW c \in DOMAIN new PROVE CounterInv(c)'
      <3>1. /\ counter'[c] \in Count /\ counter'[c].count = 0 /\ stat'[c] = NewStat
            /\ c[1] # "limit"
        BY <1>6, ReadRulesDoes
      <3>2. \A w \in Worker : job[w].at \in Counting => reg[w].ctr \in Limits
        BY <1>6, ReadRulesDoes
      <3>3. \A w \in Worker : ~On(w, c)
        BY <3>1, <3>2 DEF On, Limits, IsLimit
      <3> QED  BY <1>3, <3>1, <3>3
    <2>2. ASSUME NEW c \in Limits PROVE CounterInv(c)'
      <3>1. counter'[c] = counter[c] /\ stat'[c] = stat[c]
        BY <1>6, ReadRulesDoes
      <3> QED  BY <1>2, <3>1 DEF Limits
    <2>3. DOMAIN counter' = DOMAIN new \cup Limits
      BY <1>6, ReadRulesDoes
    <2> QED  BY <2>1, <2>2, <2>3 DEF CountersInv
  <1> QED  BY <1>4, <1>5, <1>6

(* Steps that leave the counters and those who count alone. *)
LEMMA OtherCounters ==
  ASSUME TypeInv, CountersInv, UNCHANGED <<counter, stat, reg>>,
         \A w \in Worker : job'[w].at \in Counting <=> job[w].at \in Counting
  PROVE  CountersInv'
  <1>1. ASSUME NEW c \in DOMAIN counter PROVE CounterInv(c)'
    <2>1. \A v \in Worker : On(v, c)' <=> On(v, c)
      BY DEF On
    <2> QED  BY <2>1, CounterKept DEF CountersInv
  <1> QED  BY <1>1 DEF CountersInv

LEMMA NextCounters ==
  ASSUME TypeInv, CountersInv, [Next]_vars
  PROVE  CountersInv'
  <1>1. ASSUME NEW w \in Worker, Step(w) PROVE CountersInv'
    BY <1>1, StepKinds, MoveCounters, BeginCounters, StoreBeginCounters, StoreCountCounters
  <1>2. ASSUME NEW w \in Worker, NEW r \in Requests, Arrive(w, r) PROVE CountersInv'
    <2>1. /\ UNCHANGED <<counter, stat, reg>> /\ job[w] = NoJob
          /\ \A v \in Worker \ {w} : job'[v] = job[v]
          /\ job'[w] = NoJob \/ job'[w].at = "access"
      BY <1>2, ArriveDoes
    <2>2. \A v \in Worker : job'[v].at \in Counting <=> job[v].at \in Counting
      BY <2>1, NoJobFields DEF Counting
    <2> QED  BY <2>1, <2>2, OtherCounters
  <1>3. CASE UNCHANGED <<counter, stat, reg, job>>
    BY <1>3, OtherCounters
  <1>4. CASE (\E d \in Files : Reload(d)) \/ ReadTypes \/ ClearAccess \/ ReadAccess \/ ReadOthers
           \/ AuthOff \/ ReadAuth
    BY <1>3, <1>4
       DEF Reload, ReadTypes, ClearAccess, ReadAccess, ReadOthers, AuthOff, ReadAuth, NoWorker
  <1>5. CASE RulesOff \/ Tick \/ UNCHANGED vars
    BY <1>3, <1>5 DEF RulesOff, NoThread, Tick, vars
  <1> QED  BY <1>1, <1>2, <1>4, <1>5, ReloadCounters DEF Next, Reloading

LEMMA InitCounters ==
  ASSUME Init
  PROVE  CountersInv
  <1>1. now \in 0..MaxNow /\ Installed.limits # Missing /\ disk = Installed
    BY AdmissionAssumption DEF Init
  <1>2. PICK f \in RuleFile : counter = Over(LimitCounters(Table(Installed.limits)), RuleCounters(Table(f)))
    BY <1>1 DEF Init
  <1> DEFINE lim == LimitCounters(Table(Installed.limits))
             rul == RuleCounters(Table(f))
  <1>3. \A c \in DOMAIN lim : lim[c].count = 0
    BY <1>1, LimitCountersType
  <1>4. \A c \in DOMAIN rul : rul[c].count = 0
    BY <1>1, RuleCountersType
  <1> HIDE DEF lim, rul
  <1>5. /\ DOMAIN Over(lim, rul) = DOMAIN lim \cup DOMAIN rul
        /\ \A c \in DOMAIN lim : Over(lim, rul)[c] = lim[c]
        /\ \A c \in DOMAIN rul \ DOMAIN lim : Over(lim, rul)[c] = rul[c]
    BY OverHolds
  <1>6. counter = Over(lim, rul)
    BY <1>2 DEF lim, rul
  <1>7. \A c \in DOMAIN counter : counter[c].count = 0
    BY <1>3, <1>4, <1>5, <1>6
  <1>8. ASSUME NEW c \in DOMAIN counter PROVE CounterInv(c)
    <2>1. stat[c] = NewStat
      BY DEF Init, Unstarted
    <2>2. \A w \in Worker : ~On(w, c)
      <3>1. \A w \in Worker : job[w].at = "idle"
        BY NoJobFields DEF Init
      <3> QED  BY <3>1 DEF On, Counting
    <2>3. stat[c].all = 0 /\ stat[c].passed = 0 /\ stat[c].refused = 0
      BY <2>1 DEF NewStat
    <2>4. counter[c].max \in Nat
      BY InitType, CounterFields DEF TypeInv
    <2> QED  BY <1>7, <2>2, <2>3, <2>4 DEF CounterInv, Exact, Most
  <1> QED  BY <1>8 DEF CountersInv

(* What the invariant of the counters says of the limits. *)
LEMMA CountersKeepLimits ==
  ASSUME TypeInv, CountersInv
  PROVE  WindowExact /\ NeverTooEarly
  <1>1. NeverTooEarly
    BY DEF CountersInv, CounterInv, NeverTooEarly
  <1>2. ASSUME NEW c \in DOMAIN counter, ~stat[c].torn
        PROVE  LET s == stat[c] m == counter[c].max IN
               /\ s.passed <= IF c[1] = "limit" THEN m + 1 ELSE IF m = 0 THEN 1 ELSE m
               /\ s.refused > 0 => s.passed >= m
    <2>1. CounterInv(c) /\ counter[c].max \in Nat /\ stat[c].passed \in Nat /\ stat[c].refused \in Nat
      BY StatFields, CounterFields DEF TypeInv, CountersInv
    <2>2. CASE \E w \in Worker : On(w, c) /\ reg[w].step # "count"
      <3>1. stat[c].passed = 0 /\ stat[c].refused = 0
        BY <1>2, <2>1, <2>2 DEF CounterInv
      <3> QED  BY <2>1, <3>1
    <2>3. CASE \A w \in Worker : On(w, c) => reg[w].step = "count"
      <3>1. Exact(c)
        BY <1>2, <2>1, <2>3 DEF CounterInv
      <3> QED  BY <2>1, <3>1 DEF Exact, Most
    <2> QED  BY <2>2, <2>3
  <1> QED  BY <1>1, <1>2 DEF WindowExact

(* The master keys.  A request that its master key let through is counted on one of
   the services of the rule at most once, and is on its way to it until then. *)

Within(m) == {w \in Worker : job[w].at \in {"keys", "service"} /\ MasterKey(job[w].req) = m}
MastersInv ==
    \A m \in DOMAIN rules.tbl :
       stat[MasterOf(m)].items + Cardinality(Within(m)) <= stat[MasterOf(m)].all

(* Threads come to a rule and leave it one by one. *)
LEMMA WithinCounts ==
  ASSUME NEW S, NEW T, S \subseteq Worker, T \subseteq Worker
  PROVE  /\ IsFiniteSet(S) /\ Cardinality(S) \in Nat
         /\ S \subseteq T => Cardinality(S) <= Cardinality(T)
         /\ \A w \in S : T = S \ {w} => Cardinality(T) = Cardinality(S) - 1
         /\ \A w : w \notin S /\ T = S \cup {w} => Cardinality(T) = Cardinality(S) + 1
  <1>1. IsFiniteSet(Worker)
    BY AdmissionAssumption
  <1>2. IsFiniteSet(S) /\ IsFiniteSet(T) /\ Cardinality(S) \in Nat /\ Cardinality(T) \in Nat
    BY <1>1, FS_Subset, FS_CardinalityType
  <1>3. S \subseteq T => Cardinality(S) <= Cardinality(T)
    BY <1>2, FS_Subset
  <1>4. \A w \in S : T = S \ {w} => Cardinality(T) = Cardinality(S) - 1
    BY <1>2, FS_RemoveElement
  <1>5. \A w : w \notin S /\ T = S \cup {w} => Cardinality(T) = Cardinality(S) + 1
    BY <1>2, FS_AddElement
  <1> QED  BY <1>2, <1>3, <1>4, <1>5

(* A step by which nobody comes to a rule that has its counts. *)
LEMMA MastersKept ==
  ASSUME TypeInv, MastersInv, rules'.tbl = rules.tbl,
         \A m \in DOMAIN rules.tbl :
            /\ Within(m)' \subseteq Within(m)
            /\ stat'[MasterOf(m)].items = stat[MasterOf(m)].items
            /\ stat'[MasterOf(m)].all \in Nat /\ stat'[MasterOf(m)].all >= stat[MasterOf(m)].all
  PROVE  MastersInv'
  <1>1. ASSUME NEW m \in DOMAIN rules.tbl
        PROVE  stat'[MasterOf(m)].items + Cardinality(Within(m)') <= stat'[MasterOf(m)].all
    <2>1. Within(m) \subseteq Worker
      BY DEF Within
    <2>2. Within(m)' \subseteq Within(m) /\ Within(m)' \subseteq Worker
      BY <2>1
    <2>3. /\ Cardinality(Within(m)') <= Cardinality(Within(m))
          /\ Cardinality(Within(m)') \in Nat /\ Cardinality(Within(m)) \in Nat
      BY <2>1, <2>2, WithinCounts
    <2>4. stat[MasterOf(m)].items \in Nat /\ stat[MasterOf(m)].all \in Nat
      BY StatFields DEF TypeInv, CtrInv, RulesCounted
    <2>5. stat[MasterOf(m)].items + Cardinality(Within(m)) <= stat[MasterOf(m)].all
      BY DEF MastersInv
    <2> QED  BY <2>3, <2>4, <2>5
  <1> QED  BY <1>1 DEF MastersInv, MasterOf, Within

(* The counters of the master keys are there, and are numbers. *)
LEMMA MasterStat ==
  ASSUME TypeInv, NEW m \in DOMAIN rules.tbl
  PROVE  /\ MasterOf(m) \in DOMAIN counter
         /\ stat[MasterOf(m)].items \in Nat /\ stat[MasterOf(m)].all \in Nat
  <1>1. MasterOf(m) \in DOMAIN counter /\ CtrInv
    BY DEF TypeInv, CtrInv, RulesCounted
  <1> QED  BY <1>1, StatFields

LEMMA StepMasters ==
  ASSUME TypeInv, MastersInv, NEW w \in Worker, Step(w)
  PROVE  MastersInv'
  <1>1. \A m : Within(m) \subseteq Worker /\ Within(m)' \subseteq Worker
    BY DEF Within
  <1>2. CASE MovesTo(w, Quiet)
    <2>1. UNCHANGED <<stat, rules>> /\ \A v \in Worker : v # w => job'[v] = job[v]
      BY <1>2 DEF MovesTo, OnlyJob
    <2>2. job'[w].at \notin {"keys", "service"}
      BY <1>2, NoJobFields DEF MovesTo, Quiet
    <2>3. \A m : Within(m)' \subseteq Within(m)
      BY <2>1, <2>2 DEF Within
    <2> QED  BY <2>1, <2>3, MasterStat, MastersKept
  <1>3. ASSUME NEW c, Begins(w, c) PROVE MastersInv'
    <2>1. /\ UNCHANGED rules /\ \A v \in Worker : v # w => job'[v] = job[v]
          /\ job'[w].at = c[1] /\ job'[w].req = job[w].req
      BY <1>3, BeginDoes
    <2>2. c[1] \in {"keys", "service"} => job[w].at = "keys"
      BY <1>3 DEF Begins
    <2>3. \A m : Within(m)' \subseteq Within(m)
      BY <2>1, <2>2 DEF Within
    <2>4. \A d \in DOMAIN counter : stat'[d].all = stat[d].all /\ stat'[d].items = stat[d].items
      BY <1>3, BeginStat
    <2> QED  BY <2>1, <2>3, <2>4, MasterStat, MastersKept
  <1>4. CASE StoreBegin(w)
    <2>1. UNCHANGED <<rules, job, stat>>
      BY <1>4, StoreBeginDoes
    <2>2. \A m : Within(m)' = Within(m)
      BY <2>1 DEF Within
    <2> QED  BY <2>1, <2>2, MasterStat, MastersKept
  <1>5. CASE StoreCount(w)
    <2>1. PICK c : c = reg[w].ctr
      OBVIOUS
    <2>2. /\ UNCHANGED rules /\ \A v \in Worker : v # w => job'[v] = job[v]
          /\ job[w].at \in Counting /\ c \in DOMAIN counter
          /\ \/ job'[w] = NoJob
             \/ job'[w].at = After[job[w].at] /\ job'[w].req = job[w].req
      BY <1>5, <2>1, StoreCountDoes
    <2>3. c[1] = job[w].at
      BY <2>1, <2>2, Holding
    <2>4. After["limit"] = "rule" /\ After["master"] = "keys" /\ After["service"] = "call"
      BY DEF After
    <2>5. /\ stat'[c].all = stat[c].all + 1 /\ stat'[c].items = stat[c].items
          /\ \A d \in DOMAIN counter \ {c} :
                /\ stat'[d].all = stat[d].all
                /\ stat'[d].items = (IF c[1] = "service" /\ d = MasterOf(c[2])
                                     THEN stat[d].items + 1 ELSE stat[d].items)
      BY <1>5, <2>1, StoreCountStat
    <2>6. \A m : MasterOf(m)[1] = "master" /\ MasterOf(m)[2] = m
      BY DEF MasterOf
    <2>7. CASE job[w].at = "limit"
      <3>1. job'[w].at \notin {"keys", "service"}
        BY <2>2, <2>4, <2>7, NoJobFields
      <3>2. \A m : Within(m)' \subseteq Within(m)
        BY <2>2, <3>1 DEF Within
      <3>3. \A m \in DOMAIN rules.tbl : MasterOf(m) # c
        BY <2>3, <2>6, <2>7
      <3> QED  BY <2>2, <2>3, <2>5, <2>7, <3>2, <3>3, MasterStat, MastersKept
    <2>8. CASE job[w].at = "master"
      <3> DEFINE k == MasterKey(job[w].req)
      <3>1. c = MasterOf(k) /\ k \in DOMAIN rules.tbl
        BY <2>1, <2>8 DEF TypeInv, JobInv, InRules
      <3>2. ASSUME NEW m \in DOMAIN rules.tbl
            PROVE  stat'[MasterOf(m)].items + Cardinality(Within(m)') <= stat'[MasterOf(m)].all
        <4>1. stat[MasterOf(m)].items + Cardinality(Within(m)) <= stat[MasterOf(m)].all
          BY DEF MastersInv
        <4>2. Cardinality(Within(m)) \in Nat /\ Cardinality(Within(m)') \in Nat
          BY <1>1, WithinCounts
        <4>3. CASE m = k
          <5>1. w \notin Within(m)
            BY <2>8 DEF Within
          <5>2. Within(m)' = Within(m) \/ Within(m)' = Within(m) \cup {w}
            BY <2>2, <5>1 DEF Within
          <5>3. Cardinality(Within(m)') <= Cardinality(Within(m)) + 1
            BY <1>1, <4>2, <5>1, <5>2, WithinCounts
          <5> QED  BY <2>5, <3>1, <4>1, <4>2, <4>3, <5>3, MasterStat
        <4>4. CASE m # k
          <5>1. Within(m)' = Within(m)
            <6>1. job'[w] = NoJob \/ MasterKey(job'[w].req) = k
              BY <2>2
            <6> QED  BY <2>2, <2>8, <4>4, <6>1, NoJobFields DEF Within
          <5>2. MasterOf(m) # c /\ MasterOf(m) \in DOMAIN counter
            BY <2>6, <3>1, <4>4, MasterStat
          <5> QED  BY <2>3, <2>5, <2>8, <4>1, <5>1, <5>2
        <4> QED  BY <4>3, <4>4
      <3> QED  BY <2>2, <3>2 DEF MastersInv, MasterOf, Within
    <2>9. CASE job[w].at = "service"
      <3> DEFINE k == MasterKey(job[w].req)
      <3>1. c[2] = k /\ k \in DOMAIN rules.tbl
        <4>1. \E i : c = ServiceOf(k, i)
          BY <2>1, <2>9 DEF TypeInv, JobInv
        <4> QED  BY <2>9, <4>1, Holding DEF ServiceOf, InRules
      <3>2. job'[w].at \notin {"keys", "service"}
        BY <2>2, <2>4, <2>9, NoJobFields
      <3>3. ASSUME NEW m \in DOMAIN rules.tbl
            PROVE  stat'[MasterOf(m)].items + Cardinality(Within(m)') <= stat'[MasterOf(m)].all
        <4>1. stat[MasterOf(m)].items + Cardinality(Within(m)) <= stat[MasterOf(m)].all
          BY DEF MastersInv
        <4>2. Cardinality(Within(m)) \in Nat /\ Cardinality(Within(m)') \in Nat
          BY <1>1, WithinCounts
        <4>3. /\ MasterOf(m) # c /\ MasterOf(m) \in DOMAIN counter
              /\ stat[MasterOf(m)].items \in Nat /\ stat[MasterOf(m)].all \in Nat
          BY <2>3, <2>6, <2>9, MasterStat
        <4>4. CASE m = k
          <5>1. w \in Within(m) /\ Within(m)' = Within(m) \ {w}
            BY <2>2, <2>9, <3>2, <4>4 DEF Within
          <5>2. Cardinality(Within(m)') = Cardinality(Within(m)) - 1
            BY <1>1, <5>1, WithinCounts
          <5>3. stat'[MasterOf(m)].all = stat[MasterOf(m)].all
                /\ stat'[MasterOf(m)].items = stat[MasterOf(m)].items + 1
            BY <2>3, <2>5, <2>9, <3>1, <4>3, <4>4
          <5> QED  BY <4>1, <4>2, <4>3, <5>2, <5>3
        <4>5. CASE m # k
          <5>1. Within(m)' = Within(m)
            BY <2>2, <2>9, <3>2, <4>5 DEF Within
          <5>2. MasterOf(m) # MasterOf(c[2])
            BY <2>6, <3>1, <4>5
          <5> QED  BY <2>5, <4>1, <4>3, <5>1, <5>2
        <4> QED  BY <4>4, <4>5
      <3> QED  BY <2>2, <3>3 DEF MastersInv, MasterOf, Within
    <2> QED  BY <2>2, <2>7, <2>8, <2>9 DEF Counting
  <1> QED  BY <1>2, <1>3, <1>4, <1>5, StepKinds

LEMMA NextMasters ==
  ASSUME TypeInv, MastersInv, [Next]_vars
  PROVE  MastersInv'
  <1>1. ASSUME NEW w \in Worker, NEW r \in Requests, Arrive(w, r) PROVE MastersInv'
    <2>1. /\ UNCHANGED <<stat, rules>> /\ \A v \in Worker \ {w} : job'[v] = job[v]
          /\ job'[w] = NoJob \/ job'[w].at = "access"
      BY <1>1, ArriveDoes
    <2>2. \A m : Within(m)' \subseteq Within(m)
      BY <2>1, NoJobFields DEF Within
    <2> QED  BY <2>1, <2>2, MasterStat, MastersKept
  <1>2. CASE UNCHANGED <<stat, job>> /\ rules'.tbl = rules.tbl
    <2>1. \A m : Within(m)' = Within(m)
      BY <1>2 DEF Within
    <2> QED  BY <1>2, <2>1, MasterStat, MastersKept
  <1>3. CASE (\E d \in Files : Reload(d)) \/ ReadTypes \/ ClearAccess \/ ReadAccess \/ ReadOthers
           \/ AuthOff \/ ReadAuth
    BY <1>2, <1>3
       DEF Reload, ReadTypes, ClearAccess, ReadAccess, ReadOthers, AuthOff, ReadAuth, NoWorker
  <1>4. CASE Tick \/ UNCHANGED vars
    BY <1>2, <1>4 DEF Tick, vars
  <1>5. CASE RulesOff
    <2>1. UNCHANGED <<stat, job>> /\ rules' = [rules EXCEPT !.on = FALSE]
      BY <1>5 DEF RulesOff, NoThread
    <2>2. rules'.tbl = rules.tbl
      BY <2>1 DEF TypeInv, RestInv
    <2> QED  BY <1>2, <2>1, <2>2
  <1>6. CASE ClearLimits \/ ReadLimits
    <2>1. UNCHANGED <<rules, job>>
      BY <1>6 DEF ClearLimits, ReadLimits, NoWorker
    <2>2. \A m : Within(m)' = Within(m)
      BY <2>1 DEF Within
    <2>3. ASSUME NEW m \in DOMAIN rules.tbl PROVE stat'[MasterOf(m)] = stat[MasterOf(m)]
      <3>1. MasterOf(m) \in DOMAIN counter /\ MasterOf(m)[1] # "limit"
        BY MasterStat DEF MasterOf
      <3>2. CASE ClearLimits
        BY <3>1, <3>2, ClearLimitsDoes DEF NotLimits, IsLimit
      <3>3. CASE ReadLimits
        BY <3>1, <3>3, ReadLimitsDoes
      <3> QED  BY <1>6, <3>2, <3>3
    <2> QED  BY <2>1, <2>2, <2>3, MasterStat, MastersKept
  <1>7. ASSUME NEW f \in RuleFile, ReadRules(f) PROVE MastersInv'
    <2>1. /\ UNCHANGED job /\ \A w \in Worker : job[w].at \notin InRules
          /\ rules' = [on |-> TRUE, tbl |-> Table(f)]
      BY <1>7 DEF ReadRules, NoThread
    <2>2. rules'.tbl = Table(f)
      BY <2>1
    <2>3. \A m : Within(m)' = {}
      BY <2>1 DEF Within, InRules
    <2>4. ASSUME NEW m \in DOMAIN Table(f)
          PROVE  stat'[MasterOf(m)].items = 0 /\ stat'[MasterOf(m)].all = 0
      <3>1. MasterOf(m) \in DOMAIN RuleCounters(Table(f))
        BY DEF RuleCounters
      <3>2. stat'[MasterOf(m)] = NewStat
        BY <1>7, <3>1, ReadRulesDoes
      <3> QED  BY <3>2 DEF NewStat
    <2>5. Cardinality({}) = 0
      BY FS_EmptySet
    <2>6. \A m \in DOMAIN Table(f) :
             stat'[MasterOf(m)].items + Cardinality(Within(m)') <= stat'[MasterOf(m)].all
      BY <2>3, <2>4, <2>5
    <2> QED  BY <2>2, <2>6 DEF MastersInv, MasterOf, Within
  <1> QED  BY <1>1, <1>3, <1>4, <1>5, <1>6, <1>7, StepMasters DEF Next, Reloading

LEMMA InitMasters ==
  ASSUME Init
  PROVE  MastersInv
  <1>1. \A m : Within(m) = {}
    <2>1. \A w \in Worker : job[w].at = "idle"
      BY NoJobFields DEF Init
    <2> QED  BY <2>1 DEF Within
  <1>2. Cardinality({}) = 0
    BY FS_EmptySet
  <1>3. ASSUME NEW m \in DOMAIN rules.tbl
        PROVE  stat[MasterOf(m)].items = 0 /\ stat[MasterOf(m)].all = 0
    <2>1. MasterOf(m) \in DOMAIN counter
      BY InitType, MasterStat
    <2>2. stat[MasterOf(m)] = NewStat
      BY <2>1 DEF Init, Unstarted
    <2> QED  BY <2>2 DEF NewStat
  <1> QED  BY <1>1, <1>2, <1>3 DEF MastersInv

(* The limits are kept as far as threads that count under a read lock can keep them
   (LimitsKept): nobody counts on a counter that was deleted, a limit is exact as
   long as no two threads mixed on it, nobody is refused before more came than it
   allows, and a service counts no call its master key did not; for any number of
   threads, requests, files and limits, and however counting mixes with reloads. *)
THEOREM KeepsLimits == Spec => []LimitsKept
  <1>1. Init => TypeInv /\ CountersInv /\ MastersInv
    BY InitType, InitCounters, InitMasters
  <1>2. TypeInv /\ CountersInv /\ MastersInv /\ [Next]_vars => (TypeInv /\ CountersInv /\ MastersInv)'
    BY NextType, NextCounters, NextMasters
  <1>3. TypeInv /\ CountersInv /\ MastersInv => LimitsKept
    <2> SUFFICES ASSUME TypeInv, CountersInv, MastersInv PROVE LimitsKept
      OBVIOUS
    <2>1. CountsOnLive
      BY Holding DEF CountsOnLive
    <2>2. MasterCountsAll
      <3>1. ASSUME NEW m \in DOMAIN rules.tbl
            PROVE  stat[MasterOf(m)].items <= stat[MasterOf(m)].all
        <4>1. Within(m) \subseteq Worker
          BY DEF Within
        <4>2. Cardinality(Within(m)) \in Nat
          BY <4>1, WithinCounts
        <4> QED  BY <4>2, MasterStat DEF MastersInv
      <3> QED  BY <3>1 DEF MasterCountsAll
    <2> QED  BY <2>1, <2>2, TypeGivesType, CountersKeepLimits DEF LimitsKept
  <1> QED  BY <1>1, <1>2, <1>3, PTL DEF Spec

=============================================================================

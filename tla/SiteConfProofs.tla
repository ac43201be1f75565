--------------------------- MODULE SiteConfProofs ---------------------------
(***************************************************************************)
(* Proofs about the sites and their IDCs, for any threads, files, reloads  *)
(* and amount of work.                                                     *)
(*                                                                         *)
(* What a file is read into is a fold over its elements; what is taken of  *)
(* it is FilesSound, which is about the files alone.                       *)
(***************************************************************************)
EXTENDS SiteConfProps, FiniteSetTheorems, WellFoundedInduction, TLAPS

-----------------------------------------------------------------------------
(* The shapes of things.                                                    *)

Stages == {"idle", "rlock"} \cup InLock \cup Asking \cup Telling

Fields == {"at", "site", "user", "answer", "full", "text", "from"}
JobType ==
    /\ job = [w \in Worker |-> job[w]]
    /\ \A w \in Worker : DOMAIN job[w] = Fields /\ job[w].at \in Stages

ReloadType ==
    reload \in [at : {"idle", "errors", "details", "hasite", "wlock", "clear", "read", "grow", "fail"},
                site : Int, ok : BOOLEAN, broke : Nat]

ConfType ==
    /\ conf = [s \in DOMAIN conf |-> conf[s]] /\ DOMAIN conf \subseteq Nat
    /\ \A s \in DOMAIN conf : DOMAIN conf[s] = {"server", "user"}

PoolType ==
    /\ pool \in [DOMAIN pool -> [server : DOMAIN moved, on : BOOLEAN]] /\ DOMAIN pool \subseteq Nat
    /\ moved \in [DOMAIN moved -> [asked : Nat, made : Nat, since : Nat]]

HasiteType ==
    /\ hasite = [v \in DOMAIN hasite |-> hasite[v]]
    /\ \A v \in DOMAIN hasite :
          ServerInfo(hasite[v]) /\ hasite[v].cur \in {""} \cup ToSet(hasite[v].order)

DiskType == disk \in Files \cup {Installed}

RwType == rw \in [writer : {None, Main}, readers : Int]

TypeInv == JobType /\ ReloadType /\ ConfType /\ PoolType /\ HasiteType /\ DiskType /\ RwType

(* Who is in a pool has it to itself, and one thread at most decides on a switch. *)
InPoolInv ==
    \A w \in Worker :
       /\ job[w].at \in InPool \cup {"get"} => job[w].site \in DOMAIN pool
       /\ \A v \in Worker \ {w} :
             /\ ~(job[w].at \in InPool /\ job[v].at \in InPool /\ job[w].site = job[v].site)
             /\ ~(job[w].at \in Asking /\ job[v].at \in Asking)

(* How many more are inside than the lock counts, before the first re_init has ended, and
   after it, when the next may work without having the lock.                 *)
Uncounted == Cardinality(Inside) - rw.readers
Alone == {"clear", "read"}
LockInv ==
    IF reload.broke = 0
    THEN /\ Uncounted = 0
         /\ IF reload.at \in Alone THEN Inside = {} /\ rw.writer = Main ELSE rw.writer = None
    ELSE /\ rw.writer = Main => reload.at \in Alone
         /\ IF reload.at \in Alone /\ rw.writer = None THEN Uncounted >= 0 ELSE Uncounted >= 1

(* The users of the sites, up to the end of the first re_init: a call whose site has none
   read it while the file was read, and the file does not have the site.     *)
Whole == reload.at \notin {"read", "grow", "fail"}
UserInv ==
    reload.broke = 0 =>
       /\ Whole =>
             /\ DOMAIN pool \subseteq DOMAIN conf /\ \A s \in DOMAIN conf : conf[s].user # ""
             /\ \A w \in Worker : job[w].at \in InPool \cup {"get"} => job[w].user # ""
       /\ reload.at = "read" => DOMAIN conf = {}
       /\ reload.at = "fail" => disk.core = Missing
       /\ reload.at = "grow" =>
             /\ disk.core # Missing /\ DOMAIN Table(disk.core) \subseteq DOMAIN conf
             /\ \A s \in DOMAIN Table(disk.core) : conf[s].user # ""
             /\ \A w \in Worker :
                   job[w].at \in InPool \cup {"get"} /\ job[w].user = "" =>
                      job[w].site \notin DOMAIN Table(disk.core)

(* The switches: one that is under way was asked for, the others are counted, and the
   current IDC is not further than they explain.                             *)
On(v) == {s \in DOMAIN pool : pool[s].server = v /\ pool[s].on}
Since(v) == IF v \in DOMAIN moved THEN moved[v].since ELSE 0
SwapInv == \A w \in Worker : job[w].at = "swap" => pool[job[w].site].on
CountInv ==
    \A v \in DOMAIN moved :
       IsFiniteSet(On(v)) /\ moved[v].made + Cardinality(On(v)) <= moved[v].asked
FromInv ==
    \A v \in DOMAIN hasite : hasite[v].cur # "" =>
       \E i \in DOMAIN hasite[v].order : i <= 1 + Since(v) /\ hasite[v].order[i] = hasite[v].cur

-----------------------------------------------------------------------------
(* Numbers, and tables read from files.                                     *)

LEMMA FirstOf ==
    ASSUME NEW T, T \subseteq Nat, T # {}
    PROVE  \E i \in T : \A j \in T : i <= j
<1>1. IsWellFoundedOn(OpToRel(<, Nat), Nat)  BY NatLessThanWellFounded
<1>2. PICK i \in T : \A j \in T : <<j, i>> \notin OpToRel(<, Nat)
  BY <1>1, WFMin
<1>3. \A j \in T : ~(j < i)  BY <1>2 DEF OpToRel
<1>4. i \in Nat /\ \A j \in T : j \in Nat  OBVIOUS
<1> QED  BY <1>3, <1>4

LEMMA LastOf ==
    ASSUME NEW n \in Nat, NEW T, T \subseteq 1..n, T # {}
    PROVE  \E i \in T : \A j \in T : j <= i
<1> DEFINE U == {n - i : i \in T}
<1>1. U \subseteq Nat /\ U # {}
  <2>1. \A i \in T : i \in 1..n /\ n - i \in Nat  OBVIOUS
  <2> QED  BY <2>1
<1>2. PICK k \in U : \A j \in U : k <= j
  <2> HIDE DEF U
  <2> QED  BY <1>1, FirstOf
<1>3. PICK i \in T : k = n - i  OBVIOUS
<1>4. ASSUME NEW j \in T PROVE j <= i
  <2>1. n - j \in U /\ i \in Int /\ j \in Int  OBVIOUS
  <2>2. n - i <= n - j  BY <1>2, <1>3, <2>1
  <2> QED  BY <2>1, <2>2
<1> QED  BY <1>4

(* A site of the table has a line of the file. *)
LEMMA TableFacts ==
    ASSUME NEW file \in Seq(SiteLine)
    PROVE  /\ Table(file) = [k \in DOMAIN Table(file) |-> Table(file)[k]]
           /\ \A k \in DOMAIN Table(file) : DOMAIN Table(file)[k] = {"server", "user"}
           /\ DOMAIN Table(file) \subseteq Nat
           /\ \A k \in DOMAIN Table(file) :
                 \E i \in DOMAIN file : file[i].ok /\ Table(file)[k] = file[i].val
<1> DEFINE good == {i \in DOMAIN file : file[i].ok}
           keys == {file[i].key : i \in good}
           Of(k) == CHOOSE i \in good : /\ file[i].key = k
                                        /\ \A j \in good : file[j].key = k => j <= i
<1>1. Table(file) = [k \in keys |-> file[Of(k)].val]
  BY DEF Table
<1>2. DOMAIN file = 1..Len(file) /\ Len(file) \in Nat /\ \A i \in DOMAIN file : file[i] \in SiteLine
  OBVIOUS
<1>3. ASSUME NEW k \in keys PROVE Of(k) \in good
  <2> DEFINE T == {i \in good : file[i].key = k}
  <2>1. T \subseteq 1..Len(file) /\ T # {}  BY <1>2
  <2>2. PICK i \in T : \A j \in T : j <= i
    <3> HIDE DEF T
    <3> QED  BY <1>2, <2>1, LastOf
  <2>3. i \in good /\ file[i].key = k /\ \A j \in good : file[j].key = k => j <= i
    BY <2>2
  <2> HIDE DEF good, T
  <2> QED  BY <2>3
<1>4. \A i \in good : i \in DOMAIN file /\ file[i].ok /\ file[i].key \in Nat
                      /\ DOMAIN file[i].val = {"server", "user"}
  BY <1>2 DEF SiteLine
<1>5. keys \subseteq Nat  BY <1>4
<1> HIDE DEF good, keys, Of
<1>7. DOMAIN Table(file) = keys /\ \A k \in keys : Table(file)[k] = file[Of(k)].val
  BY <1>1
<1>8. \A k \in keys : Of(k) \in DOMAIN file /\ file[Of(k)].ok
                      /\ DOMAIN file[Of(k)].val = {"server", "user"}
  BY <1>3, <1>4
<1>9. Table(file) = [k \in keys |-> Table(file)[k]]
  BY <1>1
<1> QED  BY <1>5, <1>7, <1>8, <1>9

LEMMA EmptyFacts == DOMAIN Empty = {} /\ Empty = [x \in DOMAIN Empty |-> Empty[x]]
BY DEF Empty, Table

(* The places of c in a sequence that have one after them, and the first of them. *)
Places(q, c) == {i \in DOMAIN q : q[i] = c /\ i < Len(q)}
LEMMA PlaceAfter ==
    ASSUME NEW S, NEW q \in Seq(S), NEW c, Places(q, c) # {}
    PROVE  \E m \in DOMAIN q :
              /\ m = CHOOSE i \in Places(q, c) : \A j \in Places(q, c) : i <= j
              /\ m \in Nat /\ 1 + m \in DOMAIN q /\ q[m] = c
              /\ \A j \in DOMAIN q : q[j] = c => m <= j
<1> DEFINE at == Places(q, c)
           m == CHOOSE i \in at : \A j \in at : i <= j
<1>1. DOMAIN q = 1..Len(q) /\ Len(q) \in Nat  OBVIOUS
<1>2. at \subseteq Nat /\ at # {}  BY <1>1 DEF Places
<1>3. m \in at /\ \A j \in at : m <= j
  <2> HIDE DEF at
  <2>1. PICK i \in at : \A j \in at : i <= j  BY <1>2, FirstOf
  <2> QED  BY <2>1
<1> HIDE DEF m
<1>4. m \in DOMAIN q /\ m \in Nat /\ 1 + m \in DOMAIN q /\ q[m] = c
  BY <1>1, <1>3 DEF Places
<1>5. ASSUME NEW j \in DOMAIN q, q[j] = c PROVE m <= j
  <2>1. CASE j < Len(q)  BY <1>3, <1>5, <2>1 DEF Places
  <2>2. CASE j = Len(q)  BY <1>1, <1>3, <2>2 DEF Places
  <2> QED  BY <1>1, <2>1, <2>2
<1> QED  BY <1>4, <1>5 DEF m

(* The IDC after the current one is that after its first place in the order. *)
LEMMA NextFacts ==
    ASSUME HasiteType, NEW v \in DOMAIN hasite, NextIdc(v) # ""
    PROVE  \E m \in DOMAIN hasite[v].order :
              /\ m \in Nat /\ 1 + m \in DOMAIN hasite[v].order
              /\ NextIdc(v) = hasite[v].order[1 + m] /\ hasite[v].order[m] = hasite[v].cur
              /\ \A j \in DOMAIN hasite[v].order : hasite[v].order[j] = hasite[v].cur => m <= j
<1>1. hasite[v].order \in Seq(ToSet(hasite[v].order))
  BY DEF HasiteType, ServerInfo
<1>2. Places(hasite[v].order, hasite[v].cur) # {}
  BY DEF NextIdc, Places
<1>3. PICK m \in DOMAIN hasite[v].order :
        /\ m = CHOOSE i \in Places(hasite[v].order, hasite[v].cur) :
                  \A j \in Places(hasite[v].order, hasite[v].cur) : i <= j
        /\ m \in Nat /\ 1 + m \in DOMAIN hasite[v].order /\ hasite[v].order[m] = hasite[v].cur
        /\ \A j \in DOMAIN hasite[v].order : hasite[v].order[j] = hasite[v].cur => m <= j
  BY <1>1, <1>2, PlaceAfter
<1>4. NextIdc(v) = hasite[v].order[1 + m]
  BY <1>2, <1>3, Zenon DEF NextIdc, Places
<1> QED  BY <1>3, <1>4

-----------------------------------------------------------------------------
(* What a step does to the jobs.                                            *)

Others(w) == \A v \in Worker : v # w => job'[v] = job[v]
Moves(w, p) ==
    /\ JobType' /\ Others(w)
    /\ job'[w].at = p /\ job'[w].site = job[w].site /\ job'[w].user = job[w].user
Ends(w) == JobType' /\ Others(w) /\ job'[w].at = "idle"

LEMMA GotoMoves ==
    ASSUME JobType, NEW w \in Worker, NEW p \in Stages, Goto(w, p)
    PROVE  Moves(w, p)
BY DEF JobType, Goto, Moves, Others, Fields

LEMMA EndEnds ==
    ASSUME JobType, NEW w \in Worker, End(w)
    PROVE  Ends(w)
BY DEF JobType, End, Ends, Others, Idle, Stages, Fields

LEMMA TextMoves ==
    ASSUME JobType, NEW w \in Worker, NEW p \in Stages, NEW t,
           job' = [job EXCEPT ![w].at = p, ![w].text = t]
    PROVE  Moves(w, p)
BY DEF JobType, Moves, Others, Fields

LEMMA UserMoves ==
    ASSUME JobType, NEW w \in Worker, NEW p \in Stages, NEW u,
           job' = [job EXCEPT ![w].at = p, ![w].user = u]
    PROVE  /\ JobType' /\ Others(w)
           /\ job'[w].at = p /\ job'[w].site = job[w].site /\ job'[w].user = u
BY DEF JobType, Others, Fields

LEMMA BeginMoves ==
    ASSUME JobType, NEW w \in Worker, NEW new, Begin(w, new),
           DOMAIN new = Fields, new.at \in Stages
    PROVE  /\ JobType' /\ Others(w) /\ job'[w].at = new.at /\ job[w].at = "idle"
           /\ UNCHANGED <<tables, rw, reload, disk, seen, moved>>
<1>1. job[w] = Idle /\ job' = [job EXCEPT ![w] = new]
      /\ UNCHANGED <<tables, rw, reload, disk, seen, moved>>
  BY DEF Begin
<1>2. job[w].at = "idle"
  <2>1. Idle.at = "idle"  BY DEF Idle
  <2> QED  BY <1>1, <2>1
<1>3. JobType' /\ Others(w) /\ job'[w].at = new.at
  BY <1>1 DEF JobType, Others, Fields
<1> QED  BY <1>1, <1>2, <1>3

(* Where the job of a step is, and where it goes. *)
Turns(w) ==
    /\ JobType' /\ Others(w)
    /\ job'[w].at \in InPool =>
          /\ job'[w].site = job[w].site /\ job'[w].user = job[w].user
          /\ job[w].at \in InPool \/ (job[w].at = "get" /\ PoolFree(job[w].site))
    /\ job'[w].at = "get" => Find(w) /\ job'[w].site = job[w].site /\ job[w].site \in DOMAIN pool
    /\ job'[w].at = "swap" =>
          /\ job[w].at # "swap" /\ pool[job[w].site].on /\ UNCHANGED pool
    /\ job'[w].at \in Asking => job[w].at \in Asking \/ \A v \in Worker : job[v].at \notin Asking
    /\ \/ job[w].at \notin InLock /\ job'[w].at \in InLock /\ RLock
       \/ job[w].at \in InLock /\ job'[w].at \notin InLock /\ Unlock(w)
       \/ (job[w].at \in InLock <=> job'[w].at \in InLock) /\ UNCHANGED rw
    /\ UNCHANGED <<reload, disk>>

LEMMA WorkTurns ==
    ASSUME TypeInv, NEW w \in Worker, Work(w)
    PROVE  Turns(w)
<1> USE DEF Stages, InLock, InPool, Asking, Telling
<1>1. CASE Call(w)
  <2>1. PICK s \in Site : Begin(w, [Idle EXCEPT !.at = "rlock", !.site = s, !.from = Len(seen)])
    BY <1>1 DEF Call
  <2> DEFINE new == [Idle EXCEPT !.at = "rlock", !.site = s, !.from = Len(seen)]
  <2>2. DOMAIN new = Fields /\ new.at = "rlock"  BY DEF Idle, Fields
  <2> HIDE DEF new
  <2>3. JobType' /\ Others(w) /\ job'[w].at = "rlock" /\ job[w].at = "idle" /\ UNCHANGED <<rw, reload, disk>>
    BY <2>1, <2>2, BeginMoves DEF new, TypeInv
  <2> QED  BY <2>3 DEF Turns
<1>2. CASE Fail(w)
  <2>1. \A v \in Worker : job[v].at \notin Asking
    BY <1>2 DEF Fail
  <2>2. PICK s \in Site : Begin(w, [Idle EXCEPT !.at = "server", !.site = s])
    BY <1>2 DEF Fail
  <2> DEFINE new == [Idle EXCEPT !.at = "server", !.site = s]
  <2>3. DOMAIN new = Fields /\ new.at = "server"  BY DEF Idle, Fields
  <2> HIDE DEF new
  <2>4. JobType' /\ Others(w) /\ job'[w].at = "server" /\ job[w].at = "idle" /\ UNCHANGED <<rw, reload, disk>>
    BY <2>2, <2>3, BeginMoves DEF new, TypeInv
  <2> QED  BY <2>1, <2>4 DEF Turns
<1>3. CASE Tell(w)
  <2>1. PICK a \in Answers :
           Begin(w, [Idle EXCEPT !.at = IF get_call_result(a) = 0 THEN "told" ELSE "original",
                                 !.answer = a, !.full = a.type \in details,
                                 !.from = Len(seen)])
    BY <1>3 DEF Tell
  <2> DEFINE p == IF get_call_result(a) = 0 THEN "told" ELSE "original"
             new == [Idle EXCEPT !.at = p, !.answer = a, !.full = a.type \in details,
                                 !.from = Len(seen)]
  <2>2. p \in {"told", "original"} /\ Begin(w, new)  BY <2>1
  <2> HIDE DEF p
  <2>3. DOMAIN new = Fields /\ new.at = p  BY DEF Idle, Fields
  <2> HIDE DEF new
  <2>4. JobType' /\ Others(w) /\ job'[w].at = p /\ job[w].at = "idle" /\ UNCHANGED <<rw, reload, disk>>
    BY <2>2, <2>3, BeginMoves DEF TypeInv
  <2> QED  BY <2>2, <2>4 DEF Turns
<1>4. CASE GetApi(w)
  <2>1. Moves(w, "find")  BY <1>4, GotoMoves DEF GetApi, TypeInv
  <2> QED  BY <1>4, <2>1 DEF GetApi, Moves, Turns, NoMain
<1>5. CASE Find(w)
  <2> DEFINE s == job[w].site  u == With(conf, s, NoSite)[s].user
  <2>0. job[w].at = "find" /\ UNCHANGED <<rw, reload, disk>>  BY <1>5 DEF Find, NoMain
  <2>1. CASE s \in DOMAIN pool
    <3>1. job' = [job EXCEPT ![w].at = "get", ![w].user = u]  BY <1>5, <2>1 DEF Find
    <3> HIDE DEF u
    <3>2. JobType' /\ Others(w) /\ job'[w].at = "get" /\ job'[w].site = s
      BY <3>1, UserMoves DEF TypeInv
    <3> QED  BY <1>5, <2>0, <2>1, <3>2 DEF Turns
  <2>2. CASE s \notin DOMAIN pool
    <3>1. Moves(w, "unlock")  BY <1>5, <2>2, GotoMoves DEF Find, TypeInv
    <3> QED  BY <2>0, <3>1 DEF Moves, Turns
  <2> QED  BY <2>1, <2>2
<1>6. CASE Get(w)
  <2>1. /\ job[w].at = "get" /\ PoolFree(job[w].site) /\ UNCHANGED <<rw, reload, disk>>
        /\ \E p \in {"unlock", "idc", "swap"} :
              Goto(w, p) /\ (p = "swap" => pool[job[w].site].on /\ UNCHANGED pool)
    BY <1>6 DEF Get, NoMain
  <2>2. PICK p \in {"unlock", "idc", "swap"} :
              Goto(w, p) /\ (p = "swap" => pool[job[w].site].on /\ UNCHANGED pool)
    BY <2>1
  <2>3. Moves(w, p)  BY <2>2, GotoMoves DEF TypeInv
  <2> QED  BY <2>1, <2>2, <2>3 DEF Moves, Turns
<1>7. CASE Swap(w)
  <2>1. Moves(w, "idc")  BY <1>7, GotoMoves DEF Swap, TypeInv
  <2> QED  BY <1>7, <2>1 DEF Swap, Moves, Turns, NoMain
<1>8. CASE CurrentIdc(w)
  <2>1. Moves(w, "node")  BY <1>8, GotoMoves DEF CurrentIdc, TypeInv
  <2> QED  BY <1>8, <2>1 DEF CurrentIdc, Moves, Turns, NoMain
<1>9. CASE Node(w)
  <2>1. Moves(w, "unlock")  BY <1>9, GotoMoves DEF Node, TypeInv
  <2> QED  BY <1>9, <2>1 DEF Node, Moves, Turns, NoMain
<1>10. CASE Release(w)
  <2>1. Ends(w)  BY <1>10, EndEnds DEF Release, TypeInv
  <2> QED  BY <1>10, <2>1 DEF Release, Ends, Turns, NoMain
<1>11. CASE ServerName(w)
  <2> DEFINE s == job[w].site
  <2>0. job[w].at = "server" /\ UNCHANGED <<rw, reload, disk>>  BY <1>11 DEF ServerName, OnlyJob, NoMain
  <2>1. CASE s \in DOMAIN conf
    <3>1. job' = [job EXCEPT ![w].at = "next", ![w].user = conf[s].server]  BY <1>11, <2>1 DEF ServerName
    <3>2. JobType' /\ Others(w) /\ job'[w].at = "next"  BY <3>1, UserMoves DEF TypeInv
    <3> QED  BY <2>0, <3>2 DEF Turns
  <2>2. CASE s \notin DOMAIN conf
    <3>1. Ends(w)  BY <1>11, <2>2, EndEnds DEF ServerName, TypeInv
    <3> QED  BY <2>0, <3>1 DEF Ends, Turns
  <2> QED  BY <2>1, <2>2
<1>12. CASE Decide(w)
  <2>0. job[w].at = "next" /\ UNCHANGED <<rw, reload, disk>> /\ (End(w) \/ Goto(w, "seton"))
    BY <1>12 DEF Decide, NoMain
  <2>1. CASE End(w)
    <3>1. Ends(w)  BY <2>1, EndEnds DEF TypeInv
    <3> QED  BY <2>0, <3>1 DEF Ends, Turns
  <2>2. CASE Goto(w, "seton")
    <3>1. Moves(w, "seton")  BY <2>2, GotoMoves DEF TypeInv
    <3> QED  BY <2>0, <3>1 DEF Moves, Turns
  <2> QED  BY <2>0, <2>1, <2>2
<1>13. CASE SetSwitchOn(w)
  <2>1. Ends(w)  BY <1>13, EndEnds DEF SetSwitchOn, TypeInv
  <2> QED  BY <1>13, <2>1 DEF SetSwitchOn, Ends, Turns, NoMain
<1>14. CASE IsOriginal(w) \/ IsEscaped(w) \/ EscapedText(w)
  <2>0. job[w].at \in Telling /\ UNCHANGED <<rw, reload, disk>>
    BY <1>14 DEF IsOriginal, IsEscaped, EscapedText, OnlyJob, NoMain
  <2>1. \E p \in Telling : Moves(w, p)
    <3>1. CASE IsOriginal(w)
      <4>1. Goto(w, "escaped") \/ job' = [job EXCEPT ![w].at = "told", ![w].text = ""]
        BY <3>1 DEF IsOriginal
      <4> QED  BY <4>1, GotoMoves, TextMoves DEF TypeInv
    <3>2. CASE IsEscaped(w)
      <4>1. Goto(w, "text") \/ job' = [job EXCEPT ![w].at = "told", ![w].text = "own"]
        BY <3>2 DEF IsEscaped
      <4> QED  BY <4>1, GotoMoves, TextMoves DEF TypeInv
    <3>3. CASE EscapedText(w)
      <4>1. PICK t : job' = [job EXCEPT ![w].at = "told", ![w].text = t]
        BY <3>3 DEF EscapedText
      <4> QED  BY <4>1, TextMoves DEF TypeInv
    <3> QED  BY <1>14, <3>1, <3>2, <3>3
  <2> QED  BY <2>0, <2>1 DEF Moves, Turns
<1>15. CASE Told(w)
  <2>1. Ends(w)  BY <1>15, EndEnds DEF Told, TypeInv
  <2> QED  BY <1>15, <2>1 DEF Told, Ends, Turns, OnlyJob, NoMain
<1> QED
  BY <1>1, <1>2, <1>3, <1>4, <1>5, <1>6, <1>7, <1>8, <1>9, <1>10, <1>11, <1>12, <1>13, <1>14, <1>15 DEF Work

-----------------------------------------------------------------------------
(* The types.                                                               *)

LEMMA NoServerInfo == ServerInfo(NoServer) /\ NoServer.cur = ""
<1>1. /\ NoServer.order = <<>> /\ NoServer.cur = ""
      /\ NoServer = [f \in {"order", "nodes", "cur"} |-> NoServer[f]]
  BY DEF NoServer
<1>2. <<>> \in Seq(ToSet(<<>>))  OBVIOUS
<1>3. DOMAIN <<>> = {}  OBVIOUS
<1> QED  BY <1>1, <1>2, <1>3, Zenon DEF ServerInfo

LEMMA LookedKeeps ==
    ASSUME HasiteType, NEW v, Looked(v)
    PROVE  /\ HasiteType' /\ DOMAIN hasite \subseteq DOMAIN hasite'
           /\ \A x \in DOMAIN hasite : hasite'[x] = hasite[x]
           /\ \A x \in DOMAIN hasite' \ DOMAIN hasite : hasite'[x].cur = ""
<1>1. /\ DOMAIN hasite' = DOMAIN hasite \cup {v} /\ hasite' = [x \in DOMAIN hasite' |-> hasite'[x]]
      /\ \A x \in DOMAIN hasite : hasite'[x] = hasite[x]
      /\ v \notin DOMAIN hasite => hasite'[v] = NoServer
  <2>1. hasite' = With(hasite, v, NoServer)  BY DEF Looked
  <2> QED  BY <2>1 DEF With
<1>2. \A x \in DOMAIN hasite :
         ServerInfo(hasite[x]) /\ hasite[x].cur \in {""} \cup ToSet(hasite[x].order)
  BY DEF HasiteType
<1>3. \A x \in DOMAIN hasite' :
         ServerInfo(hasite'[x]) /\ hasite'[x].cur \in {""} \cup ToSet(hasite'[x].order)
  BY <1>1, <1>2, NoServerInfo
<1>4. HasiteType'  BY <1>1, <1>3 DEF HasiteType
<1> QED  BY <1>1, <1>4, NoServerInfo

(* A table that was read. *)
LEMMA ReadHasite ==
    ASSUME NEW f \in Files \cup {Installed}, NEW tbl, tbl = HasiteConf(Empty, f.hasite).tbl
    PROVE  /\ tbl = [v \in DOMAIN tbl |-> tbl[v]]
           /\ \A v \in DOMAIN tbl :
                 /\ ServerInfo(tbl[v]) /\ tbl[v].cur \in {""} \cup ToSet(tbl[v].order)
                 /\ tbl[v].cur # "" => 1 \in DOMAIN tbl[v].order /\ tbl[v].cur = tbl[v].order[1]
<1>1. /\ tbl = [v \in DOMAIN tbl |-> tbl[v]]
      /\ \A v \in DOMAIN tbl :
            /\ ServerInfo(tbl[v])
            /\ tbl[v].cur # "" => 1 \in DOMAIN tbl[v].order /\ tbl[v].cur = tbl[v].order[1]
  BY FilesSound DEF HasiteRead
<1>2. \A v \in DOMAIN tbl : tbl[v].cur \in {""} \cup ToSet(tbl[v].order)
  BY <1>1 DEF ToSet
<1> QED  BY <1>1, <1>2

(* A switch goes to the next IDC, if there is one. *)
LEMMA SwapHasite ==
    ASSUME TypeInv, NEW w \in Worker, Swap(w), NEW v, v = Server(w)
    PROVE  /\ HasiteType' /\ DOMAIN hasite \subseteq DOMAIN hasite'
           /\ \A x \in DOMAIN hasite \ {v} : hasite'[x] = hasite[x]
           /\ \A x \in DOMAIN hasite' \ DOMAIN hasite : hasite'[x].cur = ""
           /\ v \in DOMAIN hasite =>
                 /\ hasite'[v].order = hasite[v].order
                 /\ NextIdc(v) = "" => hasite'[v] = hasite[v]
                 /\ NextIdc(v) # "" => /\ hasite'[v].cur = NextIdc(v)
                                      /\ hasite'[v] = [hasite[v] EXCEPT !.cur = NextIdc(v)]
<1>1. CASE NextOf(v) = ""
  <2>1. Looked(v)  BY <1>1 DEF Swap, Looked
  <2>2. v \in DOMAIN hasite => NextIdc(v) = ""  BY <1>1 DEF NextOf
  <2> QED  BY <2>1, <2>2, LookedKeeps DEF TypeInv
<1>2. CASE NextOf(v) # ""
  <2>1. v \in DOMAIN hasite /\ NextOf(v) = NextIdc(v)  BY <1>2 DEF NextOf
  <2>2. hasite' = [hasite EXCEPT ![v].cur = NextIdc(v)]  BY <1>2, <2>1 DEF Swap
  <2>3. NextIdc(v) \in ToSet(hasite[v].order)
    <3>1. PICK m \in Nat : 1 + m \in DOMAIN hasite[v].order /\ NextIdc(v) = hasite[v].order[1 + m]
      BY <1>2, <2>1, NextFacts DEF TypeInv
    <3> QED  BY <3>1 DEF ToSet
  <2>4. PICK c : c = NextIdc(v)  OBVIOUS
  <2>5. /\ hasite = [x \in DOMAIN hasite |-> hasite[x]]
        /\ \A x \in DOMAIN hasite : /\ hasite[x] = [f \in {"order", "nodes", "cur"} |-> hasite[x][f]]
                                    /\ ServerInfo(hasite[x])
                                    /\ hasite[x].cur \in {""} \cup ToSet(hasite[x].order)
    BY DEF TypeInv, HasiteType, ServerInfo
  <2>6. hasite' = [hasite EXCEPT ![v].cur = c]  BY <2>2, <2>4
  <2>7. /\ hasite' = [x \in DOMAIN hasite' |-> hasite'[x]] /\ DOMAIN hasite' = DOMAIN hasite
        /\ \A x \in DOMAIN hasite \ {v} : hasite'[x] = hasite[x]
        /\ hasite'[v] = [f \in {"order", "nodes", "cur"} |-> hasite'[v][f]]
        /\ hasite'[v] = [hasite[v] EXCEPT !.cur = c]
        /\ hasite'[v].order = hasite[v].order /\ hasite'[v].cur = c
    BY <2>1, <2>5, <2>6
  <2>8. ServerInfo(hasite'[v]) /\ hasite'[v].cur \in {""} \cup ToSet(hasite'[v].order)
    <3>1. PICK o : o = hasite[v].order  OBVIOUS
    <3>2. o \in Seq(ToSet(o)) /\ \A i \in DOMAIN o : o[i] # ""
      BY <2>1, <2>5, <3>1 DEF ServerInfo
    <3>3. hasite'[v].order = o /\ c \in ToSet(o)  BY <2>3, <2>4, <2>7, <3>1
    <3> QED  BY <2>7, <3>2, <3>3 DEF ServerInfo
  <2>9. HasiteType'
    BY <2>5, <2>7, <2>8 DEF HasiteType
  <2> QED  BY <1>2, <2>1, <2>4, <2>7, <2>9
<1> QED  BY <1>1, <1>2

(* What a job does to the tables; s is its site. *)
Touches(w, s) ==
    /\ UNCHANGED details /\ (UNCHANGED errors \/ \E c : errors' = With(errors, c, ""))
    /\ conf' = conf \/ Find(w)
    /\ \/ UNCHANGED <<pool, moved>>
       \/ /\ job[w].at = "get" /\ PoolFree(s)
          /\ pool' = [pool EXCEPT ![s].on = FALSE] /\ UNCHANGED moved
       \/ Swap(w)
       \/ /\ s \in DOMAIN pool /\ ~pool[s].on /\ pool' = [pool EXCEPT ![s].on = TRUE]
          /\ moved' = [moved EXCEPT ![pool[s].server].asked = @ + 1]
    /\ Swap(w) \/ UNCHANGED hasite \/ \E v : Looked(v)

LEMMA WorkTouches ==
    ASSUME NEW w \in Worker, Work(w), NEW s, s = job[w].site
    PROVE  Touches(w, s)
<1>1. CASE Call(w) \/ Fail(w) \/ Tell(w)
  BY <1>1 DEF Call, Fail, Tell, Begin, tables, Touches
<1>2. CASE GetApi(w) \/ Release(w)
  BY <1>2 DEF GetApi, Release, tables, Touches
<1>3. CASE Find(w)
  BY <1>3 DEF Find, Touches
<1>4. CASE Get(w)
  <2>1. job[w].at = "get" /\ PoolFree(s) /\ UNCHANGED <<errors, details, conf, moved>>
    BY <1>4 DEF Get
  <2>2. \/ UNCHANGED <<pool, hasite>>
        \/ Looked(Server(w)) /\ (UNCHANGED pool \/ pool' = [pool EXCEPT ![s].on = FALSE])
    BY <1>4 DEF Get
  <2> QED  BY <2>1, <2>2 DEF Touches
<1>5. CASE Swap(w)
  BY <1>5 DEF Swap, Touches
<1>6. CASE CurrentIdc(w) \/ Node(w) \/ Decide(w)
  <2>1. UNCHANGED <<errors, details, conf, pool, moved>> /\ \E v : Looked(v)
    BY <1>6 DEF CurrentIdc, Node, Decide
  <2> QED  BY <2>1 DEF Touches
<1>7. CASE ServerName(w) \/ IsOriginal(w) \/ IsEscaped(w) \/ EscapedText(w) \/ Told(w)
  BY <1>7 DEF ServerName, IsOriginal, IsEscaped, EscapedText, Told, OnlyJob, tables, Touches
<1>8. CASE SetSwitchOn(w)
  BY <1>8 DEF SetSwitchOn, Touches
<1> QED
  BY <1>1, <1>2, <1>3, <1>4, <1>5, <1>6, <1>7, <1>8 DEF Work

(* The request for a switch goes on or off. *)
LEMMA PoolSet ==
    ASSUME TypeInv, NEW s \in DOMAIN pool, NEW b \in BOOLEAN, pool' = [pool EXCEPT ![s].on = b]
    PROVE  /\ DOMAIN pool' = DOMAIN pool /\ pool' \in [DOMAIN pool -> [server : DOMAIN moved, on : BOOLEAN]]
           /\ \A x \in DOMAIN pool : pool'[x].server = pool[x].server
           /\ \A x \in DOMAIN pool \ {s} : pool'[x] = pool[x]
           /\ pool'[s].on = b
BY DEF TypeInv, PoolType

(* The counts of a server. *)
LEMMA MovedAsked ==
    ASSUME TypeInv, NEW v \in DOMAIN moved, moved' = [moved EXCEPT ![v].asked = @ + 1]
    PROVE  /\ DOMAIN moved' = DOMAIN moved /\ moved' \in [DOMAIN moved -> [asked : Nat, made : Nat, since : Nat]]
           /\ \A x \in DOMAIN moved \ {v} : moved'[x] = moved[x]
           /\ moved'[v].asked = moved[v].asked + 1 /\ moved'[v].made = moved[v].made
           /\ moved'[v].since = moved[v].since
BY DEF TypeInv, PoolType

LEMMA MovedMade ==
    ASSUME TypeInv, NEW v \in DOMAIN moved,
           moved' = [moved EXCEPT ![v].made = @ + 1, ![v].since = @ + 1]
    PROVE  /\ DOMAIN moved' = DOMAIN moved /\ moved' \in [DOMAIN moved -> [asked : Nat, made : Nat, since : Nat]]
           /\ \A x \in DOMAIN moved \ {v} : moved'[x] = moved[x]
           /\ moved'[v].asked = moved[v].asked /\ moved'[v].made = moved[v].made + 1
           /\ moved'[v].since = moved[v].since + 1
<1>1. /\ moved = [x \in DOMAIN moved |-> moved[x]]
      /\ \A x \in DOMAIN moved : moved[x] \in [asked : Nat, made : Nat, since : Nat]
  BY DEF TypeInv, PoolType
<1>2. PICK m, n : m = moved[v].made + 1 /\ n = moved[v].since + 1 /\ m \in Nat /\ n \in Nat
  BY <1>1
<1>3. moved' = [moved EXCEPT ![v] = [moved[v] EXCEPT !.made = m, !.since = n]]
  BY <1>1, <1>2
<1>4. [moved[v] EXCEPT !.made = m, !.since = n] \in [asked : Nat, made : Nat, since : Nat]
  BY <1>1, <1>2
<1>5. DOMAIN moved[v] = {"asked", "made", "since"}  BY <1>1
<1>6. PICK r : r = [moved[v] EXCEPT !.made = m, !.since = n]  OBVIOUS
<1>7. r.asked = moved[v].asked /\ r.made = m /\ r.since = n
  BY <1>5, <1>6
<1>8. DOMAIN moved' = DOMAIN moved /\ moved'[v] = r /\ \A x \in DOMAIN moved \ {v} : moved'[x] = moved[x]
  BY <1>1, <1>3, <1>6
<1>9. moved' \in [DOMAIN moved -> [asked : Nat, made : Nat, since : Nat]]
  BY <1>1, <1>3, <1>4
<1> QED  BY <1>2, <1>7, <1>8, <1>9

(* What a new site adds. *)
LEMMA GrowFacts ==
    ASSUME TypeInv, Grow
    PROVE  \E s \in DOMAIN conf :
              /\ DOMAIN pool' = DOMAIN pool \cup {s}
              /\ pool' \in [DOMAIN pool' -> [server : DOMAIN moved', on : BOOLEAN]]
              /\ \A x \in DOMAIN pool : pool'[x] = pool[x]
              /\ s \notin DOMAIN pool => ~pool'[s].on
              /\ DOMAIN moved \subseteq DOMAIN moved'
              /\ moved' \in [DOMAIN moved' -> [asked : Nat, made : Nat, since : Nat]]
              /\ \A x \in DOMAIN moved : moved'[x] = moved[x]
              /\ \A x \in DOMAIN moved' \ DOMAIN moved : moved'[x] = [asked |-> 0, made |-> 0, since |-> 0]
              /\ reload' = [reload EXCEPT !.site = s] /\ \A x \in Ahead : s <= x
<1> DEFINE s == CHOOSE x \in Ahead : \A y \in Ahead : x <= y
<1>1. Ahead \subseteq DOMAIN conf /\ Ahead \subseteq Nat /\ Ahead # {}
  BY DEF Grow, Ahead, TypeInv, ConfType
<1>2. s \in Ahead /\ \A x \in Ahead : s <= x
  <2>1. \E x \in Ahead : \A y \in Ahead : x <= y  BY <1>1, FirstOf
  <2> QED  BY <2>1
<1>3. /\ pool' = With(pool, s, [server |-> conf[s].server, on |-> FALSE])
      /\ moved' = IF s \in DOMAIN pool THEN moved
                  ELSE With(moved, conf[s].server, [asked |-> 0, made |-> 0, since |-> 0])
      /\ reload' = [reload EXCEPT !.site = s]
  BY DEF Grow
<1> HIDE DEF s
<1>4. PICK v : v = conf[s].server  OBVIOUS
<1>5. /\ pool \in [DOMAIN pool -> [server : DOMAIN moved, on : BOOLEAN]]
      /\ moved \in [DOMAIN moved -> [asked : Nat, made : Nat, since : Nat]]
  BY DEF TypeInv, PoolType
<1>6. CASE s \in DOMAIN pool
  <2>1. pool' = pool
    <3>1. pool' = [x \in DOMAIN pool |-> pool[x]]  BY <1>3, <1>6 DEF With
    <3> QED  BY <1>5, <3>1
  <2> QED  BY <1>1, <1>2, <1>3, <1>5, <1>6, <2>1
<1>7. CASE s \notin DOMAIN pool
  <2>1. /\ DOMAIN moved' = DOMAIN moved \cup {v} /\ \A x \in DOMAIN moved : moved'[x] = moved[x]
        /\ v \notin DOMAIN moved => moved'[v] = [asked |-> 0, made |-> 0, since |-> 0]
        /\ moved' = [x \in DOMAIN moved' |-> moved'[x]]
    BY <1>3, <1>4, <1>7 DEF With
  <2>2. /\ DOMAIN pool' = DOMAIN pool \cup {s} /\ \A x \in DOMAIN pool : pool'[x] = pool[x]
        /\ pool'[s] = [server |-> v, on |-> FALSE] /\ pool' = [x \in DOMAIN pool' |-> pool'[x]]
    BY <1>3, <1>4, <1>7 DEF With
  <2>3. \A x \in DOMAIN moved' : moved'[x] \in [asked : Nat, made : Nat, since : Nat]
    BY <1>5, <2>1
  <2>4. \A x \in DOMAIN pool' : pool'[x] \in [server : DOMAIN moved', on : BOOLEAN]
    <3>1. ASSUME NEW x \in DOMAIN pool PROVE pool[x] \in [server : DOMAIN moved', on : BOOLEAN]
      <4>1. pool[x] \in [server : DOMAIN moved, on : BOOLEAN]  BY <1>5
      <4> QED  BY <2>1, <4>1
    <3>2. [server |-> v, on |-> FALSE] \in [server : DOMAIN moved', on : BOOLEAN]  BY <2>1
    <3>3. pool'[s] \in [server : DOMAIN moved', on : BOOLEAN]  BY <2>2, <3>2
    <3> QED  BY <2>2, <3>1, <3>3
  <2>5. ~pool'[s].on  BY <2>2
  <2>6. \A x \in DOMAIN moved' \ DOMAIN moved : moved'[x] = [asked |-> 0, made |-> 0, since |-> 0]
    BY <2>1
  <2>7. pool' \in [DOMAIN pool' -> [server : DOMAIN moved', on : BOOLEAN]]  BY <2>2, <2>4
  <2>8. moved' \in [DOMAIN moved' -> [asked : Nat, made : Nat, since : Nat]]  BY <2>1, <2>3
  <2> QED  BY <1>1, <1>2, <1>3, <2>1, <2>2, <2>5, <2>6, <2>7, <2>8
<1> QED  BY <1>6, <1>7

LEMMA FindConf ==
    ASSUME ConfType, NEW w \in Worker, Find(w), job[w].site \in DOMAIN pool => job[w].site \in Nat
    PROVE  /\ ConfType' /\ DOMAIN conf \subseteq DOMAIN conf'
           /\ \A s \in DOMAIN conf : conf'[s] = conf[s]
<1> DEFINE s == job[w].site
<1>1. CASE s \in DOMAIN pool
  <2>1. conf' = With(conf, s, NoSite)  BY <1>1 DEF Find
  <2>2. DOMAIN NoSite = {"server", "user"}  BY DEF NoSite
  <2>3. /\ DOMAIN conf' = DOMAIN conf \cup {s} /\ conf' = [x \in DOMAIN conf' |-> conf'[x]]
        /\ \A x \in DOMAIN conf : conf'[x] = conf[x]
        /\ s \notin DOMAIN conf => conf'[s] = NoSite
    BY <2>1 DEF With
  <2>4. \A x \in DOMAIN conf' : DOMAIN conf'[x] = {"server", "user"}
    BY <2>2, <2>3 DEF ConfType
  <2> QED  BY <1>1, <2>3, <2>4 DEF ConfType
<1>2. CASE s \notin DOMAIN pool
  <2>1. conf' = conf  BY <1>2 DEF Find
  <2> QED  BY <2>1 DEF ConfType
<1> QED  BY <1>1, <1>2

LEMMA UnlockType ==
    ASSUME RwType, NEW t, Unlock(t)
    PROVE  RwType'
BY DEF RwType, Unlock, Unlocked

LEMMA WorkTypes ==
    ASSUME TypeInv, InPoolInv, NEW w \in Worker, Work(w)
    PROVE  TypeInv' /\ DOMAIN pool' = DOMAIN pool
<1> DEFINE s == job[w].site
<1>1. Turns(w) /\ Touches(w, s)  BY WorkTurns, WorkTouches
<1>2. JobType' /\ ReloadType' /\ DiskType'
  BY <1>1 DEF Turns, TypeInv, ReloadType, DiskType
<1>3. RwType'
  <2>1. CASE RLock  BY <2>1 DEF RLock, TypeInv, RwType
  <2>2. CASE Unlock(w)  BY <2>2, UnlockType DEF TypeInv
  <2>3. CASE UNCHANGED rw  BY <2>3 DEF TypeInv, RwType
  <2> QED  BY <1>1, <2>1, <2>2, <2>3 DEF Turns
<1>4. ConfType'
  <2>1. CASE conf' = conf  BY <2>1 DEF TypeInv, ConfType
  <2>2. CASE Find(w)  BY <2>2, FindConf DEF TypeInv, PoolType
  <2> QED  BY <1>1, <2>1, <2>2 DEF Touches
<1>5. HasiteType'
  <2>1. CASE Swap(w)  BY <2>1, SwapHasite
  <2>2. CASE UNCHANGED hasite  BY <2>2 DEF TypeInv, HasiteType
  <2>3. ASSUME NEW v, Looked(v) PROVE HasiteType'  BY <2>3, LookedKeeps DEF TypeInv
  <2> QED  BY <1>1, <2>1, <2>2, <2>3 DEF Touches
<1>6. PoolType' /\ DOMAIN pool' = DOMAIN pool
  <2>1. CASE UNCHANGED <<pool, moved>>  BY <2>1 DEF TypeInv, PoolType
  <2>2. CASE job[w].at = "get" /\ pool' = [pool EXCEPT ![s].on = FALSE] /\ UNCHANGED moved
    <3>1. s \in DOMAIN pool  BY <2>2 DEF InPoolInv
    <3> HIDE DEF s
    <3> QED  BY <2>2, <3>1, PoolSet DEF TypeInv, PoolType
  <2>3. CASE Swap(w)
    <3>1. s \in DOMAIN pool  BY <2>3 DEF Swap, InPoolInv, InPool
    <3>2. pool[s].server \in DOMAIN moved  BY <3>1 DEF TypeInv, PoolType
    <3>3. /\ pool' = [pool EXCEPT ![s].on = FALSE]
          /\ moved' = [moved EXCEPT ![pool[s].server].made = @ + 1, ![pool[s].server].since = @ + 1]
      BY <2>3 DEF Swap, Server
    <3> HIDE DEF s
    <3>4. /\ DOMAIN pool' = DOMAIN pool /\ pool' \in [DOMAIN pool -> [server : DOMAIN moved, on : BOOLEAN]]
      BY <3>1, <3>3, PoolSet
    <3>5. DOMAIN moved' = DOMAIN moved /\ moved' \in [DOMAIN moved -> [asked : Nat, made : Nat, since : Nat]]
      BY <3>2, <3>3, MovedMade
    <3> QED  BY <3>4, <3>5 DEF TypeInv, PoolType
  <2>4. CASE /\ s \in DOMAIN pool /\ ~pool[s].on /\ pool' = [pool EXCEPT ![s].on = TRUE]
             /\ moved' = [moved EXCEPT ![pool[s].server].asked = @ + 1]
    <3>1. pool[s].server \in DOMAIN moved  BY <2>4 DEF TypeInv, PoolType
    <3> HIDE DEF s
    <3>2. /\ DOMAIN pool' = DOMAIN pool /\ pool' \in [DOMAIN pool -> [server : DOMAIN moved, on : BOOLEAN]]
      BY <2>4, PoolSet
    <3>3. DOMAIN moved' = DOMAIN moved /\ moved' \in [DOMAIN moved -> [asked : Nat, made : Nat, since : Nat]]
      BY <2>4, <3>1, MovedAsked
    <3> QED  BY <3>2, <3>3 DEF TypeInv, PoolType
  <2> QED  BY <1>1, <2>1, <2>2, <2>3, <2>4 DEF Touches
<1> QED  BY <1>2, <1>3, <1>4, <1>5, <1>6 DEF TypeInv

(* The files of sites. *)
LEMMA CoreFile ==
    ASSUME TypeInv, disk.core # Missing
    PROVE  /\ Table(disk.core) = [k \in DOMAIN Table(disk.core) |-> Table(disk.core)[k]]
           /\ DOMAIN Table(disk.core) \subseteq Nat
           /\ \A k \in DOMAIN Table(disk.core) :
                 DOMAIN Table(disk.core)[k] = {"server", "user"} /\ Table(disk.core)[k].user # ""
<1>1. disk.core \in Seq(SiteLine)  BY SiteConfAssumption DEF TypeInv, DiskType
<1>2. \A i \in DOMAIN disk.core : disk.core[i].ok => disk.core[i].val.user # ""
  BY FilesSound DEF TypeInv, DiskType, UsersGiven
<1>3. PICK tbl : tbl = Table(disk.core)  OBVIOUS
<1>4. /\ tbl = [k \in DOMAIN tbl |-> tbl[k]] /\ DOMAIN tbl \subseteq Nat
      /\ \A k \in DOMAIN tbl : DOMAIN tbl[k] = {"server", "user"}
      /\ \A k \in DOMAIN tbl : \E i \in DOMAIN disk.core : disk.core[i].ok /\ tbl[k] = disk.core[i].val
  BY <1>1, <1>3, TableFacts
<1>5. \A k \in DOMAIN tbl : tbl[k].user # ""  BY <1>2, <1>4
<1> QED  BY <1>3, <1>4, <1>5

LEMMA ReloadTypes ==
    ASSUME TypeInv, Reloading
    PROVE  TypeInv' /\ DOMAIN pool \subseteq DOMAIN pool' /\ UNCHANGED job
<1> USE DEF TypeInv
<1>1. ASSUME NEW d \in Files, Reload(d) PROVE TypeInv' /\ UNCHANGED <<pool, job>>
  <2>1. UNCHANGED <<details, hasite, conf, pool, rw, moved, job>> /\ disk' = d
        /\ reload' = [reload EXCEPT !.at = "errors", !.ok = TRUE]
    BY <1>1 DEF Reload, NoWorker
  <2>2. ReloadType'  BY <2>1 DEF ReloadType
  <2> QED  BY <2>1, <2>2 DEF JobType, ConfType, PoolType, HasiteType, DiskType, RwType
<1>2. CASE ReadErrors \/ ReadDetails
  <2>1. UNCHANGED <<hasite, conf, pool, rw, disk, moved, job>>
        /\ \/ reload' = [reload EXCEPT !.at = "details"]
           \/ reload' = [reload EXCEPT !.at = "hasite"]
           \/ reload' = [reload EXCEPT !.at = "idle", !.ok = FALSE]
    BY <1>2 DEF ReadErrors, ReadDetails, NoWorker, Stop, Step
  <2>2. ReloadType'  BY <2>1 DEF ReloadType
  <2> QED  BY <2>1, <2>2 DEF JobType, ConfType, PoolType, HasiteType, DiskType, RwType
<1>3. CASE ReloadHasite
  <2>1. /\ UNCHANGED <<conf, pool, rw, disk, job>> /\ hasite' = HasiteConf(Empty, disk.hasite).tbl
        /\ moved' = [v \in DOMAIN moved |-> [moved[v] EXCEPT !.since = 0]]
        /\ \/ reload' = [reload EXCEPT !.at = "wlock"]
           \/ reload' = [reload EXCEPT !.at = "idle", !.ok = FALSE]
    BY <1>3 DEF ReloadHasite, NoWorker, Stop, Step
  <2>2. ReloadType'  BY <2>1 DEF ReloadType
  <2>3. HasiteType'
    <3>1. PICK f \in Files \cup {Installed} : f = disk  BY DEF DiskType
    <3>2. PICK tbl : tbl = hasite' /\ tbl = HasiteConf(Empty, f.hasite).tbl  BY <2>1, <3>1
    <3>3. /\ tbl = [v \in DOMAIN tbl |-> tbl[v]]
          /\ \A v \in DOMAIN tbl : ServerInfo(tbl[v]) /\ tbl[v].cur \in {""} \cup ToSet(tbl[v].order)
      BY <3>2, ReadHasite
    <3> QED  BY <3>2, <3>3 DEF HasiteType
  <2>4. PoolType'  BY <2>1 DEF PoolType
  <2> QED  BY <2>1, <2>2, <2>3, <2>4 DEF JobType, ConfType, DiskType, RwType
<1>4. CASE ReInit
  <2>1. /\ UNCHANGED <<hasite, conf, pool, disk, moved, job>>
        /\ rw' = [rw EXCEPT !.writer = Main] /\ reload' = [reload EXCEPT !.at = "clear"]
    BY <1>4 DEF ReInit, NoWorker, Step, WLock, tables
  <2>2. ReloadType' /\ RwType'  BY <2>1 DEF ReloadType, RwType
  <2> QED  BY <2>1, <2>2 DEF JobType, ConfType, PoolType, HasiteType, DiskType
<1>5. CASE ClearSites
  <2>1. /\ UNCHANGED <<hasite, pool, rw, disk, moved, job>>
        /\ conf' = Empty /\ reload' = [reload EXCEPT !.at = "read"]
    BY <1>5 DEF ClearSites, NoWorker, Step
  <2>2. ReloadType' /\ ConfType'  BY <2>1, EmptyFacts DEF ReloadType, ConfType
  <2> QED  BY <2>1, <2>2 DEF JobType, PoolType, HasiteType, DiskType, RwType
<1>6. CASE ReadSites
  <2>1. /\ UNCHANGED <<hasite, pool, disk, moved, job>> /\ Unlock(Main)
        /\ conf' = IF disk.core = Missing THEN conf ELSE Over(Table(disk.core), conf)
        /\ reload' = [reload EXCEPT !.at = IF disk.core = Missing THEN "fail" ELSE "grow", !.site = -1]
    BY <1>6 DEF ReadSites, NoWorker
  <2>2. ReloadType'
    <3>1. PICK p \in {"fail", "grow"} : p = IF disk.core = Missing THEN "fail" ELSE "grow"  OBVIOUS
    <3>2. PICK k \in Int : k = -1  OBVIOUS
    <3>3. reload' = [reload EXCEPT !.at = p, !.site = k]  BY <2>1, <3>1, <3>2
    <3> QED  BY <3>3 DEF ReloadType
  <2>3. RwType'  BY <2>1, UnlockType
  <2>4. ConfType'
    <3>1. CASE disk.core = Missing  BY <2>1, <3>1 DEF ConfType
    <3>2. CASE disk.core # Missing
      <4>1. PICK new : new = Table(disk.core)  OBVIOUS
      <4>2. DOMAIN new \subseteq Nat /\ \A k \in DOMAIN new : DOMAIN new[k] = {"server", "user"}
        BY <3>2, <4>1, CoreFile
      <4>3. conf' = Over(new, conf)  BY <2>1, <3>2, <4>1
      <4>4. /\ DOMAIN conf' = DOMAIN new \cup DOMAIN conf /\ conf' = [x \in DOMAIN conf' |-> conf'[x]]
            /\ \A x \in DOMAIN new : conf'[x] = new[x]
            /\ \A x \in DOMAIN conf \ DOMAIN new : conf'[x] = conf[x]
        BY <4>3 DEF Over
      <4> QED  BY <4>2, <4>4 DEF ConfType
    <3> QED  BY <3>1, <3>2
  <2> QED  BY <2>1, <2>2, <2>3, <2>4 DEF JobType, PoolType, HasiteType, DiskType
<1>7. CASE Grow
  <2>1. UNCHANGED <<hasite, conf, rw, disk, job>>  BY <1>7 DEF Grow, NoWorker
  <2>2. PICK s \in DOMAIN conf :
           /\ DOMAIN pool' = DOMAIN pool \cup {s}
           /\ pool' \in [DOMAIN pool' -> [server : DOMAIN moved', on : BOOLEAN]]
           /\ moved' \in [DOMAIN moved' -> [asked : Nat, made : Nat, since : Nat]]
           /\ reload' = [reload EXCEPT !.site = s]
    BY <1>7, GrowFacts
  <2>3. s \in Int  BY <2>2 DEF ConfType
  <2>4. ReloadType' /\ PoolType'
    <3>1. reload' \in [at : {"idle", "errors", "details", "hasite", "wlock", "clear", "read", "grow", "fail"},
                       site : Int, ok : BOOLEAN, broke : Nat]
      BY <2>2, <2>3 DEF ReloadType
    <3>2. DOMAIN pool' \subseteq Nat  BY <2>2 DEF ConfType, PoolType
    <3> QED  BY <2>2, <3>1, <3>2 DEF ReloadType, PoolType
  <2> QED  BY <2>1, <2>2, <2>4 DEF JobType, ConfType, HasiteType, DiskType, RwType
<1>8. CASE GiveBack
  <2>1. /\ UNCHANGED <<hasite, conf, pool, disk, moved, job>> /\ Unlock(Main)
        /\ reload' = [reload EXCEPT !.at = "idle", !.ok = reload.at = "grow", !.broke = @ + 1]
    BY <1>8 DEF GiveBack, NoWorker, tables
  <2>2. ReloadType'
    <3>1. PICK b \in BOOLEAN : b = (reload.at = "grow")  OBVIOUS
    <3>2. PICK n \in Nat : n = reload.broke + 1  BY DEF ReloadType
    <3>3. reload' = [reload EXCEPT !.at = "idle", !.ok = b, !.broke = n]  BY <2>1, <3>1, <3>2
    <3> QED  BY <3>3 DEF ReloadType
  <2>3. RwType'  BY <2>1, UnlockType
  <2> QED  BY <2>1, <2>2, <2>3 DEF JobType, ConfType, PoolType, HasiteType, DiskType
<1>9. DOMAIN pool \subseteq DOMAIN pool'
  <2>1. CASE Grow  BY <2>1, GrowFacts
  <2>2. CASE ~Grow
    <3>1. pool' = pool
      BY <2>2, <1>1 DEF Reloading, ReadErrors, ReadDetails, ReloadHasite, ReInit, ClearSites, ReadSites, GiveBack, tables
    <3> QED  BY <3>1
  <2> QED  BY <2>1, <2>2
<1>10. UNCHANGED job
  BY <1>1 DEF Reloading, ReadErrors, ReadDetails, ReloadHasite, ReInit, ClearSites, ReadSites, Grow, GiveBack, NoWorker
<1> QED  BY <1>1, <1>2, <1>3, <1>4, <1>5, <1>6, <1>7, <1>8, <1>9, <1>10 DEF Reloading

-----------------------------------------------------------------------------
(* Who is in a pool, and who decides.                                       *)

LEMMA WorkInPool ==
    ASSUME TypeInv, InPoolInv, NEW w \in Worker, Work(w)
    PROVE  InPoolInv'
<1>1. Turns(w) /\ DOMAIN pool' = DOMAIN pool  BY WorkTurns, WorkTypes
<1>2. ASSUME NEW v \in Worker, job'[v].at \in InPool \cup {"get"}
      PROVE  job'[v].site \in DOMAIN pool'
  <2>1. CASE v = w  BY <1>1, <1>2, <2>1 DEF Turns, InPoolInv
  <2>2. CASE v # w  BY <1>1, <1>2, <2>2 DEF Turns, Others, InPoolInv
  <2> QED  BY <2>1, <2>2
<1>3. ASSUME NEW v \in Worker \ {w}
      PROVE  /\ ~(job'[w].at \in InPool /\ job'[v].at \in InPool /\ job'[w].site = job'[v].site)
             /\ ~(job'[w].at \in Asking /\ job'[v].at \in Asking)
  <2>1. job'[v] = job[v]  BY <1>1 DEF Turns, Others
  <2> QED  BY <1>1, <2>1 DEF Turns, InPoolInv, PoolFree
<1>4. ASSUME NEW u \in Worker, NEW v \in Worker \ {u}
      PROVE  /\ ~(job'[u].at \in InPool /\ job'[v].at \in InPool /\ job'[u].site = job'[v].site)
             /\ ~(job'[u].at \in Asking /\ job'[v].at \in Asking)
  <2>1. CASE u = w  BY <1>3, <2>1
  <2>2. CASE v = w  BY <1>3, <2>2
  <2>3. CASE u # w /\ v # w
    <3>1. job'[u] = job[u] /\ job'[v] = job[v]  BY <1>1, <2>3 DEF Turns, Others
    <3> QED  BY <3>1 DEF InPoolInv
  <2> QED  BY <2>1, <2>2, <2>3
<1> QED  BY <1>2, <1>4 DEF InPoolInv

LEMMA ReloadInPool ==
    ASSUME TypeInv, InPoolInv, Reloading
    PROVE  InPoolInv'
BY ReloadTypes DEF InPoolInv

-----------------------------------------------------------------------------
(* The lock.                                                                *)

LEMMA InsideFinite == IsFiniteSet(Inside) /\ Cardinality(Inside) \in Nat
<1>1. IsFiniteSet(Inside)
  BY SiteConfAssumption, FS_Subset DEF Inside
<1> QED  BY <1>1, FS_CardinalityType

LEMMA WorkLock ==
    ASSUME TypeInv, LockInv, NEW w \in Worker, Work(w)
    PROVE  LockInv'
<1>1. Turns(w)  BY WorkTurns
<1>2. rw \in [writer : {None, Main}, readers : Int] /\ None # Main /\ w # Main /\ w # None
  BY SiteConfAssumption DEF TypeInv, RwType
<1>3. PICK r : r = reload  OBVIOUS
<1>4. reload = r /\ reload' = r  BY <1>1, <1>3 DEF Turns
<1>5. PICK n \in Nat : n = Cardinality(Inside)  BY InsideFinite
<1>6. CASE job[w].at \notin InLock /\ job'[w].at \in InLock /\ RLock
  <2>1. Inside' = Inside \cup {w} /\ w \notin Inside
    BY <1>1, <1>6 DEF Turns, Others, Inside
  <2>2. Cardinality(Inside') = n + 1
    BY <1>5, <2>1, InsideFinite, FS_AddElement
  <2>3. rw.writer = None /\ rw'.writer = None
        /\ (rw'.readers = rw.readers + 1 \/ (rw.readers = -1 /\ rw'.readers = -1))
    <3>1. rw.writer = None  BY <1>6 DEF RLock
    <3>2. CASE rw' = [rw EXCEPT !.readers = @ + 1]  BY <1>2, <3>1, <3>2
    <3>3. CASE rw.readers = -1 /\ UNCHANGED rw  BY <3>1, <3>3
    <3> QED  BY <1>6, <3>2, <3>3 DEF RLock
  <2> QED  BY <1>2, <1>4, <1>5, <2>2, <2>3 DEF LockInv, Uncounted
<1>7. CASE job[w].at \in InLock /\ job'[w].at \notin InLock /\ Unlock(w)
  <2>1. Inside' = Inside \ {w} /\ w \in Inside
    BY <1>1, <1>7 DEF Turns, Others, Inside
  <2>2. Cardinality(Inside') = n - 1
    BY <1>5, <2>1, InsideFinite, FS_RemoveElement
  <2>3. \/ rw'.writer = rw.writer /\ rw'.readers = rw.readers - 1
        \/ rw.writer = Main /\ rw'.writer = None /\ rw'.readers = rw.readers
    BY <1>2, <1>7 DEF Unlock, Unlocked
  <2> QED  BY <1>2, <1>4, <1>5, <2>1, <2>2, <2>3 DEF LockInv, Uncounted
<1>8. CASE (job[w].at \in InLock <=> job'[w].at \in InLock) /\ UNCHANGED rw
  <2>1. Inside' = Inside  BY <1>1, <1>8 DEF Turns, Others, Inside
  <2> QED  BY <1>4, <1>8, <2>1 DEF LockInv, Uncounted
<1> QED  BY <1>1, <1>6, <1>7, <1>8 DEF Turns

LEMMA ReloadLock ==
    ASSUME TypeInv, LockInv, Reloading
    PROVE  LockInv'
<1>1. Inside' = Inside  BY ReloadTypes DEF Inside
<1>2. PICK n \in Nat : n = Cardinality(Inside)  BY InsideFinite
<1>3. rw \in [writer : {None, Main}, readers : Int] /\ None # Main /\ ReloadType
  BY SiteConfAssumption DEF TypeInv, RwType
<1>4. n = 0 => Inside = {}
  BY <1>2, InsideFinite, FS_EmptySet
<1>5. CASE ReInit
  <2>1. /\ reload.at = "wlock" /\ reload'.at = "clear" /\ reload'.broke = reload.broke
        /\ rw.writer = None /\ rw.readers = 0 /\ rw'.writer = Main /\ rw'.readers = 0
    BY <1>3, <1>5 DEF ReInit, WLock, Step, ReloadType
  <2> QED  BY <1>1, <1>2, <1>3, <1>4, <2>1 DEF LockInv, Uncounted, Alone
<1>6. CASE ReadSites
  <2>1. /\ reload.at = "read" /\ reload'.at \in {"fail", "grow"} /\ reload'.broke = reload.broke
        /\ Unlock(Main)
    BY <1>3, <1>6 DEF ReadSites, ReloadType
  <2>2. /\ rw'.writer = None
        /\ rw'.readers = IF rw.writer = Main THEN rw.readers ELSE rw.readers - 1
    BY <1>3, <2>1 DEF Unlock, Unlocked
  <2> QED  BY <1>1, <1>2, <1>3, <2>1, <2>2 DEF LockInv, Uncounted, Alone
<1>7. CASE GiveBack
  <2>1. /\ reload.at \in {"fail", "grow"} /\ reload'.at = "idle" /\ Unlock(Main)
    BY <1>3, <1>7 DEF GiveBack, ReloadType
  <2>2. reload'.broke = reload.broke + 1 /\ reload.broke \in Nat
    BY <1>3, <1>7 DEF GiveBack, ReloadType
  <2>3. rw.writer = None  BY <1>3, <2>1 DEF LockInv, Alone
  <2>4. rw'.writer = None /\ rw'.readers = rw.readers - 1
    BY <1>3, <2>1, <2>3 DEF Unlock, Unlocked
  <2> QED  BY <1>1, <1>2, <1>3, <2>1, <2>2, <2>3, <2>4 DEF LockInv, Uncounted, Alone
<1>8. CASE ~ReInit /\ ~ReadSites /\ ~GiveBack
  <2>1. UNCHANGED rw /\ reload'.broke = reload.broke
        /\ (reload'.at \in Alone <=> reload.at \in Alone)
    BY <1>3, <1>8 DEF Reloading, Reload, ReadErrors, ReadDetails, ReloadHasite, ClearSites, Grow, Step, Stop, ReloadType, Alone
  <2> QED  BY <1>1, <2>1 DEF LockInv, Uncounted
<1> QED  BY <1>5, <1>6, <1>7, <1>8

-----------------------------------------------------------------------------
(* The users.                                                               *)

LEMMA FindUser ==
    ASSUME TypeInv, NEW w \in Worker, Find(w), job[w].site \in DOMAIN pool
    PROVE  /\ conf' = With(conf, job[w].site, NoSite)
           /\ job'[w].user = With(conf, job[w].site, NoSite)[job[w].site].user
<1> DEFINE u == With(conf, job[w].site, NoSite)[job[w].site].user
<1>1. conf' = With(conf, job[w].site, NoSite) /\ job' = [job EXCEPT ![w].at = "get", ![w].user = u]
  BY DEF Find
<1> HIDE DEF u
<1>2. job'[w].user = u
  BY <1>1, UserMoves DEF TypeInv, Stages, InLock
<1> QED  BY <1>1, <1>2 DEF u

LEMMA WorkUser ==
    ASSUME TypeInv, InPoolInv, LockInv, UserInv, NEW w \in Worker, Work(w)
    PROVE  UserInv'
<1> DEFINE s == job[w].site
<1>1. Turns(w) /\ Touches(w, s) /\ DOMAIN pool' = DOMAIN pool
  BY WorkTurns, WorkTouches, WorkTypes
<1>2. reload' = reload /\ disk' = disk  BY <1>1 DEF Turns
<1> SUFFICES ASSUME reload.broke = 0 PROVE UserInv'
  BY <1>2 DEF UserInv
<1>3. CASE Find(w)
  <2>1. /\ ConfType' /\ DOMAIN conf \subseteq DOMAIN conf'
        /\ \A x \in DOMAIN conf : conf'[x] = conf[x]
    BY <1>3, FindConf DEF TypeInv, PoolType
  <2>2. reload.at # "read"
    <3>1. w \in Inside  BY <1>3 DEF Find, Inside, InLock
    <3> QED  BY <3>1 DEF LockInv, Alone
  <2>3. \A v \in Worker \ {w} : job'[v] = job[v]  BY <1>1 DEF Turns, Others
  <2>4. CASE s \in DOMAIN pool
    <3>1. conf' = With(conf, s, NoSite) /\ job'[w].user = conf'[s].user /\ DOMAIN conf' = DOMAIN conf \cup {s}
          /\ (s \notin DOMAIN conf => conf'[s] = NoSite)
      BY <1>3, <2>4, FindUser DEF With
    <3>2. job'[w].site = s
      <4>1. job'[w].at = "get"
        <5>1. PICK u : job' = [job EXCEPT ![w].at = "get", ![w].user = u]  BY <1>3, <2>4 DEF Find
        <5> QED  BY <5>1, UserMoves DEF TypeInv, Stages, InLock
      <4> QED  BY <1>1, <4>1 DEF Turns
    <3>3. ASSUME Whole
          PROVE  /\ DOMAIN pool' \subseteq DOMAIN conf' /\ \A x \in DOMAIN conf' : conf'[x].user # ""
                 /\ \A v \in Worker : job'[v].at \in InPool \cup {"get"} => job'[v].user # ""
      <4>1. conf' = conf
        <5>1. s \in DOMAIN conf  BY <2>4, <3>3 DEF UserInv
        <5> QED  BY <2>1, <3>1, <5>1 DEF TypeInv, ConfType
      <4>2. \A x \in DOMAIN conf : conf[x].user # ""  BY <3>3 DEF UserInv
      <4>3. DOMAIN pool' \subseteq DOMAIN conf  BY <1>1, <3>3 DEF UserInv
      <4>4. job'[w].user # ""  BY <3>1, <4>1, <4>2
      <4>5. \A v \in Worker : job[v].at \in InPool \cup {"get"} => job[v].user # ""
        BY <3>3 DEF UserInv
      <4> QED  BY <2>3, <4>1, <4>2, <4>3, <4>4, <4>5
    <3>4. ASSUME reload.at = "grow"
          PROVE  /\ disk.core # Missing /\ DOMAIN Table(disk.core) \subseteq DOMAIN conf'
                 /\ \A x \in DOMAIN Table(disk.core) : conf'[x].user # ""
                 /\ \A v \in Worker :
                       job'[v].at \in InPool \cup {"get"} /\ job'[v].user = "" =>
                          job'[v].site \notin DOMAIN Table(disk.core)
      <4>1. PICK file : file = DOMAIN Table(disk.core)  OBVIOUS
      <4>2. /\ disk.core # Missing /\ file \subseteq DOMAIN conf /\ \A x \in file : conf[x].user # ""
            /\ \A v \in Worker :
                  job[v].at \in InPool \cup {"get"} /\ job[v].user = "" => job[v].site \notin file
        BY <3>4, <4>1 DEF UserInv
      <4>3. job'[w].user = "" => s \notin file  BY <2>1, <3>1, <4>2
      <4>4. file \subseteq DOMAIN conf' /\ \A x \in file : conf'[x].user # ""  BY <2>1, <4>2
      <4> QED  BY <2>3, <3>2, <4>1, <4>2, <4>3, <4>4
    <3>5. reload.at = "fail" => disk.core = Missing  BY DEF UserInv
    <3> QED  BY <1>2, <2>2, <3>3, <3>4, <3>5 DEF UserInv, Whole
  <2>5. CASE s \notin DOMAIN pool
    <3>1. conf' = conf /\ job'[w].at = "unlock"
      <4>1. Goto(w, "unlock") /\ conf' = conf  BY <1>3, <2>5 DEF Find
      <4> QED  BY <4>1, GotoMoves DEF TypeInv, Stages, InLock, Moves
    <3> QED  BY <1>1, <1>2, <2>3, <3>1 DEF UserInv, Whole, InPool
  <2> QED  BY <2>4, <2>5
<1>4. CASE ~Find(w)
  <2>1. conf' = conf  BY <1>1, <1>4 DEF Touches
  <2>2. ASSUME NEW v \in Worker, job'[v].at \in InPool \cup {"get"}
        PROVE  job[v].at \in InPool \cup {"get"} /\ job'[v].user = job[v].user /\ job'[v].site = job[v].site
    BY <1>1, <1>4, <2>2 DEF Turns, Others
  <2> QED  BY <1>1, <1>2, <2>1, <2>2 DEF UserInv, Whole
<1> QED  BY <1>3, <1>4

LEMMA ReloadUser ==
    ASSUME TypeInv, LockInv, UserInv, Reloading
    PROVE  UserInv'
<1>1. job' = job  BY ReloadTypes
<1>2. ReloadType  BY DEF TypeInv
<1> SUFFICES ASSUME reload'.broke = 0 PROVE UserInv'
  BY DEF UserInv
<1>3. CASE ClearSites
  <2>1. conf' = Empty /\ reload'.at = "read"  BY <1>2, <1>3 DEF ClearSites, Step, ReloadType
  <2> QED  BY <2>1, EmptyFacts DEF UserInv, Whole
<1>4. CASE ReadSites
  <2>1. /\ reload.at = "read" /\ reload'.broke = reload.broke /\ disk' = disk
        /\ conf' = IF disk.core = Missing THEN conf ELSE Over(Table(disk.core), conf)
        /\ reload'.at = IF disk.core = Missing THEN "fail" ELSE "grow"
    BY <1>2, <1>4 DEF ReadSites, ReloadType
  <2>2. DOMAIN conf = {} /\ Inside = {}
    BY <2>1 DEF UserInv, LockInv, Alone
  <2>3. CASE disk.core = Missing  BY <2>1, <2>3 DEF UserInv, Whole
  <2>4. CASE disk.core # Missing
    <3>1. PICK new : new = Table(disk.core)  OBVIOUS
    <3>2. \A k \in DOMAIN new : new[k].user # ""  BY <2>4, <3>1, CoreFile
    <3>3. conf' = Over(new, conf)  BY <2>1, <2>4, <3>1
    <3>4. DOMAIN new \subseteq DOMAIN conf' /\ \A x \in DOMAIN new : conf'[x] = new[x]
      BY <3>3 DEF Over
    <3>5. \A w \in Worker : job'[w].at \notin InPool \cup {"get"}
      BY <1>1, <2>2 DEF Inside, InLock, InPool
    <3>6. reload'.at = "grow"  BY <2>1, <2>4
    <3> QED  BY <2>1, <2>4, <3>1, <3>2, <3>4, <3>5, <3>6 DEF UserInv, Whole
  <2> QED  BY <2>3, <2>4
<1>5. CASE Grow
  <2>1. /\ reload.at = "grow" /\ reload'.at = "grow" /\ reload'.broke = reload.broke
        /\ conf' = conf /\ disk' = disk
    BY <1>2, <1>5 DEF Grow, ReloadType
  <2> QED  BY <1>1, <2>1 DEF UserInv, Whole
<1>6. CASE GiveBack
  <2>1. reload'.broke = reload.broke + 1 /\ reload.broke \in Nat
    BY <1>2, <1>6 DEF GiveBack, ReloadType
  <2> QED  BY <2>1
<1>7. CASE ~ClearSites /\ ~ReadSites /\ ~Grow /\ ~GiveBack
  <2>1. /\ UNCHANGED <<conf, pool>> /\ reload'.broke = reload.broke
        /\ reload.at \notin {"read", "grow", "fail"} /\ reload'.at \notin {"read", "grow", "fail"}
    BY <1>2, <1>7 DEF Reloading, Reload, ReadErrors, ReadDetails, ReloadHasite, ReInit, Step, Stop, ReloadType, tables
  <2> QED  BY <1>1, <2>1 DEF UserInv, Whole
<1> QED  BY <1>3, <1>4, <1>5, <1>6, <1>7

-----------------------------------------------------------------------------
(* The switches.                                                            *)

LEMMA WorkSwap ==
    ASSUME TypeInv, InPoolInv, SwapInv, NEW w \in Worker, Work(w)
    PROVE  SwapInv'
<1> DEFINE s == job[w].site
<1>1. Turns(w) /\ Touches(w, s) /\ DOMAIN pool' = DOMAIN pool
  BY WorkTurns, WorkTouches, WorkTypes
<1>2. ASSUME NEW v \in Worker \ {w}, job'[v].at = "swap"
      PROVE  pool'[job'[v].site].on
  <2>1. job'[v] = job[v]  BY <1>1 DEF Turns, Others
  <2>2. job[v].at = "swap" /\ pool[job[v].site].on /\ job[v].site \in DOMAIN pool
    BY <1>2, <2>1 DEF SwapInv, InPoolInv, InPool
  <2>3. CASE UNCHANGED pool  BY <2>1, <2>2, <2>3
  <2>4. CASE pool' = [pool EXCEPT ![s].on = FALSE] /\ s # job[v].site
    BY <2>1, <2>2, <2>4 DEF TypeInv, PoolType
  <2>5. CASE s \in DOMAIN pool /\ pool' = [pool EXCEPT ![s].on = TRUE]
    BY <2>1, <2>2, <2>5 DEF TypeInv, PoolType
  <2>6. CASE job[w].at = "get" /\ PoolFree(s) /\ pool' = [pool EXCEPT ![s].on = FALSE]
    BY <2>2, <2>4, <2>6 DEF PoolFree, InPool
  <2>7. CASE Swap(w)
    <3>1. pool' = [pool EXCEPT ![s].on = FALSE] /\ job[w].at = "swap"  BY <2>7 DEF Swap
    <3>2. s # job[v].site  BY <2>2, <3>1 DEF InPoolInv, InPool
    <3> QED  BY <2>4, <3>1, <3>2
  <2> QED  BY <1>1, <2>3, <2>5, <2>6, <2>7 DEF Touches
<1>3. job'[w].at = "swap" => pool'[job'[w].site].on
  BY <1>1 DEF Turns, InPool
<1> QED  BY <1>2, <1>3 DEF SwapInv

LEMMA ReloadSwap ==
    ASSUME TypeInv, InPoolInv, SwapInv, Reloading
    PROVE  SwapInv'
<1>1. UNCHANGED job  BY ReloadTypes
<1>2. \A s \in DOMAIN pool : pool'[s] = pool[s]
  <2>1. CASE Grow  BY <2>1, GrowFacts
  <2>2. CASE ~Grow
    BY <2>2 DEF Reloading, Reload, ReadErrors, ReadDetails, ReloadHasite, ReInit, ClearSites, ReadSites, GiveBack, tables
  <2> QED  BY <2>1, <2>2
<1> QED  BY <1>1, <1>2 DEF SwapInv, InPoolInv, InPool

LEMMA WorkCount ==
    ASSUME TypeInv, InPoolInv, SwapInv, CountInv, NEW w \in Worker, Work(w)
    PROVE  CountInv'
<1> DEFINE s == job[w].site
<1>1. Touches(w, s)  BY WorkTouches
<1>2. /\ \A v \in DOMAIN moved : moved[v].made \in Nat /\ moved[v].asked \in Nat
      /\ \A x \in DOMAIN pool : pool[x].server \in DOMAIN moved /\ pool[x].on \in BOOLEAN
  BY DEF TypeInv, PoolType
<1>3. ASSUME NEW v \in DOMAIN moved
      PROVE  /\ IsFiniteSet(On(v)) /\ Cardinality(On(v)) \in Nat
             /\ moved[v].made + Cardinality(On(v)) <= moved[v].asked
  BY FS_CardinalityType DEF CountInv
<1>4. CASE UNCHANGED <<pool, moved>>
  BY <1>4 DEF CountInv, On
<1>5. CASE job[w].at = "get" /\ pool' = [pool EXCEPT ![s].on = FALSE] /\ UNCHANGED moved
  <2>1. s \in DOMAIN pool  BY <1>5 DEF InPoolInv
  <2> HIDE DEF s
  <2>2. /\ DOMAIN pool' = DOMAIN pool /\ \A x \in DOMAIN pool : pool'[x].server = pool[x].server
        /\ \A x \in DOMAIN pool \ {s} : pool'[x] = pool[x]
        /\ ~pool'[s].on
    BY <1>5, <2>1, PoolSet
  <2>3. ASSUME NEW v \in DOMAIN moved
        PROVE  IsFiniteSet(On(v)') /\ moved[v].made + Cardinality(On(v)') <= moved[v].asked
    <3>1. On(v)' \subseteq On(v)  BY <2>2 DEF On
    <3>2. IsFiniteSet(On(v)') /\ Cardinality(On(v)') <= Cardinality(On(v))
      BY <1>3, <3>1, FS_Subset
    <3>3. Cardinality(On(v)') \in Nat  BY <3>2, FS_CardinalityType
    <3> QED  BY <1>2, <1>3, <3>2, <3>3
  <2> QED  BY <1>5, <2>3 DEF CountInv
<1>6. CASE Swap(w)
  <2>1. s \in DOMAIN pool /\ pool[s].on  BY <1>6 DEF Swap, InPoolInv, InPool, SwapInv
  <2> DEFINE v0 == pool[s].server
  <2>2. v0 \in DOMAIN moved  BY <1>2, <2>1
  <2>3. /\ pool' = [pool EXCEPT ![s].on = FALSE]
        /\ moved' = [moved EXCEPT ![v0].made = @ + 1, ![v0].since = @ + 1]
    BY <1>6 DEF Swap, Server
  <2> HIDE DEF s
  <2>4. /\ DOMAIN pool' = DOMAIN pool /\ \A x \in DOMAIN pool : pool'[x].server = pool[x].server
        /\ \A x \in DOMAIN pool \ {s} : pool'[x] = pool[x]
        /\ ~pool'[s].on
    BY <2>1, <2>3, PoolSet
  <2>5. PICK u \in DOMAIN moved : u = v0  BY <2>2
  <2>6. /\ DOMAIN moved' = DOMAIN moved /\ \A x \in DOMAIN moved \ {u} : moved'[x] = moved[x]
        /\ moved'[u].asked = moved[u].asked /\ moved'[u].made = moved[u].made + 1
    BY <2>3, <2>5, MovedMade
  <2>7. On(u)' = On(u) \ {s} /\ s \in On(u)  BY <2>1, <2>4, <2>5 DEF On
  <2>8. IsFiniteSet(On(u)') /\ Cardinality(On(u)') = Cardinality(On(u)) - 1
    BY <1>3, <2>7, FS_RemoveElement
  <2>9. moved'[u].made + Cardinality(On(u)') <= moved'[u].asked
    <3>1. PICK a, m, n \in Nat : a = moved[u].asked /\ m = moved[u].made /\ n = Cardinality(On(u))
      BY <1>2, <1>3
    <3>2. m + n <= a  BY <1>3, <3>1
    <3>3. moved'[u].made = m + 1 /\ moved'[u].asked = a /\ Cardinality(On(u)') = n - 1
      BY <2>6, <2>8, <3>1
    <3>4. (m + 1) + (n - 1) <= a  BY <3>2
    <3> QED  BY <3>3, <3>4
  <2>10. ASSUME NEW v \in DOMAIN moved \ {u}
         PROVE  IsFiniteSet(On(v)') /\ moved'[v].made + Cardinality(On(v)') <= moved'[v].asked
    <3>1. On(v)' = On(v)  BY <2>4, <2>5 DEF On
    <3> QED  BY <1>3, <2>6, <3>1
  <2> QED  BY <2>6, <2>8, <2>9, <2>10 DEF CountInv
<1>7. CASE /\ s \in DOMAIN pool /\ ~pool[s].on /\ pool' = [pool EXCEPT ![s].on = TRUE]
           /\ moved' = [moved EXCEPT ![pool[s].server].asked = @ + 1]
  <2> HIDE DEF s
  <2>4. /\ DOMAIN pool' = DOMAIN pool /\ \A x \in DOMAIN pool : pool'[x].server = pool[x].server
        /\ \A x \in DOMAIN pool \ {s} : pool'[x] = pool[x]
        /\ pool'[s].on
    BY <1>7, PoolSet
  <2>5. PICK u \in DOMAIN moved : u = pool[s].server  BY <1>2, <1>7
  <2>6. /\ DOMAIN moved' = DOMAIN moved /\ \A x \in DOMAIN moved \ {u} : moved'[x] = moved[x]
        /\ moved'[u].asked = moved[u].asked + 1 /\ moved'[u].made = moved[u].made
    BY <1>7, <2>5, MovedAsked
  <2>7. On(u)' = On(u) \cup {s} /\ s \notin On(u)  BY <1>7, <2>4, <2>5 DEF On
  <2>8. IsFiniteSet(On(u)') /\ Cardinality(On(u)') = Cardinality(On(u)) + 1
    BY <1>3, <2>7, FS_AddElement
  <2>9. moved'[u].made + Cardinality(On(u)') <= moved'[u].asked
    <3>1. PICK a, m, n \in Nat : a = moved[u].asked /\ m = moved[u].made /\ n = Cardinality(On(u))
      BY <1>2, <1>3
    <3>2. m + n <= a  BY <1>3, <3>1
    <3>3. moved'[u].made = m /\ moved'[u].asked = a + 1 /\ Cardinality(On(u)') = n + 1
      BY <2>6, <2>8, <3>1
    <3>4. m + (n + 1) <= a + 1  BY <3>2
    <3> QED  BY <3>3, <3>4
  <2>10. ASSUME NEW v \in DOMAIN moved \ {u}
         PROVE  IsFiniteSet(On(v)') /\ moved'[v].made + Cardinality(On(v)') <= moved'[v].asked
    <3>1. On(v)' = On(v)  BY <2>4, <2>5 DEF On
    <3> QED  BY <1>3, <2>6, <3>1
  <2> QED  BY <2>6, <2>8, <2>9, <2>10 DEF CountInv
<1> QED  BY <1>1, <1>4, <1>5, <1>6, <1>7 DEF Touches

LEMMA ReloadCount ==
    ASSUME TypeInv, CountInv, Reloading
    PROVE  CountInv'
<1>1. CASE Grow
  <2>1. PICK s \in DOMAIN conf :
              /\ DOMAIN pool' = DOMAIN pool \cup {s}
              /\ \A x \in DOMAIN pool : pool'[x] = pool[x]
              /\ s \notin DOMAIN pool => ~pool'[s].on
              /\ DOMAIN moved \subseteq DOMAIN moved'
              /\ \A x \in DOMAIN moved : moved'[x] = moved[x]
              /\ \A x \in DOMAIN moved' \ DOMAIN moved : moved'[x] = [asked |-> 0, made |-> 0, since |-> 0]
    BY <1>1, GrowFacts
  <2>2. \A v : On(v)' = On(v)  BY <2>1 DEF On
  <2>3. \A x \in DOMAIN pool : pool[x].server \in DOMAIN moved  BY DEF TypeInv, PoolType
  <2>4. ASSUME NEW v \in DOMAIN moved' \ DOMAIN moved
        PROVE  IsFiniteSet(On(v)') /\ moved'[v].made + Cardinality(On(v)') <= moved'[v].asked
    <3>1. On(v)' = {}  BY <2>2, <2>3 DEF On
    <3>2. moved'[v].made = 0 /\ moved'[v].asked = 0  BY <2>1
    <3> QED  BY <3>1, <3>2, FS_EmptySet
  <2>5. ASSUME NEW v \in DOMAIN moved
        PROVE  IsFiniteSet(On(v)') /\ moved'[v].made + Cardinality(On(v)') <= moved'[v].asked
    BY <2>1, <2>2 DEF CountInv
  <2> QED  BY <2>4, <2>5 DEF CountInv
<1>2. CASE ReloadHasite
  <2>1. UNCHANGED pool /\ moved' = [v \in DOMAIN moved |-> [moved[v] EXCEPT !.since = 0]]
    BY <1>2 DEF ReloadHasite
  <2>2. DOMAIN moved' = DOMAIN moved
        /\ \A v \in DOMAIN moved : moved'[v].made = moved[v].made /\ moved'[v].asked = moved[v].asked
    BY <2>1 DEF TypeInv, PoolType
  <2>3. \A v : On(v)' = On(v)  BY <2>1 DEF On
  <2> QED  BY <2>2, <2>3 DEF CountInv
<1>3. CASE ~Grow /\ ~ReloadHasite
  <2>1. UNCHANGED <<pool, moved>>
    BY <1>3 DEF Reloading, Reload, ReadErrors, ReadDetails, ReInit, ClearSites, ReadSites, GiveBack, tables
  <2> QED  BY <2>1 DEF CountInv, On
<1> QED  BY <1>1, <1>2, <1>3

LEMMA SinceType ==
    ASSUME TypeInv
    PROVE  \A v : Since(v) \in Nat
BY DEF TypeInv, PoolType, Since

LEMMA PlacesNat ==
    ASSUME HasiteType, NEW v \in DOMAIN hasite
    PROVE  DOMAIN hasite[v].order \subseteq Nat
<1>1. hasite[v].order \in Seq(ToSet(hasite[v].order))
  BY DEF HasiteType, ServerInfo
<1>2. ASSUME NEW S, NEW q \in Seq(S) PROVE DOMAIN q \subseteq Nat
  OBVIOUS
<1> QED  BY <1>1, <1>2, Zenon

(* Further with more switches. *)
Reached(info, n) == \E i \in DOMAIN info.order : i <= 1 + n /\ info.order[i] = info.cur
LEMMA ReachedMore ==
    ASSUME NEW info, DOMAIN info.order \subseteq Nat, NEW n \in Nat, NEW k \in Nat, n <= k,
           Reached(info, n)
    PROVE  Reached(info, k)
<1>1. PICK i \in DOMAIN info.order : i <= 1 + n /\ info.order[i] = info.cur
  BY DEF Reached
<1>2. i \in Nat /\ i <= 1 + k  BY <1>1
<1> QED  BY <1>1, <1>2 DEF Reached

LEMMA WorkFrom ==
    ASSUME TypeInv, InPoolInv, FromInv, NEW w \in Worker, Work(w)
    PROVE  FromInv'
<1> DEFINE s == job[w].site
<1>1. Touches(w, s) /\ TypeInv'  BY WorkTouches, WorkTypes
<1>2. \A v \in DOMAIN hasite : hasite[v].cur # "" => Reached(hasite[v], Since(v))
  BY DEF FromInv, Reached
<1>3. \A v : Since(v) \in Nat  BY SinceType
<1>4. CASE Swap(w)
  <2>1. s \in DOMAIN pool  BY <1>4 DEF Swap, InPoolInv, InPool
  <2>2. PICK u : u = Server(w)  OBVIOUS
  <2>3. u \in DOMAIN moved /\ moved' = [moved EXCEPT ![u].made = @ + 1, ![u].since = @ + 1]
    BY <1>4, <2>1, <2>2 DEF Swap, Server, TypeInv, PoolType
  <2>4. /\ DOMAIN moved' = DOMAIN moved /\ \A x \in DOMAIN moved \ {u} : moved'[x] = moved[x]
        /\ moved'[u].since = moved[u].since + 1
    BY <2>3, MovedMade
  <2>5. Since(u)' = Since(u) + 1 /\ \A x : x # u => Since(x)' = Since(x)
    BY <2>3, <2>4 DEF Since
  <2>6. /\ DOMAIN hasite \subseteq DOMAIN hasite'
        /\ \A x \in DOMAIN hasite \ {u} : hasite'[x] = hasite[x]
        /\ \A x \in DOMAIN hasite' \ DOMAIN hasite : hasite'[x].cur = ""
        /\ u \in DOMAIN hasite =>
              /\ hasite'[u].order = hasite[u].order
              /\ NextIdc(u) = "" => hasite'[u] = hasite[u]
              /\ NextIdc(u) # "" => hasite'[u].cur = NextIdc(u)
    BY <1>4, <2>2, SwapHasite
  <2>7. ASSUME NEW v \in DOMAIN hasite', hasite'[v].cur # ""
        PROVE  Reached(hasite'[v], Since(v)')
    <3>1. v \in DOMAIN hasite  BY <2>6, <2>7
    <3>2. CASE v # u
      <4>1. hasite'[v] = hasite[v] /\ Since(v)' = Since(v)  BY <2>5, <2>6, <3>1, <3>2
      <4> QED  BY <1>2, <2>7, <3>1, <4>1
    <3>3. CASE v = u /\ NextIdc(u) = ""
      <4>1. hasite'[v] = hasite[v] /\ Reached(hasite[v], Since(v))  BY <1>2, <2>6, <2>7, <3>1, <3>3
      <4>2. PICK n \in Nat : n = Since(v)  BY <1>3
      <4>3. Since(v)' = n + 1  BY <2>5, <3>3, <4>2
      <4>4. DOMAIN hasite[v].order \subseteq Nat  BY <3>1, PlacesNat DEF TypeInv
      <4>5. Reached(hasite[v], n + 1)
        <5>1. n <= n + 1 /\ n + 1 \in Nat  OBVIOUS
        <5> QED  BY <4>1, <4>2, <4>4, <5>1, ReachedMore
      <4> QED  BY <4>1, <4>3, <4>5
    <3>4. CASE v = u /\ NextIdc(u) # ""
      <4>1. PICK m \in DOMAIN hasite[v].order :
               /\ m \in Nat /\ 1 + m \in DOMAIN hasite[v].order
               /\ NextIdc(v) = hasite[v].order[1 + m] /\ hasite[v].order[m] = hasite[v].cur
               /\ \A j \in DOMAIN hasite[v].order : hasite[v].order[j] = hasite[v].cur => m <= j
        BY <3>1, <3>4, NextFacts DEF TypeInv
      <4>2. hasite[v].cur # ""
        BY <3>1, <4>1 DEF TypeInv, HasiteType, ServerInfo
      <4>3. PICK i \in DOMAIN hasite[v].order : i <= 1 + Since(v) /\ hasite[v].order[i] = hasite[v].cur
        BY <1>2, <3>1, <4>2 DEF Reached
      <4>4. i \in Nat  BY <3>1, <4>3, PlacesNat DEF TypeInv
      <4>5. PICK n \in Nat : n = Since(v)  BY <1>3
      <4>6. m <= i /\ i <= 1 + n /\ Since(v)' = n + 1  BY <2>5, <3>4, <4>1, <4>3, <4>5
      <4>7. 1 + m <= 1 + (n + 1)  BY <4>1, <4>4, <4>6
      <4>8. hasite'[v].order = hasite[v].order /\ hasite'[v].cur = hasite[v].order[1 + m]
        BY <2>6, <3>1, <3>4, <4>1
      <4>9. Reached(hasite'[v], n + 1)
        BY <4>1, <4>7, <4>8 DEF Reached
      <4> QED  BY <4>6, <4>9
    <3> QED  BY <3>2, <3>3, <3>4
  <2> QED  BY <2>7 DEF FromInv, Reached
<1>5. CASE UNCHANGED hasite \/ \E v : Looked(v)
  <2>1. /\ \A x \in DOMAIN hasite \cap DOMAIN hasite' : hasite'[x] = hasite[x]
        /\ \A x \in DOMAIN hasite' \ DOMAIN hasite : hasite'[x].cur = ""
    BY <1>5, LookedKeeps DEF TypeInv
  <2>2. CASE ~Swap(w)
    <3>1. \A v : Since(v)' = Since(v)
      <4>1. CASE UNCHANGED moved  BY <4>1 DEF Since
      <4>2. CASE /\ s \in DOMAIN pool
                 /\ moved' = [moved EXCEPT ![pool[s].server].asked = @ + 1]
        <5>1. PICK u \in DOMAIN moved : u = pool[s].server  BY <4>2 DEF TypeInv, PoolType
        <5>2. /\ DOMAIN moved' = DOMAIN moved /\ \A x \in DOMAIN moved \ {u} : moved'[x] = moved[x]
              /\ moved'[u].since = moved[u].since
          BY <4>2, <5>1, MovedAsked
        <5> QED  BY <5>1, <5>2 DEF Since
      <4> QED  BY <1>1, <2>2, <4>1, <4>2 DEF Touches
    <3>2. \A v \in DOMAIN hasite' : hasite'[v].cur # "" => Reached(hasite'[v], Since(v)')
      BY <1>2, <2>1, <3>1
    <3> QED  BY <3>2 DEF FromInv, Reached
  <2> QED  BY <1>4, <2>2
<1> QED  BY <1>1, <1>4, <1>5 DEF Touches

LEMMA ReloadFrom ==
    ASSUME TypeInv, FromInv, Reloading
    PROVE  FromInv'
<1>1. TypeInv'  BY ReloadTypes
<1>2. \A v \in DOMAIN hasite : hasite[v].cur # "" => Reached(hasite[v], Since(v))
  BY DEF FromInv, Reached
<1>3. CASE ReloadHasite
  <2>1. hasite' = HasiteConf(Empty, disk.hasite).tbl  BY <1>3 DEF ReloadHasite
  <2>2. PICK f \in Files \cup {Installed} : f = disk  BY DEF TypeInv, DiskType
  <2>3. PICK tbl : tbl = hasite' /\ tbl = HasiteConf(Empty, f.hasite).tbl  BY <2>1, <2>2
  <2>4. \A v \in DOMAIN tbl :
           tbl[v].cur # "" => 1 \in DOMAIN tbl[v].order /\ tbl[v].cur = tbl[v].order[1]
    BY <2>3, ReadHasite
  <2>5. ASSUME NEW v \in DOMAIN tbl, tbl[v].cur # "" PROVE Reached(tbl[v], Since(v)')
    <3>1. PICK n \in Nat : n = Since(v)'
      <4>1. \A x : Since(x)' \in Nat  BY <1>1 DEF TypeInv, PoolType, Since
      <4> QED  BY <4>1
    <3>2. 1 <= 1 + n  OBVIOUS
    <3>3. Reached(tbl[v], n)  BY <2>4, <2>5, <3>2 DEF Reached
    <3> QED  BY <3>1, <3>3
  <2> QED  BY <2>3, <2>5 DEF FromInv, Reached
<1>4. CASE ~ReloadHasite
  <2>1. hasite' = hasite
    BY <1>4 DEF Reloading, Reload, ReadErrors, ReadDetails, ReInit, ClearSites, ReadSites, Grow, GiveBack, tables
  <2>2. \A v : Since(v)' = Since(v)
    <3>1. CASE Grow
      <4>1. /\ DOMAIN moved \subseteq DOMAIN moved' /\ \A x \in DOMAIN moved : moved'[x] = moved[x]
            /\ \A x \in DOMAIN moved' \ DOMAIN moved : moved'[x] = [asked |-> 0, made |-> 0, since |-> 0]
        BY <3>1, GrowFacts
      <4> QED  BY <4>1 DEF Since
    <3>2. CASE ~Grow
      <4>1. UNCHANGED moved
        BY <1>4, <3>2 DEF Reloading, Reload, ReadErrors, ReadDetails, ReInit, ClearSites, ReadSites, GiveBack
      <4> QED  BY <4>1 DEF Since
    <3> QED  BY <3>1, <3>2
  <2>3. \A v \in DOMAIN hasite' : hasite'[v].cur # "" => Reached(hasite'[v], Since(v)')
    BY <1>2, <2>1, <2>2
  <2> QED  BY <2>3 DEF FromInv, Reached
<1> QED  BY <1>3, <1>4

-----------------------------------------------------------------------------
(* All of it.                                                               *)

IInv == TypeInv /\ InPoolInv /\ LockInv /\ UserInv /\ SwapInv /\ CountInv /\ FromInv

LEMMA InitIInv == Init => IInv
<1> SUFFICES ASSUME Init PROVE IInv
  OBVIOUS
<1>1. job = [w \in Worker |-> Idle]  BY DEF Init
<1>2. DOMAIN Idle = Fields /\ Idle.at = "idle"  BY DEF Idle, Fields
<1>3. JobType /\ \A w \in Worker : job[w].at = "idle"
  BY <1>1, <1>2 DEF JobType, Stages
<1>4. /\ reload = [at |-> "idle", site |-> -1, ok |-> TRUE, broke |-> 0]
      /\ rw = [writer |-> None, readers |-> 0] /\ disk = Installed
  BY DEF Init
<1>5. ReloadType /\ DiskType /\ RwType
  BY <1>4 DEF ReloadType, DiskType, RwType
<1>6. PICK tbl : tbl = conf /\ tbl = Table(Installed.core)  BY <1>4 DEF Init
<1>7. /\ tbl = [k \in DOMAIN tbl |-> tbl[k]] /\ DOMAIN tbl \subseteq Nat
      /\ \A k \in DOMAIN tbl : DOMAIN tbl[k] = {"server", "user"}
      /\ \A k \in DOMAIN tbl :
            \E i \in DOMAIN Installed.core : Installed.core[i].ok /\ tbl[k] = Installed.core[i].val
  <2>1. Installed.core \in Seq(SiteLine)  BY SiteConfAssumption
  <2> QED  BY <1>6, <2>1, TableFacts
<1>8. ConfType  BY <1>6, <1>7 DEF ConfType
<1>9. \A k \in DOMAIN conf : conf[k].user # ""
  <2>1. \A i \in DOMAIN Installed.core : Installed.core[i].ok => Installed.core[i].val.user # ""
    BY FilesSound, SiteConfAssumption DEF UsersGiven
  <2>2. \A k \in DOMAIN tbl : tbl[k].user # ""  BY <1>7, <2>1
  <2> QED  BY <1>6, <2>2
<1>10. pool = [s \in DOMAIN conf |-> [server |-> conf[s].server, on |-> FALSE]]
  BY DEF Init
<1>11. DOMAIN pool = DOMAIN conf /\ \A s \in DOMAIN pool : ~pool[s].on
  BY <1>10
<1>12. moved = [v \in {pool[s].server : s \in DOMAIN pool} |-> [asked |-> 0, made |-> 0, since |-> 0]]
  BY DEF Init
<1>13. DOMAIN moved = {pool[s].server : s \in DOMAIN pool}
       /\ \A v \in DOMAIN moved : moved[v] = [asked |-> 0, made |-> 0, since |-> 0]
  BY <1>12
<1>14. PoolType
  <2>1. moved \in [DOMAIN moved -> [asked : Nat, made : Nat, since : Nat]]
    BY <1>12, <1>13
  <2>2. \A s \in DOMAIN pool : pool[s] \in [server : DOMAIN moved, on : BOOLEAN]
    BY <1>10, <1>13
  <2>3. pool \in [DOMAIN pool -> [server : DOMAIN moved, on : BOOLEAN]]
    BY <1>10, <2>2
  <2> QED  BY <1>6, <1>7, <1>11, <2>1, <2>3 DEF PoolType
<1>15. PICK known : /\ known = hasite /\ known = HasiteConf(Empty, Installed.hasite).tbl
  BY <1>4 DEF Init
<1>16. /\ known = [v \in DOMAIN known |-> known[v]]
       /\ \A v \in DOMAIN known :
             /\ ServerInfo(known[v]) /\ known[v].cur \in {""} \cup ToSet(known[v].order)
             /\ known[v].cur # "" => 1 \in DOMAIN known[v].order /\ known[v].cur = known[v].order[1]
  <2>1. PICK f \in Files \cup {Installed} : f = Installed  OBVIOUS
  <2> QED  BY <1>15, <2>1, ReadHasite
<1>17. TypeInv
  <2>1. HasiteType  BY <1>15, <1>16 DEF HasiteType
  <2> QED  BY <1>3, <1>5, <1>8, <1>14, <2>1 DEF TypeInv
<1>18. InPoolInv /\ SwapInv
  BY <1>3 DEF InPoolInv, SwapInv, InPool, Asking
<1>19. LockInv
  <2>1. Inside = {}  BY <1>3 DEF Inside, InLock
  <2>2. Cardinality(Inside) = 0  BY <2>1, FS_EmptySet
  <2> QED  BY <1>4, <2>1, <2>2 DEF LockInv, Uncounted, Alone
<1>20. UserInv
  BY <1>3, <1>4, <1>9, <1>11 DEF UserInv, Whole, InPool
<1>21. CountInv
  <2>1. \A v : On(v) = {}  BY <1>11 DEF On
  <2>2. \A v \in DOMAIN moved : moved[v].made = 0 /\ moved[v].asked = 0  BY <1>13
  <2> QED  BY <2>1, <2>2, FS_EmptySet DEF CountInv
<1>22. FromInv
  <2>1. ASSUME NEW v \in DOMAIN known, known[v].cur # ""
        PROVE  \E i \in DOMAIN known[v].order : i <= 1 + Since(v) /\ known[v].order[i] = known[v].cur
    <3>1. PICK n \in Nat : n = Since(v)  BY <1>17, SinceType
    <3>2. 1 <= 1 + n  OBVIOUS
    <3> QED  BY <1>16, <2>1, <3>1, <3>2
  <2> QED  BY <1>15, <2>1 DEF FromInv
<1> QED  BY <1>17, <1>18, <1>19, <1>20, <1>21, <1>22 DEF IInv

LEMMA NextIInv == IInv /\ [Next]_vars => IInv'
<1> SUFFICES ASSUME IInv, [Next]_vars PROVE IInv'
  OBVIOUS
<1>1. CASE Reloading
  BY <1>1, ReloadTypes, ReloadInPool, ReloadLock, ReloadUser, ReloadSwap, ReloadCount, ReloadFrom DEF IInv
<1>2. ASSUME NEW w \in Worker, Work(w) PROVE IInv'
  BY <1>2, WorkTypes, WorkInPool, WorkLock, WorkUser, WorkSwap, WorkCount, WorkFrom DEF IInv
<1>3. CASE UNCHANGED vars
  <2>1. UNCHANGED <<errors, details, hasite, conf, pool, rw, reload, disk, job, moved>>
    BY <1>3 DEF vars, tables
  <2>2. TypeInv'
    BY <2>1 DEF IInv, TypeInv, JobType, ReloadType, ConfType, PoolType, HasiteType, DiskType, RwType
  <2>3. InPoolInv' /\ SwapInv' /\ CountInv'
    BY <2>1 DEF IInv, InPoolInv, SwapInv, CountInv, On
  <2>4. LockInv' /\ UserInv'
    BY <2>1 DEF IInv, LockInv, Uncounted, Inside, UserInv, Whole
  <2>5. FromInv'  BY <2>1 DEF IInv, FromInv, Since
  <2> QED  BY <2>2, <2>3, <2>4, <2>5 DEF IInv
<1> QED  BY <1>1, <1>2, <1>3 DEF Next

LEMMA SpecIInv == Spec => []IInv
BY InitIInv, NextIInv, PTL DEF Spec

LEMMA NoneOrMore == \A n \in Nat : n > 0 \/ n = 0
OBVIOUS

LEMMA IInvLock == IInv => LockKept
<1> SUFFICES ASSUME IInv PROVE LockKept
  OBVIOUS
<1>1. TypeInv /\ InPoolInv /\ LockInv /\ UserInv  BY DEF IInv
<1>2. TypeOK
  <2>1. rw.writer \in {None, Main}  BY <1>1 DEF TypeInv, RwType
  <2>2. \A s \in DOMAIN pool : pool[s].server \in DOMAIN moved /\ pool[s].on \in BOOLEAN
    BY <1>1 DEF TypeInv, PoolType
  <2>3. /\ \A s \in DOMAIN conf : DOMAIN conf[s] = {"server", "user"}
        /\ \A v \in DOMAIN hasite : hasite[v].cur \in {""} \cup ToSet(hasite[v].order)
        /\ reload.at \in {"idle", "errors", "details", "hasite", "wlock", "clear", "read", "grow", "fail"}
        /\ \A w \in Worker : job[w].at \in {"idle", "rlock"} \cup InLock \cup Asking \cup Telling
    BY <1>1 DEF TypeInv, ConfType, HasiteType, ReloadType, JobType, Stages
  <2> QED  BY <1>1, <2>1, <2>2, <2>3 DEF TypeOK, InPoolInv
<1>3. LockCounts
  <2>1. PICK n \in Nat : n = Cardinality(Inside)  BY InsideFinite
  <2>2. PICK r \in Int : r = rw.readers  BY <1>1 DEF TypeInv, RwType
  <2> QED  BY <1>1, <2>1, <2>2 DEF LockCounts, LockInv, Uncounted, Alone
<1>4. UserKnown
  <2> SUFFICES ASSUME NEW w \in Worker, job[w].at \in InPool \cup {"get"}, job[w].user = "",
                      ~(reload.broke > 0), disk.core # Missing
               PROVE  job[w].site \notin DOMAIN Table(disk.core)
    BY DEF UserKnown
  <2>1. reload.broke = 0
    <3>1. PICK n \in Nat : n = reload.broke  BY <1>1 DEF TypeInv, ReloadType
    <3>2. ~(n > 0)  BY <3>1
    <3> QED  BY <3>1, <3>2, NoneOrMore, Zenon
  <2>2. ~Whole  BY <1>1, <2>1 DEF UserInv
  <2>3. reload.at # "read"
    <3>1. w \in Inside  BY DEF Inside, InPool, InLock
    <3> QED  BY <1>1, <2>1, <3>1 DEF LockInv, Alone
  <2>4. reload.at = "grow"  BY <1>1, <2>1, <2>2, <2>3 DEF UserInv, Whole
  <2> QED  BY <1>1, <2>1, <2>4 DEF UserInv
<1> QED  BY <1>2, <1>3, <1>4 DEF LockKept

LEMMA IInvMoves == IInv => MovesAsked
<1> SUFFICES ASSUME IInv, NEW v \in DOMAIN moved
             PROVE  /\ moved[v].made + Cardinality(On(v)) <= moved[v].asked
                    /\ v \in DOMAIN hasite /\ hasite[v].cur # "" =>
                          \E i \in DOMAIN hasite[v].order :
                             i <= 1 + moved[v].since /\ hasite[v].order[i] = hasite[v].cur
  BY DEF MovesAsked, On
<1>1. Since(v) = moved[v].since  BY DEF Since
<1> QED  BY <1>1 DEF IInv, CountInv, FromInv

-----------------------------------------------------------------------------
(* The tables and their files.                                              *)

(* A reload is past a table, or all of it succeeded. *)
Past(stages) == reload.at \in stages \/ (reload.at = "idle" /\ reload.ok)
ErrorsFollow(texts) ==
    /\ \A c \in DOMAIN errors : errors[c] = IF c \in DOMAIN texts THEN texts[c] ELSE ""
    /\ DOMAIN texts \subseteq DOMAIN errors
HasiteFollows(idcs) ==
    /\ DOMAIN idcs \subseteq DOMAIN hasite
    /\ \A v \in DOMAIN hasite :
          IF v \in DOMAIN idcs THEN [hasite[v] EXCEPT !.cur = idcs[v].cur] = idcs[v]
          ELSE hasite[v] = NoServer
SitesFollow(sites) ==
    /\ \A s \in DOMAIN conf : conf[s] = IF s \in DOMAIN sites THEN sites[s] ELSE NoSite
    /\ DOMAIN sites \subseteq DOMAIN conf

(* The stages of a reload after each table; the sites have their pools up to the one that
   re_init has come to.                                                      *)
FollowInv ==
    /\ reload.at = "errors" => \A c \in DOMAIN errors : errors[c] = ""
    /\ Past({"details", "hasite", "wlock", "clear", "read", "grow"}) => ErrorsFollow(Table(disk.errors))
    /\ Past({"hasite", "wlock", "clear", "read", "grow"}) => details = disk.details
    /\ Past({"wlock", "clear", "read", "grow"}) => HasiteFollows(HasiteConf(Empty, disk.hasite).tbl)
    /\ reload.at = "grow" /\ reload.broke = 0 =>
          /\ SitesFollow(Table(disk.core))
          /\ \A s \in DOMAIN conf : s <= reload.site => s \in DOMAIN pool
    /\ reload.at = "idle" /\ reload.ok /\ reload.broke <= 1 =>
          SitesFollow(Table(disk.core)) /\ DOMAIN Table(disk.core) \subseteq DOMAIN pool

LEMMA BlankErrors ==
    ASSUME NEW c, errors' = With(errors, c, "")
    PROVE  /\ DOMAIN errors \subseteq DOMAIN errors'
           /\ \A x \in DOMAIN errors : errors'[x] = errors[x]
           /\ \A x \in DOMAIN errors' \ DOMAIN errors : errors'[x] = ""
BY DEF With

LEMMA LookedNoServer ==
    ASSUME NEW v, Looked(v)
    PROVE  /\ DOMAIN hasite \subseteq DOMAIN hasite' /\ \A x \in DOMAIN hasite : hasite'[x] = hasite[x]
           /\ \A x \in DOMAIN hasite' \ DOMAIN hasite : hasite'[x] = NoServer
BY DEF Looked, With

LEMMA BlankNext ==
    ASSUME NEW v, hasite[v] = NoServer
    PROVE  NextIdc(v) = ""
<1>1. NoServer.order = <<>>  BY DEF NoServer
<1>2. DOMAIN <<>> = {}  OBVIOUS
<1> QED  BY <1>1, <1>2 DEF NextIdc

LEMMA SameBut ==
    ASSUME NEW x, NEW y, x = [f \in {"order", "nodes", "cur"} |-> x[f]],
           [x EXCEPT !.cur = y.cur] = y, NEW c, NEW z, z = [x EXCEPT !.cur = c]
    PROVE  [z EXCEPT !.cur = y.cur] = y
OBVIOUS

(* The servers: looking at one adds a blank, a switch changes the current IDC. *)
LEMMA WorkHasite ==
    ASSUME TypeInv, NEW w \in Worker, Work(w), NEW idcs, HasiteFollows(idcs)
    PROVE  HasiteFollows(idcs)'
<1>1. Swap(w) \/ UNCHANGED hasite \/ \E v : Looked(v)
  BY WorkTouches DEF Touches
<1>2. CASE UNCHANGED hasite
  BY <1>2 DEF HasiteFollows
<1>3. ASSUME NEW v, Looked(v) PROVE HasiteFollows(idcs)'
  <2>1. /\ DOMAIN hasite \subseteq DOMAIN hasite' /\ \A x \in DOMAIN hasite : hasite'[x] = hasite[x]
        /\ \A x \in DOMAIN hasite' \ DOMAIN hasite : hasite'[x] = NoServer
    BY <1>3, LookedNoServer
  <2> QED  BY <2>1 DEF HasiteFollows
<1>4. ASSUME Swap(w), ~\E v : Looked(v) PROVE HasiteFollows(idcs)'
  <2>1. PICK v : v = Server(w)  OBVIOUS
  <2>2. v \in DOMAIN hasite /\ NextIdc(v) # ""
    <3>1. NextOf(v) # ""  BY <1>4, <2>1 DEF Swap, Looked
    <3> QED  BY <3>1 DEF NextOf
  <2>3. DOMAIN hasite' = DOMAIN hasite
    <3>1. NextOf(v) # ""  BY <2>2 DEF NextOf
    <3>2. hasite' = [hasite EXCEPT ![v].cur = NextOf(v)]  BY <1>4, <2>1, <3>1 DEF Swap
    <3>3. hasite = [x \in DOMAIN hasite |-> hasite[x]]  BY DEF TypeInv, HasiteType
    <3> QED  BY <3>2, <3>3
  <2>4. /\ \A x \in DOMAIN hasite \ {v} : hasite'[x] = hasite[x]
        /\ hasite'[v] = [hasite[v] EXCEPT !.cur = NextIdc(v)]
    BY <1>4, <2>1, <2>2, SwapHasite
  <2>5. v \in DOMAIN idcs /\ [hasite[v] EXCEPT !.cur = idcs[v].cur] = idcs[v]
    BY <2>2, BlankNext DEF HasiteFollows
  <2>6. hasite[v] = [f \in {"order", "nodes", "cur"} |-> hasite[v][f]]
    BY <2>2 DEF TypeInv, HasiteType, ServerInfo
  <2>7. [hasite'[v] EXCEPT !.cur = idcs[v].cur] = idcs[v]
    BY <2>4, <2>5, <2>6, SameBut
  <2> QED  BY <2>3, <2>4, <2>5, <2>7 DEF HasiteFollows
<1> QED  BY <1>1, <1>2, <1>3, <1>4

(* The sites: one that is gone but has a pool gets a blank. *)
LEMMA WorkSites ==
    ASSUME TypeInv, InPoolInv, NEW w \in Worker, Work(w), NEW sites, SitesFollow(sites)
    PROVE  /\ SitesFollow(sites)'
           /\ \A s \in DOMAIN conf' \ DOMAIN conf : s \in DOMAIN pool
<1>1. conf' = conf \/ Find(w)  BY WorkTouches DEF Touches
<1>2. CASE conf' = conf  BY <1>2 DEF SitesFollow
<1>3. CASE Find(w) /\ job[w].site \in DOMAIN pool
  <2>1. conf' = With(conf, job[w].site, NoSite)  BY <1>3 DEF Find
  <2>2. PICK s : s = job[w].site  OBVIOUS
  <2>3. /\ DOMAIN conf' = DOMAIN conf \cup {s} /\ \A x \in DOMAIN conf : conf'[x] = conf[x]
        /\ s \notin DOMAIN conf => conf'[s] = NoSite
    BY <2>1, <2>2 DEF With
  <2> QED  BY <1>3, <2>2, <2>3 DEF SitesFollow
<1>4. CASE Find(w) /\ job[w].site \notin DOMAIN pool
  <2>1. conf' = conf  BY <1>4 DEF Find
  <2> QED  BY <2>1 DEF SitesFollow
<1> QED  BY <1>1, <1>2, <1>3, <1>4

LEMMA WorkFollow ==
    ASSUME IInv, FollowInv, NEW w \in Worker, Work(w)
    PROVE  FollowInv'
<1>1. /\ TypeInv /\ InPoolInv /\ reload' = reload /\ disk' = disk /\ DOMAIN pool' = DOMAIN pool
      /\ details' = details /\ (errors' = errors \/ \E c : errors' = With(errors, c, ""))
  BY WorkTurns, WorkTouches, WorkTypes DEF IInv, Turns, Touches
<1>2. /\ \A x \in DOMAIN errors' :
            IF x \in DOMAIN errors THEN errors'[x] = errors[x] ELSE errors'[x] = ""
      /\ DOMAIN errors \subseteq DOMAIN errors'
  <2>1. CASE errors' = errors  BY <2>1
  <2>2. ASSUME NEW c, errors' = With(errors, c, "")
        PROVE  /\ \A x \in DOMAIN errors' :
                     IF x \in DOMAIN errors THEN errors'[x] = errors[x] ELSE errors'[x] = ""
               /\ DOMAIN errors \subseteq DOMAIN errors'
    BY <2>2, BlankErrors
  <2> QED  BY <1>1, <2>1, <2>2
<1>3. reload.at = "errors" => \A c \in DOMAIN errors' : errors'[c] = ""
  BY <1>2 DEF FollowInv
<1>4. ASSUME ErrorsFollow(Table(disk.errors)), Past({"details", "hasite", "wlock", "clear", "read", "grow"})
      PROVE  ErrorsFollow(Table(disk.errors))'
  <2>1. PICK texts : texts = Table(disk.errors) /\ texts = Table(disk.errors)'  BY <1>1
  <2>2. /\ \A c \in DOMAIN errors : errors[c] = IF c \in DOMAIN texts THEN texts[c] ELSE ""
        /\ DOMAIN texts \subseteq DOMAIN errors
    BY <1>4, <2>1 DEF ErrorsFollow
  <2>3. /\ \A c \in DOMAIN errors' : errors'[c] = IF c \in DOMAIN texts THEN texts[c] ELSE ""
        /\ DOMAIN texts \subseteq DOMAIN errors'
    BY <1>2, <2>2
  <2> QED  BY <2>1, <2>3 DEF ErrorsFollow
<1>5. ASSUME HasiteFollows(HasiteConf(Empty, disk.hasite).tbl)
      PROVE  HasiteFollows(HasiteConf(Empty, disk.hasite).tbl)'
  <2>1. PICK idcs : idcs = HasiteConf(Empty, disk.hasite).tbl /\ idcs = HasiteConf(Empty, disk.hasite).tbl'
    BY <1>1
  <2>2. HasiteFollows(idcs)'  BY <1>1, <1>5, <2>1, WorkHasite
  <2> QED  BY <2>1, <2>2 DEF HasiteFollows
<1>6. ASSUME SitesFollow(Table(disk.core))
      PROVE  /\ SitesFollow(Table(disk.core))'
             /\ \A s \in DOMAIN conf' \ DOMAIN conf : s \in DOMAIN pool
  <2>1. PICK sites : sites = Table(disk.core) /\ sites = Table(disk.core)'  BY <1>1
  <2>2. SitesFollow(sites)' /\ \A s \in DOMAIN conf' \ DOMAIN conf : s \in DOMAIN pool
    BY <1>1, <1>6, <2>1, WorkSites
  <2> QED  BY <2>1, <2>2 DEF SitesFollow
<1> QED  BY <1>1, <1>3, <1>4, <1>5, <1>6 DEF FollowInv, Past

LEMMA ReloadFollow ==
    ASSUME IInv, FollowInv, Reloading
    PROVE  FollowInv'
<1>1. TypeInv /\ ReloadType /\ UserInv  BY DEF IInv, TypeInv
<1>2. ASSUME NEW d \in Files, Reload(d) PROVE FollowInv'
  <2>1. errors' = Empty /\ reload'.at = "errors"
    BY <1>1, <1>2 DEF Reload, ReloadType
  <2> QED  BY <2>1, EmptyFacts DEF FollowInv, Past
<1>3. CASE ReadErrors
  <2>1. reload.at = "errors" /\ UNCHANGED disk
        /\ \A c \in DOMAIN errors : errors[c] = ""
    BY <1>3 DEF ReadErrors, FollowInv
  <2>2. CASE disk.errors = Missing
    <3>1. reload'.at = "idle" /\ ~reload'.ok  BY <1>1, <1>3, <2>2 DEF ReadErrors, Stop, ReloadType
    <3> QED  BY <3>1 DEF FollowInv, Past
  <2>3. CASE disk.errors # Missing
    <3>1. reload'.at = "details"  BY <1>1, <1>3, <2>3 DEF ReadErrors, Step, ReloadType
    <3>2. PICK texts : texts = Table(disk.errors) /\ texts = Table(disk.errors)'  BY <2>1
    <3>3. errors' = Over(texts, errors)  BY <1>3, <2>3, <3>2 DEF ReadErrors
    <3>4. /\ \A c \in DOMAIN errors' : errors'[c] = IF c \in DOMAIN texts THEN texts[c] ELSE ""
          /\ DOMAIN texts \subseteq DOMAIN errors'
      BY <2>1, <3>3 DEF Over
    <3> QED  BY <3>1, <3>2, <3>4 DEF FollowInv, Past, ErrorsFollow
  <2> QED  BY <2>2, <2>3
<1>4. CASE ReadDetails
  <2>1. reload.at = "details" /\ UNCHANGED <<errors, disk>> /\ ErrorsFollow(Table(disk.errors))
    BY <1>4 DEF ReadDetails, FollowInv, Past
  <2>2. \/ reload'.at = "idle" /\ ~reload'.ok
        \/ reload'.at = "hasite" /\ details' = disk.details
    BY <1>1, <1>4 DEF ReadDetails, Stop, Step, ReloadType
  <2> QED  BY <2>1, <2>2 DEF FollowInv, Past, ErrorsFollow
<1>5. CASE ReloadHasite
  <2>1. /\ reload.at = "hasite" /\ UNCHANGED <<errors, details, disk>> /\ ErrorsFollow(Table(disk.errors))
        /\ details = disk.details /\ hasite' = HasiteConf(Empty, disk.hasite).tbl
    BY <1>5 DEF ReloadHasite, FollowInv, Past
  <2>2. \/ reload'.at = "idle" /\ ~reload'.ok
        \/ reload'.at = "wlock"
    BY <1>1, <1>5 DEF ReloadHasite, Stop, Step, ReloadType
  <2>3. HasiteFollows(HasiteConf(Empty, disk.hasite).tbl)'
    <3>1. PICK idcs : /\ idcs = HasiteConf(Empty, disk.hasite).tbl /\ idcs = hasite'
                      /\ idcs = HasiteConf(Empty, disk.hasite).tbl'
      BY <2>1
    <3>2. HasiteType'  BY <1>5, ReloadTypes, <1>1 DEF Reloading, TypeInv
    <3>3. \A v \in DOMAIN idcs : idcs[v] = [f \in {"order", "nodes", "cur"} |-> idcs[v][f]]
      BY <3>1, <3>2 DEF HasiteType, ServerInfo
    <3>4. ASSUME NEW x, x = [f \in {"order", "nodes", "cur"} |-> x[f]] PROVE [x EXCEPT !.cur = x.cur] = x
      BY <3>4
    <3>5. \A v \in DOMAIN idcs : [idcs[v] EXCEPT !.cur = idcs[v].cur] = idcs[v]  BY <3>3, <3>4
    <3> QED  BY <3>1, <3>5 DEF HasiteFollows
  <2> QED  BY <2>1, <2>2, <2>3 DEF FollowInv, Past, ErrorsFollow
<1>6. CASE ReInit \/ ClearSites
  <2>1. /\ \/ reload.at = "wlock" /\ reload'.at = "clear"
           \/ reload.at = "clear" /\ reload'.at = "read"
        /\ UNCHANGED <<errors, details, hasite, disk>>
    BY <1>1, <1>6 DEF ReInit, ClearSites, Step, ReloadType, tables
  <2> QED  BY <2>1 DEF FollowInv, Past, ErrorsFollow, HasiteFollows
<1>7. CASE ReadSites
  <2>1. /\ reload.at = "read" /\ UNCHANGED <<errors, details, hasite, disk>>
        /\ reload'.broke = reload.broke
        /\ conf' = IF disk.core = Missing THEN conf ELSE Over(Table(disk.core), conf)
        /\ reload'.at = (IF disk.core = Missing THEN "fail" ELSE "grow") /\ reload'.site = -1
    BY <1>1, <1>7 DEF ReadSites, ReloadType
  <2>2. CASE disk.core = Missing
    BY <2>1, <2>2 DEF FollowInv, Past
  <2>3. CASE disk.core # Missing
    <3>1. PICK sites : sites = Table(disk.core) /\ sites = Table(disk.core)'  BY <2>1
    <3>2. ASSUME reload.broke = 0
          PROVE  SitesFollow(Table(disk.core))' /\ \A s \in DOMAIN conf' : ~(s <= reload'.site)
      <4>1. DOMAIN conf = {}  BY <1>1, <2>1, <3>2 DEF UserInv
      <4>2. conf' = Over(sites, conf)  BY <2>1, <2>3, <3>1
      <4>3. DOMAIN conf' = DOMAIN sites /\ \A s \in DOMAIN sites : conf'[s] = sites[s]
        BY <4>1, <4>2 DEF Over
      <4>4. ConfType'  BY <1>1, <1>7, ReloadTypes DEF Reloading, TypeInv
      <4>5. \A s \in Nat : ~(s <= -1)  OBVIOUS
      <4> QED  BY <2>1, <3>1, <4>3, <4>4, <4>5 DEF SitesFollow, ConfType
    <3> QED  BY <2>1, <2>3, <3>2 DEF FollowInv, Past, ErrorsFollow, HasiteFollows
  <2> QED  BY <2>2, <2>3
<1>8. CASE Grow
  <2>1. /\ reload.at = "grow" /\ reload'.at = "grow" /\ reload'.broke = reload.broke
        /\ UNCHANGED <<errors, details, hasite, conf, disk>>
    BY <1>1, <1>8 DEF Grow, ReloadType
  <2>2. PICK s \in DOMAIN conf :
           /\ DOMAIN pool' = DOMAIN pool \cup {s} /\ reload' = [reload EXCEPT !.site = s]
           /\ \A x \in Ahead : s <= x
    BY <1>1, <1>8, GrowFacts
  <2>3. reload'.site = s  BY <1>1, <2>2 DEF ReloadType
  <2>4. ASSUME reload.broke = 0, NEW x \in DOMAIN conf, x <= s
        PROVE  x \in DOMAIN pool'
    <3>1. x \in Nat /\ s \in Nat /\ reload.site \in Int
      BY <1>1 DEF TypeInv, ConfType, ReloadType
    <3>2. CASE x <= reload.site
      BY <2>1, <2>2, <2>4, <3>2 DEF FollowInv
    <3>3. CASE x > reload.site
      <4>1. s <= x  BY <2>2, <3>3 DEF Ahead
      <4>2. s = x  BY <2>4, <3>1, <4>1
      <4> QED  BY <2>2, <4>2
    <3> QED  BY <3>1, <3>2, <3>3
  <2> QED  BY <2>1, <2>3, <2>4 DEF FollowInv, Past, ErrorsFollow, HasiteFollows, SitesFollow
<1>9. CASE GiveBack
  <2>1. /\ UNCHANGED <<errors, details, hasite, conf, pool, disk>>
        /\ reload'.at = "idle" /\ reload'.ok = (reload.at = "grow")
        /\ reload.at = "fail" \/ (reload.at = "grow" /\ Ahead = {})
        /\ reload'.broke = reload.broke + 1
    BY <1>1, <1>9 DEF GiveBack, ReloadType, tables
  <2>2. CASE reload.at = "fail"  BY <2>1, <2>2 DEF FollowInv, Past
  <2>3. CASE reload.at = "grow"
    <3>1. Ahead = {}  BY <2>1, <2>3
    <3>2. ASSUME reload'.broke <= 1
          PROVE  SitesFollow(Table(disk.core)) /\ DOMAIN Table(disk.core) \subseteq DOMAIN pool
      <4>1. PICK n \in Nat : n = reload.broke  BY <1>1 DEF ReloadType
      <4>2. n + 1 <= 1  BY <2>1, <3>2, <4>1
      <4>3. n = 0  BY <4>2
      <4>4. SitesFollow(Table(disk.core)) /\ \A s \in DOMAIN conf : s <= reload.site => s \in DOMAIN pool
        BY <2>3, <4>1, <4>3 DEF FollowInv
      <4>5. \A s \in DOMAIN conf : ~(s > reload.site)  BY <3>1 DEF Ahead
      <4>6. \A s \in DOMAIN conf : s \in Nat  BY <1>1 DEF TypeInv, ConfType
      <4>7. reload.site \in Int  BY <1>1 DEF ReloadType
      <4>8. \A s \in DOMAIN conf : s \in DOMAIN pool  BY <4>4, <4>5, <4>6, <4>7
      <4> QED  BY <4>4, <4>8 DEF SitesFollow
    <3> QED  BY <2>1, <2>3, <3>2 DEF FollowInv, Past, ErrorsFollow, HasiteFollows, SitesFollow
  <2> QED  BY <2>1, <2>2, <2>3
<1> QED  BY <1>2, <1>3, <1>4, <1>5, <1>6, <1>7, <1>8, <1>9 DEF Reloading

LEMMA InitFollow == Init => FollowInv
<1> SUFFICES ASSUME Init PROVE FollowInv
  OBVIOUS
<1>1. IInv  BY InitIInv
<1>2. /\ errors = Table(disk.errors) /\ details = disk.details
      /\ hasite = HasiteConf(Empty, disk.hasite).tbl /\ conf = Table(disk.core)
      /\ reload.at = "idle" /\ DOMAIN pool = DOMAIN conf
  BY DEF Init
<1>3. HasiteFollows(hasite)
  <2>1. \A v \in DOMAIN hasite : hasite[v] = [f \in {"order", "nodes", "cur"} |-> hasite[v][f]]
    BY <1>1 DEF IInv, TypeInv, HasiteType, ServerInfo
  <2>2. ASSUME NEW x, x = [f \in {"order", "nodes", "cur"} |-> x[f]] PROVE [x EXCEPT !.cur = x.cur] = x
    BY <2>2
  <2>3. \A v \in DOMAIN hasite : [hasite[v] EXCEPT !.cur = hasite[v].cur] = hasite[v]  BY <2>1, <2>2
  <2> QED  BY <2>3 DEF HasiteFollows
<1>4. ErrorsFollow(errors) /\ SitesFollow(conf)
  BY DEF ErrorsFollow, SitesFollow
<1> QED  BY <1>2, <1>3, <1>4 DEF FollowInv, Past

LEMMA FollowSites == FollowInv => SitesFollowFiles
<1> SUFFICES ASSUME FollowInv, reload.at = "idle", reload.ok, reload.broke <= 1
             PROVE  SitesFollowFiles
  BY DEF SitesFollowFiles
<1>1. /\ ErrorsFollow(Table(disk.errors)) /\ details = disk.details
      /\ HasiteFollows(HasiteConf(Empty, disk.hasite).tbl)
      /\ SitesFollow(Table(disk.core)) /\ DOMAIN Table(disk.core) \subseteq DOMAIN pool
  BY DEF FollowInv, Past
<1>2. PICK idcs : idcs = HasiteConf(Empty, disk.hasite).tbl  OBVIOUS
<1>3. \E i \in {HasiteConf(Empty, disk.hasite).tbl} :
         /\ DOMAIN i \subseteq DOMAIN hasite
         /\ \A v \in DOMAIN hasite :
               IF v \in DOMAIN i THEN [hasite[v] EXCEPT !.cur = i[v].cur] = i[v]
               ELSE hasite[v] = NoServer
  BY <1>1, <1>2 DEF HasiteFollows
<1> QED  BY <1>1, <1>3 DEF SitesFollowFiles, ErrorsFollow, SitesFollow

LEMMA SpecFollow == Spec => []FollowInv
<1>1. IInv /\ FollowInv /\ [Next]_vars => FollowInv'
  <2> SUFFICES ASSUME IInv, FollowInv, [Next]_vars PROVE FollowInv'
    OBVIOUS
  <2>1. CASE Reloading  BY <2>1, ReloadFollow
  <2>2. ASSUME NEW w \in Worker, Work(w) PROVE FollowInv'  BY <2>2, WorkFollow
  <2>3. CASE UNCHANGED vars
    BY <2>3 DEF vars, tables, FollowInv, Past, ErrorsFollow, HasiteFollows, SitesFollow
  <2> QED  BY <2>1, <2>2, <2>3 DEF Next
<1> QED  BY <1>1, InitFollow, SpecIInv, PTL DEF Spec

-----------------------------------------------------------------------------
(* What the table of errors was, and what a client is told.                 *)

(* The table was something from the start, and is now what it was last. *)
HistoryOf(q, tbl) ==
    /\ q \in Seq({q[i] : i \in DOMAIN q}) /\ Len(q) \in Nat /\ Len(q) >= 1
    /\ q[Len(q)] = tbl

(* Whose code was not to go out as it is had that from a table since the job began; what is
   told is from one of those tables, or there were several.                  *)
Marked(tbl, c) == c \in DOMAIN tbl /\ tbl[c] = "NO_ESCAPE"
CodeIn(j) == get_call_result(j.answer)
ToldFrom(j, q) ==
    \/ \E i \in j.from..Len(q) : j.text = Says(q[i], CodeIn(j))
    \/ /\ j.from < Len(q)
       /\ \E i \in j.from..Len(q) : CodeIn(j) \in DOMAIN q[i] /\ j.text \in {"", q[i][CodeIn(j)]}
Tells(j, q) ==
    j.at \in Telling =>
       /\ j.from \in 1..Len(q)
       /\ j.at \in {"escaped", "text"} => \E i \in j.from..Len(q) : ~Marked(q[i], CodeIn(j))
       /\ j.at = "told" /\ CodeIn(j) # 0 => ToldFrom(j, q)
SeenInv == HistoryOf(seen, errors) /\ \A w \in Worker : Tells(job[w], seen)

Longer(q, p) ==
    /\ Len(q) \in Nat /\ Len(p) \in Nat /\ Len(q) <= Len(p)
    /\ \A i \in 1..Len(q) : p[i] = q[i]
SeenGrows == HistoryOf(seen', errors') /\ Longer(seen, seen')

LEMMA SeenSame ==
    ASSUME HistoryOf(seen, errors), UNCHANGED <<seen, errors>>
    PROVE  SeenGrows
BY DEF HistoryOf, SeenGrows, Longer

LEMMA SeenMore ==
    ASSUME HistoryOf(seen, errors), Seen
    PROVE  SeenGrows
<1> DEFINE S == {seen[i] : i \in DOMAIN seen} \cup {errors'}
<1>1. seen \in Seq(S)
  <2>1. seen \in Seq({seen[i] : i \in DOMAIN seen}) /\ Len(seen) \in Nat  BY DEF HistoryOf
  <2>2. DOMAIN seen = 1..Len(seen)  BY <2>1
  <2>3. \A i \in 1..Len(seen) : seen[i] \in S  BY <2>2
  <2>4. seen = [i \in 1..Len(seen) |-> seen[i]]  BY <2>1, <2>2
  <2> HIDE DEF S
  <2> QED  BY <2>1, <2>2, <2>3, <2>4
<1>2. errors' \in S  OBVIOUS
<1>3. seen' = Append(seen, errors')  BY DEF Seen
<1> HIDE DEF S
<1>4. /\ seen' \in Seq(S) /\ Len(seen) \in Nat /\ Len(seen') = Len(seen) + 1
      /\ seen'[Len(seen) + 1] = errors' /\ \A i \in 1..Len(seen) : seen'[i] = seen[i]
  BY <1>1, <1>2, <1>3
<1>5. DOMAIN seen' = 1..Len(seen') /\ Len(seen') \in Nat  BY <1>4
<1>6. seen' \in Seq({seen'[i] : i \in DOMAIN seen'})
  <2> DEFINE R == {seen'[i] : i \in DOMAIN seen'}
  <2>1. \A i \in 1..Len(seen') : seen'[i] \in R  BY <1>5
  <2>2. seen' = [i \in 1..Len(seen') |-> seen'[i]]  BY <1>4, <1>5
  <2> HIDE DEF R
  <2>3. seen' \in Seq(R)  BY <1>5, <2>1, <2>2
  <2> QED  BY <2>3 DEF R
<1>7. HistoryOf(seen', errors')  BY <1>4, <1>5, <1>6 DEF HistoryOf
<1>8. Longer(seen, seen')  BY <1>4, <1>5 DEF Longer
<1> QED  BY <1>7, <1>8 DEF SeenGrows

(* What was told stays right. *)
LEMMA TellsLonger ==
    ASSUME NEW j, NEW q, NEW p, Longer(q, p), Tells(j, q)
    PROVE  Tells(j, p)
<1> SUFFICES ASSUME j.at \in Telling PROVE Tells(j, p)
  BY DEF Tells
<1>1. PICK m \in Nat, n \in Nat : m = Len(q) /\ n = Len(p) /\ m <= n  BY DEF Longer
<1>2. PICK b : b = j.from /\ b \in 1..m  BY <1>1 DEF Tells
<1>3. b \in 1..n /\ b \in Int  BY <1>1, <1>2
<1>4. \A i \in b..m : i \in b..n /\ p[i] = q[i]
  <2>1. \A i \in b..m : i \in 1..m /\ i \in b..n  BY <1>1, <1>2
  <2>2. \A i \in 1..m : p[i] = q[i]  BY <1>1 DEF Longer
  <2> QED  BY <2>1, <2>2
<1>5. ASSUME j.at \in {"escaped", "text"} PROVE \E i \in b..n : ~Marked(p[i], CodeIn(j))
  <2>1. PICK i \in b..m : ~Marked(q[i], CodeIn(j))  BY <1>1, <1>2, <1>5 DEF Tells
  <2> QED  BY <1>4, <2>1
<1>6. ASSUME j.at = "told", CodeIn(j) # 0 PROVE ToldFrom(j, p)
  <2>1. ToldFrom(j, q)  BY <1>6 DEF Tells
  <2>2. CASE \E i \in j.from..Len(q) : j.text = Says(q[i], CodeIn(j))
    <3>1. PICK i \in b..m : j.text = Says(q[i], CodeIn(j))  BY <1>1, <1>2, <2>2
    <3>2. i \in b..n /\ p[i] = q[i]  BY <1>4
    <3>3. j.text = Says(p[i], CodeIn(j))  BY <3>1, <3>2
    <3> QED  BY <1>1, <1>2, <3>2, <3>3 DEF ToldFrom
  <2>3. CASE /\ j.from < Len(q)
             /\ \E i \in j.from..Len(q) : CodeIn(j) \in DOMAIN q[i] /\ j.text \in {"", q[i][CodeIn(j)]}
    <3>1. PICK i \in b..m : CodeIn(j) \in DOMAIN q[i] /\ j.text \in {"", q[i][CodeIn(j)]}
      BY <1>1, <1>2, <2>3
    <3>2. i \in b..n /\ CodeIn(j) \in DOMAIN p[i] /\ j.text \in {"", p[i][CodeIn(j)]}
      BY <1>4, <3>1
    <3>3. b < m  BY <1>1, <1>2, <2>3, Zenon
    <3>4. b < n  BY <1>1, <1>3, <3>3
    <3> QED  BY <1>1, <1>2, <3>2, <3>4 DEF ToldFrom
  <2> QED  BY <2>1, <2>2, <2>3 DEF ToldFrom
<1> QED  BY <1>1, <1>2, <1>3, <1>5, <1>6 DEF Tells

(* The three looks of encode, and the text of the last. *)
LEMMA GotoTells ==
    ASSUME JobType, NEW w \in Worker, NEW p, Goto(w, p)
    PROVE  job'[w].at = p /\ job'[w].from = job[w].from /\ job'[w].answer = job[w].answer
BY DEF JobType, Goto, Fields

LEMMA TextTells ==
    ASSUME JobType, NEW w \in Worker, NEW t, job' = [job EXCEPT ![w].at = "told", ![w].text = t]
    PROVE  /\ job'[w].at = "told" /\ job'[w].text = t
           /\ job'[w].from = job[w].from /\ job'[w].answer = job[w].answer
BY DEF JobType, Fields

LEMMA EncodeTells ==
    ASSUME TypeInv, SeenInv, NEW w \in Worker, IsOriginal(w) \/ IsEscaped(w) \/ EscapedText(w)
    PROVE  SeenGrows /\ Tells(job'[w], seen')
<1>1. HistoryOf(seen, errors) /\ Tells(job[w], seen) /\ JobType  BY DEF SeenInv, TypeInv
<1>2. job[w].at \in {"original", "escaped", "text"} /\ job[w].at \in Telling
  BY DEF IsOriginal, IsEscaped, EscapedText, Telling
<1>3. SeenGrows
  <2>1. CASE IsOriginal(w) \/ IsEscaped(w)
    <3>1. UNCHANGED <<seen, errors>>  BY <2>1 DEF IsOriginal, IsEscaped, OnlyJob, tables
    <3> QED  BY <1>1, <3>1, SeenSame
  <2>2. CASE EscapedText(w)
    <3>1. Seen \/ UNCHANGED <<seen, errors>>  BY <2>2 DEF EscapedText
    <3> QED  BY <1>1, <3>1, SeenSame, SeenMore
  <2> QED  BY <2>1, <2>2
<1>4. PICK c, b : c = CodeOf(w) /\ b = job[w].from  OBVIOUS
<1>5. PICK m \in Nat, n \in Nat :
         /\ m = Len(seen) /\ n = Len(seen') /\ m <= n /\ m >= 1 /\ b \in 1..m
         /\ seen[m] = errors /\ seen'[n] = errors' /\ \A i \in 1..m : seen'[i] = seen[i]
  BY <1>1, <1>2, <1>3, <1>4 DEF SeenGrows, Longer, HistoryOf, Tells
<1>6. b \in 1..n /\ m \in b..n /\ n \in b..n /\ seen'[m] = errors  BY <1>5
<1>7. CASE IsOriginal(w) /\ Marked(errors, c)
  <2>1. job' = [job EXCEPT ![w].at = "told", ![w].text = ""]
    BY <1>4, <1>7 DEF IsOriginal, Marked
  <2>2. /\ job'[w].at = "told" /\ job'[w].text = "" /\ job'[w].from = b /\ CodeIn(job'[w]) = c
    BY <1>1, <1>4, <2>1, TextTells DEF CodeIn, CodeOf
  <2>3. Says(seen'[m], c) = ""  BY <1>6, <1>7 DEF Says, Marked
  <2>4. ToldFrom(job'[w], seen')  BY <1>5, <1>6, <2>2, <2>3 DEF ToldFrom
  <2> QED  BY <1>3, <1>5, <1>6, <2>2, <2>4 DEF Tells
<1>8. CASE IsOriginal(w) /\ ~Marked(errors, c)
  <2>1. Goto(w, "escaped")  BY <1>4, <1>8 DEF IsOriginal, Marked
  <2>2. /\ job'[w].at = "escaped" /\ job'[w].from = b /\ CodeIn(job'[w]) = c
    BY <1>1, <1>4, <2>1, GotoTells DEF CodeIn, CodeOf
  <2>3. ~Marked(seen'[m], c)  BY <1>5, <1>8
  <2> QED  BY <1>3, <1>5, <1>6, <2>2, <2>3 DEF Tells
<1>9. CASE IsEscaped(w) /\ c \in DOMAIN errors
  <2>1. Goto(w, "text") /\ job[w].at = "escaped"  BY <1>4, <1>9 DEF IsEscaped
  <2>2. /\ job'[w].at = "text" /\ job'[w].from = b /\ CodeIn(job'[w]) = c
    BY <1>1, <1>4, <2>1, GotoTells DEF CodeIn, CodeOf
  <2>3. PICK i \in b..m : ~Marked(seen[i], c)
    BY <1>1, <1>2, <1>4, <1>5, <2>1 DEF Tells, CodeIn, CodeOf
  <2>4. i \in b..n /\ seen'[i] = seen[i]  BY <1>5, <1>6
  <2>5. ~Marked(seen'[i], c)  BY <2>3, <2>4
  <2> QED  BY <1>3, <1>5, <1>6, <2>2, <2>4, <2>5 DEF Tells
<1>10. CASE IsEscaped(w) /\ c \notin DOMAIN errors
  <2>1. job' = [job EXCEPT ![w].at = "told", ![w].text = "own"]
    BY <1>4, <1>10 DEF IsEscaped
  <2>2. /\ job'[w].at = "told" /\ job'[w].text = "own" /\ job'[w].from = b /\ CodeIn(job'[w]) = c
    BY <1>1, <1>4, <2>1, TextTells DEF CodeIn, CodeOf
  <2>3. Says(seen'[m], c) = "own"  BY <1>6, <1>10 DEF Says
  <2>4. ToldFrom(job'[w], seen')  BY <1>5, <1>6, <2>2, <2>3 DEF ToldFrom
  <2> QED  BY <1>3, <1>5, <1>6, <2>2, <2>4 DEF Tells
<1>11. CASE EscapedText(w)
  <2>1. job[w].at = "text" /\ errors' = With(errors, c, "")
        /\ job' = [job EXCEPT ![w].at = "told", ![w].text = errors'[c]]
    BY <1>4, <1>11 DEF EscapedText
  <2>2. /\ job'[w].at = "told" /\ job'[w].text = errors'[c] /\ job'[w].from = b /\ CodeIn(job'[w]) = c
    BY <1>1, <1>4, <2>1, TextTells DEF CodeIn, CodeOf
  <2>3. c \in DOMAIN seen'[n] /\ job'[w].text = seen'[n][c]
    BY <1>5, <2>1, <2>2 DEF With
  <2>4. CASE Marked(errors', c)
    <3>1. PICK i \in b..m : ~Marked(seen[i], c)
      BY <1>1, <1>2, <1>4, <1>5, <2>1 DEF Tells, CodeIn, CodeOf
    <3>2. i \in b..n /\ seen'[i] = seen[i] /\ i \in Int /\ b \in Int  BY <1>5, <1>6
    <3>3. i # n  BY <1>5, <2>4, <3>1, <3>2
    <3>4. b < n  BY <1>5, <1>6, <3>2, <3>3
    <3> QED  BY <1>3, <1>5, <1>6, <2>2, <2>3, <3>4 DEF Tells, ToldFrom
  <2>5. CASE ~Marked(errors', c)
    <3>1. Says(seen'[n], c) = job'[w].text
      BY <1>5, <2>3, <2>5 DEF Says, Marked
    <3>2. ToldFrom(job'[w], seen')  BY <1>5, <1>6, <2>2, <3>1 DEF ToldFrom
    <3> QED  BY <1>3, <1>5, <1>6, <2>2, <3>2 DEF Tells
  <2> QED  BY <2>4, <2>5
<1> QED  BY <1>7, <1>8, <1>9, <1>10, <1>11

(* The other steps of a thread leave the table alone; only Tell begins to tell. *)
LEMMA OtherTells ==
    ASSUME TypeInv, SeenInv, NEW w \in Worker, Work(w),
           ~(IsOriginal(w) \/ IsEscaped(w) \/ EscapedText(w))
    PROVE  SeenGrows /\ Tells(job'[w], seen')
<1> USE DEF InLock, Asking
<1>1. HistoryOf(seen, errors) /\ JobType  BY DEF SeenInv, TypeInv
<1>2. UNCHANGED <<seen, errors>>
  <2>1. CASE Call(w) \/ Fail(w) \/ Tell(w)
    BY <2>1 DEF Call, Fail, Tell, Begin, tables
  <2>2. CASE GetApi(w) \/ Find(w) \/ Get(w) \/ Swap(w) \/ CurrentIdc(w) \/ Node(w) \/ Release(w)
    BY <2>2 DEF GetApi, Find, Get, Swap, CurrentIdc, Node, Release, tables
  <2>3. CASE ServerName(w) \/ Decide(w) \/ SetSwitchOn(w) \/ Told(w)
    BY <2>3 DEF ServerName, Decide, SetSwitchOn, Told, OnlyJob, tables
  <2> QED  BY <2>1, <2>2, <2>3 DEF Work
<1>3. SeenGrows  BY <1>1, <1>2, SeenSame
<1>4. CASE Tell(w)
  <2>1. PICK a \in Answers :
           Begin(w, [Idle EXCEPT !.at = IF get_call_result(a) = 0 THEN "told" ELSE "original",
                                 !.answer = a, !.full = a.type \in details,
                                 !.from = Len(seen)])
    BY <1>4 DEF Tell
  <2> DEFINE p == IF get_call_result(a) = 0 THEN "told" ELSE "original"
             n == Len(seen)
             d == a.type \in details
             new == [Idle EXCEPT !.at = p, !.answer = a, !.full = d, !.from = n]
  <2>2. job' = [job EXCEPT ![w] = new]  BY <2>1 DEF Begin
  <2>3. p \in {"told", "original"} /\ (p = "told" => get_call_result(a) = 0)  OBVIOUS
  <2>4. n \in 1..n  BY <1>1 DEF HistoryOf
  <2> HIDE DEF p, n, d
  <2>5. new.at = p /\ new.answer = a /\ new.from = n  BY DEF Idle
  <2> HIDE DEF new
  <2>6. job'[w] = new  BY <1>1, <2>2 DEF JobType
  <2>7. Tells(job'[w], seen)  BY <2>3, <2>4, <2>5, <2>6 DEF Tells, CodeIn, n
  <2> QED  BY <1>2, <1>3, <2>7
<1>5. ASSUME job'[w].at \notin Telling PROVE SeenGrows /\ Tells(job'[w], seen')
  BY <1>3, <1>5 DEF Tells
<1>6. CASE Call(w)
  <2>1. PICK s \in Site : Begin(w, [Idle EXCEPT !.at = "rlock", !.site = s, !.from = Len(seen)])
    BY <1>6 DEF Call
  <2> DEFINE new == [Idle EXCEPT !.at = "rlock", !.site = s, !.from = Len(seen)]
  <2>2. DOMAIN new = Fields /\ new.at = "rlock"  BY DEF Idle, Fields
  <2> HIDE DEF new
  <2>3. job'[w].at = "rlock"  BY <1>1, <2>1, <2>2, BeginMoves DEF new, Stages
  <2> QED  BY <1>5, <2>3 DEF Telling
<1>7. CASE Fail(w)
  <2>1. PICK s \in Site : Begin(w, [Idle EXCEPT !.at = "server", !.site = s])
    BY <1>7 DEF Fail
  <2> DEFINE new == [Idle EXCEPT !.at = "server", !.site = s]
  <2>2. DOMAIN new = Fields /\ new.at = "server"  BY DEF Idle, Fields
  <2> HIDE DEF new
  <2>3. job'[w].at = "server"  BY <1>1, <2>1, <2>2, BeginMoves DEF new, Stages
  <2> QED  BY <1>5, <2>3 DEF Telling
<1>8. ASSUME NEW p, p \notin Telling, Goto(w, p) PROVE job'[w].at \notin Telling
  BY <1>1, <1>8, GotoTells
<1>9. ASSUME End(w) PROVE job'[w].at \notin Telling
  <2>1. job'[w].at = "idle"  BY <1>1, <1>9, EndEnds DEF Ends
  <2> QED  BY <2>1 DEF Telling
<1>10. ASSUME NEW p \in {"get", "next"}, NEW u, job' = [job EXCEPT ![w].at = p, ![w].user = u]
       PROVE  job'[w].at \notin Telling
  <2>1. job'[w].at = p  BY <1>1, <1>10, UserMoves DEF Stages
  <2> QED  BY <2>1 DEF Telling
<1>11. CASE GetApi(w) \/ Get(w) \/ Swap(w) \/ CurrentIdc(w) \/ Node(w)
  <2>1. \E p \in {"find", "unlock", "idc", "swap", "node"} : Goto(w, p)
    BY <1>11 DEF GetApi, Get, Swap, CurrentIdc, Node
  <2>2. PICK p \in {"find", "unlock", "idc", "swap", "node"} : Goto(w, p)  BY <2>1
  <2>3. p \notin Telling  BY DEF Telling
  <2> QED  BY <1>5, <1>8, <2>2, <2>3
<1>12. CASE Find(w)
  <2>1. \/ \E u : job' = [job EXCEPT ![w].at = "get", ![w].user = u]
        \/ Goto(w, "unlock")
    BY <1>12 DEF Find
  <2>2. "unlock" \notin Telling  BY DEF Telling
  <2> QED  BY <1>5, <1>8, <1>10, <2>1, <2>2
<1>13. CASE ServerName(w)
  <2>1. End(w) \/ \E u : job' = [job EXCEPT ![w].at = "next", ![w].user = u]
    BY <1>13 DEF ServerName
  <2> QED  BY <1>5, <1>9, <1>10, <2>1
<1>14. CASE Decide(w)
  <2>1. End(w) \/ Goto(w, "seton")  BY <1>14 DEF Decide
  <2>2. "seton" \notin Telling  BY DEF Telling
  <2> QED  BY <1>5, <1>8, <1>9, <2>1, <2>2
<1>15. CASE Release(w) \/ SetSwitchOn(w) \/ Told(w)
  <2>1. End(w)  BY <1>15 DEF Release, SetSwitchOn, Told
  <2> QED  BY <1>5, <1>9, <2>1
<1> QED
  BY <1>4, <1>6, <1>7, <1>11, <1>12, <1>13, <1>14, <1>15 DEF Work

LEMMA ReloadSeen ==
    ASSUME SeenInv, Reloading
    PROVE  SeenGrows /\ UNCHANGED job
<1>1. HistoryOf(seen, errors)  BY DEF SeenInv
<1>2. (Seen \/ UNCHANGED <<seen, errors>>) /\ UNCHANGED job
  <2>1. ASSUME NEW d \in Files, Reload(d) PROVE Seen /\ UNCHANGED job
    BY <2>1 DEF Reload, NoWorker
  <2>2. CASE ReadErrors  BY <2>2 DEF ReadErrors, NoWorker
  <2>3. CASE ReadDetails \/ ReloadHasite \/ ReInit \/ ClearSites
    BY <2>3 DEF ReadDetails, ReloadHasite, ReInit, ClearSites, NoWorker, tables
  <2>4. CASE ReadSites \/ Grow \/ GiveBack
    BY <2>4 DEF ReadSites, Grow, GiveBack, NoWorker, tables
  <2> QED  BY <2>1, <2>2, <2>3, <2>4 DEF Reloading
<1> QED  BY <1>1, <1>2, SeenSame, SeenMore

LEMMA InitSeen == Init => SeenInv
<1> SUFFICES ASSUME Init PROVE SeenInv
  OBVIOUS
<1>1. seen = <<errors>> /\ job = [w \in Worker |-> Idle]  BY DEF Init
<1>2. HistoryOf(seen, errors)
  <2>1. Len(seen) = 1 /\ seen[1] = errors /\ DOMAIN seen = 1..1  BY <1>1
  <2>2. seen \in Seq({errors})  BY <1>1
  <2>3. {seen[i] : i \in DOMAIN seen} = {errors}  BY <2>1
  <2> QED  BY <2>1, <2>2, <2>3 DEF HistoryOf
<1>3. \A w \in Worker : job[w].at = "idle"  BY <1>1 DEF Idle
<1> QED  BY <1>2, <1>3 DEF SeenInv, Tells, Telling

LEMMA SpecSeen == Spec => []SeenInv
<1>1. IInv /\ SeenInv /\ [Next]_vars => SeenInv'
  <2> SUFFICES ASSUME IInv, SeenInv, [Next]_vars PROVE SeenInv'
    OBVIOUS
  <2>1. ASSUME SeenGrows, NEW v \in Worker, job'[v] = job[v] PROVE Tells(job'[v], seen')
    BY <2>1, TellsLonger DEF SeenGrows, SeenInv
  <2>2. CASE Reloading
    BY <2>1, <2>2, ReloadSeen DEF SeenInv, SeenGrows
  <2>3. ASSUME NEW w \in Worker, Work(w) PROVE SeenInv'
    <3>1. Others(w)  BY <2>3, WorkTurns DEF IInv, Turns
    <3>2. SeenGrows /\ Tells(job'[w], seen')
      BY <2>3, EncodeTells, OtherTells DEF IInv
    <3>3. \A v \in Worker : Tells(job'[v], seen')
      BY <2>1, <3>1, <3>2 DEF Others
    <3> QED  BY <3>2, <3>3 DEF SeenInv, SeenGrows
  <2>4. CASE UNCHANGED vars
    BY <2>4 DEF vars, tables, SeenInv
  <2> QED  BY <2>2, <2>3, <2>4 DEF Next
<1> QED  BY <1>1, InitSeen, SpecIInv, PTL DEF Spec

LEMMA SeenTold == SeenInv => ToldRight
<1> SUFFICES ASSUME SeenInv, NEW w \in Worker, job[w].at = "told", CodeOf(w) # 0
             PROVE  LET span == job[w].from..Len(seen) c == CodeOf(w) IN
                    \/ \E i \in span : job[w].text = Says(seen[i], c)
                    \/ Cardinality(span) > 1 /\ \E i \in span :
                          /\ c \in DOMAIN seen[i] /\ job[w].text \in {"", seen[i][c]}
  BY DEF ToldRight
<1>1. CodeIn(job[w]) = CodeOf(w)  BY DEF CodeIn, CodeOf
<1>2. /\ job[w].from \in 1..Len(seen) /\ ToldFrom(job[w], seen) /\ Len(seen) \in Nat
  BY <1>1 DEF SeenInv, Tells, HistoryOf, Telling
<1>3. ASSUME job[w].from < Len(seen) PROVE Cardinality(job[w].from..Len(seen)) > 1
  <2>1. PICK m \in Int, n \in Int : m = job[w].from /\ n = Len(seen)  BY <1>2
  <2>2. m < n  BY <1>3, <2>1, Zenon
  <2>3. Cardinality(m..n) = n - m + 1 /\ n - m + 1 > 1  BY <2>2, FS_Interval
  <2> QED  BY <2>1, <2>3, Zenon
<1> QED  BY <1>1, <1>2, <1>3 DEF ToldFrom

-----------------------------------------------------------------------------
(* The first re_init works under its lock, and no call logs in with a blank user before it
   has ended; every later one finds the count too low (core_server_conf.cpp:204). *)
THEOREM KeepsLocks == Spec => []LockKept
BY SpecIInv, IInvLock, PTL

(* No server leaves an IDC but for a switch that was asked for, one for each site that is
   over its threshold (switch_mgr.cpp:193).                                  *)
THEOREM MovesWhenAsked == Spec => []MovesAsked
BY SpecIInv, IInvMoves, PTL

(* After a reload that read every file, as long as re_init has given its lock back once at
   most, the tables of errors, details, servers and sites are what the files say and,
   beyond it, blanks that were looked for; every site of the file has its pool
   (relay_server.cpp:100-110).                                               *)
THEOREM FollowsFiles == Spec => []SitesFollowFiles
BY SpecFollow, FollowSites, PTL

(* A client is told what a table said of its code since its answer began to be encoded; if
   the table was read again meanwhile, perhaps nothing or the mark of a code that goes out
   as it is, but never what no table said (client_socket.cpp:342-347).       *)
THEOREM TellsRight == Spec => []ToldRight
BY SpecSeen, SeenTold, PTL
=============================================================================

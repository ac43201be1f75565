------------------------------ MODULE SiteConf ------------------------------
(***************************************************************************)
(* The tables that say where a request goes and what its client is told:   *)
(* the sites and their pools (core_server_conf.cpp), the IDCs of a server  *)
(* (hasite_conf.cpp), the texts of error codes (errcode_escape_conf.cpp)   *)
(* and the types answered in detail (detail_info_service_conf.cpp).  The   *)
(* process threads look into them to get an api, to ask for a switch of    *)
(* IDC and to encode an answer; on SIGHUP the main thread reads their      *)
(* files again.                                                            *)
(*                                                                         *)
(* A table looked at under its lock is one step.  The sites have the lock  *)
(* spelled out: CCoreServerConf::re_init takes it twice and gives it back  *)
(* twice, and CRwLock ignores what the pthread calls return.  The pools    *)
(* are here only what the switch of an IDC needs of them; ApiPool has the  *)
(* rest.                                                                   *)
(***************************************************************************)
EXTENDS Packet

CONSTANTS
    Worker,         \* the process threads
    Site,           \* the sites requests are for
    Installed,      \* the files at the start: [errors, details, hasite, core]
    Files,          \* and what they may be later
    Missing,        \* a file that cannot be opened
    Answers,        \* of back ends, and the types they answer: [protocol, body, type]
    Texts,          \* the texts the conversions are tried on, see ReadsBack
    None,           \* nobody, nothing
    MaxWork         \* bound: of jobs, a reload counting for two

Main == "main"

(* A line of CoreServer.conf, and what the files are taken to be: the program does not
   start without its sites.                                                  *)
SiteLine == [ok: BOOLEAN, key: Nat, val: [server: STRING, user: STRING]]
ASSUME SiteConfAssumption ==
    /\ IsFiniteSet(Worker) /\ Main \notin Worker /\ None \notin Worker /\ None # Main
    /\ Installed.core # Missing
    /\ \A f \in Files \cup {Installed} : f.core = Missing \/ f.core \in Seq(SiteLine)

(* ------------------------------- the files ------------------------------ *)

(* Lines [ok, key, val] of a file of the CConfig kind: one that does not parse is logged
   and skipped, and the last one of a key counts.                            *)
Table(file) ==
    LET good == {i \in DOMAIN file : file[i].ok} IN
    [k \in {file[i].key : i \in good} |->
        file[CHOOSE i \in good : /\ file[i].key = k
                                 /\ \A j \in good : file[j].key = k => j <= i].val]
Empty == Table(<<>>)

(* What operator[] makes of a key that is not in the map. *)
With(tbl, k, v) == [x \in DOMAIN tbl \cup {k} |-> IF x \in DOMAIN tbl THEN tbl[x] ELSE v]
(* What reading a file into a map leaves of it. *)
Over(new, old) ==
    [x \in DOMAIN new \cup DOMAIN old |-> IF x \in DOMAIN new THEN new[x] ELSE old[x]]

NoServer == [order |-> <<>>, nodes |-> <<>>, cur |-> ""]
NoSite   == [server |-> "", user |-> ""]

ProtocolOk(e) == e.protocol \in {"tcp", "relay"}
(* At most five cuts; each IDC is a word. *)
Order(e) ==
    IF e.order = None THEN e.nodes
    ELSE LET words == split(e.order, ":", 5) IN
         [i \in DOMAIN words |-> IF words[i] = <<>> THEN "" ELSE words[i][1]]

(* One <site>: the order of its IDCs is the attribute, or that of its nodes; nodes
   and order must be as many, or what was read so far stays without a current IDC. *)
SiteInfo(old, e) ==
    LET order == Order(e) IN
    IF ~ProtocolOk(e) THEN [rec |-> old, ok |-> FALSE]
    ELSE IF e.nodes = <<>> \/ Len(order) # Len(e.nodes)
         THEN [rec |-> [old EXCEPT !.order = order, !.nodes = e.nodes], ok |-> FALSE]
         ELSE [rec |-> [order |-> order, nodes |-> e.nodes, cur |-> order[1]], ok |-> TRUE]

(* hasite.xml, site after site: the first bad one ends it. *)
HasiteConf(tbl, file) ==
    IF file = Missing THEN [tbl |-> tbl, ok |-> FALSE]
    ELSE FoldLeft(LAMBDA got, e :
                    IF ~got.ok THEN got
                    ELSE LET known == With(got.tbl, e.server, NoServer)
                             info  == SiteInfo(known[e.server], e) IN
                         [tbl |-> [known EXCEPT ![e.server] = info.rec], ok |-> info.ok],
                  [tbl |-> tbl, ok |-> TRUE], file)

VARIABLES
    errors,     \* errcode_escape_map_: code -> text
    details,    \* detail_info_service_set_
    hasite,     \* _hasite_conf: server -> order of its IDCs, IDCs of its nodes, current IDC
    conf,       \* _core_server_conf: site -> server, user
    pool,       \* _api_pool: site -> server, whether it is to switch, whether in use
    rw,         \* the lock of conf and pool: its writer, the count of its readers
    reload,     \* the main thread in reload_conf
    disk, left, \* the files as they are now; how much of MaxWork is left (bound)
    job,        \* what each thread does
    seen,       \* history: what errors was so far; job.from is where a job began
    moved       \* history: of each server the switches asked for and made, see MovesAsked

tables == <<errors, details, hasite, conf, pool>>
vars   == <<tables, rw, reload, disk, left, job, seen, moved>>

Idle    == [at |-> "idle", site |-> 0, user |-> "",
            answer |-> None, full |-> FALSE, text |-> "", from |-> 1]
CodeOf(w) == get_call_result(job[w].answer)
InLock  == {"find", "get", "swap", "idc", "node", "unlock"}    \* inside get_api
InPool  == {"swap", "idc", "node"}                             \* inside CApiPool::get
Asking  == {"server", "next", "seton"}                         \* inside try_service_switch
Telling == {"original", "escaped", "text", "told"}             \* inside encode
Inside  == {w \in Worker : job[w].at \in InLock}

Init ==
    /\ disk = Installed
    /\ errors = Table(disk.errors) /\ details = disk.details
    /\ hasite = HasiteConf(Empty, disk.hasite).tbl
    /\ conf = Table(disk.core)
    /\ pool = [s \in DOMAIN conf |-> [server |-> conf[s].server, on |-> FALSE]]
    /\ rw = [writer |-> None, readers |-> 0]
    /\ reload = [at |-> "idle", site |-> -1, ok |-> TRUE, broke |-> 0]
    /\ left = MaxWork
    /\ job = [w \in Worker |-> Idle]
    /\ seen = <<errors>>
    /\ moved = [v \in {pool[s].server : s \in DOMAIN pool} |-> [asked |-> 0, made |-> 0, since |-> 0]]

Seen == seen' = Append(seen, errors')

(* ------------------------------- the lock ------------------------------- *)

(* A writer that waits does not keep readers out.  Below zero the count is that of
   the C library: it goes on, or the call fails and nobody looks.            *)
RLock ==
    /\ rw.writer = None
    /\ \/ rw' = [rw EXCEPT !.readers = @ + 1]
       \/ rw.readers = -1 /\ UNCHANGED rw

WLock(t) ==
    /\ rw.writer = None /\ rw.readers = 0
    /\ rw' = [rw EXCEPT !.writer = t]
(* Whoever does not hold it gives back the lock of another. *)
Unlocked(l, t) ==
    CASE l.writer = t    -> {[l EXCEPT !.writer = None]}
      [] l.writer = None -> {[l EXCEPT !.readers = @ - 1]}
      [] OTHER           -> {[l EXCEPT !.readers = @ - 1], [l EXCEPT !.writer = None]}
Unlock(t) == rw' \in Unlocked(rw, t)

(* ------------------------------ a request ------------------------------- *)

Goto(w, p) == job' = [job EXCEPT ![w].at = p]
End(w)     == job' = [job EXCEPT ![w] = Idle]
NoMain     == UNCHANGED <<reload, disk, left>>
OnlyJob    == NoMain /\ UNCHANGED <<tables, rw, seen, moved>>

Begin(w, new) ==
    /\ job[w] = Idle /\ left > 0
    /\ left' = left - 1
    /\ job' = [job EXCEPT ![w] = new]
    /\ UNCHANGED <<tables, rw, reload, disk, seen, moved>>

Call(w)  == \E s \in Site : Begin(w, [Idle EXCEPT !.at = "rlock", !.site = s, !.from = Len(seen)])
(* A result that counts made the threshold, and nobody else is deciding. *)
Fail(w)  == /\ \A v \in Worker : job[v].at \notin Asking
            /\ \E s \in Site : Begin(w, [Idle EXCEPT !.at = "server", !.site = s])
(* Success is sent on as it is. *)
Tell(w)  == \E a \in Answers :
               Begin(w, [Idle EXCEPT !.at = IF get_call_result(a) = 0 THEN "told" ELSE "original",
                                     !.answer = a, !.full = a.type \in details,
                                     !.from = Len(seen)])

GetApi(w) ==
    /\ job[w].at = "rlock" /\ RLock /\ Goto(w, "find")
    /\ NoMain /\ UNCHANGED <<tables, seen, moved>>

(* A site that is no longer in the file still has its pool: its user is a blank that
   operator[] puts into the map.                                             *)
Find(w) ==
    LET s == job[w].site known == With(conf, s, NoSite) IN
    /\ job[w].at = "find"
    /\ IF s \in DOMAIN pool
       THEN conf' = known /\ job' = [job EXCEPT ![w].at = "get", ![w].user = known[s].user]
       ELSE conf' = conf /\ Goto(w, "unlock")
    /\ NoMain /\ UNCHANGED <<errors, details, hasite, pool, rw, seen, moved>>

Server(w)  == pool[job[w].site].server
NextIdc(v) ==
    LET order == hasite[v].order
        at == {i \in DOMAIN order : order[i] = hasite[v].cur /\ i < Len(order)} IN
    IF at = {} THEN "" ELSE order[1 + CHOOSE i \in at : \A j \in at : i <= j]
(* hasite is looked at through operator[]. *)
Looked(v)  == hasite' = With(hasite, v, NoServer)
NextOf(v)  == IF v \in DOMAIN hasite THEN NextIdc(v) ELSE ""

PoolFree(s) == \A v \in Worker : job[v].at \in InPool => job[v].site # s

(* The pool has a free api, or makes one, or is to switch first; at the last IDC there is
   nothing to switch to.                                                     *)
Get(w) ==
    LET s == job[w].site IN
    /\ job[w].at = "get" /\ PoolFree(s)
    /\ \/ ~pool[s].on /\ UNCHANGED <<pool, hasite>> /\ (Goto(w, "unlock") \/ Goto(w, "idc"))
       \/ /\ pool[s].on /\ Looked(Server(w))
          /\ IF NextOf(Server(w)) = ""
             THEN pool' = [pool EXCEPT ![s].on = FALSE] /\ (Goto(w, "unlock") \/ Goto(w, "idc"))
             ELSE UNCHANGED pool /\ (Goto(w, "swap") \/ Goto(w, "unlock"))  \* not while it drains
    /\ NoMain /\ UNCHANGED <<errors, details, conf, rw, seen, moved>>

(* Mutation: the request for the switch stays on. *)
Swap_StaysOn(w) ==
    LET v == Server(w) IN
    /\ job[w].at = "swap"
    /\ hasite' = LET next == NextOf(v) IN
                 IF next = "" THEN With(hasite, v, NoServer) ELSE [hasite EXCEPT ![v].cur = next]
    /\ moved' = [moved EXCEPT ![v].made = @ + 1, ![v].since = @ + 1]
    /\ Goto(w, "idc")
    /\ NoMain /\ UNCHANGED <<errors, details, conf, pool, rw, seen>>

(* set_current_idc asks again which is next: it may have changed. *)
Swap(w) ==
    LET v == Server(w) IN
    /\ job[w].at = "swap"
    /\ hasite' = LET next == NextOf(v) IN
                 IF next = "" THEN With(hasite, v, NoServer) ELSE [hasite EXCEPT ![v].cur = next]
    /\ pool' = [pool EXCEPT ![job[w].site].on = FALSE]
    /\ moved' = [moved EXCEPT ![v].made = @ + 1, ![v].since = @ + 1]
    /\ Goto(w, "idc")
    /\ NoMain /\ UNCHANGED <<errors, details, conf, rw, seen>>

CurrentIdc(w) ==
    /\ job[w].at = "idc" /\ Looked(Server(w)) /\ Goto(w, "node")
    /\ NoMain /\ UNCHANGED <<errors, details, conf, pool, rw, seen, moved>>

(* An api is made for the first node of that IDC, or the call is refused. *)
Node(w) ==
    /\ job[w].at = "node" /\ Looked(Server(w)) /\ Goto(w, "unlock")
    /\ NoMain /\ UNCHANGED <<errors, details, conf, pool, rw, seen, moved>>

Release(w) ==
    /\ job[w].at = "unlock" /\ Unlock(w) /\ End(w)
    /\ NoMain /\ UNCHANGED <<tables, seen, moved>>

(* --------------------------- a switch of IDC ---------------------------- *)

(* The name of the server is that of the file, and the site must be in it. *)
ServerName(w) ==
    LET s == job[w].site IN
    /\ job[w].at = "server" /\ rw.writer = None
    /\ IF s \in DOMAIN conf THEN job' = [job EXCEPT ![w].at = "next", ![w].user = conf[s].server]
                            ELSE End(w)
    /\ OnlyJob

Decide(w) ==
    LET v == job[w].user IN
    /\ job[w].at = "next" /\ Looked(v)
    /\ IF NextOf(v) = "" THEN End(w) ELSE Goto(w, "seton")
    /\ NoMain /\ UNCHANGED <<errors, details, conf, pool, rw, seen, moved>>

SetSwitchOn(w) ==
    LET s == job[w].site IN
    /\ job[w].at = "seton" /\ PoolFree(s)
    /\ IF s \in DOMAIN pool /\ ~pool[s].on
       THEN /\ pool' = [pool EXCEPT ![s].on = TRUE]
            /\ moved' = [moved EXCEPT ![pool[s].server].asked = @ + 1]
       ELSE UNCHANGED <<pool, moved>>
    /\ End(w)
    /\ NoMain /\ UNCHANGED <<errors, details, hasite, conf, rw, seen>>

(* ------------------------------ an answer ------------------------------- *)

(* Mutation: nobody asks whether the code goes out as it is. *)
IsOriginal_NoMark(w) == job[w].at = "original" /\ Goto(w, "escaped") /\ OnlyJob

(* The code is looked up three times, each under a lock of its own. *)
IsOriginal(w) ==
    LET c == CodeOf(w) IN
    /\ job[w].at = "original"
    /\ IF c \in DOMAIN errors /\ errors[c] = "NO_ESCAPE"
       THEN job' = [job EXCEPT ![w].at = "told", ![w].text = ""] ELSE Goto(w, "escaped")
    /\ OnlyJob

IsEscaped(w) ==
    /\ job[w].at = "escaped"
    /\ IF CodeOf(w) \in DOMAIN errors THEN Goto(w, "text")
       ELSE job' = [job EXCEPT ![w].at = "told", ![w].text = "own"]
    /\ OnlyJob

(* The text of a code that is gone is a blank, which stays. *)
EscapedText(w) ==
    LET c == CodeOf(w) known == With(errors, c, "") IN
    /\ job[w].at = "text"
    /\ errors' = known
    /\ job' = [job EXCEPT ![w].at = "told", ![w].text = known[c]]
    /\ NoMain /\ UNCHANGED <<details, hasite, conf, pool, rw, moved>>
    /\ IF known = errors THEN UNCHANGED seen ELSE Seen

Told(w) == job[w].at = "told" /\ End(w) /\ OnlyJob

(* -------------------------------- reload -------------------------------- *)

Step(p)   == reload' = [reload EXCEPT !.at = p]
Stop      == reload' = [reload EXCEPT !.at = "idle", !.ok = FALSE]
NoWorker  == UNCHANGED job

(* SIGHUP, with the files as they are now; the tables of Admission come first. *)
Reload(d) ==
    /\ reload.at = "idle" /\ left > 1
    /\ left' = left - 2 /\ disk' = d
    /\ errors' = Empty
    /\ reload' = [reload EXCEPT !.at = "errors", !.ok = TRUE]
    /\ UNCHANGED <<details, hasite, conf, pool, rw, moved>> /\ NoWorker /\ Seen

(* The texts are read over what is there. *)
ReadErrors ==
    /\ reload.at = "errors"
    /\ IF disk.errors = Missing THEN errors' = errors /\ Stop
       ELSE errors' = Over(Table(disk.errors), errors) /\ Step("details")
    /\ UNCHANGED <<details, hasite, conf, pool, rw, disk, left, moved>> /\ NoWorker /\ Seen

ReadDetails ==
    /\ reload.at = "details"
    /\ IF disk.details = Missing THEN details' = {} /\ Stop
       ELSE details' = disk.details /\ Step("hasite")
    /\ UNCHANGED <<errors, hasite, conf, pool, rw, disk, left, seen, moved>> /\ NoWorker

(* Mutation: the old table is kept under the new one. *)
ReloadHasite_Over ==
    /\ reload.at = "hasite"
    /\ \E got \in {HasiteConf(hasite, disk.hasite)} :
          hasite' = got.tbl /\ IF got.ok THEN Step("wlock") ELSE Stop
    /\ moved' = [v \in DOMAIN moved |-> [moved[v] EXCEPT !.since = 0]]
    /\ UNCHANGED <<errors, details, conf, pool, rw, disk, left, seen>> /\ NoWorker

(* Cleared and read under one lock: every server is back at its first IDC. *)
ReloadHasite ==
    /\ reload.at = "hasite"
    /\ \E got \in {HasiteConf(Empty, disk.hasite)} :
          hasite' = got.tbl /\ IF got.ok THEN Step("wlock") ELSE Stop
    /\ moved' = [v \in DOMAIN moved |-> [moved[v] EXCEPT !.since = 0]]
    /\ UNCHANGED <<errors, details, conf, pool, rw, disk, left, seen>> /\ NoWorker

ReInit ==
    /\ reload.at = "wlock" /\ WLock(Main) /\ Step("clear")
    /\ UNCHANGED <<tables, disk, left, seen, moved>> /\ NoWorker

(* Mutation: the lock is given back when the sites are cleared. *)
ClearSites_Unlocks ==
    /\ reload.at = "clear" /\ conf' = Empty /\ Step("read") /\ Unlock(Main)
    /\ UNCHANGED <<errors, details, hasite, pool, disk, left, seen, moved>> /\ NoWorker

ClearSites ==
    /\ reload.at = "clear" /\ conf' = Empty /\ Step("read")
    /\ UNCHANGED <<errors, details, hasite, pool, rw, disk, left, seen, moved>> /\ NoWorker

(* read_conf takes the lock again, which fails unseen, and gives it back. *)
ReadSites ==
    /\ reload.at = "read" /\ Unlock(Main)
    /\ conf' = IF disk.core = Missing THEN conf ELSE Over(Table(disk.core), conf)
    /\ reload' = [reload EXCEPT !.at = IF disk.core = Missing THEN "fail" ELSE "grow", !.site = -1]
    /\ UNCHANGED <<errors, details, hasite, pool, disk, left, seen, moved>> /\ NoWorker

(* The sites of the file that have no pool get one, in their order from the least (reload.site
   is the last that was looked at), without the lock.                        *)
Ahead == {s \in DOMAIN conf : s > reload.site}
Grow ==
    LET s == CHOOSE x \in Ahead : \A y \in Ahead : x <= y
        v == conf[s].server IN
    /\ reload.at = "grow" /\ Ahead # {}
    /\ pool' = With(pool, s, [server |-> v, on |-> FALSE])
    /\ moved' = IF s \in DOMAIN pool THEN moved
                ELSE With(moved, v, [asked |-> 0, made |-> 0, since |-> 0])
    /\ reload' = [reload EXCEPT !.site = s]
    /\ UNCHANGED <<errors, details, hasite, conf, rw, disk, left, seen>> /\ NoWorker

(* And the lock is given back once more; the counts of the switches come next, in SwitchStats. *)
GiveBack ==
    /\ reload.at = "fail" \/ (reload.at = "grow" /\ Ahead = {})
    /\ Unlock(Main)
    /\ reload' = [reload EXCEPT !.at = "idle", !.ok = reload.at = "grow", !.broke = @ + 1]
    /\ UNCHANGED <<tables, disk, left, seen, moved>> /\ NoWorker

Reloading ==
    \/ \E d \in Files : Reload(d)
    \/ ReadErrors \/ ReadDetails \/ ReloadHasite
    \/ ReInit \/ ClearSites \/ ReadSites \/ Grow \/ GiveBack

Work(w) ==
    \/ Call(w) \/ Fail(w) \/ Tell(w)
    \/ GetApi(w) \/ Find(w) \/ Get(w) \/ Swap(w) \/ CurrentIdc(w) \/ Node(w) \/ Release(w)
    \/ ServerName(w) \/ Decide(w) \/ SetSwitchOn(w)
    \/ IsOriginal(w) \/ IsEscaped(w) \/ EscapedText(w) \/ Told(w)

Next == Reloading \/ \E w \in Worker : Work(w)

Spec == Init /\ [][Next]_vars
=============================================================================

----------------------------- MODULE Admission -----------------------------
(***************************************************************************)
(* What a request passes between its last byte and the call of its service *)
(* (src/relay_server.cpp, _thread_dispatch): the address list              *)
(* (access_control.cpp), the authorisation by request type                 *)
(* (service_authorize_access.cpp), the request-type table                  *)
(* (request_type_conf.cpp), the frequency limit (frequency_control.cpp)    *)
(* and, in the build with RULE_FROM_FILE, the rules of the master key      *)
(* (service_request_control.cpp, service_fixed_control_rule.cpp,           *)
(* time_count_policy.cpp).  The process threads ask, the main thread       *)
(* reloads the files on SIGHUP, the manager thread the rules.              *)
(*                                                                         *)
(* A check that reads one table under its lock is one step.  Counting is   *)
(* done under the read lock too, so a count is read in one step and its    *)
(* two words are written in two others, which mix with those of other      *)
(* threads; a thread that counts holds the read lock and keeps the table.  *)
(***************************************************************************)
EXTENDS Integers, Sequences, FiniteSets

CONSTANTS
    Worker,         \* the process threads
    Requests,       \* [ip, type, params]: what a client may send
    Ranges,         \* the ranges of request types: [begin, end, keys]
    Installed,      \* the files the program starts with: [types, access, limits,
                    \* others, auth]; others are those of the error codes and details
    Files,          \* and those it may find later
    RuleFile,       \* and the file of the rules
    Missing,        \* a file that cannot be opened
    NoRequest,
    MaxRequests, MaxNow, Reloads    \* bounds; Reloads is of files or rules

Last(S) == CHOOSE i \in S : \A j \in S : j <= i
First(S) == CHOOSE i \in S : \A j \in S : i <= j

(* A file is a sequence of lines [ok, key, val]: a line that does not parse is
   logged and skipped, and of two lines with one key the later one counts.   *)
Table(file) ==
    LET good == {i \in DOMAIN file : file[i].ok} IN
    [k \in {file[i].key : i \in good} |->
        file[Last({i \in good : file[i].key = k})].val]
Empty == Table(<<>>)

(* What is read replaces what there was. *)
Over(f, g) == [x \in DOMAIN f \cup DOMAIN g |-> IF x \in DOMAIN f THEN f[x] ELSE g[x]]

(* Several files read one after the other into one table. *)
Tables(files) ==
    [k \in UNION {DOMAIN Table(files[i]) : i \in DOMAIN files} |->
        Table(files[Last({i \in DOMAIN files : k \in DOMAIN Table(files[i])})])[k]]

InRange(t) == {i \in DOMAIN Ranges : t >= Ranges[i].begin /\ t < Ranges[i].end}

(* The range that gives a request its key is the last one its type is in, the one
   that gives its master key the first.                                      *)
KeyNames(r) == Ranges[Last(InRange(r.type))].keys
HasKey(r) ==
    /\ InRange(r.type) # {}
    /\ \A i \in DOMAIN KeyNames(r) : KeyNames(r)[i] \in DOMAIN r.params
RequestKey(r) == [i \in DOMAIN KeyNames(r) |-> r.params[KeyNames(r)[i]]]
MasterRequestKey(r) == Ranges[First(InRange(r.type))].keys[1]
MasterKey(r) ==
    IF MasterRequestKey(r) \in DOMAIN r.params THEN r.params[MasterRequestKey(r)] ELSE ""

VARIABLES
    types,      \* _request_type_conf: request key -> service name
    access,     \* _access_conf: address -> the types it may send, {} for all
    auth,       \* _service_authorize_access: is_init_, type -> addresses
    rules,      \* _service_request_control: is_init_, master key -> rule
    counter,    \* the counts of the limits and of the rules, with their policy
    reload,     \* the main thread in reload_conf: [at, file, ok, from]
    mgr,        \* the manager thread in re_init
    left,       \* how many reloads are left (bound)
    disk,       \* the files as they are now
    now,        \* time(0)
    arrived,    \* how many requests came (bound)
    job,        \* each thread: where it is, its request, its service
    reg,        \* what it computed for the counter it is counting on
    stat,       \* history of each counter: see CountDone
    past        \* history: the lists in force so far; job.from and reload.from are where
                \* a request and a reload began

tables == <<types, access, auth>>
vars   == <<tables, rules, counter, reload, mgr, left, disk, now, arrived, job, reg, stat, past>>

(* ------------------------------ counters ------------------------------ *)

LimitOf(r)      == <<"limit", r.ip, r.type>>
MasterOf(m)     == <<"master", m>>
ServiceOf(m, i) == <<"service", m, i>>

Policy(p)  == [time |-> p.time, max |-> p.max, begin |-> now, count |-> 0]
NewStat    == [all |-> 0, passed |-> 0, refused |-> 0, items |-> 0, torn |-> FALSE]
Unstarted(C) == [c \in C |-> NewStat]

(* The counters of the lines of FreqLimit.conf, all started anew. *)
LimitCounters(tbl) ==
    [c \in {<<"limit", k[1], k[2]>> : k \in DOMAIN tbl} |-> Policy(tbl[<<c[2], c[3]>>])]

(* An item of a rule without a limit of its own has the default of the rule; an item
   with fewer values than the rule has keys is logged and left out.          *)
Items(rule) == SelectSeq(rule.items, LAMBDA i : Len(i.vals) = Len(rule.keys))
ItemPolicy(rule, i) == IF Items(rule)[i].own THEN Items(rule)[i] ELSE rule.default

IsPolicy(p) == p.time \in Nat /\ p.max \in Nat

(* One types file for each range.  A limit is of an address and a type, and no limit
   is negative (a number of a file is taken as it is).  The program starts only when
   its files could be read.                                                  *)
ASSUME AdmissionAssumption ==
    /\ IsFiniteSet(Worker) /\ NoRequest \notin Requests
    /\ Len(Ranges) \in Nat \ {0} /\ DOMAIN Ranges = 1..Len(Ranges)
    /\ MaxRequests \in Nat /\ MaxNow \in Nat /\ Reloads \in Nat
    /\ \A d \in Files \cup {Installed} :
          /\ d.types = [i \in DOMAIN Ranges |-> d.types[i]]
          /\ d.limits # Missing =>
                \A k \in DOMAIN Table(d.limits) : k = <<k[1], k[2]>> /\ IsPolicy(Table(d.limits)[k])
    /\ Missing \notin {Installed.types[i] : i \in DOMAIN Ranges}
    /\ Missing \notin {Installed.access, Installed.limits, Installed.others, Installed.auth}
    /\ \A f \in RuleFile : \A m \in DOMAIN Table(f) : LET rule == Table(f)[m] IN
          IsPolicy(rule.master) /\ \A i \in DOMAIN Items(rule) : IsPolicy(ItemPolicy(rule, i))

RuleCounters(tbl) ==
    [c \in {MasterOf(m) : m \in DOMAIN tbl}
           \cup UNION {{ServiceOf(m, i) : i \in DOMAIN Items(tbl[m])} : m \in DOMAIN tbl} |->
        Policy(IF c[1] = "master" THEN tbl[c[2]].master ELSE ItemPolicy(tbl[c[2]], c[3]))]

Keep(f, C) == [c \in DOMAIN f \cap C |-> f[c]]

(* A limit opens a window when it is over, and does not count the call that does;
   a rule when it is over or nothing was counted, and counts it.             *)
Opens(c) ==
    LET k == counter[c] IN
    IF c[1] = "limit" THEN k.begin + k.time < now
                      ELSE k.count = 0 \/ now - k.begin >= k.time
FirstCount(c) == IF c[1] = "limit" THEN 0 ELSE 1

(* -------------------------------- state ------------------------------- *)

Counting == {"limit", "master", "service"}
InRules  == {"master", "keys", "service"}
Stage    == {"idle", "access", "auth", "authlist", "conf", "freq", "rule", "rulelock", "call"}
            \cup Counting \cup InRules

NoJob == [at |-> "idle", req |-> NoRequest, service |-> "", from |-> 1]
NoReg == [step |-> "none", ctr |-> <<>>, now |-> 0, value |-> 0]
Snapshot == [access |-> access, on |-> auth.on, auth |-> auth.tbl]

Count == [time : Nat, max : Nat, begin : 0..MaxNow, count : Nat]
Stat  == [all : Nat, passed : Nat, refused : Nat, items : Nat, torn : BOOLEAN]

TypeOK ==
    /\ disk \in Files \cup {Installed}
    /\ auth.on \in BOOLEAN /\ rules.on \in BOOLEAN
    /\ counter \in [DOMAIN counter -> Count] /\ stat \in [DOMAIN counter -> Stat]
    /\ \A c \in DOMAIN counter : counter[c].begin <= now
    /\ now \in 0..MaxNow /\ arrived \in 0..MaxRequests /\ left \in 0..Reloads
    /\ \A w \in Worker :
          /\ job[w].at \in Stage
          /\ job[w] # NoJob =>
                job[w].at # "idle" /\ job[w].req \in Requests /\ job[w].from \in 1..Len(past)
          /\ reg[w].step \in {"none", "begin", "opened", "count"}
          /\ (reg[w].step # "none") <=> (job[w].at \in Counting)
    /\ reload.at \in {"idle", "types", "access", "readaccess", "limits", "readlimits",
                      "others", "auth", "readauth"}
    /\ reload.file \in DOMAIN Ranges /\ reload.from \in 1..Len(past) /\ mgr \in {"idle", "read"}

Init ==
    /\ disk = Installed
    /\ types = Tables(disk.types)
    /\ access = Table(disk.access)
    /\ auth = [on |-> TRUE, tbl |-> Table(disk.auth)]
    /\ now = 0
    /\ \E f \in RuleFile :
          /\ rules = [on |-> TRUE, tbl |-> Table(f)]
          /\ counter = Over(LimitCounters(Table(disk.limits)), RuleCounters(Table(f)))
    /\ stat = Unstarted(DOMAIN counter)
    /\ reload = [at |-> "idle", file |-> 1, ok |-> TRUE, from |-> 1]
    /\ mgr = "idle" /\ left = Reloads
    /\ arrived = 0
    /\ job = [w \in Worker |-> NoJob]
    /\ reg = [w \in Worker |-> NoReg]
    /\ past = <<Snapshot>>

(* ------------------------------ a request ----------------------------- *)

Goto(w, p)  == job' = [job EXCEPT ![w].at = p]
(* A check that fails throws: an error is written, and the thread is done with it. *)
Pass(w, ok, p) == IF ok THEN Goto(w, p) ELSE job' = [job EXCEPT ![w] = NoJob]
OnlyJob     == UNCHANGED <<tables, rules, counter, reload, mgr, left, disk, now, arrived, reg, stat, past>>

(* A request was read whole and is decoded: it has a request key, or is an error. *)
Arrive(w, r) ==
    /\ job[w] = NoJob /\ arrived < MaxRequests
    /\ arrived' = arrived + 1
    /\ job' = [job EXCEPT ![w] =
                 IF HasKey(r) THEN [at |-> "access", req |-> r, service |-> "", from |-> Len(past)]
                 ELSE NoJob]
    /\ UNCHANGED <<tables, rules, counter, reload, mgr, left, disk, now, reg, stat, past>>

Listed(tbl, r) == r.ip \in DOMAIN tbl /\ (tbl[r.ip] = {} \/ r.type \in tbl[r.ip])

CheckAccess(w) ==
    /\ job[w].at = "access" /\ Pass(w, Listed(access, job[w].req), "auth") /\ OnlyJob

(* is_init_ is read without the lock. *)
ReadIsInit(w) ==
    /\ job[w].at = "auth" /\ Goto(w, IF auth.on THEN "authlist" ELSE "conf") /\ OnlyJob

OnList(tbl, r) == r.type \notin DOMAIN tbl \/ r.ip \in tbl[r.type]
Authorized(w) ==
    /\ job[w].at = "authlist" /\ Pass(w, OnList(auth.tbl, job[w].req), "conf") /\ OnlyJob

GetConf(w) ==
    LET k == RequestKey(job[w].req) IN
    /\ job[w].at = "conf"
    /\ IF k \in DOMAIN types
       THEN job' = [job EXCEPT ![w].at = "freq", ![w].service = types[k]]
       ELSE job' = [job EXCEPT ![w] = NoJob]
    /\ OnlyJob

(* Another thread is in the middle of counting on c. *)
Busy(w, c) == \E v \in Worker \ {w} : job[v].at \in Counting /\ reg[v].ctr = c

(* The count is read, and what will be written is computed.  A window that is opened
   with nobody in between starts the history of the counter again.           *)
Load(w, c) ==
    LET opens == Opens(c) IN
    /\ Goto(w, c[1])
    /\ reg' = [reg EXCEPT ![w] =
                 [step |-> IF opens THEN "begin" ELSE "count", ctr |-> c, now |-> now,
                  value |-> IF opens THEN FirstCount(c) ELSE counter[c].count + 1]]
    /\ stat' = [stat EXCEPT ![c] =
                  IF Busy(w, c) THEN [@ EXCEPT !.torn = TRUE]
                  ELSE IF opens THEN [@ EXCEPT !.passed = 0, !.refused = 0, !.torn = FALSE] ELSE @]
    /\ UNCHANGED <<tables, rules, counter, reload, mgr, left, disk, now, arrived, past>>

StoreBegin(w) ==
    /\ reg[w].step = "begin"
    /\ counter' = [counter EXCEPT ![reg[w].ctr].begin = reg[w].now]
    /\ reg' = [reg EXCEPT ![w].step = "opened"]
    /\ UNCHANGED <<tables, rules, reload, mgr, left, disk, now, arrived, job, stat, past>>

(* The history of a counter: how often it was counted on since the table was read, how
   many passed and were refused in this window, whether two threads mixed; of a
   master key, how often the items of its rule were counted on too.          *)
CountDone(c, ok) ==
    stat' = [d \in DOMAIN stat |->
        IF d = c
        THEN [stat[d] EXCEPT !.all = @ + 1, !.passed = IF ok THEN @ + 1 ELSE @,
                             !.refused = IF ok THEN @ ELSE @ + 1]
        ELSE IF c[1] = "service" /\ d = MasterOf(c[2])
             THEN [stat[d] EXCEPT !.items = @ + 1] ELSE stat[d]]

After == [limit |-> "rule", master |-> "keys", service |-> "call"]

(* Mutation: the count is compared before it is increased. *)
InLimit_Post(w) == reg[w].step = "opened" \/ reg[w].value - 1 <= counter[reg[w].ctr].max

(* The call that opened a window passes whatever the limit is. *)
InLimit(w) == reg[w].step = "opened" \/ reg[w].value <= counter[reg[w].ctr].max

StoreCount(w) ==
    LET c == reg[w].ctr IN
    /\ reg[w].step \in {"opened", "count"}
    /\ counter' = [counter EXCEPT ![c].count = reg[w].value]
    /\ CountDone(c, InLimit(w))
    /\ Pass(w, InLimit(w), After[job[w].at])
    /\ reg' = [reg EXCEPT ![w] = NoReg]
    /\ UNCHANGED <<tables, rules, reload, mgr, left, disk, now, arrived, past>>

CheckFrequency(w) ==
    /\ job[w].at = "freq"
    /\ \/ LimitOf(job[w].req) \in DOMAIN counter /\ Load(w, LimitOf(job[w].req))
       \/ LimitOf(job[w].req) \notin DOMAIN counter /\ Goto(w, "rule") /\ OnlyJob

(* The rules are looked at only when is_init_ is set before and under the lock. *)
CheckRules(w) ==
    /\ job[w].at = "rule" /\ Goto(w, IF rules.on THEN "rulelock" ELSE "call") /\ OnlyJob

CountMaster(w) ==
    LET m == MasterKey(job[w].req) IN
    /\ job[w].at = "rulelock"
    /\ \/ rules.on /\ m \in DOMAIN rules.tbl /\ Load(w, MasterOf(m))
       \/ ~(rules.on /\ m \in DOMAIN rules.tbl) /\ Goto(w, "call") /\ OnlyJob

(* The values the rule asks for; the name of the service may stand in for a parameter. *)
Value(w, key) ==
    IF key \in DOMAIN job[w].req.params THEN job[w].req.params[key]
    ELSE IF key = "service_name" THEN job[w].service ELSE ""
Matching(w) ==
    LET rule == rules.tbl[MasterKey(job[w].req)]
        vals == [i \in DOMAIN rule.keys |-> Value(w, rule.keys[i])] IN
    {i \in DOMAIN Items(rule) :
        /\ \A k \in DOMAIN rule.keys :
              rule.keys[k] = "service_name" \/ rule.keys[k] \in DOMAIN job[w].req.params
        /\ Items(rule)[i].vals = vals}

CountService(w) ==
    /\ job[w].at = "keys"
    /\ \/ \E i \in Matching(w) :
             /\ \A j \in Matching(w) : i <= j
             /\ Load(w, ServiceOf(MasterKey(job[w].req), i))
       \/ Matching(w) = {} /\ Goto(w, "call") /\ OnlyJob

(* The request type is looked up again, and the service is called or the request refused. *)
Call(w) ==
    /\ job[w].at = "call" /\ job' = [job EXCEPT ![w] = NoJob] /\ OnlyJob

(* ------------------------------- reload ------------------------------- *)

At(a)       == reload' = [reload EXCEPT !.at = a, !.file = 1]
Fail        == reload' = [at |-> "idle", file |-> 1, ok |-> FALSE, from |-> reload.from]
NoWorker    == UNCHANGED <<mgr, now, arrived, job, reg>>
Remember    == past' = Append(past, Snapshot')

(* SIGHUP, after the files were edited. *)
Reload(d) ==
    /\ reload.at = "idle" /\ left > 0
    /\ left' = left - 1
    /\ disk' = d
    /\ types' = Empty
    /\ reload' = [at |-> "types", file |-> 1, ok |-> TRUE, from |-> Len(past)]
    /\ UNCHANGED <<access, auth, rules, counter, stat, past>> /\ NoWorker

(* Mutation: a file that cannot be opened is passed over. *)
ReadTypes_Skips ==
    LET f == disk.types[reload.file] IN
    /\ reload.at = "types"
    /\ types' = IF f = Missing THEN types ELSE Over(Table(f), types)
    /\ IF reload.file = Len(Ranges) THEN At("access") ELSE reload' = [reload EXCEPT !.file = @ + 1]
    /\ UNCHANGED <<access, auth, rules, counter, disk, left, stat, past>> /\ NoWorker

(* A file that cannot be opened ends the reload where it is. *)
ReadTypes ==
    LET f == disk.types[reload.file] IN
    /\ reload.at = "types"
    /\ types' = IF f = Missing THEN types ELSE Over(Table(f), types)
    /\ IF f = Missing THEN Fail
       ELSE IF reload.file = Len(Ranges) THEN At("access")
       ELSE reload' = [reload EXCEPT !.file = @ + 1]
    /\ UNCHANGED <<access, auth, rules, counter, disk, left, stat, past>> /\ NoWorker

ClearAccess ==
    /\ reload.at = "access"
    /\ access' = Empty /\ At("readaccess")
    /\ UNCHANGED <<types, auth, rules, counter, disk, left, stat>> /\ Remember /\ NoWorker

ReadAccess ==
    /\ reload.at = "readaccess"
    /\ access' = IF disk.access = Missing THEN access ELSE Table(disk.access)
    /\ IF disk.access = Missing THEN Fail ELSE At("limits")
    /\ UNCHANGED <<types, auth, rules, counter, disk, left, stat>> /\ Remember /\ NoWorker

IsLimit(c) == c[1] = "limit"
NotLimits  == {c \in DOMAIN counter : ~IsLimit(c)}

(* The write lock waits for those who count. *)
ClearLimits ==
    /\ reload.at = "limits" /\ \A w \in Worker : job[w].at # "limit"
    /\ counter' = Keep(counter, NotLimits) /\ stat' = Keep(stat, NotLimits)
    /\ At("readlimits")
    /\ UNCHANGED <<tables, rules, disk, left, past>> /\ NoWorker

ReadLimits ==
    /\ reload.at = "readlimits" /\ \A w \in Worker : job[w].at # "limit"
    /\ LET new == IF disk.limits = Missing THEN Empty ELSE LimitCounters(Table(disk.limits)) IN
       counter' = Over(new, counter) /\ stat' = Over(Unstarted(DOMAIN new), stat)
    /\ IF disk.limits = Missing THEN Fail ELSE At("others")
    /\ UNCHANGED <<tables, rules, disk, left, past>> /\ NoWorker

(* The error codes and the services with details are read: nothing here depends on what
   they say, but if one cannot be opened the authorisation stays the old one.  *)
ReadOthers ==
    /\ reload.at = "others"
    /\ IF disk.others = Missing THEN Fail ELSE At("auth")
    /\ UNCHANGED <<tables, rules, counter, disk, left, stat, past>> /\ NoWorker

(* is_init_ is cleared before the lock is taken ... *)
AuthOff ==
    /\ reload.at = "auth" /\ auth' = [auth EXCEPT !.on = FALSE] /\ At("readauth")
    /\ UNCHANGED <<types, access, rules, counter, disk, left, stat>> /\ Remember /\ NoWorker

(* Mutation: is_init_ stays as it was cleared. *)
ReadAuth_NotSet ==
    /\ reload.at = "readauth"
    /\ auth' = [on |-> FALSE, tbl |-> IF disk.auth = Missing THEN Empty ELSE Table(disk.auth)]
    /\ IF disk.auth = Missing THEN Fail ELSE At("idle")
    /\ UNCHANGED <<types, access, rules, counter, disk, left, stat>> /\ Remember /\ NoWorker

(* ... and set again when the file was read. *)
ReadAuth ==
    /\ reload.at = "readauth"
    /\ auth' = IF disk.auth = Missing THEN [on |-> FALSE, tbl |-> Empty]
               ELSE [on |-> TRUE, tbl |-> Table(disk.auth)]
    /\ IF disk.auth = Missing THEN Fail ELSE At("idle")
    /\ UNCHANGED <<types, access, rules, counter, disk, left, stat>> /\ Remember /\ NoWorker

(* The manager thread reads the rules again every minute. *)
NoThread == UNCHANGED <<tables, reload, disk, now, arrived, job, reg, past>>

RulesOff ==
    /\ mgr = "idle" /\ left > 0
    /\ mgr' = "read" /\ left' = left - 1
    /\ rules' = [rules EXCEPT !.on = FALSE]
    /\ UNCHANGED <<counter, stat>> /\ NoThread

ReadRules(f) ==
    /\ mgr = "read" /\ \A w \in Worker : job[w].at \notin InRules
    /\ mgr' = "idle"
    /\ rules' = [on |-> TRUE, tbl |-> Table(f)]
    /\ UNCHANGED left
    /\ LET limits == {c \in DOMAIN counter : IsLimit(c)}
           new == RuleCounters(Table(f)) IN
       /\ counter' = Over(new, Keep(counter, limits))
       /\ stat' = Over(Unstarted(DOMAIN new), Keep(stat, limits))
    /\ NoThread

Tick ==
    /\ now < MaxNow /\ now' = now + 1
    /\ UNCHANGED <<tables, rules, counter, reload, mgr, left, disk, arrived, job, reg, stat, past>>

Step(w) ==
    \/ CheckAccess(w) \/ ReadIsInit(w) \/ Authorized(w) \/ GetConf(w)
    \/ CheckFrequency(w) \/ CheckRules(w) \/ CountMaster(w) \/ CountService(w)
    \/ StoreBegin(w) \/ StoreCount(w) \/ Call(w)

Reloading ==
    \/ \E d \in Files : Reload(d)
    \/ ReadTypes \/ ClearAccess \/ ReadAccess \/ ClearLimits \/ ReadLimits
    \/ ReadOthers \/ AuthOff \/ ReadAuth

Next ==
    \/ \E w \in Worker : Step(w) \/ \E r \in Requests : Arrive(w, r)
    \/ Reloading
    \/ RulesOff \/ \E f \in RuleFile : ReadRules(f)
    \/ Tick

Spec == Init /\ [][Next]_vars
=============================================================================

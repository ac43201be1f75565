---------------------------- MODULE SwitchStats ----------------------------
(***************************************************************************)
(* Switch statistics (src/switch_mgr.cpp, src/switch_key_stats.h): requests *)
(* and errors are counted per key, a key being a service or a site, in a   *)
(* window of time; too many errors ask the pool of the site to switch to   *)
(* the next IDC.  The workers that count are the process threads; a reload *)
(* (relay_server.cpp, reload_conf) replaces the tables they look at, one   *)
(* after the other.                                                        *)
(***************************************************************************)
EXTENDS Integers, Sequences

CONSTANTS
    Worker,     \* process threads
    Service, Site,
    Confs,      \* the configuration, and the ones read by later reloads
    Error,      \* error codes
    NumIdcs,    \* IDCs in the switch list of the server
    SwitchOn,   \* CSystemConf::is_switch_on
    MaxTime, MaxCalls,      \* bounds: seconds, calls
    Main, NoOne, NoSite

Key  == Service \cup Site
Kind == {"service", "site"}

KeyConf == [key_id : Nat, time_interval : Nat, request_threshold : Nat, succ_ratio : 0..100,
            errcode_list : SUBSET Error]

(* Every function number goes to a site of CoreServer.conf. *)
ASSUME SwitchStatsAssumption ==
    /\ Service # {} /\ Error # {} /\ Service \cap Site = {} /\ NoSite \notin Site
    /\ Main \notin Worker /\ NoOne \notin Worker \cup {Main}
    /\ Len(Confs) \in Nat \ {0} /\ NumIdcs \in Nat \ {0} /\ SwitchOn \in BOOLEAN
    /\ MaxTime \in Nat /\ MaxCalls \in Nat
    /\ \A g \in 1..Len(Confs) :
          /\ Confs[g].sites \subseteq Site
          /\ Confs[g].route \in [Service -> Confs[g].sites]
          /\ \E K \in SUBSET Key : Confs[g].keys \in [K -> KeyConf]

VARIABLES
    now,        \* time(0)
    calls,      \* calls that were begun
    route,      \* _request_type_conf: the site of a service
    server,     \* _core_server_conf: the server name of a site
    pools,      \* the sites that have an api pool
    need,       \* _need_switch of each pool
    idc,        \* current_idc of the server
    stats,      \* switch_key_stats_map_ of both kinds
    keygen,     \* the configuration its entries were made from
    is_init,    \* is_service_init_, is_site_init_
    lock,       \* service_mutex_, site_mutex_
    main,       \* the main thread, and the configuration read last
    wk,         \* the workers
    exited,     \* whether the process was ended, and by what
    log         \* history: errors of each key since its reset, up to each second

tables == <<route, server, pools, keygen, is_init>>
vars == <<now, calls, need, idc, stats, lock, main, wk, exited, log, tables>>

Absent == [loaded |-> FALSE, requests |-> 0, errors |-> 0, begin |-> 0, to_be_switched |-> FALSE]

Stat == [loaded : BOOLEAN, requests : Nat, errors : Nat, begin : 0..MaxTime,
         to_be_switched : BOOLEAN]

WkPCs   == {"idle", "reqcheck", "reqcount", "call", "getapi", "wait", "writeerror", "errcheck",
            "errcount", "servername", "nextidc", "seton", "reset", "resetother"}
WkState == [pc : WkPCs, kind : Kind, service : Service, site : Site \cup {NoSite},
            error : Error, writing : BOOLEAN]
MainPCs == {"idle", "routes", "hasite", "core", "clear", "fill"}

TypeOK ==
    /\ now \in 0..MaxTime /\ calls \in 0..MaxCalls
    /\ route \in [Service -> Site \cup {NoSite}]
    /\ server \in [Site -> {"none", "blank", "real"}]
    /\ pools \subseteq Site
    /\ need \in [Site -> BOOLEAN]
    /\ idc \in 1..NumIdcs
    /\ stats \in [Key -> Stat]
    /\ keygen \in [Kind -> 1..Len(Confs)]
    /\ is_init \in [Kind -> BOOLEAN]
    /\ lock \in [Kind -> Worker \cup {Main, NoOne}]
    /\ main \in [pc : MainPCs, kind : Kind, gen : 1..Len(Confs)]
    /\ wk \in [Worker -> WkState]
    /\ exited \in {"no", "exception", "race"}
    /\ log \in [Key -> [0..MaxTime -> Nat]]

----------------------------------------------------------------------------
(* Counting: SwitchKeyStats. *)

KindOf(k)  == IF k \in Service THEN "service" ELSE "site"
ConfOf(k)  == Confs[keygen[KindOf(k)]].keys[k]
Fresh(t)   == [loaded |-> TRUE, requests |-> 0, errors |-> 0, begin |-> t, to_be_switched |-> FALSE]
Loaded(keys, t) == [k \in Key |-> IF k \in keys THEN Fresh(t) ELSE Absent]

(* Mutation: the window is opened with the errors of the one before. *)
IncrementRequests_KeepsErrors(st, c, t) ==
    IF st.to_be_switched THEN st
    ELSE IF t - st.begin < c.time_interval THEN [st EXCEPT !.requests = @ + 1]
    ELSE [st EXCEPT !.requests = 1, !.begin = t]

IncrementRequests(st, c, t) ==
    IF st.to_be_switched THEN st
    ELSE IF t - st.begin < c.time_interval THEN [st EXCEPT !.requests = @ + 1]
    ELSE [st EXCEPT !.requests = 1, !.errors = 0, !.begin = t]

(* The success ratio is a float, at least 0; it is compared exactly here. *)
TooManyErrors(requests, errors, c) ==
    /\ requests >= c.request_threshold
    /\ (requests - errors) * 100 <= c.succ_ratio * requests

(* The error that opens a window decides nothing. *)
IncrementErrors(st, c, t) ==
    LET r == IF st.requests = 0 THEN 1 ELSE st.requests
        e == IF st.requests = 0 THEN 1 ELSE st.errors + 1
    IN IF st.to_be_switched THEN st
       ELSE IF t - st.begin < c.time_interval
       THEN [st EXCEPT !.requests = r, !.errors = e, !.to_be_switched = TooManyErrors(r, e, c)]
       ELSE [st EXCEPT !.requests = 1, !.errors = 1, !.begin = t]

(* The keys that are reset with k: those of its kind with the same key_id. *)
SameId(k) ==
    {j \in Key : KindOf(j) = KindOf(k) /\ stats[j].loaded /\ stats[k].loaded
                 /\ ConfOf(j).key_id = ConfOf(k).key_id}

(* Mutation: the counter of errors is not reset. *)
ResetKey_KeepsErrors(k) ==
    [j \in Key |-> IF j \in SameId(k)
                   THEN [stats[j] EXCEPT !.requests = 0, !.begin = now, !.to_be_switched = FALSE]
                   ELSE stats[j]]

(* SwitchStatsPool::reset(switch_key) *)
ResetKey(k) == [j \in Key |-> IF j \in SameId(k) THEN Fresh(now) ELSE stats[j]]

NoErrors == [t \in 0..MaxTime |-> 0]
Counted(h) == [t \in 0..MaxTime |-> IF t < now THEN h[t] ELSE h[t] + 1]
Forget(keys) == log' = [j \in Key |-> IF j \in keys THEN NoErrors ELSE log[j]]

----------------------------------------------------------------------------
Idle == [pc |-> "idle", kind |-> "service", service |-> CHOOSE s \in Service : TRUE,
         site |-> NoSite, error |-> CHOOSE e \in Error : TRUE, writing |-> FALSE]

Init ==
    /\ now = 0 /\ calls = 0
    /\ route = Confs[1].route
    /\ server = [x \in Site |-> IF x \in Confs[1].sites THEN "real" ELSE "none"]
    /\ pools = Confs[1].sites
    /\ need = [x \in Site |-> FALSE]
    /\ idc = 1
    /\ stats = Loaded(DOMAIN Confs[1].keys, 0)
    /\ keygen = [d \in Kind |-> 1]
    /\ is_init = [d \in Kind |-> TRUE]
    /\ lock = [d \in Kind |-> NoOne]
    /\ main = [pc |-> "idle", kind |-> "service", gen |-> 1]
    /\ wk = [w \in Worker |-> Idle]
    /\ exited = "no"
    /\ log = [k \in Key |-> NoErrors]

Tick ==
    /\ now < MaxTime /\ now' = now + 1
    /\ UNCHANGED <<calls, need, idc, stats, lock, main, wk, exited, log, tables>>

----------------------------------------------------------------------------
(* A call, as far as the statistics see it (relay_server.cpp). *)

KeyAt(w) == IF wk[w].kind = "service" THEN wk[w].service ELSE wk[w].site

Goto(w, pc)       == wk' = [wk EXCEPT ![w].pc = pc]
Return(w)         == wk' = [wk EXCEPT ![w] = Idle]
GoOn(w, pc, kind) == wk' = [wk EXCEPT ![w].pc = pc, ![w].kind = kind]

(* _thread_dispatch: the request is complete, its site is looked up. *)
BeginCall(w, s) ==
    /\ wk[w].pc = "idle" /\ calls < MaxCalls
    /\ calls' = calls + 1
    /\ wk' = [wk EXCEPT ![w].pc = IF route[s] = NoSite THEN "writeerror" ELSE "reqcheck",
                        ![w].kind = "service", ![w].service = s, ![w].site = route[s]]
    /\ UNCHANGED <<now, need, idc, stats, lock, main, exited, log, tables>>

(* It is refused before it is counted. *)
RefuseCall(w, s) ==
    /\ wk[w].pc = "idle" /\ calls < MaxCalls
    /\ calls' = calls + 1
    /\ wk' = [wk EXCEPT ![w].pc = "writeerror", ![w].service = s]
    /\ UNCHANGED <<now, need, idc, stats, lock, main, exited, log, tables>>

(* incrRequest looks the key up before it takes the lock. *)
Found(w) == is_init[wk[w].kind] /\ stats[KeyAt(w)].loaded

RequestCounted(w) ==
    IF wk[w].kind = "service" THEN GoOn(w, "reqcheck", "site") ELSE GoOn(w, "call", "service")

RequestCheck(w) ==
    /\ wk[w].pc = "reqcheck"
    /\ IF Found(w) THEN Goto(w, "reqcount") ELSE RequestCounted(w)
    /\ UNCHANGED <<now, calls, need, idc, stats, lock, main, exited, log, tables>>

RequestCount(w) ==
    LET k == KeyAt(w) IN
    /\ wk[w].pc = "reqcount" /\ lock[wk[w].kind] = NoOne
    /\ stats' = IF stats[k].loaded
                THEN [stats EXCEPT ![k] = IncrementRequests(@, ConfOf(k), now)] ELSE stats
    /\ RequestCounted(w)
    /\ UNCHANGED <<now, calls, need, idc, lock, main, exited, log, tables>>

(* _call_server looks the site up once more. *)
CallServer(w) ==
    LET x == route[wk[w].service] IN
    /\ wk[w].pc = "call"
    /\ wk' = [wk EXCEPT ![w].pc = IF x = NoSite THEN "writeerror" ELSE "getapi", ![w].site = x]
    /\ UNCHANGED <<now, calls, need, idc, stats, lock, main, exited, log, tables>>

(* get_api: operator[] makes an empty record of a site that has a pool, but is no
   longer configured.                                                        *)
GetApi(w) ==
    LET x == wk[w].site IN
    /\ wk[w].pc = "getapi"
    /\ IF x \in pools
       THEN /\ Goto(w, "wait")
            /\ server' = [server EXCEPT ![x] = IF @ = "none" THEN "blank" ELSE @]
       ELSE Goto(w, "writeerror") /\ UNCHANGED server
    /\ UNCHANGED <<now, calls, need, idc, stats, lock, main, exited, log, route, pools, keygen, is_init>>

CallSucceeds(w) ==
    /\ wk[w].pc = "wait"
    /\ Return(w)
    /\ UNCHANGED <<now, calls, need, idc, stats, lock, main, exited, log, tables>>

(* The connection fails, or there is none. *)
CallFails(w) ==
    /\ wk[w].pc = "wait"
    /\ Goto(w, "writeerror")
    /\ UNCHANGED <<now, calls, need, idc, stats, lock, main, exited, log, tables>>

(* trySwitch for the site that the service has now. *)
TrySwitch(w, e, writing) ==
    wk' = [wk EXCEPT ![w] = [pc |-> "errcheck", kind |-> "service", service |-> @.service,
                             site |-> route[@.service], error |-> e, writing |-> writing]]

(* The answer says result # 0; a look-up that fails throws. *)
AnswerIsError(w, e) ==
    /\ wk[w].pc = "wait"
    /\ IF route[wk[w].service] = NoSite THEN Goto(w, "writeerror") ELSE TrySwitch(w, e, FALSE)
    /\ UNCHANGED <<now, calls, need, idc, stats, lock, main, exited, log, tables>>

(* _write_error leaves the statistics alone when the look-up fails. *)
WriteError(w, e) ==
    /\ wk[w].pc = "writeerror"
    /\ IF route[wk[w].service] = NoSite THEN Return(w) ELSE TrySwitch(w, e, TRUE)
    /\ UNCHANGED <<now, calls, need, idc, stats, lock, main, exited, log, tables>>

----------------------------------------------------------------------------
(* trySwitch: try_service_switch, and unless that switched, try_site_switch. *)

NotSwitched(w) ==
    IF wk[w].kind = "service" THEN GoOn(w, "errcheck", "site") ELSE Return(w)

IsExist(k, e) == e \in ConfOf(k).errcode_list
NeedSwitch(stat) == stat.to_be_switched

(* A service counts every error but those listed, a site only those listed. *)
Counts(w) == Found(w) /\ (wk[w].kind = "site") = IsExist(KeyAt(w), wk[w].error)

ErrorCheck(w) ==
    /\ wk[w].pc = "errcheck"
    /\ IF Counts(w) THEN Goto(w, "errcount") ELSE NotSwitched(w)
    /\ UNCHANGED <<now, calls, need, idc, stats, lock, main, exited, log, tables>>

(* The lock is kept when the key needs a switch. *)
ErrorCount(w) ==
    LET k == KeyAt(w)  d == wk[w].kind IN
    /\ wk[w].pc = "errcount" /\ lock[d] = NoOne
    /\ IF stats[k].loaded
       THEN /\ stats' = [stats EXCEPT ![k] = IncrementErrors(@, ConfOf(k), now)]
            /\ log' = [log EXCEPT ![k] = Counted(@)]
       ELSE UNCHANGED <<stats, log>>
    /\ IF NeedSwitch(stats'[k])
       THEN lock' = [lock EXCEPT ![d] = w] /\ Goto(w, "servername")
       ELSE UNCHANGED lock /\ NotSwitched(w)
    /\ UNCHANGED <<now, calls, need, idc, main, exited, tables>>

(* server_name; a site without a name has an empty switch list. *)
ServerName(w) ==
    /\ wk[w].pc = "servername" /\ server[wk[w].site] # "none"
    /\ Goto(w, IF server[wk[w].site] = "real" THEN "nextidc" ELSE "reset")
    /\ UNCHANGED <<now, calls, need, idc, stats, lock, main, exited, log, tables>>

(* Mutation: the lock is not released by the exception. *)
NoServerName_KeepsLock(w) ==
    /\ wk[w].pc = "servername" /\ server[wk[w].site] = "none"
    /\ IF wk[w].writing THEN exited' = "exception" /\ Return(w)
                        ELSE Goto(w, "writeerror") /\ UNCHANGED exited
    /\ UNCHANGED <<now, calls, need, idc, stats, lock, main, log, tables>>

(* server_name throws.  From _service_dispatch the exception gets to the handler,
   which writes an error; from there it leaves the handler, and the process ends. *)
NoServerName(w) ==
    /\ wk[w].pc = "servername" /\ server[wk[w].site] = "none"
    /\ lock' = [lock EXCEPT ![wk[w].kind] = NoOne]
    /\ IF wk[w].writing THEN exited' = "exception" /\ Return(w)
                        ELSE Goto(w, "writeerror") /\ UNCHANGED exited
    /\ UNCHANGED <<now, calls, need, idc, stats, main, log, tables>>

(* Mutation: it returns at once when there is no other IDC. *)
NextIdc_NoReset(w) ==
    /\ wk[w].pc = "nextidc"
    /\ IF idc < NumIdcs THEN Goto(w, "seton") /\ UNCHANGED lock
       ELSE Return(w) /\ lock' = [lock EXCEPT ![wk[w].kind] = NoOne]
    /\ UNCHANGED <<now, calls, need, idc, stats, main, exited, log, tables>>

(* get_current_idc and get_next_idc: at the last IDC nothing is switched. *)
NextIdc(w) ==
    /\ wk[w].pc = "nextidc"
    /\ Goto(w, IF idc < NumIdcs THEN "seton" ELSE "reset")
    /\ UNCHANGED <<now, calls, need, idc, stats, lock, main, exited, log, tables>>

SetSwitchOn(w) ==
    LET x == wk[w].site IN
    /\ wk[w].pc = "seton"
    /\ need' = [need EXCEPT ![x] = @ \/ (SwitchOn /\ x \in pools)]
    /\ Goto(w, "reset")
    /\ UNCHANGED <<now, calls, idc, stats, lock, main, exited, log, tables>>

(* Mutation: the lock is kept until the other key is reset. *)
ResetStats_KeepsLock(w) ==
    /\ wk[w].pc = "reset"
    /\ stats' = ResetKey(KeyAt(w))
    /\ Forget(SameId(KeyAt(w)))
    /\ GoOn(w, "resetother", IF wk[w].kind = "service" THEN "site" ELSE "service")
    /\ UNCHANGED <<now, calls, need, idc, lock, main, exited, tables>>

ResetStats(w) ==
    /\ wk[w].pc = "reset"
    /\ stats' = ResetKey(KeyAt(w))
    /\ Forget(SameId(KeyAt(w)))
    /\ lock' = [lock EXCEPT ![wk[w].kind] = NoOne]
    /\ GoOn(w, "resetother", IF wk[w].kind = "service" THEN "site" ELSE "service")
    /\ UNCHANGED <<now, calls, need, idc, main, exited, tables>>

(* The key of the other kind is reset under its own lock. *)
ResetOther(w) ==
    /\ wk[w].pc = "resetother" /\ lock[wk[w].kind] = NoOne
    /\ stats' = ResetKey(KeyAt(w))
    /\ Forget(SameId(KeyAt(w)))
    /\ Return(w)
    /\ UNCHANGED <<now, calls, need, idc, lock, main, exited, tables>>

(* CApiPool::get serves the switch (in one step; see ApiPool). *)
ServeSwitch(x) ==
    /\ need[x]
    /\ need' = [need EXCEPT ![x] = FALSE]
    /\ idc' = IF idc < NumIdcs THEN idc + 1 ELSE idc
    /\ UNCHANGED <<now, calls, stats, lock, main, wk, exited, log, tables>>

----------------------------------------------------------------------------
(* reload_conf, as far as the statistics see it. *)

MainGoto(pc, kind) == main' = [main EXCEPT !.pc = pc, !.kind = kind]

NewConf == Confs[main.gen + 1]

ReloadClear ==
    /\ main.pc = "idle" /\ main.gen < Len(Confs)
    /\ route' = [s \in Service |-> NoSite]
    /\ MainGoto("routes", "service")
    /\ UNCHANGED <<now, calls, need, idc, stats, lock, wk, exited, log, server, pools, keygen, is_init>>

ReloadRead ==
    /\ main.pc = "routes"
    /\ route' = NewConf.route
    /\ MainGoto("hasite", "service")
    /\ UNCHANGED <<now, calls, need, idc, stats, lock, wk, exited, log, server, pools, keygen, is_init>>

ReloadHasite ==
    /\ main.pc = "hasite"
    /\ idc' = 1
    /\ MainGoto("core", "service")
    /\ UNCHANGED <<now, calls, need, stats, lock, wk, exited, log, tables>>

(* Pools are added for new sites and stay for those that are gone. *)
ReloadCore ==
    /\ main.pc = "core"
    /\ server' = [x \in Site |-> IF x \in NewConf.sites THEN "real" ELSE "none"]
    /\ pools' = pools \cup NewConf.sites
    /\ MainGoto("clear", "service")
    /\ UNCHANGED <<now, calls, need, idc, stats, lock, wk, exited, log, route, keygen, is_init>>

OfKind(k, d) == KindOf(k) = d

(* RelaySwitchMgr::re_init, first for services, then for sites. *)
ReinitClear ==
    LET d == main.kind IN
    /\ main.pc = "clear" /\ lock[d] = NoOne
    /\ lock' = [lock EXCEPT ![d] = Main]
    /\ is_init' = [is_init EXCEPT ![d] = FALSE]
    /\ stats' = [k \in Key |-> IF OfKind(k, d) THEN Absent ELSE stats[k]]
    /\ MainGoto("fill", d)
    /\ UNCHANGED <<now, calls, need, idc, wk, exited, log, route, server, pools, keygen>>

ReinitFill ==
    LET d == main.kind  new == Loaded(DOMAIN NewConf.keys, now) IN
    /\ main.pc = "fill"
    /\ lock' = [lock EXCEPT ![d] = NoOne]
    /\ is_init' = [is_init EXCEPT ![d] = TRUE]
    /\ keygen' = [keygen EXCEPT ![d] = main.gen + 1]
    /\ stats' = [k \in Key |-> IF OfKind(k, d) THEN new[k] ELSE stats[k]]
    /\ Forget({k \in Key : OfKind(k, d)})
    /\ main' = IF d = "service" THEN [main EXCEPT !.pc = "clear", !.kind = "site"]
               ELSE [pc |-> "idle", kind |-> "service", gen |-> main.gen + 1]
    /\ UNCHANGED <<now, calls, need, idc, wk, exited, route, server, pools>>

(* A worker is looking a key up, without the lock, when re_init clears the map. *)
RacingLookup(w) ==
    /\ main.pc = "clear" /\ lock[main.kind] = NoOne
    /\ wk[w].pc \in {"reqcheck", "errcheck"} /\ wk[w].kind = main.kind
    /\ exited' = "race"
    /\ UNCHANGED <<now, calls, need, idc, stats, lock, main, wk, log, tables>>

----------------------------------------------------------------------------
Step(w) ==
    \/ RequestCheck(w) \/ RequestCount(w)
    \/ CallServer(w) \/ GetApi(w) \/ CallSucceeds(w) \/ CallFails(w)
    \/ \E e \in Error : AnswerIsError(w, e) \/ WriteError(w, e)
    \/ ErrorCheck(w) \/ ErrorCount(w)
    \/ ServerName(w) \/ NoServerName(w) \/ NextIdc(w) \/ SetSwitchOn(w)
    \/ ResetStats(w) \/ ResetOther(w)

WorkerNext(w) ==
    \/ \E s \in Service : BeginCall(w, s) \/ RefuseCall(w, s)
    \/ Step(w) \/ RacingLookup(w)

Reload ==
    \/ ReloadClear \/ ReloadRead \/ ReloadHasite \/ ReloadCore
    \/ ReinitClear \/ ReinitFill

Next ==
    /\ exited = "no"
    /\ \/ Tick \/ Reload
       \/ \E w \in Worker : WorkerNext(w)
       \/ \E x \in Site : ServeSwitch(x)

Spec == Init /\ [][Next]_vars
=============================================================================

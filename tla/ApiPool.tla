------------------------------ MODULE ApiPool ------------------------------
(***************************************************************************)
(* The backend connection pools of the relay: one CApiPool per site        *)
(* (api/api_pool.cpp), the apis it hands out (api/api_base.cpp) and the    *)
(* current IDC of each server (src/hasite_conf.cpp), used by calls that    *)
(* run on the worker threads (src/relay_server.cpp).                       *)
(*                                                                         *)
(* A Call is the work of one client socket: take an api of its site, send  *)
(* the request on it, read the answer, give the api back, reply.           *)
(* CApiPool::get runs under the write lock of the pool, but an api is      *)
(* given back without any lock, and the current IDC is read and moved on   *)
(* under a lock of its own: those are the steps that interleave here.      *)
(* An Api is an address: "new" may return one that was deleted before.     *)
(* The process is one that goes on: an exception that leaves a handler     *)
(* ends it (RelayServer).                                                  *)
(***************************************************************************)
EXTENDS Integers, Sequences

CONSTANTS
    Call,           \* concurrent calls (client sockets being served)
    Site,           \* site_no values of CoreServer.conf, one pool each
    Server,         \* server names of hasite.xml
    ServerOf,       \* the server name of each site
    MiddleServers,  \* servers spoken to with the middle protocol: connections
                    \* are kept between calls; the relay protocol closes them
    Api,            \* addresses of CApiBase objects
    MaxConn,        \* max_conn_num of a pool
    NumIdc,         \* length of switch_order_list: IDCs are 1..NumIdc
    NodeIdcs,       \* the IDCs of the list that have a node in hasite.xml
    Reloads,        \* how many times SIGHUP reloads the configuration (bound)
    MaxFaults,      \* how many calls of add_event for a reply fail (bound)
    NoCall, NoApi, NoSite

ASSUME ApiPoolAssumption ==
    /\ ServerOf \in [Site -> Server]
    /\ MiddleServers \subseteq Server
    /\ MaxConn \in Nat /\ NumIdc \in Nat \ {0}
    /\ Reloads \in Nat /\ MaxFaults \in Nat
    /\ NodeIdcs \subseteq 1..NumIdc
    /\ NoCall \notin Call /\ NoApi \notin Api /\ NoSite \notin Site

VARIABLES
    api,            \* the CApiBase objects, by address
    pool,           \* _pool[0], _pool[1] of each site
    half,           \* _switch_factor % 2: which of the two _api_pool points to
    poolSize,       \* _pool_size
    needSwitch,     \* _need_switch
    switchState,    \* _switch_state
    lock,           \* owner of the write lock of each pool
    cur,            \* current_idc of each server, an index of its switch order
    pc, site, held, \* each call: where it is, its site, its CApiBase pointer
    idc,            \* each call: the local "idc" of _add_api
    reload,         \* the SIGHUP handler: what is left of it, and how often it may run
    faults,         \* calls of add_event that may still fail
    torn            \* addresses of the apis that a call gave back a second time, while
                    \* another call had them (the variable is only there to say so)

callVars == <<pc, site, held, idc>>
poolVars == <<pool, half, poolSize, needSwitch, switchState>>
vars == <<api, poolVars, lock, cur, callVars, reload, faults, torn>>

Idcs == 1..NumIdc

(* _is_used, the _idc it was created for, whether _fd is a connection, whose
   packet _req_packet points to, and whose answer is still to come on _fd.   *)
ApiObject == [live : BOOLEAN, used : BOOLEAN, idc : Idcs, open : BOOLEAN,
              req : Call \cup {NoCall}, wire : Call \cup {NoCall}]

InLock == {"sweep", "check", "pick", "advance", "readidc", "create"}
Using  == {"got", "waiting"}
After  == {"replying", "answering", "caught"}
PCs    == InLock \cup Using \cup After \cup {"idle", "erring", "switching"}

TypeOK ==
    /\ api \in [Api -> ApiObject]
    /\ pool \in [Site -> [{0, 1} -> Seq(Api \cup {NoApi})]]
    /\ half \in [Site -> {0, 1}]
    /\ poolSize \in [Site -> Nat]
    /\ needSwitch \in [Site -> BOOLEAN]
    /\ switchState \in [Site -> {"PRIOR", "ONGOING", "FINISHED"}]
    /\ lock \in [Site -> Call \cup {NoCall}]
    /\ cur \in [Server -> Idcs]
    /\ pc \in [Call -> PCs]
    /\ site \in [Call -> Site \cup {NoSite}]
    /\ held \in [Call -> Api \cup {NoApi}]
    /\ idc \in [Call -> Idcs]
    /\ reload \in [step : {"none", "cleared", "read"}, left : 0..Reloads]
    /\ faults \in 0..MaxFaults
    /\ torn \subseteq Api

----------------------------------------------------------------------------
(* Operators on an api object. *)

Current(s) == pool[s][half[s]]
Old(s)     == pool[s][1 - half[s]]

(* CApiBase::fini: the connection is dropped when asked for, and always by
   the relay protocol; an answer still to come is lost with it.             *)
Fini(object, close) ==
    [object EXCEPT !.req  = NoCall,
                   !.open = @ /\ ~close,
                   !.wire = IF close THEN NoCall ELSE @]

(* Mutation: force_close is ignored. *)
SetFree_NeverCloses(object, close) == [Fini(object, FALSE) EXCEPT !.used = FALSE]

(* CApiBase::set_free: fini, then _is_used = false, without any lock. *)
SetFree(object, close) == [Fini(object, close) EXCEPT !.used = FALSE]

(* CApiBase::set_used: a connection that check_tcp_ok finds dead is closed;
   for _fd == -1 check_tcp_ok reads an uninitialized tcp_info.              *)
SetUsed(object, tcpOk) ==
    [(IF tcpOk THEN object ELSE Fini(object, TRUE)) EXCEPT !.used = TRUE]

(* ~CApiBase: the socket is closed. *)
Deleted(object) == [object EXCEPT !.live = FALSE, !.open = FALSE, !.wire = NoCall]

(* encode, connect and send; the answer is read off the connection. *)
Sent(object, c)  == [object EXCEPT !.req = c, !.open = TRUE, !.wire = c]
Answered(object) == [object EXCEPT !.wire = NoCall]

(* A store through a CApiBase pointer; one through a pointer to deleted memory
   changes no object of the model.                                           *)
Store(a, object) == api' = IF api[a].live THEN [api EXCEPT ![a] = object] ELSE api

KeepsConnection(s) == ServerOf[s] \in MiddleServers

(* Mutation: the api does not note the IDC it was made for. *)
NewApi_NoIdc(i) == [live |-> TRUE, used |-> TRUE, idc |-> 0, open |-> FALSE,
                    req |-> NoCall, wire |-> NoCall]

(* The value a new CApiBase starts with. *)
NewApi(i) == [live |-> TRUE, used |-> TRUE, idc |-> i, open |-> FALSE,
              req |-> NoCall, wire |-> NoCall]

FreeSlots(seq) == {i \in 1..Len(seq) : seq[i] # NoApi /\ ~api[seq[i]].used}

(* Mutation: the pointer to a deleted api stays in the vector. *)
WithoutFree_Dangling(seq) == seq

(* What the clean-up leaves of a vector: a NULL where it deleted an api. *)
WithoutFree(seq) ==
    [i \in 1..Len(seq) |-> IF i \in FreeSlots(seq) THEN NoApi ELSE seq[i]]

----------------------------------------------------------------------------
Init ==
    /\ api = [a \in Api |-> [live |-> FALSE, used |-> FALSE, idc |-> 1,
                             open |-> FALSE, req |-> NoCall, wire |-> NoCall]]
    /\ pool = [s \in Site |-> [h \in {0, 1} |-> <<>>]]
    /\ half = [s \in Site |-> 0]
    /\ poolSize = [s \in Site |-> 0]
    /\ needSwitch = [s \in Site |-> FALSE]
    /\ switchState = [s \in Site |-> "PRIOR"]
    /\ lock = [s \in Site |-> NoCall]
    /\ cur = [v \in Server |-> 1]
    /\ pc = [c \in Call |-> "idle"]
    /\ site = [c \in Call |-> NoSite]
    /\ held = [c \in Call |-> NoApi]
    /\ idc = [c \in Call |-> 1]
    /\ reload = [step |-> "none", left |-> Reloads]
    /\ faults = MaxFaults
    /\ torn = {}

Goto(c, l) == pc' = [pc EXCEPT ![c] = l]

Unlock(c) == lock' = [lock EXCEPT ![site[c]] = NoCall]

(* The end of a call: every local of it is gone. *)
Done(c) ==
    /\ Goto(c, "idle")
    /\ site' = [site EXCEPT ![c] = NoSite]
    /\ held' = [held EXCEPT ![c] = NoApi]
    /\ idc' = [idc EXCEPT ![c] = 1]

(* Leave CApiPool::get with an exception: nothing was taken. *)
Throw(c) ==
    /\ Unlock(c)
    /\ Goto(c, "erring")
    /\ UNCHANGED <<site, held, idc>>

----------------------------------------------------------------------------
(* CApiPool::get, under the write lock of the pool. *)

Lock(c, s) ==
    /\ pc[c] = "idle" /\ lock[s] = NoCall
    /\ lock' = [lock EXCEPT ![s] = c]
    /\ site' = [site EXCEPT ![c] = s]
    /\ Goto(c, IF switchState[s] = "ONGOING" THEN "sweep" ELSE "pick")
    /\ UNCHANGED <<api, poolVars, cur, held, idc, reload, faults, torn>>

(* Mutation: the loop does not ask is_free. *)
Sweep_All(c) ==
    LET s == site[c] IN
    /\ pc[c] = "sweep"
    /\ api' = [a \in Api |-> IF \E i \in 1..Len(Old(s)) : Old(s)[i] = a
                             THEN Deleted(api[a]) ELSE api[a]]
    /\ pool' = [pool EXCEPT ![s][1 - half[s]] = [i \in 1..Len(Old(s)) |-> NoApi]]
    /\ Goto(c, "check")
    /\ UNCHANGED <<half, poolSize, needSwitch, switchState, lock, cur,
                   site, held, idc, reload, faults, torn>>

(* First loop over the old pool: delete what is free. *)
Sweep(c) ==
    LET s == site[c]  gone == FreeSlots(Old(s)) IN
    /\ pc[c] = "sweep"
    /\ api' = [a \in Api |-> IF \E i \in gone : Old(s)[i] = a
                             THEN Deleted(api[a]) ELSE api[a]]
    /\ pool' = [pool EXCEPT ![s][1 - half[s]] = WithoutFree(Old(s))]
    /\ Goto(c, "check")
    /\ UNCHANGED <<half, poolSize, needSwitch, switchState, lock, cur,
                   site, held, idc, reload, faults, torn>>

(* Mutation: any element left, a NULL included, counts as in use. *)
Check_CountsHoles(c) ==
    LET s == site[c] IN
    /\ pc[c] = "check"
    /\ IF Old(s) # <<>>
       THEN UNCHANGED <<pool, switchState>>
       ELSE /\ pool' = [pool EXCEPT ![s][1 - half[s]] = <<>>]
            /\ switchState' = [switchState EXCEPT ![s] = "FINISHED"]
    /\ Goto(c, "pick")
    /\ UNCHANGED <<api, half, poolSize, needSwitch, lock, cur, site, held, idc,
                   reload, faults, torn>>

(* Second loop: with no api of the old pool in use now, the vector is cleared. *)
Check(c) ==
    LET s == site[c]
        inUse == \E i \in 1..Len(Old(s)) : Old(s)[i] # NoApi /\ api[Old(s)[i]].used
    IN
    /\ pc[c] = "check"
    /\ IF inUse
       THEN UNCHANGED <<pool, switchState>>
       ELSE /\ pool' = [pool EXCEPT ![s][1 - half[s]] = <<>>]
            /\ switchState' = [switchState EXCEPT ![s] = "FINISHED"]
    /\ Goto(c, "pick")
    /\ UNCHANGED <<api, half, poolSize, needSwitch, lock, cur, site, held, idc,
                   reload, faults, torn>>

(* The scan for the first free api of the current pool, and what follows it. One
   step stands for a scan: apis only turn from used to free meanwhile, and one
   that does so behind the scan may as well have done it after.              *)
TakeFreeOrGrow(c) ==
    LET s == site[c]  free == FreeSlots(Current(s)) IN
    IF free = {}
    THEN Goto(c, "readidc") /\ UNCHANGED <<api, lock, held>>
    ELSE \E i \in free, tcpOk \in BOOLEAN :
            /\ \A j \in free : i <= j
            /\ api' = [api EXCEPT ![Current(s)[i]] = SetUsed(@, tcpOk)]
            /\ held' = [held EXCEPT ![c] = Current(s)[i]]
            /\ Unlock(c)
            /\ Goto(c, "got")

(* No switch is asked for. *)
Pick(c) ==
    /\ pc[c] = "pick" /\ ~needSwitch[site[c]]
    /\ TakeFreeOrGrow(c)
    /\ UNCHANGED <<poolVars, cur, site, idc, reload, faults, torn>>

(* A switch is asked for, but get_next_idc finds no further IDC. *)
PickLastIdc(c) ==
    /\ pc[c] = "pick" /\ needSwitch[site[c]]
    /\ cur[ServerOf[site[c]]] = NumIdc
    /\ needSwitch' = [needSwitch EXCEPT ![site[c]] = FALSE]
    /\ TakeFreeOrGrow(c)
    /\ UNCHANGED <<pool, half, poolSize, switchState, cur, site, idc,
                   reload, faults, torn>>

(* A switch is asked for while the last one still has apis in use. *)
SwitchBusy(c) ==
    /\ pc[c] = "pick" /\ needSwitch[site[c]]
    /\ cur[ServerOf[site[c]]] < NumIdc
    /\ switchState[site[c]] = "ONGOING"
    /\ Throw(c)
    /\ UNCHANGED <<api, poolVars, cur, reload, faults, torn>>

(* Mutation: _api_pool keeps pointing to the same vector. *)
Swap_SameVector(c) ==
    LET s == site[c] IN
    /\ pc[c] = "pick" /\ needSwitch[s]
    /\ cur[ServerOf[s]] < NumIdc
    /\ switchState[s] # "ONGOING"
    /\ switchState' = [switchState EXCEPT ![s] = "ONGOING"]
    /\ Goto(c, "advance")
    /\ UNCHANGED <<api, pool, half, poolSize, needSwitch, lock, cur,
                   site, held, idc, reload, faults, torn>>

(* A switch is asked for: the other vector becomes the current pool. *)
Swap(c) ==
    LET s == site[c] IN
    /\ pc[c] = "pick" /\ needSwitch[s]
    /\ cur[ServerOf[s]] < NumIdc
    /\ switchState[s] # "ONGOING"
    /\ switchState' = [switchState EXCEPT ![s] = "ONGOING"]
    /\ half' = [half EXCEPT ![s] = 1 - @]
    /\ poolSize' = [poolSize EXCEPT ![s] = Len(Old(s))]
    /\ Goto(c, "advance")
    /\ UNCHANGED <<api, pool, needSwitch, lock, cur, site, held, idc,
                   reload, faults, torn>>

(* CHaSiteConf::set_current_idc, which looks the next IDC up again. *)
AdvanceIdc(c) ==
    LET s == site[c]  v == ServerOf[s] IN
    /\ pc[c] = "advance"
    /\ cur' = [cur EXCEPT ![v] = IF @ < NumIdc THEN @ + 1 ELSE @]
    /\ needSwitch' = [needSwitch EXCEPT ![s] = FALSE]
    /\ Goto(c, "readidc")
    /\ UNCHANGED <<api, pool, half, poolSize, switchState, lock, site, held, idc,
                   reload, faults, torn>>

(* A new api is wanted: BUSY at the limit, else read the current IDC. *)
ReadIdc(c) ==
    LET s == site[c] IN
    /\ pc[c] = "readidc"
    /\ IF poolSize[s] < MaxConn
       THEN /\ idc' = [idc EXCEPT ![c] = cur[ServerOf[s]]]
            /\ Goto(c, "create")
            /\ UNCHANGED <<lock, site, held>>
       ELSE Throw(c)
    /\ UNCHANGED <<api, poolVars, cur, reload, faults, torn>>

(* CHaSiteConf::_get finds no node of that IDC: "no site can use". *)
CreateThrows(c) ==
    /\ pc[c] = "create" /\ idc[c] \notin NodeIdcs
    /\ Throw(c)
    /\ UNCHANGED <<api, poolVars, cur, reload, faults, torn>>

(* CApiPool::_add_api: look the node of the IDC up, create the api, push it. *)
Create(c) ==
    LET s == site[c] IN
    /\ pc[c] = "create" /\ idc[c] \in NodeIdcs
    /\ \E a \in Api :
          /\ ~api[a].live
          /\ api' = [api EXCEPT ![a] = NewApi(idc[c])]
          /\ pool' = [pool EXCEPT ![s][half[s]] = Append(@, a)]
          /\ held' = [held EXCEPT ![c] = a]
    /\ poolSize' = [poolSize EXCEPT ![s] = @ + 1]
    /\ Unlock(c)
    /\ Goto(c, "got")
    /\ UNCHANGED <<half, needSwitch, switchState, cur, site, idc, reload, faults, torn>>

----------------------------------------------------------------------------
(* The call uses its api: CRelayServer::_call_server and _service_handler. *)

(* encode, connect when there is no connection, send the request. *)
Send(c) ==
    /\ pc[c] = "got"
    /\ Store(held[c], Sent(api[held[c]], c))
    /\ Goto(c, "waiting")
    /\ UNCHANGED <<poolVars, lock, cur, site, held, idc, reload, faults, torn>>

(* The answer was read: decode, set_free(false), client_socket.api(NULL). The
   event fires only on a connection that still carries this call's request. *)
Receive(c) ==
    /\ pc[c] = "waiting"
    /\ api[held[c]].open /\ api[held[c]].req = c
    /\ Store(held[c], SetFree(Answered(api[held[c]]), ~KeepsConnection(site[c])))
    /\ Goto(c, "replying")
    /\ UNCHANGED <<poolVars, lock, cur, site, held, idc, reload, faults, torn>>

(* Any failure before the answer is complete: set_free(true). *)
Fail(c) ==
    /\ pc[c] \in Using
    /\ Store(held[c], SetFree(api[held[c]], TRUE))
    /\ held' = [held EXCEPT ![c] = NoApi]
    /\ Goto(c, "erring")
    /\ UNCHANGED <<poolVars, lock, cur, site, idc, reload, faults, torn>>

(* The rest of _service_dispatch succeeds: the reply is queued to the client. *)
Reply(c) ==
    /\ pc[c] \in {"replying", "answering"}
    /\ Done(c)
    /\ UNCHANGED <<api, poolVars, lock, cur, reload, faults, torn>>

(* An answer with result # 0 looks request_type up again, and trySwitch looks the
   server of the site up: they throw while a reload has emptied those tables, and
   ever after when it leaves the request type or the site out.                *)
LookUpThrows(c) ==
    /\ pc[c] = "replying" /\ reload.left < Reloads
    /\ Goto(c, "caught")
    /\ UNCHANGED <<api, poolVars, lock, cur, site, held, idc, reload, faults, torn>>

(* add_event fails for the reply, whether a switch was asked for or not. *)
AddThrows(c) ==
    /\ pc[c] \in {"replying", "answering"} /\ faults > 0
    /\ faults' = faults - 1
    /\ Goto(c, "caught")
    /\ UNCHANGED <<api, poolVars, lock, cur, site, held, idc, reload, torn>>

(* The handler of _service_handler frees the api it still points to, which is no
   longer its own.                                                            *)
FreeAgain(c) ==
    /\ pc[c] = "caught"
    /\ Store(held[c], SetFree(api[held[c]], TRUE))
    /\ torn' = IF api[held[c]].live /\ api[held[c]].used THEN torn \cup {held[c]}
               ELSE torn
    /\ held' = [held EXCEPT ![c] = NoApi]
    /\ Goto(c, "erring")
    /\ UNCHANGED <<poolVars, lock, cur, site, idc, reload, faults>>

(* _write_error without a switch. *)
WriteError(c) ==
    /\ pc[c] = "erring"
    /\ Done(c)
    /\ UNCHANGED <<api, poolVars, lock, cur, reload, faults, torn>>

(* RelaySwitchMgr: the counters ask for a switch, and a next IDC exists now. *)
TrySwitch(c) ==
    /\ pc[c] \in {"replying", "erring"} /\ reload.step # "cleared"
    /\ cur[ServerOf[site[c]]] < NumIdc
    /\ Goto(c, "switching")
    /\ UNCHANGED <<api, poolVars, lock, cur, site, held, idc, reload, faults, torn>>

(* CApiPool::set_switch_on, under the write lock of the pool. After an answer the
   rest of _service_dispatch follows.                                        *)
SetSwitchOn(c) ==
    /\ pc[c] = "switching" /\ lock[site[c]] = NoCall
    /\ needSwitch' = [needSwitch EXCEPT ![site[c]] = TRUE]
    /\ IF held[c] = NoApi THEN Done(c)
       ELSE Goto(c, "answering") /\ UNCHANGED <<site, held, idc>>
    /\ UNCHANGED <<api, pool, half, poolSize, switchState, lock, cur,
                   reload, faults, torn>>

----------------------------------------------------------------------------
(* CRelayServer::reload_conf on SIGHUP: request_type is emptied, then read;
   hasite.xml is read again, which returns every server to its first IDC.   *)

ReloadClear ==
    /\ reload.step = "none" /\ reload.left > 0
    /\ reload' = [step |-> "cleared", left |-> reload.left - 1]
    /\ UNCHANGED <<api, poolVars, lock, cur, callVars, faults, torn>>

ReloadRead ==
    /\ reload.step = "cleared"
    /\ reload' = [reload EXCEPT !.step = "read"]
    /\ UNCHANGED <<api, poolVars, lock, cur, callVars, faults, torn>>

ReloadHasite ==
    /\ reload.step = "read"
    /\ reload' = [reload EXCEPT !.step = "none"]
    /\ cur' = [v \in Server |-> 1]
    /\ UNCHANGED <<api, poolVars, lock, callVars, faults, torn>>

----------------------------------------------------------------------------
Get(c) ==
    \/ Sweep(c) \/ Check(c) \/ Pick(c) \/ PickLastIdc(c) \/ SwitchBusy(c)
    \/ Swap(c) \/ AdvanceIdc(c) \/ ReadIdc(c) \/ Create(c)
    \/ CreateThrows(c)

Use(c) ==
    \/ Send(c) \/ Receive(c) \/ Fail(c) \/ Reply(c) \/ LookUpThrows(c)
    \/ AddThrows(c) \/ FreeAgain(c) \/ WriteError(c) \/ TrySwitch(c) \/ SetSwitchOn(c)

Reload == ReloadClear \/ ReloadRead \/ ReloadHasite

Next ==
    \/ \E c \in Call : Get(c) \/ Use(c) \/ \E s \in Site : Lock(c, s)
    \/ Reload

Spec == Init /\ [][Next]_vars
=============================================================================

---------------------------- MODULE SiteConfProps ----------------------------
(***************************************************************************)
(* What must hold of the tables of sites, IDCs and texts.                  *)
(***************************************************************************)
EXTENDS SiteConf

(* What the files are taken to hold.  A line without a user is none that parses
   (core_server_conf.cpp:141), IDCs have names, and each server has one element, so that
   it is read with the first of its IDCs as the current one or, when the element is bad,
   without one: the second element of a server would leave the current IDC of the first. *)
ServerInfo(info) ==
    /\ info = [f \in {"order", "nodes", "cur"} |-> info[f]] /\ info.order \in Seq(ToSet(info.order))
    /\ \A i \in DOMAIN info.order : info.order[i] # ""
HasiteRead(f) ==
    LET tbl == HasiteConf(Empty, f.hasite).tbl IN
    /\ tbl = [v \in DOMAIN tbl |-> tbl[v]]
    /\ \A v \in DOMAIN tbl :
          /\ ServerInfo(tbl[v])
          /\ tbl[v].cur # "" => 1 \in DOMAIN tbl[v].order /\ tbl[v].cur = tbl[v].order[1]
UsersGiven(f) ==
    f.core # Missing => \A i \in DOMAIN f.core : f.core[i].ok => f.core[i].val.user # ""
ASSUME FilesSound == \A f \in Files \cup {Installed} : HasiteRead(f) /\ UsersGiven(f)

TypeOK ==
    /\ rw.writer \in {None, Main}
    /\ \A s \in DOMAIN pool : pool[s].server \in DOMAIN moved /\ pool[s].on \in BOOLEAN
    /\ \A s \in DOMAIN conf : DOMAIN conf[s] = {"server", "user"}
    /\ \A v \in DOMAIN hasite : hasite[v].cur \in {""} \cup ToSet(hasite[v].order)
    /\ reload.at \in {"idle", "errors", "details", "hasite", "wlock", "clear", "read", "grow", "fail"}
    /\ \A w \in Worker :
          /\ job[w].at \in {"idle", "rlock"} \cup InLock \cup Asking \cup Telling
          /\ job[w].at \in InPool => job[w].site \in DOMAIN pool
          /\ \A v \in Worker \ {w} :
                /\ ~(job[w].at \in InPool /\ job[v].at \in InPool /\ job[w].site = job[v].site)
                /\ ~(job[w].at \in Asking /\ job[v].at \in Asking)

(* Until a re_init has read the sites for the first time, nobody looks into them while
   it changes them, and the lock counts those who do.  Every re_init takes one off
   the count for good, so that the next one finds it below zero when nobody reads,
   and waits (core_server_conf.cpp:258-262).                                 *)
LockCounts ==
    IF reload.broke = 0
    THEN /\ rw.readers = Cardinality(Inside)
         /\ reload.at \in {"clear", "read"} => Inside = {} /\ rw.writer = Main
    ELSE reload.at \notin {"clear", "read", "grow", "fail"} => rw.readers < Cardinality(Inside)

(* No call logs in with a blank user as long as the lock is whole, unless its site is not
   in the file: the sites are cleared and read without a gap (core_server_conf.cpp:204). *)
UserKnown ==
    \A w \in Worker :
       job[w].at \in InPool \cup {"get"} /\ job[w].user = "" =>
          reload.broke > 0 \/ disk.core = Missing \/ job[w].site \notin DOMAIN Table(disk.core)

(* The first re_init works under its lock; what the next ones do is not promised. *)
LockKept == TypeOK /\ LockCounts /\ UserKnown

(* An IDC is left only for a switch that was asked for, each for one pool and once, and
   a reload starts from the first (switch_mgr.cpp:193, hasite_conf.cpp:220): two
   sites of one server may ask for one switch each, and two are then made.   *)
MovesAsked ==
    \A v \in DOMAIN moved :
       /\ moved[v].made + Cardinality({s \in DOMAIN pool : pool[s].server = v /\ pool[s].on}) <= moved[v].asked
       /\ v \in DOMAIN hasite /\ hasite[v].cur # "" =>
             \E i \in DOMAIN hasite[v].order :
                i <= 1 + moved[v].since /\ hasite[v].order[i] = hasite[v].cur

Says(tbl, c) == IF c \notin DOMAIN tbl THEN "own"
                ELSE IF tbl[c] = "NO_ESCAPE" THEN "" ELSE tbl[c]

(* A client is told what the table says of its code; when the table was read again in
   between, nothing, or the mark of another code's text, but never what no table said
   (client_socket.cpp:342-347).                                              *)
ToldRight ==
    \A w \in Worker : job[w].at = "told" /\ CodeOf(w) # 0 =>
       LET span == job[w].from..Len(seen) c == CodeOf(w) IN
       \/ \E i \in span : job[w].text = Says(seen[i], c)
       \/ Cardinality(span) > 1 /\ \E i \in span :
             /\ c \in DOMAIN seen[i] /\ job[w].text \in {"", seen[i][c]}

(* What is counted as the result of a call is what its client reads in what it is sent;
   beside the result it reads the text of the code and, for a type answered in full,
   every parameter as the back end gave it (client_socket.cpp:316-389, 466-481). *)
ClientReads ==
    \A w \in Worker : job[w].at = "told" =>
       \E a \in {job[w].answer} : \E sent \in {encode(a, job[w].full, job[w].text)} :
          /\ get_call_result([a EXCEPT !.body = sent]) = get_call_result(a)
          /\ IsText(a) /\ CodeOf(w) # 0 =>
               \E given \in {parseUrl(a.body)}, read \in {parseUrl(sent)} :
                  /\ ~isEmpty(read, ResInfo)
                  /\ job[w].text \notin {"", "own"} => read[ResInfo] = <<job[w].text>>
                  /\ \A n \in DOMAIN read \ {ResInfo} : read[n] = ValueOf(given, n)
                  /\ DOMAIN read \subseteq DOMAIN given \cup {ResInfo}
                  /\ IF job[w].full THEN DOMAIN given \subseteq DOMAIN read
                     ELSE DOMAIN read \subseteq {Result, ResInfo, Comm}

(* Whatever parameters a text is parsed into, parsing what they are packed into gives them
   again, and their result comes first; and any value comes back from its encoding
   (trpc_url_param_map.cpp).  Tried on all of Texts, once an answer is encoded. *)
PackParse(s) ==
    \E param \in {parseUrl(s)} : \E packed \in {packUrl(param)} : \E again \in {parseUrl(packed)} :
       /\ again = param
       /\ packUrl(again) = packed
       /\ parseUrl(packUrl(Result :> s)) = (Result :> s)
       /\ SubSeq(packUrl((Result :> s) @@ param), 1, 1) = Result
AllReadBack == \A s \in Texts : PackParse(s)
ReadsBack   == (\E w \in Worker : job[w].at = "told") => AllReadBack

(* The client can read what it is sent: the result that was counted and the text. *)
ClientTold == ClientReads /\ ReadsBack

(* After a reload that read every file, as long as re_init has given its lock back once at
   most, each table is what its file says and, beyond it, only blanks that were looked
   for; every site of the file has a pool, and a pool whose site is gone stays
   (relay_server.cpp:100-110).                                               *)
SitesFollowFiles ==
    reload.at = "idle" /\ reload.ok /\ reload.broke <= 1 =>
       LET texts == Table(disk.errors) sites == Table(disk.core) IN
       /\ \A c \in DOMAIN errors : errors[c] = IF c \in DOMAIN texts THEN texts[c] ELSE ""
       /\ details = disk.details
       /\ \A s \in DOMAIN conf : conf[s] = IF s \in DOMAIN sites THEN sites[s] ELSE NoSite
       /\ DOMAIN sites \subseteq DOMAIN conf \cap DOMAIN pool
       /\ \E idcs \in {HasiteConf(Empty, disk.hasite).tbl} :
             /\ DOMAIN idcs \subseteq DOMAIN hasite
             /\ \A v \in DOMAIN hasite :
                   IF v \in DOMAIN idcs THEN [hasite[v] EXCEPT !.cur = idcs[v].cur] = idcs[v]
                   ELSE hasite[v] = NoServer
=============================================================================

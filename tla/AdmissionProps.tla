--------------------------- MODULE AdmissionProps ---------------------------
(***************************************************************************)
(* What must hold of the admission of requests.                            *)
(***************************************************************************)
EXTENDS Admission

(* A thread that counts, or that is between the two counts of a rule, counts on a
   counter that is still there: the reload deletes the rules and clears the limits,
   and both only wait for the read lock (service_request_control.cpp:128-130). *)
CountsOnLive ==
    \A w \in Worker :
       /\ job[w].at \in Counting => reg[w].ctr \in DOMAIN counter
       /\ job[w].at \in InRules => MasterKey(job[w].req) \in DOMAIN rules.tbl

(* As long as no two threads mixed on a counter, its limit is kept in a window, for
   FreqLimit.conf except for the one call that opened it (frequency_control.cpp:132),
   and nobody is refused before the limit was reached.                       *)
WindowExact ==
    \A c \in DOMAIN counter :
       LET s == stat[c] m == counter[c].max IN
       ~s.torn =>
          /\ s.passed <= IF c[1] = "limit" THEN m + 1 ELSE IF m = 0 THEN 1 ELSE m
          /\ s.refused > 0 => s.passed >= m

(* However the threads mix, a request is refused only when more requests than the
   limit were counted since the file was read: what is lost, or carried over into
   the next window, is never more than what came.                            *)
NeverTooEarly ==
    \A c \in DOMAIN counter : stat[c].refused > 0 => stat[c].all > counter[c].max

(* What a service of a master key was called is in the count of the master key too,
   and the other way round a request the service's rule refuses has used up one
   of the master key's calls (service_fixed_control_rule.cpp:108,154).       *)
MasterCountsAll ==
    \A m \in DOMAIN rules.tbl : stat[MasterOf(m)].items <= stat[MasterOf(m)].all

(* Limits are kept as far as threads that count under a read lock can keep them. *)
LimitsKept == TypeOK /\ CountsOnLive /\ WindowExact /\ NeverTooEarly /\ MasterCountsAll

(* A request that reaches its service was on an address list that was in force since
   it was decoded, and after that on an authorisation list, or the authorisation
   was being reloaded at that moment (service_authorize_access.cpp:91).      *)
Admitted ==
    \A w \in Worker : job[w].at \in Stage \ {"idle", "access", "auth", "authlist"} =>
       \E i, j \in job[w].from..Len(past) :
          /\ i <= j
          /\ Listed(past[i].access, job[w].req)
          /\ ~past[j].on \/ OnList(past[j].auth, job[w].req)

(* Authorisation is off only inside a reload, or because its file could not be opened
   in the last reload that came so far: then everyone is authorised.         *)
AuthorizationHolds ==
    ~auth.on => reload.at = "readauth" \/ auth.tbl = Empty

(* Nobody is let in without having been on the lists, but while they are read. *)
OnlyAdmitted == Admitted /\ AuthorizationHolds

LimitsAre(tbl) ==
    /\ {c \in DOMAIN counter : IsLimit(c)} = {<<"limit", k[1], k[2]>> : k \in DOMAIN tbl}
    /\ \A k \in DOMAIN tbl : LET c == counter[<<"limit", k[1], k[2]>>] IN
          c.time = tbl[k].time /\ c.max = tbl[k].max

(* The files in the order they are read in: what a table is when its file was read, and
   when it could not be.  The fourth is that of the error codes or of the details. *)
Read(n) ==
    CASE n = 1 -> Missing \notin {disk.types[i] : i \in DOMAIN Ranges} /\ types = Tables(disk.types)
      [] n = 2 -> disk.access # Missing /\ access = Table(disk.access)
      [] n = 3 -> disk.limits # Missing /\ LimitsAre(Table(disk.limits))
      [] n = 4 -> disk.others # Missing
      [] n = 5 -> disk.auth # Missing /\ auth = [on |-> TRUE, tbl |-> Table(disk.auth)]
Failed(n) ==
    CASE n = 1 -> \E i \in DOMAIN Ranges :
                       disk.types[i] = Missing /\ types = Tables(SubSeq(disk.types, 1, i - 1))
      [] n = 2 -> disk.access = Missing /\ access = Empty
      [] n = 3 -> disk.limits = Missing /\ LimitsAre(Empty)
      [] n = 4 -> disk.others = Missing
      [] n = 5 -> disk.auth = Missing /\ auth = [on |-> FALSE, tbl |-> Empty]

(* The address list and the authorisation are those of before the reload. *)
OldAccess == access = past[reload.from].access
OldAuth   == auth.on = past[reload.from].on /\ auth.tbl = past[reload.from].auth

(* After a reload the tables are those of the files.  After one that failed they are so
   up to the file that could not be opened, whose own table is left empty (nobody
   is let in, nothing limited, or everyone authorised until the next reload), and
   the lists behind it are the old ones: new address lists and limits may stand
   beside an old authorisation (relay_server.cpp:84-107).                    *)
TablesFollowFiles ==
    reload.at = "idle" =>
       IF reload.ok THEN \A n \in 1..5 : Read(n)
       ELSE \E n \in 1..5 :
               /\ Failed(n) /\ \A m \in 1..n - 1 : Read(m)
               /\ n < 2 => OldAccess
               /\ n < 5 => OldAuth
=============================================================================

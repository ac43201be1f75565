----------------------------- MODULE LifeProps -----------------------------
(* What is claimed of the process and its log. *)
EXTENDS Life

TypeOK ==
    /\ file \in [0..Last -> SUBSET (1..MaxLines)] /\ put \in 0..MaxLines
    /\ open \in BOOLEAN /\ count \in 0..Shift - 1 /\ rot \in 0..Remove \ {MaxNum - 1}
    /\ holder \in Writer \cup {NoWriter} /\ faults \in 0..MaxFaults
    /\ proc \in {"off", "alive", "exited", "crashed", "wrecked"}
    /\ main \in Starting \cup Ending \cup {"join"} /\ ender \in {"main", "thread"} /\ conf \in Confs
    /\ logs \in {"none", "open", "deleted"} /\ owner \in {"own", "server"}
    /\ array \in {"null", "made", "dangling"} /\ fd \in {"zero", "open", "listening", "closed"}
    /\ ready \in 0..NumThreads /\ running \in 0..NumThreads + 1 /\ mgr \in BOOLEAN
    /\ pending \in BOOLEAN /\ hup \in [Stack -> {"none", "in", "logged"}]
    /\ asked \in {"no", "serving", "early"}
    /\ exits \in 0..2 /\ starts \in 0..MaxStarts /\ hups \in 0..MaxHups

(* The files are the last lines that were written, the older ones in the files of
   higher numbers, however often a rename failed or the process was killed in the
   middle of them.                                                           *)
LogOrdered ==
    /\ \A i, j \in 0..Last : \A x \in file[i], y \in file[j] : i < j => y < x
    /\ LET kept == UNION {file[i] : i \in 0..Last} IN
       \A x \in kept : x..put \subseteq kept

(* A rotation gives up the oldest file only: there are MaxNum - 1 full ones, less one
   for each failure and for each start, which may find a rotation half done. *)
Slack == MaxFaults - faults + (IF starts > 0 THEN starts - 1 ELSE 0)
Retained ==
    LET kept == UNION {file[i] : i \in 0..Last} IN
    kept = 1..put \/ Cardinality(kept) >= (MaxNum - 1 - Slack) * MaxSize

(* base.log is looked at every LOG_SHIFT_COUNT lines: it outgrows its size by less than
   that, and by as much again for each failure and for each new start, which
   counts from nothing.                                                      *)
SizeBound ==
    \A i \in 0..Last :
        Cardinality(file[i]) < MaxSize + Shift * (1 + Slack)

(* The log is neither emptied early nor does it outgrow its files. *)
LogBounded == Retained /\ SizeBound

(* How a process ends that nobody killed.  In order only if its start failed before the logs
   were handed the mutexes of the server and before the array of the threads was
   made.  A start that fails later crashes in fini ("delete crashes here, rather
   strange", relay_server.cpp:285), a thread that calls exit crashes the process or
   wrecks it; a process that serves and of which no thread does that needs a reload
   to end, and a start that is not ended yet one asked for too early.         *)
EndsAsStarted ==
    /\ proc = "exited" => owner = "own" /\ array = "null" /\ logs = "none"
    /\ proc \in {"crashed", "wrecked"} =>
          \/ asked = "early"
          \/ asked = "serving" /\ main = "join"
          \/ main \in Ending /\ (owner = "server" \/ array # "null")

(* Nobody writes in a log that is deleted but the manager thread of a start that failed
   after it was made, and a reload asked for before the process served.      *)
LogsOutliveWriters ==
    holder # NoWriter => Runs /\ (logs = "open" \/ mgr \/ asked = "early")

(* A handler does not wait for the line that main was writing when it came: while the
   process serves, main writes none.                                         *)
HandlerFindsLogFree ==
    holder = Own("main") /\ hup["main"] # "none" => asked = "early"

(* When the accept thread runs, every thread it may choose runs and has its pipe. *)
ServesWhole ==
    running > NumThreads =>
       (main = "join" \/ ender = "thread") /\ ready = NumThreads /\ fd = "listening" /\ logs = "open"

(* Nothing is used that is not there yet, or not any more, but where this says so. *)
LifeSafe == TypeOK /\ EndsAsStarted /\ LogsOutliveWriters /\ HandlerFindsLogFree /\ ServesWhole

(* A start ends: the process serves or is gone, unless a reload was asked for before,
   whose handler may wait for the line that it interrupted.                  *)
StartEnds == (proc = "alive" /\ main = "conf") ~> (Serving \/ proc # "alive" \/ asked = "early")

(* The mutex of the log comes free again, unless the one who holds it was interrupted by
   the handler, which then waits for him.                                    *)
LinesEnd == (holder # NoWriter) ~> (holder = NoWriter \/ Interrupted(holder))

(* Nobody waits for the log's mutex, or for another thread, for ever. *)
LifeGoesOn == StartEnds /\ LinesEnd
=============================================================================

------------------------------- MODULE Life -------------------------------
(***************************************************************************)
(* The life of the process: main (main.cpp) and CRelayServer's init,       *)
(* process and fini, the threads they start, the SIGHUP handler, kill -9   *)
(* and the next start.  All of them write to the log of module Log, whose  *)
(* mutex init hands over and whose object fini deletes.                    *)
(*                                                                         *)
(* fini runs twice after a start that failed: from main's catch clause and *)
(* from the destructor of the global server in exit(0).  An event thread   *)
(* that an exception ends calls exit(0) too, and runs fini while the       *)
(* others go on.  What ends the process by a signal of its own (a NULL or  *)
(* freed pointer, a double free, abort) is "crashed"; a process that goes  *)
(* on after freed memory was used is "wrecked": its threads may write, and *)
(* nothing more is said of it until it is killed.                          *)
(*                                                                         *)
(* A handler runs on the stack of the thread that took the signal.  The    *)
(* kernel gives it to main; while main is in the handler, which blocks the *)
(* signal for main only, another thread takes the next one.                *)
(***************************************************************************)
EXTENDS Log

CONSTANTS
    NumThreads,     \* ListenThreads
    Confs,          \* what SysConfig.conf may hold
    MaxStarts,      \* bound: starts of the program
    MaxHups         \* bound: SIGHUPs

(* Who writes lines: main, the manager thread and the event threads, each for itself or
   in a handler that interrupted it.  Of the event threads one at a time is in one. *)
Stack  == {"main", "mgr", "thread"}
Own(c) == <<c, "own">>
Hup(c) == <<c, "hup">>

ASSUME LifeAssumption ==
    /\ Writer = Stack \X {"own", "hup"}
    /\ NumThreads \in Nat \ {0} /\ MaxStarts \in Nat /\ MaxHups \in Nat /\ MaxHups <= MaxLines

VARIABLES
    proc,       \* "off", "alive", "exited", "crashed", "wrecked"
    main,       \* what main does next, or the thread that called exit
    ender,      \* which of the two it is
    conf,       \* the settings the process was started with
    logs,       \* g_pLog and the other two: "none" (NULL), "open" or "deleted"
    owner,      \* whose the mutex of the logs is: "own" or "server"
    array,      \* _process_thread: "null", "made", "dangling"
    ready,      \* threads whose pipe is in their epoll set
    running,    \* threads that were created, the accept thread last
    mgr,        \* the manager thread runs
    fd,         \* _accept_fd: "zero", "open", "listening", "closed"
    pending,    \* a SIGHUP that nobody has taken yet
    hup,        \* the handler on each stack: "none", "in", "logged"
    asked,      \* history: "no", "serving" or, a reload began before that, "early"
    exits,      \* calls of fini that have ended
    starts, hups

signals == <<pending, hup, asked, hups>>
lifeVars == <<proc, main, ender, conf, logs, owner, array, ready, running, mgr, fd, signals, exits, starts>>
vars == <<lifeVars, logVars>>

Required == {"ServerIP", "ServerPort", "RelayMgrServerIP", "RelayMgrServerPort",
             "RelaySvrNo", "RemoteLogIp", "RemoteLogPort", "ListenThreads"}

(* What init does, in its order, then process; and fini, from its first line. *)
Starting == {"conf", "log", "keys", "mutex", "tables", "pools", "switch", "author",
             "array", "pipe", "monitor", "event", "mgr", "socket", "bind", "listen",
             "accept monitor", "accept event", "run"}
Ending == {"finithreads", "finiaccept", "finilog", "deletelog", "nulllog", "exit"}
Serving == proc = "alive" /\ main = "join"
Runs == proc \in {"alive", "wrecked"}
NoHup == [c \in Stack |-> "none"]

Fresh(c) ==
    /\ main' = "conf" /\ ender' = "main" /\ conf' = c /\ logs' = "none" /\ owner' = "own"
    /\ array' = "null" /\ ready' = 0 /\ running' = 0 /\ mgr' = FALSE /\ fd' = "zero"
    /\ pending' = FALSE /\ hup' = NoHup /\ asked' = "no" /\ exits' = 0

LifeInit ==
    /\ proc = "off" /\ main = "conf" /\ ender = "main" /\ conf \in Confs /\ logs = "none" /\ owner = "own"
    /\ array = "null" /\ ready = 0 /\ running = 0 /\ mgr = FALSE /\ fd = "zero"
    /\ pending = FALSE /\ hup = NoHup /\ asked = "no" /\ exits = 0 /\ starts = 0 /\ hups = 0

(* main, init_daemon, write_pid and init_sig_conf done. *)
Start(c) ==
    /\ ~Runs /\ starts < MaxStarts
    /\ proc' = "alive" /\ starts' = starts + 1 /\ Fresh(c)
    /\ UNCHANGED <<hups, logVars>>

(* SIGTERM and the others are ignored: only kill -9 ends a process from outside. *)
Rest == <<main, ender, conf, logs, owner, array, ready, running, mgr, fd, signals, exits, starts>>
Kill  == Runs /\ proc' = "off" /\ LogGone /\ UNCHANGED Rest
Crash == proc' = "crashed" /\ LogGone /\ UNCHANGED Rest
Wreck == proc' = "wrecked" /\ UNCHANGED <<Rest, logVars>>

(* The next instruction of main, while no handler has its stack and it is not writing
   a line; or that of the thread that called exit.                           *)
At(stage) == proc = "alive" /\ main = stage /\ hup[ender] = "none" /\ holder # Own(ender)
Goto(stage) == main' = stage
Same == UNCHANGED <<proc, ender, conf, signals, exits, starts, logVars>>

(* An exception of init or process: main catches it and calls fini. *)
Throw == Goto("finithreads")

(* The file may be missing; a line without a colon is left out; then the settings that
   have no default must be there.                                            *)
ReadSysConf ==
    /\ At("conf") /\ Same /\ UNCHANGED <<logs, owner, array, ready, running, mgr, fd>>
    /\ \/ Throw
       \/ Required \subseteq conf.found /\ Goto("log")

NewLogs == logs' = "open" /\ owner' = "own"

(* The other settings have defaults.  The logs are made as early as possible. *)
InitLog ==
    /\ At("log") /\ NewLogs /\ Goto("keys")
    /\ Same /\ UNCHANGED <<array, ready, running, mgr, fd>>

(* The default key, or RequestKeyNum keys, each with its four settings. *)
RequestKeys ==
    /\ At("keys") /\ Same /\ UNCHANGED <<logs, owner, array, ready, running, mgr, fd>>
    /\ IF conf.keys >= conf.keyNum THEN Goto("mutex") ELSE Throw

SetLogMutex ==
    /\ At("mutex") /\ Goto("tables")
    /\ owner' = IF conf.lock = "on" THEN "server" ELSE owner
    /\ Same /\ UNCHANGED <<logs, array, ready, running, mgr, fd>>

(* A step that other parts do not see, and that may throw: a file is missing, or a
   system call fails.                                                        *)
Tries(stage, next) ==
    /\ At(stage) /\ (Goto(next) \/ Throw)
    /\ Same /\ UNCHANGED <<logs, owner, array, ready, running, mgr, fd>>
Does(stage, next) ==
    /\ At(stage) /\ Goto(next)
    /\ Same /\ UNCHANGED <<logs, owner, array, ready, running, mgr, fd>>

ReadTables == Tries("tables", "pools")
InitPools == Does("pools", "switch")
InitSwitch == Does("switch", "author")
InitAuthor == Tries("author", "array")

MakeArray ==
    /\ At("array") /\ array' = "made" /\ Goto("pipe")
    /\ Same /\ UNCHANGED <<logs, owner, ready, running, mgr, fd>>

(* The next thread: its pipe, its epoll set, and the pipe's event in it. *)
NewPipe ==
    \/ ready = NumThreads /\ Does("pipe", "mgr")
    \/ ready < NumThreads /\ Tries("pipe", "monitor")

InitMonitor == Tries("monitor", "event") \/ Tries("accept monitor", "accept event")

(* Mutation: the loop does not count. *)
AddEvent_SameThread ==
    \/ /\ At("event") /\ Same /\ UNCHANGED <<logs, owner, array, running, mgr, fd>>
       /\ \/ ready' = ready /\ Goto("pipe")
          \/ UNCHANGED ready /\ Throw
    \/ Tries("accept event", "run")

AddEvent ==
    \/ /\ At("event") /\ Same /\ UNCHANGED <<logs, owner, array, running, mgr, fd>>
       /\ \/ ready' = ready + 1 /\ Goto("pipe")
          \/ UNCHANGED ready /\ Throw
    \/ Tries("accept event", "run")

InitMgr ==
    /\ At("mgr") /\ Same /\ UNCHANGED <<logs, owner, array, ready, running, fd>>
    /\ \/ mgr' = TRUE /\ Goto("socket")
       \/ UNCHANGED mgr /\ Throw

NewSocket ==
    /\ At("socket") /\ Same /\ UNCHANGED <<logs, owner, array, ready, running, mgr>>
    /\ \/ fd' = "open" /\ Goto("bind")
       \/ UNCHANGED fd /\ Throw

(* The name cannot be resolved, or the port is taken. *)
Bind == Tries("bind", "listen")

Listen ==
    /\ At("listen") /\ Same /\ UNCHANGED <<logs, owner, array, ready, running, mgr>>
    /\ \/ fd' = "listening" /\ Goto("accept monitor")
       \/ UNCHANGED fd /\ Throw

(* CEventThread::run, for the process threads and then for the accept thread; the
   _init it waits for was set by init.                                       *)
RunThread ==
    /\ At("run") /\ Same /\ UNCHANGED <<logs, owner, array, ready, mgr, fd>>
    /\ \/ Throw /\ UNCHANGED running
       \/ running' = running + 1 /\ Goto(IF running = NumThreads THEN "join" ELSE "run")

-----------------------------------------------------------------------------
(* An exception leaves a handler, and thread_run calls exit: epoll_ctl failed in
   _write_error, or the site was not found there after a reload (module RelayServer). *)
ThreadExits ==
    /\ Serving
    /\ Goto("finithreads") /\ ender' = "thread"
    /\ UNCHANGED <<proc, conf, logs, owner, array, ready, running, mgr, fd, signals, exits, starts, logVars>>

(* A thread that runs is cancelled, after its events were freed.  The others do not let the
   cancellation through their catch (...), which aborts the process; a thread that
   is in exit unwinds out of it, through the destructors of the server.      *)
CancelAborts == running > 0 /\ (Crash \/ Wreck)

(* _fini_process_thread.  An array that was deleted before is used again. *)
FiniThreads ==
    /\ At("finithreads")
    /\ \/ array = "dangling" /\ Crash
       \/ array # "dangling" /\ CancelAborts
       \/ /\ array # "dangling" /\ running = 0
          /\ array' = IF array = "made" THEN "dangling" ELSE array
          /\ Goto("finiaccept")
          /\ Same /\ UNCHANGED <<logs, owner, ready, running, mgr, fd>>

(* Of a server that never had a socket, descriptor 0 is closed; the second time nothing. *)
Closed == fd' = "closed"

FiniAccept ==
    /\ At("finiaccept") /\ Closed /\ Goto("finilog")
    /\ Same /\ UNCHANGED <<logs, owner, array, ready, running, mgr>>

(* ~CLog closes the file under the mutex and gives the mutex back ... *)
CloseLog ==
    /\ At("finilog") /\ (logs # "none" => holder = NoWriter)
    /\ Goto(IF logs = "none" THEN "exit" ELSE "deletelog")
    /\ open' = (logs = "none" /\ open)
    /\ UNCHANGED <<proc, ender, conf, logs, owner, array, ready, running, mgr, fd, signals, exits, starts>>
    /\ UNCHANGED <<file, count, holder, rot, put, faults>>

(* ... and then deletes it and itself, whoever has taken the mutex by now.  One that is a
   member of the server was never allocated.                                 *)
DeleteLog ==
    /\ At("deletelog")
    /\ \/ owner = "server" /\ Crash
       \/ /\ owner = "own" /\ logs' = "deleted" /\ Goto("nulllog")
          /\ Same /\ UNCHANGED <<owner, array, ready, running, mgr, fd>>

(* Mutation: the pointers to deleted logs are kept. *)
NullLog_Keeps ==
    /\ At("nulllog") /\ logs' = logs /\ Goto("exit")
    /\ Same /\ UNCHANGED <<owner, array, ready, running, mgr, fd>>

(* Only now the pointer is NULL. *)
NullLog ==
    /\ At("nulllog") /\ logs' = "none" /\ Goto("exit")
    /\ Same /\ UNCHANGED <<owner, array, ready, running, mgr, fd>>

(* exit(0) runs the destructor, which calls fini again; then the process is gone. *)
Exit ==
    /\ At("exit") /\ exits' = exits + 1
    /\ IF exits = 0
         THEN Goto("finithreads") /\ UNCHANGED <<proc, logVars>>
         ELSE proc' = "exited" /\ LogGone /\ UNCHANGED main
    /\ UNCHANGED <<ender, conf, logs, owner, array, ready, running, mgr, fd, signals, starts>>

MainStep ==
    \/ ReadSysConf \/ InitLog \/ RequestKeys \/ SetLogMutex \/ ReadTables
    \/ InitPools \/ InitSwitch \/ InitAuthor
    \/ MakeArray \/ NewPipe \/ InitMonitor \/ AddEvent \/ InitMgr
    \/ NewSocket \/ Bind \/ Listen \/ RunThread
    \/ FiniThreads \/ FiniAccept \/ CloseLog \/ DeleteLog \/ NullLog \/ Exit

-----------------------------------------------------------------------------
(* kill -HUP.  A signal that is pending already is not queued. *)
Hang ==
    /\ proc = "alive" /\ hups < MaxHups /\ ~pending
    /\ pending' = TRUE /\ hups' = hups + 1
    /\ UNCHANGED <<proc, main, ender, conf, logs, owner, array, ready, running, mgr, fd, hup, asked, exits, starts, logVars>>

Handler == UNCHANGED <<proc, main, ender, conf, logs, owner, array, ready, running, mgr, fd, exits, starts, hups>>

(* Who may take the signal: the others only while main has it blocked. *)
Takes(c) ==
    /\ hup[c] = "none"
    /\ \/ c = "main"
       \/ hup["main"] # "none" /\ ((c = "mgr" /\ mgr) \/ (c = "thread" /\ running > 0))

(* sig_reload interrupts its thread wherever it is, in the middle of a line as well. *)
HupBegins(c) ==
    /\ proc = "alive" /\ pending /\ Takes(c)
    /\ pending' = FALSE /\ hup' = [hup EXCEPT ![c] = "in"]
    /\ asked' = IF ~Serving \/ asked = "early" THEN "early" ELSE "serving"
    /\ Handler /\ UNCHANGED logVars

(* reload_conf before RelaySwitchMgr::init, or without a log to write to. *)
Unready == logs # "open" \/ main \in {"keys", "mutex", "tables", "pools", "switch"}
HupCrashes(c) == proc = "alive" /\ hup[c] = "in" /\ Unready /\ Crash

(* reload_conf writes lines whether it succeeds or throws, which is caught.  It need not
   get that far: its write locks may wait for ever (modules Admission, SiteConf). *)
HupWrites(c) ==
    /\ proc = "alive" /\ hup[c] = "in" /\ logs # "none" /\ hup' = [hup EXCEPT ![c] = "logged"]
    /\ LockLog(Hup(c)) /\ Handler /\ UNCHANGED <<pending, asked>>

HupEnds(c) ==
    /\ proc = "alive" /\ hup[c] = "logged" /\ holder # Hup(c) /\ hup' = [hup EXCEPT ![c] = "none"]
    /\ Handler /\ UNCHANGED <<pending, asked, logVars>>

(* What a reload left in the tables fails an assertion of a worker (module ApiPool). *)
ReloadBreaks == Serving /\ asked # "no" /\ Crash

-----------------------------------------------------------------------------
(* Lines of main and of the threads: how many each writes is left open. *)
Writes(c) ==
    CASE c = "main"   -> main # "join" /\ ender = "main" /\ hup["main"] = "none"
      [] c = "mgr"    -> mgr /\ hup["mgr"] = "none"
      [] c = "thread" -> running > 1 \/ (running = 1 /\ hup["thread"] = "none")

(* The manager thread writes through g_pLog without looking at it: in a deleted log it
   may find the mutex as it was.                                             *)
Line(c) ==
    /\ Runs /\ Writes(c) /\ (logs = "open" \/ (c = "mgr" /\ logs = "deleted"))
    /\ put + MaxHups < MaxLines
    /\ LockLog(Own(c)) /\ UNCHANGED lifeVars

MgrCrashes == Runs /\ mgr /\ logs # "open" /\ Crash

(* The thread that writes a line is in the handler: an event thread need not be the one. *)
Interrupted(w) == w[2] = "own" /\ hup[w[1]] # "none"

(* A line goes on while its writer runs. *)
Goes(w) ==
    /\ Runs /\ (Interrupted(w) => w[1] = "thread" /\ running > 1)
    /\ LogStep(w) /\ UNCHANGED lifeVars

Next ==
    \/ \E c \in Confs : Start(c)
    \/ Kill \/ MainStep \/ ThreadExits
    \/ Hang \/ \E c \in Stack : HupBegins(c) \/ HupCrashes(c) \/ HupWrites(c) \/ HupEnds(c)
    \/ ReloadBreaks \/ MgrCrashes
    \/ \E c \in Stack : Line(c)
    \/ \E w \in Writer : Goes(w)

Init == LifeInit /\ LogInit

Spec == Init /\ [][Next]_vars

(* The threads run, a line that nobody interrupted goes on, and who waits for the mutex
   gets it if it is free again and again.  A reload need not end, and starts,
   signals, kills and lines need not come.                                   *)
FairSpec ==
    /\ Spec
    /\ WF_vars(MainStep) /\ SF_vars(CloseLog)
    /\ \A w \in Writer : WF_vars(Goes(w) /\ ~Interrupted(w))
=============================================================================

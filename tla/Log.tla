-------------------------------- MODULE Log --------------------------------
(***************************************************************************)
(* One log of the process (sys/log.cpp): the files base.log, base.log.1,   *)
(* ..., the open stream and the count of lines written, all under one      *)
(* mutex.  Every LOG_SHIFT_COUNT lines the stream is closed and, if        *)
(* base.log has grown to its size, the files move up by one name.  Each    *)
(* system call of that is a step: it may fail, and the process may be      *)
(* killed before it.                                                       *)
(*                                                                         *)
(* A file is the set of the numbers of its lines, which are only appended  *)
(* and numbered as they reach base.log; a file that does not exist is {}.  *)
(***************************************************************************)
EXTENDS Integers, FiniteSets

CONSTANTS
    Writer, NoWriter,   \* the contexts that write lines
    Shift,              \* LOG_SHIFT_COUNT
    MaxNum,             \* _max_log_num
    MaxSize,            \* _max_log_size, in lines
    MaxLines,           \* bound: lines ever written
    MaxFaults           \* bound: file operations that fail

ASSUME LogAssumption ==
    /\ NoWriter \notin Writer
    /\ Shift \in Nat \ {0} /\ MaxNum \in Nat \ {0, 1} /\ MaxSize \in Nat \ {0}
    /\ MaxLines \in Nat /\ MaxFaults \in Nat

VARIABLES
    file,       \* the lines of each file; file[0] is base.log
    open,       \* _fp # NULL
    count,      \* _write_count
    holder,     \* who holds the mutex
    rot,        \* where shilft_files is: at stat, remove, or the rename of file rot
    put,        \* lines written so far
    faults      \* file operations that may still fail

disk == <<file, put>>
logVars == <<file, open, count, holder, rot, put, faults>>

Last == MaxNum - 1
Idle == MaxNum          \* the values of rot beside the indices of the renames,
Stat == MaxNum + 1      \* which go from MaxNum - 2 down to 0
Remove == MaxNum + 2

LogInit ==
    /\ file = [i \in 0..Last |-> {}] /\ put = 0
    /\ open = FALSE /\ count = 0 /\ holder = NoWriter /\ rot = Idle
    /\ faults = MaxFaults

Fault == faults > 0 /\ faults' = faults - 1

LockLog(w) ==
    /\ holder = NoWriter /\ put < MaxLines
    /\ holder' = w
    /\ UNCHANGED <<file, open, count, rot, put, faults>>

Unlock == holder' = NoWriter

(* fopen or fputs failed: the line is lost, and the next one opens the file anew. *)
PutFails(w) ==
    /\ holder = w /\ rot = Idle /\ Fault
    /\ open' = FALSE /\ Unlock
    /\ UNCHANGED <<file, count, rot, put>>

Counted ==
    IF count + 1 >= Shift
      THEN count' = count /\ open' = FALSE /\ rot' = Stat /\ UNCHANGED holder
      ELSE count' = count + 1 /\ open' = TRUE /\ Unlock /\ UNCHANGED rot

(* Mutation: fopen empties the file. *)
PutsLine_Truncates(w) ==
    /\ holder = w /\ rot = Idle
    /\ put' = put + 1
    /\ file' = [file EXCEPT ![0] = (IF open THEN @ ELSE {}) \cup {put + 1}]
    /\ Counted
    /\ UNCHANGED faults

(* The line is written and flushed. *)
PutsLine(w) ==
    /\ holder = w /\ rot = Idle
    /\ put' = put + 1
    /\ file' = [file EXCEPT ![0] = @ \cup {put + 1}]
    /\ Counted
    /\ UNCHANGED faults

(* fflush failed: nobody looks, and a line counts that is not in the file. *)
FlushFails(w) ==
    /\ holder = w /\ rot = Idle /\ Fault
    /\ Counted
    /\ UNCHANGED disk

(* The end of shilft_files, whether it succeeded or not. *)
Shifted == rot' = Idle /\ count' = 0 /\ Unlock /\ UNCHANGED open

(* Mutation: a file of just its size is not moved. *)
StatFile_AtMost(w) ==
    /\ holder = w /\ rot = Stat
    /\ IF Cardinality(file[0]) <= MaxSize
         THEN Shifted
         ELSE rot' = Remove /\ UNCHANGED <<open, count, holder>>
    /\ UNCHANGED <<disk, faults>>

StatFile(w) ==
    /\ holder = w /\ rot = Stat
    /\ IF Cardinality(file[0]) < MaxSize
         THEN Shifted
         ELSE rot' = Remove /\ UNCHANGED <<open, count, holder>>
    /\ UNCHANGED <<disk, faults>>

RemoveOldest(w) ==
    /\ holder = w /\ rot = Remove
    /\ file' = [file EXCEPT ![Last] = {}]
    /\ rot' = MaxNum - 2
    /\ UNCHANGED <<open, count, holder, put, faults>>

(* rename moves a file that exists onto the next name. *)
Renamed(i) == [file EXCEPT ![i + 1] = IF file[i] = {} THEN @ ELSE file[i], ![i] = {}]

RenameNext(w) ==
    /\ holder = w /\ rot \in 0..MaxNum - 2
    /\ file' = Renamed(rot)
    /\ IF rot = 0 THEN Shifted ELSE rot' = rot - 1 /\ UNCHANGED <<open, count, holder>>
    /\ UNCHANGED <<put, faults>>

(* stat, remove or rename failed: the rest is left as it is. *)
ShiftFails(w) ==
    /\ holder = w /\ rot # Idle /\ Fault
    /\ Shifted
    /\ UNCHANGED disk

LogStep(w) ==
    \/ PutFails(w) \/ PutsLine(w) \/ FlushFails(w)
    \/ StatFile(w) \/ RemoveOldest(w) \/ RenameNext(w) \/ ShiftFails(w)

(* The process is gone: what is on the disk is left, and the mutex with it. *)
LogGone ==
    /\ open' = FALSE /\ count' = 0 /\ holder' = NoWriter /\ rot' = Idle
    /\ UNCHANGED <<disk, faults>>

LogSpec == LogInit /\ [][\E w \in Writer : LockLog(w) \/ LogStep(w)]_logVars
=============================================================================

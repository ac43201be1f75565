---------------------------- MODULE LifeProofs ----------------------------
(***************************************************************************)
(* Proofs about the life of the process and its log, for every number of   *)
(* threads, files, lines, faults, starts and signals.                      *)
(*                                                                         *)
(* The two halves meet in few places: what a step does to the log is one   *)
(* of four things (LogMoves), and of the process the log needs only that   *)
(* it is there (HolderInv).                                                  *)
(* That the log is bounded (LogStaysBounded) needs both: a rotation is     *)
(* broken off by a failure or by the end of the process, and the gap it    *)
(* leaves is owed from then on (Debt).                                     *)
(***************************************************************************)
EXTENDS LifeProps, FiniteSetTheorems, WellFoundedInduction, TLAPS

Kept == UNION {file[i] : i \in 0..Last}

LogType ==
    /\ file \in [0..Last -> SUBSET (1..put)] /\ put \in 0..MaxLines
    /\ open \in BOOLEAN /\ count \in 0..Shift - 1 /\ rot \in 0..Remove \ {MaxNum - 1}
    /\ holder \in Writer \cup {NoWriter} /\ faults \in 0..MaxFaults

(* Whoever is about to write a line has room for it. *)
RoomInv == holder # NoWriter /\ rot = Idle => put < MaxLines

(* The rename finds the name it moves to free. *)
GapInv == rot \in 0..MaxNum - 2 => file[rot + 1] = {}

OrderInv == \A i, j \in 0..Last : \A x \in file[i], y \in file[j] : i < j => y < x

(* From a line that is kept on, every line is. *)
TailInv == \A x \in Kept : x..put \subseteq Kept

LogInv == LogType /\ RoomInv /\ GapInv /\ OrderInv /\ TailInv

LogNext == \E w \in Writer : LockLog(w) \/ LogStep(w)

-----------------------------------------------------------------------------
(* A step of the process leaves the log alone but for the stream, leaves it behind, or is
   a step of it.                                                             *)
LEMMA WritersAre ==
    ASSUME NEW c \in Stack
    PROVE  Hup(c) \in Writer /\ Own(c) \in Writer
BY LifeAssumption DEF LifeAssumption, Hup, Own

Untouched == open' \in {FALSE, open} /\ UNCHANGED <<file, count, holder, rot, put, faults>>

LEMMA LogMoves ==
    ASSUME LogInv, Next
    PROVE  Untouched \/ LogGone \/ LogNext
<1>0. CASE UNCHANGED logVars  BY <1>0 DEF Untouched, logVars
<1>1. ASSUME NEW c \in Confs, Start(c) PROVE UNCHANGED logVars
  BY <1>1, Zenon DEF Start
<1>2. CASE Kill  BY <1>2, Zenon DEF Kill
<1>3. CASE MainStep
  <2>1. CASE ReadSysConf  BY <1>0, <2>1, Zenon DEF ReadSysConf, Same
  <2>2. CASE InitLog  BY <1>0, <2>2, Zenon DEF InitLog, Same
  <2>3. CASE RequestKeys  BY <1>0, <2>3, Zenon DEF RequestKeys, Same
  <2>4. CASE SetLogMutex  BY <1>0, <2>4, Zenon DEF SetLogMutex, Same
  <2>5. CASE ReadTables \/ InitPools \/ InitSwitch \/ InitAuthor
    BY <1>0, <2>5, Zenon DEF ReadTables, InitPools, InitSwitch, InitAuthor, Tries, Does, Same
  <2>6. CASE MakeArray  BY <1>0, <2>6, Zenon DEF MakeArray, Same
  <2>7. CASE NewPipe \/ InitMonitor
    BY <1>0, <2>7, Zenon DEF NewPipe, InitMonitor, Tries, Does, Same
  <2>8. CASE AddEvent  BY <1>0, <2>8, Zenon DEF AddEvent, Tries, Same
  <2>9. CASE InitMgr  BY <1>0, <2>9, Zenon DEF InitMgr, Same
  <2>10. CASE NewSocket \/ Bind \/ Listen
    BY <1>0, <2>10, Zenon DEF NewSocket, Bind, Listen, Tries, Same
  <2>11. CASE RunThread  BY <1>0, <2>11, Zenon DEF RunThread, Same
  <2>12. CASE FiniThreads
    BY <1>0, <2>12, Zenon DEF FiniThreads, CancelAborts, Crash, Wreck, Same
  <2>13. CASE FiniAccept  BY <1>0, <2>13, Zenon DEF FiniAccept, Same
  <2>14. CASE CloseLog
    <3>1. /\ open' = (logs = "none" /\ open)
          /\ UNCHANGED <<file, count, holder, rot, put, faults>>
      BY <1>0, <2>14, Zenon DEF CloseLog
    <3>2. open' \in {FALSE, open}
      BY <3>1, Zenon DEF LogInv, LogType
    <3> QED  BY <3>1, <3>2 DEF Untouched
  <2>15. CASE DeleteLog  BY <1>0, <2>15, Zenon DEF DeleteLog, Crash, Same
  <2>16. CASE NullLog  BY <1>0, <2>16, Zenon DEF NullLog, Same
  <2>17. CASE Exit  BY <1>0, <2>17, Zenon DEF Exit
  <2> QED
    BY <1>0, <1>3, <2>1, <2>2, <2>3, <2>4, <2>5, <2>6, <2>7, <2>8, <2>9, <2>10,
       <2>11, <2>12, <2>13, <2>14, <2>15, <2>16, <2>17, Zenon DEF MainStep
<1>4. ASSUME NEW c \in Stack, Hang \/ ThreadExits \/ HupBegins(c) \/ HupEnds(c)
      PROVE  UNCHANGED logVars
  BY <1>4, Zenon DEF Hang, ThreadExits, HupBegins, HupEnds
<1>5. ASSUME NEW c \in Stack, HupCrashes(c) \/ ReloadBreaks \/ MgrCrashes
      PROVE  LogGone
  BY <1>5, Zenon DEF HupCrashes, ReloadBreaks, MgrCrashes, Crash
<1>6. ASSUME NEW c \in Stack, HupWrites(c) \/ Line(c) PROVE LogNext
  <2>1. Hup(c) \in Writer /\ Own(c) \in Writer  BY WritersAre
  <2> QED  BY <1>6, <2>1, Zenon DEF HupWrites, Line, LogNext
<1>7. ASSUME NEW w \in Writer, Goes(w) PROVE LogNext
  BY <1>7, Zenon DEF Goes, LogNext
<1>8. "main" \in Stack  BY DEF Stack
<1> QED
  BY <1>0, <1>1, <1>2, <1>3, <1>4, <1>5, <1>6, <1>7, <1>8, Zenon DEF Next
-----------------------------------------------------------------------------
(* What the log's steps preserve.                                           *)

LEMMA MarkFacts ==
    /\ Last \in Nat \ {0} /\ Last = MaxNum - 1
    /\ Idle \notin 0..Last /\ Stat \notin 0..Last /\ Remove \notin 0..Last
    /\ Idle \in 0..Remove \ {MaxNum - 1} /\ Stat \in 0..Remove \ {MaxNum - 1}
    /\ Remove \in 0..Remove \ {MaxNum - 1}
    /\ Idle # Stat /\ Idle # Remove /\ Stat # Remove
BY LogAssumption DEF LogAssumption, Last, Idle, Stat, Remove

LEMMA Numbers ==
    ASSUME LogInv
    PROVE  /\ MaxSize \in Nat \ {0} /\ Shift \in Nat \ {0} /\ Last \in Nat \ {0} /\ put \in Nat
           /\ count \in 0..Shift - 1 /\ rot \in 0..Remove /\ MaxNum = Last + 1
           /\ file \in [0..Last -> SUBSET (1..put)]
           /\ faults \in Nat /\ MaxFaults \in Nat
BY MarkFacts, LogAssumption DEF LogInv, LogType, LogAssumption, Last

LEMMA CountedType ==
    ASSUME LogType, Counted
    PROVE  /\ open' \in BOOLEAN /\ count' \in 0..Shift - 1
           /\ rot' \in 0..Remove \ {MaxNum - 1} /\ holder' \in Writer \cup {NoWriter}
           /\ rot' = Stat \/ (rot' = rot /\ holder' = NoWriter)
<1>1. /\ count \in 0..Shift - 1 /\ Shift \in Nat \ {0}
      /\ rot \in 0..Remove \ {MaxNum - 1} /\ holder \in Writer \cup {NoWriter}
  BY LogAssumption DEF LogAssumption, LogType
<1>2. CASE count + 1 >= Shift
  <2>1. count' = count /\ open' = FALSE /\ rot' = Stat /\ holder' = holder
    BY <1>2 DEF Counted
  <2> QED  BY <1>1, <2>1, MarkFacts
<1>3. CASE ~(count + 1 >= Shift)
  <2>1. count' = count + 1 /\ open' = TRUE /\ holder' = NoWriter /\ rot' = rot
    BY <1>3 DEF Counted, Unlock
  <2>2. count' \in 0..Shift - 1  BY <1>1, <1>3, <2>1
  <2> QED  BY <1>1, <2>1, <2>2
<1> QED  BY <1>2, <1>3

LEMMA ShiftedType ==
    ASSUME LogType, Shifted
    PROVE  /\ open' \in BOOLEAN /\ count' \in 0..Shift - 1
           /\ rot' = Idle /\ rot' \in 0..Remove \ {MaxNum - 1}
           /\ holder' = NoWriter /\ holder' \in Writer \cup {NoWriter}
BY LogAssumption, MarkFacts DEF LogAssumption, LogType, Shifted, Unlock

LEMMA FaultType ==
    ASSUME LogType, Fault
    PROVE  faults' \in 0..MaxFaults
BY LogAssumption DEF LogAssumption, LogType, Fault

(* What leaves the files alone keeps what is said of them. *)
LEMMA SameFiles ==
    ASSUME OrderInv, TailInv, UNCHANGED disk
    PROVE  OrderInv' /\ TailInv'
BY DEF OrderInv, TailInv, Kept, disk

LEMMA PutsLineInv ==
    ASSUME LogInv, NEW w \in Writer, PutsLine(w)
    PROVE  LogInv'
<1>1. /\ put' = put + 1 /\ put \in Nat /\ put < MaxLines
      /\ file' = [file EXCEPT ![0] = @ \cup {put + 1}]
      /\ holder # NoWriter /\ rot = Idle /\ Counted /\ faults' = faults
  BY LogAssumption DEF PutsLine, LogInv, RoomInv, LogType, LogAssumption
<1>2. LogType  BY DEF LogInv
<1>3. file \in [0..Last -> SUBSET (1..put)] /\ 0 \in 0..Last /\ MaxLines \in Nat
  BY <1>2, MarkFacts, LogAssumption DEF LogType, LogAssumption
<1>4. /\ file' \in [0..Last -> SUBSET (1..put')]
      /\ file'[0] = file[0] \cup {put + 1}
      /\ \A i \in 0..Last : i # 0 => file'[i] = file[i]
  <2>1. 1..put \subseteq 1..put + 1 /\ put + 1 \in 1..put + 1  BY <1>1
  <2> QED  BY <1>1, <1>3, <2>1
<1>5. LogType'
  <2>1. put' \in 0..MaxLines  BY <1>1, <1>3
  <2>2. faults' \in 0..MaxFaults  BY <1>1, <1>2 DEF LogType
  <2> QED  BY <1>1, <1>2, <1>4, <2>1, <2>2, CountedType DEF LogType
<1>6. rot' = Stat \/ (rot' = Idle /\ holder' = NoWriter)
  BY <1>1, <1>2, CountedType
<1>7. RoomInv' /\ GapInv'
  <2>1. rot' \notin 0..MaxNum - 2
    BY <1>6, LogAssumption DEF LogAssumption, Stat, Idle
  <2>2. ~(holder' # NoWriter /\ rot' = Idle)  BY <1>6, MarkFacts
  <2> QED  BY <2>1, <2>2, Zenon DEF RoomInv, GapInv
<1>8. OrderInv'
  <2> SUFFICES ASSUME NEW i \in 0..Last, NEW j \in 0..Last, i < j,
                      NEW x \in file'[i], NEW y \in file'[j]
               PROVE  y < x
    BY DEF OrderInv
  <2>1. j # 0 /\ y \in file[j] /\ y \in 1..put  BY <1>3, <1>4
  <2>2. CASE x \in file[i]  BY <2>1, <2>2 DEF LogInv, OrderInv
  <2>3. CASE x = put + 1  BY <1>1, <2>1, <2>3
  <2> QED  BY <1>4, <2>2, <2>3
<1>9. TailInv'
  <2>1. Kept' = Kept \cup {put + 1}
    BY <1>3, <1>4 DEF Kept
  <2>2. Kept \subseteq 1..put  BY <1>3 DEF Kept
  <2> SUFFICES ASSUME NEW x \in Kept', NEW y \in x..put'
               PROVE  y \in Kept'
    BY DEF TailInv
  <2>3. CASE y = put + 1  BY <2>1, <2>3
  <2>4. CASE y # put + 1
    <3>1. x \in Int /\ x <= y /\ y <= put  BY <1>1, <2>1, <2>2, <2>4
    <3>2. x \in Kept /\ y \in x..put  BY <1>1, <2>1, <3>1
    <3> QED  BY <2>1, <3>2 DEF LogInv, TailInv
  <2> QED  BY <2>3, <2>4
<1> QED  BY <1>5, <1>7, <1>8, <1>9 DEF LogInv

LEMMA RemoveOldestInv ==
    ASSUME LogInv, NEW w \in Writer, RemoveOldest(w)
    PROVE  LogInv'
<1>1. /\ file' = [file EXCEPT ![Last] = {}] /\ rot' = MaxNum - 2
      /\ UNCHANGED <<open, count, holder, put, faults>>
  BY DEF RemoveOldest
<1>2. LogType  BY DEF LogInv
<1>3. file \in [0..Last -> SUBSET (1..put)] /\ Last \in Nat \ {0}
  BY <1>2, MarkFacts DEF LogType
<1>4. /\ file' \in [0..Last -> SUBSET (1..put)] /\ file'[Last] = {}
      /\ \A i \in 0..Last : i # Last => file'[i] = file[i]
  BY <1>1, <1>3
<1>5. LogType'
  <2>1. rot' \in 0..Remove \ {MaxNum - 1}
    BY <1>1, LogAssumption DEF LogAssumption, Remove
  <2> QED  BY <1>1, <1>2, <1>4, <2>1 DEF LogType
<1>6. RoomInv' /\ GapInv'
  BY <1>1, <1>4, LogAssumption DEF RoomInv, GapInv, Last, Idle, LogAssumption
<1>7. OrderInv'
  BY <1>4 DEF LogInv, OrderInv
<1>8. TailInv'
  <2> SUFFICES ASSUME NEW x \in Kept', NEW y \in x..put
               PROVE  y \in Kept'
    BY <1>1 DEF TailInv
  <2>1. PICK i \in 0..Last : x \in file'[i]  BY DEF Kept
  <2>2. i # Last /\ x \in file[i] /\ x \in Int  BY <1>3, <1>4, <2>1
  <2>3. y \in Kept  BY <2>2 DEF LogInv, TailInv, Kept
  <2>4. PICK j \in 0..Last : y \in file[j]  BY <2>3 DEF Kept
  <2>5. j # Last
    <3> SUFFICES ASSUME j = Last PROVE FALSE  OBVIOUS
    <3>1. i < j  BY <1>3, <2>2
    <3>2. y < x  BY <2>2, <2>4, <3>1 DEF LogInv, OrderInv
    <3> QED  BY <2>2, <3>2
  <2> QED  BY <1>4, <2>4, <2>5 DEF Kept
<1> QED  BY <1>5, <1>6, <1>7, <1>8 DEF LogInv

(* The file a rename moves to is empty, so the files move up past the gap. *)
LEMMA RenameFiles ==
    ASSUME LogInv, NEW w \in Writer, RenameNext(w)
    PROVE  /\ rot \in 0..Last - 1 /\ rot + 1 \in 1..Last
           /\ file'[rot] = {} /\ file'[rot + 1] = file[rot]
           /\ \A i \in 0..Last : i # rot /\ i # rot + 1 => file'[i] = file[i]
           /\ file' \in [0..Last -> SUBSET (1..put)]
           /\ Kept' = Kept /\ put' = put /\ faults' = faults
<1>1. /\ rot \in 0..MaxNum - 2 /\ file' = Renamed(rot) /\ put' = put /\ faults' = faults
  BY DEF RenameNext
<1>2. /\ file \in [0..Last -> SUBSET (1..put)] /\ Last \in Nat \ {0} /\ MaxNum = Last + 1
  BY Numbers
<1>3. file[rot + 1] = {}  BY <1>1, Zenon DEF LogInv, GapInv
<1>4. rot \in 0..Last - 1 /\ rot + 1 \in 1..Last /\ rot + 1 \in 0..Last /\ rot \in 0..Last
      /\ rot # rot + 1
  BY <1>1, <1>2
<1>5. /\ file' \in [0..Last -> SUBSET (1..put)]
      /\ file'[rot] = {} /\ file'[rot + 1] = file[rot]
      /\ \A i \in 0..Last : i # rot /\ i # rot + 1 => file'[i] = file[i]
  <2>1. CASE file[rot] = {}
    <3>1. file' = [file EXCEPT ![rot + 1] = {}, ![rot] = {}]
      BY <1>1, <1>3, <2>1 DEF Renamed
    <3> QED  BY <1>2, <1>4, <2>1, <3>1
  <2>2. CASE file[rot] # {}
    <3>1. file' = [file EXCEPT ![rot + 1] = file[rot], ![rot] = {}]
      BY <1>1, <1>3, <2>2 DEF Renamed
    <3> QED  BY <1>2, <1>4, <3>1
  <2> QED  BY <2>1, <2>2
<1>6. Kept' = Kept
  <2>1. ASSUME NEW x \in Kept PROVE x \in Kept'
    <3>1. PICK i \in 0..Last : x \in file[i]  BY DEF Kept
    <3>2. x \in file'[IF i = rot THEN rot + 1 ELSE i]  BY <1>3, <1>4, <1>5, <3>1
    <3> QED  BY <1>4, <3>2 DEF Kept
  <2>2. ASSUME NEW x \in Kept' PROVE x \in Kept
    <3>1. PICK i \in 0..Last : x \in file'[i]  BY DEF Kept
    <3>2. x \in file[IF i = rot + 1 THEN rot ELSE i]  BY <1>4, <1>5, <3>1
    <3> QED  BY <1>4, <3>2 DEF Kept
  <2> QED  BY <2>1, <2>2
<1> QED  BY <1>1, <1>4, <1>5, <1>6

LEMMA RenameNextInv ==
    ASSUME LogInv, NEW w \in Writer, RenameNext(w)
    PROVE  LogInv'
<1>1. /\ rot \in 0..MaxNum - 2 /\ file' = Renamed(rot)
      /\ put' = put /\ faults' = faults /\ holder # NoWriter
  BY LogAssumption DEF RenameNext, LogAssumption
<1>2. LogType  BY DEF LogInv
<1>3. /\ file \in [0..Last -> SUBSET (1..put)] /\ Last \in Nat \ {0}
      /\ rot \in 0..Last /\ rot + 1 \in 0..Last /\ rot \in Nat /\ file[rot + 1] = {}
  <2>1. MaxNum \in Nat \ {0, 1} /\ Last = MaxNum - 1
    BY LogAssumption, MarkFacts DEF LogAssumption
  <2>2. file \in [0..Last -> SUBSET (1..put)]  BY <1>2 DEF LogType
  <2>3. file[rot + 1] = {}  BY <1>1, Zenon DEF LogInv, GapInv
  <2> QED  BY <1>1, <2>1, <2>2, <2>3
<1>4. /\ file' \in [0..Last -> SUBSET (1..put)]
      /\ file'[rot] = {} /\ file'[rot + 1] = file[rot]
      /\ \A i \in 0..Last : i # rot /\ i # rot + 1 => file'[i] = file[i]
      /\ Kept' = Kept
  BY RenameFiles
<1>5. /\ open' \in BOOLEAN /\ count' \in 0..Shift - 1
      /\ holder' \in Writer \cup {NoWriter}
      /\ \/ rot' = Idle /\ holder' = NoWriter
         \/ rot # 0 /\ rot' = rot - 1
  <2>1. CASE rot = 0
    <3>1. Shifted  BY <2>1 DEF RenameNext
    <3> QED  BY <1>2, <3>1, ShiftedType
  <2>2. CASE rot # 0  BY <1>2, <2>2 DEF RenameNext, LogType
  <2> QED  BY <2>1, <2>2
<1>6. LogType'
  <2>1. rot' \in 0..Remove \ {MaxNum - 1}
    BY <1>1, <1>5, MarkFacts, LogAssumption DEF LogAssumption, Remove
  <2> QED  BY <1>1, <1>2, <1>4, <1>5, <2>1 DEF LogType
<1>7. RoomInv'
  BY <1>1, <1>5, LogAssumption DEF RoomInv, LogAssumption, Idle
<1>8. GapInv'
  <2>1. CASE rot' = Idle
    BY <2>1, LogAssumption DEF GapInv, LogAssumption, Idle
  <2>2. CASE rot # 0 /\ rot' = rot - 1
    BY <1>3, <1>4, <2>2 DEF GapInv
  <2> QED  BY <1>5, <2>1, <2>2
<1>9. OrderInv'
  <2> SUFFICES ASSUME NEW i \in 0..Last, NEW j \in 0..Last, i < j,
                      NEW x \in file'[i], NEW y \in file'[j]
               PROVE  y < x
    BY DEF OrderInv
  <2> DEFINE From(k) == IF k = rot + 1 THEN rot ELSE k
  <2>1. i # rot /\ j # rot  BY <1>4
  <2>2. From(i) \in 0..Last /\ From(j) \in 0..Last /\ From(i) < From(j)
    BY <1>3, <2>1
  <2>3. x \in file[From(i)] /\ y \in file[From(j)]  BY <1>4, <2>1
  <2> QED  BY <2>2, <2>3, Zenon DEF LogInv, OrderInv
<1>10. TailInv'  BY <1>1, <1>4 DEF TailInv, LogInv
<1> QED  BY <1>6, <1>7, <1>8, <1>9, <1>10 DEF LogInv

(* The steps that lose a line, or only look. *)
LEMMA OtherLogSteps ==
    ASSUME LogInv, NEW w \in Writer,
           LockLog(w) \/ PutFails(w) \/ FlushFails(w) \/ StatFile(w) \/ ShiftFails(w)
    PROVE  LogInv'
<1>1. LogType /\ RoomInv /\ GapInv  BY DEF LogInv
<1>2. UNCHANGED disk
  BY Zenon DEF LockLog, PutFails, FlushFails, StatFile, ShiftFails, disk
<1>3. OrderInv' /\ TailInv'  BY <1>2, SameFiles DEF LogInv
<1>4. LogType' /\ RoomInv' /\ GapInv'
  <2>1. CASE LockLog(w)
    <3>1. /\ put < MaxLines /\ holder' = w
          /\ UNCHANGED <<file, open, count, rot, put, faults>>
      BY <2>1 DEF LockLog
    <3> QED  BY <1>1, <3>1 DEF LogType, RoomInv, GapInv
  <2>2. CASE PutFails(w)
    <3>1. /\ open' = FALSE /\ holder' = NoWriter /\ Fault
          /\ UNCHANGED <<file, count, rot, put>>
      BY <2>2 DEF PutFails, Unlock
    <3> QED  BY <1>1, <3>1, FaultType DEF LogType, RoomInv, GapInv
  <2>3. CASE FlushFails(w)
    <3>1. rot = Idle /\ Fault /\ Counted /\ UNCHANGED <<file, put>>
      BY <2>3 DEF FlushFails, disk
    <3>2. rot' = Stat \/ (rot' = Idle /\ holder' = NoWriter)
      BY <1>1, <3>1, CountedType
    <3>3. rot' \notin 0..MaxNum - 2
      BY <3>2, LogAssumption DEF LogAssumption, Stat, Idle
    <3>4. RoomInv' /\ GapInv'
      BY <3>2, <3>3, MarkFacts, Zenon DEF RoomInv, GapInv
    <3> QED  BY <1>1, <3>1, <3>4, CountedType, FaultType DEF LogType
  <2>4. CASE StatFile(w)
    <3>1. rot = Stat /\ UNCHANGED <<file, put, faults>>
      BY <2>4 DEF StatFile, disk
    <3>2. Shifted \/ (rot' = Remove /\ UNCHANGED <<open, count, holder>>)
      BY <2>4, Zenon DEF StatFile
    <3>3. CASE Shifted
      <4>1. rot' = Idle /\ holder' = NoWriter /\ Idle \notin 0..MaxNum - 2
        BY <1>1, <3>3, ShiftedType, LogAssumption DEF LogAssumption, Idle
      <4> QED  BY <1>1, <3>1, <3>3, <4>1, ShiftedType DEF LogType, RoomInv, GapInv
    <3>4. CASE rot' = Remove /\ UNCHANGED <<open, count, holder>>
      <4>1. Remove \notin 0..MaxNum - 2 /\ Remove # Idle
        BY LogAssumption DEF LogAssumption, Remove, Idle
      <4> QED  BY <1>1, <3>1, <3>4, <4>1, MarkFacts DEF LogType, RoomInv, GapInv
    <3> QED  BY <3>2, <3>3, <3>4
  <2>5. CASE ShiftFails(w)
    <3>1. Shifted /\ Fault /\ UNCHANGED <<file, put>>
      BY <2>5 DEF ShiftFails, disk
    <3>2. rot' = Idle /\ holder' = NoWriter /\ Idle \notin 0..MaxNum - 2
      BY <1>1, <3>1, ShiftedType, LogAssumption DEF LogAssumption, Idle
    <3> QED  BY <1>1, <3>1, <3>2, ShiftedType, FaultType DEF LogType, RoomInv, GapInv
  <2> QED  BY <2>1, <2>2, <2>3, <2>4, <2>5
<1> QED  BY <1>3, <1>4 DEF LogInv

LEMMA LogInvStarts ==
    ASSUME LogInit
    PROVE  LogInv
<1>1. /\ file = [i \in 0..Last |-> {}] /\ put = 0 /\ open = FALSE /\ count = 0
      /\ holder = NoWriter /\ rot = Idle /\ faults = MaxFaults
  BY DEF LogInit
<1>2. Kept = {}  BY <1>1 DEF Kept
<1>3. LogType
  <2>1. file \in [0..Last -> SUBSET (1..put)]  BY <1>1
  <2>2. put \in 0..MaxLines /\ count \in 0..Shift - 1 /\ faults \in 0..MaxFaults
    BY <1>1, LogAssumption DEF LogAssumption
  <2>3. open \in BOOLEAN /\ holder \in Writer \cup {NoWriter}  BY <1>1
  <2>4. rot \in 0..Remove \ {MaxNum - 1}  BY <1>1, MarkFacts
  <2> QED  BY <2>1, <2>2, <2>3, <2>4 DEF LogType
<1>4. RoomInv /\ GapInv
  BY <1>1, LogAssumption DEF RoomInv, GapInv, Idle, LogAssumption
<1>5. OrderInv /\ TailInv  BY <1>1, <1>2 DEF OrderInv, TailInv
<1> QED  BY <1>3, <1>4, <1>5 DEF LogInv

(* The invariant of the log, whatever the process does. *)
LEMMA LogInvKept ==
    ASSUME LogInv, [Next]_vars
    PROVE  LogInv'
<1>1. CASE Untouched
  <2>1. UNCHANGED <<file, count, holder, rot, put, faults>> /\ open' \in {FALSE, open}
    BY <1>1 DEF Untouched
  <2>2. OrderInv' /\ TailInv'  BY <2>1, SameFiles DEF LogInv, disk
  <2>3. open' \in BOOLEAN  BY <2>1, Zenon DEF LogInv, LogType
  <2>4. LogType' /\ RoomInv' /\ GapInv'
    BY <2>1, <2>3 DEF LogInv, LogType, RoomInv, GapInv
  <2> QED  BY <2>2, <2>4 DEF LogInv
<1>2. CASE LogGone
  <2>1. /\ open' = FALSE /\ count' = 0 /\ holder' = NoWriter /\ rot' = Idle
        /\ UNCHANGED <<file, put, faults>>
    BY <1>2 DEF LogGone, disk
  <2>2. OrderInv' /\ TailInv'  BY <2>1, SameFiles DEF LogInv, disk
  <2>3. Idle \notin 0..MaxNum - 2 /\ 0 \in 0..Shift - 1
    BY LogAssumption DEF LogAssumption, Idle
  <2>4. LogType' /\ RoomInv' /\ GapInv'
    BY <2>1, <2>3, MarkFacts DEF LogInv, LogType, RoomInv, GapInv
  <2> QED  BY <2>2, <2>4 DEF LogInv
<1>3. CASE LogNext
  <2>1. PICK w \in Writer : LockLog(w) \/ LogStep(w)  BY <1>3, Zenon DEF LogNext
  <2>2. CASE PutsLine(w)  BY <2>2, PutsLineInv
  <2>3. CASE RemoveOldest(w)  BY <2>3, RemoveOldestInv
  <2>4. CASE RenameNext(w)  BY <2>4, RenameNextInv
  <2>5. CASE LockLog(w) \/ PutFails(w) \/ FlushFails(w) \/ StatFile(w) \/ ShiftFails(w)
    BY <2>5, OtherLogSteps
  <2> QED  BY <2>1, <2>2, <2>3, <2>4, <2>5, Zenon DEF LogStep
<1>4. CASE UNCHANGED vars  BY <1>1, <1>4 DEF vars, logVars, Untouched
<1> QED  BY <1>1, <1>2, <1>3, <1>4, LogMoves, Zenon

(* However often a rename failed or the process was killed in the middle of a rotation,
   the files are the last lines written, in order: the rename of log.cpp goes from
   the oldest file down, each onto a name that is free.                       *)
THEOREM LogKeepsOrder == Spec => []LogOrdered
<1>1. Init => LogInv  BY LogInvStarts DEF Init
<1>2. LogInv /\ [Next]_vars => LogInv'  BY LogInvKept
<1>3. LogInv => LogOrdered
  BY DEF LogInv, OrderInv, TailInv, Kept, LogOrdered
<1> QED  BY <1>1, <1>2, <1>3, PTL DEF Spec

-----------------------------------------------------------------------------
(* The process: what is there at each stage of main.                        *)

(* What main changes on its way, and what only signals and the end of the process do. *)
MainType ==
    /\ main \in Starting \cup Ending \cup {"join"}
    /\ logs \in {"none", "open", "deleted"} /\ owner \in {"own", "server"}
    /\ array \in {"null", "made", "dangling"} /\ fd \in {"zero", "open", "listening", "closed"}
    /\ ready \in 0..NumThreads /\ running \in 0..NumThreads + 1 /\ mgr \in BOOLEAN
CalmType ==
    /\ proc \in {"off", "alive", "exited", "crashed", "wrecked"}
    /\ ender \in {"main", "thread"} /\ conf \in Confs
    /\ pending \in BOOLEAN /\ hup \in [Stack -> {"none", "in", "logged"}]
    /\ asked \in {"no", "serving", "early"}
    /\ exits \in 0..2 /\ starts \in 0..MaxStarts /\ hups \in 0..MaxHups

(* The stages from the first that has something on. *)
Threaded == {"accept monitor", "accept event", "run", "join"}
Piped == {"mgr", "socket", "bind", "listen",
          "accept monitor", "accept event", "run", "join"}
Arrayed == {"pipe", "monitor", "event", "mgr", "socket", "bind", "listen",
            "accept monitor", "accept event", "run", "join"}
Logging == {"keys", "mutex", "tables", "pools", "switch", "author", "array",
            "pipe", "monitor", "event", "mgr", "socket", "bind", "listen",
            "accept monitor", "accept event", "run", "join"}

StageInv ==
    /\ main \in Logging \/ running > 0 => logs = "open"
    /\ main = "nulllog" => logs = "deleted"
    /\ main = "exit" => logs = "none"
    /\ logs # "open" => owner = "own"
    /\ main \in Arrayed => array # "null"
    /\ main \in {"monitor", "event"} => ready < NumThreads
    /\ main \in Piped => ready = NumThreads
    /\ main \in Threaded => fd = "listening"
    /\ running > 0 => main \in {"run", "join", "finithreads"}
    /\ main = "join" => running > 0
    /\ main # "join" /\ ender = "main" => running <= NumThreads
    /\ main \in {"conf", "log"} => ~mgr
    /\ running > 0 \/ mgr => array # "null"
    /\ proc = "alive" => exits < 2

(* A thread that called exit gets no further than the threads it cancels. *)
EnderInv ==
    ender = "thread" =>
        main = "finithreads" /\ running > 0 /\ ready = NumThreads /\ fd = "listening"

(* The array is deleted once: a second fini goes on without one only. *)
EndInv ==
    /\ main \in Ending \ {"finithreads"} => array # "made"
    /\ exits # 0 => main \in Ending /\ array # "made" /\ (main # "finithreads" => array = "null")

(* A handler that found main serving leaves it serving, or in an exit that a thread called. *)
AskedInv ==
    /\ asked = "serving" => main = "join" \/ ender = "thread"
    /\ \A c \in Stack : hup[c] # "none" => asked # "no"

LifeInv == MainType /\ CalmType /\ StageInv /\ EnderInv /\ EndInv /\ AskedInv /\ EndsAsStarted

LEMMA LifeInvStarts ==
    ASSUME LifeInit
    PROVE  LifeInv
<1>1. MainType /\ CalmType
  <2>1. /\ ready \in 0..NumThreads /\ running \in 0..NumThreads + 1 /\ exits \in 0..2
        /\ starts \in 0..MaxStarts /\ hups \in 0..MaxHups
    BY LifeAssumption DEF LifeAssumption, LifeInit
  <2>2. hup \in [Stack -> {"none", "in", "logged"}]  BY DEF LifeInit, NoHup
  <2> QED  BY <2>1, <2>2 DEF LifeInit, MainType, CalmType, Starting
<1>2. StageInv
  BY LifeAssumption
     DEF LifeAssumption, LifeInit, StageInv, Logging, Arrayed, Piped, Threaded
<1>3. EnderInv /\ EndInv /\ EndsAsStarted
  BY DEF LifeInit, EnderInv, EndInv, EndsAsStarted, Ending
<1>4. AskedInv  BY DEF LifeInit, AskedInv, NoHup
<1> QED  BY <1>1, <1>2, <1>3, <1>4 DEF LifeInv

(* The step of main before its end keeps what only the signals and the end of the process
   change.                                                                   *)
LEMMA Calm ==
    ASSUME LifeInv, Same, proc = "alive", main \in Starting,
           main' \in Starting \cup {"finithreads", "join"}
    PROVE  CalmType' /\ EnderInv' /\ EndInv' /\ AskedInv' /\ EndsAsStarted'
<1>1. /\ proc' = proc /\ ender' = ender /\ conf' = conf /\ pending' = pending /\ hup' = hup
      /\ asked' = asked /\ exits' = exits /\ starts' = starts /\ hups' = hups
  BY DEF Same, signals
<1>2. CalmType'  BY <1>1 DEF LifeInv, CalmType
<1>3. main \notin Ending /\ main # "join"  BY DEF Starting, Ending
<1>4. ender = "main"  BY <1>3 DEF LifeInv, EnderInv, CalmType, Ending
<1>5. exits = 0  BY <1>3 DEF LifeInv, EndInv
<1>6. main' \notin Ending \ {"finithreads"}  BY DEF Starting, Ending
<1>7. asked # "serving"  BY <1>3, <1>4 DEF LifeInv, AskedInv
<1>8. EnderInv' /\ EndInv'  BY <1>1, <1>4, <1>5, <1>6 DEF EnderInv, EndInv
<1>9. AskedInv'  BY <1>1, <1>7 DEF LifeInv, AskedInv
<1>10. EndsAsStarted'  BY <1>1 DEF EndsAsStarted
<1> QED  BY <1>2, <1>8, <1>9, <1>10

(* The steps of main before the threads, but for the loops. *)
Stages ==
    \/ ReadSysConf \/ InitLog \/ RequestKeys \/ SetLogMutex \/ ReadTables
    \/ InitPools \/ InitSwitch \/ InitAuthor
    \/ MakeArray \/ InitMonitor \/ InitMgr \/ NewSocket \/ Bind \/ Listen

LEMMA StagesStage ==
    ASSUME LifeInv, Stages
    PROVE  StageInv'
<1> USE DEF LifeInv, StageInv, Logging, Arrayed, Piped, Threaded, At, Same, Goto, Throw
<1>1. CASE ReadSysConf  BY <1>1 DEF ReadSysConf
<1>2. CASE InitLog  BY <1>2 DEF InitLog, NewLogs
<1>3. CASE RequestKeys  BY <1>3 DEF RequestKeys
<1>4. CASE SetLogMutex  BY <1>4 DEF SetLogMutex
<1>5. CASE ReadTables  BY <1>5 DEF ReadTables, Tries
<1>6. CASE InitPools  BY <1>6 DEF InitPools, Does
<1>7. CASE InitSwitch  BY <1>7 DEF InitSwitch, Does
<1>8. CASE InitAuthor  BY <1>8 DEF InitAuthor, Tries
<1>9. CASE MakeArray  BY <1>9 DEF MakeArray
<1>10. CASE InitMonitor  BY <1>10 DEF InitMonitor, Tries
<1>11. CASE InitMgr  BY <1>11 DEF InitMgr
<1>12. CASE NewSocket  BY <1>12 DEF NewSocket
<1>13. CASE Bind  BY <1>13 DEF Bind, Tries
<1>14. CASE Listen  BY <1>14 DEF Listen
<1> QED
  BY <1>1, <1>2, <1>3, <1>4, <1>5, <1>6, <1>7, <1>8, <1>9, <1>10, <1>11, <1>12, <1>13, <1>14, Zenon
     DEF Stages

LEMMA StagesType ==
    ASSUME LifeInv, Stages
    PROVE  MainType' /\ main \in Starting /\ main' \in Starting \cup {"finithreads", "join"}
<1> USE DEF LifeInv, MainType, Starting, Ending, At, Goto, Throw
<1>1. CASE ReadSysConf  BY <1>1 DEF ReadSysConf
<1>2. CASE InitLog  BY <1>2 DEF InitLog, NewLogs
<1>3. CASE RequestKeys  BY <1>3 DEF RequestKeys
<1>4. CASE SetLogMutex  BY <1>4 DEF SetLogMutex
<1>5. CASE ReadTables  BY <1>5 DEF ReadTables, Tries
<1>6. CASE InitPools  BY <1>6 DEF InitPools, Does
<1>7. CASE InitSwitch  BY <1>7 DEF InitSwitch, Does
<1>8. CASE InitAuthor  BY <1>8 DEF InitAuthor, Tries
<1>9. CASE MakeArray  BY <1>9 DEF MakeArray
<1>10. CASE InitMonitor  BY <1>10 DEF InitMonitor, Tries
<1>11. CASE InitMgr  BY <1>11 DEF InitMgr
<1>12. CASE NewSocket  BY <1>12 DEF NewSocket
<1>13. CASE Bind  BY <1>13 DEF Bind, Tries
<1>14. CASE Listen  BY <1>14 DEF Listen
<1> QED
  BY <1>1, <1>2, <1>3, <1>4, <1>5, <1>6, <1>7, <1>8, <1>9, <1>10, <1>11, <1>12, <1>13, <1>14, Zenon
     DEF Stages

LEMMA StagesKeep ==
    ASSUME LifeInv, Stages
    PROVE  LifeInv'
<1>1. Same /\ proc = "alive"
  BY Zenon DEF Stages, ReadSysConf, InitLog, RequestKeys, SetLogMutex, ReadTables, InitPools,
               InitSwitch, InitAuthor, MakeArray, InitMonitor, InitMgr, NewSocket, Bind, Listen,
               Tries, Does, At
<1> QED  BY <1>1, Calm, StagesStage, StagesType, Zenon DEF LifeInv

(* The loop that makes the threads' pipes. *)
LEMMA NewPipeKeeps ==
    ASSUME LifeInv, NewPipe
    PROVE  LifeInv'
<1>1. /\ main = "pipe" /\ proc = "alive" /\ Same
      /\ UNCHANGED <<logs, owner, array, ready, running, mgr, fd>>
      /\ \/ main' = "mgr" /\ ready = NumThreads
         \/ main' = "monitor" /\ ready < NumThreads
         \/ main' = "finithreads"
  BY DEF NewPipe, Tries, Does, At, Goto, Throw
<1>2. StageInv'
  BY <1>1 DEF LifeInv, StageInv, Logging, Arrayed, Piped, Threaded, Same
<1>3. main \in Starting /\ main' \in Starting \cup {"finithreads", "join"}
  BY <1>1 DEF Starting
<1>4. MainType'
  BY <1>1, <1>3 DEF LifeInv, MainType, Ending
<1> QED  BY <1>1, <1>2, <1>3, <1>4, Calm DEF LifeInv

LEMMA AddEventKeeps ==
    ASSUME LifeInv, AddEvent
    PROVE  LifeInv'
<1>1. /\ proc = "alive" /\ Same
      /\ UNCHANGED <<logs, owner, array, running, mgr, fd>>
      /\ \/ main = "event" /\ main' = "pipe" /\ ready' = ready + 1
         \/ main = "accept event" /\ main' = "run" /\ ready' = ready
         \/ main \in {"event", "accept event"} /\ main' = "finithreads" /\ ready' = ready
  BY DEF AddEvent, Tries, At, Goto, Throw
<1>2. ready' \in 0..NumThreads
  <2>1. ready \in 0..NumThreads /\ NumThreads \in Nat
    BY LifeAssumption DEF LifeAssumption, LifeInv, MainType
  <2>2. main = "event" => ready < NumThreads  BY DEF LifeInv, StageInv
  <2>3. ready' = ready \/ (main = "event" /\ ready' = ready + 1)  BY <1>1, Zenon
  <2> QED  BY <2>1, <2>2, <2>3
<1>3. StageInv'
  BY <1>1 DEF LifeInv, StageInv, Logging, Arrayed, Piped, Threaded, Same
<1>4. main \in Starting /\ main' \in Starting \cup {"finithreads", "join"}
  BY <1>1, Zenon DEF Starting
<1>5. MainType'
  BY <1>1, <1>2, <1>4 DEF LifeInv, MainType, Ending
<1> QED  BY <1>1, <1>3, <1>4, <1>5, Calm DEF LifeInv

LEMMA RunThreadKeeps ==
    ASSUME LifeInv, RunThread
    PROVE  LifeInv'
<1>1. /\ main = "run" /\ proc = "alive" /\ Same
      /\ UNCHANGED <<logs, owner, array, ready, mgr, fd>>
  BY DEF RunThread, At
<1>2. running \in 0..NumThreads /\ NumThreads \in Nat
  <2>1. ender = "main"  BY <1>1 DEF LifeInv, EnderInv, CalmType
  <2>2. running \in 0..NumThreads + 1 /\ running <= NumThreads
    BY <1>1, <2>1 DEF LifeInv, MainType, StageInv
  <2> QED  BY <2>2, LifeAssumption DEF LifeAssumption
<1>3. \/ main' = "finithreads" /\ running' = running
      \/ running = NumThreads /\ main' = "join" /\ running' = running + 1
      \/ running # NumThreads /\ main' = "run" /\ running' = running + 1
  BY DEF RunThread, Goto, Throw
<1>4. /\ running' \in 0..NumThreads + 1
      /\ main' = "join" => running' > 0
      /\ main' # "join" => running' <= NumThreads
  BY <1>2, <1>3
<1>5. array # "null" /\ ready = NumThreads /\ fd = "listening" /\ logs = "open"
  BY <1>1 DEF LifeInv, StageInv, Logging, Arrayed, Piped, Threaded
<1>6. exits < 2  BY <1>1 DEF LifeInv, StageInv
<1>7. main' \in {"finithreads", "join", "run"}  BY <1>3
<1>8. StageInv'
  BY <1>1, <1>4, <1>5, <1>6, <1>7 DEF StageInv, Same
<1>9. main \in Starting /\ main' \in Starting \cup {"finithreads", "join"}
  BY <1>1, <1>7, Zenon DEF Starting
<1>10. MainType'
  BY <1>1, <1>4, <1>9 DEF LifeInv, MainType, Ending
<1> QED  BY <1>1, <1>8, <1>9, <1>10, Calm DEF LifeInv

LEMMA ThreadExitsKeeps ==
    ASSUME LifeInv, ThreadExits
    PROVE  LifeInv'
<1>1. /\ main = "join" /\ main' = "finithreads" /\ ender' = "thread" /\ proc = "alive"
      /\ UNCHANGED <<proc, conf, logs, owner, array, ready, running, mgr, fd, pending, hup,
                     asked, exits, starts, hups>>
  BY DEF ThreadExits, Serving, Goto, signals
<1>2. running > 0 /\ ready = NumThreads /\ fd = "listening"
  BY <1>1 DEF LifeInv, StageInv, Piped, Threaded
<1>3. exits = 0  BY <1>1 DEF LifeInv, EndInv, Ending
<1>4. MainType' /\ CalmType'  BY <1>1 DEF LifeInv, MainType, CalmType, Ending
<1>5. StageInv'
  BY <1>1 DEF LifeInv, StageInv, Logging, Arrayed, Piped, Threaded
<1>6. EnderInv' /\ EndInv'  BY <1>1, <1>2, <1>3 DEF EnderInv, EndInv
<1>7. AskedInv' /\ EndsAsStarted'  BY <1>1 DEF LifeInv, AskedInv, EndsAsStarted
<1> QED  BY <1>4, <1>5, <1>6, <1>7 DEF LifeInv

(* The process ends by its own hand, or freed memory was used: all else is left. *)
Stops == proc' \in {"crashed", "wrecked"} /\ UNCHANGED Rest

LEMMA StopsKeep ==
    ASSUME LifeInv, Stops, EndsAsStarted'
    PROVE  LifeInv'
<1>1. /\ proc' \in {"crashed", "wrecked"}
      /\ UNCHANGED <<main, ender, conf, logs, owner, array, ready, running, mgr, fd, pending,
                     hup, asked, exits, starts, hups>>
  BY DEF Stops, Rest, signals
<1>2. MainType' /\ CalmType'  BY <1>1 DEF LifeInv, MainType, CalmType
<1>3. StageInv'  BY <1>1 DEF LifeInv, StageInv
<1>4. EnderInv' /\ EndInv' /\ AskedInv'  BY <1>1 DEF LifeInv, EnderInv, EndInv, AskedInv
<1> QED  BY <1>2, <1>3, <1>4 DEF LifeInv

(* One that fails on its way out meets it only where EndsAsStarted says so. *)
LEMMA StopsAtEnd ==
    ASSUME LifeInv, Stops, main \in Ending, owner = "server" \/ array # "null"
    PROVE  LifeInv'
<1>1. EndsAsStarted'  BY DEF Stops, Rest, EndsAsStarted
<1> QED  BY <1>1, StopsKeep

LEMMA FiniThreadsKeeps ==
    ASSUME LifeInv, FiniThreads
    PROVE  LifeInv'
<1>1. main = "finithreads" /\ proc = "alive"  BY DEF FiniThreads, At
<1>2. CASE Stops
  <2>1. array # "null"
    <3>1. array = "dangling" \/ running > 0
      BY <1>1, <1>2 DEF FiniThreads, CancelAborts, Stops, Same
    <3> QED  BY <3>1 DEF LifeInv, StageInv
  <2> QED  BY <1>1, <1>2, <2>1, StopsAtEnd DEF Ending
<1>3. CASE ~Stops
  <2>1. /\ array # "dangling" /\ running = 0 /\ main' = "finiaccept"
        /\ array' = IF array = "made" THEN "dangling" ELSE array
        /\ UNCHANGED <<proc, ender, conf, logs, owner, ready, running, mgr, fd, pending, hup,
                       asked, exits, starts, hups>>
    BY <1>3 DEF FiniThreads, CancelAborts, Crash, Wreck, Stops, Same, Goto, signals
  <2>2. array' # "made" /\ (array # "null" => array' # "null")
        /\ array' \in {"null", "made", "dangling"} /\ (array # "made" => array' = "null")
    BY <2>1 DEF LifeInv, MainType
  <2>3. ender = "main"  BY <2>1 DEF LifeInv, EnderInv, CalmType
  <2>4. MainType'  BY <2>1, <2>2 DEF LifeInv, MainType, Ending
  <2>5. CalmType'  BY <2>1 DEF LifeInv, CalmType
  <2>6. StageInv'
    BY <1>1, <2>1, <2>2 DEF LifeInv, StageInv, Logging, Arrayed, Piped, Threaded
  <2>7. EnderInv' /\ EndInv'
    BY <1>1, <2>1, <2>2, <2>3 DEF LifeInv, EnderInv, EndInv, Ending
  <2>8. AskedInv' /\ EndsAsStarted'
    BY <1>1, <2>1 DEF LifeInv, AskedInv, EndsAsStarted
  <2> QED  BY <2>4, <2>5, <2>6, <2>7, <2>8 DEF LifeInv
<1> QED  BY <1>2, <1>3

(* A step further on the way out of a process that nothing runs in but the manager thread. *)
LEMMA OutKeeps ==
    ASSUME LifeInv, proc = "alive", main \in Ending \ {"finithreads", "exit"},
           main' \in {"finilog", "deletelog", "nulllog", "exit"},
           fd' \in {fd, "closed"}, logs' \in {"none", "open", "deleted"},
           UNCHANGED <<proc, ender, conf, owner, array, ready, running, mgr, signals, exits, starts>>,
           logs' # "open" => owner = "own",
           main' = "nulllog" => logs' = "deleted",
           main' = "exit" => logs' = "none"
    PROVE  LifeInv'
<1>1. UNCHANGED <<pending, hup, asked, hups>>  BY DEF signals
<1>2. main # "finithreads" /\ main # "join" /\ main \in Ending  BY DEF Ending
<1>3. ender = "main"  BY <1>2 DEF LifeInv, EnderInv, CalmType
<1>4. ~(running > 0)  BY DEF LifeInv, StageInv, Ending
<1>5. MainType' /\ CalmType'  BY <1>1 DEF LifeInv, MainType, CalmType, Ending
<1>6. StageInv'
  BY <1>2, <1>3, <1>4 DEF LifeInv, StageInv, Logging, Arrayed, Piped, Threaded
<1>7. EnderInv' /\ EndInv'  BY <1>2, <1>3 DEF LifeInv, EnderInv, EndInv, Ending
<1>8. AskedInv' /\ EndsAsStarted'
  BY <1>1, <1>2, <1>3 DEF LifeInv, AskedInv, EndsAsStarted
<1> QED  BY <1>5, <1>6, <1>7, <1>8 DEF LifeInv

LEMMA FiniAcceptKeeps ==
    ASSUME LifeInv, FiniAccept
    PROVE  LifeInv'
<1>1. /\ main = "finiaccept" /\ main' = "finilog" /\ fd' = "closed" /\ proc = "alive"
      /\ UNCHANGED <<proc, ender, conf, logs, owner, array, ready, running, mgr, signals,
                     exits, starts>>
  BY DEF FiniAccept, At, Closed, Goto, Same
<1>2. logs' \in {"none", "open", "deleted"} /\ (logs' # "open" => owner = "own")
  BY <1>1 DEF LifeInv, MainType, StageInv
<1> QED  BY <1>1, <1>2, OutKeeps DEF Ending

LEMMA CloseLogKeeps ==
    ASSUME LifeInv, CloseLog
    PROVE  LifeInv'
<1>1. /\ main = "finilog" /\ main' = (IF logs = "none" THEN "exit" ELSE "deletelog")
      /\ proc = "alive"
      /\ UNCHANGED <<proc, ender, conf, logs, owner, array, ready, running, mgr, fd, signals,
                     exits, starts>>
  BY DEF CloseLog, At, Goto
<1>2. logs' \in {"none", "open", "deleted"} /\ (logs' # "open" => owner = "own")
  BY <1>1 DEF LifeInv, MainType, StageInv
<1> QED  BY <1>1, <1>2, OutKeeps DEF Ending

LEMMA DeleteLogKeeps ==
    ASSUME LifeInv, DeleteLog
    PROVE  LifeInv'
<1>1. main = "deletelog" /\ proc = "alive"  BY DEF DeleteLog, At
<1>2. CASE owner = "server"
  <2>1. Stops  BY <1>2 DEF DeleteLog, Crash, Stops
  <2> QED  BY <1>1, <1>2, <2>1, StopsAtEnd DEF Ending
<1>3. CASE owner # "server"
  <2>1. /\ main' = "nulllog" /\ logs' = "deleted" /\ owner = "own"
        /\ UNCHANGED <<proc, ender, conf, owner, array, ready, running, mgr, fd, signals, exits, starts>>
    BY <1>3 DEF DeleteLog, Goto, Same
  <2> QED  BY <1>1, <2>1, OutKeeps DEF Ending
<1> QED  BY <1>2, <1>3

LEMMA NullLogKeeps ==
    ASSUME LifeInv, NullLog
    PROVE  LifeInv'
<1>1. /\ main = "nulllog" /\ main' = "exit" /\ logs' = "none" /\ proc = "alive"
      /\ UNCHANGED <<proc, ender, conf, owner, array, ready, running, mgr, fd, signals, exits, starts>>
  BY DEF NullLog, At, Goto, Same
<1>2. owner = "own"  BY <1>1 DEF LifeInv, StageInv
<1> QED  BY <1>1, <1>2, OutKeeps DEF Ending

LEMMA ExitKeeps ==
    ASSUME LifeInv, Exit
    PROVE  LifeInv'
<1>1. /\ main = "exit" /\ proc = "alive" /\ exits' = exits + 1
      /\ UNCHANGED <<ender, conf, logs, owner, array, ready, running, mgr, fd, pending, hup,
                     asked, starts, hups>>
  BY DEF Exit, At, signals
<1>2. exits \in 0..1
  <2>1. exits \in 0..2 /\ exits < 2  BY <1>1 DEF LifeInv, CalmType, StageInv
  <2> QED  BY <2>1
<1>3. \/ exits = 0 /\ main' = "finithreads" /\ proc' = "alive"
      \/ exits # 0 /\ main' = "exit" /\ proc' = "exited"
  BY <1>1 DEF Exit, Goto
<1>4. /\ exits' \in 0..2 /\ (proc' = "alive" => exits' < 2) /\ exits' # 0
  BY <1>1, <1>2, <1>3
<1>5. ender = "main"  BY <1>1 DEF LifeInv, EnderInv, CalmType
<1>6. /\ running <= NumThreads /\ logs = "none" /\ owner = "own" /\ ~(running > 0)
      /\ array # "made" /\ (mgr => array # "null")
  BY <1>1, <1>5 DEF LifeInv, StageInv, EndInv, Ending
<1>7. MainType' /\ CalmType'  BY <1>1, <1>3, <1>4 DEF LifeInv, MainType, CalmType, Ending
<1>8. StageInv'
  BY <1>1, <1>3, <1>4, <1>6, ZenonT(60) DEF StageInv, Logging, Arrayed, Piped, Threaded
<1>9. EnderInv' /\ EndInv'
  BY <1>1, <1>3, <1>5, <1>6 DEF LifeInv, EnderInv, EndInv, Ending
<1>10. AskedInv'  BY <1>1, <1>5 DEF LifeInv, AskedInv
<1>11. EndsAsStarted'
  BY <1>1, <1>3, <1>6 DEF LifeInv, EndInv, EndsAsStarted
<1> QED  BY <1>7, <1>8, <1>9, <1>10, <1>11 DEF LifeInv

LEMMA StartKeeps ==
    ASSUME LifeInv, NEW c \in Confs, Start(c)
    PROVE  LifeInv'
<1> USE DEF Start, Fresh
<1>1. MainType' /\ CalmType'
  <2>1. /\ ready' \in 0..NumThreads /\ running' \in 0..NumThreads + 1 /\ exits' \in 0..2
    BY LifeAssumption DEF LifeAssumption
  <2>2. starts' \in 0..MaxStarts
    BY LifeAssumption DEF LifeAssumption, LifeInv, CalmType
  <2>3. hup' \in [Stack -> {"none", "in", "logged"}]  BY DEF NoHup
  <2>4. MainType'  BY <2>1 DEF MainType, Starting
  <2>5. CalmType'  BY <2>1, <2>2, <2>3 DEF LifeInv, CalmType
  <2> QED  BY <2>4, <2>5
<1>2. StageInv'
  BY LifeAssumption DEF LifeAssumption, StageInv, Logging, Arrayed, Piped, Threaded
<1>3. EnderInv' /\ EndInv' /\ EndsAsStarted'  BY DEF EnderInv, EndInv, EndsAsStarted, Ending
<1>4. AskedInv'  BY DEF AskedInv, NoHup
<1> QED  BY <1>1, <1>2, <1>3, <1>4 DEF LifeInv

LEMMA KillKeeps ==
    ASSUME LifeInv, Kill
    PROVE  LifeInv'
<1>1. /\ proc' = "off"
      /\ UNCHANGED <<main, ender, conf, logs, owner, array, ready, running, mgr, fd, pending,
                     hup, asked, exits, starts, hups>>
  BY DEF Kill, Rest, signals
<1>2. MainType' /\ CalmType'  BY <1>1 DEF LifeInv, MainType, CalmType
<1>3. StageInv'  BY <1>1 DEF LifeInv, StageInv
<1>4. EnderInv' /\ EndInv' /\ AskedInv'  BY <1>1 DEF LifeInv, EnderInv, EndInv, AskedInv
<1>5. EndsAsStarted'  BY <1>1 DEF EndsAsStarted
<1> QED  BY <1>2, <1>3, <1>4, <1>5 DEF LifeInv

(* The steps of a signal leave alone what main does. *)
LEMMA SignalKeeps ==
    ASSUME LifeInv, proc = "alive",
           UNCHANGED <<proc, main, ender, conf, logs, owner, array, ready, running, mgr, fd, exits, starts>>,
           pending' \in BOOLEAN, hup' \in [Stack -> {"none", "in", "logged"}],
           asked' \in {"no", "serving", "early"}, hups' \in 0..MaxHups,
           AskedInv'
    PROVE  LifeInv'
<1>1. MainType' /\ CalmType'  BY DEF LifeInv, MainType, CalmType
<1>2. StageInv'  BY DEF LifeInv, StageInv
<1>3. EnderInv' /\ EndInv' /\ EndsAsStarted'
  BY DEF LifeInv, EnderInv, EndInv, EndsAsStarted
<1> QED  BY <1>1, <1>2, <1>3 DEF LifeInv

LEMMA HangKeeps ==
    ASSUME LifeInv, Hang
    PROVE  LifeInv'
<1>1. hups' \in 0..MaxHups
  BY LifeAssumption DEF Hang, LifeAssumption, LifeInv, CalmType
<1>2. /\ proc = "alive" /\ pending' = TRUE
      /\ UNCHANGED <<proc, main, ender, conf, logs, owner, array, ready, running, mgr, fd, hup,
                     asked, exits, starts>>
  BY DEF Hang
<1>3. AskedInv'  BY <1>2 DEF LifeInv, AskedInv
<1> QED  BY <1>1, <1>2, <1>3, SignalKeeps DEF LifeInv, CalmType

LEMMA HupBeginsKeeps ==
    ASSUME LifeInv, NEW c \in Stack, HupBegins(c)
    PROVE  LifeInv'
<1>1. /\ proc = "alive" /\ pending' = FALSE /\ hup' = [hup EXCEPT ![c] = "in"]
      /\ asked' = IF ~Serving \/ asked = "early" THEN "early" ELSE "serving"
      /\ UNCHANGED <<proc, main, ender, conf, logs, owner, array, ready, running, mgr, fd,
                     exits, starts, hups>>
  BY DEF HupBegins, Handler
<1>2. hup \in [Stack -> {"none", "in", "logged"}]  BY DEF LifeInv, CalmType
<1>3. hup' \in [Stack -> {"none", "in", "logged"}]  BY <1>1, <1>2
<1>4. asked' \in {"serving", "early"} /\ (asked' = "serving" => main = "join")
  BY <1>1 DEF Serving
<1>5. AskedInv'  BY <1>1, <1>4 DEF AskedInv
<1> QED  BY <1>1, <1>3, <1>4, <1>5, SignalKeeps DEF LifeInv, CalmType

(* Main serves with its logs open, and a handler that came earlier is "early". *)
LEMMA HupCrashesKeeps ==
    ASSUME LifeInv, NEW c \in Stack, HupCrashes(c)
    PROVE  LifeInv'
<1>1. hup[c] = "in" /\ Unready /\ proc' = "crashed" /\ Stops
  BY DEF HupCrashes, Crash, Stops
<1>2. asked \in {"serving", "early"}
  BY <1>1 DEF LifeInv, AskedInv, CalmType
<1>3. asked # "serving"
  <2>1. CASE main = "join"
    BY <1>1, <2>1 DEF Unready, LifeInv, StageInv, Logging
  <2>2. CASE ender = "thread"
    BY <1>1, <2>2 DEF Unready, LifeInv, StageInv, EnderInv
  <2> QED  BY <2>1, <2>2 DEF LifeInv, AskedInv
<1>4. asked' = asked  BY <1>1 DEF Stops, Rest, signals
<1>5. EndsAsStarted'  BY <1>1, <1>2, <1>3, <1>4 DEF EndsAsStarted
<1> QED  BY <1>1, <1>5, StopsKeep

LEMMA ReloadBreaksKeeps ==
    ASSUME LifeInv, ReloadBreaks
    PROVE  LifeInv'
<1>1. main = "join" /\ asked # "no" /\ proc' = "crashed" /\ Stops
  BY DEF ReloadBreaks, Serving, Crash, Stops
<1>2. main' = main /\ asked' = asked /\ asked \in {"serving", "early"}
  BY <1>1 DEF Stops, Rest, signals, LifeInv, CalmType
<1>3. EndsAsStarted'  BY <1>1, <1>2 DEF EndsAsStarted
<1> QED  BY <1>1, <1>3, StopsKeep

LEMMA HupWritesKeeps ==
    ASSUME LifeInv, NEW c \in Stack, HupWrites(c)
    PROVE  LifeInv'
<1>1. /\ proc = "alive" /\ hup[c] = "in" /\ hup' = [hup EXCEPT ![c] = "logged"]
      /\ UNCHANGED <<proc, main, ender, conf, logs, owner, array, ready, running, mgr, fd,
                     pending, asked, exits, starts, hups>>
  BY DEF HupWrites, Handler
<1>2. hup \in [Stack -> {"none", "in", "logged"}]  BY DEF LifeInv, CalmType
<1>3. hup' \in [Stack -> {"none", "in", "logged"}]  BY <1>1, <1>2
<1>4. \A d \in Stack : hup'[d] # "none" => hup[d] # "none"  BY <1>1, <1>2
<1>5. AskedInv'  BY <1>1, <1>4 DEF LifeInv, AskedInv
<1> QED  BY <1>1, <1>3, <1>5, SignalKeeps DEF LifeInv, CalmType

LEMMA HupEndsKeeps ==
    ASSUME LifeInv, NEW c \in Stack, HupEnds(c)
    PROVE  LifeInv'
<1>1. /\ proc = "alive" /\ hup' = [hup EXCEPT ![c] = "none"]
      /\ UNCHANGED <<proc, main, ender, conf, logs, owner, array, ready, running, mgr, fd,
                     pending, asked, exits, starts, hups>>
  BY DEF HupEnds, Handler
<1>2. hup \in [Stack -> {"none", "in", "logged"}]  BY DEF LifeInv, CalmType
<1>3. hup' \in [Stack -> {"none", "in", "logged"}]  BY <1>1, <1>2
<1>4. \A d \in Stack : hup'[d] # "none" => hup[d] # "none"  BY <1>1, <1>2
<1>5. AskedInv'  BY <1>1, <1>4 DEF LifeInv, AskedInv
<1> QED  BY <1>1, <1>3, <1>5, SignalKeeps DEF LifeInv, CalmType

(* The manager thread is there after the threads' array, and while the logs are not yet
   deleted.                                                                  *)
LEMMA MgrCrashesKeeps ==
    ASSUME LifeInv, MgrCrashes
    PROVE  LifeInv'
<1>1. mgr /\ logs # "open" /\ Stops
  BY DEF MgrCrashes, Crash, Stops
<1>2. array # "null" /\ main \notin {"conf", "log"} /\ main \notin Logging
  BY <1>1 DEF LifeInv, StageInv
<1>3. main \in Ending
  BY <1>2, ZenonT(60)
     DEF LifeInv, MainType, Starting, Ending, Logging, Arrayed, Piped, Threaded
<1> QED  BY <1>1, <1>2, <1>3, StopsAtEnd

LEMMA SameLife ==
    ASSUME LifeInv, UNCHANGED lifeVars
    PROVE  LifeInv'
<1>1. UNCHANGED <<proc, main, ender, conf, logs, owner, array, ready, running, mgr, fd,
                  pending, hup, asked, hups, exits, starts>>
  BY DEF lifeVars, signals
<1>2. MainType' /\ CalmType'  BY <1>1 DEF LifeInv, MainType, CalmType
<1>3. StageInv'  BY <1>1 DEF LifeInv, StageInv
<1>4. EnderInv' /\ EndInv' /\ AskedInv' /\ EndsAsStarted'
  BY <1>1 DEF LifeInv, EnderInv, EndInv, AskedInv, EndsAsStarted
<1> QED  BY <1>2, <1>3, <1>4 DEF LifeInv

LEMMA LifeInvKept ==
    ASSUME LifeInv, [Next]_vars
    PROVE  LifeInv'
<1>1. CASE MainStep
  BY <1>1, StagesKeep, NewPipeKeeps, AddEventKeeps, RunThreadKeeps, FiniThreadsKeeps,
     FiniAcceptKeeps, CloseLogKeeps, DeleteLogKeeps, NullLogKeeps, ExitKeeps, Zenon
     DEF MainStep, Stages
<1>2. ASSUME NEW c \in Stack, Line(c) PROVE UNCHANGED lifeVars
  BY <1>2, Zenon DEF Line
<1>3. ASSUME NEW w \in Writer, Goes(w) PROVE UNCHANGED lifeVars
  BY <1>3, Zenon DEF Goes
<1>4. CASE UNCHANGED lifeVars  BY <1>4, SameLife
<1>5. CASE \E c \in Confs : Start(c)  BY <1>5, StartKeeps
<1>6. ASSUME NEW c \in Stack, HupBegins(c) \/ HupCrashes(c) \/ HupWrites(c) \/ HupEnds(c)
      PROVE  LifeInv'
  BY <1>6, HupBeginsKeeps, HupCrashesKeeps, HupWritesKeeps, HupEndsKeeps, Zenon
<1> QED
  BY <1>1, <1>2, <1>3, <1>4, <1>5, <1>6, KillKeeps, HangKeeps, ThreadExitsKeeps,
     ReloadBreaksKeeps, MgrCrashesKeeps, Zenon DEF Next, vars

-----------------------------------------------------------------------------
(* Whose the mutex of the log is.                                           *)

(* Who holds it is there: main before it serves and with a log, the manager thread, a
   thread that runs, or a handler that has not ended.                        *)
HolderInv ==
    holder # NoWriter =>
        /\ Runs
        /\ holder = Own("main") => logs = "open" /\ main # "join" /\ ender = "main"
        /\ holder = Own("mgr") => mgr
        /\ holder = Own("thread") => running > 0
        /\ \A c \in Stack : holder = Hup(c) => hup[c] # "none"

LEMMA StepHolds ==
    ASSUME NEW w \in Writer, LogStep(w)
    PROVE  holder = w /\ holder' \in {holder, NoWriter}
<1> USE DEF Counted, Shifted, Unlock
<1>1. CASE PutFails(w)  BY <1>1 DEF PutFails
<1>2. CASE PutsLine(w)  BY <1>2 DEF PutsLine
<1>3. CASE FlushFails(w)  BY <1>3 DEF FlushFails
<1>4. CASE StatFile(w)  BY <1>4 DEF StatFile
<1>5. CASE RemoveOldest(w)  BY <1>5 DEF RemoveOldest
<1>6. CASE RenameNext(w)  BY <1>6 DEF RenameNext
<1>7. CASE ShiftFails(w)  BY <1>7 DEF ShiftFails
<1> QED  BY <1>1, <1>2, <1>3, <1>4, <1>5, <1>6, <1>7, Zenon DEF LogStep

(* The steps of main before it ends leave the log alone. *)
Before == MainStep /\ ~(FiniThreads \/ FiniAccept \/ CloseLog \/ DeleteLog \/ NullLog \/ Exit)

LEMMA StagesQuiet ==
    ASSUME LifeInv, Before
    PROVE  /\ proc = "alive" /\ holder # Own(ender) /\ logs' \in {logs, "open"}
           /\ mgr' \in {mgr, TRUE} /\ (running > 0 => running' > 0)
           /\ UNCHANGED <<proc, ender, signals, starts, logVars>>
<1> USE DEF At, Same, Before
<1>1. CASE ReadSysConf  BY <1>1 DEF ReadSysConf
<1>2. CASE InitLog  BY <1>2 DEF InitLog, NewLogs
<1>3. CASE RequestKeys  BY <1>3 DEF RequestKeys
<1>4. CASE SetLogMutex  BY <1>4 DEF SetLogMutex
<1>5. CASE ReadTables \/ InitPools \/ InitSwitch \/ InitAuthor
  BY <1>5 DEF ReadTables, InitPools, InitSwitch, InitAuthor, Tries, Does
<1>6. CASE MakeArray  BY <1>6 DEF MakeArray
<1>7. CASE NewPipe \/ InitMonitor  BY <1>7 DEF NewPipe, InitMonitor, Tries, Does
<1>8. CASE AddEvent  BY <1>8 DEF AddEvent, Tries
<1>9. CASE InitMgr  BY <1>9 DEF InitMgr
<1>10. CASE NewSocket \/ Bind \/ Listen
  BY <1>10 DEF NewSocket, Bind, Listen, Tries
<1>11. CASE RunThread
  <2>1. running \in Int
    BY LifeAssumption DEF LifeAssumption, LifeInv, MainType
  <2> QED  BY <1>11, <2>1 DEF RunThread
<1> QED
  BY <1>1, <1>2, <1>3, <1>4, <1>5, <1>6, <1>7, <1>8, <1>9, <1>10, <1>11, Zenon
     DEF MainStep, Before

(* Who holds the mutex keeps what makes him be there. *)
LEMMA HolderStays ==
    ASSUME HolderInv, Runs', holder' \in {holder, NoWriter},
           holder = Own("main") => logs' = "open" /\ main' # "join" /\ ender' = "main",
           mgr => mgr', running > 0 => running' > 0,
           \A c \in Stack : hup[c] # "none" /\ holder = Hup(c) => hup'[c] # "none"
    PROVE  HolderInv'
BY DEF HolderInv, Own, Hup

(* He who takes it is one of those. *)
LEMMA Differ ==
    /\ Own("main") # Own("mgr") /\ Own("main") # Own("thread") /\ Own("mgr") # Own("thread")
    /\ \A c, d \in Stack : Own(c) # Hup(d) /\ (c # d => Hup(c) # Hup(d))
BY DEF Own, Hup

LEMMA HolderInvKept ==
    ASSUME LifeInv, HolderInv, [Next]_vars
    PROVE  HolderInv'
<1>1. CASE LogGone  BY <1>1 DEF LogGone, HolderInv
<1>2. CASE holder = NoWriter /\ holder' = holder  BY <1>2 DEF HolderInv
<1>3. CASE UNCHANGED <<proc, main, ender, logs, mgr, running, hup>> /\ holder' \in {holder, NoWriter}
  BY <1>3 DEF HolderInv, Runs, Own, Hup
<1>4. ASSUME NEW c \in Confs, Start(c) PROVE HolderInv'
  <2>1. holder = NoWriter /\ holder' = holder
    BY <1>4 DEF Start, HolderInv, logVars
  <2> QED  BY <1>2, <2>1
<1>5. CASE Before
  <2>1. /\ proc = "alive" /\ holder # Own(ender) /\ logs' \in {logs, "open"}
        /\ mgr' \in {mgr, TRUE} /\ (running > 0 => running' > 0)
        /\ UNCHANGED <<proc, ender, signals, starts, logVars>>
    BY <1>5, StagesQuiet
  <2>2. proc' = "alive" /\ holder' = holder /\ hup' = hup  BY <2>1 DEF signals, logVars
  <2>3. Runs'  BY <2>2 DEF Runs
  <2>4. mgr => mgr'  BY <2>1, Zenon
  <2>5. CASE holder = NoWriter  BY <1>2, <2>2, <2>5
  <2>6. CASE holder # NoWriter
    <3>1. holder # Own("main")  BY <2>1, <2>6 DEF HolderInv
    <3> QED  BY <2>1, <2>2, <2>3, <2>4, <3>1, HolderStays
  <2> QED  BY <2>5, <2>6
<1>6. CASE FiniThreads \/ FiniAccept \/ CloseLog \/ DeleteLog \/ NullLog
  <2>1. CASE Crash  BY <1>1, <2>1 DEF Crash
  <2>2. CASE ~Crash
    <3>1. /\ proc = "alive" /\ holder # Own(ender) /\ proc' \in {"alive", "wrecked"}
          /\ holder' = holder /\ hup' = hup /\ mgr' = mgr /\ running' = running
          /\ ender' = ender
      <4> USE DEF At, Same, signals, logVars
      <4>1. CASE FiniThreads
        BY <2>2, <4>1 DEF FiniThreads, CancelAborts, Wreck, Rest
      <4>2. CASE FiniAccept  BY <4>1, <4>2 DEF FiniAccept
      <4>3. CASE CloseLog  BY <4>3 DEF CloseLog
      <4>4. CASE DeleteLog  BY <2>2, <4>4 DEF DeleteLog
      <4>5. CASE NullLog  BY <4>5 DEF NullLog
      <4> QED  BY <1>6, <4>1, <4>2, <4>3, <4>4, <4>5
    <3>2. holder # Own("main") \/ holder = NoWriter
      BY <3>1 DEF HolderInv
    <3>3. CASE holder = NoWriter  BY <1>2, <3>1, <3>3
    <3>4. CASE holder # Own("main")
      BY <3>1, <3>4, HolderStays DEF Runs
    <3> QED  BY <3>2, <3>3, <3>4
  <2> QED  BY <2>1, <2>2
<1>7. CASE Exit
  <2>1. CASE exits = 0
    <3>1. /\ proc = "alive" /\ holder # Own(ender)
          /\ UNCHANGED <<proc, ender, logs, mgr, running, hup, holder>>
      BY <1>7, <2>1 DEF Exit, At, signals, logVars
    <3>2. CASE holder = NoWriter  BY <1>2, <3>1, <3>2
    <3>3. CASE holder # NoWriter
      <4>1. holder # Own("main")  BY <3>1, <3>3 DEF HolderInv
      <4> QED  BY <3>1, <4>1, HolderStays DEF Runs
    <3> QED  BY <3>2, <3>3
  <2>2. CASE exits # 0  BY <1>1, <1>7, <2>2 DEF Exit
  <2> QED  BY <2>1, <2>2
<1>8. CASE MainStep
  BY <1>5, <1>6, <1>7, <1>8, Zenon DEF Before
<1>9. CASE ThreadExits
  <2>1. /\ main = "join" /\ proc = "alive"
        /\ UNCHANGED <<proc, logs, mgr, running, hup, holder>>
    BY <1>9 DEF ThreadExits, Serving, signals, logVars
  <2>2. CASE holder = NoWriter  BY <1>2, <2>1, <2>2
  <2>3. CASE holder # NoWriter
    <3>1. holder # Own("main")  BY <2>1, <2>3 DEF HolderInv
    <3> QED  BY <2>1, <3>1, HolderStays DEF Runs
  <2> QED  BY <2>2, <2>3
<1>10. CASE Kill \/ ReloadBreaks \/ MgrCrashes
  BY <1>1, <1>10, Zenon DEF Kill, ReloadBreaks, MgrCrashes, Crash
<1>11. CASE Hang  BY <1>3, <1>11 DEF Hang, logVars
<1>12. ASSUME NEW c \in Stack, HupBegins(c) PROVE HolderInv'
  <2>1. /\ proc = "alive" /\ hup' = [hup EXCEPT ![c] = "in"]
        /\ UNCHANGED <<proc, main, ender, logs, mgr, running, holder>>
    BY <1>12 DEF HupBegins, Handler, logVars
  <2>2. \A d \in Stack : hup[d] # "none" => hup'[d] # "none"
    BY <2>1 DEF LifeInv, CalmType
  <2>3. CASE holder = NoWriter  BY <1>2, <2>1, <2>3
  <2>4. CASE holder # NoWriter
    BY <2>1, <2>2, <2>4, HolderStays DEF Runs, HolderInv
  <2> QED  BY <2>3, <2>4
<1>13. ASSUME NEW c \in Stack, HupCrashes(c) PROVE HolderInv'
  BY <1>1, <1>13 DEF HupCrashes, Crash
<1>14. ASSUME NEW c \in Stack, HupWrites(c) PROVE HolderInv'
  <2>1. /\ proc = "alive" /\ hup' = [hup EXCEPT ![c] = "logged"] /\ holder' = Hup(c)
        /\ proc' = proc
    BY <1>14 DEF HupWrites, Handler, LockLog
  <2>2. hup'[c] # "none"  BY <2>1 DEF LifeInv, CalmType
  <2>3. \A d \in Stack : Hup(c) = Hup(d) => d = c  BY Differ
  <2>4. "main" \in Stack /\ "mgr" \in Stack /\ "thread" \in Stack  BY DEF Stack
  <2>5. Hup(c) # Own("main") /\ Hup(c) # Own("mgr") /\ Hup(c) # Own("thread")
    BY <2>4, Differ
  <2> QED  BY <2>1, <2>2, <2>3, <2>5 DEF HolderInv, Runs
<1>15. ASSUME NEW c \in Stack, HupEnds(c) PROVE HolderInv'
  <2>1. /\ proc = "alive" /\ hup' = [hup EXCEPT ![c] = "none"] /\ holder # Hup(c)
        /\ UNCHANGED <<proc, main, ender, logs, mgr, running, holder>>
    BY <1>15 DEF HupEnds, Handler, logVars
  <2>2. \A d \in Stack : hup[d] # "none" /\ holder = Hup(d) => hup'[d] # "none"
    BY <2>1 DEF LifeInv, CalmType
  <2>3. CASE holder = NoWriter  BY <1>2, <2>1, <2>3
  <2>4. CASE holder # NoWriter
    BY <2>1, <2>2, <2>4, HolderStays DEF Runs, HolderInv
  <2> QED  BY <2>3, <2>4
<1>16. ASSUME NEW c \in Stack, Line(c) PROVE HolderInv'
  <2>1. /\ Runs /\ Writes(c) /\ holder' = Own(c)
        /\ (logs = "open" \/ (c = "mgr" /\ logs = "deleted"))
        /\ UNCHANGED <<proc, main, ender, logs, mgr, running, hup>>
    BY <1>16 DEF Line, LockLog, lifeVars, signals
  <2>2. \A d \in Stack : Own(c) # Hup(d)  BY Differ
  <2>3. CASE c = "main"
    <3>1. main # "join" /\ ender = "main" /\ logs = "open"  BY <2>1, <2>3 DEF Writes
    <3> QED  BY <2>1, <2>2, <2>3, <3>1, Differ DEF HolderInv, Runs
  <2>4. CASE c = "mgr"
    <3>1. mgr  BY <2>1, <2>4 DEF Writes
    <3> QED  BY <2>1, <2>2, <2>4, <3>1, Differ DEF HolderInv, Runs
  <2>5. CASE c = "thread"
    <3>1. running > 0
      <4>1. running > 1 \/ running = 1  BY <2>1, <2>5 DEF Writes
      <4>2. running \in Int
        BY LifeAssumption DEF LifeAssumption, LifeInv, MainType
      <4> QED  BY <4>1, <4>2
    <3> QED  BY <2>1, <2>2, <2>5, <3>1, Differ DEF HolderInv, Runs
  <2> QED  BY <2>3, <2>4, <2>5 DEF Stack
<1>17. ASSUME NEW w \in Writer, Goes(w) PROVE HolderInv'
  BY <1>3, <1>17, StepHolds DEF Goes, lifeVars, signals
<1>18. CASE UNCHANGED vars  BY <1>3, <1>18 DEF vars, lifeVars, signals, logVars
<1> QED
  BY <1>4, <1>8, <1>9, <1>10, <1>11, <1>12, <1>13, <1>14, <1>15, <1>16, <1>17, <1>18, Zenon
     DEF Next

IInv == LogInv /\ LifeInv /\ HolderInv

LEMMA Invariant == Spec => []IInv
<1>1. Init => IInv
  BY LogInvStarts, LifeInvStarts DEF Init, IInv, HolderInv, LogInit
<1>2. IInv /\ [Next]_vars => IInv'
  BY LogInvKept, LifeInvKept, HolderInvKept, Zenon DEF IInv
<1> QED  BY <1>1, <1>2, PTL DEF Spec

(* Every variable has its type. *)
THEOREM TypeCorrect == Spec => []TypeOK
<1>1. IInv => TypeOK
  <2> SUFFICES ASSUME IInv PROVE TypeOK  OBVIOUS
  <2>1. LogType /\ MainType /\ CalmType  BY DEF IInv, LogInv, LifeInv
  <2>2. file \in [0..Last -> SUBSET (1..MaxLines)]
    <3>1. 1..put \subseteq 1..MaxLines
      BY <2>1, LogAssumption DEF LogType, LogAssumption
    <3> QED  BY <2>1, <3>1 DEF LogType
  <2> QED  BY <2>1, <2>2, Zenon DEF LogType, MainType, CalmType, TypeOK
<1> QED  BY <1>1, Invariant, PTL

(* Who has the mutex of a log that is not there is the manager thread, or a handler that
   came before the process served.                                           *)
LEMMA HolderHasLog ==
    ASSUME IInv
    PROVE  LogsOutliveWriters
<1> SUFFICES ASSUME holder # NoWriter PROVE Runs /\ (logs = "open" \/ mgr \/ asked = "early")
  BY DEF LogsOutliveWriters
<1>1. LifeInv /\ HolderInv /\ Runs  BY DEF IInv, HolderInv
<1>2. PICK c \in Stack : holder = Own(c) \/ holder = Hup(c)
  <2>1. holder \in Stack \X {"own", "hup"}
    BY LifeAssumption DEF IInv, LogInv, LogType, LifeAssumption
  <2> QED  BY <2>1 DEF Own, Hup
<1>3. CASE holder = Own(c)
  <2>1. CASE c = "main"  BY <1>1, <1>3, <2>1 DEF HolderInv
  <2>2. CASE c = "mgr"  BY <1>1, <1>3, <2>2 DEF HolderInv
  <2>3. CASE c = "thread"
    BY <1>1, <1>3, <2>3 DEF HolderInv, LifeInv, StageInv
  <2> QED  BY <1>1, <2>1, <2>2, <2>3 DEF Stack
<1>4. CASE holder = Hup(c)
  <2>1. asked \in {"serving", "early"}
    BY <1>1, <1>4 DEF HolderInv, LifeInv, AskedInv, CalmType
  <2>2. asked = "serving" => main = "join" \/ running > 0
    BY <1>1 DEF LifeInv, AskedInv, EnderInv
  <2>3. main = "join" \/ running > 0 => logs = "open"
    BY <1>1 DEF LifeInv, StageInv, Logging
  <2> QED  BY <1>1, <2>1, <2>2, <2>3
<1> QED  BY <1>2, <1>3, <1>4

(* How a start that fails, a thread that calls exit and a reload end the process (main.cpp,
   CRelayServer::fini, thread_run): in order only before the mutexes of the server and
   the array.  Nobody but the manager thread, or a handler that came early, is in a log
   when fini deletes it; no handler waits for a line of main while the process
   serves; and run starts the accept thread last, after every one it may choose. *)
THEOREM LifeStaysSafe == Spec => []LifeSafe
<1>1. IInv => EndsAsStarted  BY DEF IInv, LifeInv
<1>2. IInv => LogsOutliveWriters  BY HolderHasLog
<1>3. IInv => HandlerFindsLogFree
  <2> SUFFICES ASSUME IInv, holder = Own("main"), hup["main"] # "none" PROVE asked = "early"
    BY DEF HandlerFindsLogFree
  <2>1. "main" \in Stack /\ holder # NoWriter
    BY WritersAre, LogAssumption DEF Stack, LogAssumption
  <2>2. main # "join" /\ ender = "main"  BY <2>1 DEF IInv, HolderInv
  <2>3. asked # "no" /\ asked # "serving"  BY <2>1, <2>2 DEF IInv, LifeInv, AskedInv
  <2> QED  BY <2>3 DEF IInv, LifeInv, CalmType
<1>4. IInv => ServesWhole
  <2> SUFFICES ASSUME IInv, running > NumThreads
               PROVE  /\ main = "join" \/ ender = "thread"
                      /\ ready = NumThreads /\ fd = "listening" /\ logs = "open"
    BY DEF ServesWhole
  <2>1. StageInv /\ EnderInv /\ running \in Int /\ NumThreads \in Nat /\ ender \in {"main", "thread"}
    BY LifeAssumption DEF LifeAssumption, IInv, LifeInv, MainType, CalmType
  <2>2. running > 0  BY <2>1
  <2>3. main = "join" \/ ender = "thread"  BY <2>1 DEF StageInv
  <2> QED  BY <2>1, <2>2, <2>3 DEF StageInv, EnderInv, Piped, Threaded
<1> QED  BY <1>1, <1>2, <1>3, <1>4, Invariant, TypeCorrect, PTL DEF LifeSafe

-----------------------------------------------------------------------------
(* How large the log gets, and how much of it is kept.                      *)

(* A process that came to its end may have left a rotation half done.  Slack counts that
   when the next one starts; Debt counts it at once.                         *)
Ended == starts > 0 /\ ~Runs
Debt == IF Ended THEN Slack + 1 ELSE Slack

(* Without a process nobody is writing and nothing is counted. *)
QuietInv == ~Runs => count = 0 /\ rot = Idle
StartedInv == Runs => starts > 0

(* A rotation is done by who has the mutex. *)
HeldInv == rot # Idle => holder # NoWriter

Moving == rot \in 0..MaxNum - 2

(* Files are moved for a base.log of its full size. *)
FullInv == Moving \/ rot = Remove => Cardinality(file[0]) >= MaxSize

(* Lines of base.log that nobody has looked at, at most. *)
Due == IF rot = Idle THEN count ELSE Shift
GrowthInv == Cardinality(file[0]) < MaxSize + Shift * Debt + Due

(* Before a line of file j there are j - 1 full files and base.log, less what is owed; a
   file that was moved in the rotation at hand has the gap before it.         *)
Hole(j) == IF Moving /\ j > rot + 1 THEN 1 ELSE 0
DepthInv ==
    \A j \in 1..Last : \A x \in file[j] :
        put - x >= (j - 1 - Debt - Hole(j)) * MaxSize + Cardinality(file[0])

(* A line that is not kept any more has as many after it as the files hold. *)
LostInv == \A x \in 1..put : x \notin Kept => put - x >= (Last - Slack) * MaxSize

BoundInv ==
    /\ QuietInv /\ StartedInv /\ HeldInv
    /\ FullInv /\ GrowthInv /\ SizeBound /\ DepthInv /\ LostInv

(* What is owed is a number, before a step and after it. *)
LEMMA SlackType ==
    ASSUME IInv
    PROVE  /\ Slack \in Nat /\ Debt \in Nat /\ Slack <= Debt /\ Debt <= Slack + 1
           /\ ~Ended => Debt = Slack
<1>1. faults \in 0..MaxFaults /\ MaxFaults \in Nat /\ starts \in 0..MaxStarts /\ MaxStarts \in Nat
  BY LogAssumption, LifeAssumption
     DEF IInv, LogInv, LogType, LifeInv, CalmType, LogAssumption, LifeAssumption
<1>2. Slack \in Nat  BY <1>1 DEF Slack
<1> QED  BY <1>2 DEF Debt

LEMMA NextSlackType ==
    ASSUME IInv'
    PROVE  Slack' \in Nat /\ Debt' \in Nat
<1>1. /\ faults' \in 0..MaxFaults /\ MaxFaults \in Nat
      /\ starts' \in 0..MaxStarts /\ MaxStarts \in Nat
  BY LogAssumption, LifeAssumption
     DEF IInv, LogInv, LogType, LifeInv, CalmType, LogAssumption, LifeAssumption
<1>2. \A f \in 0..MaxFaults, t \in 0..MaxStarts :
        MaxFaults - f + (IF t > 0 THEN t - 1 ELSE 0) \in Nat
  BY <1>1
<1>3. Slack' = MaxFaults - faults' + (IF starts' > 0 THEN starts' - 1 ELSE 0)
  BY DEF Slack
<1>4. Slack' \in Nat  BY <1>1, <1>2, <1>3, Zenon
<1>5. Debt' = IF Ended' THEN Slack' + 1 ELSE Slack'  BY DEF Debt
<1>6. PICK s \in Nat : s = Slack'  BY <1>4
<1>7. Debt' = s \/ Debt' = s + 1  BY <1>5, <1>6
<1> QED  BY <1>4, <1>7

(* What a step does to the log, and what is owed after it. *)
Aside ==
    /\ UNCHANGED <<file, count, holder, rot, put, faults>>
    /\ Debt' >= Debt /\ Slack' >= Slack /\ QuietInv' /\ StartedInv'
Leaves == LogGone /\ Slack' = Slack /\ StartedInv' /\ Debt' = Debt + 1
Writing == LogNext /\ ~Ended /\ ~Ended' /\ Runs /\ Runs' /\ UNCHANGED starts

LEMMA DebtMoves ==
    ASSUME IInv, QuietInv, StartedInv, [Next]_vars
    PROVE  Aside \/ Leaves \/ Writing
<1>0. /\ Slack \in Nat /\ Debt \in Nat /\ Slack <= Debt /\ Debt <= Slack + 1
      /\ ~Ended => Debt = Slack
  BY SlackType
<1>1. ASSUME NEW c \in Confs, Start(c) PROVE Aside
  <2>1. /\ ~Runs /\ Runs' /\ starts' = starts + 1
        /\ UNCHANGED <<file, count, holder, rot, put, faults>>
    BY <1>1 DEF Start, Runs, logVars
  <2>2. starts \in Nat /\ faults' = faults
    BY <2>1, LifeAssumption DEF IInv, LifeInv, CalmType, LifeAssumption
  <2>3. ~Ended'  BY <2>1 DEF Ended
  <2>4. Debt' = Slack'  BY <2>3 DEF Debt
  <2>5. CASE starts = 0
    <3>1. Slack' = Slack /\ ~Ended  BY <2>1, <2>2, <2>5, <1>0 DEF Slack, Ended
    <3>2. Debt' = Debt  BY <2>4, <3>1, <1>0
    <3> QED  BY <1>0, <2>1, <2>2, <3>1, <3>2 DEF Aside, QuietInv, StartedInv
  <2>6. CASE starts > 0
    <3>1. faults \in Int /\ MaxFaults \in Int
      BY LogAssumption DEF IInv, LogInv, LogType, LogAssumption
    <3>2. Slack' = Slack + 1  BY <2>1, <2>2, <2>6, <3>1 DEF Slack
    <3>3. Debt = Slack + 1  BY <2>1, <2>6 DEF Debt, Ended
    <3> QED  BY <1>0, <2>1, <2>2, <2>4, <3>2, <3>3 DEF Aside, QuietInv, StartedInv
  <2> QED  BY <2>2, <2>5, <2>6
(* The process is gone. *)
<1>2. ASSUME LogGone, UNCHANGED starts, Runs, ~Runs'
      PROVE  Leaves
  <2>1. starts > 0 /\ faults' = faults /\ starts' = starts
    BY <1>2 DEF StartedInv, LogGone
  <2>2. Slack' = Slack  BY <2>1 DEF Slack
  <2>3. Ended' /\ ~Ended  BY <1>2, <2>1 DEF Ended
  <2>4. Debt' = Debt + 1  BY <1>0, <2>2, <2>3 DEF Debt
  <2>5. StartedInv'  BY <2>1 DEF StartedInv
  <2> QED  BY <1>2, <2>2, <2>4, <2>5 DEF Leaves
(* The files and what counts for them are left alone. *)
<1>3. ASSUME UNCHANGED <<starts, file, count, holder, rot, put, faults>>, Runs' <=> Runs
      PROVE  Aside
  <2>1. starts' = starts /\ faults' = faults /\ count' = count /\ rot' = rot
    BY <1>3
  <2>2. Slack' = Slack  BY <2>1 DEF Slack
  <2>3. Ended' <=> Ended  BY <1>3, <2>1, Zenon DEF Ended
  <2>4. Debt' = Debt  BY <2>2, <2>3 DEF Debt
  <2>5. QuietInv' /\ StartedInv'  BY <1>3, <2>1 DEF QuietInv, StartedInv
  <2> QED  BY <1>0, <1>3, <2>2, <2>4, <2>5 DEF Aside
<1>4. CASE Before
  <2>1. UNCHANGED <<proc, starts, logVars>>
    BY <1>4, StagesQuiet DEF IInv
  <2> QED  BY <1>3, <2>1 DEF Runs, logVars
<1>5. ASSUME Crash, Runs PROVE Leaves
  BY <1>2, <1>5 DEF Crash, Rest, Runs
<1>6. ASSUME Wreck, Runs PROVE Aside
  BY <1>3, <1>6 DEF Wreck, Rest, Runs, logVars
<1>7. CASE FiniThreads \/ FiniAccept \/ CloseLog \/ DeleteLog \/ NullLog
  <2>1. Runs  BY <1>7 DEF FiniThreads, FiniAccept, CloseLog, DeleteLog, NullLog, At, Runs
  <2>2. CASE ~Crash /\ ~Wreck
    <3> USE DEF Same, logVars
    <3>1. CASE FiniThreads  BY <1>3, <2>2, <3>1 DEF FiniThreads, CancelAborts, Runs
    <3>2. CASE FiniAccept  BY <1>3, <3>2 DEF FiniAccept, Runs
    <3>3. CASE CloseLog  BY <1>3, <3>3 DEF CloseLog, Runs
    <3>4. CASE DeleteLog  BY <1>3, <2>2, <3>4 DEF DeleteLog, Runs
    <3>5. CASE NullLog  BY <1>3, <3>5 DEF NullLog, Runs
    <3> QED  BY <1>7, <3>1, <3>2, <3>3, <3>4, <3>5
  <2> QED  BY <1>5, <1>6, <2>1, <2>2
<1>8. CASE Exit
  <2>1. CASE exits = 0
    BY <1>3, <1>8, <2>1 DEF Exit, Runs, logVars
  <2>2. CASE exits # 0
    BY <1>2, <1>8, <2>2 DEF Exit, At, Runs
  <2> QED  BY <2>1, <2>2
<1>9. CASE MainStep  BY <1>4, <1>7, <1>8, <1>9, Zenon DEF Before
<1>10. CASE Kill  BY <1>2, <1>10 DEF Kill, Rest, Runs
<1>11. ASSUME NEW c \in Stack, HupCrashes(c) \/ ReloadBreaks \/ MgrCrashes
       PROVE  Leaves
  <2>1. Crash /\ Runs  BY <1>11 DEF HupCrashes, ReloadBreaks, MgrCrashes, Serving, Runs
  <2> QED  BY <1>5, <2>1
<1>12. ASSUME NEW c \in Stack, Hang \/ ThreadExits \/ HupBegins(c) \/ HupEnds(c) \/ UNCHANGED vars
       PROVE  Aside
  <2>1. UNCHANGED <<proc, starts, logVars>>
    BY <1>12 DEF Hang, ThreadExits, HupBegins, HupEnds, Handler, vars, lifeVars
  <2> QED  BY <1>3, <2>1 DEF Runs, logVars
<1>13. ASSUME LogNext, Runs, UNCHANGED <<proc, starts>>
       PROVE  Writing
  BY <1>13 DEF Writing, Ended, Runs
<1>14. ASSUME NEW c \in Stack, HupWrites(c) \/ Line(c) PROVE Writing
  <2>1. LogNext
    <3>1. Hup(c) \in Writer /\ Own(c) \in Writer  BY WritersAre
    <3> QED  BY <1>14, <3>1, Zenon DEF HupWrites, Line, LogNext
  <2>2. Runs /\ UNCHANGED <<proc, starts>>
    BY <1>14 DEF HupWrites, Line, Handler, lifeVars, Runs
  <2> QED  BY <1>13, <2>1, <2>2
<1>15. ASSUME NEW w \in Writer, Goes(w) PROVE Writing
  <2>1. LogNext  BY <1>15, Zenon DEF Goes, LogNext
  <2>2. Runs /\ UNCHANGED <<proc, starts>>  BY <1>15 DEF Goes, lifeVars
  <2> QED  BY <1>13, <2>1, <2>2
<1>16. "main" \in Stack  BY DEF Stack
<1> QED
  BY <1>1, <1>9, <1>10, <1>11, <1>12, <1>14, <1>15, <1>16, Zenon DEF Next

-----------------------------------------------------------------------------
(* The numbers in the bounds. *)
LEMMA Times ==
    ASSUME NEW a \in Int, NEW b \in Int, NEW k \in Nat, a <= b
    PROVE  a * k <= b * k /\ k * a <= k * b
<1>1. b - a \in Nat  OBVIOUS
<1>2. (b - a) * k >= 0  BY <1>1
<1>3. (b - a) * k = b * k - a * k  OBVIOUS
<1> QED  BY <1>2, <1>3

LEMMA OneMore ==
    ASSUME NEW a \in Int, NEW k \in Nat
    PROVE  (a + 1) * k = a * k + k /\ k * (a + 1) = k * a + k /\ a * k \in Int /\ k * a \in Int
OBVIOUS

LEMMA MoreOwed ==
    ASSUME NEW s \in Nat, NEW t \in Nat, t >= s, NEW k \in Nat, NEW n \in Int
    PROVE  /\ k * s \in Int /\ k * t \in Int /\ k * s <= k * t
           /\ k * (1 + s) \in Int /\ k * (1 + t) \in Int /\ k * (1 + s) <= k * (1 + t)
           /\ (n - s) * k \in Int /\ (n - t) * k \in Int /\ (n - t) * k <= (n - s) * k
<1>1. k * s <= k * t /\ k * (1 + s) <= k * (1 + t) /\ (n - t) * k <= (n - s) * k  BY Times
<1> QED  BY <1>1

LEMMA AtLeast ==
    ASSUME NEW a \in Int, NEW b \in Int, NEW c \in Int, NEW d \in Int,
           a >= b + d, c <= b
    PROVE  a >= c + d
OBVIOUS

LEMMA LessThan ==
    ASSUME NEW a \in Int, NEW b \in Int, NEW c \in Int, NEW d \in Int, NEW e \in Int,
           a < d + b + e, b <= c
    PROVE  a < d + c + e
OBVIOUS

LEMMA FilesFinite ==
    ASSUME LogInv, NEW i \in 0..Last
    PROVE  IsFiniteSet(file[i]) /\ Cardinality(file[i]) \in Nat
<1>1. file[i] \in SUBSET (1..put) /\ put \in Int  BY Numbers
<1>2. IsFiniteSet(1..put)  BY <1>1, FS_Interval
<1>3. IsFiniteSet(file[i])  BY <1>1, <1>2, FS_Subset
<1> QED  BY <1>3, FS_CardinalityType

(* The part of the invariant that is about the files. *)
Bounds == FullInv /\ GrowthInv /\ SizeBound /\ DepthInv /\ LostInv

(* What is said of the lines of all files depends on Slack only, which grows. *)
LEMMA SlackGrows ==
    ASSUME LogInv, SizeBound, LostInv, UNCHANGED <<file, put>>,
           Slack \in Nat, Slack' \in Nat, Slack' >= Slack
    PROVE  SizeBound' /\ LostInv'
<1>1. MaxSize \in Nat /\ Shift \in Nat /\ Last \in Nat /\ put \in Nat /\ Last \in Int
  BY Numbers
<1>2. SizeBound'
  <2> SUFFICES ASSUME NEW i \in 0..Last
               PROVE  Cardinality(file'[i]) < MaxSize + Shift * (1 + Slack')
    BY DEF SizeBound
  <2>2. Shift * (1 + Slack) <= Shift * (1 + Slack')  BY <1>1, MoreOwed, Zenon
  <2>3. Shift * (1 + Slack) \in Int /\ Shift * (1 + Slack') \in Int
    BY <1>1, MoreOwed, Zenon
  <2>4. Cardinality(file[i]) < MaxSize + Shift * (1 + Slack) + 0
    BY <1>1, <2>3 DEF SizeBound
  <2>5. Cardinality(file[i]) \in Int  BY FilesFinite
  <2>6. Cardinality(file[i]) < MaxSize + Shift * (1 + Slack') + 0
    BY <1>1, <2>2, <2>3, <2>4, <2>5, LessThan
  <2> QED  BY <1>1, <2>3, <2>5, <2>6
<1>3. LostInv'
  <2> SUFFICES ASSUME NEW x \in 1..put, x \notin Kept
               PROVE  put - x >= (Last - Slack') * MaxSize
    BY DEF LostInv, Kept
  <2>2. (Last - Slack') * MaxSize <= (Last - Slack) * MaxSize  BY <1>1, MoreOwed, Zenon
  <2>3. (Last - Slack') * MaxSize \in Int /\ (Last - Slack) * MaxSize \in Int
    BY <1>1, MoreOwed, Zenon
  <2>4. put - x >= (Last - Slack) * MaxSize + 0  BY <2>3 DEF LostInv
  <2>5. put - x \in Int  BY <1>1
  <2>6. put - x >= (Last - Slack') * MaxSize + 0  BY <2>2, <2>3, <2>4, <2>5, AtLeast
  <2> QED  BY <2>3, <2>6
<1> QED  BY <1>2, <1>3

(* Whatever more is owed, the bounds stay. *)
LEMMA OwesMore ==
    ASSUME LogInv, Bounds, UNCHANGED <<file, put, rot, count>>,
           Slack \in Nat, Slack' \in Nat, Slack' >= Slack,
           Debt \in Nat, Debt' \in Nat, Debt' >= Debt
    PROVE  Bounds'
<1> DEFINE F == Cardinality(file[0])
<1>1. /\ MaxSize \in Nat /\ Shift \in Nat /\ Last \in Nat /\ put \in Nat
      /\ count \in Nat /\ file \in [0..Last -> SUBSET (1..put)] /\ F \in Nat
      /\ F' = F
  BY Numbers, FilesFinite
<1>2. FullInv'  BY DEF Bounds, FullInv, Moving
<1>3. GrowthInv'
  <2>1. Due' = Due /\ Due \in Int  BY <1>1 DEF Due
  <2>2. Debt \in Int /\ Debt' \in Int /\ Debt <= Debt'  OBVIOUS
  <2>3. Shift * Debt <= Shift * Debt'  BY <1>1, <2>2, Times
  <2>4. Shift * Debt \in Int /\ Shift * Debt' \in Int  BY <1>1, <2>2
  <2>5. F < MaxSize + Shift * Debt + Due  BY DEF Bounds, GrowthInv
  <2>6. F \in Int /\ MaxSize \in Int  BY <1>1
  <2>7. F < MaxSize + Shift * Debt' + Due
    BY <2>1, <2>3, <2>4, <2>5, <2>6, LessThan, Zenon
  <2> QED  BY <1>1, <2>1, <2>7 DEF GrowthInv
<1>4. SizeBound' /\ LostInv'  BY SlackGrows DEF Bounds
<1>5. DepthInv'
  <2> SUFFICES ASSUME NEW j \in 1..Last, NEW x \in file[j]
               PROVE  put - x >= (j - 1 - Debt' - Hole(j)) * MaxSize + F
    BY DEF DepthInv, Hole, Moving
  <2>1. x \in Int /\ j \in Int  BY <1>1
  <2>2. Hole(j) \in Int  BY DEF Hole
  <2>3. (j - 1 - Debt' - Hole(j)) * MaxSize <= (j - 1 - Debt - Hole(j)) * MaxSize
    BY <1>1, <2>1, <2>2, Times
  <2>4. put - x >= (j - 1 - Debt - Hole(j)) * MaxSize + F  BY DEF Bounds, DepthInv
  <2>5. (j - 1 - Debt' - Hole(j)) * MaxSize \in Int /\ (j - 1 - Debt - Hole(j)) * MaxSize \in Int
    BY <1>1, <2>1, <2>2
  <2> QED  BY <1>1, <2>1, <2>3, <2>4, <2>5
<1> QED  BY <1>2, <1>3, <1>4, <1>5 DEF Bounds

(* A rotation that is broken off, by a failure or by the end of the process, is owed:
   the gap it leaves counts for one file, and the lines of one count for another. *)
LEMMA BrokenOff ==
    ASSUME LogInv, Bounds, UNCHANGED <<file, put>>, rot' = Idle, count' = 0,
           Slack \in Nat, Slack' \in Nat, Slack' >= Slack,
           Debt \in Nat, Debt' = Debt + 1
    PROVE  Bounds'
<1> DEFINE F == Cardinality(file[0])
<1>1. /\ MaxSize \in Nat /\ Shift \in Nat \ {0} /\ Last \in Nat /\ put \in Nat
      /\ count \in 0..Shift - 1 /\ file \in [0..Last -> SUBSET (1..put)] /\ F \in Nat
      /\ F' = F
  BY Numbers, FilesFinite
<1>2. ~Moving' /\ rot' # Remove
  BY MarkFacts, LogAssumption DEF Moving, LogAssumption, Idle
<1>3. FullInv'  BY <1>2 DEF FullInv
<1>4. GrowthInv'
  <2>1. Due' = 0 /\ Due \in Nat /\ Due <= Shift  BY <1>1 DEF Due
  <2>2. Shift * (Debt + 1) = Shift * Debt + Shift /\ Shift * Debt \in Int
    BY <1>1, OneMore
  <2>3. F < MaxSize + Shift * Debt + Due  BY DEF Bounds, GrowthInv
  <2>4. F < MaxSize + Shift * Debt' + 0  BY <1>1, <2>1, <2>2, <2>3
  <2> QED  BY <1>1, <2>1, <2>4 DEF GrowthInv
<1>5. SizeBound' /\ LostInv'  BY SlackGrows DEF Bounds
<1>6. DepthInv'
  <2> SUFFICES ASSUME NEW j \in 1..Last, NEW x \in file[j]
               PROVE  put - x >= (j - 1 - Debt' - 0) * MaxSize + F
    BY <1>2 DEF DepthInv, Hole
  <2>1. x \in Int /\ j \in Int  BY <1>1
  <2>2. Hole(j) \in Int /\ Hole(j) <= 1  BY DEF Hole
  <2>3. (j - 1 - Debt' - 0) * MaxSize <= (j - 1 - Debt - Hole(j)) * MaxSize
    BY <1>1, <2>1, <2>2, Times
  <2>4. put - x >= (j - 1 - Debt - Hole(j)) * MaxSize + F  BY DEF Bounds, DepthInv
  <2>5. (j - 1 - Debt' - 0) * MaxSize \in Int /\ (j - 1 - Debt - Hole(j)) * MaxSize \in Int
    BY <1>1, <2>1, <2>2
  <2> QED  BY <1>1, <2>1, <2>3, <2>4, <2>5
<1> QED  BY <1>3, <1>4, <1>5, <1>6 DEF Bounds

-----------------------------------------------------------------------------
(* The steps of the log.  While it is written nothing is interrupted, and what is owed is
   the failures and the starts.                                              *)
Level == Debt = Slack /\ Slack \in Nat

(* A line is added to base.log and to what is kept. *)
LEMMA PutsLineFiles ==
    ASSUME LogInv, NEW w \in Writer, PutsLine(w)
    PROVE  /\ file'[0] = file[0] \cup {put + 1} /\ Kept' = Kept \cup {put + 1}
           /\ \A i \in 1..Last : file'[i] = file[i]
           /\ Cardinality(file'[0]) = Cardinality(file[0]) + 1 /\ put' = put + 1
<1>1. file \in [0..Last -> SUBSET (1..put)] /\ put \in Nat /\ Last \in Nat  BY Numbers
<1>2. file' = [file EXCEPT ![0] = @ \cup {put + 1}] /\ put' = put + 1  BY DEF PutsLine
<1>3. file'[0] = file[0] \cup {put + 1} /\ \A i \in 0..Last : i # 0 => file'[i] = file[i]
  BY <1>1, <1>2
<1>4. Kept' = Kept \cup {put + 1}  BY <1>1, <1>3 DEF Kept
<1>5. put + 1 \notin file[0]  BY <1>1
<1>6. Cardinality(file'[0]) = Cardinality(file[0]) + 1
  <2>1. 0 \in 0..Last  BY <1>1
  <2>2. IsFiniteSet(file[0])  BY <2>1, FilesFinite, Zenon
  <2> QED  BY <1>3, <1>5, <2>2, FS_AddElement
<1> QED  BY <1>1, <1>2, <1>3, <1>4, <1>6

(* A line more is one more that counts. *)
LEMMA CountedDue ==
    ASSUME LogInv, Counted, rot = Idle
    PROVE  /\ Due \in Nat /\ Due' \in Nat /\ Due' >= Due + 1 /\ Due' <= Shift
           /\ ~Moving /\ ~Moving' /\ rot # Remove /\ rot' # Remove
<1>1. count \in 0..Shift - 1 /\ Shift \in Nat \ {0}  BY Numbers
<1>2. Idle # Stat /\ Idle \notin 0..MaxNum - 2 /\ Stat \notin 0..MaxNum - 2
      /\ Idle # Remove /\ Stat # Remove
  BY LogAssumption DEF LogAssumption, Idle, Stat, Remove
<1>3. CASE count + 1 >= Shift
  <2>1. rot' = Stat  BY <1>3 DEF Counted
  <2> QED  BY <1>1, <1>2, <2>1 DEF Due, Moving
<1>4. CASE ~(count + 1 >= Shift)
  <2>1. rot' = rot /\ count' = count + 1  BY <1>4 DEF Counted
  <2> QED  BY <1>1, <1>2, <1>4, <2>1 DEF Due, Moving
<1> QED  BY <1>3, <1>4

(* base.log grows by the line that counts, and so does what is after every line of the
   other files.                                                              *)
LEMMA PutsLineBounds ==
    ASSUME LogInv, Bounds, Level, Level', Slack' = Slack, NEW w \in Writer, PutsLine(w)
    PROVE  Bounds'
<1> DEFINE F == Cardinality(file[0])
<1>1. /\ MaxSize \in Nat /\ Shift \in Nat /\ Last \in Nat /\ put \in Nat
      /\ file \in [0..Last -> SUBSET (1..put)] /\ F \in Nat
  BY Numbers, FilesFinite
<1>2. /\ file'[0] = file[0] \cup {put + 1} /\ Kept' = Kept \cup {put + 1}
      /\ \A i \in 1..Last : file'[i] = file[i]
      /\ Cardinality(file'[0]) = F + 1 /\ put' = put + 1
  BY PutsLineFiles
<1>3. /\ Due \in Nat /\ Due' \in Nat /\ Due' >= Due + 1 /\ Due' <= Shift
      /\ ~Moving /\ ~Moving' /\ rot # Remove /\ rot' # Remove
  BY CountedDue DEF PutsLine
<1>4. PICK s \in Nat : s = Slack /\ s = Slack' /\ s = Debt /\ s = Debt'
  BY DEF Level
<1>5. Shift * s \in Int /\ Shift * (1 + s) = Shift + Shift * s  BY <1>1, OneMore
<1>6. FullInv'  BY <1>3 DEF FullInv
<1>7. F + 1 < MaxSize + Shift * s + Due'
  <2>1. F < MaxSize + Shift * s + Due  BY <1>4 DEF Bounds, GrowthInv
  <2> QED  BY <1>1, <1>3, <1>5, <2>1
<1>8. GrowthInv'  BY <1>2, <1>4, <1>7 DEF GrowthInv
<1>9. SizeBound'
  <2> SUFFICES ASSUME NEW i \in 0..Last
               PROVE  Cardinality(file'[i]) < MaxSize + Shift * (1 + s)
    BY <1>4 DEF SizeBound
  <2>1. CASE i = 0
    <3>1. \A a, b, c, d, e \in Int :
            a < b + c + d /\ d <= e => a < b + (e + c)
      OBVIOUS
    <3>2. F + 1 < MaxSize + (Shift + Shift * s)
      BY <1>1, <1>3, <1>5, <1>7, <3>1
    <3> QED  BY <1>2, <1>5, <2>1, <3>2
  <2>2. CASE i # 0
    <3>1. Cardinality(file[i]) < MaxSize + Shift * (1 + s)  BY <1>4 DEF Bounds, SizeBound
    <3> QED  BY <1>1, <1>2, <2>2, <3>1
  <2> QED  BY <2>1, <2>2
<1>10. DepthInv'
  <2> SUFFICES ASSUME NEW j \in 1..Last, NEW x \in file'[j]
               PROVE  put' - x >= (j - 1 - s - 0) * MaxSize + (F + 1)
    BY <1>2, <1>3, <1>4 DEF DepthInv, Hole
  <2>1. x \in file[j] /\ x \in Int /\ j \in Int  BY <1>1, <1>2
  <2>2. put - x >= (j - 1 - s - 0) * MaxSize + F
    BY <1>3, <1>4, <2>1 DEF Bounds, DepthInv, Hole
  <2>3. (j - 1 - s - 0) * MaxSize \in Int  BY <1>1, <2>1
  <2> QED  BY <1>1, <1>2, <2>1, <2>2, <2>3
<1>11. LostInv'
  <2> SUFFICES ASSUME NEW x \in 1..put', x \notin Kept'
               PROVE  put' - x >= (Last - s) * MaxSize
    BY <1>4 DEF LostInv
  <2>1. x \in 1..put /\ x \notin Kept  BY <1>1, <1>2
  <2>2. put - x >= (Last - s) * MaxSize  BY <1>4, <2>1 DEF Bounds, LostInv
  <2>3. (Last - s) * MaxSize \in Int  BY <1>1
  <2> QED  BY <1>1, <1>2, <2>1, <2>2, <2>3
<1> QED  BY <1>6, <1>8, <1>9, <1>10, <1>11 DEF Bounds

(* A line that was lost counts as well. *)
LEMMA FlushFailsBounds ==
    ASSUME LogInv, Bounds, Level, Level', Slack' = Slack + 1, NEW w \in Writer, FlushFails(w)
    PROVE  Bounds'
<1> DEFINE F == Cardinality(file[0])
<1>1. /\ MaxSize \in Nat /\ Shift \in Nat /\ Last \in Nat /\ put \in Nat
      /\ file \in [0..Last -> SUBSET (1..put)] /\ F \in Nat /\ UNCHANGED <<file, put>>
  BY Numbers, FilesFinite DEF FlushFails, disk
<1>2. /\ Due \in Nat /\ Due' \in Nat /\ Due' >= Due + 1 /\ Due' <= Shift
      /\ ~Moving /\ ~Moving' /\ rot # Remove /\ rot' # Remove
  BY CountedDue DEF FlushFails
<1>3. PICK s \in Nat : s = Slack /\ s = Debt  BY DEF Level
<1>4. Slack' = s + 1 /\ Debt' = s + 1  BY <1>3 DEF Level
<1>5. FullInv'  BY <1>2 DEF FullInv
<1>6. GrowthInv'
  <2>1. Shift * s \in Int /\ Shift * (s + 1) = Shift * s + Shift  BY <1>1, OneMore
  <2>2. F < MaxSize + Shift * s + Due  BY <1>3 DEF Bounds, GrowthInv
  <2>3. F < MaxSize + Shift * (s + 1) + Due'  BY <1>1, <1>2, <2>1, <2>2
  <2> QED  BY <1>1, <1>4, <2>3 DEF GrowthInv
<1>7. SizeBound' /\ LostInv'
  <2>1. Slack' \in Nat /\ Slack' >= Slack  BY <1>3, <1>4
  <2> QED  BY <1>1, <1>3, <2>1, SlackGrows DEF Bounds
<1>8. DepthInv'
  <2> SUFFICES ASSUME NEW j \in 1..Last, NEW x \in file[j]
               PROVE  put - x >= (j - 1 - (s + 1) - 0) * MaxSize + F
    BY <1>1, <1>2, <1>4 DEF DepthInv, Hole
  <2>1. x \in Int /\ j \in Int  BY <1>1
  <2>2. put - x >= (j - 1 - s - 0) * MaxSize + F
    BY <1>2, <1>3 DEF Bounds, DepthInv, Hole
  <2>3. (j - 1 - (s + 1) - 0) * MaxSize <= (j - 1 - s - 0) * MaxSize
    BY <1>1, <2>1, Times
  <2>4. (j - 1 - s - 0) * MaxSize \in Int /\ (j - 1 - (s + 1) - 0) * MaxSize \in Int
    BY <1>1, <2>1
  <2> QED  BY <1>1, <2>1, <2>2, <2>3, <2>4
<1> QED  BY <1>5, <1>6, <1>7, <1>8 DEF Bounds

(* A rotation starts for a full base.log; otherwise the counting starts anew. *)
LEMMA StatFileBounds ==
    ASSUME LogInv, Bounds, Level, Level', Slack' = Slack, NEW w \in Writer, StatFile(w)
    PROVE  Bounds'
<1> DEFINE F == Cardinality(file[0])
<1>1. /\ MaxSize \in Nat /\ Shift \in Nat /\ Last \in Nat /\ put \in Nat
      /\ file \in [0..Last -> SUBSET (1..put)] /\ F \in Nat /\ UNCHANGED <<file, put>>
  BY Numbers, FilesFinite DEF StatFile, disk
<1>2. /\ Idle # Stat /\ Stat # Remove /\ Idle # Remove /\ Idle \notin 0..MaxNum - 2
      /\ Stat \notin 0..MaxNum - 2 /\ Remove \notin 0..MaxNum - 2
  BY LogAssumption DEF LogAssumption, Idle, Stat, Remove
<1>3. PICK s \in Nat : s = Slack /\ s = Debt /\ s = Slack' /\ s = Debt'  BY DEF Level
<1>4. /\ rot = Stat
      /\ \/ F < MaxSize /\ rot' = Idle /\ count' = 0
         \/ F >= MaxSize /\ rot' = Remove
  BY <1>1 DEF StatFile, Shifted
<1>5. ~Moving /\ ~Moving'  BY <1>2, <1>4 DEF Moving
<1>6. FullInv'  BY <1>1, <1>2, <1>4, <1>5 DEF FullInv
<1>7. GrowthInv'
  <2>1. Shift * s \in Nat  BY <1>1
  <2>2. CASE F < MaxSize /\ rot' = Idle /\ count' = 0
    <3>1. Due' = 0  BY <2>2 DEF Due
    <3>2. F < MaxSize + Shift * s + 0  BY <1>1, <2>1, <2>2
    <3> QED  BY <1>1, <1>3, <3>1, <3>2 DEF GrowthInv
  <2>3. CASE rot' = Remove
    <3>1. Due = Shift /\ Due' = Shift  BY <1>2, <1>4, <2>3 DEF Due
    <3>2. F < MaxSize + Shift * s + Shift  BY <1>3, <3>1 DEF Bounds, GrowthInv
    <3> QED  BY <1>1, <1>3, <3>1, <3>2 DEF GrowthInv
  <2> QED  BY <1>4, <2>2, <2>3
<1>8. SizeBound' /\ LostInv'
  <2>1. Slack' \in Nat /\ Slack' >= Slack /\ Slack \in Nat  BY <1>3
  <2> QED  BY <1>1, <2>1, SlackGrows DEF Bounds
<1>9. DepthInv'
  BY <1>1, <1>3, <1>5 DEF Bounds, DepthInv, Hole
<1> QED  BY <1>6, <1>7, <1>8, <1>9 DEF Bounds

(* The oldest file goes when the others, and base.log, are full. *)
LEMMA RemoveOldestBounds ==
    ASSUME LogInv, Bounds, Level, Level', Slack' = Slack, NEW w \in Writer, RemoveOldest(w)
    PROVE  Bounds'
<1> DEFINE F == Cardinality(file[0])
<1>1. /\ MaxSize \in Nat /\ Shift \in Nat /\ Last \in Nat \ {0} /\ put \in Nat
      /\ file \in [0..Last -> SUBSET (1..put)] /\ F \in Nat /\ MaxNum - 2 = Last - 1
  BY Numbers, FilesFinite
<1>2. /\ file' = [file EXCEPT ![Last] = {}] /\ rot' = Last - 1 /\ put' = put /\ rot = Remove
  BY <1>1 DEF RemoveOldest
<1>3. /\ Moving' /\ ~Moving /\ Remove # Idle /\ rot' # Idle
  BY <1>1, <1>2, LogAssumption DEF LogAssumption, Moving, Idle, Remove, Last
<1>4. PICK s \in Nat : s = Slack /\ s = Debt /\ s = Slack' /\ s = Debt'  BY DEF Level
<1>5. /\ file'[Last] = {} /\ \A i \in 0..Last : i # Last => file'[i] = file[i]
      /\ file'[0] = file[0]
  BY <1>1, <1>2
<1>6. F >= MaxSize  BY <1>2 DEF Bounds, FullInv
<1>7. FullInv'  BY <1>5, <1>6 DEF FullInv
<1>8. GrowthInv'
  <2>1. Due' = Due  BY <1>2, <1>3 DEF Due
  <2> QED  BY <1>4, <1>5, <2>1 DEF Bounds, GrowthInv
<1>9. SizeBound'
  <2> SUFFICES ASSUME NEW i \in 0..Last
               PROVE  Cardinality(file'[i]) < MaxSize + Shift * (1 + s)
    BY <1>4 DEF SizeBound
  <2>1. Cardinality(file[i]) < MaxSize + Shift * (1 + s)  BY <1>4 DEF Bounds, SizeBound
  <2>2. CASE i # Last  BY <1>5, <2>1, <2>2
  <2>3. CASE i = Last
    <3>1. Cardinality(file'[i]) = 0  BY <1>5, <2>3, FS_EmptySet
    <3>2. Cardinality(file[i]) \in Nat  BY FilesFinite
    <3>3. MaxSize + Shift * (1 + s) \in Int  BY <1>1
    <3> QED  BY <2>1, <3>1, <3>2, <3>3
  <2> QED  BY <2>2, <2>3
<1>10. DepthInv'
  <2> SUFFICES ASSUME NEW j \in 1..Last, NEW x \in file'[j]
               PROVE  put - x >= (j - 1 - s - 0) * MaxSize + F
    <3>1. \A j \in 1..Last : Hole(j)' = 0  BY <1>1, <1>2 DEF Hole
    <3> QED  BY <1>2, <1>4, <1>5, <3>1 DEF DepthInv
  <2>1. j # Last /\ x \in file[j]  BY <1>1, <1>5
  <2> QED  BY <1>3, <1>4, <2>1 DEF Bounds, DepthInv, Hole
<1>11. LostInv'
  <2> SUFFICES ASSUME NEW x \in 1..put, x \notin Kept'
               PROVE  put - x >= (Last - s) * MaxSize
    BY <1>2, <1>4 DEF LostInv
  <2>1. CASE x \notin Kept  BY <1>4, <2>1 DEF Bounds, LostInv
  <2>2. CASE x \in Kept
    <3>1. PICK i \in 0..Last : x \in file[i]  BY <2>2 DEF Kept
    <3>2. i = Last /\ Last \in 1..Last  BY <1>1, <1>5, <3>1 DEF Kept
    <3>3. put - x >= (Last - 1 - s - 0) * MaxSize + F
      BY <1>3, <1>4, <3>1, <3>2 DEF Bounds, DepthInv, Hole
    <3>4. /\ (Last - 1 - s - 0) * MaxSize \in Int /\ (Last - s) * MaxSize \in Int
          /\ (Last - s) * MaxSize = (Last - 1 - s - 0) * MaxSize + MaxSize
      <4>1. Last - 1 - s - 0 \in Int /\ Last - s = (Last - 1 - s - 0) + 1  BY <1>1
      <4> QED  BY <1>1, <4>1, OneMore
    <3> QED  BY <1>1, <1>6, <3>3, <3>4
  <2> QED  BY <2>1, <2>2
<1> QED  BY <1>7, <1>8, <1>9, <1>10, <1>11 DEF Bounds

(* A file that moves up has the gap before it, until base.log itself has moved: then
   each has one full file more before it, and base.log is empty.              *)
LEMMA RenameNextBounds ==
    ASSUME LogInv, Bounds, Level, Level', Slack' = Slack, NEW w \in Writer, RenameNext(w)
    PROVE  Bounds'
<1> DEFINE F == Cardinality(file[0])
<1>1. /\ MaxSize \in Nat /\ Shift \in Nat /\ Last \in Nat \ {0} /\ put \in Nat
      /\ file \in [0..Last -> SUBSET (1..put)] /\ F \in Nat /\ MaxNum - 2 = Last - 1
  BY Numbers, FilesFinite
<1>2. /\ rot \in 0..Last - 1 /\ rot + 1 \in 1..Last /\ rot \in Nat
      /\ file'[rot] = {} /\ file'[rot + 1] = file[rot]
      /\ \A i \in 0..Last : i # rot /\ i # rot + 1 => file'[i] = file[i]
      /\ Kept' = Kept /\ put' = put
  BY <1>1, RenameFiles
<1>3. Moving /\ Idle \notin 0..Last - 1 /\ Remove \notin 0..Last - 1 /\ Idle # Remove
  BY <1>1, <1>2, LogAssumption DEF LogAssumption, Moving, Last, Idle, Remove
<1>4. PICK s \in Nat : s = Slack /\ s = Debt /\ s = Slack' /\ s = Debt'  BY DEF Level
<1>5. F >= MaxSize  BY <1>3 DEF Bounds, FullInv
<1>6. SizeBound'
  <2> SUFFICES ASSUME NEW i \in 0..Last
               PROVE  Cardinality(file'[i]) < MaxSize + Shift * (1 + s)
    BY <1>4 DEF SizeBound
  <2>1. \A k \in 0..Last : Cardinality(file[k]) < MaxSize + Shift * (1 + s)
    BY <1>4 DEF Bounds, SizeBound
  <2>2. CASE i = rot
    <3>1. Cardinality(file'[i]) = 0  BY <1>2, <2>2, FS_EmptySet
    <3>2. Cardinality(file[i]) \in Nat  BY FilesFinite
    <3>3. MaxSize + Shift * (1 + s) \in Int  BY <1>1
    <3>4. Cardinality(file[i]) < MaxSize + Shift * (1 + s)  BY <2>1
    <3> QED  BY <3>1, <3>2, <3>3, <3>4
  <2>3. CASE i = rot + 1
    <3>1. rot \in 0..Last  BY <1>1, <1>2
    <3> QED  BY <1>2, <2>1, <2>3, <3>1
  <2>4. CASE i # rot /\ i # rot + 1  BY <1>2, <2>1, <2>4
  <2> QED  BY <2>2, <2>3, <2>4
<1>7. LostInv'  BY <1>2, <1>4 DEF Bounds, LostInv
<1>8. ASSUME NEW j \in 1..Last, NEW x \in file[j], j > rot + 1
      PROVE  put - x >= (j - 1 - s - 1) * MaxSize + F
  BY <1>3, <1>4, <1>8 DEF Bounds, DepthInv, Hole
<1>9. CASE rot # 0
  <2>1. rot' = rot - 1 /\ file'[0] = file[0]
    BY <1>1, <1>2, <1>9 DEF RenameNext
  <2>2. rot' \in 0..Last - 1 /\ Moving'  BY <1>1, <1>2, <1>9, <2>1 DEF Moving
  <2>3. FullInv'  BY <1>5, <2>1 DEF FullInv
  <2>4. GrowthInv'
    <3>1. Due' = Due  BY <1>2, <1>3, <2>2 DEF Due
    <3> QED  BY <1>4, <2>1, <3>1 DEF Bounds, GrowthInv
  <2>5. DepthInv'
    <3> SUFFICES ASSUME NEW j \in 1..Last, NEW x \in file'[j]
                 PROVE  put - x >= (j - 1 - s - (IF j > rot THEN 1 ELSE 0)) * MaxSize + F
      <4>1. \A j \in 1..Last : Hole(j)' = IF j > rot THEN 1 ELSE 0
        BY <1>2, <2>1, <2>2 DEF Hole
      <4> QED  BY <1>2, <1>4, <2>1, <4>1 DEF DepthInv
    <3>1. CASE j > rot + 1
      <4>1. x \in file[j]  BY <1>2, <3>1
      <4> QED  BY <1>2, <1>8, <3>1, <4>1
    <3>2. CASE j = rot + 1
      <4>1. x \in file[rot] /\ rot \in 1..Last /\ ~(rot > rot + 1) /\ j > rot
        BY <1>1, <1>2, <1>9, <3>2
      <4>2. put - x >= (rot - 1 - s - 0) * MaxSize + F
        BY <1>4, <4>1 DEF Bounds, DepthInv, Hole
      <4>3. j - 1 - s - 1 = rot - 1 - s - 0  BY <1>2, <3>2
      <4> QED  BY <4>1, <4>2, <4>3
    <3>3. CASE j < rot
      <4>1. x \in file[j] /\ ~(j > rot + 1) /\ ~(j > rot)  BY <1>2, <3>3
      <4> QED  BY <1>4, <4>1 DEF Bounds, DepthInv, Hole
    <3>4. j # rot  BY <1>2
    <3> QED  BY <1>2, <3>1, <3>2, <3>3, <3>4
  <2> QED  BY <1>6, <1>7, <2>3, <2>4, <2>5 DEF Bounds
<1>10. CASE rot = 0
  <2>1. rot' = Idle /\ count' = 0 /\ file'[0] = {}
    BY <1>2, <1>10 DEF RenameNext, Shifted
  <2>2. Cardinality(file'[0]) = 0 /\ ~Moving' /\ rot' # Remove /\ Due' = 0
    BY <1>1, <1>3, <2>1, FS_EmptySet DEF Moving, Due
  <2>3. FullInv'  BY <2>2 DEF FullInv
  <2>4. GrowthInv'
    <3>1. Shift * s \in Nat  BY <1>1
    <3>2. 0 < MaxSize + Shift * s + 0
      BY <3>1, LogAssumption DEF LogAssumption
    <3> QED  BY <1>4, <2>2, <3>2 DEF GrowthInv
  <2>5. DepthInv'
    <3> SUFFICES ASSUME NEW j \in 1..Last, NEW x \in file'[j]
                 PROVE  put - x >= (j - 1 - s - 0) * MaxSize + 0
      BY <1>2, <1>4, <2>2 DEF DepthInv, Hole
    <3>1. CASE j = 1
      <4>1. x \in file[0] /\ put - x \in Nat  BY <1>1, <1>2, <1>10, <3>1
      <4>2. (0 - s) * MaxSize <= 0 * MaxSize  BY <1>1, Times
      <4>3. j - 1 - s - 0 = 0 - s /\ 0 * MaxSize = 0 /\ (0 - s) * MaxSize \in Int
        BY <1>1, <3>1
      <4>4. put - x >= (0 - s) * MaxSize + 0  BY <4>1, <4>2, <4>3
      <4> QED  BY <4>3, <4>4
    <3>2. CASE j > 1
      <4>1. x \in file[j] /\ j > rot + 1 /\ j \in Int /\ put - x \in Int
        BY <1>1, <1>2, <1>10, <3>2
      <4>2. put - x >= (j - 1 - s - 1) * MaxSize + F  BY <1>8, <4>1
      <4>3. /\ (j - 1 - s - 1) * MaxSize \in Int
            /\ (j - 1 - s - 0) * MaxSize = (j - 1 - s - 1) * MaxSize + MaxSize
        <5>1. j - 1 - s - 1 \in Int /\ j - 1 - s - 0 = (j - 1 - s - 1) + 1  BY <4>1
        <5> QED  BY <1>1, <5>1, OneMore
      <4> QED  BY <1>1, <1>5, <4>1, <4>2, <4>3
    <3> QED  BY <3>1, <3>2
  <2> QED  BY <1>6, <1>7, <2>3, <2>4, <2>5 DEF Bounds
<1> QED  BY <1>9, <1>10

(* Every step of the log keeps the bounds, *)
LEMMA WritingBounds ==
    ASSUME IInv, IInv', BoundInv, Writing
    PROVE  BoundInv'
<1> USE DEF BoundInv
<1>1. LogInv /\ Bounds  BY DEF IInv, Bounds
<1>2. Level /\ Level' /\ starts' = starts
  <2>1. ~Ended /\ ~Ended'  BY DEF Writing
  <2>2. Slack \in Nat /\ Slack' \in Nat  BY SlackType, NextSlackType
  <2>3. Debt = Slack  BY <2>1 DEF Debt
  <2>4. Debt' = Slack'  BY <2>1 DEF Debt
  <2> QED  BY <2>2, <2>3, <2>4 DEF Level, Writing
<1>3. faults' = faults => Slack' = Slack  BY <1>2 DEF Slack
<1>4. Fault => Slack' = Slack + 1
  <2> SUFFICES ASSUME Fault PROVE Slack' = Slack + 1  OBVIOUS
  <2>1. faults' = faults - 1 /\ faults \in Nat /\ MaxFaults \in Nat
    BY <1>1, Numbers DEF Fault
  <2>2. starts \in Nat
    BY LifeAssumption DEF IInv, LifeInv, CalmType, LifeAssumption
  <2> QED  BY <1>2, <2>1, <2>2 DEF Slack
<1>5. PICK w \in Writer : LockLog(w) \/ LogStep(w)  BY Zenon DEF Writing, LogNext
<1>6. QuietInv' /\ StartedInv'
  BY DEF Writing, QuietInv, StartedInv
<1>7. ASSUME holder' = holder \/ holder' # NoWriter \/ rot' = Idle,
             rot' = Idle \/ rot # Idle \/ holder # NoWriter
      PROVE  HeldInv'
  BY <1>7 DEF HeldInv
<1>8. w # NoWriter  BY LogAssumption DEF LogAssumption
<1>9. ASSUME UNCHANGED <<file, put, rot, count>>, Slack' >= Slack
      PROVE  Bounds'
  BY <1>1, <1>2, <1>9, OwesMore DEF Level
<1>10. CASE LockLog(w)
  <2>1. UNCHANGED <<file, put, rot, count, faults>> /\ holder' = w
    BY <1>10 DEF LockLog
  <2>2. Bounds'  BY <1>2, <1>3, <1>9, <2>1 DEF Level
  <2>3. HeldInv'  BY <1>8, <2>1 DEF HeldInv
  <2> QED  BY <1>6, <2>2, <2>3 DEF Bounds
<1>11. CASE PutFails(w)
  <2>1. UNCHANGED <<file, put, rot, count>> /\ rot = Idle /\ Fault
    BY <1>11 DEF PutFails
  <2>2. Bounds'  BY <1>2, <1>4, <1>9, <2>1 DEF Level
  <2>3. HeldInv'  BY <2>1 DEF HeldInv
  <2> QED  BY <1>6, <2>2, <2>3 DEF Bounds
<1>12. Counted /\ rot = Idle /\ holder = w => HeldInv'
  <2> SUFFICES ASSUME Counted, rot = Idle, holder = w PROVE HeldInv'  OBVIOUS
  <2>1. CASE count + 1 >= Shift
    BY <1>8, <2>1 DEF Counted, HeldInv
  <2>2. CASE ~(count + 1 >= Shift)
    <3>1. rot' = rot /\ holder' = NoWriter  BY <2>2 DEF Counted, Unlock
    <3> QED  BY <3>1 DEF HeldInv
  <2> QED  BY <2>1, <2>2
<1>13. CASE PutsLine(w)
  <2>1. Bounds'  BY <1>1, <1>2, <1>3, <1>13, PutsLineBounds DEF PutsLine
  <2>2. HeldInv'  BY <1>12, <1>13 DEF PutsLine
  <2> QED  BY <1>6, <2>1, <2>2 DEF Bounds
<1>14. CASE FlushFails(w)
  <2>1. Bounds'  BY <1>1, <1>2, <1>4, <1>14, FlushFailsBounds DEF FlushFails
  <2>2. HeldInv'  BY <1>12, <1>14 DEF FlushFails
  <2> QED  BY <1>6, <2>1, <2>2 DEF Bounds
<1>15. CASE StatFile(w)
  <2>1. Bounds'  BY <1>1, <1>2, <1>3, <1>15, StatFileBounds DEF StatFile
  <2>2. rot' = Idle \/ (holder' = holder /\ holder = w)
    BY <1>15, Zenon DEF StatFile, Shifted
  <2>3. HeldInv'  BY <1>8, <2>2 DEF HeldInv
  <2> QED  BY <1>6, <2>1, <2>3 DEF Bounds
<1>16. CASE RemoveOldest(w)
  <2>1. Bounds'  BY <1>1, <1>2, <1>3, <1>16, RemoveOldestBounds DEF RemoveOldest
  <2>2. HeldInv'  BY <1>8, <1>16 DEF RemoveOldest, HeldInv
  <2> QED  BY <1>6, <2>1, <2>2 DEF Bounds
<1>17. CASE RenameNext(w)
  <2>1. Bounds'  BY <1>1, <1>2, <1>3, <1>17, RenameNextBounds DEF RenameNext
  <2>2. rot' = Idle \/ (holder' = holder /\ holder = w)
    BY <1>17, Zenon DEF RenameNext, Shifted
  <2>3. HeldInv'  BY <1>8, <2>2 DEF HeldInv
  <2> QED  BY <1>6, <2>1, <2>3 DEF Bounds
<1>18. CASE ShiftFails(w)
  <2>1. /\ Fault /\ rot' = Idle /\ count' = 0 /\ UNCHANGED <<file, put>>
    BY <1>18 DEF ShiftFails, Shifted, disk
  <2>2. Slack' = Slack + 1 /\ Debt' = Debt + 1 /\ Slack' >= Slack /\ Debt \in Nat
    BY <1>2, <1>4, <2>1 DEF Level
  <2>3. Bounds'  BY <1>1, <1>2, <2>1, <2>2, BrokenOff DEF Level
  <2>4. HeldInv'  BY <2>1 DEF HeldInv
  <2> QED  BY <1>6, <2>3, <2>4 DEF Bounds
<1> QED
  BY <1>5, <1>10, <1>11, <1>13, <1>14, <1>15, <1>16, <1>17, <1>18, Zenon DEF LogStep

(* and every step of the process. *)
LEMMA BoundInvKept ==
    ASSUME IInv, IInv', BoundInv, [Next]_vars
    PROVE  BoundInv'
<1>1. LogInv /\ Bounds /\ QuietInv /\ StartedInv /\ HeldInv  BY DEF IInv, BoundInv, Bounds
<1>2. Slack \in Nat /\ Debt \in Nat  BY SlackType
<1>3. Slack' \in Nat /\ Debt' \in Nat  BY NextSlackType
<1>4. CASE Aside
  <2>1. UNCHANGED <<file, put, rot, count, holder>>  BY <1>4 DEF Aside
  <2>2. Bounds'  BY <1>1, <1>2, <1>3, <1>4, <2>1, OwesMore DEF Aside
  <2>3. HeldInv'  BY <1>1, <2>1 DEF HeldInv
  <2> QED  BY <1>4, <2>2, <2>3 DEF Aside, BoundInv, Bounds
<1>5. CASE Leaves
  <2>1. /\ UNCHANGED <<file, put>> /\ rot' = Idle /\ count' = 0 /\ Slack' = Slack
        /\ StartedInv'
    BY <1>5 DEF Leaves, LogGone, disk
  <2>2. Debt' = Debt + 1  BY <1>5 DEF Leaves
  <2> QED
    BY <1>1, <1>2, <1>3, <2>1, <2>2, BrokenOff
       DEF BoundInv, Bounds, QuietInv, HeldInv
<1> QED  BY <1>1, <1>4, <1>5, DebtMoves, WritingBounds

LEMMA BoundInvStarts ==
    ASSUME Init, IInv
    PROVE  BoundInv
<1>1. /\ file = [i \in 0..Last |-> {}] /\ put = 0 /\ count = 0 /\ rot = Idle
      /\ faults = MaxFaults /\ proc = "off" /\ starts = 0
  BY DEF Init, LogInit, LifeInit
<1>2. /\ MaxSize \in Nat \ {0} /\ Shift \in Nat \ {0} /\ Last \in Nat /\ MaxFaults \in Nat
  BY Numbers DEF IInv
<1>3. Slack = 0 /\ Debt = 0  BY <1>1, <1>2 DEF Slack, Debt, Ended
<1>4. \A i \in 0..Last : file[i] = {} /\ Cardinality(file[i]) = 0
  BY <1>1, FS_EmptySet
<1>5. FullInv
  BY <1>1, MarkFacts, LogAssumption DEF FullInv, Moving, LogAssumption, Idle
<1>6. GrowthInv  BY <1>1, <1>2, <1>3, <1>4 DEF GrowthInv, Due
<1>7. SizeBound  BY <1>2, <1>3, <1>4 DEF SizeBound
<1>8. DepthInv /\ LostInv
  BY <1>1, <1>2, <1>4 DEF DepthInv, LostInv
<1> QED
  BY <1>1, <1>5, <1>6, <1>7, <1>8 DEF BoundInv, QuietInv, StartedInv, HeldInv, Runs

(* A set of lines that is not all has a last one that it lacks. *)
LEMMA LastMissing ==
    ASSUME NEW n \in Nat, NEW S \in SUBSET (1..n), S # 1..n
    PROVE  \E x \in 1..n : x \notin S /\ x + 1..n \subseteq S
<1> DEFINE U == {n - x : x \in (1..n) \ S}
<1>1. U \subseteq Nat /\ U # {}
  <2>1. \A x \in (1..n) \ S : n - x \in Nat  OBVIOUS
  <2> QED  BY <2>1
<1>2. IsWellFoundedOn(OpToRel(<, Nat), Nat)  BY NatLessThanWellFounded
<1>3. PICK k \in U : \A j \in U : <<j, k>> \notin OpToRel(<, Nat)
  BY <1>1, <1>2, WFMin
<1>4. PICK x \in (1..n) \ S : k = n - x  OBVIOUS
<1>5. ASSUME NEW y \in x + 1..n PROVE y \in S
  <2> SUFFICES ASSUME y \notin S PROVE FALSE  OBVIOUS
  <2>1. y \in 1..n /\ n - y \in U  BY <1>4
  <2>2. n - y < k /\ n - y \in Nat /\ k \in Nat  BY <1>1, <1>4, <2>1
  <2> QED  BY <1>3, <2>1, <2>2 DEF OpToRel
<1> QED  BY <1>4, <1>5

(* The invariant says what is promised: the last line that is lost is followed by kept
   ones only.                                                                *)
LEMMA BoundedIfInv ==
    ASSUME IInv, BoundInv
    PROVE  LogBounded
<1>1. /\ MaxSize \in Nat /\ Last \in Nat /\ put \in Nat /\ MaxNum = Last + 1
      /\ file \in [0..Last -> SUBSET (1..put)] /\ Slack \in Nat
  BY Numbers, SlackType DEF IInv
<1>2. SizeBound  BY DEF BoundInv
<1>3. Retained
  <2> SUFFICES ASSUME Kept # 1..put
               PROVE  Cardinality(Kept) >= (MaxNum - 1 - Slack) * MaxSize
    BY DEF Retained, Kept
  <2>1. Kept \in SUBSET (1..put)  BY <1>1 DEF Kept
  <2>2. PICK x \in 1..put : x \notin Kept /\ x + 1..put \subseteq Kept
    BY <1>1, <2>1, LastMissing
  <2>3. put - x >= (Last - Slack) * MaxSize  BY <2>2 DEF BoundInv, LostInv
  <2>4. IsFiniteSet(Kept)
    <3>1. IsFiniteSet(1..put)  BY <1>1, FS_Interval
    <3> QED  BY <2>1, <3>1, FS_Subset
  <2>5. Cardinality(x + 1..put) = put - x
    <3>1. x + 1 \in Int /\ put \in Int /\ x <= put  BY <1>1
    <3>2. Cardinality(x + 1..put) = IF x + 1 > put THEN 0 ELSE put - (x + 1) + 1
      BY <3>1, FS_Interval
    <3> QED  BY <1>1, <3>1, <3>2
  <2>6. put - x <= Cardinality(Kept)  BY <2>2, <2>4, <2>5, FS_Subset
  <2>7. Cardinality(Kept) \in Nat  BY <2>4, FS_CardinalityType
  <2>8. MaxNum - 1 - Slack = Last - Slack /\ (Last - Slack) * MaxSize \in Int  BY <1>1
  <2> QED  BY <1>1, <2>3, <2>6, <2>7, <2>8
<1> QED  BY <1>2, <1>3 DEF LogBounded

(* The log neither outgrows its files nor gives lines up early, wherever a rotation failed
   or the process was killed in it: shilft_files of log.cpp removes the last file only
   for a base.log that is full, and counts again from nothing afterwards.     *)
THEOREM LogStaysBounded == Spec => []LogBounded
<1>1. Init => IInv
  BY LogInvStarts, LifeInvStarts DEF Init, IInv, HolderInv, LogInit
<1>2. Init => BoundInv  BY <1>1, BoundInvStarts
<1>3. IInv /\ IInv' /\ BoundInv /\ [Next]_vars => BoundInv'  BY BoundInvKept
<1>4. IInv /\ BoundInv => LogBounded  BY BoundedIfInv
<1> QED  BY <1>2, <1>3, <1>4, Invariant, PTL DEF Spec
=============================================================================

-------------------------- MODULE EventLoopProofs --------------------------
(***************************************************************************)
(* Theorems about EventLoop, for any number of events, descriptors and     *)
(* failures: the list is sound, and what the kernel and a batch point at   *)
(* is an event of it.  Inv is the inductive invariant: besides the         *)
(* properties it says where the event of a running handler is (Running is  *)
(* in the list) and that the pipe's event is there and EV_PERSIST.         *)
(***************************************************************************)
EXTENDS EventLoopProps, FiniteSetTheorems, SequenceTheorems, TLAPS

(* The descriptors of the list, and of the sentinel. *)
Shape ==
    /\ fd[End] = -1
    /\ \A e \in queued : fd[e] \in Fd

PipeKept == Pipe \in queued /\ "PERSIST" \in mask[Pipe]

Serving ==
    /\ cur # NULL => cur \in queued
    /\ pc \notin {"handler", "closed"} => cur = NULL
    /\ pc \notin {"handler", "closed", "batch"} => batch = <<>>

(* Linked but for the count. *)
Chain ==
    /\ head \in queued \cup {End} /\ (head = End <=> queued = {})
    /\ prev[head] = NULL
    /\ \A e \in queued :
          /\ next[e] \in queued \cup {End} /\ fd[next[e]] < fd[e]
          /\ next[e] # End => prev[next[e]] = e
          /\ e # head => prev[e] \in queued /\ next[prev[e]] = e
          /\ fd[e] <= fd[head]
          /\ \A f \in queued : fd[f] < fd[e] => fd[f] <= fd[next[e]]
          /\ \A f \in queued : fd[f] = fd[e] => f = e

Sized == size = Cardinality(queued)

ListType ==
    /\ queued \subseteq Event
    /\ fd \in [Node -> Fd \cup {-1}]
    /\ next \in [Node -> Node \cup {NULL}]
    /\ prev \in [Node -> Node \cup {NULL}]
    /\ head \in Node /\ size \in Int

LEMMA LinkedParts == Linked <=> Chain /\ Sized
  BY DEF Linked, Chain, Sized

(* add: the new event is between its neighbours. *)
LEMMA LinkKeepsChain ==
  ASSUME EventLoopAssumption, ListType, Shape, Chain,
         NEW e \in Event \ queued, NEW n \in Fd,
         fd' = [fd EXCEPT ![e] = n], ~EqualFd(n), Link(e, n)
  PROVE  Chain'
  <1>1. /\ \A x \in Node : x # e => fd'[x] = fd[x]
        /\ fd'[e] = n /\ queued' = queued \cup {e}
    BY DEF Link, ListType, Node
  <1>2. CASE LinkFirst(e) /\ (head = End \/ fd[head] < n)
    BY <1>1, <1>2 DEF LinkFirst, Chain, Shape, ListType, Node, EventLoopAssumption, Fd
  <1>3. ASSUME NEW p \in Event, head # End, fd[head] > n, Stops(p, n), LinkAfter(e, p)
        PROVE  Chain'
    <2>1. /\ p \in queued /\ fd[p] > n /\ fd[next[p]] < n /\ next[p] \in queued \cup {End}
          /\ next[p] # p /\ e # End
      BY <1>3 DEF Stops, EqualFd, Chain, Shape, ListType, Node, EventLoopAssumption, Fd
    <2>2. /\ next'[e] = next[p] /\ next'[p] = e
          /\ prev'[next[p]] = e /\ prev'[e] = p /\ head' = head
          /\ \A x \in Node \ {e, p} : next'[x] = next[x]
          /\ \A x \in Node \ {e, next[p]} : prev'[x] = prev[x]
      BY <1>3, <2>1 DEF LinkAfter, ListType, Node, EventLoopAssumption
    <2>3. next[p] # head
      BY <2>1 DEF Chain, Shape, Fd
    <2>4. \A x \in queued \ {p} : next[x] # next[p] \/ next[p] = End
      BY <2>1 DEF Chain, Shape, Fd
    <2> QED
      BY <1>1, <1>3, <2>1, <2>2, <2>3, <2>4
      DEF Chain, Shape, ListType, Node, EventLoopAssumption, Fd
  <1> QED  BY <1>2, <1>3 DEF Link

(* del: its neighbours are linked to each other. *)
LEMMA UnlinkKeepsChain ==
  ASSUME EventLoopAssumption, ListType, Shape, Chain, NEW e \in queued,
         fd' = [fd EXCEPT ![e] = -1], Unlink(e)
  PROVE  Chain'
  <1>1. /\ \A x \in Node : x # e => fd'[x] = fd[x]
        /\ queued' = queued \ {e} /\ e # End /\ e \in Node
        /\ next[e] \in queued' \cup {End} /\ next[e] # e
    BY DEF Unlink, Chain, Shape, ListType, Node, EventLoopAssumption, Fd
  <1>2. CASE e = head
    <2>1. /\ head' = next[e] /\ prev'[next[e]] = NULL
          /\ \A x \in Node \ {e} : next'[x] = next[x]
          /\ \A x \in Node \ {e, next[e]} : prev'[x] = prev[x]
      BY <1>1, <1>2 DEF Unlink, ListType, Node
    <2>2. \A x \in queued' : next[x] # next[e] \/ next[e] = End
      BY <1>1, <1>2 DEF Chain
    <2>3. \A x \in queued' : next[x] # e /\ fd[x] < fd[e]
      BY <1>1, <1>2 DEF Chain, Shape, Fd, ListType, Node, EventLoopAssumption
    <2>4. head' \in queued' \cup {End} /\ (head' = End <=> queued' = {}) /\ prev'[head'] = NULL
      BY <1>1, <2>1, <2>3 DEF Chain, Shape, Fd, ListType, Node, EventLoopAssumption
    <2> QED
      BY <1>1, <1>2, <2>1, <2>2, <2>3, <2>4
      DEF Chain, Shape, ListType, Node, EventLoopAssumption, Fd
  <1>3. CASE e # head
    <2>1. /\ prev[e] \in queued' /\ next[prev[e]] = e /\ prev[e] # next[e] /\ head' = head
          /\ prev'[next[e]] = prev[e] /\ next'[prev[e]] = next[e]
          /\ \A x \in Node \ {e, prev[e]} : next'[x] = next[x]
          /\ \A x \in Node \ {e, next[e]} : prev'[x] = prev[x]
      BY <1>1, <1>3 DEF Unlink, Chain, Shape, ListType, Node, EventLoopAssumption, Fd
    <2>2. \A x \in queued' : next[x] = e => x = prev[e]
      BY <1>1, <2>1 DEF Chain
    <2>3. next[e] # head
      BY <1>1 DEF Chain, Shape, Fd, ListType, Node
    <2>4. \A x \in queued' : next[x] # next[e] \/ next[e] = End
      BY <1>1 DEF Chain
    <2>5. /\ head' \in queued' \cup {End} /\ (head' = End <=> queued' = {}) /\ prev'[head'] = NULL
      BY <1>1, <1>3, <2>1, <2>3 DEF Chain, ListType, Node
    <2>6. \A x \in queued' :
            /\ next'[x] \in queued' \cup {End} /\ fd'[next'[x]] < fd'[x]
            /\ fd'[x] <= fd'[head']
            /\ \A f \in queued' : fd'[f] < fd'[x] => fd'[f] <= fd'[next'[x]]
            /\ \A f \in queued' : fd'[f] = fd'[x] => f = x
      <3>1. \A x \in queued' : x # prev[e] => next'[x] = next[x] /\ next[x] # e
        BY <1>1, <2>1, <2>2 DEF ListType, Node
      <3>2. \A x \in queued' \cup {End} : fd'[x] = fd[x] /\ fd[x] \in Int
        BY <1>1 DEF ListType, Node, Fd
      <3>3. fd[next[e]] < fd[e] /\ fd[e] < fd[prev[e]] /\ fd[e] \in Int
        BY <1>1, <2>1 DEF Chain, ListType, Node, Fd
      <3>4. \A x \in queued' : next'[x] \in queued' \cup {End} /\ fd[next'[x]] < fd[x]
        BY <1>1, <2>1, <3>1, <3>2, <3>3 DEF Chain
      <3>5. \A x, f \in queued' : fd[f] < fd[x] => fd[f] <= fd[next'[x]]
        <4>1. \A f \in queued' : fd[f] < fd[prev[e]] => fd[f] <= fd[e] /\ f # e
          BY <1>1, <2>1 DEF Chain
        <4>2. \A f \in queued' : fd[f] < fd[prev[e]] => fd[f] < fd[e]
          <5>1. \A f \in queued' : fd[f] # fd[e]
            BY <1>1 DEF Chain
          <5> QED  BY <4>1, <5>1, <3>2, <3>3
        <4>3. \A f \in queued' : fd[f] < fd[prev[e]] => fd[f] <= fd[next[e]]
          BY <1>1, <4>2 DEF Chain
        <4> QED  BY <1>1, <2>1, <3>1, <4>3 DEF Chain
      <3>6. \A x, f \in queued' : fd[x] <= fd[head] /\ (fd[f] = fd[x] => f = x)
        BY <1>1 DEF Chain
      <3> QED  BY <2>1, <2>5, <3>2, <3>4, <3>5, <3>6
    <2>7. \A x \in queued' :
            /\ next'[x] # End => prev'[next'[x]] = x
            /\ x # head' => prev'[x] \in queued' /\ next'[prev'[x]] = x
      <3>1. CASE next[e] = End
        BY <1>1, <2>1, <2>2, <2>5, <3>1 DEF Chain, ListType, Node, EventLoopAssumption
      <3>2. CASE next[e] # End
        BY <1>1, <2>1, <2>2, <2>4, <3>2 DEF Chain, ListType, Node, EventLoopAssumption
      <3> QED  BY <3>1, <3>2
    <2> QED  BY <2>5, <2>6, <2>7 DEF Chain
  <1> QED  BY <1>2, <1>3

(* _size counts what is queued. *)
LEMMA LinkKeepsSized ==
  ASSUME EventLoopAssumption, ListType, Sized, NEW e \in Event \ queued, NEW n \in Fd, Link(e, n)
  PROVE  Sized'
  <1>1. IsFiniteSet(queued)
    BY FS_Subset DEF EventLoopAssumption, ListType
  <1>2. Cardinality(queued \cup {e}) = Cardinality(queued) + 1
    BY <1>1, FS_AddElement
  <1> QED  BY <1>2 DEF Link, Sized

LEMMA UnlinkKeepsSized ==
  ASSUME EventLoopAssumption, ListType, Sized, NEW e \in queued, Unlink(e)
  PROVE  Sized'
  <1>1. IsFiniteSet(queued)
    BY FS_Subset DEF EventLoopAssumption, ListType
  <1>2. Cardinality(queued \ {e}) = Cardinality(queued) - 1
    BY <1>1, FS_RemoveElement
  <1> QED  BY <1>2 DEF Unlink, Sized

Inv ==
    /\ TypeOK /\ Linked /\ Shape /\ queued \subseteq live
    /\ PipeKept /\ Serving /\ EpollBacked /\ BatchLive

(* What the steps that leave the list alone keep. *)
ListParts == Linked /\ Shape /\ queued \subseteq live /\ PipeKept

LEMMA SameList ==
  ASSUME ListParts, UNCHANGED <<live, fd, mask, list>>
  PROVE  ListParts'
  BY DEF ListParts, Linked, Shape, PipeKept, list

LEMMA SameEpoll ==
  ASSUME EpollBacked, UNCHANGED <<live, fd, list, epoll>>, file \subseteq file'
  PROVE  EpollBacked'
  BY DEF EpollBacked, list

LEMMA SameBatch ==
  ASSUME BatchLive, UNCHANGED <<queued, fd, epoll, batch>>, cur' \in {cur, NULL},
         EventLoopAssumption, batch \in Seq(Entry)
  PROVE  BatchLive'
  <1>1. \A i \in 1..Len(batch) : batch[i].ptr # NULL
    <2>1. \A i \in 1..Len(batch) : batch[i] \in Entry
      BY ElementOfSeq
    <2> QED  BY <2>1 DEF Entry, EventLoopAssumption
  <1> QED  BY <1>1 DEF BatchLive

LEMMA InitInv == EventLoopAssumption /\ Init => Inv
  <1> SUFFICES ASSUME EventLoopAssumption, Init PROVE Inv  OBVIOUS
  <1> USE DEF EventLoopAssumption, Init, Fd, Node
  <1>1. TypeOK
    BY DEF TypeOK, Flags, Kinds, PCs, NotRegistered
  <1>2. Chain
    BY DEF Chain
  <1>3. Sized
    BY FS_Singleton DEF Sized
  <1>4. EpollBacked
    BY DEF EpollBacked, NotRegistered
  <1>5. Shape /\ PipeKept /\ Serving /\ BatchLive /\ queued \subseteq live
    BY DEF Shape, PipeKept, Serving, BatchLive
  <1> QED  BY <1>1, <1>2, <1>3, <1>4, <1>5, LinkedParts DEF Inv

(* The loop itself. *)

LEMMA TopStep == ASSUME EventLoopAssumption, Inv, Top PROVE Inv'
  <1>1. ListParts'
    BY SameList DEF Inv, ListParts, Top
  <1>2. EpollBacked'
    BY SameEpoll DEF Inv, Top, kernel
  <1>3. BatchLive'
    BY SameBatch DEF Inv, Top, list, kernel, TypeOK
  <1>4. TypeOK' /\ Serving'
    BY DEF Inv, Top, TypeOK, Serving, list, kernel, PCs
  <1> QED  BY <1>1, <1>2, <1>3, <1>4 DEF Inv, ListParts

LEMMA WaitStep == ASSUME EventLoopAssumption, Inv, Wait PROVE Inv'
  <1>1. ListParts'
    BY SameList DEF Inv, ListParts, Wait
  <1>2. EpollBacked'
    BY SameEpoll DEF Inv, Wait, kernel
  <1>3. PICK told \in [{n \in Fd : epoll[n].ptr # NULL} -> SUBSET Kinds] :
          LET some == {n \in DOMAIN told : told[n] # {}}
          IN \E order \in [1..Cardinality(some) -> some] :
                /\ \A i, j \in 1..Cardinality(some) : order[i] = order[j] => i = j
                /\ batch' = [i \in 1..Cardinality(some) |->
                                [ptr |-> epoll[order[i]].ptr, what |-> told[order[i]]]]
    BY DEF Wait
  <1> DEFINE some == {n \in DOMAIN told : told[n] # {}}
             k == Cardinality(some)
  <1>4. some \subseteq {n \in Fd : epoll[n].ptr # NULL}
    OBVIOUS
  <1>5. k \in Nat
    <2>1. IsFiniteSet(Fd)
      BY FS_Interval DEF Fd, EventLoopAssumption
    <2>2. IsFiniteSet(some)
      BY <1>4, <2>1, FS_Subset
    <2> QED  BY <2>2, FS_CardinalityType
  <1>6. PICK order \in [1..k -> some] :
          /\ \A i, j \in 1..k : order[i] = order[j] => i = j
          /\ batch' = [i \in 1..k |-> [ptr |-> epoll[order[i]].ptr, what |-> told[order[i]]]]
    BY <1>3
  <1> HIDE DEF some, k
  <1>7. \A i \in 1..k : /\ epoll[order[i]].ptr \in Event /\ told[order[i]] \in SUBSET Kinds
                        /\ epoll[order[i]].ptr \in queued
                        /\ fd[epoll[order[i]].ptr] = order[i]
    BY <1>4, <1>6 DEF Inv, TypeOK, EpollBacked
  <1>8. batch' \in Seq(Entry) /\ Len(batch') = k
    <2>1. batch' \in [1..k -> Entry]
      BY <1>6, <1>7 DEF Entry
    <2>2. batch' \in Seq(Entry)
      BY <1>5, <2>1, SeqDef
    <2>3. DOMAIN batch' = 1..k /\ DOMAIN batch' = 1..Len(batch') /\ Len(batch') \in Nat
      BY <2>1, <2>2
    <2> QED  BY <1>5, <2>2, <2>3
  <1>9. cur' = NULL /\ cur = NULL
    BY DEF Wait, Inv, Serving
  <1>10. BatchLive'
    <2>1. \A i \in 1..k : batch'[i].ptr = epoll[order[i]].ptr /\ batch'[i].ptr \in queued'
      BY <1>6, <1>7 DEF Wait, list
    <2>2. \A i \in 1..k : epoll'[fd'[batch'[i].ptr]].ptr = batch'[i].ptr /\ batch'[i].ptr # NULL
      <3>1. epoll' = epoll /\ fd' = fd
        BY DEF Wait, kernel
      <3> QED  BY <1>7, <2>1, <3>1 DEF EventLoopAssumption
    <2>3. \A i, j \in 1..k : batch'[i].ptr = batch'[j].ptr => i = j
      BY <1>6, <1>7, <2>1
    <2> QED  BY <1>8, <1>9, <2>1, <2>2, <2>3 DEF BatchLive
  <1>11. TypeOK' /\ Serving'
    BY <1>8, <1>9 DEF Inv, Wait, TypeOK, Serving, list, kernel, PCs
  <1> QED  BY <1>1, <1>2, <1>10, <1>11 DEF Inv, ListParts

LEMMA ProcessStep == ASSUME EventLoopAssumption, Inv, Process PROVE Inv'
  <1>1. ListParts'
    BY SameList DEF Inv, ListParts, Process
  <1>2. EpollBacked'
    BY SameEpoll DEF Inv, Process, kernel
  <1> DEFINE e == Head(batch).ptr
  <1>3. /\ batch \in Seq(Entry) /\ batch # <<>> /\ batch' = Tail(batch) /\ e = batch[1].ptr
        /\ batch' \in Seq(Entry) /\ Len(batch') = Len(batch) - 1 /\ Len(batch) \in Nat \ {0}
        /\ \A i \in 1..Len(batch') : batch'[i] = batch[i + 1]
    BY DEF Process, Inv, TypeOK
  <1>4. /\ e \in Event /\ e \in queued /\ epoll[fd[e]].ptr = e
        /\ \A i \in 1..Len(batch') : batch'[i].ptr # e
    <2>1. 1 \in 1..Len(batch)
      BY <1>3
    <2>2. \A i \in 1..Len(batch') : i + 1 \in 1..Len(batch) /\ i + 1 # 1
      BY <1>3
    <2>3. e \in Event
      <3>1. batch[1] \in Entry
        BY <1>3, <2>1, ElementOfSeq
      <3> QED  BY <1>3, <3>1 DEF Entry
    <2> QED  BY <1>3, <2>1, <2>2, <2>3 DEF Inv, BatchLive
  <1>5. /\ cur = NULL /\ cur' \in {e, NULL} /\ (cur' = e => pc' = "handler")
        /\ (cur' = NULL => pc' \in {"handler", "batch"})
    BY <1>4 DEF Process, Inv, Serving, EventLoopAssumption
  <1>7. BatchLive'
    BY <1>3, <1>4, <1>5 DEF Inv, BatchLive, Process, list, kernel, EventLoopAssumption
  <1>8. TypeOK' /\ Serving'
    BY <1>3, <1>4, <1>5 DEF Inv, Process, TypeOK, Serving, list, kernel, PCs
  <1> QED  BY <1>1, <1>2, <1>7, <1>8 DEF Inv, ListParts

LEMMA BatchDoneStep == ASSUME EventLoopAssumption, Inv, BatchDone PROVE Inv'
  <1>1. ListParts'
    BY SameList DEF Inv, ListParts, BatchDone
  <1>2. EpollBacked'
    BY SameEpoll DEF Inv, BatchDone, kernel
  <1>3. BatchLive'
    BY SameBatch DEF Inv, BatchDone, list, kernel, TypeOK
  <1>4. TypeOK' /\ Serving'
    BY DEF Inv, BatchDone, TypeOK, Serving, list, kernel, PCs
  <1> QED  BY <1>1, <1>2, <1>3, <1>4 DEF Inv, ListParts

LEMMA BeatStep == ASSUME EventLoopAssumption, Inv, Beat PROVE Inv'
  <1>1. ListParts'
    BY SameList DEF Inv, ListParts, Beat
  <1>2. EpollBacked'
    BY SameEpoll DEF Inv, Beat, kernel
  <1>3. BatchLive'
    BY SameBatch DEF Inv, Beat, list, kernel, TypeOK
  <1>4. TypeOK' /\ Serving'
    BY DEF Inv, Beat, Counted, TypeOK, Serving, list, kernel, PCs, EventLoopAssumption
  <1> QED  BY <1>1, <1>2, <1>3, <1>4 DEF Inv, ListParts

(* The handlers. *)

LEMMA ConsumeStep == ASSUME EventLoopAssumption, Inv, Consume PROVE Inv'
  <1>1. ListParts'
    BY SameList DEF Inv, ListParts, Consume
  <1>2. EpollBacked'
    BY SameEpoll DEF Inv, Consume
  <1>3. BatchLive'
    BY SameBatch DEF Inv, Consume, list, loop, TypeOK
  <1>4. TypeOK' /\ Serving'
    BY DEF Inv, Consume, TypeOK, Serving, list, loop
  <1> QED  BY <1>1, <1>2, <1>3, <1>4 DEF Inv, ListParts

LEMMA ReturnStep == ASSUME EventLoopAssumption, Inv, Return PROVE Inv'
  <1>1. ListParts'
    BY SameList DEF Inv, ListParts, Return
  <1>2. EpollBacked'
    BY SameEpoll DEF Inv, Return, kernel
  <1>3. BatchLive'
    BY SameBatch DEF Inv, Return, list, kernel, TypeOK
  <1>4. TypeOK' /\ Serving'
    BY DEF Inv, Return, TypeOK, Serving, list, kernel, PCs
  <1> QED  BY <1>1, <1>2, <1>3, <1>4 DEF Inv, ListParts

LEMMA UpdateStep ==
  ASSUME EventLoopAssumption, Inv, NEW m \in Masks, Update(m)
  PROVE  Inv'
  <1>1. /\ cur \in queued /\ cur # Pipe /\ cur \in Event /\ fd[cur] \in Fd
        /\ mask' = [mask EXCEPT ![cur] = m]
    BY DEF Update, Ask, UpdateFd, CtlFails, Inv, Serving, Shape, TypeOK
  <1>2. epoll' \in [Fd -> [ptr : Event \cup {NULL}, mask : SUBSET Kinds]]
        /\ \A n \in Fd : epoll'[n].ptr = epoll[n].ptr
    <2>1. Wanted(m) \in SUBSET Kinds
      BY DEF Wanted, Kinds
    <2>2. epoll \in [Fd -> [ptr : Event \cup {NULL}, mask : SUBSET Kinds]]
      BY DEF Inv, TypeOK
    <2>3. epoll' = [epoll EXCEPT ![fd[cur]].mask = Wanted(m)] \/ epoll' = epoll
      BY DEF Update, Ask, UpdateFd, CtlFails
    <2> QED  BY <1>1, <2>1, <2>2, <2>3
  <1>3. ListParts'
    BY <1>1 
       DEF Inv, ListParts, Update, Ask, UpdateFd, CtlFails, list, loop, Linked, Shape, PipeKept,
           TypeOK
  <1>4. EpollBacked'
    BY <1>2 DEF Inv, EpollBacked, Update, Ask, UpdateFd, CtlFails, list
  <1>5. BatchLive'
    <2>1. \A i \in 1..Len(batch) : fd[batch[i].ptr] \in Fd
      BY DEF Inv, BatchLive, Shape
    <2> QED  BY <1>2, <2>1 DEF Inv, BatchLive, Update, Ask, UpdateFd, CtlFails, list, loop
  <1>6. TypeOK' /\ Serving'
    BY <1>1, <1>2 
       DEF Inv, Update, Ask, UpdateFd, CtlFails, TypeOK, Serving, list, loop, EventLoopAssumption,
           Flags
  <1> QED  BY <1>3, <1>4, <1>5, <1>6 DEF Inv, ListParts

LEMMA CloseOwnStep == ASSUME EventLoopAssumption, Inv, CloseOwn PROVE Inv'
  <1>1. ListParts'
    BY SameList DEF Inv, ListParts, CloseOwn
  <1>2. cur \in queued /\ fd[cur] \in Fd
    BY DEF CloseOwn, Inv, Serving, Shape
  <1>3. /\ epoll' \in [Fd -> [ptr : Event \cup {NULL}, mask : SUBSET Kinds]]
        /\ epoll'[fd[cur]].ptr = NULL
        /\ \A n \in Fd \ {fd[cur]} : epoll'[n] = epoll[n]
    BY <1>2 DEF CloseOwn, Inv, TypeOK, NotRegistered, Kinds
  <1>4. EpollBacked'
    BY <1>2, <1>3 DEF CloseOwn, Inv, EpollBacked, list
  <1>5. BatchLive'
    <2>1. \A i \in 1..Len(batch) : fd[batch[i].ptr] \in Fd \ {fd[cur]}
      BY <1>2 DEF Inv, BatchLive, Shape, Linked
    <2> QED  BY <1>3, <2>1 DEF Inv, BatchLive, CloseOwn, list
  <1>6. TypeOK' /\ Serving'
    BY <1>3 DEF Inv, CloseOwn, TypeOK, Serving, list, PCs
  <1> QED  BY <1>1, <1>4, <1>5, <1>6 DEF Inv, ListParts

LEMMA DelOwnStep == ASSUME EventLoopAssumption, Inv, DelOwn PROVE Inv'
  <1>1. /\ cur \in queued /\ cur # Pipe /\ cur \in Event /\ fd[cur] \in Fd
        /\ fd' = [fd EXCEPT ![cur] = -1] /\ mask' = [mask EXCEPT ![cur] = {}]
        /\ queued' = queued \ {cur} /\ Unlink(cur) /\ live' = live \ {cur}
    BY DEF DelOwn, DeleteEvent, Kept, Unlink, Inv, Serving, Shape, PipeKept, TypeOK
  <1>2. ListType
    BY DEF Inv, TypeOK, ListType
  <1>3. Linked'
    <2>1. Chain /\ Sized /\ Shape
      BY LinkedParts DEF Inv
    <2>2. Chain'
      BY <1>1, <1>2, <2>1, UnlinkKeepsChain
    <2>3. Sized'
      BY <1>1, <1>2, <2>1, UnlinkKeepsSized
    <2> QED  BY <2>2, <2>3 DEF Linked, Chain, Sized
  <1>4. Linked' /\ Shape' /\ PipeKept' /\ queued' \subseteq live'
    BY <1>1, <1>3 DEF Inv, Shape, PipeKept, TypeOK, Node, EventLoopAssumption
  <1>5. /\ epoll' \in [Fd -> [ptr : Event \cup {NULL}, mask : SUBSET Kinds]]
        /\ epoll'[fd[cur]].ptr = NULL
        /\ \A n \in Fd \ {fd[cur]} : epoll'[n] = epoll[n]
    <2>1. epoll \in [Fd -> [ptr : Event \cup {NULL}, mask : SUBSET Kinds]]
      BY DEF Inv, TypeOK
    <2>2. NotRegistered \in [ptr : Event \cup {NULL}, mask : SUBSET Kinds] /\ NotRegistered.ptr = NULL
      BY DEF NotRegistered
    <2>3. \/ epoll' = [epoll EXCEPT ![fd[cur]] = NotRegistered]
          \/ epoll' = epoll /\ epoll[fd[cur]].ptr = NULL
      BY DEF DelOwn, DeleteEvent, DelFd
    <2> QED  BY <1>1, <2>1, <2>2, <2>3
  <1>6. EpollBacked'
    BY <1>1, <1>5 DEF DelOwn, DeleteEvent, Inv, EpollBacked, TypeOK, Node
  <1>7. BatchLive'
    <2>1. \A i \in 1..Len(batch) : fd[batch[i].ptr] \in Fd \ {fd[cur]} /\ batch[i].ptr # cur
      BY <1>1 DEF Inv, BatchLive, Shape, Linked
    <2>2. \A i \in 1..Len(batch) : fd'[batch[i].ptr] = fd[batch[i].ptr]
      BY <1>1, <2>1 DEF Inv, BatchLive, TypeOK, Node
    <2>3. cur' = NULL /\ batch' = batch /\ NULL \notin queued'
      BY <1>1, <1>2 DEF DelOwn, DeleteEvent, EventLoopAssumption, ListType
    <2> QED  BY <1>1, <1>5, <2>1, <2>2, <2>3 DEF Inv, BatchLive
  <1>8. /\ next' \in [Node -> Node \cup {NULL}] /\ prev' \in [Node -> Node \cup {NULL}]
        /\ head' \in Node /\ size' \in Int
    <2>1. next[cur] \in Node /\ (cur # head => prev[cur] \in Node)
      BY <1>1, <1>2 DEF ListType, Inv, Linked, Node
    <2>2. CASE cur = head
      BY <1>1, <1>2, <2>1, <2>2 DEF Unlink, ListType, Node
    <2>3. CASE cur # head
      BY <1>1, <1>2, <2>1, <2>3 DEF Unlink, ListType, Node
    <2> QED  BY <2>2, <2>3
  <1>9. TypeOK' /\ Serving'
    <2>1. /\ fd' \in [Node -> Fd \cup {-1}] /\ mask' \in [Event -> SUBSET Flags]
          /\ live' \subseteq Event /\ queued' \subseteq Event
      BY <1>1 DEF Inv, TypeOK, Node
    <2>2. /\ cur' = NULL /\ pc' = "handler"
          /\ UNCHANGED <<file, ready, batch, beats, faults>>
      BY DEF DelOwn, DeleteEvent
    <2>3. Serving'
      BY <2>2 DEF Serving
    <2> QED  BY <1>5, <1>8, <2>1, <2>2, <2>3 DEF Inv, TypeOK, PCs
  <1> QED  BY <1>4, <1>6, <1>7, <1>9 DEF Inv

LEMMA AddStep ==
  ASSUME EventLoopAssumption, Inv, NEW n \in Fd, NEW m \in Masks, Add(n, m)
  PROVE  Inv'
  <1>1. PICK e \in Event \ live :
          /\ live' = live \cup {e}
          /\ fd' = [fd EXCEPT ![e] = n]
          /\ mask' = [mask EXCEPT ![e] = m]
          /\ \/ EqualFd(n) /\ UNCHANGED <<list, epoll, faults>>
             \/ ~EqualFd(n) /\ Link(e, n)
                /\ \/ /\ epoll' = [epoll EXCEPT ![n] = [ptr |-> e, mask |-> Wanted(m)]]
                      /\ UNCHANGED faults
                   \/ faults > 0 /\ faults' = faults - 1 /\ UNCHANGED epoll
    BY DEF Add, NewEvent, AddFd, CtlFails
  <1>2. /\ e \notin queued /\ e \in Node /\ e # Pipe /\ e # End
        /\ Open(n) /\ epoll[n].ptr = NULL /\ UNCHANGED <<file, ready, loop>>
    BY <1>1 DEF Add, NewEvent, AddFd, CtlFails, Inv, PipeKept, Node, EventLoopAssumption
  <1>3. ListType
    BY DEF Inv, TypeOK, ListType
  <1>4. \A x \in Node \ {e} : fd'[x] = fd[x]
    BY <1>1, <1>3 DEF ListType
  <1>5. queued \subseteq queued' /\ queued' \subseteq queued \cup {e} /\ fd'[e] = n
    BY <1>1, <1>2, <1>3 DEF Link, list, ListType
  <1>6. Linked'
    <2>1. CASE EqualFd(n) /\ UNCHANGED <<list, epoll, faults>>
      <3>1. UNCHANGED <<next, prev, queued, head, size>>
        BY <2>1 DEF list
      <3>2. \A x \in queued \cup {End} : fd'[x] = fd[x]
        BY <1>2, <1>3, <1>4 DEF ListType, Node
      <3> QED  BY <3>1, <3>2 DEF Inv, Linked
    <2>2. CASE ~EqualFd(n) /\ Link(e, n)
      <3>1. Chain /\ Sized /\ Shape /\ e \in Event \ queued
        BY <1>2, LinkedParts DEF Inv
      <3>2. Chain'
        BY <1>1, <1>3, <2>2, <3>1, LinkKeepsChain
      <3>3. Sized'
        BY <1>3, <2>2, <3>1, LinkKeepsSized
      <3> QED  BY <3>2, <3>3 DEF Linked, Chain, Sized
    <2> QED  BY <1>1, <2>1, <2>2
  <1>7. Shape' /\ PipeKept' /\ queued' \subseteq live'
    BY <1>1, <1>2, <1>3, <1>4, <1>5 DEF Inv, Shape, PipeKept, ListType, Node, EventLoopAssumption, TypeOK
  <1>8. /\ epoll' \in [Fd -> [ptr : Event \cup {NULL}, mask : SUBSET Kinds]]
        /\ \A k \in Fd \ {n} : epoll'[k] = epoll[k]
        /\ epoll'[n].ptr \in {NULL, e}
        /\ epoll'[n].ptr = e => e \in queued'
    <2>1. Wanted(m) \in SUBSET Kinds
      BY DEF Wanted, Kinds
    <2>2. UNCHANGED epoll \/ /\ epoll' = [epoll EXCEPT ![n] = [ptr |-> e, mask |-> Wanted(m)]]
                             /\ e \in queued'
      BY <1>1 DEF Link
    <2> QED  BY <1>2, <2>1, <2>2 DEF Inv, TypeOK, EventLoopAssumption
  <1>9. EpollBacked'
    <2>1. \A k \in Fd \ {n} : epoll'[k].ptr # NULL =>
             epoll'[k].ptr \in queued /\ epoll'[k].ptr \in live /\ fd[epoll'[k].ptr] = k /\ k \in file
      BY <1>8 DEF Inv, EpollBacked
    <2>2. \A x \in queued : fd'[x] = fd[x]
      BY <1>2, <1>3, <1>4 DEF ListType, Node
    <2> QED  BY <1>1, <1>2, <1>5, <1>8, <2>1, <2>2 DEF EpollBacked, Open
  <1>10. BatchLive'
    <2>1. \A i \in 1..Len(batch) : batch[i].ptr \in queued /\ fd[batch[i].ptr] \in Fd \ {n}
      <3>1. \A i \in 1..Len(batch) : batch[i].ptr \in queued /\ batch[i].ptr # NULL
                                     /\ fd[batch[i].ptr] \in Fd
        BY <1>3 DEF Inv, BatchLive, Shape, ListType, EventLoopAssumption
      <3> QED  BY <1>2, <3>1 DEF Inv, BatchLive
    <2>2. \A x \in queued : fd'[x] = fd[x]
      BY <1>2, <1>3, <1>4 DEF ListType, Node
    <2> QED  BY <1>2, <1>5, <1>8, <2>1, <2>2 DEF Inv, BatchLive, loop
  <1>11. /\ next' \in [Node -> Node \cup {NULL}] /\ prev' \in [Node -> Node \cup {NULL}]
         /\ head' \in Node /\ size' \in Int
    <2>1. CASE UNCHANGED list
      BY <1>3, <2>1 DEF list, ListType
    <2>2. CASE Link(e, n)
      BY <1>2, <1>3, <2>2 DEF Link, LinkFirst, LinkAfter, ListType, Stops, Inv, Linked, Node
    <2> QED  BY <1>1, <2>1, <2>2
  <1>12. /\ fd' \in [Node -> Fd \cup {-1}] /\ mask' \in [Event -> SUBSET Flags]
         /\ faults' \in 0..MaxFaults
    BY <1>1, <1>2 DEF Inv, TypeOK, Flags, EventLoopAssumption
  <1>13. TypeOK' /\ Serving'
    BY <1>1, <1>2, <1>5, <1>8, <1>11, <1>12 DEF Inv, TypeOK, Serving, loop
  <1> QED  BY <1>6, <1>7, <1>9, <1>10, <1>13 DEF Inv

(* The others. *)

LEMMA OtherStep ==
  ASSUME EventLoopAssumption, Inv, NEW n \in Fd, OpenFd(n) \/ CloseFd(n) \/ Ready(n)
  PROVE  Inv'
  <1>1. UNCHANGED <<live, fd, mask, list, epoll, loop, faults>>
    BY DEF OpenFd, CloseFd, Ready
  <1>2. ListParts'
    BY <1>1, SameList DEF Inv, ListParts
  <1>3. EpollBacked'
    BY <1>1 DEF Inv, EpollBacked, OpenFd, CloseFd, Ready, list
  <1>4. BatchLive'
    BY <1>1, SameBatch DEF Inv, list, loop, TypeOK
  <1>5. TypeOK' /\ Serving'
    BY <1>1 DEF Inv, OpenFd, CloseFd, Ready, TypeOK, Serving, list, loop, Open
  <1> QED  BY <1>2, <1>3, <1>4, <1>5 DEF Inv, ListParts

LEMMA StutterStep == ASSUME EventLoopAssumption, Inv, UNCHANGED vars PROVE Inv'
  <1>1. ListParts'
    BY SameList DEF Inv, ListParts, vars
  <1>2. EpollBacked'
    BY SameEpoll DEF Inv, vars, kernel
  <1>3. BatchLive'
    BY SameBatch DEF Inv, vars, list, kernel, loop, TypeOK
  <1>4. TypeOK' /\ Serving'
    BY DEF Inv, vars, TypeOK, Serving, list, kernel, loop
  <1> QED  BY <1>1, <1>2, <1>3, <1>4 DEF Inv, ListParts

LEMMA NextInv == EventLoopAssumption /\ Inv /\ [Next]_vars => Inv'
  BY TopStep, WaitStep, ProcessStep, BatchDoneStep, BeatStep, ConsumeStep, ReturnStep,
     UpdateStep, CloseOwnStep, DelOwnStep, AddStep, OtherStep, StutterStep
  DEF Next, Running

LEMMA InvAlways == Spec => []Inv
  BY InitInv, NextInv, EventLoopAssumption, PTL DEF Spec

(* Every variable has its type. *)
THEOREM TypeCorrect == Spec => []TypeOK
  <1>1. Inv => TypeOK
    BY DEF Inv
  <1> QED  BY <1>1, InvAlways, PTL

(* The list stays linked, sorted and counted. *)
THEOREM ListSound == Spec => []Linked
  <1>1. Inv => Linked
    BY DEF Inv
  <1> QED  BY <1>1, InvAlways, PTL

(* The kernel never hands back an event that was deleted, no handler invalidates what is
   left of the batch, and the loop never ends for want of events.            *)
THEOREM LoopStaysSafe == Spec => []LoopSafe
  <1> DEFINE Both == Inv /\ NeverEmpty
  <1>1. EventLoopAssumption /\ Init => Both
    BY InitInv DEF Init, NeverEmpty
  <1>2. EventLoopAssumption /\ Both /\ [Next]_vars => Both'
    <2> SUFFICES ASSUME EventLoopAssumption, Both, [Next]_vars PROVE Both'  OBVIOUS
    <2>1. Inv'
      BY NextInv
    <2>2. size # 0
      <3>1. IsFiniteSet(queued) /\ queued # {}
        BY FS_Subset DEF Inv, TypeOK, PipeKept, EventLoopAssumption
      <3>2. Cardinality(queued) # 0
        BY <3>1, FS_EmptySet
      <3> QED  BY <3>2 DEF Inv, Linked
    <2>3. NeverEmpty'
      BY <2>2 DEF NeverEmpty, Next, Running, Top, Wait, Process, BatchDone, Beat, Consume, CloseOwn,
                  DelOwn, DeleteEvent, Return, Update, Ask, UpdateFd, OpenFd, CloseFd, Ready, Add,
                  NewEvent, AddFd, CtlFails, loop, vars
    <2> QED  BY <2>1, <2>3
  <1>3. Both => LoopSafe
    BY DEF Inv, LoopSafe
  <1> QED  BY <1>1, <1>2, <1>3, EventLoopAssumption, PTL DEF Spec

(* Every step of the loop, of a handler and of the others is one that EventSet
   allows, or changes nothing of it.                                         *)
THEOREM Implements == Spec => ImplementsEventSet
  <1> DEFINE W == [n \in Fd |-> epoll[n].ptr]
             D == {fd[batch[i].ptr] : i \in 1..Len(batch)}
             Same == UNCHANGED <<W, D, cur>>
  <1>1. EventLoopAssumption /\ Init => Abstract!Init
    <2> SUFFICES ASSUME EventLoopAssumption, Init PROVE Abstract!Init  OBVIOUS
    <2>1. 0 \in Fd /\ Pipe \in Event /\ W = [k \in Fd |-> IF k = 0 THEN Pipe ELSE NULL]
      BY DEF Init, EventLoopAssumption, Fd, NotRegistered
    <2>2. D = {} /\ cur = NULL
      BY DEF Init
    <2> QED  BY <2>1, <2>2 DEF Abstract!Init
  <1>2. EventLoopAssumption /\ Inv /\ [Next]_vars => [Abstract!Next]_(Abstract!vars)
    <2> SUFFICES ASSUME EventLoopAssumption, Inv, [Next]_vars
                 PROVE  Abstract!Next \/ UNCHANGED Abstract!vars
      OBVIOUS
    <2>a. Same => UNCHANGED Abstract!vars
      BY DEF Abstract!vars
    <2>b. \A i \in 1..Len(batch) :
             LET e == batch[i].ptr IN e \in queued /\ e # cur /\ fd[e] \in Fd /\ W[fd[e]] = e
      BY DEF Inv, BatchLive, Shape
    <2>c. \A n \in Fd : W[n] # NULL => fd[W[n]] = n /\ W[n] \in queued
      BY DEF Inv, EpollBacked
    <2>d. \A x, y \in queued : fd[x] = fd[y] => x = y
      BY DEF Inv, Linked
    <2>1. CASE Top \/ BatchDone \/ Beat \/ Consume \/ UNCHANGED vars
      <3>1. UNCHANGED <<epoll, fd, batch, cur>>
        BY <2>1 DEF Top, BatchDone, Beat, Consume, vars, kernel, loop
      <3> QED  BY <3>1, <2>a
    <2>2. CASE Wait
      <3>1. UNCHANGED <<epoll, fd, cur>> /\ cur = NULL /\ batch = <<>> /\ Inv'
        BY <2>2, WaitStep DEF Wait, kernel, Inv, Serving
      <3>2. D = {} /\ W' = W
        BY <3>1
      <3>3. \A i \in 1..Len(batch)' : fd[batch'[i].ptr] \in Fd /\ W[fd[batch'[i].ptr]] # NULL
        <4>1. \A i \in 1..Len(batch)' : /\ batch'[i].ptr \in queued'
                                        /\ epoll'[fd'[batch'[i].ptr]].ptr = batch'[i].ptr
          BY <3>1 DEF Inv, BatchLive
        <4>2. \A x \in queued' : fd'[x] \in Fd /\ x # NULL
          BY <3>1 DEF Inv, Shape, TypeOK, EventLoopAssumption
        <4> QED  BY <3>1, <4>1, <4>2
      <3>4. D' \subseteq {n \in Fd : W[n] # NULL}
        BY <3>1, <3>3
      <3>5. Abstract!Round
        BY <3>1, <3>2, <3>4 DEF Abstract!Round
      <3> QED  BY <3>5 DEF Abstract!Next
    <2>3. CASE Process
      <3> DEFINE e == Head(batch).ptr
      <3>1. /\ batch # <<>> /\ batch \in Seq(Entry) /\ batch' = Tail(batch) /\ e = batch[1].ptr
            /\ UNCHANGED <<epoll, fd>> /\ cur = NULL /\ cur' \in {e, NULL} /\ 1 \in 1..Len(batch)
        BY <2>3 DEF Process, kernel, Inv, Serving, TypeOK
      <3>2. /\ Len(batch') = Len(batch) - 1 /\ Len(batch) \in Nat \ {0}
            /\ \A i \in 1..Len(batch') : batch'[i] = batch[i + 1] /\ i + 1 \in 1..Len(batch)
        BY <3>1
      <3>3. fd[e] \in D /\ fd[e] \in Fd /\ W[fd[e]] = e
        BY <2>b, <3>1
      <3>4. D' = D \ {fd[e]}
        <4>1. \A i, j \in 1..Len(batch) : fd[batch[i].ptr] = fd[batch[j].ptr] => i = j
          BY <2>b DEF Inv, BatchLive
        <4>2. \A i \in 1..Len(batch') : fd'[batch'[i].ptr] \in D /\ fd'[batch'[i].ptr] # fd[e]
          BY <3>1, <3>2, <4>1
        <4>3. \A i \in 1..Len(batch) : i # 1 => i - 1 \in 1..Len(batch') /\ batch'[i - 1] = batch[i]
          BY <3>2
        <4>4. \A n \in D : n # fd[e] => n \in D'
          <5> SUFFICES ASSUME NEW i \in 1..Len(batch), fd[batch[i].ptr] # fd[e]
                       PROVE  fd[batch[i].ptr] \in D'
            OBVIOUS
          <5>1. i # 1
            BY <3>1
          <5> QED  BY <3>1, <4>3, <5>1
        <4> QED  BY <4>2, <4>4
      <3>5. W' = W
        BY <3>1
      <3>6. PICK k \in Fd : k = fd[e]
        BY <3>3
      <3>7. Abstract!Serve(k)
        BY <3>1, <3>3, <3>4, <3>5, <3>6 DEF Abstract!Serve
      <3> QED  BY <3>7 DEF Abstract!Next
    <2>4. CASE Return
      <3>1. W' = W /\ D' = D /\ cur' = NULL
        BY <2>4 DEF Return, kernel
      <3> QED  BY <3>1 DEF Abstract!Next, Abstract!Return
    <2>5. CASE CloseOwn
      <3>1. /\ cur \in queued /\ cur # NULL /\ fd[cur] \in Fd /\ cur' = cur
            /\ UNCHANGED <<fd, batch>> /\ epoll' = [epoll EXCEPT ![fd[cur]] = NotRegistered]
            /\ epoll \in [Fd -> [ptr : Event \cup {NULL}, mask : SUBSET Kinds]]
        BY <2>5 DEF CloseOwn, Inv, Serving, Shape, list, TypeOK
      <3>2. W' = [n \in Fd |-> IF W[n] = cur THEN NULL ELSE W[n]]
        <4>1. \A n \in Fd : epoll'[n].ptr = IF epoll[n].ptr = cur THEN NULL ELSE epoll[n].ptr
          <5>1. NotRegistered.ptr = NULL
            BY DEF NotRegistered
          <5>2. epoll'[fd[cur]].ptr = NULL /\ \A n \in Fd : n # fd[cur] => epoll'[n] = epoll[n]
            BY <3>1, <5>1
          <5> QED  BY <3>1, <5>2, <2>c, <2>d
        <4> QED  BY <4>1
      <3>3. D' = D
        BY <3>1
      <3>4. Abstract!Unwatch
        BY <3>1, <3>2, <3>3 DEF Abstract!Unwatch
      <3> QED  BY <3>4 DEF Abstract!Next
    <2>6. CASE DelOwn
      <3>1. /\ cur \in queued /\ cur # NULL /\ fd[cur] \in Fd /\ cur' = NULL /\ batch' = batch
            /\ fd' = [fd EXCEPT ![cur] = -1] /\ fd \in [Node -> Fd \cup {-1}] /\ queued \subseteq Node
            /\ \/ epoll' = [epoll EXCEPT ![fd[cur]] = NotRegistered]
               \/ epoll' = epoll /\ epoll[fd[cur]].ptr = NULL
            /\ epoll \in [Fd -> [ptr : Event \cup {NULL}, mask : SUBSET Kinds]]
        BY <2>6 DEF DelOwn, DeleteEvent, DelFd, Inv, Serving, Shape, TypeOK, Node
      <3>2. W' = [n \in Fd |-> IF W[n] = cur THEN NULL ELSE W[n]]
        <4>1. \A n \in Fd : epoll'[n].ptr = IF epoll[n].ptr = cur THEN NULL ELSE epoll[n].ptr
          <5>1. NotRegistered.ptr = NULL
            BY DEF NotRegistered
          <5>2. epoll'[fd[cur]].ptr = NULL /\ \A n \in Fd : n # fd[cur] => epoll'[n] = epoll[n]
            BY <3>1, <5>1
          <5> QED  BY <3>1, <5>2, <2>c, <2>d
        <4> QED  BY <4>1
      <3>3. D' = D
        <4>1. \A i \in 1..Len(batch) : fd'[batch'[i].ptr] = fd[batch[i].ptr]
          BY <3>1, <2>b
        <4> QED  BY <3>1, <4>1
      <3>4. Abstract!Unwatch
        BY <3>1, <3>2, <3>3 DEF Abstract!Unwatch
      <3> QED  BY <3>4 DEF Abstract!Next
    <2>7. ASSUME NEW m \in Masks, Update(m) PROVE Same
      <3>1. UNCHANGED <<fd, batch, cur>> /\ cur # NULL
        BY <2>7 DEF Update, Ask, UpdateFd, CtlFails, loop
      <3>2. /\ fd[cur] \in Fd /\ epoll \in [Fd -> [ptr : Event \cup {NULL}, mask : SUBSET Kinds]]
            /\ (epoll' = [epoll EXCEPT ![fd[cur]].mask = Wanted(m)] \/ epoll' = epoll)
        BY <2>7, <3>1 DEF Inv, Serving, Shape, TypeOK, Update, Ask, UpdateFd, CtlFails
      <3>3. \A n \in Fd : epoll'[n].ptr = epoll[n].ptr
        BY <3>2
      <3> QED  BY <3>1, <3>3
    <2>8. ASSUME NEW n \in Fd, OpenFd(n) \/ CloseFd(n) \/ Ready(n) PROVE Same
      BY <2>8 DEF OpenFd, CloseFd, Ready, loop
    <2>9. ASSUME NEW n \in Fd, NEW m \in Masks, Add(n, m)
          PROVE  Same \/ Abstract!Next
      <3>1. PICK e \in Event \ live :
              /\ fd' = [fd EXCEPT ![e] = n]
              /\ \/ UNCHANGED epoll
                 \/ epoll' = [epoll EXCEPT ![n] = [ptr |-> e, mask |-> Wanted(m)]]
        BY <2>9 DEF Add, NewEvent, AddFd, CtlFails
      <3>2. /\ UNCHANGED <<batch, cur>> /\ epoll[n].ptr = NULL /\ e \notin queued
            /\ fd \in [Node -> Fd \cup {-1}] /\ queued \subseteq Node /\ e \in Node
            /\ epoll \in [Fd -> [ptr : Event \cup {NULL}, mask : SUBSET Kinds]]
        BY <2>9 DEF Add, NewEvent, AddFd, CtlFails, loop, Inv, TypeOK, Node
      <3>3. D' = D
        <4>1. \A i \in 1..Len(batch) : fd'[batch'[i].ptr] = fd[batch[i].ptr]
          BY <3>1, <3>2, <2>b
        <4> QED  BY <3>2, <4>1
      <3>4. CASE UNCHANGED epoll
        BY <3>2, <3>3, <3>4
      <3>5. CASE epoll' = [epoll EXCEPT ![n] = [ptr |-> e, mask |-> Wanted(m)]]
        <4>1. W' = [W EXCEPT ![n] = e]
          BY <3>2, <3>5
        <4>2. W[n] = NULL /\ \A k \in Fd : W[k] # e
          BY <3>2, <2>c, EventLoopAssumption DEF EventLoopAssumption
        <4>3. Abstract!Watch(n, e)
          BY <3>2, <3>3, <4>1, <4>2 DEF Abstract!Watch
        <4> QED  BY <4>3 DEF Abstract!Next
      <3> QED  BY <3>1, <3>4, <3>5
    <2> QED  BY <2>a, <2>1, <2>2, <2>3, <2>4, <2>5, <2>6, <2>7, <2>8, <2>9 DEF Next, Running
  <1> QED  BY <1>1, <1>2, InvAlways, EventLoopAssumption, PTL DEF Spec, Abstract!Spec, ImplementsEventSet

(* ListIsEpoll without its last part, which follows from the first. *)
Mirrored ==
    /\ \A e \in queued : epoll[fd[e]].ptr = e \/ (pc = "closed" /\ e = cur)
    /\ \A n \in Fd : epoll[n].ptr # NULL => epoll[n].mask = Wanted(mask[epoll[n].ptr])

Watched == faults = MaxFaults => Mirrored

(* What a walk of the list can find equal to n is a queued event with that descriptor. *)
LEMMA EqualIsQueued ==
  ASSUME Inv, NEW n \in Fd, EqualFd(n)
  PROVE  \E e \in queued : fd[e] = n
  <1>1. CASE head # End /\ fd[head] = n
    BY <1>1 DEF Inv, Linked
  <1>2. ASSUME NEW p \in Event, Stops(p, n), fd[next[p]] = n
        PROVE  \E e \in queued : fd[e] = n
    <2>1. next[p] \in queued \cup {End} /\ fd[End] = -1 /\ n # -1
      BY <1>2 DEF Stops, Inv, Linked, Shape, Fd
    <2> QED  BY <1>2, <2>1
  <1> QED  BY <1>1, <1>2 DEF EqualFd

LEMMA WatchedIsListIsEpoll == EventLoopAssumption /\ Inv /\ Watched => ListIsEpoll
  <1> SUFFICES ASSUME EventLoopAssumption, Inv, Mirrored, pc # "closed",
                      NEW n \in file, epoll[n].ptr = NULL, EqualFd(n)
               PROVE  FALSE
    BY DEF Watched, Mirrored, ListIsEpoll
  <1>1. n \in Fd
    BY DEF Inv, TypeOK
  <1>2. PICK e \in queued : fd[e] = n
    BY <1>1, EqualIsQueued
  <1>3. epoll[fd[e]].ptr = e /\ e # NULL
    BY <1>2 DEF Mirrored, Inv, TypeOK, EventLoopAssumption
  <1> QED  BY <1>2, <1>3

(* No failure has ever been undone. *)
LEMMA FaultsFall ==
  ASSUME EventLoopAssumption, Inv, [Next]_vars, faults' = MaxFaults
  PROVE  faults = MaxFaults
  <1>1. faults' = faults \/ faults' = faults - 1
    BY DEF Next, Running, Top, Wait, Process, BatchDone, Beat, Consume, CloseOwn, DelOwn, Return,
           Update, OpenFd, CloseFd, Ready, Add, CtlFails, vars
  <1> QED  BY <1>1 DEF Inv, TypeOK, EventLoopAssumption

(* The steps that touch neither the list nor the epoll set. *)
LEMMA SameMirror ==
  ASSUME EventLoopAssumption, Inv, Mirrored, UNCHANGED <<queued, fd, mask, epoll>>,
         pc # "closed" \/ UNCHANGED <<pc, cur>>
  PROVE  Mirrored'
  BY DEF Mirrored

LEMMA AddMirrors ==
  ASSUME EventLoopAssumption, Inv, Mirrored, NEW n \in Fd, NEW m \in Masks, Add(n, m),
         faults' = MaxFaults, faults = MaxFaults
  PROVE  Mirrored'
  <1>1. pc = "handler" /\ epoll[n].ptr = NULL /\ UNCHANGED loop
    BY DEF Add, InHandler
  <1>2. \A e \in queued : epoll[fd[e]].ptr = e /\ e # NULL /\ fd[e] \in Fd
    BY <1>1 DEF Mirrored, Inv, Shape, TypeOK, EventLoopAssumption
  <1>3. ~EqualFd(n)
    BY <1>1, <1>2, EqualIsQueued
  <1>4. PICK e \in Event \ live :
          /\ fd' = [fd EXCEPT ![e] = n]
          /\ mask' = [mask EXCEPT ![e] = m]
          /\ queued' = queued \cup {e}
          /\ \/ epoll' = [epoll EXCEPT ![n] = [ptr |-> e, mask |-> Wanted(m)]]
             \/ faults' = faults - 1
    BY <1>3 DEF Add, NewEvent, Link, AddFd, CtlFails
  <1>5. faults \in Int /\ faults' # faults - 1
    BY DEF EventLoopAssumption
  <1>6. epoll' = [epoll EXCEPT ![n] = [ptr |-> e, mask |-> Wanted(m)]]
    BY <1>4, <1>5
  <1>7. /\ e \notin queued /\ e \in Node /\ e # NULL
        /\ fd'[e] = n /\ \A x \in queued : fd'[x] = fd[x]
        /\ mask'[e] = m /\ \A x \in queued : mask'[x] = mask[x]
    BY <1>4 DEF Inv, TypeOK, Node, EventLoopAssumption
  <1>8. /\ epoll'[n].ptr = e /\ epoll'[n].mask = Wanted(m)
        /\ \A k \in Fd \ {n} : epoll'[k] = epoll[k]
    BY <1>6 DEF Inv, TypeOK
  <1>9. \A x \in queued' : epoll'[fd'[x]].ptr = x
    <2>1. \A x \in queued : fd[x] # n
      BY <1>1, <1>2
    <2> QED  BY <1>2, <1>4, <1>7, <1>8, <2>1
  <1>10. \A k \in Fd : epoll'[k].ptr # NULL => epoll'[k].mask = Wanted(mask'[epoll'[k].ptr])
    <2>1. \A k \in Fd \ {n} : epoll[k].ptr # NULL =>
             epoll[k].ptr \in queued /\ epoll[k].mask = Wanted(mask[epoll[k].ptr])
      BY DEF Mirrored, Inv, EpollBacked
    <2> QED  BY <1>7, <1>8, <2>1
  <1> QED  BY <1>9, <1>10 DEF Mirrored

LEMMA UpdateMirrors ==
  ASSUME EventLoopAssumption, Inv, Mirrored, NEW m \in Masks, Update(m),
         faults' = MaxFaults, faults = MaxFaults
  PROVE  Mirrored'
  <1>1. /\ pc = "handler" /\ cur \in queued /\ cur \in Event /\ cur # NULL /\ fd[cur] \in Fd
        /\ UNCHANGED <<fd, queued, pc, cur>>
        /\ mask' = [mask EXCEPT ![cur] = m]
    BY DEF Update, InHandler, Ask, Inv, Serving, Shape, TypeOK, list, loop
  <1>2. faults' # faults - 1
    BY DEF EventLoopAssumption
  <1>3. epoll' = [epoll EXCEPT ![fd[cur]].mask = Wanted(m)]
    BY <1>2 DEF Update, UpdateFd, CtlFails
  <1>4. /\ \A n \in Fd : epoll'[n].ptr = epoll[n].ptr
        /\ epoll'[fd[cur]].mask = Wanted(m)
        /\ \A n \in Fd \ {fd[cur]} : epoll'[n].mask = epoll[n].mask
    BY <1>1, <1>3 DEF Inv, TypeOK
  <1>5. \A e \in queued' : epoll'[fd'[e]].ptr = e
    BY <1>1, <1>4 DEF Mirrored, Inv, Shape
  <1>6. \A n \in Fd : epoll'[n].ptr # NULL => epoll'[n].mask = Wanted(mask'[epoll'[n].ptr])
    <2>1. mask'[cur] = m /\ \A e \in Event \ {cur} : mask'[e] = mask[e]
      BY <1>1 DEF Inv, TypeOK
    <2>2. epoll[fd[cur]].ptr = cur
      BY <1>1 DEF Mirrored
    <2>3. \A n \in Fd \ {fd[cur]} : epoll[n].ptr # NULL => epoll[n].ptr \in Event \ {cur}
      BY DEF Inv, EpollBacked, TypeOK
    <2>4. \A n \in Fd : epoll[n].ptr # NULL => epoll[n].mask = Wanted(mask[epoll[n].ptr])
      BY DEF Mirrored
    <2> QED  BY <1>4, <2>1, <2>2, <2>3, <2>4
  <1> QED  BY <1>5, <1>6 DEF Mirrored

LEMMA CloseOwnMirrors ==
  ASSUME EventLoopAssumption, Inv, Mirrored, CloseOwn
  PROVE  Mirrored'
  <1>1. /\ pc = "handler" /\ cur \in queued /\ fd[cur] \in Fd /\ pc' = "closed"
        /\ UNCHANGED <<fd, mask, queued, cur>>
        /\ epoll' = [epoll EXCEPT ![fd[cur]] = NotRegistered]
    BY DEF CloseOwn, InHandler, Inv, Serving, Shape, list
  <1>2. epoll'[fd[cur]].ptr = NULL /\ \A n \in Fd \ {fd[cur]} : epoll'[n] = epoll[n]
    BY <1>1 DEF Inv, TypeOK, NotRegistered
  <1>3. \A e \in queued \ {cur} : epoll[fd[e]].ptr = e /\ fd[e] \in Fd \ {fd[cur]}
    BY <1>1 DEF Mirrored, Inv, Shape, Linked
  <1> QED  BY <1>1, <1>2, <1>3 DEF Mirrored

LEMMA DelOwnMirrors ==
  ASSUME EventLoopAssumption, Inv, Mirrored, DelOwn
  PROVE  Mirrored'
  <1>1. /\ cur \in queued /\ cur \in Event /\ cur \in Node /\ fd[cur] \in Fd
        /\ fd' = [fd EXCEPT ![cur] = -1] /\ mask' = [mask EXCEPT ![cur] = {}]
        /\ queued' = queued \ {cur} /\ pc' = "handler"
    BY DEF DelOwn, DeleteEvent, Unlink, Inv, Serving, Shape, TypeOK, Node
  <1>2. epoll'[fd[cur]].ptr = NULL /\ \A n \in Fd \ {fd[cur]} : epoll'[n] = epoll[n]
    <2>1. \/ epoll' = [epoll EXCEPT ![fd[cur]] = NotRegistered]
          \/ epoll' = epoll /\ epoll[fd[cur]].ptr = NULL
      BY DEF DelOwn, DelFd
    <2> QED  BY <1>1, <2>1 DEF Inv, TypeOK, NotRegistered
  <1>3. \A e \in queued' : fd'[e] = fd[e] /\ epoll[fd[e]].ptr = e /\ fd[e] \in Fd \ {fd[cur]}
    BY <1>1 DEF Mirrored, Inv, Shape, Linked, TypeOK, Node
  <1>4. \A n \in Fd \ {fd[cur]} : epoll[n].ptr # NULL =>
           /\ epoll[n].mask = Wanted(mask[epoll[n].ptr])
           /\ mask'[epoll[n].ptr] = mask[epoll[n].ptr]
    BY <1>1 DEF Mirrored, Inv, EpollBacked, TypeOK
  <1> QED  BY <1>2, <1>3, <1>4 DEF Mirrored

LEMMA NextWatched == EventLoopAssumption /\ Inv /\ Watched /\ [Next]_vars => Watched'
  <1> SUFFICES ASSUME EventLoopAssumption, Inv, Watched, [Next]_vars, faults' = MaxFaults
               PROVE  Mirrored'
    BY DEF Watched
  <1>1. faults = MaxFaults /\ Mirrored
    BY FaultsFall DEF Watched
  <1>2. CASE Running
    <2>1. UNCHANGED <<queued, fd, mask, epoll>> /\ pc # "closed"
      BY <1>2 DEF Running, Top, Wait, Process, BatchDone, Beat, list, kernel
    <2> QED  BY <1>1, <2>1, SameMirror
  <1>3. CASE Consume \/ Return
    <2>1. UNCHANGED <<queued, fd, mask, epoll>> /\ pc # "closed"
      BY <1>3 DEF Consume, Return, InHandler, list, kernel
    <2> QED  BY <1>1, <2>1, SameMirror
  <1>4. ASSUME NEW n \in Fd, OpenFd(n) \/ CloseFd(n) \/ Ready(n)
        PROVE  Mirrored'
    <2>1. UNCHANGED <<queued, fd, mask, epoll, pc, cur>>
      BY <1>4 DEF OpenFd, CloseFd, Ready, list, loop
    <2> QED  BY <1>1, <2>1, SameMirror
  <1>5. CASE UNCHANGED vars
    <2>1. UNCHANGED <<queued, fd, mask, epoll, pc, cur>>
      BY <1>5 DEF vars, list, kernel, loop
    <2> QED  BY <1>1, <2>1, SameMirror
  <1> QED
    BY <1>1, <1>2, <1>3, <1>4, <1>5, AddMirrors, UpdateMirrors, CloseOwnMirrors, DelOwnMirrors
    DEF Next

(* While no epoll_ctl fails, what is in the list is in the epoll set and watched
   for what its object says, so CEpollMonitor::add finds every open descriptor
   that has no event free in both.                                           *)
THEOREM KeepsListInEpoll == Spec => []ListIsEpoll
  <1>1. EventLoopAssumption /\ Init => Watched
    <2> SUFFICES ASSUME EventLoopAssumption, Init PROVE Mirrored  BY DEF Watched
    <2>1. Pipe \in Event /\ 0 \in Fd /\ Wanted({"READ", "PERSIST"}) = {"in"}
      BY DEF EventLoopAssumption, Fd, Wanted
    <2> QED  BY <2>1 DEF Init, Mirrored, NotRegistered, Node
  <1> QED
    BY <1>1, NextWatched, WatchedIsListIsEpoll, InvAlways, EventLoopAssumption, PTL DEF Spec

=============================================================================

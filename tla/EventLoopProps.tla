--------------------------- MODULE EventLoopProps ---------------------------
(* What is claimed of EventLoop. *)
EXTENDS EventLoop

(* The list is sound whatever order events come and go in, failures included:
   it is doubly linked from the head to the sentinel, strictly descending by
   descriptor, misses no queued event, and _size counts it.  add walks it, del
   relinks both neighbours or the head.                                      *)
Linked ==
    /\ head \in queued \cup {End} /\ (head = End <=> queued = {})
    /\ prev[head] = NULL
    /\ \A e \in queued :
          /\ next[e] \in queued \cup {End} /\ fd[next[e]] < fd[e]
          /\ next[e] # End => prev[next[e]] = e
          /\ e # head => prev[e] \in queued /\ next[prev[e]] = e
          /\ fd[e] <= fd[head]
          /\ \A f \in queued : fd[f] < fd[e] => fd[f] <= fd[next[e]]
          /\ \A f \in queued : fd[f] = fd[e] => f = e
    /\ size = Cardinality(queued)

(* What the kernel will hand back is an event that is allocated, is in the list,
   and is for that very descriptor: del_fd and close take it out before delete
   frees it.                                                                 *)
EpollBacked ==
    \A n \in Fd : LET e == epoll[n].ptr IN
        e # NULL => e \in live /\ e \in queued /\ fd[e] = n /\ n \in file

(* As long as no epoll_ctl fails, the list and the epoll set hold the same
   events (but for one whose handler has closed it and is about to delete it),
   so an open descriptor without an event can always be added; and the kernel
   watches for what the event object says.                                   *)
ListIsEpoll ==
    faults = MaxFaults =>
        /\ \A e \in queued : epoll[fd[e]].ptr = e \/ (pc = "closed" /\ e = cur)
        /\ \A n \in Fd : LET e == epoll[n].ptr IN e # NULL => epoll[n].mask = Wanted(mask[e])
        /\ pc # "closed" => \A n \in file : epoll[n].ptr = NULL => ~EqualFd(n)

(* The pointers that one epoll_wait returned stay good until the loop has come
   to them, although the handlers in between delete events and their memory is
   given out again: each is still an event of the list, not the running one,
   registered for its descriptor, and none comes twice.                      *)
BatchLive ==
    /\ \A i \in 1..Len(batch) :
          /\ batch[i].ptr \in queued \ {cur}
          /\ epoll[fd[batch[i].ptr]].ptr = batch[i].ptr
    /\ \A i, j \in 1..Len(batch) : batch[i].ptr = batch[j].ptr => i = j

(* monitor_once never finds the list empty, which would end the process with
   exit(-1) (epoll_monitor.cpp:356): the pipe's event is never deleted.      *)
NeverEmpty == pc # "exited"

(* A handler may delete, add and close what it likes: what the kernel and the batch point
   at is alive, and the loop goes on.                                        *)
LoopSafe == EpollBacked /\ BatchLive /\ NeverEmpty

(* While nothing fails, a descriptor that can make progress and is watched is
   served in the end, or loses its event: update, which changes what is asked
   for, tells the kernel as well.                                            *)
ReadyServed ==
    \A n \in Fd :
        n \in ready /\ epoll[n].ptr # NULL ~>
            \/ faults # MaxFaults \/ n \notin ready \/ epoll[n].ptr = NULL
            \/ pc = "handler" /\ cur = epoll[n].ptr

(* The heart beat comes again and again, whatever the handlers do. *)
Beats == []<><<beats' = 0 /\ pc = "beat" /\ beats = BeatCount>>_vars

(* Neither what is ready nor the heart beat starves. *)
LoopServes == ReadyServed /\ Beats

(* The loop keeps what EventSet promises to the handlers. *)
Abstract == INSTANCE EventSet WITH
    watched <- [n \in Fd |-> epoll[n].ptr],
    due     <- {fd[batch[i].ptr] : i \in 1..Len(batch)},
    serving <- cur
ImplementsEventSet == Abstract!Spec
=============================================================================

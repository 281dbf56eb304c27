-------------------------- MODULE MemoryBlockingQueue --------------------------
(***************************************************************************)
(* fishnet/hlib/memory_blocking_queue.hpp: a blocking queue bounded by the     *)
(* memory of its elements.  An element is the record of its number and its     *)
(* size.  A critical section is one step; "in" and "wait" are as in             *)
(* BoundedBlockingQueue.  Each notify_one() wakes one of several waiting         *)
(* producers, whose elements need different amounts of room.                   *)
(***************************************************************************)
EXTENDS Naturals, Sequences, FiniteSets

CONSTANTS
  Producers, Consumers,
  Sizes,             \* what memorySize() of an element may be
  max_memory_size_,
  SizeMax,           \* one more than the largest size_t
  MovedSize(_),      \* memorySize() of an element of a size, once moved from
  MaxItems           \* bound on the elements

VARIABLES
  queue_, cur_memory_size_,
  pc,           \* per thread
  want,         \* per producer: the size of the element it has
  put, taken    \* history

memVars == <<queue_, cur_memory_size_, pc, want, put, taken>>

Threads    == Producers \cup Consumers
Waiting(S) == {t \in S : pc[t] = "wait"}
Notified(S) == IF Waiting(S) = {} THEN {{}} ELSE {{t} : t \in Waiting(S)}
Leave(t, W) == pc' = [u \in Threads |-> IF u = t THEN "out" ELSE IF u \in W THEN "in" ELSE pc[u]]

MemInit ==
  /\ queue_ = <<>> /\ cur_memory_size_ = 0 /\ put = <<>> /\ taken = <<>>
  /\ pc = [t \in Threads |-> "out"] /\ want = [p \in Producers |-> 0]

(* enqueue() of an element that could fit; it returns false at once for others. *)
Enqueue(p) ==
  /\ pc[p] = "out"
  /\ \E s \in Sizes :
       /\ s <= max_memory_size_
       /\ pc' = [pc EXCEPT ![p] = "in"] /\ want' = [want EXCEPT ![p] = s]
  /\ UNCHANGED <<queue_, cur_memory_size_, put, taken>>

Fits(p) == (cur_memory_size_ + want[p]) % SizeMax <= max_memory_size_

(* The element is moved into the queue, then asked for its size. *)
EnqueuePush(p) ==
  /\ pc[p] = "in" /\ Fits(p) /\ Len(put) < MaxItems
  /\ LET x == [n |-> Len(put) + 1, size |-> want[p]]
     IN  queue_' = Append(queue_, x) /\ put' = Append(put, x)
  /\ cur_memory_size_' = (cur_memory_size_ + MovedSize(want[p])) % SizeMax
  /\ want' = [want EXCEPT ![p] = 0]
  /\ \E W \in Notified(Consumers) : Leave(p, W)
  /\ UNCHANGED taken

(* not_full_.notify_one() of dequeue() *)
NotifyNotFull == Notified(Producers)

Dequeue(c) ==
  /\ pc[c] = "in" /\ queue_ # <<>>
  /\ taken' = Append(taken, Head(queue_)) /\ queue_' = Tail(queue_)
  /\ cur_memory_size_' = (cur_memory_size_ + SizeMax - Head(queue_).size) % SizeMax
  /\ \E W \in NotifyNotFull : Leave(c, W)
  /\ UNCHANGED <<want, put>>

Call(c) ==
  /\ pc[c] = "out" /\ pc' = [pc EXCEPT ![c] = "in"]
  /\ UNCHANGED <<queue_, cur_memory_size_, want, put, taken>>

(* Either wait *)
Wait(t) ==
  /\ pc[t] = "in" /\ (IF t \in Producers THEN ~Fits(t) ELSE queue_ = <<>>)
  /\ pc' = [pc EXCEPT ![t] = "wait"]
  /\ UNCHANGED <<queue_, cur_memory_size_, want, put, taken>>

MemNext ==
  \/ \E p \in Producers : Enqueue(p) \/ EnqueuePush(p)
  \/ \E c \in Consumers : Call(c) \/ Dequeue(c)
  \/ \E t \in Threads : Wait(t)

-----------------------------------------------------------------------------
(* The sizes of the elements of q add up to total: t[i] is that of the first i. *)
AddUp(q, total) ==
  \E t \in [0..Len(q) -> 0..total] :
    t[0] = 0 /\ t[Len(q)] = total /\ \A i \in 1..Len(q) : t[i] = t[i - 1] + q[i].size

(* Elements leave in the order they came, each once; what is in the queue takes no
   more than max_memory_size_, and cur_memory_size_ says how much. *)
Fifo ==
  /\ put = taken \o queue_
  /\ AddUp(queue_, cur_memory_size_) /\ cur_memory_size_ <= max_memory_size_

(* No wakeup is lost for good: a consumer waits only if as many consumers are on
   their way as there are elements; a producer waits while its element would fit
   only if an element is left in the queue, whose removal notifies again, or a
   producer is on its way. *)
NoLostWakeup ==
  /\ Waiting(Consumers) # {} => Len(queue_) <= Cardinality({c \in Consumers : pc[c] = "in"})
  /\ Waiting(Producers) # {} => queue_ # <<>> \/ \E p \in Producers : pc[p] = "in"
=============================================================================

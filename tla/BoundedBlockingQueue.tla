------------------------- MODULE BoundedBlockingQueue -------------------------
(***************************************************************************)
(* fishnet/base/bounded_blocking_queue.h and, with Bounded = FALSE,            *)
(* fishnet/base/blocking_queue.h: put() and take() with a mutex and the        *)
(* conditions notFull_ and notEmpty_.  A critical section is one step.  A      *)
(* thread inside a call either wants the mutex ("in") or waits on the          *)
(* condition of its kind ("wait"); a thread woken up wants the mutex again,    *)
(* and others may get it first.                                                *)
(***************************************************************************)
EXTENDS Naturals, Sequences, FiniteSets

CONSTANTS
  Producers, Consumers,
  Bounded, maxSize,
  MaxItems          \* bound on the items put

ASSUME QueueConstants ==
  /\ IsFiniteSet(Producers) /\ IsFiniteSet(Consumers) /\ Producers \cap Consumers = {}
  /\ Bounded \in BOOLEAN /\ maxSize \in Nat \ {0} /\ MaxItems \in Nat

VARIABLES
  queue_,
  pc,           \* per thread: "out", "in" or "wait"
  put, taken    \* history: items put and taken, in order

vars == <<queue_, pc, put, taken>>

Threads == Producers \cup Consumers

Init ==
  /\ queue_ = <<>> /\ put = <<>> /\ taken = <<>>
  /\ pc = [t \in Threads |-> "out"]

In(S)      == {t \in S : pc[t] = "in"}
Waiting(S) == {t \in S : pc[t] = "wait"}

(* Condition::notify(): one of the waiting threads S, if there is one. *)
Notified(S) == IF Waiting(S) = {} THEN {{}} ELSE {{t} : t \in Waiting(S)}

NotifyNotEmpty_IfEmpty == IF queue_ = <<>> THEN Notified(Consumers) ELSE {{}}

(* notEmpty_.notify() of put() and notFull_.notify() of take() *)
NotifyNotEmpty == Notified(Consumers)

NotifyNotFull == Notified(Producers)

(* Thread t leaves the call and the threads W wake up. *)
Leave(t, W) == pc' = [u \in Threads |-> IF u = t THEN "out" ELSE IF u \in W THEN "in" ELSE pc[u]]

(* A thread calls put() or take(). *)
Call(t) ==
  /\ pc[t] = "out"
  /\ pc' = [pc EXCEPT ![t] = "in"]
  /\ UNCHANGED <<queue_, put, taken>>

Full_Late == Bounded /\ Len(queue_) > maxSize

Full == Bounded /\ Len(queue_) >= maxSize

Pushed(x) == Append(queue_, x)

Put(p) ==
  /\ pc[p] = "in" /\ ~Full
  /\ Len(put) < MaxItems
  /\ queue_' = Pushed(Len(put) + 1)
  /\ put' = Append(put, Len(put) + 1)
  /\ \E W \in NotifyNotEmpty : Leave(p, W)
  /\ UNCHANGED taken

Take(c) ==
  /\ pc[c] = "in" /\ queue_ # <<>>
  /\ taken' = Append(taken, Head(queue_))
  /\ queue_' = Tail(queue_)
  /\ \E W \in NotifyNotFull : Leave(c, W)
  /\ UNCHANGED put

(* The wait() of put() and of take() *)
Wait(t) ==
  /\ pc[t] = "in" /\ (IF t \in Producers THEN Full ELSE queue_ = <<>>)
  /\ pc' = [pc EXCEPT ![t] = "wait"]
  /\ UNCHANGED <<queue_, put, taken>>

(* pthread_cond_wait() may return without a reason. *)
SpuriousWakeup(t) ==
  /\ pc[t] = "wait"
  /\ pc' = [pc EXCEPT ![t] = "in"]
  /\ UNCHANGED <<queue_, put, taken>>

Next ==
  \/ \E t \in Threads : Call(t) \/ Wait(t) \/ SpuriousWakeup(t)
  \/ \E p \in Producers : Put(p)
  \/ \E c \in Consumers : Take(c)

Spec == Init /\ [][Next]_vars

-----------------------------------------------------------------------------
TypeOK ==
  /\ queue_ \in Seq(Nat) /\ put \in Seq(Nat) /\ taken \in Seq(Nat)
  /\ pc \in [Threads -> {"out", "in", "wait"}]
  /\ Bounded => Len(queue_) <= maxSize

(* Items leave in the order they came, each exactly once. *)
Fifo == put = taken \o queue_

(* No wakeup is lost: while a consumer waits there are at least as many consumers
   on their way to the mutex as there are items, and while a producer waits at
   least as many producers as there are free places.  So nobody sleeps on an item
   or a place that no other thread is about to take, though notify() wakes one
   thread and the thread it wakes may be overtaken. *)
NoLostWakeup ==
  /\ Waiting(Consumers) # {} => Len(queue_) <= Cardinality(In(Consumers))
  /\ Bounded /\ Waiting(Producers) # {} => maxSize <= Len(queue_) + Cardinality(In(Producers))
=============================================================================

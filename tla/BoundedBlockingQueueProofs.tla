---------------------- MODULE BoundedBlockingQueueProofs ----------------------
(***************************************************************************)
(* BoundedBlockingQueue is correct for any finite sets of producers and       *)
(* consumers, any capacity and any number of items.                            *)
(***************************************************************************)
EXTENDS BoundedBlockingQueue, FiniteSetTheorems, TLAPS

(* The inductive invariant is the conjunction of what is proved: NoLostWakeup needs
   the types for its arithmetic and nothing else. *)
IInv == TypeOK /\ Fifo /\ NoLostWakeup

(* In(S) and Waiting(S) are finite, disjoint subsets of a set of threads. *)
LEMMA FiniteParts ==
  ASSUME NEW S, IsFiniteSet(S)
  PROVE  /\ IsFiniteSet(In(S)) /\ Cardinality(In(S)) \in Nat
         /\ In(S) \cap Waiting(S) = {}
<1>1. In(S) \subseteq S
  BY DEF In
<1>2. IsFiniteSet(In(S))
  BY <1>1, FS_Subset
<1>3. Cardinality(In(S)) \in Nat
  BY <1>2, FS_CardinalityType
<1>4. In(S) \cap Waiting(S) = {}
  BY DEF In, Waiting
<1> QED
  BY <1>2, <1>3, <1>4

(* One more thread that wants the mutex: the count grows by one. *)
LEMMA OneMore ==
  ASSUME NEW A, IsFiniteSet(A), NEW t, t \notin A
  PROVE  Cardinality(A \cup {t}) = Cardinality(A) + 1
BY FS_AddElement

(* A set of threads that want the mutex with one thread gone. *)
LEMMA OneLess ==
  ASSUME NEW A, IsFiniteSet(A), NEW t \in A
  PROVE  Cardinality(A \ {t}) = Cardinality(A) - 1
BY FS_RemoveElement

(* put() appends at one end, take() removes at the other. *)
LEMMA AppendToConcat ==
  ASSUME NEW s \in Seq(Nat), NEW q \in Seq(Nat), NEW x \in Nat
  PROVE  Append(s \o q, x) = s \o Append(q, x)
BY SMTT(40)

(* take() moves the head of queue_ to the end of what was taken. *)
LEMMA MoveHead ==
  ASSUME NEW s \in Seq(Nat), NEW q \in Seq(Nat), q # <<>>
  PROVE  /\ s \o q = Append(s, Head(q)) \o Tail(q)
         /\ Tail(q) \in Seq(Nat) /\ Head(q) \in Nat /\ Len(Tail(q)) = Len(q) - 1 /\ Len(q) \in Nat \ {0}
BY SMTT(40)

(* An empty queue that nobody uses satisfies the inductive invariant. *)
LEMMA InitIInv == Init => IInv
<1> SUFFICES ASSUME Init PROVE IInv
  OBVIOUS
<1> USE QueueConstants
<1>1. TypeOK
  BY DEF Init, TypeOK
<1>2. Fifo
  BY DEF Init, Fifo
<1>3. Waiting(Consumers) = {} /\ Waiting(Producers) = {}
  BY DEF Init, Waiting, Threads
<1> QED
  BY <1>1, <1>2, <1>3 DEF IInv, NoLostWakeup

(* What a notification does to the threads of the kind it is meant for. *)
LEMMA NotifyCounts ==
  ASSUME TypeOK, NEW S \in {Producers, Consumers}, NEW t \in Threads, t \notin S,
         NEW W \in Notified(S), Leave(t, W)
  PROVE  Waiting(S)' # {} => Waiting(S) # {} /\ Cardinality(In(S)') = Cardinality(In(S)) + 1
<1> USE QueueConstants DEF Threads
<1> SUFFICES ASSUME Waiting(S)' # {} PROVE Waiting(S) # {} /\ Cardinality(In(S)') = Cardinality(In(S)) + 1
  OBVIOUS
<1>1. S \subseteq Threads /\ IsFiniteSet(S)
  OBVIOUS
<1>2. Waiting(S) # {}
  BY <1>1 DEF Waiting, Leave, TypeOK
<1>3. PICK u \in Waiting(S) : W = {u}
  BY <1>2 DEF Notified
<1>4. In(S)' = In(S) \cup {u} /\ u \notin In(S)
  BY <1>1, <1>3 DEF In, Waiting, Leave, TypeOK
<1>5. IsFiniteSet(In(S))
  BY <1>1, FiniteParts
<1> QED
  BY <1>2, <1>4, <1>5, OneMore

(* The thread that leaves its call is one less of its own kind. *)
LEMMA LeaveCounts ==
  ASSUME TypeOK, NEW S \in {Producers, Consumers}, NEW t \in S, pc[t] = "in",
         NEW W, W \cap S = {}, Leave(t, W)
  PROVE  Waiting(S)' = Waiting(S) /\ Cardinality(In(S)') = Cardinality(In(S)) - 1
<1> USE QueueConstants DEF Threads
<1>1. S \subseteq Threads /\ IsFiniteSet(S)
  OBVIOUS
<1>2. In(S)' = In(S) \ {t} /\ t \in In(S)
  BY <1>1 DEF In, Leave, TypeOK
<1>3. Waiting(S)' = Waiting(S)
  BY <1>1 DEF Waiting, Leave, TypeOK
<1>4. IsFiniteSet(In(S))
  BY <1>1, FiniteParts
<1> QED
  BY <1>2, <1>3, <1>4, OneLess

(* put(): one item more, one producer less in the call, one consumer woken. *)
LEMMA PutStep ==
  ASSUME IInv, NEW p \in Producers, Put(p)
  PROVE  IInv'
<1> USE QueueConstants DEF Threads
<1> DEFINE x == Len(put) + 1
<1>0. TypeOK /\ Fifo /\ NoLostWakeup
  BY DEF IInv
<1>1. x \in Nat /\ Len(queue_) \in Nat
  BY <1>0 DEF TypeOK
<1>2. queue_' = Append(queue_, x) /\ put' = Append(put, x) /\ taken' = taken
  BY DEF Put, Pushed
<1>3. PICK W \in Notified(Consumers) : Leave(p, W)
  BY DEF Put, NotifyNotEmpty
<1>4. W \subseteq Consumers
  BY <1>3 DEF Notified, Waiting
<1>5. Len(queue_') = Len(queue_) + 1
  BY <1>0, <1>1, <1>2 DEF TypeOK
<1>6. TypeOK'
  <2>1. queue_' \in Seq(Nat) /\ put' \in Seq(Nat) /\ taken' \in Seq(Nat)
    BY <1>0, <1>1, <1>2 DEF TypeOK
  <2>2. pc' \in [Threads -> {"out", "in", "wait"}]
    BY <1>0, <1>3 DEF TypeOK, Leave
  <2>3. Bounded => Len(queue_') <= maxSize
    BY <1>1, <1>5 DEF Put, Full
  <2> QED
    BY <2>1, <2>2, <2>3 DEF TypeOK
<1>7. Fifo'
  <2>1. Append(taken \o queue_, x) = taken \o Append(queue_, x)
    <3>1. taken \in Seq(Nat) /\ queue_ \in Seq(Nat) /\ x \in Nat
      BY <1>0, <1>1 DEF TypeOK
    <3> QED
      BY <3>1, AppendToConcat
  <2> QED
    BY <2>1, <1>0, <1>2 DEF Fifo
<1>8. NoLostWakeup'
  <2>1. Waiting(Consumers)' # {} =>
          Waiting(Consumers) # {} /\ Cardinality(In(Consumers)') = Cardinality(In(Consumers)) + 1
    <3>1. p \in Threads /\ p \notin Consumers
      OBVIOUS
    <3> QED
      BY <3>1, <1>0, <1>3, NotifyCounts
  <2>2. Waiting(Producers)' = Waiting(Producers)
          /\ Cardinality(In(Producers)') = Cardinality(In(Producers)) - 1
    <3>1. W \cap Producers = {} /\ pc[p] = "in"
      BY <1>4 DEF Put
    <3> QED
      BY <3>1, <1>0, <1>3, LeaveCounts
  <2>3. Cardinality(In(Consumers)) \in Nat /\ Cardinality(In(Producers)) \in Nat
    BY FiniteParts
  <2>4. Waiting(Consumers)' # {} => Len(queue_') <= Cardinality(In(Consumers)')
    BY <2>1, <2>3, <1>0, <1>1, <1>5 DEF NoLostWakeup
  <2>5. Bounded /\ Waiting(Producers)' # {} => maxSize <= Len(queue_') + Cardinality(In(Producers)')
    BY <2>2, <2>3, <1>0, <1>1, <1>5 DEF NoLostWakeup
  <2> QED
    BY <2>4, <2>5 DEF NoLostWakeup, In, Waiting
<1> QED
  BY <1>6, <1>7, <1>8 DEF IInv

(* take(): one item less, one consumer less in the call, one producer woken. *)
LEMMA TakeStep ==
  ASSUME IInv, NEW c \in Consumers, Take(c)
  PROVE  IInv'
<1> USE QueueConstants DEF Threads
<1>0. TypeOK /\ Fifo /\ NoLostWakeup
  BY DEF IInv
<1>1. queue_ # <<>> /\ queue_' = Tail(queue_) /\ taken' = Append(taken, Head(queue_)) /\ put' = put
  BY DEF Take
<1>2. /\ taken \o queue_ = Append(taken, Head(queue_)) \o Tail(queue_)
      /\ Tail(queue_) \in Seq(Nat) /\ Head(queue_) \in Nat
      /\ Len(Tail(queue_)) = Len(queue_) - 1 /\ Len(queue_) \in Nat \ {0}
  BY <1>0, <1>1, MoveHead DEF TypeOK
<1>3. PICK W \in Notified(Producers) : Leave(c, W)
  BY DEF Take, NotifyNotFull
<1>4. W \subseteq Producers
  BY <1>3 DEF Notified, Waiting
<1>5. Len(queue_') = Len(queue_) - 1
  BY <1>1, <1>2
<1>6. TypeOK'
  <2>1. queue_' \in Seq(Nat) /\ put' \in Seq(Nat) /\ taken' \in Seq(Nat)
    BY <1>0, <1>1, <1>2 DEF TypeOK
  <2>2. pc' \in [Threads -> {"out", "in", "wait"}]
    BY <1>0, <1>3 DEF TypeOK, Leave
  <2>3. Bounded => Len(queue_') <= maxSize
    BY <1>0, <1>2, <1>5 DEF TypeOK
  <2> QED
    BY <2>1, <2>2, <2>3 DEF TypeOK
<1>7. Fifo'
  BY <1>0, <1>1, <1>2 DEF Fifo
<1>8. NoLostWakeup'
  <2>1. Waiting(Producers)' # {} =>
          Waiting(Producers) # {} /\ Cardinality(In(Producers)') = Cardinality(In(Producers)) + 1
    <3>1. c \in Threads /\ c \notin Producers
      OBVIOUS
    <3> QED
      BY <3>1, <1>0, <1>3, NotifyCounts
  <2>2. Waiting(Consumers)' = Waiting(Consumers)
          /\ Cardinality(In(Consumers)') = Cardinality(In(Consumers)) - 1
    <3>1. W \cap Consumers = {} /\ pc[c] = "in"
      BY <1>4 DEF Take
    <3> QED
      BY <3>1, <1>0, <1>3, LeaveCounts
  <2>3. Cardinality(In(Consumers)) \in Nat /\ Cardinality(In(Producers)) \in Nat
    BY FiniteParts
  <2>4. Waiting(Consumers)' # {} => Len(queue_') <= Cardinality(In(Consumers)')
    BY <2>2, <2>3, <1>0, <1>2, <1>5 DEF NoLostWakeup
  <2>5. Bounded /\ Waiting(Producers)' # {} => maxSize <= Len(queue_') + Cardinality(In(Producers)')
    BY <2>1, <2>3, <1>0, <1>2, <1>5 DEF NoLostWakeup
  <2> QED
    BY <2>4, <2>5 DEF NoLostWakeup, In, Waiting
<1> QED
  BY <1>6, <1>7, <1>8 DEF IInv

(* The steps that only move one thread between "out", "in" and "wait". *)
LEMMA MoveStep ==
  ASSUME IInv, NEW t \in Threads, Call(t) \/ Wait(t) \/ SpuriousWakeup(t)
  PROVE  IInv'
<1> USE QueueConstants DEF Threads
<1>0. TypeOK /\ Fifo /\ NoLostWakeup
  BY DEF IInv
<1>1. /\ queue_' = queue_ /\ put' = put /\ taken' = taken
      /\ pc' \in [Threads -> {"out", "in", "wait"}]
  BY <1>0 DEF Call, Wait, SpuriousWakeup, TypeOK
<1>2. TypeOK' /\ Fifo'
  BY <1>0, <1>1 DEF TypeOK, Fifo
<1>3. Len(queue_) \in Nat
  BY <1>0 DEF TypeOK
<1>4. /\ IsFiniteSet(In(Producers)) /\ IsFiniteSet(In(Consumers))
      /\ Cardinality(In(Producers)) \in Nat /\ Cardinality(In(Consumers)) \in Nat
  BY FiniteParts
<1>5. CASE Call(t) \/ SpuriousWakeup(t)
  <2>1. ASSUME NEW S \in {Producers, Consumers}
        PROVE  /\ Waiting(S)' # {} => Waiting(S) # {}
               /\ Cardinality(In(S)') >= Cardinality(In(S))
    <3>1. t \notin In(S)
      BY <1>5 DEF Call, SpuriousWakeup, In
    <3>2. Waiting(S)' \subseteq Waiting(S)
      BY <1>0, <1>5 DEF Call, SpuriousWakeup, Waiting, TypeOK
    <3>3. In(S)' = IF t \in S THEN In(S) \cup {t} ELSE In(S)
      BY <1>0, <1>5 DEF Call, SpuriousWakeup, In, TypeOK
    <3>4. Cardinality(In(S) \cup {t}) = Cardinality(In(S)) + 1
      BY <3>1, <1>4, OneMore
    <3> QED
      BY <3>2, <3>3, <3>4, <1>4
  <2>2. Cardinality(In(Producers)') >= Cardinality(In(Producers))
          /\ (Waiting(Producers)' # {} => Waiting(Producers) # {})
    BY <2>1
  <2>3. Cardinality(In(Consumers)') >= Cardinality(In(Consumers))
          /\ (Waiting(Consumers)' # {} => Waiting(Consumers) # {})
    BY <2>1
  <2>4. Cardinality(In(Producers)') \in Nat /\ Cardinality(In(Consumers)') \in Nat
    <3>1. IsFiniteSet(In(Producers)') /\ IsFiniteSet(In(Consumers)')
      <4>1. In(Producers)' \subseteq Producers /\ In(Consumers)' \subseteq Consumers
        BY DEF In
      <4> QED
        BY <4>1, FS_Subset
    <3> QED
      BY <3>1, FS_CardinalityType
  <2>5. NoLostWakeup'
    BY <2>2, <2>3, <2>4, <1>0, <1>1, <1>3, <1>4 DEF NoLostWakeup
  <2> QED
    BY <2>5, <1>2 DEF IInv
<1>6. CASE Wait(t) /\ t \in Producers
  <2>1. Full /\ In(Consumers)' = In(Consumers) /\ Waiting(Consumers)' = Waiting(Consumers)
    BY <1>0, <1>6 DEF Wait, In, Waiting, TypeOK
  <2>2. IsFiniteSet(In(Producers)')
    <3>1. In(Producers)' \subseteq Producers
      BY DEF In
    <3> QED
      BY <3>1, FS_Subset
  <2>3. Cardinality(In(Producers)') \in Nat
    BY <2>2, FS_CardinalityType
  <2>4. Bounded => maxSize <= Len(queue_') + Cardinality(In(Producers)')
    BY <2>1, <2>3, <1>1, <1>3 DEF Full
  <2>5. Waiting(Consumers)' # {} => Len(queue_') <= Cardinality(In(Consumers)')
    BY <2>1, <1>0, <1>1 DEF NoLostWakeup
  <2> QED
    BY <2>4, <2>5, <1>2 DEF IInv, NoLostWakeup
<1>7. CASE Wait(t) /\ t \in Consumers
  <2>1. queue_ = <<>> /\ In(Producers)' = In(Producers) /\ Waiting(Producers)' = Waiting(Producers)
    BY <1>0, <1>7 DEF Wait, In, Waiting, TypeOK
  <2>2. IsFiniteSet(In(Consumers)')
    <3>1. In(Consumers)' \subseteq Consumers
      BY DEF In
    <3> QED
      BY <3>1, FS_Subset
  <2>3. Cardinality(In(Consumers)') \in Nat
    BY <2>2, FS_CardinalityType
  <2>4. Len(queue_') <= Cardinality(In(Consumers)')
    BY <2>1, <2>3, <1>1
  <2>5. Bounded /\ Waiting(Producers)' # {} => maxSize <= Len(queue_') + Cardinality(In(Producers)')
    BY <2>1, <1>0, <1>1 DEF NoLostWakeup
  <2> QED
    BY <2>4, <2>5, <1>2 DEF IInv, NoLostWakeup
<1> QED
  BY <1>5, <1>6, <1>7

(* Types and capacity, FIFO order with exactly-once delivery, and the absence of
   lost wakeups hold in every reachable state of the queue. *)
THEOREM QueueCorrect == Spec => [](TypeOK /\ Fifo /\ NoLostWakeup)
<1>1. Init => IInv
  BY InitIInv
<1>2. IInv /\ [Next]_vars => IInv'
  <2> SUFFICES ASSUME IInv, [Next]_vars PROVE IInv'
    OBVIOUS
  <2>1. CASE Next
    BY <2>1, PutStep, TakeStep, MoveStep DEF Next
  <2>2. CASE UNCHANGED vars
    BY <2>2 DEF vars, IInv, TypeOK, Fifo, NoLostWakeup, In, Waiting
  <2> QED
    BY <2>1, <2>2
<1>3. IInv => TypeOK /\ Fifo /\ NoLostWakeup
  BY DEF IInv
<1> QED
  BY <1>1, <1>2, <1>3, PTL DEF Spec

(* In particular nobody sleeps on work: if a consumer waits while there are items,
   another consumer is on its way to the mutex to take one, and likewise a producer
   while there is room. *)
THEOREM NobodySleepsOnWork ==
  Spec => [](/\ Waiting(Consumers) # {} /\ queue_ # <<>> => In(Consumers) # {}
             /\ Bounded /\ Waiting(Producers) # {} /\ ~Full => In(Producers) # {})
<1>1. TypeOK /\ Fifo /\ NoLostWakeup =>
        /\ Waiting(Consumers) # {} /\ queue_ # <<>> => In(Consumers) # {}
        /\ Bounded /\ Waiting(Producers) # {} /\ ~Full => In(Producers) # {}
  <2> SUFFICES ASSUME TypeOK, NoLostWakeup
               PROVE  /\ Waiting(Consumers) # {} /\ queue_ # <<>> => In(Consumers) # {}
                      /\ Bounded /\ Waiting(Producers) # {} /\ ~Full => In(Producers) # {}
    OBVIOUS
  <2>1. Len(queue_) \in Nat /\ (queue_ # <<>> => Len(queue_) > 0)
    BY DEF TypeOK
  <2>2. Cardinality({}) = 0
    BY FS_EmptySet
  <2>3. Waiting(Consumers) # {} /\ queue_ # <<>> => In(Consumers) # {}
    BY <2>1, <2>2 DEF NoLostWakeup
  <2>4. Bounded /\ Waiting(Producers) # {} /\ ~Full => In(Producers) # {}
    <3> SUFFICES ASSUME Bounded, Waiting(Producers) # {}, In(Producers) = {} PROVE Full
      OBVIOUS
    <3>1. maxSize <= Len(queue_) + 0
      BY <2>2 DEF NoLostWakeup
    <3>2. maxSize \in Nat
      BY QueueConstants
    <3> QED
      BY <3>1, <3>2, <2>1 DEF Full
  <2> QED
    BY <2>3, <2>4
<1> QED
  BY <1>1, QueueCorrect, PTL
=============================================================================

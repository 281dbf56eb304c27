-------------------------- MODULE TimerQueueProofs ----------------------------
(***************************************************************************)
(* TLAPS proofs about TimerQueue.tla, for any set of callers, any number of  *)
(* timers and any addresses the allocator hands out: the inductive invariant, *)
(* the facts its proof rests on (the earliest timer, the functors other        *)
(* threads queue, types, numbers, ownership stated entry by entry), and what   *)
(* follows from it.                                                            *)
(***************************************************************************)
EXTENDS TimerQueue, TLAPS

AddingOf(s) == {s[i].id : i \in {j \in 1..Len(s) : s[j].op = "add"}}

(* A used address holds a numbered Timer, and no number is given out twice. *)
Numbered ==
  /\ \A a \in Addrs : heap[a] = Free \/ heap[a].sequence \in 1..numCreated
  /\ \A id \in ids \cup cancelled \cup Adding : id[2] <= numCreated
  /\ \A id \in Adding : id[2] > 0
  /\ \A i \in 1..Len(tasks) : tasks[i].id[2] <= numCreated
  /\ \A c \in Callers : returning[c][2] <= numCreated

(* addTimerInLoop() is queued once for a Timer. *)
AddedOnce ==
  \A i, j \in 1..Len(tasks) : tasks[i].op = "add" /\ tasks[j].op = "add" /\ tasks[i].id = tasks[j].id => i = j

(* Expired timers are out of timers_ only while handleRead() is under way. *)
Phase ==
  /\ callingExpiredTimers_ <=> pc \in {"batch", "callback"}
  /\ ~callingExpiredTimers_ => expired = {}
  /\ callingExpiredTimers_ => batchNow > 0

(* A cancelled timer is not scheduled, and while it is in the hands of handleRead()
   reset() will find it among cancelingTimers_. *)
CancelInv ==
  \A id \in cancelled \ missed :
    /\ id \notin activeTimers_ \cup Adding
    /\ \A e \in expired : TimerId(e[2]) = id => id \in cancelingTimers_

ArmedFor(e) == timerfd_ # 0 /\ timerfd_ <= Armed(e[1])

(* Outside handleRead() the timerfd is armed for every timer; inside, for those with
   an invalid expiration, which the end of reset() passes over. *)
ArmInv ==
  /\ pc = "loop" => \A e \in timers_ : ArmedFor(e)
  /\ pc \in {"batch", "callback"} => \A e \in timers_ : e[1] = 0 => ArmedFor(e)

IInv == TypeOK /\ SameTimers /\ OwnedOnce /\ Numbered /\ AddedOnce /\ Phase /\ CancelInv /\ ArmInv

-----------------------------------------------------------------------------
(* A sequence has a length and its elements. *)
LEMMA Elements ==
  ASSUME NEW S, NEW q \in Seq(S)
  PROVE  Len(q) \in Nat /\ \A i \in 1..Len(q) : q[i] \in S
OBVIOUS

(* Append() puts an element after the others. *)
LEMMA Appended ==
  ASSUME NEW S, NEW q \in Seq(S), NEW e \in S
  PROVE  /\ Append(q, e) \in Seq(S) /\ Len(Append(q, e)) = Len(q) + 1
         /\ \A i \in 1..Len(q) : Append(q, e)[i] = q[i]
         /\ Append(q, e)[Len(q) + 1] = e
OBVIOUS

(* Head() is the first element and Tail() the others. *)
LEMMA HeadAndTail ==
  ASSUME NEW S, NEW q \in Seq(S), q # <<>>
  PROVE  /\ Tail(q) \in Seq(S) /\ Len(Tail(q)) = Len(q) - 1 /\ Len(q) > 0
         /\ Head(q) \in S /\ Head(q) = q[1]
         /\ \A i \in 1..(Len(q) - 1) : Tail(q)[i] = q[i + 1]
OBVIOUS

(* Every nonempty set of naturals has a least element.  It is proved at the end, from
   the theorems on well-founded orders. *)
LeastExists == \A T \in SUBSET Nat : T # {} => \E m \in T : \A n \in T : m <= n

(* std::set::begin(): a set of timers that is not empty has an earliest entry. *)
LEMMA HasEarliest ==
  ASSUME LeastExists, NEW S \in SUBSET (Expirations \X Addrs), S # {}
  PROVE  Earliest(S) \in S /\ \A f \in S : Before(Earliest(S), f)
<1>0. \A e \in S : e[1] \in Nat /\ e[2] \in Nat
  <2>1. Expirations \subseteq Nat /\ Addrs \subseteq Nat
    BY TimerConstants DEF Expirations
  <2> QED BY <2>1, Zenon
<1> DEFINE T1 == {e[1] : e \in S}
<1>1. PICK m \in T1 : \A n \in T1 : m <= n
  <2>1. T1 \in SUBSET Nat /\ T1 # {}
    BY <1>0
  <2> QED BY <2>1, Zenon DEF LeastExists
<1> DEFINE T2 == {e[2] : e \in {f \in S : f[1] = m}}
<1>2. PICK k \in T2 : \A n \in T2 : k <= n
  <2>1. T2 \in SUBSET Nat /\ T2 # {}
    BY <1>0, <1>1
  <2> QED BY <2>1, Zenon DEF LeastExists
<1>3. PICK e \in S : e[1] = m /\ e[2] = k
  BY <1>2
<1>4. \A f \in S : Before(e, f)
  <2> TAKE f \in S
  <2>1. m <= f[1] /\ (f[1] = m => k <= f[2])
    BY <1>1, <1>2
  <2> QED BY <1>0, <1>3, <2>1 DEF Before
<1> QED BY <1>3, <1>4 DEF Earliest

(* howMuchTimeFromNow() keeps the order of expirations and never disarms. *)
LEMMA ArmedMonotonic ==
  ASSUME now \in 1..MaxTime, NEW s \in Expirations, NEW t \in Expirations, s <= t
  PROVE  Armed(s) \in Expirations /\ Armed(s) # 0 /\ Armed(s) <= Armed(t)
BY TimerConstants DEF Armed, Clip, Expirations

-----------------------------------------------------------------------------
(* The functors queued by other threads *)

(* Queueing a functor adds its Timer, if that is what the functor does. *)
LEMMA AddingAppend ==
  ASSUME NEW s \in Seq(Tasks), NEW t \in Tasks
  PROVE  AddingOf(Append(s, t)) = IF t.op = "add" THEN AddingOf(s) \cup {t.id} ELSE AddingOf(s)
<1> DEFINE n == Len(s)
           a == Append(s, t)
<1>1. /\ n \in Nat /\ Len(a) = n + 1 /\ \A i \in 1..n : a[i] = s[i]
      /\ a[n + 1] = t
  BY Appended, Elements
<1> HIDE DEF a, n
<1>2. 1..(n + 1) = (1..n) \cup {n + 1}
  BY <1>1
<1>3. AddingOf(a) = {a[i].id : i \in {j \in 1..n : s[j].op = "add"}} \cup (IF t.op = "add" THEN {t.id} ELSE {})
  BY <1>1, <1>2, Zenon DEF AddingOf
<1>4. {a[i].id : i \in {j \in 1..n : s[j].op = "add"}} = AddingOf(s)
  BY <1>1 DEF AddingOf, n
<1> QED BY <1>3, <1>4, Zenon DEF a

(* Running the first functor takes its Timer out, and no other. *)
LEMMA AddingTail ==
  ASSUME NEW s \in Seq(Tasks), s # <<>>,
         \A i, j \in 1..Len(s) : s[i].op = "add" /\ s[j].op = "add" /\ s[i].id = s[j].id => i = j
  PROVE  /\ Head(s) \in Tasks /\ Tail(s) \in Seq(Tasks)
         /\ Head(s).op # "add" => AddingOf(Tail(s)) = AddingOf(s)
         /\ Head(s).op = "add" => /\ AddingOf(Tail(s)) = AddingOf(s) \ {Head(s).id}
                                  /\ Head(s).id \in AddingOf(s)
         /\ \A i, j \in 1..Len(Tail(s)) :
              Tail(s)[i].op = "add" /\ Tail(s)[j].op = "add" /\ Tail(s)[i].id = Tail(s)[j].id => i = j
<1> DEFINE n == Len(s)
           t == Tail(s)
<1>1. /\ n \in Nat /\ n > 0 /\ Len(t) = n - 1 /\ \A i \in 1..(n - 1) : t[i] = s[i + 1]
      /\ Head(s) = s[1] /\ Head(s) \in Tasks /\ t \in Seq(Tasks)
  BY HeadAndTail, Elements
<1> HIDE DEF t, n
<1>2. \A x : x \in AddingOf(t) <=> \E i \in 1..n : i # 1 /\ s[i].op = "add" /\ x = s[i].id
  <2>1. \A x : x \in AddingOf(t) => \E i \in 1..n : i # 1 /\ s[i].op = "add" /\ x = s[i].id
    <3> TAKE x
    <3> SUFFICES ASSUME NEW k \in 1..(n - 1), t[k].op = "add", x = t[k].id
                 PROVE  \E i \in 1..n : i # 1 /\ s[i].op = "add" /\ x = s[i].id
      BY <1>1 DEF AddingOf
    <3>1. k + 1 \in 1..n /\ k + 1 # 1 /\ t[k] = s[k + 1]
      BY <1>1
    <3> QED BY <3>1
  <2>2. ASSUME NEW i \in 1..n, i # 1, s[i].op = "add" PROVE s[i].id \in AddingOf(t)
    <3>1. i - 1 \in 1..(n - 1) /\ t[i - 1] = s[i]
      BY <1>1, <2>2
    <3> QED BY <1>1, <2>2, <3>1 DEF AddingOf
  <2> QED BY <2>1, <2>2
<1>3. \A x : x \in AddingOf(s) <=> \E i \in 1..n : s[i].op = "add" /\ x = s[i].id
  BY DEF AddingOf, n
<1>4. 1 \in 1..n
  BY <1>1
<1>5. \A i, j \in 1..n : s[i].op = "add" /\ s[j].op = "add" /\ s[i].id = s[j].id => i = j
  BY DEF n
<1>6. Head(s).op # "add" => AddingOf(t) = AddingOf(s)
  <2>1. Head(s).op # "add" => \A x : x \in AddingOf(t) <=> x \in AddingOf(s)
    BY <1>1, <1>2, <1>3
  <2> QED BY <2>1, Zenon
<1>7. Head(s).op = "add" => AddingOf(t) = AddingOf(s) \ {Head(s).id} /\ Head(s).id \in AddingOf(s)
  <2> SUFFICES ASSUME Head(s).op = "add"
               PROVE  AddingOf(t) = AddingOf(s) \ {Head(s).id} /\ Head(s).id \in AddingOf(s)
    OBVIOUS
  <2>1. s[1].op = "add" /\ Head(s).id = s[1].id
    BY <1>1
  <2>2. Head(s).id \in AddingOf(s)
    BY <1>3, <1>4, <2>1
  <2>3. \A i \in 1..n : s[i].op = "add" => (i # 1 <=> s[i].id # s[1].id)
    BY <1>4, <1>5, <2>1
  <2>4. \A x : x \in AddingOf(t) <=> x \in AddingOf(s) /\ x # s[1].id
    BY <1>2, <1>3, <2>3
  <2> QED BY <2>1, <2>2, <2>4
<1>8. \A i, j \in 1..(n - 1) : t[i].op = "add" /\ t[j].op = "add" /\ t[i].id = t[j].id => i = j
  <2> TAKE i, j \in 1..(n - 1)
  <2>1. i + 1 \in 1..n /\ j + 1 \in 1..n /\ t[i] = s[i + 1] /\ t[j] = s[j + 1]
    BY <1>1
  <2>2. t[i].op = "add" /\ t[j].op = "add" /\ t[i].id = t[j].id => i + 1 = j + 1
    BY <1>5, <2>1
  <2> QED BY <1>1, <2>2
<1> QED BY <1>1, <1>6, <1>7, <1>8 DEF t

-----------------------------------------------------------------------------
(* Type correctness *)

Timers == [sequence : Seqs, expiration : Expirations, interval : Intervals \cup {0}]

(* The ranges of the constants, as the steps below use them. *)
LEMMA Ranges ==
  /\ Free \in Timers /\ 0 \in Expirations /\ 0 \in Seqs /\ MaxTimers \in Nat /\ MaxTime \in Nat \ {0}
  /\ Expirations \subseteq Nat /\ Seqs \subseteq Nat /\ Whens \subseteq Expirations
  /\ \A i \in Intervals \cup {0} : i \in Nat
  /\ \A t \in Expirations : t <= t
<1>1. \A i \in Intervals \cup {0} : i \in Nat
  <2> TAKE i \in Intervals \cup {0}
  <2>1. CASE i \in Intervals
    BY <2>1, TimerConstants
  <2>2. CASE i = 0
    BY <2>2
  <2> QED BY <2>1, <2>2
<1>2. \A t \in Expirations : t <= t
  BY TimerConstants DEF Expirations
<1> QED BY <1>1, <1>2, TimerConstants DEF Free, Timers, Expirations, Seqs

(* new Timer() *)
LEMMA NewTimerType ==
  ASSUME TypeOK, NEW a \in Addrs, NEW when \in Whens, NEW interval \in Intervals, NewTimer(a, when, interval)
  PROVE  /\ heap' \in [Addrs -> Timers] /\ numCreated' \in Seqs
         /\ numCreated + 1 \in Seqs /\ <<a, numCreated + 1>> \in Ids
<1>1. numCreated + 1 \in Seqs
  BY Ranges DEF TypeOK, NewTimer, Seqs
<1>2. when \in Expirations
  BY Ranges
<1> QED BY <1>1, <1>2 DEF TypeOK, NewTimer, Timers, Ids

(* addTimerInLoop() *)
LEMMA AddTimerInLoopType ==
  ASSUME TypeOK, NEW a \in Addrs, NEW when \in Expirations, NEW q \in Seqs, AddTimerInLoop(a, when, q)
  PROVE  /\ timers_' \in SUBSET (Expirations \X Addrs) /\ activeTimers_' \in SUBSET Ids
         /\ timerfd_' \in Expirations
<1>1. Armed(when) \in Expirations
  BY ArmedMonotonic, Ranges DEF TypeOK
<1> QED BY <1>1 DEF TypeOK, AddTimerInLoop, Ids

(* cancelInLoop() *)
LEMMA CancelInLoopType ==
  ASSUME TypeOK, NEW id \in Ids, CancelInLoop(id)
  PROVE  /\ timers_' \in SUBSET (Expirations \X Addrs) /\ activeTimers_' \in SUBSET Ids
         /\ heap' \in [Addrs -> Timers]
         /\ cancelingTimers_' \in SUBSET Ids /\ cancelled' \in SUBSET Ids /\ missed' \in SUBSET Ids
<1>1. heap \in [Addrs -> Timers] /\ id[1] \in Addrs
  BY DEF TypeOK, Timers, Ids
<1>2. cancelled' \in SUBSET Ids /\ missed' \in SUBSET Ids
  BY DEF TypeOK, CancelInLoop
<1>3. CASE id \in activeTimers_
  <2>1. heap' \in [Addrs -> Timers]
    BY <1>1, <1>3, Ranges DEF CancelInLoop
  <2> QED BY <1>2, <1>3, <2>1 DEF TypeOK, CancelInLoop
<1>4. CASE id \notin activeTimers_
  BY <1>1, <1>2, <1>4 DEF TypeOK, CancelInLoop, Canceling
<1> QED BY <1>3, <1>4

(* Every TimerId of an address is one. *)
LEMMA TimerIdType ==
  ASSUME TypeOK, NEW a \in Addrs
  PROVE  TimerId(a) \in Ids
BY DEF TypeOK, TimerId, Ids

(* The states of a new TimerQueue are typed. *)
LEMMA TypeInit == Init => TypeOK
<1> SUFFICES ASSUME Init PROVE TypeOK
  OBVIOUS
<1>1. heap \in [Addrs -> Timers]
  BY Ranges DEF Init
<1>2. now \in 1..MaxTime /\ batchNow \in 0..MaxTime /\ timerfd_ \in Expirations /\ numCreated \in Seqs
  BY Ranges DEF Init
<1>3. tasks \in Seq(Tasks) /\ returning \in [Callers -> Ids \cup {None}]
  BY DEF Init
<1> QED BY <1>1, <1>2, <1>3, Zenon DEF Init, TypeOK, Timers

(* Every step keeps the types. *)
LEMMA TypeStep ==
  ASSUME LeastExists
  PROVE  TypeOK /\ [Next]_vars => TypeOK'
<1> SUFFICES ASSUME TypeOK, [Next]_vars PROVE TypeOK'
  OBVIOUS
<1>0. heap \in [Addrs -> Timers] /\ now \in 1..MaxTime
  BY DEF TypeOK, Timers
<1>1. ASSUME NEW a \in Addrs, NEW when \in Whens, NEW interval \in Intervals, AddTimerHere(a, when, interval)
      PROVE  TypeOK'
  <2>1. NewTimer(a, when, interval) /\ AddTimerInLoop(a, when, numCreated + 1) /\ when \in Expirations
    BY <1>1, Ranges DEF AddTimerHere
  <2>2. /\ heap' \in [Addrs -> Timers] /\ numCreated' \in Seqs
        /\ numCreated + 1 \in Seqs /\ <<a, numCreated + 1>> \in Ids
    BY <2>1, NewTimerType
  <2>3. /\ timers_' \in SUBSET (Expirations \X Addrs) /\ activeTimers_' \in SUBSET Ids
        /\ timerfd_' \in Expirations
    BY <2>1, <2>2, AddTimerInLoopType
  <2> QED BY <1>1, <2>2, <2>3, Zenon DEF TypeOK, AddTimerHere, Timers
<1>2. ASSUME NEW c \in Callers, NEW a \in Addrs, NEW when \in Whens, NEW interval \in Intervals,
             AddTimerFrom(c, a, when, interval)
      PROVE  TypeOK'
  <2>1. /\ heap' \in [Addrs -> Timers] /\ numCreated' \in Seqs
        /\ numCreated + 1 \in Seqs /\ <<a, numCreated + 1>> \in Ids
    BY <1>2, NewTimerType DEF AddTimerFrom
  <2>2. [op |-> "add", id |-> <<a, numCreated + 1>>] \in Tasks
    BY <2>1 DEF Tasks
  <2>3. tasks' \in Seq(Tasks)
    BY <1>2, <2>2, Appended DEF AddTimerFrom, TypeOK
  <2>4. returning' \in [Callers -> Ids \cup {None}]
    BY <1>2, <2>1 DEF AddTimerFrom, TypeOK
  <2> QED BY <1>2, <2>1, <2>3, <2>4 DEF TypeOK, AddTimerFrom, loopVars, Timers
<1>3. ASSUME NEW c \in Callers, AddTimerReturn(c) PROVE TypeOK'
  <2>1. returning[c] \in Ids
    BY <1>3 DEF TypeOK, AddTimerReturn
  <2>2. PICK q \in {returning[c][2], heap[returning[c][1]].sequence} : ids' = ids \cup {<<returning[c][1], q>>}
    BY <1>3 DEF AddTimerReturn
  <2>3. <<returning[c][1], q>> \in Ids
    BY <1>0, <2>1 DEF Ids, Timers
  <2>4. returning' \in [Callers -> Ids \cup {None}]
    BY <1>3 DEF AddTimerReturn, TypeOK
  <2> QED BY <1>3, <2>2, <2>3, <2>4, Zenon DEF TypeOK, AddTimerReturn, loopVars
<1>4. ASSUME NEW id \in ids, CancelHere(id) PROVE TypeOK'
  <2>1. id \in Ids /\ CancelInLoop(id)
    BY <1>4 DEF TypeOK, CancelHere
  <2> QED BY <1>4, <2>1, CancelInLoopType DEF TypeOK, CancelHere, Timers
<1>5. ASSUME NEW c \in Callers, NEW id \in ids, CancelFrom(c, id) PROVE TypeOK'
  <2>1. [op |-> "cancel", id |-> id] \in Tasks
    BY DEF TypeOK, Tasks
  <2>2. tasks' \in Seq(Tasks)
    BY <1>5, <2>1, Appended DEF CancelFrom, TypeOK
  <2> QED BY <1>5, <2>2 DEF TypeOK, CancelFrom, loopVars
<1>6. CASE RunTask
  <2>1. /\ Head(tasks) \in Tasks /\ Tail(tasks) \in Seq(Tasks) /\ tasks' = Tail(tasks)
        /\ Head(tasks).id \in Ids
    BY <1>6, HeadAndTail DEF RunTask, TypeOK, Tasks
  <2>2. /\ heap[Head(tasks).id[1]].expiration \in Expirations
        /\ Head(tasks).id[1] \in Addrs /\ Head(tasks).id[2] \in Seqs
    BY <1>0, <2>1, Zenon DEF Ids, Timers
  <2>3. CASE Head(tasks).op = "add"
    <3>1. /\ AddTimerInLoop(Head(tasks).id[1], heap[Head(tasks).id[1]].expiration, Head(tasks).id[2])
          /\ UNCHANGED <<heap, cancelingTimers_, cancelled, missed>>
      BY <1>6, <2>3 DEF RunTask
    <3>2. /\ timers_' \in SUBSET (Expirations \X Addrs) /\ activeTimers_' \in SUBSET Ids
          /\ timerfd_' \in Expirations
      BY <2>2, <3>1, AddTimerInLoopType
    <3> QED BY <1>6, <2>1, <3>1, <3>2, Zenon DEF TypeOK, RunTask
  <2>4. CASE Head(tasks).op # "add"
    <3>1. CancelInLoop(Head(tasks).id) /\ timerfd_' = timerfd_
      BY <1>6, <2>4 DEF RunTask
    <3> QED BY <1>6, <2>1, <3>1, CancelInLoopType DEF TypeOK, RunTask, Timers
  <2> QED BY <2>3, <2>4
<1>7. CASE Poll
  BY <1>7 DEF TypeOK, Poll
<1>8. CASE HandleRead
  <2>1. expired' \subseteq timers_ /\ timers_' \subseteq timers_ /\ activeTimers_' \subseteq activeTimers_
        /\ toRun' = expired'
    BY <1>8 DEF HandleRead
  <2>2. timerfd_' \in Expirations /\ now \in 0..MaxTime
    BY <1>8, Ranges DEF HandleRead, TypeOK
  <2> QED BY <1>8, <2>1, <2>2, Zenon DEF TypeOK, HandleRead
<1>9. CASE RunTimer
  <2>1. Earliest(toRun) \in toRun
    BY <1>9, HasEarliest DEF TypeOK, RunTimer
  <2>2. Earliest(toRun)[2] \in Addrs
    BY <2>1 DEF TypeOK
  <2>3. current' \in Ids /\ toRun' \subseteq toRun
    BY <1>9, <2>2, TimerIdType DEF RunTimer
  <2> QED BY <1>9, <2>3 DEF TypeOK, RunTimer
<1>10. CASE EndCallback
  BY <1>10 DEF TypeOK, EndCallback
<1>11. CASE Reset
  <2> DEFINE restart == {e[2] : e \in Restarted}
  <2>1. restart \subseteq Addrs
    BY DEF Restarted, TypeOK
  <2>2. ASSUME NEW a \in Addrs PROVE NewExpiration(a) \in Expirations
    <3>1. heap[a].interval \in Nat
      <4>1. heap[a].interval \in Intervals \cup {0}
        BY <1>0 DEF Timers
      <4> QED BY <4>1, Ranges
    <3> QED BY <3>1, Ranges DEF NewExpiration, Clip, TypeOK, Expirations
  <2>3. ASSUME NEW a \in Addrs PROVE heap'[a] \in Timers
    BY <1>0, <1>11, <2>2, Ranges DEF Reset, Timers
  <2>4. heap' \in [Addrs -> Timers]
    BY <1>11, <2>3, Zenon DEF Reset
  <2>5. timers_' \in SUBSET (Expirations \X Addrs)
    BY <1>11, <2>1, <2>2 DEF Reset, TypeOK
  <2>6. activeTimers_' \in SUBSET Ids
    BY <1>11, <2>1, TimerIdType DEF Reset, TypeOK
  <2>7. timerfd_' \in Expirations
    <3>1. CASE timers_' # {}
      <4>1. Earliest(timers_')[1] \in Expirations
        BY <2>5, <3>1, HasEarliest
      <4> DEFINE t == Earliest(timers_')[1]
      <4>2. t \in Expirations /\ t <= t
        BY <4>1, Ranges, Zenon
      <4> HIDE DEF t
      <4>3. Armed(t) \in Expirations
        BY <1>0, <4>2, ArmedMonotonic
      <4> QED BY <1>11, <4>3 DEF Reset, Rearm, TypeOK, t
    <3>2. CASE timers_' = {}
      BY <1>11, <3>2 DEF Reset, Rearm, TypeOK
    <3> QED BY <3>1, <3>2
  <2> QED BY <1>11, <2>4, <2>5, <2>6, <2>7, Zenon DEF TypeOK, Reset, Timers
<1>12. CASE Destroy
  <2>1. heap' \in [Addrs -> Timers]
    BY <1>0, <1>12, Ranges DEF Destroy
  <2> QED BY <1>12, <2>1, Ranges, Zenon DEF TypeOK, Destroy, Timers
<1>13. CASE Tick
  BY <1>13, Ranges DEF TypeOK, Tick, loopVars
<1>14. CASE UNCHANGED vars
  BY <1>14 DEF TypeOK, vars, loopVars
<1> QED
  BY <1>1, <1>2, <1>3, <1>4, <1>5, <1>6, <1>7, <1>8, <1>9, <1>10, <1>11, <1>12, <1>13, <1>14
     DEF Next, UserCall, UserCancel, HandleTimers

-----------------------------------------------------------------------------
(* Ownership of the timers *)

(* SameTimers and OwnedOnce, entry by entry. *)
Owned(tm, act, h, ex, ad) ==
  /\ \A e \in tm : h[e[2]] # Free /\ h[e[2]].expiration = e[1] /\ <<e[2], h[e[2]].sequence>> \in act
  /\ \A id \in act : h[id[1]].sequence = id[2] /\ <<h[id[1]].expiration, id[1]>> \in tm
  /\ \A a \in Addrs : h[a] # Free => \/ <<h[a].expiration, a>> \in tm
                                     \/ <<h[a].expiration, a>> \in ex
                                     \/ <<a, h[a].sequence>> \in ad
  /\ \A e \in tm, f \in ex : e[2] # f[2]
  /\ \A e \in tm : <<e[2], h[e[2]].sequence>> \notin ad
  /\ \A e \in ex : <<e[2], h[e[2]].sequence>> \notin ad
  /\ \A e \in ex : h[e[2]] # Free /\ h[e[2]].expiration = e[1]
  /\ \A id \in ad : h[id[1]].sequence = id[2]

OwnedSets(tm, act, h, ex, ad) ==
  /\ act = {<<a, h[a].sequence>> : a \in {e[2] : e \in tm}}
  /\ \A e \in tm : h[e[2]] # Free /\ h[e[2]].expiration = e[1]
  /\ \A a \in Addrs : h[a] # Free => a \in {e[2] : e \in tm \cup ex} \/ <<a, h[a].sequence>> \in ad
  /\ {e[2] : e \in tm} \cap {e[2] : e \in ex} = {}
  /\ \A a \in {e[2] : e \in tm \cup ex} : <<a, h[a].sequence>> \notin ad
  /\ \A e \in ex : h[e[2]] # Free /\ h[e[2]].expiration = e[1]
  /\ \A id \in ad : h[id[1]].sequence = id[2]

(* Owned says what SameTimers and OwnedOnce say. *)
LEMMA OwnedForm ==
  ASSUME NEW tm \in SUBSET (Expirations \X Addrs), NEW act \in SUBSET Ids, NEW h,
         NEW ex \in SUBSET (Expirations \X Addrs), NEW ad
  PROVE  Owned(tm, act, h, ex, ad) <=> OwnedSets(tm, act, h, ex, ad)
<1>1. \A e \in tm \cup ex : e = <<e[1], e[2]>> /\ e[2] \in Addrs
  OBVIOUS
<1>2. \A id \in act : id = <<id[1], id[2]>> /\ id[1] \in Addrs
  BY DEF Ids
<1>3. ASSUME \A e \in tm : h[e[2]].expiration = e[1]
      PROVE  act = {<<a, h[a].sequence>> : a \in {e[2] : e \in tm}} <=>
               /\ \A e \in tm : <<e[2], h[e[2]].sequence>> \in act
               /\ \A id \in act : h[id[1]].sequence = id[2] /\ <<h[id[1]].expiration, id[1]>> \in tm
  <2>1. ASSUME act = {<<a, h[a].sequence>> : a \in {e[2] : e \in tm}}
        PROVE  /\ \A e \in tm : <<e[2], h[e[2]].sequence>> \in act
               /\ \A id \in act : h[id[1]].sequence = id[2] /\ <<h[id[1]].expiration, id[1]>> \in tm
    <3>1. \A e \in tm : <<e[2], h[e[2]].sequence>> \in act
      BY <2>1
    <3>2. ASSUME NEW id \in act
          PROVE  h[id[1]].sequence = id[2] /\ <<h[id[1]].expiration, id[1]>> \in tm
      <4>1. PICK e \in tm : id = <<e[2], h[e[2]].sequence>>
        BY <2>1
      <4> QED BY <1>1, <1>3, <4>1
    <3> QED BY <3>1, <3>2
  <2>2. ASSUME /\ \A e \in tm : <<e[2], h[e[2]].sequence>> \in act
               /\ \A id \in act : h[id[1]].sequence = id[2] /\ <<h[id[1]].expiration, id[1]>> \in tm
        PROVE  act = {<<a, h[a].sequence>> : a \in {e[2] : e \in tm}}
    <3>1. ASSUME NEW id \in act PROVE id \in {<<a, h[a].sequence>> : a \in {e[2] : e \in tm}}
      <4>1. id = <<id[1], h[id[1]].sequence>> /\ <<h[id[1]].expiration, id[1]>> \in tm
        BY <1>2, <2>2
      <4>2. id[1] \in {e[2] : e \in tm}
        BY <4>1
      <4> QED BY <4>1, <4>2
    <3>2. ASSUME NEW a \in {e[2] : e \in tm} PROVE <<a, h[a].sequence>> \in act
      BY <2>2
    <3> QED BY <3>1, <3>2
  <2> QED BY <2>1, <2>2
<1>4. ASSUME \A e \in tm \cup ex : h[e[2]].expiration = e[1], NEW a \in Addrs
      PROVE  a \in {e[2] : e \in tm \cup ex} <=> <<h[a].expiration, a>> \in tm \cup ex
  <2>1. ASSUME NEW e \in tm \cup ex, e[2] = a PROVE <<h[a].expiration, a>> \in tm \cup ex
    BY <1>1, <1>4, <2>1
  <2>2. ASSUME <<h[a].expiration, a>> \in tm \cup ex PROVE a \in {e[2] : e \in tm \cup ex}
    BY <2>2
  <2> QED BY <2>1, <2>2
<1>5. {e[2] : e \in tm} \cap {e[2] : e \in ex} = {} <=> \A e \in tm, f \in ex : e[2] # f[2]
  OBVIOUS
<1>6. (\A a \in {e[2] : e \in tm \cup ex} : <<a, h[a].sequence>> \notin ad) <=>
        \A e \in tm \cup ex : <<e[2], h[e[2]].sequence>> \notin ad
  OBVIOUS
<1> QED BY <1>3, <1>4, <1>5, <1>6, Zenon DEF Owned, OwnedSets

OwnedNow == Owned(timers_, activeTimers_, heap, expired, Adding)

(* ... in this state *)
LEMMA OwnedIs == TypeOK => (OwnedNow <=> SameTimers /\ OwnedOnce)
<1> SUFFICES ASSUME TypeOK PROVE OwnedNow <=> SameTimers /\ OwnedOnce
  OBVIOUS
<1>1. timers_ \in SUBSET (Expirations \X Addrs) /\ activeTimers_ \in SUBSET Ids /\ expired \in SUBSET (Expirations \X Addrs)
  BY DEF TypeOK
<1>2. OwnedNow <=> OwnedSets(timers_, activeTimers_, heap, expired, Adding)
  BY <1>1, OwnedForm DEF OwnedNow
<1>3. OwnedSets(timers_, activeTimers_, heap, expired, Adding) <=> SameTimers /\ OwnedOnce
  BY DEF OwnedSets, SameTimers, OwnedOnce, Addresses, TimerId
<1> QED BY <1>2, <1>3

(* ... and in the next one. *)
LEMMA OwnedIsNext == TypeOK' => (OwnedNow' <=> SameTimers' /\ OwnedOnce')
<1> SUFFICES ASSUME TypeOK' PROVE OwnedNow' <=> SameTimers' /\ OwnedOnce'
  OBVIOUS
<1>1. timers_' \in SUBSET (Expirations \X Addrs) /\ activeTimers_' \in SUBSET Ids /\ expired' \in SUBSET (Expirations \X Addrs)
  BY DEF TypeOK
<1>2. OwnedNow' <=> OwnedSets(timers_, activeTimers_, heap, expired, Adding)'
  BY <1>1, OwnedForm DEF OwnedNow
<1>3. OwnedSets(timers_, activeTimers_, heap, expired, Adding)' <=> SameTimers' /\ OwnedOnce'
  BY DEF OwnedSets, SameTimers, OwnedOnce, Addresses, TimerId
<1> QED BY <1>2, <1>3

(* Entries, TimerIds and Timers are pairs and records of their parts. *)
LEMMA Shapes ==
  ASSUME TypeOK
  PROVE  /\ \A e \in timers_ \cup expired : e = <<e[1], e[2]>> /\ e[2] \in Addrs /\ e[1] \in Nat
         /\ \A id \in activeTimers_ : id = <<id[1], id[2]>> /\ id[1] \in Addrs /\ id[2] \in Nat
         /\ \A id \in Adding : id \in Ids /\ id = <<id[1], id[2]>> /\ id[1] \in Addrs /\ id[2] \in Nat
         /\ heap \in [Addrs -> Timers] /\ numCreated \in Nat
<1>1. \A i \in 1..Len(tasks) : tasks[i] \in Tasks
  BY Elements DEF TypeOK
<1>2. \A id \in Adding : id \in Ids
  BY <1>1 DEF Adding, Tasks
<1>3. \A id \in Ids : id = <<id[1], id[2]>> /\ id[1] \in Addrs /\ id[2] \in Nat
  <2>1. \A id \in Ids : id = <<id[1], id[2]>> /\ id[1] \in Addrs /\ id[2] \in Seqs
    BY DEF Ids
  <2>2. \A q \in Seqs : q \in Nat
    BY Ranges
  <2> QED BY <2>1, <2>2
<1>4. \A e \in timers_ \cup expired : e = <<e[1], e[2]>> /\ e[2] \in Addrs /\ e[1] \in Nat
  <2>1. \A e \in timers_ \cup expired : e = <<e[1], e[2]>> /\ e[2] \in Addrs /\ e[1] \in Expirations
    BY DEF TypeOK
  <2>2. \A t \in Expirations : t \in Nat
    BY Ranges
  <2> QED BY <2>1, <2>2
<1> QED BY <1>2, <1>3, <1>4, Ranges, Zenon DEF TypeOK, Timers

(* new Timer() takes an address that nobody owns. *)
LEMMA FreshAddress ==
  ASSUME TypeOK, OwnedNow, Numbered, NEW a \in Addrs, heap[a] = Free
  PROVE  /\ \A e \in timers_ \cup expired : e[2] # a
         /\ \A id \in activeTimers_ \cup Adding : id[1] # a
         /\ \A id \in Adding \cup ids \cup cancelled : id # <<a, numCreated + 1>>
<1>1. \A e \in timers_ \cup expired : e[2] # a
  BY Zenon DEF OwnedNow, Owned
<1>2. \A id \in activeTimers_ : id[1] # a
  BY <1>1, Zenon DEF OwnedNow, Owned
<1>3. \A id \in Adding : id[1] # a
  <2>1. heap[a].sequence = 0
    BY DEF Free
  <2> QED BY <2>1, Shapes DEF OwnedNow, Owned, Numbered
<1>4. \A id \in Adding \cup ids \cup cancelled : id # <<a, numCreated + 1>>
  BY Shapes DEF Numbered
<1> QED BY <1>1, <1>2, <1>3, <1>4

(* cancelInLoop() frees a Timer that only timers_ owns. *)
LEMMA CancelOwned ==
  ASSUME TypeOK, OwnedNow, NEW id \in Ids, CancelInLoop(id), expired' = expired, Adding' = Adding
  PROVE  OwnedNow'
<1>1. CASE id \in activeTimers_
  <2> DEFINE a == id[1]
  <2>1. /\ id = <<a, id[2]>> /\ a \in Addrs /\ heap[a].sequence = id[2]
        /\ <<heap[a].expiration, a>> \in timers_
    BY <1>1 DEF OwnedNow, Owned, Ids
  <2>2. /\ timers_' = timers_ \ {<<heap[a].expiration, a>>}
        /\ heap' = [heap EXCEPT ![a] = Free]
        /\ activeTimers_' = activeTimers_ \ {id}
    BY <1>1 DEF CancelInLoop
  <2> HIDE DEF a
  <2>3. \A e \in timers_' : e \in timers_ /\ e[2] # a
    <3>1. \A e \in timers_ : e = <<heap[e[2]].expiration, e[2]>>
      BY Shapes, Zenon DEF OwnedNow, Owned
    <3> QED BY <2>2, <3>1
  <2>4. \A x \in activeTimers_' : x \in activeTimers_ /\ x[1] # a
    BY <2>1, <2>2, Shapes DEF OwnedNow, Owned
  <2>5. \A e \in expired : e[2] # a
    BY <2>1, Shapes DEF OwnedNow, Owned
  <2>6. \A x \in Adding : x[1] # a
    <3>1. <<a, heap[a].sequence>> \notin Adding
      BY <2>1 DEF OwnedNow, Owned
    <3> QED BY <3>1, Shapes DEF OwnedNow, Owned
  <2>7. heap'[a] = Free /\ \A b \in Addrs : b # a => heap'[b] = heap[b]
    BY <2>1, <2>2, Shapes
  <2>8. \A b \in Addrs : heap'[b] # Free => \/ <<heap'[b].expiration, b>> \in timers_'
                                             \/ <<heap'[b].expiration, b>> \in expired'
                                             \/ <<b, heap'[b].sequence>> \in Adding'
    BY <2>2, <2>7 DEF OwnedNow, Owned
  <2>9. \A x \in activeTimers_' : /\ heap'[x[1]].sequence = x[2]
                                  /\ <<heap'[x[1]].expiration, x[1]>> \in timers_'
    BY <2>2, <2>4, <2>7, Shapes DEF OwnedNow, Owned
  <2>10. \A e \in timers_' : /\ heap'[e[2]] # Free /\ heap'[e[2]].expiration = e[1]
                             /\ <<e[2], heap'[e[2]].sequence>> \in activeTimers_'
                             /\ <<e[2], heap'[e[2]].sequence>> \notin Adding'
    BY <2>1, <2>2, <2>3, <2>7, Shapes DEF OwnedNow, Owned
  <2>11. \A e \in expired' : /\ heap'[e[2]] # Free /\ heap'[e[2]].expiration = e[1]
                             /\ <<e[2], heap'[e[2]].sequence>> \notin Adding'
    BY <2>5, <2>7, Shapes DEF OwnedNow, Owned
  <2>12. \A x \in Adding' : heap'[x[1]].sequence = x[2]
    BY <2>6, <2>7, Shapes DEF OwnedNow, Owned
  <2>13. \A e \in timers_', f \in expired' : e[2] # f[2]
    BY <2>3 DEF OwnedNow, Owned
  <2> QED BY <2>8, <2>9, <2>10, <2>11, <2>12, <2>13, Zenon DEF OwnedNow, Owned
<1>2. CASE id \notin activeTimers_
  BY <1>2, Zenon DEF OwnedNow, Owned, CancelInLoop
<1> QED BY <1>1, <1>2

-----------------------------------------------------------------------------
(* What a step does to the functors that will add a timer: addTimer() in another
   thread queues one for its new Timer, running it takes that one out, and nothing
   else changes them. *)
LEMMA AddingStep ==
  ASSUME TypeOK, AddedOnce
  PROVE  /\ \A c \in Callers, a \in Addrs, when \in Whens, interval \in Intervals :
              AddTimerFrom(c, a, when, interval) => Adding' = Adding \cup {<<a, numCreated + 1>>}
         /\ \A c \in Callers, id \in ids : CancelFrom(c, id) => Adding' = Adding
         /\ RunTask => /\ Head(tasks) \in Tasks /\ Head(tasks).id \in Ids
                       /\ Head(tasks).op # "add" => Adding' = Adding
                       /\ Head(tasks).op = "add" => /\ Adding' = Adding \ {Head(tasks).id}
                                                    /\ Head(tasks).id \in Adding
         /\ tasks' = tasks => Adding' = Adding
<1>0. Adding = AddingOf(tasks) /\ Adding' = AddingOf(tasks') /\ tasks \in Seq(Tasks)
  BY DEF Adding, AddingOf, TypeOK
<1>1. ASSUME NEW c \in Callers, NEW a \in Addrs, NEW when \in Whens, NEW interval \in Intervals,
             AddTimerFrom(c, a, when, interval)
      PROVE  Adding' = Adding \cup {<<a, numCreated + 1>>}
  <2> DEFINE t == [op |-> "add", id |-> <<a, numCreated + 1>>]
  <2>1. <<a, numCreated + 1>> \in Ids
    BY <1>1, NewTimerType DEF AddTimerFrom
  <2>2. t \in Tasks /\ t.op = "add" /\ t.id = <<a, numCreated + 1>> /\ tasks' = Append(tasks, t)
    BY <1>1, <2>1 DEF Tasks, AddTimerFrom
  <2> HIDE DEF t
  <2> QED BY <1>0, <2>2, AddingAppend, Zenon
<1>2. ASSUME NEW c \in Callers, NEW id \in ids, CancelFrom(c, id) PROVE Adding' = Adding
  <2> DEFINE t == [op |-> "cancel", id |-> id]
  <2>1. t \in Tasks /\ t.op # "add" /\ tasks' = Append(tasks, t)
    BY <1>2 DEF Tasks, CancelFrom, TypeOK
  <2> HIDE DEF t
  <2> QED BY <1>0, <2>1, AddingAppend
<1>3. ASSUME RunTask
      PROVE  /\ Head(tasks) \in Tasks /\ Head(tasks).id \in Ids
             /\ Head(tasks).op # "add" => Adding' = Adding
             /\ Head(tasks).op = "add" => Adding' = Adding \ {Head(tasks).id} /\ Head(tasks).id \in Adding
  <2>1. tasks # <<>> /\ tasks' = Tail(tasks)
    BY <1>3 DEF RunTask
  <2>2. /\ Head(tasks) \in Tasks
        /\ Head(tasks).op # "add" => Adding' = Adding
        /\ Head(tasks).op = "add" => Adding' = Adding \ {Head(tasks).id} /\ Head(tasks).id \in Adding
    BY <1>0, <2>1, AddingTail DEF AddedOnce
  <2> QED BY <2>2 DEF Tasks
<1>4. tasks' = tasks => Adding' = Adding
  BY <1>0
<1> QED BY <1>1, <1>2, <1>3, <1>4, Zenon

(* Each functor keeps its own Timer to add. *)
LEMMA AddedOnceStep ==
  ASSUME TypeOK, AddedOnce, Numbered, [Next]_vars
  PROVE  AddedOnce'
<1>0. tasks \in Seq(Tasks) /\ Len(tasks) \in Nat
  BY Elements DEF TypeOK
<1>1. ASSUME NEW c \in Callers, NEW a \in Addrs, NEW when \in Whens, NEW interval \in Intervals,
             AddTimerFrom(c, a, when, interval)
      PROVE  AddedOnce'
  <2> DEFINE t == [op |-> "add", id |-> <<a, numCreated + 1>>]
  <2>1. t \in Tasks
    BY <1>1, NewTimerType DEF AddTimerFrom, Tasks
  <2>2. /\ Len(tasks') = Len(tasks) + 1 /\ tasks'[Len(tasks) + 1] = t
        /\ \A i \in 1..Len(tasks) : tasks'[i] = tasks[i]
    BY <1>0, <1>1, <2>1, Appended DEF AddTimerFrom
  <2>3. \A i \in 1..Len(tasks) : tasks[i].op = "add" => tasks[i].id \in Adding
    BY DEF Adding
  <2>4. \A id \in Adding : id # <<a, numCreated + 1>>
    BY Shapes DEF Numbered
  <2>5. \A i \in 1..Len(tasks) : tasks[i].op = "add" => tasks[i].id # t.id
    BY <2>3, <2>4, Zenon
  <2> HIDE DEF t
  <2>6. \A i, j \in 1..(Len(tasks) + 1) :
          tasks'[i].op = "add" /\ tasks'[j].op = "add" /\ tasks'[i].id = tasks'[j].id => i = j
    <3> SUFFICES ASSUME NEW i \in 1..(Len(tasks) + 1), NEW j \in 1..(Len(tasks) + 1),
                        tasks'[i].op = "add" /\ tasks'[j].op = "add" /\ tasks'[i].id = tasks'[j].id
                 PROVE  i = j
      OBVIOUS
    <3>1. CASE i \in 1..Len(tasks) /\ j \in 1..Len(tasks)
      BY <2>2, <3>1 DEF AddedOnce
    <3>2. CASE i \in 1..Len(tasks) /\ j = Len(tasks) + 1
      BY <2>2, <2>5, <3>2
    <3>3. CASE j \in 1..Len(tasks) /\ i = Len(tasks) + 1
      BY <2>2, <2>5, <3>3
    <3> QED BY <1>0, <3>1, <3>2, <3>3
  <2> QED BY <2>2, <2>6 DEF AddedOnce
<1>2. ASSUME NEW c \in Callers, NEW id \in ids, CancelFrom(c, id) PROVE AddedOnce'
  <2> DEFINE t == [op |-> "cancel", id |-> id]
  <2>1. t \in Tasks /\ t.op # "add"
    BY DEF Tasks, TypeOK
  <2>2. /\ Len(tasks') = Len(tasks) + 1 /\ tasks'[Len(tasks) + 1] = t
        /\ \A i \in 1..Len(tasks) : tasks'[i] = tasks[i]
    BY <1>0, <1>2, <2>1, Appended DEF CancelFrom
  <2> HIDE DEF t
  <2>3. \A i \in 1..(Len(tasks) + 1) : tasks'[i].op = "add" => i \in 1..Len(tasks) /\ tasks'[i] = tasks[i]
    BY <1>0, <2>1, <2>2
  <2> QED BY <2>2, <2>3 DEF AddedOnce
<1>3. CASE RunTask
  BY <1>3, <1>0, AddingTail, Zenon DEF RunTask, AddedOnce
<1>4. CASE tasks' = tasks
  BY <1>4 DEF AddedOnce
<1>5. \/ \E c \in Callers, a \in Addrs, when \in Whens, interval \in Intervals : AddTimerFrom(c, a, when, interval)
      \/ \E c \in Callers, id \in ids : CancelFrom(c, id)
      \/ RunTask \/ tasks' = tasks
  BY DEF Next, UserCall, UserCancel, HandleTimers, vars, loopVars, AddTimerHere, CancelHere, AddTimerReturn,
         Poll, HandleRead, RunTimer, EndCallback, Reset, Destroy, Tick
<1> QED BY <1>1, <1>2, <1>3, <1>4, <1>5

(* The numbers of the Timers come from s_numCreated_, wherever they are kept. *)
LEMMA NumberedStep ==
  ASSUME TypeOK, TypeOK', AddedOnce, Numbered, [Next]_vars
  PROVE  Numbered'
<1> DEFINE NumHeap    == \A a \in Addrs : heap[a] = Free \/ heap[a].sequence \in 1..numCreated
           NumIds     == \A id \in ids \cup cancelled : id[2] <= numCreated
           NumAdding  == \A id \in Adding : id[2] > 0 /\ id[2] <= numCreated
           NumTasks   == \A i \in 1..Len(tasks) : tasks[i].id[2] <= numCreated
           NumCallers == \A c \in Callers : returning[c][2] <= numCreated
<1>a. NumHeap /\ NumIds /\ NumAdding /\ NumTasks /\ NumCallers
  BY DEF Numbered
<1>b. NumHeap' /\ NumIds' /\ NumAdding' /\ NumTasks' /\ NumCallers' => Numbered'
  BY DEF Numbered
<1>c. /\ heap \in [Addrs -> Timers] /\ numCreated \in Nat /\ tasks \in Seq(Tasks) /\ Len(tasks) \in Nat
      /\ heap' \in [Addrs -> Timers] /\ numCreated' \in Nat
      /\ returning \in [Callers -> Ids \cup {None}]
  BY Shapes, Ranges, Elements, Zenon DEF TypeOK, Timers
<1>d. \A id \in Ids : id[1] \in Addrs /\ id[2] \in Nat
  <2>1. \A id \in Ids : id[1] \in Addrs /\ id[2] \in Seqs
    BY DEF Ids
  <2>2. \A q \in Seqs : q \in Nat
    BY Ranges
  <2> QED BY <2>1, <2>2
<1>e. ids \cup cancelled \subseteq Ids /\ Adding \subseteq Ids /\ \A i \in 1..Len(tasks) : tasks[i].id \in Ids
  <2>1. \A i \in 1..Len(tasks) : tasks[i] \in Tasks
    BY <1>c, Elements
  <2> QED BY <2>1, Shapes DEF TypeOK, Tasks
<1>f. \A c \in Callers : returning[c][2] \in Nat
  <2>1. \A c \in Callers : returning[c] \in Ids \/ returning[c] = None
    BY <1>c, Zenon
  <2> QED BY <1>d, <2>1 DEF None
<1>1. ASSUME NEW a \in Addrs, NEW when \in Whens, NEW interval \in Intervals, NewTimer(a, when, interval)
      PROVE  NumHeap' /\ numCreated' = numCreated + 1
  <2>1. numCreated' = numCreated + 1 /\ heap'[a].sequence = numCreated + 1
    BY <1>1, <1>c DEF NewTimer
  <2>2. \A b \in Addrs : b # a => heap'[b] = heap[b]
    BY <1>1, <1>c DEF NewTimer
  <2> QED BY <1>a, <1>c, <2>1, <2>2
<1>2. ASSUME NEW a \in Addrs, NEW when \in Whens, NEW interval \in Intervals, AddTimerHere(a, when, interval)
      PROVE  Numbered'
  <2>1. NumHeap' /\ numCreated' = numCreated + 1
    BY <1>1, <1>2 DEF AddTimerHere
  <2>2. ids' = ids \cup {<<a, numCreated + 1>>} /\ UNCHANGED <<cancelled, tasks, returning>>
    BY <1>2 DEF AddTimerHere
  <2>3. Adding' = Adding
    BY <2>2, AddingStep
  <2>4. NumIds'
    BY <1>a, <1>c, <1>d, <1>e, <2>1, <2>2
  <2>5. NumAdding' /\ NumTasks' /\ NumCallers'
    BY <1>a, <1>c, <1>d, <1>e, <1>f, <2>1, <2>2, <2>3
  <2> QED BY <1>b, <2>1, <2>4, <2>5
<1>3. ASSUME NEW c \in Callers, NEW a \in Addrs, NEW when \in Whens, NEW interval \in Intervals,
             AddTimerFrom(c, a, when, interval)
      PROVE  Numbered'
  <2> DEFINE t == [op |-> "add", id |-> <<a, numCreated + 1>>]
  <2>1. NumHeap' /\ numCreated' = numCreated + 1
    BY <1>1, <1>3 DEF AddTimerFrom
  <2>2. UNCHANGED <<ids, cancelled>> /\ Adding' = Adding \cup {<<a, numCreated + 1>>}
    BY <1>3, AddingStep, Zenon DEF AddTimerFrom, loopVars
  <2>3. NumIds' /\ NumAdding'
    BY <1>a, <1>c, <1>d, <1>e, <2>1, <2>2
  <2>4. NumTasks'
    <3>1. t \in Tasks
      BY <1>3, NewTimerType DEF AddTimerFrom, Tasks
    <3>2. /\ Len(tasks') = Len(tasks) + 1 /\ tasks'[Len(tasks) + 1] = t
          /\ \A i \in 1..Len(tasks) : tasks'[i] = tasks[i]
      BY <1>c, <1>3, <3>1, Appended DEF AddTimerFrom
    <3>3. t.id[2] = numCreated + 1
      OBVIOUS
    <3> HIDE DEF t
    <3> QED BY <1>a, <1>c, <1>d, <1>e, <2>1, <3>2, <3>3
  <2>5. NumCallers'
    BY <1>3, <1>a, <1>c, <1>f, <2>1 DEF AddTimerFrom
  <2> QED BY <1>b, <2>1, <2>3, <2>4, <2>5
<1>4. ASSUME NEW c \in Callers, AddTimerReturn(c) PROVE Numbered'
  <2>1. returning[c] \in Ids
    BY <1>4, <1>c DEF AddTimerReturn
  <2>2. PICK q \in {returning[c][2], heap[returning[c][1]].sequence} : ids' = ids \cup {<<returning[c][1], q>>}
    BY <1>4 DEF AddTimerReturn
  <2>3. q <= numCreated
    <3>1. heap[returning[c][1]].sequence <= numCreated
      BY <1>a, <1>c, <1>d, <2>1 DEF Free
    <3> QED BY <1>a, <2>2, <3>1
  <2>4. UNCHANGED <<heap, numCreated, tasks, cancelled>>
    BY <1>4 DEF AddTimerReturn, loopVars
  <2>5. NumIds'
    BY <1>a, <2>2, <2>3, <2>4
  <2>6. NumCallers'
    BY <1>4, <1>a, <1>c, <2>4 DEF AddTimerReturn, None
  <2>7. Adding' = Adding
    BY <2>4, AddingStep
  <2> QED BY <1>a, <1>b, <2>4, <2>5, <2>6, <2>7
<1>5. ASSUME NEW id \in Ids, id[2] <= numCreated, CancelInLoop(id), UNCHANGED <<numCreated, ids>>
      PROVE  NumHeap' /\ NumIds'
  <2>1. NumIds'
    BY <1>5, <1>a, Zenon DEF CancelInLoop
  <2>2. \A a \in Addrs : heap'[a] = heap[a] \/ heap'[a] = Free
    BY <1>5, <1>c, <1>d DEF CancelInLoop
  <2> QED BY <1>5, <1>a, <2>1, <2>2
<1>6. ASSUME NEW id \in ids, CancelHere(id) PROVE Numbered'
  <2>1. NumHeap' /\ NumIds'
    BY <1>5, <1>6, <1>a, <1>e DEF CancelHere
  <2>2. UNCHANGED <<numCreated, tasks, returning>>
    BY <1>6, Zenon DEF CancelHere
  <2>3. Adding' = Adding
    BY <2>2, AddingStep
  <2> QED BY <1>a, <1>b, <2>1, <2>2, <2>3
<1>7. ASSUME NEW c \in Callers, NEW id \in ids, CancelFrom(c, id) PROVE Numbered'
  <2> DEFINE t == [op |-> "cancel", id |-> id]
  <2>1. t \in Tasks
    BY <1>e, Zenon DEF Tasks
  <2>2. /\ Len(tasks') = Len(tasks) + 1 /\ tasks'[Len(tasks) + 1] = t
        /\ \A i \in 1..Len(tasks) : tasks'[i] = tasks[i]
    <3>1. tasks' = Append(tasks, t)
      BY <1>7, Zenon DEF CancelFrom
    <3>2. tasks \in Seq(Tasks)
      BY <1>c, Zenon
    <3> HIDE DEF t
    <3> QED BY <2>1, <3>1, <3>2, Appended
  <2>3. t.id = id
    BY Zenon
  <2> HIDE DEF t
  <2>4. UNCHANGED <<heap, numCreated, ids, cancelled, returning>>
    BY <1>7, Zenon DEF CancelFrom, loopVars
  <2>5. NumTasks'
    BY <1>a, <1>c, <2>2, <2>3, <2>4, SMTT(40)
  <2>6. Adding' = Adding
    BY <1>7, AddingStep, Zenon
  <2> QED BY <1>a, <1>b, <2>4, <2>5, <2>6
<1>8. CASE RunTask
  <2>1. /\ tasks # <<>> /\ tasks' = Tail(tasks) /\ Head(tasks) = tasks[1] /\ 1 \in 1..Len(tasks)
        /\ UNCHANGED <<numCreated, ids, returning>>
    BY <1>8, <1>c DEF RunTask
  <2>2. NumTasks'
    <3>1. /\ Len(tasks') = Len(tasks) - 1
          /\ \A i \in 1..(Len(tasks) - 1) : tasks'[i] = tasks[i + 1] /\ i + 1 \in 1..Len(tasks)
      BY <1>c, <2>1, HeadAndTail
    <3> QED BY <1>a, <2>1, <3>1
  <2>3. Adding' \subseteq Adding
    BY <1>8, AddingStep, Zenon
  <2>4. NumHeap' /\ NumIds'
    <3>1. Head(tasks).id \in Ids /\ Head(tasks).id[2] <= numCreated
      BY <1>a, <1>e, <2>1, Zenon
    <3>2. CASE UNCHANGED <<heap, cancelled>>
      BY <1>a, <2>1, <3>2
    <3>3. CASE CancelInLoop(Head(tasks).id)
      BY <1>5, <2>1, <3>1, <3>3
    <3> QED BY <1>8, <3>2, <3>3, Zenon DEF RunTask
  <2> QED BY <1>a, <1>b, <2>1, <2>2, <2>3, <2>4
<1>9. ASSUME \A a \in Addrs : heap'[a] = Free \/ (heap'[a].sequence = heap[a].sequence /\ heap[a] # Free)
                              \/ heap'[a] = heap[a],
             UNCHANGED <<numCreated, tasks, returning, ids, cancelled>>
      PROVE  Numbered'
  <2>1. NumHeap'
    BY <1>9, <1>a, Zenon
  <2>2. Adding' = Adding
    BY <1>9, AddingStep
  <2> QED BY <1>9, <1>a, <1>b, <2>1, <2>2
<1>10. CASE Reset
  <2>1. ASSUME NEW e \in Restarted PROVE heap[e[2]] # Free
    BY <2>1 DEF Restarted, Free
  <2>2. ASSUME NEW a \in Addrs
        PROVE  heap'[a] = Free \/ (heap'[a].sequence = heap[a].sequence /\ heap[a] # Free) \/ heap'[a] = heap[a]
    <3>1. CASE a \in {e[2] : e \in Restarted}
      <4>1. heap'[a] = [heap[a] EXCEPT !.expiration = NewExpiration(a)]
        BY <1>10, <3>1 DEF Reset
      <4>2. heap'[a].sequence = heap[a].sequence
        BY <1>c, <4>1 DEF Timers
      <4> QED BY <2>1, <3>1, <4>2
    <3>2. CASE a \notin {e[2] : e \in Restarted}
      BY <1>10, <3>2 DEF Reset
    <3> QED BY <3>1, <3>2
  <2>3. UNCHANGED <<numCreated, tasks, returning, ids, cancelled>>
    BY <1>10 DEF Reset
  <2> QED BY <1>9, <2>2, <2>3
<1>11. CASE Destroy
  BY <1>9, <1>11, <1>c, Zenon DEF Destroy
<1>12. CASE Poll \/ HandleRead \/ RunTimer \/ EndCallback \/ Tick \/ UNCHANGED vars
  BY <1>9, <1>12 DEF Poll, HandleRead, RunTimer, EndCallback, Tick, vars, loopVars
<1> QED BY <1>2, <1>3, <1>4, <1>6, <1>7, <1>8, <1>10, <1>11, <1>12
        DEF Next, UserCall, UserCancel, HandleTimers

-----------------------------------------------------------------------------
(* The steps *)

(* Expired timers are held exactly while handleRead() runs. *)
LEMMA PhaseStep ==
  ASSUME TypeOK, Phase, [Next]_vars
  PROVE  Phase'
<1>1. CASE HandleRead
  BY <1>1 DEF HandleRead, Phase, TypeOK
<1>2. CASE RunTimer \/ EndCallback
  BY <1>2 DEF RunTimer, EndCallback, Phase
<1>3. CASE Reset
  BY <1>3 DEF Reset, Phase
<1>4. CASE Destroy
  BY <1>4 DEF Destroy, Phase
<1>5. CASE UNCHANGED <<callingExpiredTimers_, pc, expired, batchNow>>
  BY <1>5 DEF Phase
<1>6. HandleRead \/ RunTimer \/ EndCallback \/ Reset \/ Destroy \/ UNCHANGED <<callingExpiredTimers_, pc, expired, batchNow>>
  BY Zenon DEF Next, UserCall, UserCancel, HandleTimers, vars, loopVars, AddTimerHere, AddTimerFrom, CancelHere, CancelFrom,
         AddTimerReturn, RunTask, Poll, Tick
<1> QED BY <1>1, <1>2, <1>3, <1>4, <1>5, <1>6

(* A new Timer belongs to timers_ or to the functor that will add it. *)
LEMMA NewTimerOwned ==
  ASSUME TypeOK, OwnedNow, Numbered, AddedOnce, NEW a \in Addrs, NEW when \in Whens, NEW interval \in Intervals,
         \/ AddTimerHere(a, when, interval)
         \/ \E c \in Callers : AddTimerFrom(c, a, when, interval)
  PROVE  OwnedNow'
<1> DEFINE id == <<a, numCreated + 1>>
<1>1. heap[a] = Free /\ NewTimer(a, when, interval) /\ expired' = expired
  BY Zenon DEF AddTimerHere, AddTimerFrom, NewTimer, loopVars
<1>2. /\ \A e \in timers_ \cup expired : e[2] # a
      /\ \A x \in activeTimers_ \cup Adding : x[1] # a
  BY <1>1, FreshAddress, Zenon
<1>3. /\ heap'[a].sequence = numCreated + 1 /\ heap'[a].expiration = when /\ heap'[a] # Free
      /\ \A b \in Addrs : b # a => heap'[b] = heap[b]
  <2>1. heap'[a] = [sequence |-> numCreated + 1, expiration |-> when, interval |-> interval]
    BY <1>1, Shapes DEF NewTimer
  <2>2. heap'[a].sequence # Free.sequence
    BY <2>1, Shapes DEF Free
  <2> QED BY <1>1, <2>1, <2>2, Shapes DEF NewTimer
<1>4. \/ timers_' = timers_ \cup {<<when, a>>} /\ activeTimers_' = activeTimers_ \cup {id} /\ Adding' = Adding
      \/ timers_' = timers_ /\ activeTimers_' = activeTimers_ /\ Adding' = Adding \cup {id}
  <2>1. CASE AddTimerHere(a, when, interval)
    BY <2>1, AddingStep, Zenon DEF AddTimerHere, AddTimerInLoop
  <2>2. ASSUME NEW c \in Callers, AddTimerFrom(c, a, when, interval)
        PROVE  timers_' = timers_ /\ activeTimers_' = activeTimers_ /\ Adding' = Adding \cup {id}
    BY <2>2, AddingStep, Zenon DEF AddTimerFrom, loopVars
  <2> QED BY <2>1, <2>2, Zenon
<1>5. ~(id \in Adding)
  BY <1>2
<1> HIDE DEF id
<1>6. id[1] = a /\ id[2] = numCreated + 1 /\ id = <<a, heap'[a].sequence>>
  BY <1>3, Zenon DEF id
<1>7. \A e \in timers_ : /\ heap'[e[2]] # Free /\ heap'[e[2]].expiration = e[1]
                         /\ <<e[2], heap'[e[2]].sequence>> \in activeTimers_'
                         /\ <<e[2], heap'[e[2]].sequence>> \notin Adding'
  BY <1>2, <1>3, <1>4, <1>6, Shapes DEF OwnedNow, Owned
<1>8. \A e \in expired : /\ heap'[e[2]] # Free /\ heap'[e[2]].expiration = e[1]
                         /\ <<e[2], heap'[e[2]].sequence>> \notin Adding'
  BY <1>2, <1>3, <1>4, <1>6, Shapes DEF OwnedNow, Owned
<1>9. \A x \in activeTimers_ : heap'[x[1]].sequence = x[2] /\ <<heap'[x[1]].expiration, x[1]>> \in timers_'
  BY <1>2, <1>3, <1>4, Shapes DEF OwnedNow, Owned
<1>10. \A x \in Adding : heap'[x[1]].sequence = x[2]
  BY <1>2, <1>3, Shapes DEF OwnedNow, Owned
<1>11. \A b \in Addrs : heap'[b] # Free => \/ <<heap'[b].expiration, b>> \in timers_'
                                            \/ <<heap'[b].expiration, b>> \in expired'
                                            \/ <<b, heap'[b].sequence>> \in Adding'
  BY <1>1, <1>3, <1>4, <1>6, Zenon DEF OwnedNow, Owned
<1>12. CASE timers_' = timers_ \cup {<<when, a>>} /\ activeTimers_' = activeTimers_ \cup {id} /\ Adding' = Adding
  <2>1. \A e \in timers_' : /\ heap'[e[2]] # Free /\ heap'[e[2]].expiration = e[1]
                            /\ <<e[2], heap'[e[2]].sequence>> \in activeTimers_'
                            /\ <<e[2], heap'[e[2]].sequence>> \notin Adding'
    <3>1. ASSUME NEW e \in timers_', e \notin timers_ PROVE e[1] = when /\ e[2] = a
      BY <1>12, <3>1
    <3>2. id \in activeTimers_' /\ id \notin Adding'
      BY <1>5, <1>12
    <3> QED BY <1>3, <1>6, <1>7, <3>1, <3>2, Zenon
  <2>2. \A x \in activeTimers_' : heap'[x[1]].sequence = x[2] /\ <<heap'[x[1]].expiration, x[1]>> \in timers_'
    BY <1>3, <1>6, <1>9, <1>12, Zenon
  <2>3. \A e \in timers_', f \in expired' : e[2] # f[2]
    <3> SUFFICES ASSUME NEW e \in timers_', NEW f \in expired' PROVE e[2] # f[2]
      OBVIOUS
    <3>1. f \in expired
      BY <1>1, Zenon
    <3>2. CASE e \in timers_
      BY <3>1, <3>2, Zenon DEF OwnedNow, Owned
    <3>3. CASE e = <<when, a>>
      <4>1. e[2] = a
        BY <3>3, Zenon
      <4> QED BY <1>2, <3>1, <4>1, Zenon
    <3> QED BY <1>12, <3>2, <3>3, Zenon
  <2> QED BY <1>1, <1>8, <1>10, <1>11, <1>12, <2>1, <2>2, <2>3, Zenon DEF OwnedNow, Owned
<1>13. CASE timers_' = timers_ /\ activeTimers_' = activeTimers_ /\ Adding' = Adding \cup {id}
  <2>1. \A x \in Adding' : heap'[x[1]].sequence = x[2]
    BY <1>3, <1>6, <1>10, <1>13
  <2> QED BY <1>1, <1>7, <1>8, <1>9, <1>11, <1>13, <2>1, Zenon DEF OwnedNow, Owned
<1> QED BY <1>4, <1>12, <1>13

(* A functor of addTimer() hands its Timer to timers_. *)
LEMMA RunTaskOwned ==
  ASSUME TypeOK, OwnedNow, Numbered, AddedOnce, RunTask
  PROVE  OwnedNow'
<1> DEFINE id == Head(tasks).id
<1>1. id \in Ids /\ expired' = expired
  BY AddingStep, Zenon DEF RunTask
<1>2. CASE Head(tasks).op = "add"
  <2>1. /\ Adding' = Adding \ {id} /\ id \in Adding
        /\ timers_' = timers_ \cup {<<heap[id[1]].expiration, id[1]>>} /\ heap' = heap
        /\ activeTimers_' = activeTimers_ \cup {<<id[1], id[2]>>}
    BY <1>2, AddingStep, Zenon DEF RunTask, AddTimerInLoop
  <2> HIDE DEF id
  <2>2. /\ id = <<id[1], id[2]>> /\ heap[id[1]].sequence = id[2] /\ id[1] \in Addrs
        /\ id[2] > 0 /\ heap[id[1]] # Free
    BY <2>1, Shapes DEF OwnedNow, Owned, Numbered, Free
  <2>3. \A e \in timers_ \cup expired : e[2] # id[1]
    BY <2>1, <2>2 DEF OwnedNow, Owned
  <2>4. \A e \in timers_' : /\ heap[e[2]] # Free /\ heap[e[2]].expiration = e[1]
                            /\ <<e[2], heap[e[2]].sequence>> \in activeTimers_'
                            /\ <<e[2], heap[e[2]].sequence>> \notin Adding'
    BY <2>1, <2>2 DEF OwnedNow, Owned
  <2>5. \A x \in activeTimers_' : heap[x[1]].sequence = x[2] /\ <<heap[x[1]].expiration, x[1]>> \in timers_'
    BY <2>1, <2>2, Zenon DEF OwnedNow, Owned
  <2>6. \A b \in Addrs : heap[b] # Free => \/ <<heap[b].expiration, b>> \in timers_'
                                            \/ <<heap[b].expiration, b>> \in expired
                                            \/ <<b, heap[b].sequence>> \in Adding'
    <3> SUFFICES ASSUME NEW b \in Addrs, heap[b] # Free
                 PROVE  \/ <<heap[b].expiration, b>> \in timers_'
                        \/ <<heap[b].expiration, b>> \in expired
                        \/ <<b, heap[b].sequence>> \in Adding'
      OBVIOUS
    <3>1. CASE <<b, heap[b].sequence>> = id
      <4>1. b = id[1]
        BY <3>1
      <4> QED BY <2>1, <4>1
    <3> QED BY <2>1, <3>1 DEF OwnedNow, Owned
  <2>7. \A e \in timers_', f \in expired : e[2] # f[2]
    BY <2>1, <2>3 DEF OwnedNow, Owned
  <2> QED BY <1>1, <2>1, <2>4, <2>5, <2>6, <2>7 DEF OwnedNow, Owned
<1>3. CASE Head(tasks).op # "add"
  BY <1>1, <1>3, AddingStep, CancelOwned DEF RunTask
<1> QED BY <1>2, <1>3, Zenon

(* getExpired() moves its timers from timers_ to handleRead(). *)
LEMMA HandleReadOwned ==
  ASSUME TypeOK, OwnedNow, Phase, HandleRead, Adding' = Adding
  PROVE  OwnedNow'
<1>1. /\ expired = {} /\ heap' = heap /\ expired' \subseteq timers_ /\ timers_' = timers_ \ expired'
      /\ activeTimers_' = activeTimers_ \ {TimerId(e[2]) : e \in expired'}
  BY DEF HandleRead, Phase
<1>2. \A e \in timers_, f \in timers_ : e[2] = f[2] => e = f
  <2>1. \A e \in timers_ : e = <<heap[e[2]].expiration, e[2]>>
    BY Shapes, Zenon DEF OwnedNow, Owned
  <2> QED BY <2>1
<1>3. \A e \in timers_' : e \in timers_ /\ <<e[2], heap[e[2]].sequence>> \in activeTimers_'
  <2> TAKE e \in timers_'
  <2>1. e \in timers_ /\ \A f \in expired' : f[2] # e[2]
    BY <1>1, <1>2
  <2>2. <<e[2], heap[e[2]].sequence>> \in activeTimers_
    BY <2>1, Zenon DEF OwnedNow, Owned
  <2>3. <<e[2], heap[e[2]].sequence>> \notin {TimerId(f[2]) : f \in expired'}
    BY <2>1 DEF TimerId
  <2> QED BY <1>1, <2>1, <2>2, <2>3
<1>4. \A x \in activeTimers_' : x \in activeTimers_ /\ <<heap[x[1]].expiration, x[1]>> \in timers_'
  <2> TAKE x \in activeTimers_'
  <2> DEFINE e == <<heap[x[1]].expiration, x[1]>>
  <2>1. /\ x \in activeTimers_ /\ e \in timers_ /\ x = <<x[1], heap[x[1]].sequence>>
        /\ \A f \in expired' : x # TimerId(f[2])
    BY <1>1, Shapes DEF OwnedNow, Owned
  <2>2. e \notin expired'
    BY <2>1 DEF TimerId
  <2> QED BY <1>1, <2>1, <2>2
<1>5. \A b \in Addrs : heap[b] # Free => \/ <<heap[b].expiration, b>> \in timers_'
                                          \/ <<heap[b].expiration, b>> \in expired'
                                          \/ <<b, heap[b].sequence>> \in Adding
  BY <1>1 DEF OwnedNow, Owned
<1>6. \A e \in timers_', f \in expired' : e[2] # f[2]
  BY <1>1, <1>2, Zenon
<1> QED BY <1>1, <1>3, <1>4, <1>5, <1>6, Zenon DEF OwnedNow, Owned

(* reset() gives the repeating timers back to timers_ and deletes the others. *)
LEMMA ResetOwned ==
  ASSUME TypeOK, OwnedNow, Reset, Adding' = Adding
  PROVE  OwnedNow'
<1> DEFINE restart == {e[2] : e \in Restarted}
           gone    == {e[2] : e \in expired} \ restart
<1>1. /\ timers_' = timers_ \cup {<<NewExpiration(a), a>> : a \in restart}
      /\ activeTimers_' = activeTimers_ \cup {TimerId(a) : a \in restart}
      /\ expired' = {}
  BY DEF Reset
<1>2. /\ restart \subseteq {e[2] : e \in expired} /\ restart \subseteq Addrs
      /\ \A a \in restart : heap[a].interval > 0
  BY Shapes DEF Restarted
<1>3. /\ \A a \in restart : /\ heap'[a].sequence = heap[a].sequence /\ heap'[a].interval = heap[a].interval
                            /\ heap'[a].expiration = NewExpiration(a)
      /\ \A a \in gone : a \in Addrs => heap'[a] = Free
      /\ \A a \in Addrs : a \notin restart \cup gone => heap'[a] = heap[a]
  <2>1. heap \in [Addrs -> Timers]
    BY Shapes
  <2>2. \A a \in restart : heap'[a] = [heap[a] EXCEPT !.expiration = NewExpiration(a)]
    BY <1>2 DEF Reset
  <2>3. \A a \in restart : heap[a] \in Timers
    BY <1>2, <2>1
  <2>4. \A a \in restart : /\ heap'[a].sequence = heap[a].sequence /\ heap'[a].interval = heap[a].interval
                           /\ heap'[a].expiration = NewExpiration(a)
    BY <2>2, <2>3, Zenon DEF Timers
  <2>5. \A a \in Addrs : a \in gone => heap'[a] = Free
    BY DEF Reset
  <2>6. \A a \in Addrs : a \notin restart \cup gone => heap'[a] = heap[a]
    BY DEF Reset
  <2> QED BY <2>4, <2>5, <2>6
<1>4. \A a \in restart : heap'[a] # Free
  BY <1>2, <1>3, SMTT(40) DEF Free
<1>5. \A e \in timers_ : e[2] \notin restart \cup gone
  BY <1>2 DEF OwnedNow, Owned
<1>6. \A x \in activeTimers_ : x[1] \notin restart \cup gone
  BY <1>5, Zenon DEF OwnedNow, Owned
<1>7. \A x \in Adding : x[1] \notin restart \cup gone
  <2> SUFFICES ASSUME NEW x \in Adding, NEW e \in expired, x[1] = e[2] PROVE FALSE
    BY <1>2
  <2>1. x = <<e[2], heap[e[2]].sequence>>
    BY Shapes DEF OwnedNow, Owned
  <2> QED BY <2>1 DEF OwnedNow, Owned
<1>8. \A a \in restart : <<a, heap[a].sequence>> \notin Adding
  BY <1>2 DEF OwnedNow, Owned
<1>9. \A b \in Addrs : <<heap[b].expiration, b>> \in expired => b \in restart \cup gone
  <2> SUFFICES ASSUME NEW b \in Addrs, <<heap[b].expiration, b>> \in expired PROVE b \in {e[2] : e \in expired}
    OBVIOUS
  <2> QED OBVIOUS
<1> HIDE DEF restart, gone
<1>10. \A e \in timers_' : /\ heap'[e[2]] # Free /\ heap'[e[2]].expiration = e[1]
                           /\ <<e[2], heap'[e[2]].sequence>> \in activeTimers_'
                           /\ <<e[2], heap'[e[2]].sequence>> \notin Adding
  <2>1. ASSUME NEW e \in timers_
        PROVE  /\ heap'[e[2]] # Free /\ heap'[e[2]].expiration = e[1]
               /\ <<e[2], heap'[e[2]].sequence>> \in activeTimers_'
               /\ <<e[2], heap'[e[2]].sequence>> \notin Adding
    <3>1. heap'[e[2]] = heap[e[2]]
      BY <1>3, <1>5, Shapes
    <3> QED BY <1>1, <3>1 DEF OwnedNow, Owned
  <2>2. ASSUME NEW a \in restart
        PROVE  /\ heap'[a] # Free /\ heap'[a].expiration = NewExpiration(a)
               /\ <<a, heap'[a].sequence>> \in activeTimers_'
               /\ <<a, heap'[a].sequence>> \notin Adding
    <3>1. TimerId(a) \in activeTimers_'
      BY <1>1, Zenon
    <3> QED BY <1>3, <1>4, <1>8, <3>1 DEF TimerId
  <2> TAKE e \in timers_'
  <2>3. CASE e \in timers_
    BY <2>1, <2>3
  <2>4. ASSUME NEW a \in restart, e = <<NewExpiration(a), a>>
        PROVE  e[1] = NewExpiration(a) /\ e[2] = a
    BY <2>4
  <2> QED BY <1>1, <2>2, <2>3, <2>4, Zenon
<1>11. \A x \in activeTimers_' : heap'[x[1]].sequence = x[2] /\ <<heap'[x[1]].expiration, x[1]>> \in timers_'
  <2>1. ASSUME NEW x \in activeTimers_
        PROVE  heap'[x[1]].sequence = x[2] /\ <<heap'[x[1]].expiration, x[1]>> \in timers_'
    <3>1. heap'[x[1]] = heap[x[1]]
      BY <1>3, <1>6, Shapes
    <3> QED BY <1>1, <3>1 DEF OwnedNow, Owned
  <2>2. ASSUME NEW a \in restart
        PROVE  heap'[a].sequence = heap[a].sequence /\ <<heap'[a].expiration, a>> \in timers_'
    BY <1>1, <1>3
  <2> TAKE x \in activeTimers_'
  <2>3. CASE x \in activeTimers_
    BY <2>1, <2>3
  <2>4. ASSUME NEW a \in restart, x = TimerId(a)
        PROVE  x[1] = a /\ x[2] = heap[a].sequence
    BY <2>4 DEF TimerId
  <2> QED BY <1>1, <2>2, <2>3, <2>4, Zenon
<1>12. \A x \in Adding : heap'[x[1]].sequence = x[2]
  BY <1>3, <1>7, Shapes DEF OwnedNow, Owned
<1>13. \A b \in Addrs : heap'[b] # Free => \/ <<heap'[b].expiration, b>> \in timers_'
                                            \/ <<b, heap'[b].sequence>> \in Adding
  <2> SUFFICES ASSUME NEW b \in Addrs, heap'[b] # Free
               PROVE  <<heap'[b].expiration, b>> \in timers_' \/ <<b, heap'[b].sequence>> \in Adding
    OBVIOUS
  <2>1. CASE b \in restart
    BY <1>1, <1>3, <2>1, Zenon
  <2>2. CASE b \notin restart
    <3>1. b \notin gone /\ heap'[b] = heap[b]
      BY <1>3, <2>2, Zenon
    <3> QED BY <1>1, <1>9, <2>2, <3>1 DEF OwnedNow, Owned
  <2> QED BY <2>1, <2>2
<1> QED BY <1>1, <1>10, <1>11, <1>12, <1>13, Zenon DEF OwnedNow, Owned

(* ~TimerQueue() deletes the timers of timers_, and only those. *)
LEMMA DestroyOwned ==
  ASSUME TypeOK, OwnedNow, Phase, Destroy, Adding' = Adding
  PROVE  OwnedNow'
<1>1. expired = {} /\ expired' = {} /\ timers_' = {} /\ activeTimers_' = {}
  BY Zenon DEF Destroy, Phase
<1>2. \A b \in Addrs : \/ heap'[b] = Free /\ \E e \in timers_ : e[2] = b
                       \/ heap'[b] = heap[b] /\ \A e \in timers_ : e[2] # b
  BY Zenon DEF Destroy
<1>3. \A x \in Adding : \A e \in timers_ : e[2] # x[1]
  BY Shapes DEF OwnedNow, Owned
<1>4. \A x \in Adding : heap'[x[1]].sequence = x[2]
  BY <1>2, <1>3, Shapes DEF OwnedNow, Owned
<1>5. \A b \in Addrs : heap'[b] # Free => <<b, heap'[b].sequence>> \in Adding
  BY <1>1, <1>2, Zenon DEF OwnedNow, Owned
<1> QED BY <1>1, <1>4, <1>5, Zenon DEF OwnedNow, Owned

(* Every step keeps every Timer with one owner. *)
LEMMA OwnedStep ==
  ASSUME TypeOK, OwnedNow, Numbered, AddedOnce, Phase, [Next]_vars
  PROVE  OwnedNow'
<1>1. ASSUME NEW c \in Callers, NEW id \in ids, CancelFrom(c, id) PROVE OwnedNow'
  BY <1>1, AddingStep, Zenon DEF CancelFrom, loopVars, OwnedNow
<1>2. ASSUME NEW id \in ids, CancelHere(id) PROVE OwnedNow'
  <2>1. id \in Ids /\ Adding' = Adding
    BY <1>2, AddingStep, Zenon DEF TypeOK, CancelHere
  <2> QED BY <1>2, <2>1, CancelOwned, Zenon DEF CancelHere
<1>3. CASE HandleRead \/ Reset \/ Destroy
  <2>1. Adding' = Adding
    BY <1>3, AddingStep, Zenon DEF HandleRead, Reset, Destroy
  <2> QED BY <1>3, <2>1, HandleReadOwned, ResetOwned, DestroyOwned
<1>4. CASE UNCHANGED <<timers_, activeTimers_, heap, expired, tasks>>
  BY <1>4, AddingStep, Zenon DEF OwnedNow
<1>5. \/ \E a \in Addrs, when \in Whens, interval \in Intervals :
           \/ AddTimerHere(a, when, interval)
           \/ \E c \in Callers : AddTimerFrom(c, a, when, interval)
      \/ \E c \in Callers, id \in ids : CancelFrom(c, id)
      \/ \E id \in ids : CancelHere(id)
      \/ RunTask \/ HandleRead \/ Reset \/ Destroy
      \/ UNCHANGED <<timers_, activeTimers_, heap, expired, tasks>>
  BY Zenon DEF Next, UserCall, UserCancel, HandleTimers, vars, loopVars, AddTimerReturn, Poll, RunTimer, EndCallback, Tick
<1> QED BY <1>1, <1>2, <1>3, <1>4, <1>5, NewTimerOwned, RunTaskOwned, Zenon

-----------------------------------------------------------------------------
(* Cancelled timers *)

(* The history variable missed records the cancels that overtake addTimerInLoop(). *)
LEMMA MissedIsAdding ==
  ASSUME TypeOK, NEW id \in Ids
  PROVE  (\E i \in 1..Len(tasks) : tasks[i] = [op |-> "add", id |-> id]) <=> id \in Adding
<1>1. \A i \in 1..Len(tasks) : tasks[i] \in Tasks
  BY Elements DEF TypeOK
<1>2. \A t \in Tasks : t.op = "add" /\ t.id = id <=> t = [op |-> "add", id |-> id]
  BY DEF Tasks
<1> QED BY <1>1, <1>2 DEF Adding

(* cancelInLoop() leaves its timer nowhere, or marked for reset(). *)
LEMMA CancelInLoopCancels ==
  ASSUME TypeOK, OwnedNow, Phase, CancelInv, NEW id \in Ids, CancelInLoop(id),
         Adding' = Adding, UNCHANGED <<expired, callingExpiredTimers_>>
  PROVE  CancelInv'
<1>1. /\ cancelled' = cancelled \cup {id} /\ activeTimers_' = activeTimers_ \ {id}
      /\ cancelingTimers_ \subseteq cancelingTimers_' /\ missed \subseteq missed'
      /\ id \in Adding => id \in missed'
  <2>1. id \in Adding => id \in missed'
    BY MissedIsAdding, Zenon DEF CancelInLoop
  <2> QED BY <2>1 DEF CancelInLoop, Canceling
<1>2. \A e \in expired : /\ heap'[e[2]] = heap[e[2]]
                         /\ id \in activeTimers_ => TimerId(e[2]) # id
  <2> TAKE e \in expired
  <2>0. e[2] \in Addrs
    BY Shapes
  <2>1. CASE id \in activeTimers_
    <3>1. <<heap[id[1]].expiration, id[1]>> \in timers_
      BY <2>1, Zenon DEF OwnedNow, Owned
    <3>2. e[2] # id[1]
      <4>1. <<heap[id[1]].expiration, id[1]>>[2] # e[2]
        BY <3>1 DEF OwnedNow, Owned
      <4> QED BY <4>1, Zenon
    <3>3. heap' = [heap EXCEPT ![id[1]] = Free]
      BY <2>1, Zenon DEF CancelInLoop
    <3> QED BY <2>0, <3>2, <3>3, Shapes DEF TimerId
  <2>2. CASE id \notin activeTimers_
    BY <2>2, Zenon DEF CancelInLoop
  <2> QED BY <2>1, <2>2
<1>3. \A e \in expired : TimerId(e[2]) = id => id \in cancelingTimers_'
  BY <1>2 DEF CancelInLoop, Canceling, Phase
<1>4. \A e \in expired : TimerId(e[2])' = TimerId(e[2])
  BY <1>2 DEF TimerId
<1> SUFFICES ASSUME NEW x \in cancelled' \ missed'
             PROVE  /\ x \notin activeTimers_' \cup Adding'
                    /\ \A e \in expired : TimerId(e[2]) = x => x \in cancelingTimers_'
  BY <1>4 DEF CancelInv
<1>5. CASE x = id
  BY <1>1, <1>3, <1>5
<1>6. CASE x # id
  BY <1>1, <1>6 DEF CancelInv
<1> QED BY <1>5, <1>6, Zenon

(* A cancelled timer stays cancelled. *)
LEMMA CancelStep ==
  ASSUME TypeOK, OwnedNow, Numbered, AddedOnce, Phase, CancelInv, [Next]_vars
  PROVE  CancelInv'
<1>1. ASSUME NEW a \in Addrs, NEW when \in Whens, NEW interval \in Intervals,
             \/ AddTimerHere(a, when, interval)
             \/ \E c \in Callers : AddTimerFrom(c, a, when, interval)
      PROVE  CancelInv'
  <2>1. /\ heap[a] = Free /\ NewTimer(a, when, interval)
        /\ UNCHANGED <<expired, cancelled, missed, cancelingTimers_>>
    BY <1>1, Zenon DEF AddTimerHere, AddTimerFrom, NewTimer, loopVars
  <2>2. activeTimers_' \cup Adding' = activeTimers_ \cup Adding \cup {<<a, numCreated + 1>>}
    <3>1. CASE AddTimerHere(a, when, interval)
      BY <3>1, AddingStep, Zenon DEF AddTimerHere, AddTimerInLoop
    <3>2. ASSUME NEW c \in Callers, AddTimerFrom(c, a, when, interval)
          PROVE  activeTimers_' = activeTimers_ /\ Adding' = Adding \cup {<<a, numCreated + 1>>}
      BY <3>2, AddingStep, Zenon DEF AddTimerFrom, loopVars
    <3> QED BY <1>1, <3>1, <3>2, Zenon
  <2>3. /\ \A e \in expired : e[2] # a
        /\ \A id \in cancelled : id # <<a, numCreated + 1>>
    BY <2>1, FreshAddress, Zenon
  <2>4. \A e \in expired : TimerId(e[2])' = TimerId(e[2])
    BY <2>1, <2>3, Shapes, Zenon DEF NewTimer, TimerId
  <2> QED BY <2>1, <2>2, <2>3, <2>4, Zenon DEF CancelInv
<1>2. ASSUME NEW c \in Callers, NEW id \in ids, CancelFrom(c, id) PROVE CancelInv'
  BY <1>2, AddingStep, Zenon DEF CancelFrom, loopVars, CancelInv, TimerId
<1>3. ASSUME NEW id \in ids, CancelHere(id) PROVE CancelInv'
  <2>1. id \in Ids /\ Adding' = Adding
    BY <1>3, AddingStep, Zenon DEF TypeOK, CancelHere
  <2> QED BY <1>3, <2>1, CancelInLoopCancels, Zenon DEF CancelHere
<1>4. CASE RunTask
  <2>1. CASE Head(tasks).op = "add"
    <3> DEFINE id == Head(tasks).id
    <3>1. /\ id \in Adding /\ id \in Ids /\ Adding' \subseteq Adding
          /\ activeTimers_' = activeTimers_ \cup {<<id[1], id[2]>>}
          /\ UNCHANGED <<heap, expired, cancelled, missed, cancelingTimers_>>
      BY <1>4, <2>1, AddingStep, Zenon DEF RunTask, AddTimerInLoop
    <3>2. id = <<id[1], id[2]>>
      BY <3>1, Shapes
    <3> HIDE DEF id
    <3> QED BY <3>1, <3>2 DEF CancelInv, TimerId
  <2>2. CASE Head(tasks).op # "add"
    <3>1. Head(tasks).id \in Ids /\ Adding' = Adding
      BY <1>4, <2>2, AddingStep
    <3> QED BY <1>4, <2>2, <3>1, CancelInLoopCancels DEF RunTask
  <2> QED BY <2>1, <2>2
<1>5. CASE HandleRead
  <2>1. /\ expired' \subseteq timers_ /\ activeTimers_' \subseteq activeTimers_ /\ Adding' = Adding
        /\ UNCHANGED <<heap, cancelled, missed>>
    BY <1>5, AddingStep, Zenon DEF HandleRead
  <2>2. \A e \in expired' : TimerId(e[2])' \in activeTimers_
    BY <2>1 DEF OwnedNow, Owned, TimerId
  <2> QED BY <2>1, <2>2, Zenon DEF CancelInv
<1>6. CASE Reset
  <2>1. /\ expired' = {} /\ Adding' = Adding /\ UNCHANGED <<cancelled, missed>>
        /\ activeTimers_' = activeTimers_ \cup {TimerId(a) : a \in {e[2] : e \in Restarted}}
    BY <1>6, AddingStep, Zenon DEF Reset
  <2>2. \A e \in Restarted : e \in expired /\ TimerId(e[2]) \notin cancelingTimers_
    BY DEF Restarted
  <2>3. \A x \in activeTimers_' : x \in activeTimers_ \/ \E e \in Restarted : x = TimerId(e[2])
    BY <2>1
  <2>4. \A x \in cancelled \ missed : x \notin activeTimers_' \cup Adding
    BY <2>2, <2>3, Zenon DEF CancelInv
  <2> QED BY <2>1, <2>4 DEF CancelInv
<1>7. CASE Destroy
  BY <1>7, AddingStep, Zenon DEF Destroy, CancelInv, Phase
<1>8. CASE UNCHANGED <<activeTimers_, heap, expired, tasks, cancelled, missed, cancelingTimers_>>
  BY <1>8, AddingStep, Zenon DEF CancelInv, TimerId
<1>9. \/ \E a \in Addrs, when \in Whens, interval \in Intervals :
           \/ AddTimerHere(a, when, interval)
           \/ \E c \in Callers : AddTimerFrom(c, a, when, interval)
      \/ \E c \in Callers, id \in ids : CancelFrom(c, id)
      \/ \E id \in ids : CancelHere(id)
      \/ RunTask \/ HandleRead \/ Reset \/ Destroy
      \/ UNCHANGED <<activeTimers_, heap, expired, tasks, cancelled, missed, cancelingTimers_>>
  BY Zenon DEF Next, UserCall, UserCancel, HandleTimers, vars, loopVars, AddTimerReturn, Poll, RunTimer, EndCallback, Tick
<1> QED BY <1>1, <1>2, <1>3, <1>4, <1>5, <1>6, <1>7, <1>8, <1>9, Zenon

-----------------------------------------------------------------------------
(* The timerfd *)

(* A timerfd armed for one expiration is armed for the later ones. *)
LEMMA ArmedForLater ==
  ASSUME TypeOK, NEW e \in Expirations \X Addrs, NEW f \in Expirations \X Addrs, e[1] <= f[1], ArmedFor(e)
  PROVE  ArmedFor(f)
<1>1. now \in 1..MaxTime /\ e[1] \in Expirations /\ f[1] \in Expirations /\ timerfd_ \in Nat
  BY Ranges DEF TypeOK
<1>2. e[1] <= e[1] /\ f[1] <= f[1]
  BY <1>1, Ranges, Zenon
<1>3. Armed(e[1]) <= Armed(f[1]) /\ Armed(e[1]) \in Expirations /\ Armed(f[1]) \in Expirations
  BY <1>1, <1>2, ArmedMonotonic
<1>4. Armed(e[1]) \in Nat /\ Armed(f[1]) \in Nat
  BY <1>3, Ranges, Zenon
<1> QED BY <1>1, <1>3, <1>4 DEF ArmedFor

(* addTimerInLoop() arms the timerfd for its timer when that is the earliest, and
   otherwise an earlier timer has done so. *)
LEMMA AddTimerArms ==
  ASSUME TypeOK, ArmInv, NEW a \in Addrs, NEW when \in Expirations, NEW q, AddTimerInLoop(a, when, q),
         UNCHANGED <<now, pc>>
  PROVE  ArmInv'
<1> DEFINE e == <<when, a>>
<1>0. /\ timers_' = timers_ \cup {e} /\ e \in Expirations \X Addrs /\ e[1] = when
      /\ \A f \in timers_ : f \in Expirations \X Addrs /\ f[1] \in Expirations /\ f[1] \in Nat
      /\ when \in Nat /\ now \in 1..MaxTime
      /\ \A f : ArmedFor(f)' = (timerfd_' # 0 /\ timerfd_' <= Armed(f[1]))
  <2>1. \A f \in timers_ : f \in Expirations \X Addrs /\ f[1] \in Expirations
    BY DEF TypeOK
  <2>2. \A f : ArmedFor(f)' = (timerfd_' # 0 /\ timerfd_' <= Armed(f[1]))
    BY DEF ArmedFor, Armed, Clip
  <2> QED BY <2>1, <2>2, Ranges, Zenon DEF AddTimerInLoop, TypeOK
<1> HIDE DEF e
<1>1. CASE EarliestChanged(when)
  <2>1. timerfd_' = Armed(when) /\ \A f \in timers_ : when < f[1]
    BY <1>1 DEF AddTimerInLoop, EarliestChanged
  <2>2. \A f \in timers_' : f[1] \in Expirations /\ when <= f[1]
    BY <1>0, <2>1
  <2>3. \A f \in timers_' : Armed(when) # 0 /\ Armed(when) <= Armed(f[1])
    BY <1>0, <2>2, ArmedMonotonic
  <2> QED BY <1>0, <2>1, <2>3, Zenon DEF ArmInv
<1>2. CASE ~EarliestChanged(when)
  <2>1. timerfd_' = timerfd_
    BY <1>2 DEF AddTimerInLoop
  <2>2. PICK f \in timers_ : f[1] <= when
    BY <1>0, <1>2 DEF EarliestChanged
  <2>3. ArmedFor(f) => ArmedFor(e)
    BY <1>0, <2>2, ArmedForLater
  <2>4. \A g : ArmedFor(g)' = ArmedFor(g)
    BY <1>0, <2>1 DEF ArmedFor
  <2>5. when = 0 => f[1] = 0
    BY <1>0, <2>2
  <2>6. ArmInv => (pc = "loop" => ArmedFor(e)) /\ (pc \in {"batch", "callback"} => (when = 0 => ArmedFor(e)))
    BY <2>2, <2>3, <2>5 DEF ArmInv
  <2> QED BY <1>0, <2>4, <2>6 DEF ArmInv
<1> QED BY <1>1, <1>2

(* The end of reset() arms the timerfd for the earliest timer; one with an invalid
   expiration was added in a callback, and addTimerInLoop() has armed it. *)
LEMMA ResetArms ==
  ASSUME LeastExists, TypeOK, TypeOK', Phase, ArmInv, Reset
  PROVE  ArmInv'
<1>1. /\ timerfd_' = Rearm(timers_') /\ now' = now /\ pc' = "loop" /\ pc = "batch"
      /\ timers_' = timers_ \cup {<<NewExpiration(a), a>> : a \in {e[2] : e \in Restarted}}
  BY Zenon DEF Reset
<1>2. /\ timers_' \in SUBSET (Expirations \X Addrs) /\ now \in 1..MaxTime
      /\ \A f : ArmedFor(f)' = (timerfd_' # 0 /\ timerfd_' <= Armed(f[1]))
  BY <1>1, Zenon DEF TypeOK, ArmedFor, Armed, Clip
<1>3. SUFFICES ASSUME timers_' # {}, NEW f \in timers_' PROVE ArmedFor(f)'
  BY <1>1 DEF ArmInv
<1> DEFINE e == Earliest(timers_')
<1>4. e \in timers_' /\ Before(e, f)
  BY <1>2, <1>3, HasEarliest
<1> HIDE DEF e
<1>5. /\ e \in Expirations \X Addrs /\ f \in Expirations \X Addrs
      /\ e[1] \in Expirations /\ f[1] \in Expirations
  BY <1>2, <1>3, <1>4
<1>6. e[1] \in Nat /\ f[1] \in Nat /\ e[1] <= f[1]
  <2>1. e[1] \in Nat /\ f[1] \in Nat
    BY <1>5, Ranges, Zenon
  <2>2. e[1] < f[1] \/ e[1] = f[1]
    BY <1>4 DEF Before
  <2> QED BY <2>1, <2>2
<1>7. CASE e[1] > 0
  <2>1. timerfd_' = Armed(e[1])
    BY <1>1, <1>3, <1>7 DEF Rearm, e
  <2>2. Armed(e[1]) # 0 /\ Armed(e[1]) <= Armed(f[1])
    BY <1>2, <1>5, <1>6, ArmedMonotonic
  <2> QED BY <1>2, <2>1, <2>2, Zenon
<1>8. CASE e[1] = 0
  <2>1. timerfd_' = timerfd_
    BY <1>1, <1>8 DEF Rearm, e
  <2>2. \A a \in Addrs : NewExpiration(a) # 0
    <3> TAKE a \in Addrs
    <3>1. heap[a].interval \in Intervals \cup {0}
      BY Zenon DEF TypeOK
    <3>2. heap[a].interval \in Nat /\ batchNow \in Nat /\ batchNow > 0 /\ MaxTime \in Nat \ {0}
      BY <1>1, <3>1, Ranges, SMTT(40) DEF TypeOK, Phase
    <3> QED BY <3>2 DEF NewExpiration, Clip
  <2>3. e \in timers_
    <3>1. \A a \in {x[2] : x \in Restarted} : a \in Addrs
      BY DEF Restarted, TypeOK
    <3>2. \A a \in {x[2] : x \in Restarted} : e # <<NewExpiration(a), a>>
      BY <1>8, <2>2, <3>1
    <3> QED BY <1>1, <1>4, <3>2
  <2>4. ArmedFor(e)
    BY <1>1, <1>8, <2>3 DEF ArmInv
  <2>5. ArmedFor(f)
    BY <1>5, <1>6, <2>4, ArmedForLater
  <2> QED BY <1>2, <2>1, <2>5 DEF ArmedFor
<1> QED BY <1>6, <1>7, <1>8

(* The timerfd is armed after every step. *)
LEMMA ArmStep ==
  ASSUME LeastExists, TypeOK, TypeOK', AddedOnce, Phase, ArmInv, [Next]_vars
  PROVE  ArmInv'
<1>1. ASSUME NEW a \in Addrs, NEW when \in Whens, NEW interval \in Intervals, AddTimerHere(a, when, interval)
      PROVE  ArmInv'
  BY <1>1, AddTimerArms, Ranges, Zenon DEF AddTimerHere
<1>2. ASSUME NEW id, CancelInLoop(id), UNCHANGED <<now, pc, timerfd_>> PROVE ArmInv'
  BY <1>2, Zenon DEF CancelInLoop, ArmInv, ArmedFor, Armed, Clip
<1>3. ASSUME NEW id \in ids, CancelHere(id) PROVE ArmInv'
  BY <1>2, <1>3 DEF CancelHere
<1>4. CASE RunTask
  <2> DEFINE id == Head(tasks).id
  <2>1. id[1] \in Addrs /\ heap[id[1]].expiration \in Expirations
    BY <1>4, AddingStep, Shapes, Zenon DEF Ids, Timers
  <2>2. CASE Head(tasks).op = "add"
    BY <1>4, <2>1, <2>2, AddTimerArms, Zenon DEF RunTask
  <2>3. CASE Head(tasks).op # "add"
    BY <1>2, <1>4, <2>3, Zenon DEF RunTask
  <2> QED BY <2>2, <2>3
<1>5. CASE HandleRead
  <2>1. /\ timers_' = timers_ \ {e \in timers_ : IsExpired(e)} /\ pc' = "batch"
    BY <1>5, Zenon DEF HandleRead
  <2>2. \A e \in timers_' : e[1] # 0
    BY <2>1 DEF IsExpired, TypeOK
  <2> QED BY <2>1, <2>2 DEF ArmInv
<1>6. CASE Reset
  BY <1>6, ResetArms, Zenon
<1>7. CASE Destroy
  BY <1>7, Zenon DEF Destroy, ArmInv
<1>8. CASE Tick
  <2>1. \A e \in timers_ : Armed(e[1]) \in Nat /\ Armed(e[1])' \in Nat /\ Armed(e[1]) <= Armed(e[1])'
    <3> TAKE e \in timers_
    <3>1. e[1] \in Nat /\ now \in Nat /\ now' = now + 1 /\ MaxTime \in Nat
      BY <1>8, Shapes, Ranges, SMTT(40) DEF Tick, TypeOK
    <3> QED BY <3>1 DEF Armed, Clip
  <2>2. UNCHANGED <<timers_, timerfd_, pc>> /\ timerfd_ \in Nat
    BY <1>8, Ranges DEF Tick, loopVars, TypeOK
  <2>3. \A e \in timers_ : ArmedFor(e) => ArmedFor(e)'
    BY <2>1, <2>2 DEF ArmedFor
  <2> QED BY <2>2, <2>3 DEF ArmInv
<1>9. CASE RunTimer \/ EndCallback
  BY <1>9 DEF RunTimer, EndCallback, ArmInv, ArmedFor, Armed, Clip
<1>10. CASE UNCHANGED <<now, timers_, timerfd_, pc>>
  BY <1>10 DEF ArmInv, ArmedFor, Armed, Clip
<1>11. \/ \E a \in Addrs, when \in Whens, interval \in Intervals : AddTimerHere(a, when, interval)
       \/ \E id \in ids : CancelHere(id)
       \/ RunTask \/ HandleRead \/ Reset \/ Destroy \/ Tick \/ RunTimer \/ EndCallback
       \/ UNCHANGED <<now, timers_, timerfd_, pc>>
  BY Zenon DEF Next, UserCall, UserCancel, HandleTimers, vars, loopVars, AddTimerFrom, CancelFrom, AddTimerReturn, Poll
<1> QED BY <1>1, <1>3, <1>4, <1>5, <1>6, <1>7, <1>8, <1>9, <1>10, <1>11

-----------------------------------------------------------------------------
(* The empty queue satisfies the invariant. *)
LEMMA IInvInit == Init => IInv
<1> SUFFICES ASSUME Init PROVE IInv
  OBVIOUS
<1>1. TypeOK
  BY TypeInit
<1>2. Adding = {} /\ Len(tasks) = 0 /\ 1..Len(tasks) = {}
  <2>1. Len(tasks) = 0
    BY DEF Init
  <2>2. 1..Len(tasks) = {}
    BY <2>1
  <2> QED BY <2>1, <2>2 DEF Adding
<1>3. SameTimers /\ OwnedOnce
  BY <1>2, Zenon DEF Init, SameTimers, OwnedOnce, Addresses
<1>4. Numbered
  BY <1>2, SMTT(40) DEF Init, Numbered, None
<1>4a. AddedOnce
  BY <1>2 DEF Init, AddedOnce
<1>5. Phase /\ CancelInv /\ ArmInv
  BY DEF Init, Phase, CancelInv, ArmInv
<1> QED BY <1>1, <1>3, <1>4, <1>4a, <1>5 DEF IInv

(* Every step of the loop thread, of the callers and of the clock keeps it. *)
LEMMA IInvStep ==
  ASSUME LeastExists
  PROVE  IInv /\ [Next]_vars => IInv'
<1> SUFFICES ASSUME IInv, [Next]_vars PROVE IInv'
  OBVIOUS
<1>1. TypeOK /\ SameTimers /\ OwnedOnce /\ Numbered /\ AddedOnce /\ Phase /\ CancelInv /\ ArmInv
  BY DEF IInv
<1>2. OwnedNow
  BY <1>1, OwnedIs
<1>3. TypeOK'
  BY <1>1, TypeStep
<1>4. OwnedNow' /\ Numbered' /\ AddedOnce' /\ Phase'
  BY <1>1, <1>2, <1>3, OwnedStep, NumberedStep, AddedOnceStep, PhaseStep
<1>5. CancelInv' /\ ArmInv'
  BY <1>1, <1>2, <1>3, CancelStep, ArmStep
<1> QED BY <1>3, <1>4, <1>5, OwnedIsNext DEF IInv

-----------------------------------------------------------------------------
(* The theorems *)

INSTANCE WellFoundedInduction

(* Every nonempty set of naturals has a least element. *)
LEMMA LeastNatural == LeastExists
<1> SUFFICES ASSUME NEW T \in SUBSET Nat, T # {} PROVE \E m \in T : \A n \in T : m <= n
  BY DEF LeastExists
<1> DEFINE R == OpToRel(<, Nat)
<1>1. IsWellFoundedOn(R, Nat)
  BY NatLessThanWellFounded, Zenon
<1>2. \A m, n \in Nat : <<n, m>> \in R <=> n < m
  BY DEF OpToRel
<1> HIDE DEF R
<1>3. PICK m \in T : \A n \in T : ~(<<n, m>> \in R)
  BY <1>1, WFMin, Zenon
<1>4. \A n \in T : n \in Nat /\ m \in Nat /\ ~(n < m)
  BY <1>2, <1>3, Zenon
<1> QED BY <1>4

(* For every number of callers and timers: timers_ and activeTimers_ agree, and every
   Timer has exactly one owner, whatever TimerIds are cancelled and wherever the
   allocator places the next Timer. *)
THEOREM TimersAgree == Spec => []TimersConsistent
<1>1. IInv /\ [Next]_vars => IInv'
  BY LeastNatural, IInvStep
<1>2. IInv => TimersConsistent
  BY DEF IInv, TimersConsistent
<1> QED BY <1>1, <1>2, IInvInit, PTL DEF Spec

(* While the loop waits and there are timers, the timerfd is armed for the earliest of
   them or sooner: addTimerInLoop(), cancelInLoop() and reset() never leave it unarmed. *)
THEOREM TimerfdStaysArmed == Spec => []TimerfdArmed
<1>1. IInv /\ [Next]_vars => IInv'
  BY LeastNatural, IInvStep
<1>2. IInv => TimerfdArmed
  <2> SUFFICES ASSUME IInv, pc = "loop", timers_ # {}
               PROVE  timerfd_ # 0 /\ timerfd_ <= Armed(Earliest(timers_)[1])
    BY DEF TimerfdArmed
  <2>1. Earliest(timers_) \in timers_
    BY LeastNatural, HasEarliest DEF IInv, TypeOK
  <2> QED BY <2>1 DEF IInv, ArmInv, ArmedFor
<1> QED BY <1>1, <1>2, IInvInit, PTL DEF Spec

(* A timer cancelled after it was added is never scheduled again, whether cancelInLoop()
   finds it in timers_ or in the hands of handleRead(). *)
THEOREM CancelWorks == Spec => []CancelEffective
<1>1. IInv /\ [Next]_vars => IInv'
  BY LeastNatural, IInvStep
<1>2. IInv => CancelEffective
  BY DEF IInv, CancelInv, CancelEffective
<1> QED BY <1>1, <1>2, IInvInit, PTL DEF Spec
===============================================================================

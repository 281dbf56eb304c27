------------------------------ MODULE TimerQueue ------------------------------
(***************************************************************************)
(* fishnet/net/timer_queue.{h,cc} and timer.{h,cc}: the timers of one        *)
(* EventLoop.  The loop thread owns timers_ and activeTimers_; other threads *)
(* reach them through functors that the loop runs first in, first out (the  *)
(* guarantee EventLoop.tla establishes).                                     *)
(*                                                                         *)
(* Time is counted in units of 100 microseconds, the shortest delay          *)
(* howMuchTimeFromNow() asks of the timerfd.  Timestamp 0 is invalid().      *)
(* A Timer is an address of the heap, and addresses are reused after delete. *)
(***************************************************************************)
EXTENDS Naturals, Sequences

CONSTANTS
  Callers,      \* threads other than the loop thread
  Addrs,        \* addresses the allocator can return for a Timer (naturals: ordered)
  MaxTimers,    \* bound on the timers created
  Whens,        \* times callers ask for
  MaxTime,      \* the clock saturates here: MaxTime is every instant from then on
  Intervals     \* intervals of repeating timers; 0 is one-shot

ASSUME TimerConstants ==
  /\ Addrs \subseteq Nat
  /\ MaxTimers \in Nat /\ MaxTime \in Nat \ {0} /\ Whens \subseteq 0..MaxTime
  /\ Intervals \subseteq Nat

VARIABLES
  now,                    \* Timestamp::now()
  heap,                   \* per address: the Timer there, or Free
  numCreated,             \* Timer::s_numCreated_
  timers_,                \* set of <<expiration, address>>
  activeTimers_,          \* set of <<address, sequence>>
  cancelingTimers_,
  callingExpiredTimers_,
  timerfd_,               \* expiry it is armed for; 0 once read or never armed
  fdActive,               \* poll() returned the timerfd in activeChannels_
  pc,                     \* "loop", or inside handleRead(): "batch", "callback"
  toRun,                  \* expired entries whose callback has not started
  expired,                \* all entries of this handleRead()
  batchNow,               \* its local variable now
  tasks,                  \* functors queued by other threads
  returning,              \* per caller: Timer whose sequence() addTimer() still reads
  ids,                    \* TimerIds handed out
  current,                \* id of the timer whose callback runs
  cancelled,              \* history: ids for which cancelInLoop() has run
  missed                  \* history: those whose addTimerInLoop() had not run by then

loopVars  == <<timers_, activeTimers_, cancelingTimers_, callingExpiredTimers_,
               timerfd_, fdActive, pc, toRun, expired, batchNow, current, cancelled, missed>>
vars      == <<now, heap, numCreated, tasks, returning, ids, loopVars>>

Seqs  == 0..MaxTimers
Free  == [sequence |-> 0, expiration |-> 0, interval |-> 0]
None  == <<0, 0>>
Ids   == Addrs \X Seqs
Expirations == 0..MaxTime
Tasks == [op : {"add"}, id : Ids] \cup [op : {"cancel"}, id : Ids]

TypeOK ==
  /\ now \in 1..MaxTime
  /\ heap \in [Addrs -> [sequence : Seqs, expiration : Expirations, interval : Intervals \cup {0}]]
  /\ numCreated \in Seqs
  /\ timers_ \in SUBSET (Expirations \X Addrs)
  /\ activeTimers_ \in SUBSET Ids
  /\ cancelingTimers_ \in SUBSET Ids
  /\ callingExpiredTimers_ \in BOOLEAN
  /\ timerfd_ \in Expirations
  /\ fdActive \in BOOLEAN
  /\ pc \in {"loop", "batch", "callback", "destroyed"}
  /\ toRun \in SUBSET (Expirations \X Addrs) /\ toRun \subseteq expired
  /\ expired \in SUBSET (Expirations \X Addrs)
  /\ batchNow \in 0..MaxTime
  /\ tasks \in Seq(Tasks)
  /\ returning \in [Callers -> Ids \cup {None}]
  /\ ids \in SUBSET Ids
  /\ current \in Ids \cup {None}
  /\ cancelled \in SUBSET Ids
  /\ missed \in SUBSET Ids

Init ==
  /\ now = 1
  /\ heap = [a \in Addrs |-> Free]
  /\ numCreated = 0
  /\ timers_ = {} /\ activeTimers_ = {} /\ cancelingTimers_ = {}
  /\ callingExpiredTimers_ = FALSE
  /\ timerfd_ = 0 /\ fdActive = FALSE
  /\ pc = "loop"
  /\ toRun = {} /\ expired = {} /\ batchNow = 0
  /\ tasks = <<>>
  /\ returning = [c \in Callers |-> None]
  /\ ids = {} /\ current = None
  /\ cancelled = {} /\ missed = {}

-----------------------------------------------------------------------------
Clip(t) == IF t > MaxTime THEN MaxTime ELSE t

(* howMuchTimeFromNow() / timerfd_settime(): at least one unit ahead. *)
Armed(expiration) == Clip(IF expiration < now + 1 THEN now + 1 ELSE expiration)

TimerId(a) == <<a, heap[a].sequence>>

Before(e, f) == e[1] < f[1] \/ (e[1] = f[1] /\ e[2] <= f[2])

Earliest(S) == CHOOSE e \in S : \A f \in S : Before(e, f)

EarliestChanged_IfEmpty(when) == timers_ = {}

(* The result of insert(): when < begin()->first, or there was no timer. *)
EarliestChanged(when) == \A e \in timers_ : when < e[1]

(* addTimerInLoop() of the timer at address a, which expires at "when". *)
AddTimerInLoop(a, when, sequence) ==
  /\ timers_' = timers_ \cup {<<when, a>>}
  /\ activeTimers_' = activeTimers_ \cup {<<a, sequence>>}
  /\ timerfd_' = IF EarliestChanged(when) THEN Armed(when) ELSE timerfd_

Canceling_ActiveOnly(id) == UNCHANGED cancelingTimers_

(* The else branch of cancelInLoop(): remembered until reset(). *)
Canceling(id) ==
  cancelingTimers_' = IF callingExpiredTimers_ THEN cancelingTimers_ \cup {id}
                                               ELSE cancelingTimers_

CancelInLoop_DeleteExpired(id) ==
  /\ cancelled' = cancelled \cup {id}
  /\ missed' = missed
  /\ timers_' = {e \in timers_ : e[2] # id[1]}
  /\ activeTimers_' = activeTimers_ \ {id}
  /\ heap' = IF heap[id[1]].sequence = id[2] THEN [heap EXCEPT ![id[1]] = Free] ELSE heap
  /\ UNCHANGED cancelingTimers_

CancelInLoop(id) ==
  /\ cancelled' = cancelled \cup {id}
  /\ missed' = IF \E i \in 1..Len(tasks) : tasks[i] = [op |-> "add", id |-> id]
               THEN missed \cup {id} ELSE missed
  /\ \/ /\ id \in activeTimers_
        /\ timers_' = timers_ \ {<<heap[id[1]].expiration, id[1]>>}
        /\ heap' = [heap EXCEPT ![id[1]] = Free]
        /\ activeTimers_' = activeTimers_ \ {id}
        /\ UNCHANGED cancelingTimers_
     \/ /\ id \notin activeTimers_
        /\ Canceling(id)
        /\ UNCHANGED <<timers_, heap, activeTimers_>>

-----------------------------------------------------------------------------
(* addTimer() and cancel() *)

(* new Timer(...) *)
NewTimer(a, when, interval) ==
  /\ heap[a] = Free
  /\ numCreated < MaxTimers
  /\ numCreated' = numCreated + 1
  /\ heap' = [heap EXCEPT ![a] = [sequence   |-> numCreated + 1,
                                   expiration |-> when,
                                   interval   |-> interval]]

(* User code runs in the loop thread between events and inside timer callbacks. *)
InUserCode == pc \in {"loop", "callback"}

(* addTimer() in the loop thread. *)
AddTimerHere(a, when, interval) ==
  /\ InUserCode
  /\ NewTimer(a, when, interval)
  /\ AddTimerInLoop(a, when, numCreated + 1)
  /\ ids' = ids \cup {<<a, numCreated + 1>>}
  /\ UNCHANGED <<now, tasks, returning, cancelingTimers_, callingExpiredTimers_,
                 fdActive, pc, toRun, expired, batchNow, current, cancelled, missed>>

(* addTimer() in another thread, up to and including runInLoop(). *)
AddTimerFrom(c, a, when, interval) ==
  /\ pc # "destroyed"
  /\ returning[c] = None
  /\ NewTimer(a, when, interval)
  /\ tasks' = Append(tasks, [op |-> "add", id |-> <<a, numCreated + 1>>])
  /\ returning' = [returning EXCEPT ![c] = <<a, numCreated + 1>>]
  /\ UNCHANGED <<now, ids, loopVars>>

(* return TimerId(timer, timer->sequence()): when the loop thread has deleted the
   timer by now, the freed memory holds the old value, that of a Timer allocated
   there since, or no sequence at all (0). *)
AddTimerReturn(c) ==
  /\ returning[c] # None
  /\ \E s \in {returning[c][2], heap[returning[c][1]].sequence} :
       ids' = ids \cup {<<returning[c][1], s>>}
  /\ returning' = [returning EXCEPT ![c] = None]
  /\ UNCHANGED <<now, heap, numCreated, tasks, loopVars>>

CancelHere(id) ==
  /\ InUserCode
  /\ id \in ids
  /\ CancelInLoop(id)
  /\ UNCHANGED <<now, numCreated, tasks, returning, ids, callingExpiredTimers_,
                 timerfd_, fdActive, pc, toRun, expired, batchNow, current>>

CancelFrom(c, id) ==
  /\ pc # "destroyed"
  /\ returning[c] = None
  /\ id \in ids
  /\ \A i \in 1..Len(tasks) : tasks[i] # [op |-> "cancel", id |-> id]   \* bounds tasks
  /\ tasks' = Append(tasks, [op |-> "cancel", id |-> id])
  /\ UNCHANGED <<now, heap, numCreated, returning, ids, loopVars>>

-----------------------------------------------------------------------------
(* The loop thread *)

RunTask ==
  /\ pc = "loop"
  /\ tasks # <<>>
  /\ tasks' = Tail(tasks)
  /\ LET task == Head(tasks)
     IN \/ /\ task.op = "add"
           /\ AddTimerInLoop(task.id[1], heap[task.id[1]].expiration, task.id[2])
           /\ UNCHANGED <<heap, cancelingTimers_, cancelled, missed>>
        \/ /\ task.op = "cancel"
           /\ CancelInLoop(task.id)
           /\ UNCHANGED timerfd_
  /\ UNCHANGED <<now, numCreated, returning, ids, callingExpiredTimers_,
                 fdActive, pc, toRun, expired, batchNow, current>>

FdReadable == timerfd_ # 0 /\ timerfd_ <= now

(* poll() puts the timerfd channel among the active ones. *)
Poll ==
  /\ pc = "loop"
  /\ ~fdActive /\ FdReadable
  /\ fdActive' = TRUE
  /\ UNCHANGED <<now, heap, numCreated, tasks, returning, ids, timers_, activeTimers_,
                 cancelingTimers_, callingExpiredTimers_, timerfd_, pc, toRun, expired,
                 batchNow, current, cancelled, missed>>

(* lower_bound((now, UINTPTR_MAX)) *)
IsExpired(e) == e[1] <= now

(* handleRead() up to the callbacks.  readTimerfd() finds nothing to read when a
   callback earlier in this iteration has armed the timerfd again. *)
HandleRead ==
  /\ pc = "loop"
  /\ fdActive
  /\ fdActive' = FALSE
  /\ timerfd_' = IF FdReadable THEN 0 ELSE timerfd_
  /\ expired' = {e \in timers_ : IsExpired(e)}
  /\ toRun' = expired'
  /\ timers_' = timers_ \ expired'
  /\ activeTimers_' = activeTimers_ \ {TimerId(e[2]) : e \in expired'}
  /\ callingExpiredTimers_' = TRUE
  /\ cancelingTimers_' = {}
  /\ batchNow' = now
  /\ pc' = "batch"
  /\ UNCHANGED <<now, heap, numCreated, tasks, returning, ids, current, cancelled, missed>>

RunTimer ==
  /\ pc = "batch"
  /\ toRun # {}
  /\ LET e == Earliest(toRun)
     IN /\ toRun' = toRun \ {e}
        /\ current' = TimerId(e[2])
  /\ pc' = "callback"
  /\ UNCHANGED <<now, heap, numCreated, tasks, returning, ids, timers_, activeTimers_,
                 cancelingTimers_, callingExpiredTimers_, timerfd_, fdActive, expired,
                 batchNow, cancelled, missed>>

EndCallback ==
  /\ pc = "callback"
  /\ pc' = "batch"
  /\ current' = None
  /\ UNCHANGED <<now, heap, numCreated, tasks, returning, ids, timers_, activeTimers_,
                 cancelingTimers_, callingExpiredTimers_, timerfd_, fdActive, toRun, expired,
                 batchNow, cancelled, missed>>

(* The entries reset() inserts again: repeating and not cancelled meanwhile. *)
Restarted == {e \in expired : heap[e[2]].interval > 0 /\ TimerId(e[2]) \notin cancelingTimers_}

(* Timer::restart() *)
NewExpiration(a) == Clip(batchNow + heap[a].interval)

Rearm_IfRestarted(S) == IF Restarted = {} THEN timerfd_ ELSE Armed(Earliest(S)[1])

(* The end of reset(): valid() is "> 0". *)
Rearm(S) == IF S # {} /\ Earliest(S)[1] > 0 THEN Armed(Earliest(S)[1]) ELSE timerfd_

Reset ==
  /\ pc = "batch"
  /\ toRun = {}
  /\ LET restart == {e[2] : e \in Restarted}
         gone    == {e[2] : e \in expired} \ restart
     IN /\ heap' = [a \in Addrs |-> IF a \in restart
                                      THEN [heap[a] EXCEPT !.expiration = NewExpiration(a)]
                                      ELSE IF a \in gone THEN Free ELSE heap[a]]
        /\ timers_' = timers_ \cup {<<NewExpiration(a), a>> : a \in restart}
        /\ activeTimers_' = activeTimers_ \cup {TimerId(a) : a \in restart}
  /\ timerfd_' = Rearm(timers_')
  /\ callingExpiredTimers_' = FALSE
  /\ expired' = {}
  /\ pc' = "loop"
  /\ UNCHANGED <<now, numCreated, tasks, returning, ids, cancelingTimers_, fdActive,
                 toRun, batchNow, current, cancelled, missed>>

(* ~TimerQueue(); the owner of the loop destroys it when no thread is inside a
   call on it. *)
Destroy ==
  /\ pc = "loop"
  /\ \A c \in Callers : returning[c] = None
  /\ heap' = [a \in Addrs |-> IF a \in {e[2] : e \in timers_} THEN Free ELSE heap[a]]
  /\ timers_' = {} /\ activeTimers_' = {}
  /\ timerfd_' = 0 /\ fdActive' = FALSE
  /\ pc' = "destroyed"
  /\ UNCHANGED <<now, numCreated, tasks, returning, ids, cancelingTimers_, callingExpiredTimers_,
                 toRun, expired, batchNow, current, cancelled, missed>>

Tick ==
  /\ now < MaxTime
  /\ now' = now + 1
  /\ UNCHANGED <<heap, numCreated, tasks, returning, ids, loopVars>>

-----------------------------------------------------------------------------
HandleTimers == Poll \/ HandleRead \/ RunTimer \/ EndCallback \/ Reset

UserCall ==
  \E a \in Addrs, when \in Whens, interval \in Intervals :
    \/ AddTimerHere(a, when, interval)
    \/ \E c \in Callers : AddTimerFrom(c, a, when, interval)

UserCancel ==
  \E id \in ids : CancelHere(id) \/ \E c \in Callers : CancelFrom(c, id)

Next ==
  \/ UserCall \/ UserCancel
  \/ \E c \in Callers : AddTimerReturn(c)
  \/ RunTask \/ HandleTimers \/ Destroy \/ Tick

Spec == Init /\ [][Next]_vars

(* The clock advances; the loop thread runs its functors and, between two of
   them, serves the timerfd (every iteration of loop() does both). *)
FairSpec == Spec /\ WF_vars(Tick) /\ WF_vars(HandleTimers) /\ SF_vars(RunTask)

-----------------------------------------------------------------------------
(* Properties *)

Addresses(S) == {e[2] : e \in S}

Adding == {tasks[i].id : i \in {j \in 1..Len(tasks) : tasks[j].op = "add"}}

(* timers_ and activeTimers_ always hold the same timers, each under the
   expiration the Timer itself has (what the asserts on their sizes and on
   erase() in cancelInLoop(), getExpired() and insert() rely on). *)
SameTimers ==
  /\ activeTimers_ = {TimerId(a) : a \in Addresses(timers_)}
  /\ \A e \in timers_ : heap[e[2]] # Free /\ heap[e[2]].expiration = e[1]

(* Every Timer has exactly one owner, so it is deleted once and never used
   after that by the loop thread: the functor that will add it, timers_, or the
   handleRead() that took it out.  Callbacks that cancel themselves, each other
   or timers of the same batch, and a new Timer at the address of a deleted
   one, do not change that. *)
OwnedOnce ==
  /\ \A a \in Addrs : heap[a] # Free => a \in Addresses(timers_ \cup expired) \/ TimerId(a) \in Adding
  /\ Addresses(timers_) \cap Addresses(expired) = {}
  /\ \A a \in Addresses(timers_ \cup expired) : TimerId(a) \notin Adding
  /\ \A e \in expired : heap[e[2]] # Free /\ heap[e[2]].expiration = e[1]
  /\ \A id \in Adding : heap[id[1]].sequence = id[2]

(* The bookkeeping of TimerQueue is consistent at every step, whatever stale
   TimerIds cancel() is given: the two sets agree and every Timer has one owner. *)
TimersConsistent == TypeOK /\ SameTimers /\ OwnedOnce

(* No timer is forgotten: outside handleRead(), while there are timers the
   timerfd is armed (or already readable) for the earliest of them or sooner,
   give or take the 100 microseconds howMuchTimeFromNow() adds. *)
TimerfdArmed ==
  pc = "loop" /\ timers_ # {} => /\ timerfd_ # 0
                                 /\ timerfd_ <= Armed(Earliest(timers_)[1])

(* A timer whose cancelInLoop() has run after its addTimerInLoop() is gone once
   handleRead(), if that is where the cancel came from, is over: it is not
   scheduled, not restarted by reset(), and about to be added by nobody. *)
CancelEffective ==
  pc = "loop" => \A id \in cancelled \ missed : id \notin activeTimers_ \cup Adding

(* A timer in timers_ runs, is cancelled, or the queue is destroyed: the
   timerfd is never left unarmed while the loop waits. *)
TimersRun ==
  \A id \in Ids :
    id \in activeTimers_ ~> (current = id \/ id \in cancelled \/ pc = "destroyed")
=============================================================================

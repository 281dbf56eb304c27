------------------------------ MODULE ThreadPool ------------------------------
(***************************************************************************)
(* fishnet/base/thread_pool.{h,cc}: workers take tasks from a queue that may   *)
(* be bounded; callers put them there; one thread stops the pool.  A critical  *)
(* section is one step.  A thread that wants the mutex is "in"; one that waits *)
(* on its condition (notEmpty_ for workers, notFull_ for callers) is "wait".   *)
(* runInThread() reads running_ without the mutex.                             *)
(***************************************************************************)
EXTENDS Naturals, Sequences, FiniteSets

CONSTANTS
  Workers, Callers,
  maxQueueSize_,      \* 0: not bounded
  MaxTasks            \* bound on the calls of run()

VARIABLES
  running_, queue_,
  pc,          \* per thread
  owner,       \* the thread that starts and stops the pool
  calls,       \* tasks given to run()
  accepted,    \* history: tasks queued or run at once, in order
  begun        \* history: tasks taken, in order

vars == <<running_, queue_, pc, owner, calls, accepted, begun>>

Threads == Workers \cup Callers

Init ==
  /\ running_ = FALSE /\ queue_ = <<>> /\ owner = "new"
  /\ pc = [t \in Threads |-> IF t \in Workers THEN "none" ELSE "out"]
  /\ calls = 0 /\ accepted = <<>> /\ begun = <<>>

In(S)      == {t \in S : pc[t] = "in"}
Waiting(S) == {t \in S : pc[t] = "wait"}

(* Condition::notify() *)
Notified(S) == IF Waiting(S) = {} THEN {{}} ELSE {{t} : t \in Waiting(S)}

Go(t, to, W) == pc' = [u \in Threads |-> IF u = t THEN to ELSE IF u \in W THEN "in" ELSE pc[u]]

-----------------------------------------------------------------------------
(* start(): the threads run as soon as they are created. *)
Start ==
  /\ owner = "new"
  /\ running_' = TRUE /\ owner' = "starting"
  /\ UNCHANGED <<queue_, pc, calls, accepted, begun>>

StartWorker(w) ==
  /\ owner = "starting" /\ pc[w] = "none"
  /\ pc' = [pc EXCEPT ![w] = "test"]
  /\ UNCHANGED <<running_, queue_, owner, calls, accepted, begun>>

Started ==
  /\ owner = "starting" /\ \A w \in Workers : pc[w] # "none"
  /\ owner' = "started"
  /\ UNCHANGED <<running_, queue_, pc, calls, accepted, begun>>

-----------------------------------------------------------------------------
isFull == maxQueueSize_ > 0 /\ Len(queue_) >= maxQueueSize_

(* run(): as long as there are no threads the task is run at once.  threads_ is read
   without the mutex, so nobody calls run() while start() fills it.  Tasks are
   numbered as they are accepted. *)
Run(c) ==
  /\ pc[c] = "out" /\ owner # "starting"
  /\ calls < MaxTasks
  /\ calls' = calls + 1
  /\ IF owner = "new" \/ Workers = {}
     THEN /\ accepted' = Append(accepted, Len(accepted) + 1)
          /\ begun' = Append(begun, Len(accepted) + 1)
          /\ UNCHANGED pc
     ELSE pc' = [pc EXCEPT ![c] = "in"] /\ UNCHANGED <<accepted, begun>>
  /\ UNCHANGED <<running_, queue_, owner>>

RunWait(c) ==
  /\ pc[c] = "in" /\ isFull /\ running_
  /\ pc' = [pc EXCEPT ![c] = "wait"]
  /\ UNCHANGED <<running_, queue_, owner, calls, accepted, begun>>

RunRefused(c) ==
  /\ pc[c] = "in" /\ ~running_
  /\ pc' = [pc EXCEPT ![c] = "out"]
  /\ UNCHANGED <<running_, queue_, owner, calls, accepted, begun>>

NotifyNotEmpty == Notified(Workers)

RunPush(c) ==
  /\ pc[c] = "in" /\ ~isFull /\ running_
  /\ queue_' = Append(queue_, Len(accepted) + 1)
  /\ accepted' = Append(accepted, Len(accepted) + 1)
  /\ \E W \in NotifyNotEmpty : Go(c, "out", W)
  /\ UNCHANGED <<running_, owner, calls, begun>>

-----------------------------------------------------------------------------
(* runInThread() *)
TestRunning(w) ==
  /\ pc[w] = "test"
  /\ pc' = [pc EXCEPT ![w] = IF running_ THEN "in" ELSE "done"]
  /\ UNCHANGED <<running_, queue_, owner, calls, accepted, begun>>

(* take(): wait, take a task, or return none from a stopped pool. *)
TakeWait(w) ==
  /\ pc[w] = "in" /\ queue_ = <<>> /\ running_
  /\ pc' = [pc EXCEPT ![w] = "wait"]
  /\ UNCHANGED <<running_, queue_, owner, calls, accepted, begun>>

NotifyNotFull == IF maxQueueSize_ > 0 THEN Notified(Callers) ELSE {{}}

Pop == queue_' = Tail(queue_)

Take(w) ==
  /\ pc[w] = "in" /\ queue_ # <<>>
  /\ begun' = Append(begun, Head(queue_))
  /\ Pop
  /\ \E W \in NotifyNotFull : Go(w, "task", W)
  /\ UNCHANGED <<running_, owner, calls, accepted>>

TakeNothing(w) ==
  /\ pc[w] = "in" /\ queue_ = <<>> /\ ~running_
  /\ pc' = [pc EXCEPT ![w] = "test"]
  /\ UNCHANGED <<running_, queue_, owner, calls, accepted, begun>>

TaskEnds(w) ==
  /\ pc[w] = "task"
  /\ pc' = [pc EXCEPT ![w] = "test"]
  /\ UNCHANGED <<running_, queue_, owner, calls, accepted, begun>>

SpuriousWakeup(t) ==
  /\ pc[t] = "wait"
  /\ pc' = [pc EXCEPT ![t] = "in"]
  /\ UNCHANGED <<running_, queue_, owner, calls, accepted, begun>>

-----------------------------------------------------------------------------
(* notifyAll() of both conditions *)
NotifyStop == pc' = [t \in Threads |-> IF t \in Waiting(Threads) THEN "in" ELSE pc[t]]

Stop ==
  /\ owner = "started"
  /\ running_' = FALSE /\ owner' = "joining"
  /\ NotifyStop
  /\ UNCHANGED <<queue_, calls, accepted, begun>>

Join ==
  /\ owner = "joining" /\ \A w \in Workers : pc[w] = "done"
  /\ owner' = "stopped"
  /\ UNCHANGED <<running_, queue_, pc, calls, accepted, begun>>

WorkerStep(w) == TestRunning(w) \/ TakeWait(w) \/ Take(w) \/ TakeNothing(w) \/ TaskEnds(w)
CallerStep(c) == RunWait(c) \/ RunRefused(c) \/ RunPush(c)

Next ==
  \/ Start \/ Started \/ Stop \/ Join
  \/ \E w \in Workers : StartWorker(w) \/ WorkerStep(w)
  \/ \E c \in Callers : Run(c) \/ CallerStep(c)
  \/ \E t \in Threads : SpuriousWakeup(t)

-----------------------------------------------------------------------------
TypeOK ==
  /\ running_ \in BOOLEAN /\ calls \in 0..MaxTasks
  /\ owner \in {"new", "starting", "started", "joining", "stopped"}
  /\ {queue_, accepted, begun} \subseteq Seq(1..MaxTasks)
  /\ pc \in [Threads -> {"none", "out", "in", "wait", "test", "task", "done"}]
  /\ maxQueueSize_ > 0 => Len(queue_) <= maxQueueSize_

(* Tasks begin in the order run() queued them, each at most once; what has not
   begun is still in the queue, which never holds more than maxQueueSize_. *)
TasksInOrder == TypeOK /\ accepted = begun \o queue_

(* While the pool runs no wakeup is lost: a worker waits only if as many workers are
   on their way to the queue as there are tasks in it, and a caller only if as many
   callers are as there are free places. *)
NoLostWakeup ==
  running_ => /\ Waiting(Workers) # {} => Len(queue_) <= Cardinality(In(Workers))
              /\ Waiting(Callers) # {} => maxQueueSize_ <= Len(queue_) + Cardinality(In(Callers))

(* Nobody waits in a stopped pool, however stop() fell among the threads about to
   wait: every worker will end and every run() will return. *)
NobodyWaitsAfterStop == owner \in {"joining", "stopped"} => Waiting(Threads) = {}
=============================================================================

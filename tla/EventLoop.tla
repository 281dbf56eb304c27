------------------------------ MODULE EventLoop ------------------------------
(***************************************************************************)
(* The reactor of fishnet/net/event_loop.{h,cc}: one loop thread that polls, *)
(* handles the active channels and then runs the functors other code queued, *)
(* and any number of threads that call queueInLoop(), runInLoop() and quit().*)
(*                                                                         *)
(* A functor is the number of its submission.  The eventfd counter is kept  *)
(* as "readable or not" (wakeup() only ever adds to it, handleRead() resets *)
(* it).  User code run by the loop thread (channel callbacks, functors, and  *)
(* whatever it does before and after loop()) is represented by the calls it *)
(* makes on the loop.                                                       *)
(***************************************************************************)
EXTENDS Naturals, Sequences

CONSTANTS
  Callers,        \* threads other than the loop thread
  LoopThread,     \* the thread that created the EventLoop
  MaxFunctors     \* bound on the functors submitted in one behaviour

ASSUME CallersAssumption == LoopThread \notin Callers
ASSUME MaxFunctorsAssumption == MaxFunctors \in Nat

Threads  == Callers \cup {LoopThread}
Functors == 1..MaxFunctors

VARIABLES
  pc,                       \* where the loop thread is in loop()
  active,                   \* activeChannels_ still to be handled
  inCallback,               \* the loop thread is inside user code
  quit_,
  callingPendingFunctors_,
  pendingFunctors_,
  functors,                 \* the batch doPendingFunctors() swapped out
  wakeupFd_,                \* the eventfd is readable
  unwoken,                  \* per thread: functor pushed, wakeup() not done (0: none)
  quitting,                 \* threads in quit() that have stored quit_ only
  next,                     \* number of the next functor
  submitted,                \* history: functors queued, in order
  executed,                 \* history: queued functors started, in order
  direct,                   \* history: functors runInLoop() ran on the spot
  early                     \* history: queued by the loop thread outside loop()

loopVars    == <<pc, active, inCallback, callingPendingFunctors_, functors, executed>>
callVars    == <<unwoken, quitting, next, submitted, direct, early>>
vars        == <<loopVars, callVars, quit_, pendingFunctors_, wakeupFd_>>

(* The wakeup channel, and one channel that stands for all the others. *)
Channels == {"wakeup", "io"}

TypeOK ==
  /\ pc \in {"idle", "test", "poll", "handle", "swap", "run"}
  /\ active \in SUBSET Channels
  /\ inCallback \in BOOLEAN
  /\ quit_ \in BOOLEAN
  /\ callingPendingFunctors_ \in BOOLEAN
  /\ pendingFunctors_ \in Seq(Functors)
  /\ functors \in Seq(Functors)
  /\ wakeupFd_ \in BOOLEAN
  /\ unwoken \in [Threads -> 0..MaxFunctors]
  /\ quitting \in SUBSET Callers
  /\ next \in 1..(MaxFunctors + 1)
  /\ submitted \in Seq(Functors)
  /\ executed \in Seq(Functors)
  /\ direct \in SUBSET Functors
  /\ early \in SUBSET Functors

(* EventLoop::EventLoop() *)
Init ==
  /\ pc = "idle"
  /\ active = {}
  /\ inCallback = FALSE
  /\ quit_ = FALSE
  /\ callingPendingFunctors_ = FALSE
  /\ pendingFunctors_ = <<>>
  /\ functors = <<>>
  /\ wakeupFd_ = FALSE
  /\ unwoken = [t \in Threads |-> 0]
  /\ quitting = {}
  /\ next = 1
  /\ submitted = <<>>
  /\ executed = <<>>
  /\ direct = {}
  /\ early = {}

-----------------------------------------------------------------------------
(* Calls on the loop, from any thread. *)

isInLoopThread(t) == t = LoopThread

(* User code runs in the loop thread inside a callback, and before and after loop(). *)
MayCall(t) ==
  /\ unwoken[t] = 0
  /\ t \notin quitting
  /\ isInLoopThread(t) => pc = "idle" \/ inCallback

NeedsWakeup_ForeignOnly(t) == ~isInLoopThread(t)

NeedsWakeup(t) == ~isInLoopThread(t) \/ callingPendingFunctors_

Enqueue_Front(f) == pendingFunctors_' = <<f>> \o pendingFunctors_

Enqueue(f) == pendingFunctors_' = Append(pendingFunctors_, f)

(* queueInLoop(), the critical section. *)
QueueInLoop(t) ==
  /\ MayCall(t)
  /\ next \in Functors
  /\ Enqueue(next)
  /\ submitted' = Append(submitted, next)
  /\ unwoken' = [unwoken EXCEPT ![t] = next]
  /\ early' = IF isInLoopThread(t) /\ pc = "idle" THEN early \cup {next} ELSE early
  /\ next' = next + 1
  /\ UNCHANGED <<loopVars, quit_, wakeupFd_, quitting, direct>>

(* queueInLoop(), after the critical section. *)
QueueInLoopWakeup(t) ==
  /\ unwoken[t] # 0
  /\ wakeupFd_' = (wakeupFd_ \/ NeedsWakeup(t))
  /\ unwoken' = [unwoken EXCEPT ![t] = 0]
  /\ UNCHANGED <<loopVars, quit_, pendingFunctors_, quitting, next, submitted, direct, early>>

(* runInLoop() in the loop thread; in another thread it is queueInLoop(). *)
RunInLoopDirect ==
  /\ MayCall(LoopThread)
  /\ next \in Functors
  /\ direct' = direct \cup {next}
  /\ next' = next + 1
  /\ UNCHANGED <<loopVars, quit_, pendingFunctors_, wakeupFd_, unwoken, quitting, submitted, early>>

RunInLoop(t) == IF isInLoopThread(t) THEN RunInLoopDirect ELSE QueueInLoop(t)

(* quit(): the store, and, for other threads, the wakeup() that follows it. *)
Quit(t) ==
  /\ MayCall(t)
  /\ quit_' = TRUE
  /\ quitting' = IF isInLoopThread(t) THEN quitting ELSE quitting \cup {t}
  /\ UNCHANGED <<loopVars, pendingFunctors_, wakeupFd_, unwoken, next, submitted, direct, early>>

QuitWakeup_None(t) ==
  /\ t \in quitting
  /\ quitting' = quitting \ {t}
  /\ UNCHANGED <<loopVars, quit_, pendingFunctors_, wakeupFd_, unwoken, next, submitted, direct, early>>

QuitWakeup(t) ==
  /\ t \in quitting
  /\ wakeupFd_' = TRUE
  /\ quitting' = quitting \ {t}
  /\ UNCHANGED <<loopVars, quit_, pendingFunctors_, unwoken, next, submitted, direct, early>>

-----------------------------------------------------------------------------
(* The loop thread. *)

(* The loop thread proceeds only when the user code it runs has returned. *)
LoopProceeds == ~inCallback /\ unwoken[LoopThread] = 0

(* Entry of loop(). *)
Loop ==
  /\ pc = "idle" /\ LoopProceeds
  /\ quit_' = FALSE
  /\ pc' = "test"
  /\ UNCHANGED <<active, inCallback, callingPendingFunctors_, functors, executed,
                 callVars, pendingFunctors_, wakeupFd_>>

(* while (!quit_) *)
TestQuit ==
  /\ pc = "test"
  /\ pc' = IF quit_ THEN "idle" ELSE "poll"
  /\ active' = {}
  /\ UNCHANGED <<inCallback, callingPendingFunctors_, functors, executed,
                 callVars, quit_, pendingFunctors_, wakeupFd_>>

(* poller_->poll() returns because some channel is ready; the wakeup channel
   is among the active ones exactly when its eventfd is readable. *)
PollReady ==
  /\ pc = "poll"
  /\ active' \in SUBSET Channels \ {{}}
  /\ "wakeup" \in active' <=> wakeupFd_
  /\ pc' = "handle"
  /\ UNCHANGED <<inCallback, callingPendingFunctors_, functors, executed,
                 callVars, quit_, pendingFunctors_, wakeupFd_>>

(* poller_->poll() returns after kPollTimeMs with no active channel. *)
PollTimeout ==
  /\ pc = "poll"
  /\ ~wakeupFd_
  /\ pc' = "handle"
  /\ UNCHANGED <<active, inCallback, callingPendingFunctors_, functors, executed,
                 callVars, quit_, pendingFunctors_, wakeupFd_>>

(* handleRead() of the wakeup channel: one read() empties the eventfd. *)
HandleWakeup ==
  /\ pc = "handle" /\ LoopProceeds
  /\ "wakeup" \in active
  /\ wakeupFd_' = FALSE
  /\ active' = active \ {"wakeup"}
  /\ UNCHANGED <<pc, inCallback, callingPendingFunctors_, functors, executed,
                 callVars, quit_, pendingFunctors_>>

(* handleEvent() of any other channel enters user code. *)
HandleIo ==
  /\ pc = "handle" /\ LoopProceeds
  /\ "io" \in active
  /\ inCallback' = TRUE
  /\ active' = active \ {"io"}
  /\ UNCHANGED <<pc, callingPendingFunctors_, functors, executed,
                 callVars, quit_, pendingFunctors_, wakeupFd_>>

(* The channel callback or the functor returns to the loop. *)
EndCallback ==
  /\ inCallback /\ unwoken[LoopThread] = 0
  /\ inCallback' = FALSE
  /\ UNCHANGED <<pc, active, callingPendingFunctors_, functors, executed,
                 callVars, quit_, pendingFunctors_, wakeupFd_>>

(* doPendingFunctors(): the flag is raised before the mutex is taken. *)
BeginPendingFunctors ==
  /\ pc = "handle" /\ LoopProceeds
  /\ active = {}
  /\ callingPendingFunctors_' = TRUE
  /\ pc' = "swap"
  /\ UNCHANGED <<active, inCallback, functors, executed,
                 callVars, quit_, pendingFunctors_, wakeupFd_>>

SwapFunctors_Copy ==
  /\ pc = "swap"
  /\ functors' = pendingFunctors_
  /\ pc' = "run"
  /\ UNCHANGED <<active, inCallback, callingPendingFunctors_, executed,
                 callVars, quit_, pendingFunctors_, wakeupFd_>>

SwapFunctors ==
  /\ pc = "swap"
  /\ functors' = pendingFunctors_
  /\ pendingFunctors_' = <<>>
  /\ pc' = "run"
  /\ UNCHANGED <<active, inCallback, callingPendingFunctors_, executed,
                 callVars, quit_, wakeupFd_>>

RunFunctor ==
  /\ pc = "run" /\ LoopProceeds
  /\ functors # <<>>
  /\ executed' = Append(executed, Head(functors))
  /\ functors' = Tail(functors)
  /\ inCallback' = TRUE
  /\ UNCHANGED <<pc, active, callingPendingFunctors_,
                 callVars, quit_, pendingFunctors_, wakeupFd_>>

EndPendingFunctors ==
  /\ pc = "run" /\ LoopProceeds
  /\ functors = <<>>
  /\ callingPendingFunctors_' = FALSE
  /\ pc' = "test"
  /\ UNCHANGED <<active, inCallback, functors, executed,
                 callVars, quit_, pendingFunctors_, wakeupFd_>>

-----------------------------------------------------------------------------
(* The steps the loop thread takes by itself once poll() has an event. *)
LoopStep ==
  \/ TestQuit \/ (wakeupFd_ /\ PollReady)
  \/ HandleWakeup \/ HandleIo \/ EndCallback
  \/ BeginPendingFunctors \/ SwapFunctors \/ RunFunctor \/ EndPendingFunctors
  \/ QueueInLoopWakeup(LoopThread)

Call(t) == QueueInLoop(t) \/ RunInLoop(t) \/ Quit(t)

CallReturns(t) == QueueInLoopWakeup(t) \/ QuitWakeup(t)

Next ==
  \/ Loop \/ TestQuit \/ PollReady \/ PollTimeout
  \/ HandleWakeup \/ HandleIo \/ EndCallback
  \/ BeginPendingFunctors \/ SwapFunctors \/ RunFunctor \/ EndPendingFunctors
  \/ \E t \in Threads : Call(t) \/ CallReturns(t)

Spec == Init /\ [][Next]_vars

(* Threads inside a call and the loop thread are scheduled again and again.
   The 10 s timeout of poll() is not relied on: PollTimeout is not fair. *)
Fairness ==
  /\ WF_vars(LoopStep)
  /\ \A t \in Callers : WF_vars(CallReturns(t))

FairSpec == Spec /\ Fairness

-----------------------------------------------------------------------------
(* Properties *)

(* Every functor queueInLoop() accepted is in exactly one of three places -
   started, in the batch being run, pending - and they are started in the
   order they were queued, whichever threads queued them and whatever the
   swap in doPendingFunctors() raced with. *)
FifoExactlyOnce == submitted = executed \o functors \o pendingFunctors_

(* No lost wakeup: while the loop thread is at poll() (or on its way to it),
   a pending functor has made the eventfd readable or its queueInLoop() is
   still between the unlock and wakeup().  The exceptions are functors the
   loop thread itself queued while it was not looping: queueInLoop() wakes
   nobody for those. *)
NoLostWakeup ==
  pc \in {"test", "poll"} =>
    \A i \in 1..Len(pendingFunctors_) :
      \/ wakeupFd_
      \/ pendingFunctors_[i] \in early
      \/ \E t \in Threads : unwoken[t] = pendingFunctors_[i]

(* The loop never sleeps through a quit(): at poll() a stored quit_ has made
   the eventfd readable, or the quitting thread has not returned yet. *)
QuitNotMissed == pc = "poll" /\ quit_ => wakeupFd_ \/ quitting # {}

(* Without the help of poll()'s timeout, a pending functor, other than one queued
   by the loop thread outside loop(), is run or the loop returns; and quit()
   called while the loop is running makes loop() return. *)
LoopProgress ==
  /\ \A f \in Functors :
       (\E i \in 1..Len(pendingFunctors_) : pendingFunctors_[i] = f /\ f \notin early)
         ~> (\E i \in 1..Len(executed) : executed[i] = f) \/ pc = "idle"
  /\ (quit_ /\ pc # "idle") ~> pc = "idle"

(* EventLoop keeps the promise of FunctorQueue: what has been swapped out and
   not started, followed by what is pending, is one first-in-first-out queue. *)
FQ == INSTANCE FunctorQueue WITH queue <- functors \o pendingFunctors_
ImplementsFunctorQueue == FQ!Spec
=============================================================================

--------------------------- MODULE EventLoopThread ---------------------------
(***************************************************************************)
(* fishnet/net/event_loop_thread.{h,cc} composed with the reactor: an owner  *)
(* that calls startLoop(), uses the loop and destroys the EventLoopThread,   *)
(* and the thread that constructs the EventLoop on its stack, publishes it,   *)
(* runs loop() once and destroys it.  An EventLoop that nobody made a thread   *)
(* for, as the base loop of a server, is the case ownerPc = "none".          *)
(***************************************************************************)
EXTENDS EventLoop

CONSTANT Owner  \* the thread that owns the EventLoopThread

ASSUME OwnerAssumption == Owner \in Callers

VARIABLES
  ownerPc,      \* "none", "new", startLoop(): "check", "waiting"; "running"; destructor: "quit",
                \* "wakeup", "join"; "done" when the EventLoopThread is gone
  threadPc,     \* "none", threadFunc(): "init", "published", "looping", "returned",
                \* "unlocking"; "finished" when the EventLoop is gone too
  loop_,        \* loop_ # NULL
  userQuits     \* whether user code in the loop thread calls quit() itself

threadVars == <<ownerPc, threadPc, loop_, userQuits>>

ThreadInit ==
  /\ Init
  /\ ownerPc \in {"none", "new"} /\ threadPc = "none" /\ loop_ = FALSE
  /\ userQuits \in IF ownerPc = "none" THEN {TRUE} ELSE BOOLEAN

-----------------------------------------------------------------------------
(* The owner *)

StartLoop ==
  /\ ownerPc = "new"
  /\ ownerPc' = "check" /\ threadPc' = "init"
  /\ UNCHANGED <<vars, loop_, userQuits>>

(* One test of while (loop_ == NULL), with the mutex held. *)
CheckLoop ==
  /\ ownerPc = "check"
  /\ ownerPc' = IF loop_ THEN "running" ELSE "waiting"
  /\ UNCHANGED <<vars, threadPc, loop_, userQuits>>

SpuriousWakeup ==
  /\ ownerPc = "waiting"
  /\ ownerPc' = "check"
  /\ UNCHANGED <<vars, threadPc, loop_, userQuits>>

UseLoop ==
  /\ ownerPc = "running" /\ QueueInLoop(Owner)
  /\ UNCHANGED threadVars

UseLoopWakeup ==
  /\ ownerPc = "running" /\ QueueInLoopWakeup(Owner)
  /\ UNCHANGED threadVars

(* ~EventLoopThread() reads loop_ without the mutex. *)
Destroy ==
  /\ ownerPc \in {"new", "running"} /\ unwoken[Owner] = 0
  /\ ownerPc' = IF loop_ THEN "quit" ELSE "done"
  /\ UNCHANGED <<vars, threadPc, loop_, userQuits>>

DestroyQuit ==
  /\ ownerPc = "quit" /\ Quit(Owner)
  /\ ownerPc' = "wakeup"
  /\ UNCHANGED <<threadPc, loop_, userQuits>>

DestroyWakeup_NoJoin ==
  /\ ownerPc = "wakeup" /\ QuitWakeup(Owner)
  /\ ownerPc' = "done"
  /\ UNCHANGED <<threadPc, loop_, userQuits>>

DestroyWakeup ==
  /\ ownerPc = "wakeup" /\ QuitWakeup(Owner)
  /\ ownerPc' = "join"
  /\ UNCHANGED <<threadPc, loop_, userQuits>>

Join ==
  /\ ownerPc = "join" /\ threadPc = "finished"
  /\ ownerPc' = "done"
  /\ UNCHANGED <<vars, threadPc, loop_, userQuits>>

-----------------------------------------------------------------------------
(* The thread *)

(* What callback_ and, later, channel callbacks and functors do with the loop. *)
UserCode ==
  /\ threadPc \in {"init", "looping"}
  /\ \/ QueueInLoop(LoopThread) \/ RunInLoop(LoopThread)
     \/ userQuits /\ Quit(LoopThread)
  /\ UNCHANGED threadVars

Notified_None == ownerPc

Notified == IF ownerPc = "waiting" THEN "check" ELSE ownerPc

Publish ==
  /\ threadPc = "init" /\ unwoken[LoopThread] = 0
  /\ loop_' = TRUE
  /\ ownerPc' = Notified
  /\ threadPc' = "published"
  /\ UNCHANGED <<vars, userQuits>>

EnterLoop ==
  /\ threadPc = "published" /\ Loop
  /\ threadPc' = "looping"
  /\ UNCHANGED <<ownerPc, loop_, userQuits>>

RunLoop ==
  /\ threadPc = "looping" /\ LoopStep
  /\ threadPc' = IF pc' = "idle" THEN "returned" ELSE "looping"
  /\ UNCHANGED <<ownerPc, loop_, userQuits>>

(* poll() returns although nobody woke the loop. *)
OtherPoll ==
  /\ threadPc = "looping"
  /\ PollTimeout \/ PollReady
  /\ UNCHANGED threadVars

(* loop_ = NULL, with the mutex held. *)
Unpublish ==
  /\ threadPc = "returned"
  /\ loop_' = FALSE
  /\ threadPc' = "unlocking"
  /\ UNCHANGED <<vars, ownerPc, userQuits>>

(* The mutex is released, then the EventLoop is destroyed. *)
Finish ==
  /\ threadPc = "unlocking"
  /\ threadPc' = "finished"
  /\ UNCHANGED <<vars, ownerPc, loop_, userQuits>>

-----------------------------------------------------------------------------
OwnerStep  == CheckLoop \/ UseLoopWakeup \/ DestroyQuit \/ DestroyWakeup \/ Join

ThreadStep == Publish \/ EnterLoop \/ RunLoop \/ Unpublish \/ Finish

WakeupAfterQueue ==
  /\ threadPc = "init" /\ QueueInLoopWakeup(LoopThread)
  /\ UNCHANGED threadVars

Unhosted(A) == ownerPc = "none" /\ A /\ UNCHANGED threadVars

ThreadNext ==
  \/ Unhosted(Next)
  \/ StartLoop \/ SpuriousWakeup \/ UseLoop \/ Destroy
  \/ UserCode \/ WakeupAfterQueue \/ OtherPoll
  \/ OwnerStep \/ ThreadStep

ThreadSpec == ThreadInit /\ [][ThreadNext]_<<vars, threadVars>>

(* All threads are scheduled, those inside a call on the loop included; spurious
   wakeups and poll()'s timeout are not relied on. *)
ThreadFairSpec ==
  /\ ThreadSpec
  /\ WF_<<vars, threadVars>>(OwnerStep)
  /\ WF_<<vars, threadVars>>(ThreadStep \/ WakeupAfterQueue \/ Unhosted(LoopStep))
  /\ \A t \in Callers : WF_<<vars, threadVars>>(Unhosted(CallReturns(t)))

-----------------------------------------------------------------------------
(* Properties *)

(* When ~EventLoopThread() is over the thread no longer uses the mutex or loop_
   of the object, whatever it was doing when the destructor began, if user code
   does not quit the loop. *)
DestroyedAfterThread == ~userQuits /\ ownerPc = "done" => threadPc \in {"none", "finished"}

(* The owner is never left waiting.  startLoop() returns: the notify in
   threadFunc() cannot fall between the test of loop_ and cond_.wait().  (Not so
   when user code quits the loop before the owner has looked: loop_ is NULL again
   by then.)  ~EventLoopThread() returns if the thread had entered loop() when it
   stored quit_, also when user code quits the loop at the same time. *)
OwnerProgress ==
  /\ (ownerPc = "check" /\ ~userQuits) ~> ownerPc = "running"
  /\ (ownerPc = "wakeup" /\ quit_ /\ threadPc = "looping") ~> ownerPc = "done"

(* What event_loop.h says of quit(), "Quits loop.", as the destructor relies on
   it: once quit() has been called, the thread can be joined. *)
DestructorReturns == ownerPc = "quit" ~> ownerPc = "done"
=============================================================================

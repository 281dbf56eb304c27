------------------------- MODULE EventLoopThreadPool -------------------------
(***************************************************************************)
(* fishnet/net/event_loop_thread_pool.{h,cc}: the io loops of a server and    *)
(* the round robin over them.  Loops are numbered; baseLoop_ is 0.            *)
(***************************************************************************)
EXTENDS Naturals, Sequences

CONSTANT ThreadNums   \* what setThreadNum() is called with

ASSUME PoolConstants == ThreadNums # {} /\ ThreadNums \subseteq Nat

VARIABLES numThreads_, poolStarted, loops_, next_

pool == <<numThreads_, poolStarted, loops_, next_>>

baseLoop_ == 0
Loops == {baseLoop_} \cup UNION {1..n : n \in ThreadNums}

(* The pool when setThreadNum() has been called, before start(). *)
PoolInit == numThreads_ \in ThreadNums /\ poolStarted = FALSE /\ loops_ = <<>> /\ next_ = 0

(* One turn of the loop of start(): startLoop() of a new EventLoopThread. *)
AddLoop ==
  /\ Len(loops_) < numThreads_
  /\ loops_' = Append(loops_, Len(loops_) + 1)
  /\ UNCHANGED <<numThreads_, poolStarted, next_>>

(* getNextLoop(): what it returns and what it does. *)
NextLoop == IF loops_ = <<>> THEN baseLoop_ ELSE loops_[next_ + 1]

Advance_OneShort ==
  /\ next_' = IF loops_ = <<>> \/ next_ + 2 >= Len(loops_) THEN 0 ELSE next_ + 1
  /\ UNCHANGED <<numThreads_, poolStarted, loops_>>

Advance ==
  /\ next_' = IF loops_ = <<>> \/ next_ + 1 >= Len(loops_) THEN 0 ELSE next_ + 1
  /\ UNCHANGED <<numThreads_, poolStarted, loops_>>
=============================================================================

-------------------------------- MODULE Thread --------------------------------
(***************************************************************************)
(* fishnet/base/thread.cc: a thread is created, and start() waits on a latch   *)
(* (countdown_latch.cc) in the Thread object until it knows the thread's id.   *)
(* The object may be destroyed as soon as start() has returned: the thread     *)
(* goes on detached.  With the locks of mutex.h and condition.h.               *)
(***************************************************************************)
EXTENDS Naturals

VARIABLES
  pc,    \* of the "owner" of the Thread and of the "child" it creates
  th     \* the members of the Thread and of its latch

NoOne == "nobody"

ThreadInit ==
  /\ pc = [owner |-> "new", child |-> "none"]
  /\ th = [alive |-> TRUE, started_ |-> FALSE, joined_ |-> FALSE, detached |-> FALSE,
           tid_ |-> NoOne, count_ |-> 1, mutex_ |-> NoOne, holder_ |-> NoOne, data |-> "none"]

Goes(t, to) == pc' = [pc EXCEPT ![t] = to]

(* start(); pthread_create() may fail, which is fatal *)
Start ==
  /\ pc.owner = "new" /\ th' = [th EXCEPT !.started_ = TRUE, !.data = "new"]
  /\ pc' = [owner |-> "lock", child |-> "begin"]

StartFails == pc.owner = "new" /\ Goes("owner", "aborted") /\ UNCHANGED th

(* MutexLockGuard, or pthread_cond_wait() on its way out *)
Lock(t) ==
  /\ pc[t] = "lock" /\ th.mutex_ = NoOne
  /\ th' = [th EXCEPT !.mutex_ = t, !.holder_ = t] /\ Goes(t, "locked")

Unlocked(state) == [state EXCEPT !.mutex_ = NoOne, !.holder_ = NoOne]

(* CountDownLatch::wait(): the loop; a condition may wake for no reason *)
LatchOpen == th.count_ = 0

LatchWait ==
  /\ pc.owner = "locked" /\ th' = Unlocked(th)
  /\ Goes("owner", IF LatchOpen THEN "started" ELSE "waiting")

WakeUp == pc.owner = "waiting" /\ Goes("owner", "lock") /\ UNCHANGED th

(* ThreadData::runInThread() *)
SetTid == /\ pc.child = "begin" /\ th' = [th EXCEPT !.tid_ = "child"] /\ Goes("child", "lock")

CountDown ==
  /\ pc.child = "locked" /\ th' = [th EXCEPT !.count_ = @ - 1]
  /\ pc' = [owner |-> IF th'.count_ = 0 /\ pc.owner = "waiting" THEN "lock" ELSE pc.owner,
            child |-> "counted"]

CountedDown == pc.child = "counted" /\ th' = Unlocked(th) /\ Goes("child", "func")

FuncReturns == pc.child = "func" /\ th' = [th EXCEPT !.data = "deleted"] /\ Goes("child", "ended")

(* An exception ends the process. *)
FuncThrows == /\ pc.child = "func" /\ pc' = [owner |-> "aborted", child |-> "aborted"] /\ UNCHANGED th

Join == pc.owner = "started" /\ th' = [th EXCEPT !.joined_ = TRUE] /\ Goes("owner", "joining")

Joined == pc.owner = "joining" /\ pc.child = "ended" /\ Goes("owner", "joined") /\ UNCHANGED th

(* ~Thread() *)
Destroy ==
  /\ pc.owner \in {"new", "started", "joined"}
  /\ th' = [th EXCEPT !.alive = FALSE, !.detached = th.started_ /\ ~th.joined_]
  /\ Goes("owner", "gone")

OwnerStep == Lock("owner") \/ LatchWait \/ Joined
ChildStep == SetTid \/ Lock("child") \/ CountDown \/ CountedDown \/ FuncReturns
ThreadNext == OwnerStep \/ ChildStep \/ Start \/ StartFails \/ WakeUp \/ FuncThrows \/ Join \/ Destroy

-----------------------------------------------------------------------------
(* The thread uses the Thread object, its latch and mutex, only while start() keeps it
   alive; start() returns with the id; a joined thread has ended, and one that nobody
   joins is detached. *)
ThreadObjectSafe ==
  /\ ~th.alive => /\ pc.child \in {"none", "func", "ended", "aborted"} /\ th.mutex_ = NoOne
                  /\ th.started_ => th.detached \/ pc.child = "ended"
  /\ pc.owner \in {"started", "joining", "joined"} => th.tid_ = "child" /\ LatchOpen
  /\ th.holder_ = th.mutex_
  /\ pc.child = "ended" => th.data = "deleted"
=============================================================================

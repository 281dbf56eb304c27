--------------------------- MODULE CachedThreadPool ---------------------------
(***************************************************************************)
(* The pools of hlib/thread_pool.h, utils/thread_pool.h, hlib/wzq_thread_pool.h *)
(* and hlib/zfish.hpp.  The first three have core threads and add cache threads *)
(* that end after a time without work; their flags are atomics that are set     *)
(* and read without the mutex.  zfish.hpp has a fixed number of threads and a    *)
(* flag under the mutex.  A thread between its test and its wait holds the      *)
(* mutex ("test", "block"); every other critical section is one step.           *)
(***************************************************************************)
EXTENDS Integers, Sequences, FiniteSets

CONSTANTS
  Callers,       \* threads that call Run() or put()
  Owner,         \* the thread that starts the pool and shuts it down
  Configs,       \* [core, max, maxTask, timeout]
  Kinds,         \* which of the pools: "hlib", "utils", "wzq", "zfish"
  MaxTasks,      \* bound on the tasks accepted
  MaxWorkers     \* bound on the threads created

VARIABLES
  kind, config,
  is_available_, is_shutdown_, is_shutdown_now_,
  waiting_thread_num_,
  pc,            \* per thread: callers, workers and the owner
  flag,          \* per worker: "core" or "cache"
  threads_,      \* workers in the list, the ended ones included
  tasks_,
  accepted,      \* history: tasks queued, in order
  taken,         \* history: tasks that left the queue, in order
  limit, peak    \* history: the largest max_thread_num, the most calls of AddThread() at a time

flags == <<is_available_, is_shutdown_, is_shutdown_now_>>
lists == <<threads_, tasks_, accepted, taken>>
setup == <<kind, config, limit>>
poolVars == <<setup, peak, flags, waiting_thread_num_, pc, flag, lists>>

PoolThreads == 1..MaxWorkers
Threads == Callers \cup PoolThreads \cup {Owner}

Started == {w \in PoolThreads : pc[w] # "none"}
Cores   == {w \in Started : flag[w] = "core"}
Asleep  == {w \in PoolThreads : pc[w] = "wait"}
Locked  == \E w \in PoolThreads : pc[w] \in {"test", "block"}
Closing == is_shutdown_ \/ is_shutdown_now_

Go(t, to) == pc' = [pc EXCEPT ![t] = to]

(* IsAvaliableConfig() compares max_task_num where the wzq pool compares max_threads.
   zfish.hpp has one number of threads. *)
IsAvaliableConfig(k) == k.core > 0 /\ k.maxTask > 0 /\ k.maxTask > k.core /\ k.timeout >= 0
IsValidConfig(k)     == ~(k.core < 1 \/ k.max < k.core \/ k.timeout < 1)

Valid(k) ==
  /\ kind \in {"hlib", "utils"} => IsAvaliableConfig(k)
  /\ kind = "wzq" => IsValidConfig(k)
  /\ kind = "zfish" => k.core = k.max

(* The constructors.  Those of hlib and zfish start the core threads. *)
PoolInit ==
  /\ kind \in Kinds /\ config \in Configs /\ limit = config.max /\ peak = 0
  /\ is_available_ = Valid(config) /\ is_shutdown_ = FALSE /\ is_shutdown_now_ = FALSE
  /\ waiting_thread_num_ = 0
  /\ pc = [t \in Threads |->
             IF t \in PoolThreads THEN "none"
             ELSE IF t = Owner THEN IF kind \in {"hlib", "zfish"} /\ Valid(config) THEN "add" ELSE "new"
             ELSE "out"]
  /\ flag = [w \in PoolThreads |-> "core"]
  /\ threads_ = {} /\ tasks_ = <<>> /\ accepted = <<>> /\ taken = <<>>

-----------------------------------------------------------------------------
(* AddThread(): the thread runs before it is in the list.  Of threads that are being
   added at the same time any may be listed first. *)
Create(t, f) ==
  LET w == Cardinality(Started) + 1
  IN  /\ pc' = [pc EXCEPT ![t] = "list", ![w] = "lock"]
      /\ flag' = [flag EXCEPT ![w] = f]

Listed(t) ==
  /\ pc[t] = "list"
  /\ kind \in {"wzq", "zfish"} \/ ~Locked
  /\ \E w \in Started \ threads_ : threads_' = threads_ \cup {w}

(* Start() of utils and wzq, called by the owner once or not at all, before or after
   Run() and, of utils, at the same time: the list of the wzq pool has no lock. *)
Start ==
  /\ pc[Owner] = "new" /\ is_available_
  /\ kind = "wzq" => \A c \in Callers : pc[c] = "out"
  /\ Go(Owner, "add")
  /\ UNCHANGED <<setup, peak, flags, waiting_thread_num_, flag, lists>>

StartAdds ==
  /\ pc[Owner] = "add" /\ Create(Owner, "core")
  /\ UNCHANGED <<setup, peak, flags, waiting_thread_num_, lists>>

StartLists ==
  /\ Listed(Owner)
  /\ Go(Owner, IF Cardinality(Cores) < config.core THEN "add" ELSE "idle")
  /\ UNCHANGED <<setup, peak, flags, waiting_thread_num_, flag, tasks_, accepted, taken>>

-----------------------------------------------------------------------------
(* Run(): the flags and waiting_thread_num_ are read without the mutex.  Nobody
   calls it during a constructor, or during Start() or another Run() of the wzq pool. *)
MayCall(c) ==
  /\ pc[c] = "out" /\ (kind # "utils" => pc[Owner] \notin {"add", "list"})
  /\ kind = "wzq" => \A d \in Callers : pc[d] = "out"

MoreTasks == Len(accepted) + Cardinality({c \in Callers : pc[c] \in {"size", "add", "list", "push"}}) < MaxTasks

Run(c) ==
  /\ MayCall(c) /\ MoreTasks
  /\ is_available_ /\ ~Closing
  /\ Go(c, IF waiting_thread_num_ = 0 THEN "size" ELSE "push")
  /\ UNCHANGED <<setup, peak, flags, waiting_thread_num_, flag, lists>>

RoomForThread_None(c) == TRUE

RoomForThread(c) == Cardinality(threads_) < config.max

(* GetTotalThreadNum(), and AddThread() if there is room *)
RunCounts(c) ==
  /\ pc[c] = "size" /\ (kind = "wzq" \/ ~Locked)
  /\ Go(c, IF RoomForThread(c) THEN "add" ELSE "push")
  /\ LET adding == Cardinality({d \in Callers : pc'[d] \in {"add", "list"}})
     IN  peak' = IF adding > peak THEN adding ELSE peak
  /\ UNCHANGED <<setup, flags, waiting_thread_num_, flag, lists>>

RunAdds(c) ==
  /\ pc[c] = "add" /\ Cardinality(Started) < MaxWorkers /\ Create(c, "cache")
  /\ UNCHANGED <<setup, peak, flags, waiting_thread_num_, lists>>

RunLists(c) ==
  /\ Listed(c) /\ Go(c, "push")
  /\ UNCHANGED <<setup, peak, flags, waiting_thread_num_, flag, tasks_, accepted, taken>>

Push(c) ==
  /\ ~Locked
  /\ tasks_' = Append(tasks_, Len(accepted) + 1)
  /\ accepted' = Append(accepted, Len(accepted) + 1)
  /\ Go(c, "notify")
  /\ UNCHANGED <<setup, peak, flags, waiting_thread_num_, flag, threads_, taken>>

RunPushes(c) == pc[c] = "push" /\ Push(c)

(* put() of zfish.hpp throws if the pool is closed. *)
Put(c) == MayCall(c) /\ MoreTasks /\ ~is_shutdown_ /\ Push(c)

(* notify_one() *)
Notify(c) ==
  /\ pc[c] = "notify"
  /\ \/ \E w \in Asleep : pc' = [pc EXCEPT ![c] = "out", ![w] = "awake"]
     \/ Asleep = {} /\ Go(c, "out")
  /\ UNCHANGED <<setup, peak, flags, waiting_thread_num_, flag, lists>>

-----------------------------------------------------------------------------
wakeup_pred == Closing \/ tasks_ # <<>>

(* The worker has what it waited for: it ends, or takes a task. *)
Proceed(w) ==
  IF (is_shutdown_ /\ tasks_ = <<>>) \/ is_shutdown_now_
  THEN Go(w, "done") /\ UNCHANGED lists
  ELSE /\ taken' = Append(taken, Head(tasks_)) /\ tasks_' = Tail(tasks_)
       /\ Go(w, "task") /\ UNCHANGED <<threads_, accepted>>

(* The beginning of the loop *)
Enter(w) ==
  /\ pc[w] = "lock" /\ ~Locked
  /\ waiting_thread_num_' = waiting_thread_num_ + 1
  /\ Go(w, "test")
  /\ UNCHANGED <<setup, peak, flags, flag, lists>>

(* The predicate decides, on arrival and whenever the wait ends. *)
Test(w) ==
  /\ \/ pc[w] = "test"
     \/ pc[w] \in {"awake", "timeout"} /\ ~Locked
  /\ IF wakeup_pred
     THEN waiting_thread_num_' = waiting_thread_num_ - 1 /\ Proceed(w)
     ELSE IF pc[w] = "timeout"
     THEN waiting_thread_num_' = waiting_thread_num_ - 1 /\ Go(w, "done") /\ UNCHANGED lists
     ELSE Go(w, "block") /\ UNCHANGED <<waiting_thread_num_, lists>>
  /\ UNCHANGED <<setup, peak, flags, flag>>

Sleep(w) ==
  /\ pc[w] = "block" /\ Go(w, "wait")
  /\ UNCHANGED <<setup, peak, flags, waiting_thread_num_, flag, lists>>

(* wait_for() of a cache thread *)
Timeout(w) ==
  /\ pc[w] = "wait" /\ flag[w] = "cache" /\ Go(w, "timeout")
  /\ UNCHANGED <<setup, peak, flags, waiting_thread_num_, flag, lists>>

TaskEnds(w) ==
  /\ pc[w] = "task" /\ Go(w, "lock")
  /\ UNCHANGED <<setup, peak, flags, waiting_thread_num_, flag, lists>>

WorkLoop(w) == Enter(w) \/ Test(w) \/ Sleep(w) \/ TaskEnds(w)

(* The lambdas of the four files *)
HlibWorker(w)  == kind = "hlib" /\ (WorkLoop(w) \/ Timeout(w))
UtilsWorker(w) == kind = "utils" /\ (WorkLoop(w) \/ Timeout(w))
WzqWorker(w)   == kind = "wzq" /\ (WorkLoop(w) \/ Timeout(w))
ZfishWorker(w) == kind = "zfish" /\ WorkLoop(w)

-----------------------------------------------------------------------------
(* Shutdown(is_now): the flag, the notification and is_available_ are three steps. *)
SetFlag(now) ==
  /\ pc[Owner] \in {"new", "idle"} /\ is_available_
  /\ IF now THEN is_shutdown_now_' = TRUE /\ UNCHANGED is_shutdown_
            ELSE is_shutdown_' = TRUE /\ UNCHANGED is_shutdown_now_
  /\ Go(Owner, "notifyAll")
  /\ UNCHANGED <<setup, peak, is_available_, waiting_thread_num_, flag, lists>>

NotifyAll ==
  /\ pc[Owner] = "notifyAll"
  /\ is_available_' = FALSE
  /\ pc' = [t \in Threads |-> IF t = Owner THEN "join" ELSE IF pc[t] = "wait" THEN "awake" ELSE pc[t]]
  /\ UNCHANGED <<setup, peak, is_shutdown_, is_shutdown_now_, waiting_thread_num_, flag, lists>>

Close_Unlocked == kind = "zfish" /\ SetFlag(FALSE)

(* close() of zfish.hpp has the mutex when it sets its flag. *)
Close == kind = "zfish" /\ ~Locked /\ SetFlag(FALSE)

HlibShutdown  == kind = "hlib" /\ \E now \in BOOLEAN : SetFlag(now)
UtilsShutdown == kind = "utils" /\ \E now \in BOOLEAN : SetFlag(now)
WzqShutDown   == kind = "wzq" /\ \E now \in BOOLEAN : SetFlag(now)

(* hlib and zfish join the threads, the others have detached them. *)
Join ==
  /\ pc[Owner] = "join"
  /\ kind \in {"hlib", "zfish"} => \A w \in threads_ : pc[w] = "done"
  /\ Go(Owner, "closed")
  /\ UNCHANGED <<setup, peak, flags, waiting_thread_num_, flag, lists>>

(* PopNoRunTasks() of hlib *)
PopNoRunTasks ==
  /\ kind = "hlib" /\ pc[Owner] \in {"idle", "closed"} /\ ~Locked /\ tasks_ # <<>>
  /\ taken' = taken \o tasks_ /\ tasks_' = <<>>
  /\ UNCHANGED <<setup, peak, flags, waiting_thread_num_, pc, flag, threads_, accepted>>

(* Reset() of wzq, while nobody is in Run() *)
Reset(k) ==
  /\ kind = "wzq" /\ pc[Owner] \in {"new", "idle"} /\ \A c \in Callers : pc[c] = "out"
  /\ IsValidConfig(k) /\ k.core = config.core /\ config' = k /\ k # config
  /\ limit' = IF k.max > limit THEN k.max ELSE limit
  /\ UNCHANGED <<kind, peak, flags, waiting_thread_num_, pc, flag, lists>>

CallerStep(c) == RunCounts(c) \/ RunAdds(c) \/ RunLists(c) \/ RunPushes(c) \/ Notify(c)

(* Run() of three files and put() of the fourth *)
HlibRun(c)  == kind = "hlib" /\ (Run(c) \/ CallerStep(c))
UtilsRun(c) == kind = "utils" /\ (Run(c) \/ CallerStep(c))
WzqRun(c)   == kind = "wzq" /\ (Run(c) \/ CallerStep(c))
ZfishPut(c) == kind = "zfish" /\ (Put(c) \/ Notify(c))

OwnerStep     == StartAdds \/ StartLists \/ NotifyAll \/ Join
WorkerStep(w) == HlibWorker(w) \/ UtilsWorker(w) \/ WzqWorker(w) \/ ZfishWorker(w)

PoolNext ==
  \/ Start \/ OwnerStep \/ PopNoRunTasks
  \/ HlibShutdown \/ UtilsShutdown \/ WzqShutDown \/ Close
  \/ \E k \in Configs : Reset(k)
  \/ \E c \in Callers : HlibRun(c) \/ UtilsRun(c) \/ WzqRun(c) \/ ZfishPut(c)
  \/ \E w \in PoolThreads : WorkerStep(w)

-----------------------------------------------------------------------------
(* Tasks leave the queue in the order Run() queued them, each once, and
   waiting_thread_num_, from which Run() concludes that it needs a thread, is the
   number of threads in the wait, however the waits ended. *)
TasksInOrder ==
  /\ accepted = taken \o tasks_
  /\ waiting_thread_num_ = Cardinality({w \in PoolThreads : pc[w] \in {"test", "block", "wait", "awake", "timeout"}})

(* Calls of Run() that add a thread at the same time may all have found room for the
   last one, and that is how many threads too many there can be: as many as calls ever
   overlapped, but one.  So the wzq pool, whose Run() has one caller at a time, keeps to
   the largest max_threads it had (not to one that Reset() has lowered).  Core
   threads count, except where Start() did not come first: then they come on top. *)
ThreadsBounded ==
  LET cache == Cardinality(Started \ Cores)
      first == kind # "utils" /\ flag[1] = "core"
  IN /\ Cardinality(Cores) <= config.core
     /\ cache > 0 => cache + (IF first THEN Cardinality(Cores) ELSE 0) <= limit + peak - 1

(* Until it is shut down no wakeup of the pool is lost: a worker sleeps only if at
   least as many others are on their way to the queue, or about to be notified, as
   there are tasks in it. *)
NoLostWakeup ==
  Asleep # {} /\ ~Closing =>
    Len(tasks_) <= Cardinality({w \in PoolThreads : pc[w] \in {"lock", "test", "awake", "timeout"}})
                   + Cardinality({c \in Callers : pc[c] = "notify"})
=============================================================================

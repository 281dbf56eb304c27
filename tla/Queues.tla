-------------------------------- MODULE Queues --------------------------------
(***************************************************************************)
(* The blocking queues and the thread pools of the library, which hand work    *)
(* from threads to threads with a mutex and conditions, and its threads: one   *)
(* of them per behaviour.  All keep the same promises.                         *)
(***************************************************************************)
EXTENDS BoundedBlockingQueue

CONSTANTS
  Sizes, max_memory_size_, SizeMax, MovedSize(_),        \* of MemoryBlockingQueue
  Workers, Callers, maxQueueSize_, MaxTasks,             \* of ThreadPool
  Owner, Configs, Kinds, MaxPooled, MaxWorkers           \* of CachedThreadPool

VARIABLES
  part,                                                  \* which of them
  cur_memory_size_, want,
  running_, owner, calls, accepted, begun,
  kind, config, is_available_, is_shutdown_, is_shutdown_now_,
  waiting_thread_num_, flag, threads_, tasks_, limit, peak,
  th

memory == <<cur_memory_size_, want>>
pool   == <<running_, owner, calls, begun>>
cached == <<kind, config, is_available_, is_shutdown_, is_shutdown_now_,
            waiting_thread_num_, flag, threads_, tasks_, limit, peak>>

M == INSTANCE MemoryBlockingQueue
P == INSTANCE ThreadPool
C == INSTANCE CachedThreadPool WITH MaxTasks <- MaxPooled
T == INSTANCE Thread

None == "none"
NoMemory == cur_memory_size_ = None /\ want = None
NoPool   == running_ = None /\ owner = None /\ calls = None /\ begun = None
NoCached == /\ kind = None /\ config = None /\ is_available_ = None /\ is_shutdown_ = None
            /\ is_shutdown_now_ = None /\ waiting_thread_num_ = None /\ flag = None
            /\ threads_ = None /\ tasks_ = None /\ limit = None /\ peak = None

QueuesInit ==
  \/ part = "bounded" /\ Init /\ accepted = None /\ NoMemory /\ NoPool /\ NoCached /\ th = None
  \/ part = "memory" /\ M!MemInit /\ accepted = None /\ NoPool /\ NoCached /\ th = None
  \/ part = "pool" /\ P!Init /\ put = None /\ taken = None /\ NoMemory /\ NoCached /\ th = None
  \/ part = "cached" /\ C!PoolInit /\ queue_ = None /\ put = None /\ NoMemory /\ NoPool /\ th = None
  \/ /\ part = "thread" /\ T!ThreadInit /\ queue_ = None /\ put = None /\ taken = None
     /\ accepted = None /\ NoMemory /\ NoPool /\ NoCached

BoundedStep == part = "bounded" /\ Next /\ UNCHANGED <<part, accepted, memory, pool, cached, th>>
MemoryStep  == part = "memory" /\ M!MemNext /\ UNCHANGED <<part, accepted, pool, cached, th>>
PoolStep    == part = "pool" /\ P!Next /\ UNCHANGED <<part, put, taken, memory, cached, th>>
CachedStep  == part = "cached" /\ C!PoolNext /\ UNCHANGED <<part, queue_, put, memory, pool, th>>
ThreadStep  == /\ part = "thread" /\ T!ThreadNext
               /\ UNCHANGED <<part, queue_, put, taken, accepted, memory, pool, cached>>

ProducerStep(p) ==
  \/ part = "bounded" /\ (Put(p) \/ Wait(p))
  \/ part = "memory" /\ (M!EnqueuePush(p) \/ M!Wait(p))

ConsumerStep(c) ==
  \/ part = "bounded" /\ (Take(c) \/ Wait(c))
  \/ part = "memory" /\ (M!Dequeue(c) \/ M!Wait(c))

CallerStep(c) ==
  \/ part = "pool" /\ P!CallerStep(c)
  \/ part = "cached" /\ C!CallerStep(c)

(* Threads run, tasks end and whoever wants the mutex gets it; consumers keep
   taking.  Every such step moves a thread. *)
Fairness ==
  /\ \A p \in Producers : WF_pc(ProducerStep(p))
  /\ \A c \in Consumers : /\ WF_pc(ConsumerStep(c))
                          /\ WF_pc(part \in {"bounded", "memory"} /\ Call(c))
  /\ \A c \in Callers : WF_pc(CallerStep(c))
  /\ \A w \in Workers : WF_pc(part = "pool" /\ (P!StartWorker(w) \/ P!WorkerStep(w)))
  /\ \A w \in C!PoolThreads : WF_pc(part = "cached" /\ C!WorkerStep(w))
  /\ WF_pc(part = "cached" /\ C!OwnerStep)
  /\ WF_pc(part = "thread" /\ T!OwnerStep) /\ WF_pc(part = "thread" /\ T!ChildStep)
  /\ \A t \in {"owner", "child"} : SF_pc(part = "thread" /\ T!Lock(t))
  /\ WF_owner(part = "pool" /\ (P!Started \/ P!Join))

QueuesSpec ==
  /\ QueuesInit
  /\ [][BoundedStep \/ MemoryStep \/ PoolStep \/ CachedStep \/ ThreadStep]_<<vars, part, accepted, memory, pool, cached, th>>
  /\ Fairness

-----------------------------------------------------------------------------
(* Whatever the queue, what was put in leaves it in order and exactly once; the
   bounds on its length or memory and the counters of the pools are exact. *)
InOrder ==
  /\ part = "bounded" => TypeOK /\ Fifo
  /\ part = "memory" => M!Fifo
  /\ part = "pool" => P!TasksInOrder
  /\ part = "cached" => C!TasksInOrder

(* Nobody sleeps on work or room that no other thread is about to take, and nobody
   waits in a stopped ThreadPool. *)
WakeupsKept ==
  /\ part = "bounded" => NoLostWakeup
  /\ part = "memory" => M!NoLostWakeup
  /\ part = "pool" => P!NoLostWakeup /\ P!NobodyWaitsAfterStop
  /\ part = "cached" => C!NoLostWakeup

(* The pools with cache threads have no more of them than max_thread_num and the calls
   of Run() that overlapped explain; a Thread is used by its thread only while it lives. *)
ThreadsAccounted ==
  /\ part = "cached" => C!ThreadsBounded
  /\ part = "thread" => T!ThreadObjectSafe

(* Nobody is kept waiting and nothing is left over: what was put is taken, who waits
   for room gets on, the tasks of a running pool begin, and the threads of a stopped
   ThreadPool, or of a closed pool of zfish.hpp, which also runs what it has, end; start() and
   join() of a Thread return. *)
Settled ==
  /\ part \in {"bounded", "memory"} =>
       taken = put /\ (Len(put) < MaxItems => \A p \in Producers : pc[p] # "wait")
  /\ part = "pool" => /\ owner # "joining" /\ (running_ => begun = accepted)
                      /\ \A c \in Callers : pc[c] # "wait"
  /\ part = "cached" => \/ pc[Owner] = "new" \/ (C!Closing /\ kind # "zfish")
                        \/ tasks_ = <<>> /\ pc[Owner] \in {"idle", "closed"}
  /\ part = "thread" => /\ pc["owner"] \in {"new", "started", "joined", "gone", "aborted"}
                        /\ pc["child"] \in {"none", "ended", "aborted"}

(* Under the fairness of threads and mutexes every queue and pool settles. *)
Progress == []<>Settled
=============================================================================

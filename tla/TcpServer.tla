------------------------------ MODULE TcpServer ------------------------------
(***************************************************************************)
(* fishnet/net/tcp_server.{h,cc} over an Acceptor and an EventLoopThreadPool:  *)
(* several connections, each handed from the base loop to its io loop and back.  A    *)
(* connection is reduced to the part of TcpConnection.tla that the server     *)
(* sees: established, closed by its own loop, destroyed.  Each step runs one  *)
(* functor or one event of one loop; the loops interleave.                    *)
(***************************************************************************)
EXTENDS EventLoopThreadPool, Acceptor, FiniteSets

CONSTANTS
  Callers,     \* threads that call start(); thread 0 runs the base loop
  MaxConns,    \* bound on accepted connections
  ServerDies   \* ~TcpServer() may run

ASSUME ServerConstants ==
  Callers \subseteq Nat /\ MaxConns \in Nat /\ ServerDies \in BOOLEAN

VARIABLES
  started_,       \* AtomicInt32
  starting,       \* the base loop's thread is inside EventLoopThreadPool::start()
  aborted,        \* LOG_FATAL ended the program
  nextConnId_,
  connections_,   \* the map: ids of the connections in it
  loopOf, state,  \* per connection: its loop and its state_
  tasks,          \* per loop: queued functors
  gone,           \* ~TcpServer() has begun
  stopped,        \* io loops that have been left
  ups, downs, destroyed, badErase   \* history

Conns == 1..MaxConns

life == <<gone, stopped>>
startVars == <<started_, starting, aborted>>
hist == <<ups, downs, destroyed, badErase>>
vars == <<pool, acceptor, startVars, nextConnId_, connections_, loopOf, state, tasks, life, hist>>

Task(op, c) == [op |-> op, conn |-> c]

Init ==
  /\ PoolInit /\ AcceptorInit
  /\ started_ = 0 /\ starting = FALSE /\ aborted = FALSE /\ nextConnId_ = 1
  /\ connections_ = {}
  /\ loopOf = [c \in Conns |-> baseLoop_] /\ state = [c \in Conns |-> "kConnecting"]
  /\ tasks = [l \in Loops |-> <<>>]
  /\ gone = FALSE /\ stopped = {}
  /\ ups = [c \in Conns |-> 0] /\ downs = [c \in Conns |-> 0] /\ destroyed = [c \in Conns |-> 0]
  /\ badErase = FALSE

Enqueue(q, l, op, c) == [q EXCEPT ![l] = Append(@, Task(op, c))]

-----------------------------------------------------------------------------
(* start() *)

(* The beginning of EventLoopThreadPool::start(): assertInLoopThread() is a LOG_FATAL in
   every build. *)
PoolStart(t) ==
  IF t = 0 THEN starting' = TRUE /\ poolStarted' = TRUE /\ UNCHANGED aborted
           ELSE aborted' = TRUE /\ UNCHANGED <<starting, poolStarted>>

(* getAndAdd(); the first caller goes on. *)
Start(t) ==
  /\ ~gone /\ (t = 0 => pc = "poll" /\ ~starting)
  /\ started_ <= Cardinality(Callers)      \* bound on the calls
  /\ started_' = started_ + 1
  /\ IF started_ = 0
     THEN PoolStart(t)
     ELSE UNCHANGED <<starting, poolStarted, aborted>>
  /\ UNCHANGED <<numThreads_, loops_, next_, acceptor, nextConnId_, connections_, loopOf, state, tasks, life, hist>>

StartThread ==
  /\ starting
  /\ AddLoop
  /\ UNCHANGED <<acceptor, startVars, nextConnId_, connections_, loopOf, state, tasks, life, hist>>

(* The rest of start(): the thread is that of the base loop, so that runInLoop()
   calls Acceptor::listen() at once. *)
StartListening ==
  /\ starting /\ Len(loops_) = numThreads_
  /\ starting' = FALSE
  /\ Listen
  /\ UNCHANGED <<pool, started_, aborted, nextConnId_, connections_, loopOf, state, tasks, life, hist>>

-----------------------------------------------------------------------------
(* The base loop's thread does nothing else inside start(), handleRead() and
   ~TcpServer(). *)
Running(l) ==
  /\ l \notin stopped
  /\ l = baseLoop_ => /\ pc = "poll"
                      /\ ~starting
                      /\ gone => connections_ = {} /\ 1..numThreads_ \subseteq stopped

Establish(c) ==
  /\ state' = [state EXCEPT ![c] = "kConnected"]
  /\ ups' = [ups EXCEPT ![c] = @ + 1]

(* newConnection(), called by Acceptor::handleRead() *)
NewConnection ==
  /\ Running(baseLoop_) /\ Accept
  /\ LET c == nextConnId_
     IN /\ loopOf' = [loopOf EXCEPT ![c] = NextLoop]
        /\ connections_' = connections_ \cup {c}
        /\ IF NextLoop = baseLoop_
           THEN Establish(c) /\ UNCHANGED tasks
           ELSE tasks' = Enqueue(tasks, NextLoop, "connectEstablished", c) /\ UNCHANGED <<state, ups>>
  /\ Advance
  /\ nextConnId_' = nextConnId_ + 1
  /\ UNCHANGED <<startVars, life, downs, destroyed, badErase>>


(* removeConnectionInLoop() *)
EraseAndDestroy(q, c) ==
  /\ connections_' = connections_ \ {c}
  /\ badErase' = (badErase \/ c \notin connections_)
  /\ tasks' = Enqueue(q, loopOf[c], "connectDestroyed", c)

RemoveConnection_Lost(c) == UNCHANGED <<connections_, badErase, tasks>>

(* removeConnection(), in the connection's loop.  On a destroyed server it is
   undefined; here it has no effect. *)
RemoveConnection(c) ==
  IF gone THEN UNCHANGED <<connections_, badErase, tasks>>
  ELSE IF loopOf[c] = baseLoop_ THEN EraseAndDestroy(tasks, c)
  ELSE /\ tasks' = Enqueue(tasks, baseLoop_, "removeConnectionInLoop", c)
       /\ UNCHANGED <<connections_, badErase>>

(* TcpConnection::handleClose() *)
HandleClose(c) ==
  /\ state[c] = "kConnected" /\ Running(loopOf[c])
  /\ state' = [state EXCEPT ![c] = "kDisconnected"]
  /\ downs' = [downs EXCEPT ![c] = @ + 1]
  /\ RemoveConnection(c)
  /\ UNCHANGED <<pool, acceptor, startVars, nextConnId_, loopOf, life, ups, destroyed>>

(* TcpConnection::connectDestroyed(), then the end of the functor that held the
   connection, which closes its descriptor. *)
Disconnect(c) ==
  IF state[c] = "kConnected"
  THEN state' = [state EXCEPT ![c] = "kDisconnected"] /\ downs' = [downs EXCEPT ![c] = @ + 1]
  ELSE UNCHANGED <<state, downs>>

ConnectDestroyed(c) ==
  /\ Disconnect(c)
  /\ destroyed' = [destroyed EXCEPT ![c] = @ + 1]
  /\ accepted' = accepted - 1
  /\ UNCHANGED <<idle_fd_, others, backlog, listening_, pc>>

RunTask(l) ==
  /\ tasks[l] # <<>> /\ Running(l)
  /\ LET task == Head(tasks[l])
         c    == task.conn
         rest == [tasks EXCEPT ![l] = Tail(@)]
     IN \/ /\ task.op = "connectEstablished"
           /\ Establish(c) /\ tasks' = rest
           /\ UNCHANGED <<acceptor, connections_, downs, destroyed, badErase>>
        \/ /\ task.op = "removeConnectionInLoop" /\ ~gone
           /\ EraseAndDestroy(rest, c)
           /\ UNCHANGED <<acceptor, state, ups, downs, destroyed>>
        \/ /\ task.op = "removeConnectionInLoop" /\ gone
           /\ tasks' = rest
           /\ UNCHANGED <<acceptor, connections_, state, hist>>
        \/ /\ task.op = "connectDestroyed"
           /\ ConnectDestroyed(c) /\ tasks' = rest
           /\ UNCHANGED <<connections_, ups, badErase>>
  /\ UNCHANGED <<pool, startVars, nextConnId_, loopOf, life>>

(* ~TcpServer() begins.  The Acceptor, which is a member, goes with it. *)
DestroyServer ==
  /\ ServerDies /\ ~gone /\ pc = "poll" /\ ~starting
  /\ gone' = TRUE
  /\ CloseAcceptor
  /\ UNCHANGED <<pool, startVars, nextConnId_, connections_, loopOf, state, tasks, stopped, hist>>

(* One turn of its loop over the map: connectDestroyed(), at once for a connection
   of the base loop, while the io loops go on.  The model takes the
   entries of the map in any order; the map's own is that of names. *)
DestroyConnection(c) ==
  /\ gone /\ c \in connections_
  /\ connections_' = connections_ \ {c}
  /\ IF loopOf[c] = baseLoop_
     THEN ConnectDestroyed(c) /\ UNCHANGED tasks
     ELSE /\ tasks' = Enqueue(tasks, loopOf[c], "connectDestroyed", c)
          /\ UNCHANGED <<acceptor, state, downs, destroyed>>
  /\ UNCHANGED <<pool, startVars, nextConnId_, loopOf, life, ups, badErase>>

(* ~EventLoopThread() of the pool's threads, in order: quit() and join().  A loop
   that sees quit_ leaves with the functors queued since its last batch. *)
StopLoop(l) ==
  /\ gone /\ connections_ = {} /\ l \in 1..numThreads_ /\ stopped = 1..(l - 1)
  /\ stopped' = stopped \cup {l}
  /\ tasks' = [tasks EXCEPT ![l] = <<>>]
  /\ UNCHANGED <<pool, acceptor, startVars, nextConnId_, connections_, loopOf, state, gone, hist>>

(* The rest of the server does not change while handleRead() meets EMFILE. *)
AtDescriptorLimit ==
  /\ Running(baseLoop_) \/ pc # "poll"
  /\ HandleReadFull
  /\ UNCHANGED <<pool, startVars, nextConnId_, connections_, loopOf, state, tasks, life, hist>>

(* Clients and other code, while there is an Acceptor they matter to.  At most
   MaxConns connections can still be accepted. *)
Environment ==
  /\ ~gone
  /\ \/ Clients /\ nextConnId_ + backlog' <= MaxConns + 1
     \/ OtherCode
  /\ UNCHANGED <<pool, startVars, nextConnId_, connections_, loopOf, state, tasks, life, hist>>

-----------------------------------------------------------------------------
Next ==
  /\ ~aborted
  /\ \/ \E t \in Callers : Start(t)
     \/ StartThread \/ StartListening
     \/ NewConnection \/ AtDescriptorLimit \/ Environment \/ DestroyServer
     \/ \E c \in Conns : HandleClose(c) \/ DestroyConnection(c)
     \/ \E l \in Loops : RunTask(l) \/ StopLoop(l)

Spec == Init /\ [][Next]_vars

(* Every loop runs the functors queued in it, also when events keep coming: loop()
   calls doPendingFunctors() after every batch of handlers.  The listening socket
   is handled while it is readable, and start() goes on. *)
FairSpec ==
  /\ Spec
  /\ \A l \in Loops : SF_vars(RunTask(l))
  /\ WF_vars(NewConnection \/ AtDescriptorLimit)
  /\ WF_vars(StartThread) /\ WF_vars(StartListening)

-----------------------------------------------------------------------------
TypeOK ==
  /\ AcceptorTypeOK
  /\ next_ \in 0..numThreads_ /\ (loops_ # <<>> => next_ < Len(loops_))
  /\ nextConnId_ \in 1..(MaxConns + 1) /\ connections_ \subseteq Conns
  /\ loopOf \in [Conns -> Loops]
  /\ state \in [Conns -> {"kConnecting", "kConnected", "kDisconnected"}]
  /\ \A l \in Loops : \A i \in DOMAIN tasks[l] : tasks[l][i].conn \in Conns

(* start(), called any number of times and by any threads, completes the pool once
   before the socket listens, or ends the program before there is a connection (when
   the first call is not in the base loop's thread); and getNextLoop() deals
   connections out evenly: none to the base loop, and the loops of the pool differ
   by at most one in their number. *)
BalancedLoops ==
  LET Given(l) == Cardinality({c \in 1..(nextConnId_ - 1) : loopOf[c] = l})
  IN /\ TypeOK
     /\ listening_ => Len(loops_) = numThreads_ /\ ~aborted
     /\ numThreads_ > 0 => /\ Given(baseLoop_) = 0
                           /\ \A k, l \in 1..numThreads_ : Given(k) <= Given(l) + 1


(* After handleRead() the spare descriptor is on /dev/null again, so that the next
   EMFILE can be handled too, while io loops close descriptors at any moment. *)
IdleFdKept == pc = "poll" /\ ~gone => idle_fd_ = "null"

(* Every connection that goes down is destroyed in the end, across the loops that
   hand it to each other and while events keep coming, unless the server is; and a
   waiting connection is accepted or dropped also when no descriptor is left: the
   level-triggered listening socket does not keep the loop busy for ever. *)
ServerProgress ==
  /\ \A c \in Conns : state[c] = "kDisconnected" ~> destroyed[c] = 1 \/ gone
  /\ []<>(backlog < MaxBacklog)
=============================================================================

------------------------------ MODULE Connector ------------------------------
(***************************************************************************)
(* fishnet/net/connector.{h,cc} and what it needs of its loop: the queue of    *)
(* functors, run in batches after the events of an iteration, and the retry    *)
(* timers.  A socket is numbered as it is created.  A failing assert ends the  *)
(* behaviour, as it ends the program.  connect_ is stored by any thread without *)
(* a lock: what the loop thread does after a test of it is a step of its own,   *)
(* but in retry(), whose timer tests it again.                              *)
(*                                                                         *)
(* The delays (500 ms and more) are longer than the loop takes to run the      *)
(* functors already queued when a timer is set: TimePasses waits for them.     *)
(***************************************************************************)
EXTENDS Channel, Naturals, Sequences

CONSTANT MaxSockets     \* bound on the sockets created

ASSUME SocketsAssumption == MaxSockets \in Nat

kInitRetryDelayMs == 500
kMaxRetryDelayMs  == 30 * 1000

VARIABLES
  connect_, state_, retryDelaysMs_,
  channel_,        \* socket of the channel, 0 for no channel
  watched,         \* the channel is registered with the poller
  status,          \* of every socket: "connecting", "made" (in handleWrite()), "up"
                   \* (newConnectionCallback_ has it), "down", "closed"
  inside,          \* where the loop thread is: "start" in startInLoop() before the test of connect_,
                   \* "connect" after it, "callback" in handleWrite() after its test, or "none" of these
  tasks, batch,    \* queued functors; those left of the batch being run
  callbacks,       \* what is left of channel_'s handleEvent()
  fresh, armed,    \* retry timers that cannot, and that can, have expired
  gaveUp,          \* history: connect() failed for good
  failed           \* history: an assert failed

connector == <<connect_, inside, state_, retryDelaysMs_, channel_, watched, fresh, gaveUp>>
loopState == <<tasks, batch, callbacks, armed>>
connectorVars == <<connector, loopState, status, failed>>

Task(op, fd) == [op |-> op, fd |-> fd]
Queue(op, fd) == Append(tasks, Task(op, fd))

ConnectorInit ==
  /\ connect_ = FALSE /\ state_ = "kDisconnected" /\ retryDelaysMs_ = kInitRetryDelayMs
  /\ channel_ = 0 /\ watched = FALSE /\ status = <<>> /\ inside = "none"
  /\ tasks = <<>> /\ batch = 0 /\ callbacks = <<>> /\ fresh = 0 /\ armed = 0
  /\ gaveUp = FALSE /\ failed = FALSE

Doubled(d) == IF 2 * d < kMaxRetryDelayMs THEN 2 * d ELSE kMaxRetryDelayMs

-----------------------------------------------------------------------------
Closed_Leaked(fd) == status

Closed(fd) == [status EXCEPT ![fd] = "closed"]

RetryTimer_Never == state_' = "kDisconnected" /\ UNCHANGED <<fresh, retryDelaysMs_>>

(* retry(), but for the close() *)
RetryTimer ==
  /\ state_' = "kDisconnected"
  /\ IF connect_
     THEN fresh' = fresh + 1 /\ retryDelaysMs_' = Doubled(retryDelaysMs_)
     ELSE UNCHANGED <<fresh, retryDelaysMs_>>

(* startInLoop(), up to and including its test *)
StartInLoop ==
  /\ inside = "start"
  /\ failed' = (state_ # "kDisconnected")
  /\ inside' = IF state_ = "kDisconnected" /\ connect_ THEN "connect" ELSE "none"
  /\ UNCHANGED <<connect_, state_, retryDelaysMs_, channel_, watched, fresh, gaveUp, loopState, status>>

Connecting(fd) ==
  /\ state_' = "kConnecting"
  /\ failed' = (channel_ # 0)
  /\ channel_' = fd /\ watched' = TRUE

(* connect(): the connection is on its way, or connect(2) failed with an error
   that is worth another try, or with one that is not. *)
Connect ==
  /\ inside = "connect" /\ Len(status) < MaxSockets
  /\ inside' = "none"
  /\ \/ /\ status' = Append(status, "connecting")
        /\ Connecting(Len(status) + 1)
        /\ UNCHANGED <<retryDelaysMs_, fresh, gaveUp>>
     \/ /\ status' = Append(status, "closed")
        /\ RetryTimer
        /\ UNCHANGED <<channel_, watched, gaveUp, failed>>
     \/ /\ status' = Append(status, "closed")
        /\ gaveUp' = TRUE
        /\ UNCHANGED <<state_, retryDelaysMs_, fresh, channel_, watched, failed>>
  /\ UNCHANGED <<connect_, loopState>>

Restart_StateKept ==
  /\ connect_' = TRUE /\ inside' = "start"
  /\ retryDelaysMs_' = kInitRetryDelayMs
  /\ UNCHANGED <<state_, channel_, watched, fresh, gaveUp>>

(* restart(), up to startInLoop() *)
Restart ==
  /\ connect_' = TRUE /\ inside' = "start"
  /\ state_' = "kDisconnected" /\ retryDelaysMs_' = kInitRetryDelayMs
  /\ UNCHANGED <<channel_, watched, fresh, gaveUp>>

(* removeAndResetChannel(): the functor is queued behind the tasks. *)
RemoveChannel(queued) ==
  /\ watched' = FALSE
  /\ tasks' = Append(queued, Task("resetChannel", 0))
  /\ UNCHANGED channel_

StopInLoop ==
  IF state_ = "kConnecting"
  THEN /\ RemoveChannel(Tail(tasks))
       /\ status' = Closed(channel_)
       /\ RetryTimer
  ELSE /\ tasks' = Tail(tasks)
       /\ UNCHANGED <<state_, retryDelaysMs_, channel_, watched, fresh, status>>

-----------------------------------------------------------------------------
(* The loop thread *)

(* The next functor of the batch is op. *)
Runs(op) == batch > 0 /\ Head(tasks).op = op /\ batch' = batch - 1

RunStart ==
  /\ Runs("startInLoop") /\ inside' = "start"
  /\ tasks' = Tail(tasks)
  /\ UNCHANGED <<connect_, state_, retryDelaysMs_, channel_, watched, fresh, gaveUp, callbacks, armed, status, failed>>

RunStop ==
  /\ Runs("stopInLoop") /\ StopInLoop
  /\ UNCHANGED <<connect_, inside, gaveUp, callbacks, armed, failed>>

ResetChannel ==
  /\ Runs("resetChannel")
  /\ channel_' = 0
  /\ tasks' = Tail(tasks)
  /\ UNCHANGED <<connect_, inside, state_, retryDelaysMs_, watched, fresh, gaveUp, callbacks, armed, status, failed>>

DoPendingFunctors ==
  /\ batch = 0 /\ callbacks = <<>> /\ tasks # <<>>
  /\ batch' = Len(tasks)
  /\ UNCHANGED <<connector, tasks, callbacks, armed, status, failed>>

TimePasses ==
  /\ batch = 0 /\ callbacks = <<>> /\ tasks = <<>> /\ fresh > 0
  /\ armed' = armed + fresh /\ fresh' = 0
  /\ UNCHANGED <<connect_, inside, state_, retryDelaysMs_, channel_, watched, gaveUp, tasks, batch, callbacks, status, failed>>

TimerFires ==
  /\ batch = 0 /\ callbacks = <<>> /\ armed > 0
  /\ armed' = armed - 1 /\ inside' = "start"
  /\ UNCHANGED <<connect_, state_, retryDelaysMs_, channel_, watched, fresh, gaveUp, tasks, batch, callbacks, status, failed>>

(* connect(2) is over: the socket is writable, with an error perhaps.  The channel
   has no close and no read callback. *)
Poll(revents) ==
  /\ batch = 0 /\ callbacks = <<>> /\ watched
  /\ callbacks' = SelectSeq(handleEvent(revents), LAMBDA c : c \in {"error", "write"})
  /\ UNCHANGED <<connector, tasks, batch, armed, status, failed>>

Dispatches(name) == callbacks # <<>> /\ Head(callbacks) = name /\ callbacks' = Tail(callbacks)

HandOver_Stopped(fd) ==
  /\ state_' = "kConnected" /\ inside' = "callback"
  /\ status' = [status EXCEPT ![fd] = "made"]

(* handleWrite() on a connection that is made, up to and including its test *)
HandOver(fd) ==
  /\ state_' = "kConnected"
  /\ IF connect_
     THEN inside' = "callback" /\ status' = [status EXCEPT ![fd] = "made"]
     ELSE status' = Closed(fd) /\ UNCHANGED inside

(* SO_ERROR is set or the socket is connected to itself; or all is well. *)
HandleWrite ==
  /\ Dispatches("write")
  /\ IF state_ = "kConnecting"
     THEN /\ RemoveChannel(tasks)
          /\ \/ status' = Closed(channel_) /\ RetryTimer /\ UNCHANGED inside
             \/ HandOver(channel_) /\ UNCHANGED <<fresh, retryDelaysMs_>>
          /\ UNCHANGED failed
     ELSE /\ failed' = (state_ # "kDisconnected")
          /\ UNCHANGED <<inside, state_, retryDelaysMs_, channel_, watched, fresh, tasks, status>>
  /\ UNCHANGED <<connect_, gaveUp, batch, armed>>

(* newConnectionCallback_(sockfd): resetChannel() has still to run. *)
CallBack ==
  /\ inside = "callback" /\ inside' = "none"
  /\ status' = [status EXCEPT ![channel_] = "up"]
  /\ UNCHANGED <<connect_, state_, retryDelaysMs_, channel_, watched, fresh, gaveUp, loopState, failed>>

HandleError ==
  /\ Dispatches("error")
  /\ IF state_ = "kConnecting"
     THEN /\ RemoveChannel(tasks)
          /\ status' = Closed(channel_)
          /\ RetryTimer
     ELSE UNCHANGED <<state_, retryDelaysMs_, channel_, watched, fresh, tasks, status>>
  /\ UNCHANGED <<connect_, inside, gaveUp, batch, armed, failed>>
=============================================================================

------------------------------ MODULE TcpClient ------------------------------
(***************************************************************************)
(* fishnet/net/tcp_client.{h,cc} composed with its Connector.  The client is   *)
(* used by the loop thread and by one other thread, whose calls are a step per  *)
(* store and per functor queued; it is destroyed in the loop thread.  Of a      *)
(* TcpConnection it keeps what the client sees: up, down after handleClose(),   *)
(* and its descriptor closed after connectDestroyed().                          *)
(***************************************************************************)
EXTENDS Connector

CONSTANTS
  MaxCalls,     \* bound on the calls of user code
  Liberties     \* what user code does beyond connecting once and stopping:
                \*   "stopElsewhere"  stop() in the other thread of a client that reconnects
                \*   "startAgain"     connect() after stop()
                \*   "destroyAtOnce"  the client dies while functors of a connected connector wait

ASSUME ClientAssumption ==
  MaxCalls \in Nat /\ Liberties \subseteq {"stopElsewhere", "startAgain", "destroyAtOnce"}

VARIABLES
  clientConnect_,     \* connect_ of the TcpClient
  retry_,             \* enableRetry() was called
  connection_,        \* socket of the connection, 0 for none
  pc,                 \* loop thread: "loop", in handleClose() before closeCallback_ ("closing"),
                      \* in removeConnection() before restart() ("restart")
  closing,            \* the connection in handleClose()
  other,              \* the other thread: [op, at]
  held,               \* user code keeps a pointer to the connection
  gone, grace,        \* ~TcpClient() has run; the connector is kept for a second
  detached,           \* connections whose closeCallback_ is detail::removeConnection()
  calls, started, stopped        \* history: calls made, connect() returned, stop() returned

client  == <<clientConnect_, retry_, connection_, detached, gone, grace>>
user    == <<other, held, calls, started, stopped>>
vars    == <<connectorVars, client, pc, closing, user>>
Idle    == [op |-> "none", at |-> 0]
InLoop  == pc = "loop" /\ inside = "none" /\ ~failed

Init ==
  /\ ConnectorInit
  /\ clientConnect_ = TRUE /\ retry_ \in BOOLEAN /\ connection_ = 0 /\ detached = {}
  /\ gone = FALSE /\ grace = FALSE /\ pc = "loop" /\ closing = 0
  /\ other = Idle /\ held \in BOOLEAN /\ calls = 0 /\ started = FALSE /\ stopped = FALSE

-----------------------------------------------------------------------------
(* User code *)

MayCall(op, elsewhere) ==
  /\ ~failed /\ ~gone /\ calls < MaxCalls /\ other.op # "connect"
  /\ CASE op = "connect"    -> ~started \/ (stopped /\ "startAgain" \in Liberties)
       [] op = "stop"       -> started /\ (elsewhere /\ retry_ => "stopElsewhere" \in Liberties)
       [] op = "disconnect" -> started

(* connect(), stop() and disconnect() in the loop thread, in a callback or functor *)
CallHere(op) ==
  /\ pc \in {"loop", "closing"} /\ inside = "none" /\ callbacks = <<>> /\ MayCall(op, FALSE)
  /\ calls' = calls + 1
  /\ clientConnect_' = (op = "connect")
  /\ CASE op = "connect" ->
            /\ connect_' = TRUE /\ inside' = "start"
            /\ started' = TRUE /\ stopped' = FALSE
            /\ UNCHANGED tasks
       [] op = "stop" ->
            /\ connect_' = FALSE /\ tasks' = Queue("stopInLoop", 0)
            /\ stopped' = TRUE
            /\ UNCHANGED <<inside, started>>
       [] op = "disconnect" ->      \* shutdown() of connection_, which the peer answers with a close
            UNCHANGED <<connect_, inside, tasks, started, stopped>>
  /\ UNCHANGED <<state_, retryDelaysMs_, channel_, watched, fresh, gaveUp, status, failed>>
  /\ UNCHANGED <<batch, callbacks, armed, retry_, connection_, detached, gone, grace, pc, closing, other, held>>

(* The same in the other thread: the stores of both connect_, then the functor *)
CallElsewhere(op) ==
  /\ MayCall(op, TRUE) /\ other = Idle
  /\ calls' = calls + 1
  /\ clientConnect_' = (op = "connect")
  /\ other' = IF op = "disconnect" THEN Idle ELSE [op |-> op, at |-> 1]
  /\ stopped' = (stopped /\ op # "connect")
  /\ UNCHANGED <<connectorVars, retry_, connection_, detached, gone, grace, pc, closing, held, started>>

StoreElsewhere ==
  /\ ~failed /\ other.at = 1
  /\ connect_' = (other.op = "connect")
  /\ other' = [other EXCEPT !.at = 2]
  /\ UNCHANGED <<inside, state_, retryDelaysMs_, channel_, watched, fresh, gaveUp, loopState, status, failed,
                 client, pc, closing, held, calls, started, stopped>>

QueueElsewhere ==
  /\ ~failed /\ other.at = 2
  /\ tasks' = Queue(IF other.op = "connect" THEN "startInLoop" ELSE "stopInLoop", 0)
  /\ other' = Idle
  /\ started' = (started \/ other.op = "connect")
  /\ stopped' = (stopped \/ other.op = "stop")
  /\ UNCHANGED <<connector, batch, callbacks, armed, status, failed, client, pc, closing, held, calls>>

(* Functors bound to a raw pointer to the Connector are queued. *)
ConnectorQueued == \E i \in DOMAIN tasks : tasks[i].op \in {"startInLoop", "stopInLoop", "resetChannel"}

(* ~TcpClient().  Nobody uses the client any more. *)
Destroy ==
  /\ InLoop /\ callbacks = <<>> /\ ~gone /\ other = Idle
  /\ connection_ # 0 /\ ConnectorQueued => "destroyAtOnce" \in Liberties
  /\ gone' = TRUE
  /\ IF connection_ # 0
     THEN /\ detached' = detached \cup {connection_}
          /\ tasks' = IF held THEN tasks ELSE Queue("forceCloseInLoop", connection_)
          /\ UNCHANGED <<connect_, grace>>
     ELSE /\ connect_' = FALSE /\ tasks' = Queue("stopInLoop", 0)
          /\ grace' = TRUE
          /\ UNCHANGED detached
  /\ UNCHANGED <<inside, state_, retryDelaysMs_, channel_, watched, fresh, gaveUp, batch, callbacks, armed, status,
                 failed, clientConnect_, retry_, connection_, pc, closing, user>>

-----------------------------------------------------------------------------
(* The loop thread *)

ConnectorStep ==
  /\ \/ /\ InLoop
        /\ \/ RunStart \/ RunStop \/ ResetChannel \/ DoPendingFunctors \/ TimePasses \/ TimerFires
           \/ Poll({"out"}) \/ Poll({"out", "err", "hup"})
           \/ HandleWrite \/ HandleError
     \/ ~failed /\ (StartInLoop \/ Connect)
  /\ UNCHANGED <<client, pc, closing, user>>

(* newConnection(), the newConnectionCallback_ of the connector *)
NewConnection ==
  /\ ~failed /\ CallBack
  /\ connection_' = channel_
  /\ UNCHANGED <<clientConnect_, retry_, detached, gone, grace, pc, closing, user>>

(* handleClose() of a connection, up to and including connectionCallback_ *)
HandleClose(fd) ==
  /\ status' = [status EXCEPT ![fd] = "down"]
  /\ pc' = "closing" /\ closing' = fd

(* The peer closes.  The channel of a new connection is polled in the iteration
   after handleWrite(), when resetChannel() has run. *)
ConnectionCloses(fd) ==
  /\ InLoop /\ batch = 0 /\ callbacks = <<>> /\ status[fd] = "up" /\ channel_ # fd
  /\ HandleClose(fd)
  /\ UNCHANGED <<connector, loopState, failed, client, user>>

RunForceClose ==
  /\ InLoop /\ Runs("forceCloseInLoop")
  /\ IF status[Head(tasks).fd] = "up" THEN HandleClose(Head(tasks).fd) ELSE UNCHANGED <<status, pc, closing>>
  /\ tasks' = Tail(tasks)
  /\ UNCHANGED <<connector, callbacks, armed, failed, client, user>>

Reconnects == retry_ /\ clientConnect_

(* closeCallback_: removeConnection() of the client, up to the test before
   restart(), or detail::removeConnection() *)
RemoveConnection ==
  /\ pc = "closing" /\ inside = "none" /\ ~failed
  /\ tasks' = Queue("connectDestroyed", closing)
  /\ IF closing \in detached
     THEN pc' = "loop" /\ UNCHANGED <<connection_, failed>>
     ELSE /\ failed' = (connection_ # closing)
          /\ connection_' = 0
          /\ pc' = IF Reconnects THEN "restart" ELSE "loop"
  /\ closing' = 0
  /\ UNCHANGED <<connector, batch, callbacks, armed, status, clientConnect_, retry_, detached, gone, grace, user>>

RestartConnector ==
  /\ pc = "restart" /\ ~failed
  /\ Restart
  /\ pc' = "loop"
  /\ UNCHANGED <<loopState, status, failed, client, closing, user>>

RunConnectDestroyed ==
  /\ InLoop /\ Runs("connectDestroyed")
  /\ status' = Closed(Head(tasks).fd)
  /\ tasks' = Tail(tasks)
  /\ UNCHANGED <<connector, callbacks, armed, failed, client, pc, closing, user>>

(* The timer that kept the connector: a second is longer than the functors take. *)
RemoveConnector ==
  /\ InLoop /\ grace /\ batch = 0 /\ callbacks = <<>> /\ tasks = <<>>
  /\ grace' = FALSE
  /\ UNCHANGED <<connectorVars, clientConnect_, retry_, connection_, detached, gone, pc, closing, user>>

LoopStep ==
  \/ ConnectorStep \/ NewConnection \/ RunForceClose \/ RemoveConnection \/ RestartConnector
  \/ RunConnectDestroyed \/ RemoveConnector

OtherStep == StoreElsewhere \/ QueueElsewhere

Next ==
  \/ LoopStep \/ OtherStep \/ Destroy
  \/ \E op \in {"connect", "stop", "disconnect"} : CallHere(op) \/ CallElsewhere(op)
  \/ \E fd \in DOMAIN status : ConnectionCloses(fd)

Spec == Init /\ [][Next]_vars

(* Both threads run; the kernel ends every connect(2) and timers expire. *)
FairSpec == Spec /\ WF_vars(LoopStep) /\ WF_vars(OtherStep)

-----------------------------------------------------------------------------
TypeOK ==
  /\ state_ \in {"kDisconnected", "kConnecting", "kConnected"}
  /\ retryDelaysMs_ \in kInitRetryDelayMs..kMaxRetryDelayMs
  /\ channel_ \in 0..MaxSockets /\ connection_ \in 0..MaxSockets /\ batch \in 0..Len(tasks)
  /\ \A fd \in DOMAIN status : status[fd] \in {"connecting", "made", "up", "down", "closed"}
  /\ inside \in {"none", "start", "connect", "callback"}

(* The client and its timers have let go of the Connector. *)
ConnectorDead == gone /\ ~grace /\ fresh + armed = 0

(* Asserts of connector.cc and tcp_client.cc: a connector is disconnected when it
   starts and has no channel when it connects, whatever became of earlier attempts,
   their timers and functors; a connection that closes is the client's; and the
   Connector dies without a channel and with no functor bound to it still to run, though
   start(), stop() and removeAndResetChannel() bind a raw pointer. *)
ClientAsserts ==
  /\ TypeOK /\ ~failed
  /\ ConnectorDead => channel_ = 0 /\ ~ConnectorQueued

(* No socket leaks and none has two owners: one that is being connected is that of
   the channel of a kConnecting connector, one that is made and not handed over yet is
   in handleWrite(), and one handed over belongs to connection_, or to a connection of
   a client that is gone. *)
SocketsOwned ==
  \A fd \in DOMAIN status :
    /\ status[fd] = "connecting" <=> state_ = "kConnecting" /\ channel_ = fd
    /\ status[fd] = "made" <=> inside = "callback" /\ channel_ = fd
    /\ status[fd] = "up" => connection_ = fd

(* Once stop() has returned, the loop thread never again decides to connect or to
   accept a connection: pending retry timers, queued functors and connects under way
   end.  A socket or a connection still comes of it only if the loop thread was
   already past its test of connect_, which another thread's stop() cannot undo. *)
StopIsFinal ==
  [][stopped /\ stopped' =>
       /\ inside' \in {"connect", "callback"} => inside' = inside
       /\ Len(status') > Len(status) => inside = "connect"
       /\ (\E fd \in DOMAIN status : status'[fd] = "up" /\ status[fd] # "up") => inside = "callback"]_vars

(* A client that wants a connection gets one unless it is stopped or destroyed,
   connect(2) fails for good, or the attempts are used up: neither a refused
   connection nor a closed one (with enableRetry()) ends the retries.  An attempt that
   stop() comes too late for is given up by the stopInLoop() behind it.  And when the
   client is gone all its sockets are closed in the end, if user code keeps no
   pointer to the connection. *)
ClientProgress ==
  /\ (connect_ /\ started /\ state_ = "kDisconnected" /\ Len(status) < MaxSockets)
       ~> (\E fd \in DOMAIN status : status[fd] = "up") \/ Len(status) = MaxSockets
            \/ gaveUp \/ ~connect_ \/ gone
  /\ stopped ~> state_ # "kConnecting" \/ ~stopped
  /\ (gone /\ ~held) ~> \A fd \in DOMAIN status : status[fd] = "closed"
=============================================================================

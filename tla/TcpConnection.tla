---------------------------- MODULE TcpConnection ----------------------------
(***************************************************************************)
(* fishnet/net/tcp_connection.{h,cc} with what TcpServer does to one of its  *)
(* connections.  Three parties: the loop thread of the connection (polled    *)
(* events, functors, user code in callbacks), one other thread that calls    *)
(* the public functions, and the server's loop, which removes the connection *)
(* from the map.  state_ is a plain variable: the test and the store of       *)
(* shutdown() and forceClose() in another thread are separate steps.          *)
(*                                                                         *)
(* A message is a number, sent as MessageSize units.  The channel behaves as  *)
(* EPollPoller.tla has it.  A failing assert does not stop the model.         *)
(***************************************************************************)
EXTENDS Channel, Integers

CONSTANTS
  Usages,         \* ways of using a connection; see UsageType
  MessageSize,
  highWaterMark_

Ops == {"send", "shutdown", "forceClose", "forceCloseWithDelay", "startRead", "stopRead"}

UsageType(maxCalls, maxInbox) ==
  [loopOps       : SUBSET Ops,       \* what user code in the loop thread calls
   foreignOps    : SUBSET Ops,       \* what the other thread calls
   whenConnected : BOOLEAN,          \* startRead() and stopRead() on connected() connections only
   serverDies    : BOOLEAN,          \* the TcpServer may be destroyed
   maxCalls      : {maxCalls},       \* bound on the calls
   maxInbox      : {maxInbox}]       \* bound on the unread input

ASSUME TcpConstants ==
  /\ \A u \in Usages : u.maxCalls \in Nat /\ u.maxInbox \in Nat /\ u \in UsageType(u.maxCalls, u.maxInbox)
  /\ MessageSize \in Nat \ {0} /\ highWaterMark_ \in Nat

VARIABLES
  usage,
  state_, reading_, outputBuffer_,
  events,        \* mask of channel_
  watched,       \* channel_ is on the kernel's list
  registered,    \* addedToLoop_
  pc,            \* loop thread: "loop", or inside connectionCallback_ of handleClose()
                 \* ("closing") or of connectDestroyed() ("destroying")
  callbacks,     \* what is left of Channel::handleEvent()
  tasks,         \* functors queued in the connection's loop
  foreign,       \* the other thread: [op, at, msg]
  calls,         \* calls made so far; the number of the latest message
  theirs,        \* messages of the other thread
  delayed,       \* the timer of forceCloseWithDelay() is pending
  inbox, peerClosed, broken, fin, sent,       \* the socket
  inMap, removals, serverGone,                \* the server
  accepted, ups, downs, destroyed, badClose, badRemove   \* history

conn   == <<state_, reading_, outputBuffer_>>
chan   == <<events, watched, registered>>
sock   == <<inbox, peerClosed, broken, fin, sent>>
server == <<inMap, removals, serverGone>>
user   == <<foreign, calls, theirs, delayed>>
hist   == <<accepted, ups, downs, destroyed, badClose, badRemove>>
vars   == <<usage, conn, chan, pc, callbacks, tasks, sock, server, user, hist>>

Idle  == [op |-> "none", at |-> "none", msg |-> 0]
Task(op, msg) == [op |-> op, msg |-> msg]
Queue(op) == tasks' = Append(tasks, Task(op, 0))
Data(msg) == [i \in 1..MessageSize |-> msg]

(* The constructor, and the rest of TcpServer::newConnection(). *)
Init ==
  /\ usage \in Usages
  /\ state_ = "kConnecting" /\ reading_ = TRUE /\ outputBuffer_ = <<>>
  /\ events = kNoneEvent /\ watched = FALSE /\ registered = FALSE
  /\ pc = "loop" /\ callbacks = <<>>
  /\ tasks = <<Task("connectEstablished", 0)>>
  /\ foreign = Idle /\ calls = 0 /\ theirs = {} /\ delayed = FALSE
  /\ inbox = 0 /\ peerClosed = FALSE /\ broken = "no" /\ fin = FALSE /\ sent = <<>>
  /\ inMap = TRUE /\ removals = 0 /\ serverGone = FALSE
  /\ accepted = <<>> /\ ups = 0 /\ downs = 0 /\ destroyed = 0
  /\ badClose = FALSE /\ badRemove = FALSE

-----------------------------------------------------------------------------
(* Channel::update() with EPollPoller::updateChannel(). *)
Update(e) ==
  /\ events' = e
  /\ watched' = (~watched \/ e # kNoneEvent)
  /\ registered' = TRUE

(* write(2) of len units: how many it took, or -1 for EPIPE or ECONNRESET. *)
Write(len) == IF broken # "no" \/ fin THEN {-1} ELSE 0..len

Drop(s, n) == SubSeq(s, n + 1, Len(s))

MayWriteAtOnce_Ignoring == TRUE

(* sendInLoop() bypasses the buffer only when nothing is waiting in it. *)
MayWriteAtOnce == ~isWriting(events) /\ outputBuffer_ = <<>>

(* The last part of sendInLoop(): what write() did not take is buffered. *)
BufferRest(rest, queued) ==
  /\ outputBuffer_' = outputBuffer_ \o rest
  /\ tasks' = IF Len(outputBuffer_') >= highWaterMark_ /\ Len(outputBuffer_) < highWaterMark_
              THEN Append(queued, Task("highWaterMark", 0)) ELSE queued
  /\ IF isWriting(events) THEN UNCHANGED chan ELSE Update(enableWriting(events))

SendInLoop(data, queue) ==
  \/ /\ state_ = "kDisconnected"
     /\ tasks' = queue
     /\ UNCHANGED <<outputBuffer_, chan, sent, accepted>>
  \/ /\ state_ # "kDisconnected"
     /\ \E n \in IF MayWriteAtOnce THEN Write(Len(data)) ELSE {0} :
          \/ /\ n = -1
             /\ tasks' = queue
             /\ UNCHANGED <<outputBuffer_, chan, sent, accepted>>
          \/ /\ n = Len(data)
             /\ sent' = sent \o data /\ accepted' = accepted \o data
             /\ tasks' = Append(queue, Task("writeComplete", 0))
             /\ UNCHANGED <<outputBuffer_, chan>>
          \/ /\ n \in 0..(Len(data) - 1)
             /\ sent' = sent \o SubSeq(data, 1, n) /\ accepted' = accepted \o data
             /\ BufferRest(Drop(data, n), queue)

(* shutdownInLoop(), with the mask e. *)
ShutdownInLoop(e) == fin' = (fin \/ ~isWriting(e))

StartReadInLoop ==
  IF ~reading_ \/ ~isReading(events)
  THEN Update(enableReading(events)) /\ reading_' = TRUE
  ELSE UNCHANGED <<chan, reading_>>

StopReadInLoop ==
  IF reading_ \/ isReading(events)
  THEN Update(disableReading(events)) /\ reading_' = FALSE
  ELSE UNCHANGED <<chan, reading_>>

Open == state_ \in {"kConnected", "kDisconnecting"}

HandleClose_StillReading ==
  /\ badClose' = (badClose \/ ~Open)
  /\ state_' = "kDisconnected"
  /\ Update(disableWriting(events))
  /\ downs' = downs + 1
  /\ pc' = "closing"

(* handleClose() up to and including connectionCallback_. *)
HandleClose ==
  /\ badClose' = (badClose \/ ~Open)
  /\ state_' = "kDisconnected"
  /\ Update(disableAll(events))
  /\ downs' = downs + 1
  /\ pc' = "closing"

(* The rest of handleClose(): closeCallback_ is TcpServer::removeConnection(). *)
CloseCallback ==
  /\ pc = "closing"
  /\ pc' = "loop"
  /\ removals' = IF serverGone THEN removals ELSE removals + 1
  /\ UNCHANGED <<conn, chan, callbacks, tasks, sock, inMap, serverGone, user, hist>>

-----------------------------------------------------------------------------
(* Calls by user code in the loop thread, which has the connection from
   connectionCallback_ on. *)

MayCall(op) ==
  /\ ups > 0 /\ calls < usage.maxCalls
  /\ op \in {"startRead", "stopRead"} /\ usage.whenConnected => state_ = "kConnected"

CallSend ==
  /\ state_ = "kConnected"
  /\ SendInLoop(Data(calls + 1), tasks)
  /\ UNCHANGED <<state_, reading_, delayed, fin>>

CallShutdown ==
  /\ state_ = "kConnected"
  /\ state_' = "kDisconnecting"
  /\ ShutdownInLoop(events)
  /\ UNCHANGED <<reading_, outputBuffer_, chan, tasks, sent, accepted, delayed>>

CallForceClose ==
  /\ Open
  /\ state_' = "kDisconnecting"
  /\ Queue("forceCloseInLoop")
  /\ UNCHANGED <<reading_, outputBuffer_, chan, sent, accepted, delayed, fin>>

CallForceCloseWithDelay ==
  /\ Open
  /\ state_' = "kDisconnecting"
  /\ delayed' = TRUE
  /\ UNCHANGED <<reading_, outputBuffer_, chan, tasks, sent, accepted, fin>>

CallStartRead ==
  /\ StartReadInLoop
  /\ UNCHANGED <<state_, outputBuffer_, tasks, sent, accepted, delayed, fin>>

CallStopRead ==
  /\ StopReadInLoop
  /\ UNCHANGED <<state_, outputBuffer_, tasks, sent, accepted, delayed, fin>>

LoopCall(op) ==
  /\ op \in usage.loopOps /\ MayCall(op)
  /\ calls' = calls + 1
  /\ CASE op = "send"                -> CallSend
       [] op = "shutdown"            -> CallShutdown
       [] op = "forceClose"          -> CallForceClose
       [] op = "forceCloseWithDelay" -> CallForceCloseWithDelay
       [] op = "startRead"           -> CallStartRead
       [] op = "stopRead"            -> CallStopRead
  /\ UNCHANGED <<pc, callbacks, inbox, peerClosed, broken, server, foreign, theirs,
                 ups, downs, destroyed, badClose, badRemove>>

-----------------------------------------------------------------------------
(* Calls by the other thread: the test of state_, the store, the functor. *)

Checked(op) ==
  CASE op \in {"send", "shutdown"}                  -> state_ = "kConnected"
    [] op \in {"forceClose", "forceCloseWithDelay"} -> Open
    [] OTHER                                        -> TRUE

ForeignCall(op) ==
  /\ op \in usage.foreignOps /\ MayCall(op)
  /\ foreign = Idle
  /\ Checked(op)
  /\ calls' = calls + 1
  /\ theirs' = IF op = "send" THEN theirs \cup {calls + 1} ELSE theirs
  /\ foreign' = [op |-> op, msg |-> calls + 1,
                 at |-> IF op \in {"send", "startRead", "stopRead"} THEN "queue" ELSE "store"]
  /\ UNCHANGED <<conn, chan, pc, callbacks, tasks, sock, server, delayed, hist>>

ForeignStore ==
  /\ foreign.at = "store"
  /\ state_' = "kDisconnecting"
  /\ foreign' = [foreign EXCEPT !.at = "queue"]
  /\ UNCHANGED <<reading_, outputBuffer_, chan, pc, callbacks, tasks, sock, server,
                 calls, theirs, delayed, hist>>

InLoop(op) == [send |-> "sendInLoop", shutdown |-> "shutdownInLoop", forceClose |-> "forceCloseInLoop",
               startRead |-> "startReadInLoop", stopRead |-> "stopReadInLoop"][op]

ForeignQueue ==
  /\ foreign.at = "queue"
  /\ IF foreign.op = "forceCloseWithDelay"
     THEN delayed' = TRUE /\ UNCHANGED tasks
     ELSE tasks' = Append(tasks, Task(InLoop(foreign.op), foreign.msg)) /\ UNCHANGED delayed
  /\ foreign' = Idle
  /\ UNCHANGED <<conn, chan, pc, callbacks, sock, server, calls, theirs, hist>>

-----------------------------------------------------------------------------
(* The loop thread *)

InLoopIteration == pc = "loop" /\ callbacks = <<>>

(* connectEstablished(): the connection is up. *)
ConnectEstablished ==
  /\ state_' = "kConnected"
  /\ Update(enableReading(events))
  /\ ups' = ups + 1
  /\ UNCHANGED <<pc, fin, sent, reading_, outputBuffer_, accepted, downs, destroyed, badClose>>

(* connectDestroyed() up to channel_->remove(). *)
ConnectDestroyed ==
  /\ IF state_ = "kConnected"
     THEN state_' = "kDisconnected" /\ Update(disableAll(events)) /\ downs' = downs + 1
     ELSE UNCHANGED <<state_, chan, downs>>
  /\ pc' = "destroying"
  /\ destroyed' = destroyed + 1
  /\ UNCHANGED <<fin, sent, reading_, outputBuffer_, accepted, ups, badClose>>

(* Channel::remove() *)
RemoveChannel ==
  /\ pc = "destroying"
  /\ pc' = "loop"
  /\ badRemove' = (badRemove \/ events # kNoneEvent)
  /\ registered' = FALSE /\ watched' = FALSE
  /\ UNCHANGED <<conn, events, callbacks, tasks, sock, server, user, accepted, ups, downs, destroyed, badClose>>

ForceCloseInLoop_IfConnected ==
  IF state_ = "kConnected" THEN HandleClose ELSE UNCHANGED <<pc, state_, chan, downs, badClose>>

ForceCloseInLoop ==
  IF Open THEN HandleClose ELSE UNCHANGED <<pc, state_, chan, downs, badClose>>

RunTask ==
  /\ InLoopIteration /\ tasks # <<>>
  /\ LET task == Head(tasks)
     IN \/ task.op = "connectEstablished" /\ ConnectEstablished /\ tasks' = Tail(tasks)
        \/ task.op = "connectDestroyed" /\ ConnectDestroyed /\ tasks' = Tail(tasks)
        \/ /\ task.op = "sendInLoop"
           /\ SendInLoop(Data(task.msg), Tail(tasks))
           /\ UNCHANGED <<pc, fin, state_, reading_, ups, downs, destroyed, badClose>>
        \/ /\ task.op = "shutdownInLoop"
           /\ ShutdownInLoop(events) /\ tasks' = Tail(tasks)
           /\ UNCHANGED <<pc, conn, chan, sent, accepted, ups, downs, destroyed, badClose>>
        \/ /\ task.op = "forceCloseInLoop"
           /\ ForceCloseInLoop /\ tasks' = Tail(tasks)
           /\ UNCHANGED <<fin, sent, reading_, outputBuffer_, accepted, ups, destroyed>>
        \/ /\ task.op = "startReadInLoop"
           /\ StartReadInLoop /\ tasks' = Tail(tasks)
           /\ UNCHANGED <<pc, fin, sent, state_, outputBuffer_, accepted, ups, downs, destroyed, badClose>>
        \/ /\ task.op = "stopReadInLoop"
           /\ StopReadInLoop /\ tasks' = Tail(tasks)
           /\ UNCHANGED <<pc, fin, sent, state_, outputBuffer_, accepted, ups, downs, destroyed, badClose>>
        \/ /\ task.op \in {"writeComplete", "highWaterMark"}     \* user code
           /\ tasks' = Tail(tasks)
           /\ UNCHANGED <<pc, fin, sent, conn, chan, accepted, ups, downs, destroyed, badClose>>
  /\ UNCHANGED <<callbacks, inbox, peerClosed, broken, server, user, badRemove>>

(* The timer of forceCloseWithDelay(): forceClose() through a weak pointer. *)
TimerFires ==
  /\ InLoopIteration /\ delayed
  /\ delayed' = FALSE
  /\ IF Open
     THEN state_' = "kDisconnecting" /\ Queue("forceCloseInLoop")
     ELSE UNCHANGED <<state_, tasks>>
  /\ UNCHANGED <<reading_, outputBuffer_, chan, pc, callbacks, sock, server, foreign, calls, theirs, hist>>

(* What the kernel says of the socket; "out" when its buffer has room. *)
Ready(room) ==
  {r \in Revents : \/ r = "in" /\ (inbox > 0 \/ peerClosed \/ broken # "no")
                   \/ r = "out" /\ (room \/ broken # "no")
                   \/ r = "hup" /\ (broken # "no" \/ (fin /\ peerClosed))
                   \/ r = "err" /\ broken = "pending"}

(* poll() reports the channel and the loop starts handleEvent(). *)
Poll(room) ==
  /\ InLoopIteration /\ watched
  /\ callbacks' = handleEvent(Ready(room) \cap (events \cup {"hup", "err"}))
  /\ callbacks' # <<>>
  /\ UNCHANGED <<conn, chan, pc, tasks, sock, server, user, hist>>

Dispatches(name) == pc = "loop" /\ callbacks # <<>> /\ Head(callbacks) = name /\ callbacks' = Tail(callbacks)

(* readFd() returned n > 0. *)
ReadsData == inbox > 0

(* handleRead(): data, end of file, or an error that is only logged. *)
HandleRead ==
  /\ Dispatches("read")
  /\ \/ /\ ReadsData /\ broken # "pending"
        /\ inbox' = inbox - 1
        /\ UNCHANGED <<pc, state_, chan, broken, downs, badClose>>
     \/ /\ ~ReadsData /\ broken # "pending"
        /\ HandleClose
        /\ UNCHANGED <<inbox, broken>>
     \/ /\ broken = "pending"
        /\ broken' = "told"
        /\ UNCHANGED <<inbox, pc, state_, chan, downs, badClose>>
  /\ UNCHANGED <<reading_, outputBuffer_, tasks, peerClosed, fin, sent, server, user,
                 accepted, ups, destroyed, badRemove>>

Drained_StillWriting ==
  /\ Queue("writeComplete")
  /\ IF state_ = "kDisconnecting" THEN ShutdownInLoop(disableWriting(events)) ELSE UNCHANGED fin
  /\ UNCHANGED chan

(* The branch of handleWrite() that empties the buffer. *)
Drained ==
  /\ Update(disableWriting(events))
  /\ Queue("writeComplete")
  /\ IF state_ = "kDisconnecting" THEN ShutdownInLoop(disableWriting(events)) ELSE UNCHANGED fin

HandleWrite ==
  /\ Dispatches("write")
  /\ IF isWriting(events)
     THEN \E n \in Write(Len(outputBuffer_)) :
            IF n > 0
            THEN /\ outputBuffer_' = Drop(outputBuffer_, n)
                 /\ sent' = sent \o SubSeq(outputBuffer_, 1, n)
                 /\ IF outputBuffer_' = <<>> THEN Drained ELSE UNCHANGED <<chan, tasks, fin>>
            ELSE UNCHANGED <<outputBuffer_, sent, chan, tasks, fin>>
     ELSE UNCHANGED <<outputBuffer_, sent, chan, tasks, fin>>
  /\ UNCHANGED <<state_, reading_, pc, inbox, peerClosed, broken, server, user, hist>>

(* Channel's closeCallback_, on a hang-up without input. *)
HandleHup ==
  /\ Dispatches("close")
  /\ HandleClose
  /\ UNCHANGED <<reading_, outputBuffer_, tasks, sock, server, user, accepted, ups, destroyed, badRemove>>

(* handleError() reads SO_ERROR, which clears it, and logs it. *)
HandleError ==
  /\ Dispatches("error")
  /\ broken' = "told"
  /\ UNCHANGED <<conn, chan, pc, tasks, inbox, peerClosed, fin, sent, server, user, hist>>

-----------------------------------------------------------------------------
(* The server's loop *)

RemoveConnectionInLoop ==
  /\ removals > 0 /\ ~serverGone
  /\ removals' = removals - 1
  /\ inMap' = FALSE
  /\ Queue("connectDestroyed")
  /\ UNCHANGED <<conn, chan, pc, callbacks, sock, serverGone, user, hist>>

(* ~TcpServer() for a connection still in the map.  Nothing keeps the server
   alive for closeCallback_ and removeConnectionInLoop(): a call of either on a
   destroyed server is undefined, and here has no effect. *)
DestroyServer ==
  /\ usage.serverDies /\ ~serverGone
  /\ serverGone' = TRUE
  /\ inMap' = FALSE
  /\ IF inMap THEN Queue("connectDestroyed") ELSE UNCHANGED tasks
  /\ UNCHANGED <<conn, chan, pc, callbacks, sock, removals, user, hist>>

(* The peer and the network *)
PeerSends ==
  /\ inbox < usage.maxInbox /\ ~peerClosed /\ broken = "no"
  /\ inbox' = inbox + 1
  /\ UNCHANGED <<conn, chan, pc, callbacks, tasks, peerClosed, broken, fin, sent, server, user, hist>>

PeerCloses ==
  /\ ~peerClosed
  /\ peerClosed' = TRUE
  /\ UNCHANGED <<conn, chan, pc, callbacks, tasks, inbox, broken, fin, sent, server, user, hist>>

(* A reset: the error is pending until read or getsockopt reports it. *)
Reset ==
  /\ broken = "no"
  /\ broken' = "pending"
  /\ UNCHANGED <<conn, chan, pc, callbacks, tasks, inbox, peerClosed, fin, sent, server, user, hist>>

-----------------------------------------------------------------------------
LoopStep == RunTask \/ (\E room \in BOOLEAN : Poll(room)) \/ HandleRead \/ HandleWrite \/ HandleHup
              \/ HandleError \/ CloseCallback \/ RemoveChannel

Step ==
  \/ LoopStep \/ TimerFires
  \/ \E op \in Ops : LoopCall(op) \/ ForeignCall(op)
  \/ ForeignStore \/ ForeignQueue
  \/ RemoveConnectionInLoop \/ DestroyServer
  \/ PeerSends \/ PeerCloses \/ Reset

SameUse == UNCHANGED usage

Next == SameUse /\ Step

Spec == Init /\ [][Next]_vars

(* The loops keep running, every iteration runs the expired timers and the
   queued functors, and the socket becomes writable again and again. *)
FairSpec ==
  /\ Spec
  /\ WF_vars(SameUse /\ LoopStep) /\ SF_vars(SameUse /\ RunTask) /\ SF_vars(SameUse /\ TimerFires)
  /\ WF_vars(SameUse /\ RemoveConnectionInLoop)
  /\ SF_vars(SameUse /\ Poll(TRUE)) /\ SF_vars(SameUse /\ HandleWrite /\ sent' # sent)

-----------------------------------------------------------------------------
TypeOK ==
  /\ state_ \in {"kConnecting", "kConnected", "kDisconnecting", "kDisconnected"}
  /\ reading_ \in BOOLEAN /\ watched \in BOOLEAN /\ registered \in BOOLEAN
  /\ events \in Events
  /\ {sent, outputBuffer_, accepted} \subseteq Seq(1..usage.maxCalls)
  /\ pc \in {"loop", "closing", "destroying"}
  /\ broken \in {"no", "pending", "told"} /\ {peerClosed, fin, inMap, serverGone, delayed} \subseteq BOOLEAN
  /\ calls \in 0..usage.maxCalls /\ inbox \in 0..usage.maxInbox /\ theirs \subseteq 1..usage.maxCalls
  /\ foreign.op \in Ops \cup {"none"} /\ foreign.at \in {"none", "store", "queue"}

(* The peer receives what was sent, in order and without holes: the units on the
   socket followed by those in outputBuffer_ are the messages sendInLoop() took,
   and the messages of each thread are in the order of its send() calls, however
   direct writes, buffered writes and queued functors alternate. *)
StreamInOrder ==
  /\ sent \o outputBuffer_ = accepted
  /\ \A i, j \in DOMAIN accepted :
       i < j /\ (accepted[i] \in theirs <=> accepted[j] \in theirs) => accepted[i] <= accepted[j]

(* Until the connection goes down the channel asks for POLLOUT exactly while
   there is something in outputBuffer_: sendInLoop() and handleWrite() neither
   leave data unattended nor spin on a writable socket.  And shutdown() half-closes
   the socket only once outputBuffer_ is empty, whether shutdownInLoop() runs at
   once, later, or from handleWrite(). *)
OutputAttended ==
  downs = 0 =>
  /\ isWriting(events) <=> outputBuffer_ # <<>>
  /\ fin => outputBuffer_ = <<>>

(* assert(n == 1) of TcpServer::removeConnectionInLoop(): the connection it
   removes is in the map. *)
ErasesItsEntry == removals > 0 => removals = 1 /\ inMap

(* connectDestroyed() "should be called only once". *)
ConnectDestroyedOnce == destroyed <= 1

(* The assert of handleClose(): it is entered on an open connection only. *)
ClosesOpenConnection == ~badClose

(* assert(isNoneEvent()) of Channel::remove(), called by connectDestroyed(). *)
RemovesIgnoredChannel == ~badRemove

(* ~TcpConnection() asserts kDisconnected.  It runs, after connectDestroyed(),
   when neither a functor nor the other thread has the connection any more. *)
DisconnectedAtEnd ==
  destroyed > 0 /\ pc = "loop" /\ callbacks = <<>> /\ tasks = <<>> /\ foreign = Idle
    => state_ = "kDisconnected"

(* The other thread only sends, nobody turns reading off and on, and the server
   outlives the connection: what TcpConnection needs for its asserts to hold. *)
Orderly ==
  /\ usage.foreignOps \subseteq {"send"} /\ ~usage.serverDies
  /\ usage.loopOps \cap {"startRead", "stopRead"} = {}

(* connectionCallback_ reports every connection up once and then, before it is
   destroyed, down once, whether handleClose() or connectDestroyed() ends it. *)
UpOnceDownOnce ==
  /\ ups <= 1 /\ downs <= ups
  /\ destroyed > 0 /\ pc = "loop" => downs = 1

(* No assert on the way of a connection from its loop to the server and back
   fails, those of handleClose(), removeConnectionInLoop(), Channel::remove() and
   ~TcpConnection(); connectDestroyed() is called once, and the user is told of the
   connection going up and down once each, if it is used in an orderly way. *)
AssertsHold ==
  Orderly =>
  /\ TypeOK /\ ErasesItsEntry /\ ClosesOpenConnection /\ RemovesIgnoredChannel
  /\ DisconnectedAtEnd /\ ConnectDestroyedOnce /\ UpOnceDownOnce

(* In orderly use a connection whose peer closed, or on which forceClose() or
   forceCloseWithDelay() was called, is eventually removed and destroyed; and
   shutdown() on a connection whose peer keeps reading sends everything and then
   the FIN, unless the connection breaks or goes down. *)
ConnectionProgress ==
  /\ (Orderly /\ (peerClosed \/ delayed \/ \E i \in DOMAIN tasks : tasks[i].op = "forceCloseInLoop")) ~> destroyed > 0
  /\ (Orderly /\ state_ = "kDisconnecting") ~> (fin \/ broken # "no" \/ downs > 0)
=============================================================================

------------------------ MODULE TcpConnectionProofs ------------------------
(***************************************************************************)
(* For any ways of using a connection, any size of messages and any           *)
(* highWaterMark_: the stream the peer gets is in order and without holes,    *)
(* POLLOUT is asked for exactly while there is output, and in orderly use no   *)
(* assert on the way of a connection from its loop to the server and back      *)
(* fails.                                                                      *)
(***************************************************************************)
EXTENDS TcpConnection, TLAPS

-----------------------------------------------------------------------------
(* Sequences *)

(* The elements of a sequence *)
LEMMA Elements ==
  ASSUME NEW S, NEW q \in Seq(S)
  PROVE  Len(q) \in Nat /\ DOMAIN q = 1..Len(q) /\ \A i \in 1..Len(q) : q[i] \in S
OBVIOUS

(* A sequence is its elements. *)
LEMMA Equal ==
  ASSUME NEW S, NEW p \in Seq(S), NEW q \in Seq(S), Len(p) = Len(q), \A i \in 1..Len(q) : p[i] = q[i]
  PROVE  p = q
OBVIOUS

(* One more element *)
LEMMA OneMore ==
  ASSUME NEW S, NEW q \in Seq(S), NEW e \in S
  PROVE  /\ Append(q, e) \in Seq(S) /\ Len(Append(q, e)) = Len(q) + 1
         /\ (\A i \in 1..Len(q) : Append(q, e)[i] = q[i]) /\ Append(q, e)[Len(q) + 1] = e
OBVIOUS

(* All but the first *)
LEMMA Rest ==
  ASSUME NEW S, NEW q \in Seq(S), q # <<>>
  PROVE  /\ Tail(q) \in Seq(S) /\ Len(Tail(q)) = Len(q) - 1 /\ Len(q) \in Nat \ {0}
         /\ Head(q) = q[1] /\ Head(q) \in S /\ \A i \in 1..(Len(q) - 1) : Tail(q)[i] = q[i + 1]
OBVIOUS

(* One sequence after the other *)
LEMMA Joined ==
  ASSUME NEW S, NEW p \in Seq(S), NEW q \in Seq(S)
  PROVE  /\ p \o q \in Seq(S) /\ Len(p \o q) = Len(p) + Len(q)
         /\ \A i \in 1..Len(p) : (p \o q)[i] = p[i]
         /\ \A i \in 1..Len(q) : (p \o q)[Len(p) + i] = q[i]
OBVIOUS

(* Nothing after a sequence, and nothing before it *)
LEMMA Nothing ==
  ASSUME NEW S, NEW q \in Seq(S)
  PROVE  q \o <<>> = q /\ <<>> \o q = q
OBVIOUS

(* The order of joining does not matter. *)
LEMMA Associative ==
  ASSUME NEW S, NEW p \in Seq(S), NEW q \in Seq(S), NEW r \in Seq(S)
  PROVE  (p \o q) \o r = p \o (q \o r)
OBVIOUS

(* What was written and what was not *)
LEMMA Split ==
  ASSUME NEW S, NEW q \in Seq(S), NEW n \in 0..Len(q)
  PROVE  /\ SubSeq(q, 1, n) \in Seq(S) /\ Drop(q, n) \in Seq(S)
         /\ SubSeq(q, 1, n) \o Drop(q, n) = q
         /\ (Drop(q, n) = <<>> <=> n = Len(q)) /\ (n = 0 => SubSeq(q, 1, n) = <<>> /\ Drop(q, n) = q)
<1> DEFINE a == SubSeq(q, 1, n)
           b == SubSeq(q, n + 1, Len(q))
<1>1. /\ Len(q) \in Nat /\ n \in Nat /\ n <= Len(q)
  OBVIOUS
<1>2. /\ a \in Seq(S) /\ Len(a) = n /\ \A i \in 1..n : a[i] = q[i]
  BY <1>1
<1>3. /\ b \in Seq(S) /\ Len(b) = Len(q) - n /\ \A i \in 1..(Len(q) - n) : b[i] = q[n + i]
  BY <1>1
<1> HIDE DEF a, b
<1>4. a \o b = q
  <2>1. a \o b \in Seq(S) /\ Len(a \o b) = Len(q)
    BY <1>1, <1>2, <1>3
  <2>2. ASSUME NEW i \in 1..Len(q) PROVE (a \o b)[i] = q[i]
    <3>1. CASE i \in 1..n
      BY <1>2, <1>3, <3>1, Joined
    <3>2. CASE i \notin 1..n
      <4>1. i - n \in 1..Len(b) /\ n + (i - n) = i
        BY <1>1, <1>3, <3>2
      <4>2. (a \o b)[n + (i - n)] = b[i - n]
        <5>1. (a \o b)[Len(a) + (i - n)] = b[i - n]
          BY <1>2, <1>3, <4>1, Joined
        <5> QED BY <1>2, <5>1, Zenon
      <4>3. b[i - n] = q[n + (i - n)]
        BY <1>3, <4>1
      <4> QED BY <4>1, <4>2, <4>3, Zenon
    <3> QED BY <3>1, <3>2, Zenon
  <2> QED BY <2>1, <2>2, Equal, Zenon
<1>5. b = <<>> <=> n = Len(q)
  BY <1>1, <1>3
<1>6. n = 0 => a = <<>> /\ b = q
  BY <1>1, <1>2, <1>3
<1> QED BY <1>2, <1>3, <1>4, <1>5, <1>6, Zenon DEF a, b, Drop

-----------------------------------------------------------------------------
(* The queue of functors *)

TaskOps == {"connectEstablished", "connectDestroyed", "sendInLoop", "shutdownInLoop", "forceCloseInLoop",
            "startReadInLoop", "stopReadInLoop", "writeComplete", "highWaterMark"}
TaskType == [op : TaskOps, msg : Nat]

(* No functor, and exactly one functor, of this kind *)
Without(q, op) == \A i \in 1..Len(q) : q[i].op # op
Once(q, op) == \E k \in 1..Len(q) : q[k].op = op /\ \A i \in 1..Len(q) : q[i].op = op => i = k

(* The messages of queued sendInLoop()s are in T and in order; they are none
   beyond m, and none before m. *)
InTurn(q, T) ==
  /\ \A i \in 1..Len(q) : q[i].op = "sendInLoop" => q[i].msg \in T
  /\ \A i, j \in 1..Len(q) : i < j /\ q[i].op = "sendInLoop" /\ q[j].op = "sendInLoop" => q[i].msg <= q[j].msg
UpTo(q, m) == \A i \in 1..Len(q) : q[i].op = "sendInLoop" => q[i].msg <= m
From(q, m) == \A i \in 1..Len(q) : q[i].op = "sendInLoop" => m <= q[i].msg

(* Indices of a sequence with one element more, and with one element less *)
LEMMA Shifted ==
  ASSUME NEW n \in Nat
  PROVE  /\ \A i \in 1..(n + 1) : i \in 1..n \/ i = n + 1
         /\ n + 1 \in 1..(n + 1) /\ \A i \in 1..n : i \in 1..(n + 1) /\ i # n + 1 /\ ~(n + 1 < i)
         /\ n # 0 => /\ 1 \in 1..n /\ \A i \in 1..(n - 1) : i + 1 \in 1..n /\ 1 < i + 1 /\ i + 1 # 1
                     /\ \A i \in 1..n : i = 1 \/ (i - 1 \in 1..(n - 1) /\ (i - 1) + 1 = i)
                     /\ \A i, j \in 1..(n - 1) : (i < j => i + 1 < j + 1) /\ (i + 1 = j + 1 => i = j)
OBVIOUS

(* A functor is queued. *)
LEMMA Queued ==
  ASSUME NEW q \in Seq(TaskType), NEW t \in TaskType
  PROVE  /\ Append(q, t) \in Seq(TaskType)
         /\ \A op : t.op # op /\ Without(q, op) => Without(Append(q, t), op)
         /\ \A op : t.op # op /\ Once(q, op) => Once(Append(q, t), op)
         /\ \A op : t.op = op /\ Without(q, op) => Once(Append(q, t), op)
         /\ \A T : t.op # "sendInLoop" /\ InTurn(q, T) => InTurn(Append(q, t), T)
         /\ \A T : t.msg \in T /\ UpTo(q, t.msg) /\ InTurn(q, T) => InTurn(Append(q, t), T)
         /\ \A m : (t.op = "sendInLoop" => t.msg <= m) /\ UpTo(q, m) => UpTo(Append(q, t), m)
         /\ \A m : (t.op = "sendInLoop" => m <= t.msg) /\ From(q, m) => From(Append(q, t), m)
<1> DEFINE a == Append(q, t)
           n == Len(q)
<1>1. n \in Nat /\ a \in Seq(TaskType) /\ Len(a) = n + 1 /\ (\A i \in 1..n : a[i] = q[i]) /\ a[n + 1] = t
  BY OneMore, Elements
<1> HIDE DEF a, n
<1>2. /\ \A i \in 1..(n + 1) : i \in 1..n \/ i = n + 1
      /\ n + 1 \in 1..(n + 1) /\ \A i \in 1..n : i \in 1..(n + 1) /\ i # n + 1 /\ ~(n + 1 < i)
  BY <1>1, Shifted, Zenon
<1>3. ~(n + 1 < n + 1)
  BY <1>1
<1>4. ASSUME NEW op, t.op # op, Without(q, op) PROVE Without(a, op)
  BY <1>1, <1>2, <1>4, Zenon DEF Without, n
<1>5. ASSUME NEW op, t.op # op, Once(q, op) PROVE Once(a, op)
  <2>1. PICK k \in 1..n : q[k].op = op /\ \A i \in 1..n : q[i].op = op => i = k
    BY <1>5, Zenon DEF Once, n
  <2>2. k \in 1..Len(a) /\ a[k].op = op
    BY <1>1, <1>2, <2>1, Zenon
  <2>3. \A i \in 1..Len(a) : a[i].op = op => i = k
    BY <1>1, <1>2, <1>5, <2>1, Zenon
  <2> QED BY <2>2, <2>3, Zenon DEF Once
<1>6. ASSUME NEW op, t.op = op, Without(q, op) PROVE Once(a, op)
  <2>1. n + 1 \in 1..Len(a) /\ a[n + 1].op = op
    BY <1>1, <1>2, <1>6, Zenon
  <2>2. \A i \in 1..Len(a) : a[i].op = op => i = n + 1
    BY <1>1, <1>2, <1>6, Zenon DEF Without, n
  <2> QED BY <2>1, <2>2, Zenon DEF Once
<1>7. ASSUME NEW T, InTurn(q, T), t.op # "sendInLoop" \/ (t.msg \in T /\ UpTo(q, t.msg)) PROVE InTurn(a, T)
  <2>1. \A i \in 1..(n + 1) : a[i].op = "sendInLoop" => a[i].msg \in T
    BY <1>1, <1>2, <1>7, Zenon DEF InTurn, n
  <2>2. \A i, j \in 1..(n + 1) : i < j /\ a[i].op = "sendInLoop" /\ a[j].op = "sendInLoop" => a[i].msg <= a[j].msg
    <3> TAKE i, j \in 1..(n + 1)
    <3>1. CASE j = n + 1 /\ i \in 1..n
      BY <1>1, <1>7, <3>1, Zenon DEF UpTo, n
    <3>2. CASE j \in 1..n /\ i \in 1..n
      BY <1>1, <1>7, <3>2, Zenon DEF InTurn, n
    <3> QED BY <1>2, <1>3, <3>1, <3>2, Zenon
  <2> QED BY <1>1, <2>1, <2>2, Zenon DEF InTurn
<1>8. ASSUME NEW m, t.op = "sendInLoop" => t.msg <= m, UpTo(q, m) PROVE UpTo(a, m)
  BY <1>1, <1>2, <1>8, Zenon DEF UpTo, n
<1>9. ASSUME NEW m, t.op = "sendInLoop" => m <= t.msg, From(q, m) PROVE From(a, m)
  BY <1>1, <1>2, <1>9, Zenon DEF From, n
<1> QED BY <1>1, <1>4, <1>5, <1>6, <1>7, <1>8, <1>9, Zenon DEF a

(* A functor is taken out. *)
LEMMA Dequeued ==
  ASSUME NEW q \in Seq(TaskType), q # <<>>
  PROVE  /\ Head(q) \in TaskType /\ Tail(q) \in Seq(TaskType)
         /\ \A op : Without(q, op) => Without(Tail(q), op) /\ Head(q).op # op
         /\ \A op : Once(q, op) => IF Head(q).op = op THEN Without(Tail(q), op) ELSE Once(Tail(q), op)
         /\ \A T : InTurn(q, T) => /\ InTurn(Tail(q), T)
                                   /\ Head(q).op = "sendInLoop" => Head(q).msg \in T /\ From(Tail(q), Head(q).msg)
         /\ \A m : UpTo(q, m) => UpTo(Tail(q), m) /\ (Head(q).op = "sendInLoop" => Head(q).msg <= m)
         /\ \A m : From(q, m) => From(Tail(q), m) /\ (Head(q).op = "sendInLoop" => m <= Head(q).msg)
<1> DEFINE r == Tail(q)
           h == Head(q)
           n == Len(q)
<1>1. /\ n \in Nat /\ n # 0 /\ r \in Seq(TaskType) /\ Len(r) = n - 1 /\ h = q[1] /\ h \in TaskType
      /\ \A i \in 1..(n - 1) : r[i] = q[i + 1]
  BY Rest, Elements
<1> HIDE DEF r, h, n
<1>2. /\ 1 \in 1..n /\ \A i \in 1..(n - 1) : i + 1 \in 1..n /\ 1 < i + 1 /\ i + 1 # 1
      /\ \A i \in 1..n : i = 1 \/ (i - 1 \in 1..(n - 1) /\ (i - 1) + 1 = i)
      /\ \A i, j \in 1..(n - 1) : (i < j => i + 1 < j + 1) /\ (i + 1 = j + 1 => i = j)
  BY <1>1, Shifted, Zenon
<1>2a. \A i \in 1..(n - 1) : \E j \in 1..n : r[i] = q[j] /\ j # 1
  BY <1>1, <1>2, Zenon
<1>3. ASSUME NEW op, Without(q, op) PROVE Without(r, op) /\ h.op # op
  <2>1. \A i \in 1..(n - 1) : r[i].op # op
    BY <1>2a, <1>3, Zenon DEF Without, n
  <2> QED BY <1>1, <1>2, <1>3, <2>1, Zenon DEF Without, n
<1>4. ASSUME NEW op, Once(q, op), h.op = op PROVE Without(r, op)
  <2>1. PICK k \in 1..n : \A i \in 1..n : q[i].op = op => i = k
    BY <1>4, Zenon DEF Once, n
  <2>2. k = 1
    BY <1>1, <1>2, <1>4, <2>1, Zenon
  <2>3. \A i \in 1..(n - 1) : r[i].op # op
    BY <1>2a, <2>1, <2>2, Zenon
  <2> QED BY <1>1, <2>3, Zenon DEF Without
<1>5. ASSUME NEW op, Once(q, op), h.op # op PROVE Once(r, op)
  <2>1. PICK k \in 1..n : q[k].op = op /\ \A i \in 1..n : q[i].op = op => i = k
    BY <1>5, Zenon DEF Once, n
  <2>2. k - 1 \in 1..(n - 1) /\ (k - 1) + 1 = k
    BY <1>1, <1>2, <1>5, <2>1, Zenon
  <2>3. r[k - 1].op = op
    BY <1>1, <2>1, <2>2, Zenon
  <2>4. \A i \in 1..(n - 1) : r[i].op = op => i = k - 1
    <3> SUFFICES ASSUME NEW i \in 1..(n - 1), r[i].op = op PROVE i = k - 1
      BY Zenon
    <3>1. r[i] = q[i + 1] /\ i + 1 \in 1..n
      BY <1>1, <1>2, Zenon
    <3>2. i + 1 = (k - 1) + 1
      BY <2>1, <2>2, <3>1, Zenon
    <3> QED BY <1>2, <2>2, <3>2, Zenon
  <2> QED BY <1>1, <2>2, <2>3, <2>4, Zenon DEF Once
<1>6. ASSUME NEW T, InTurn(q, T)
      PROVE  InTurn(r, T) /\ (h.op = "sendInLoop" => h.msg \in T /\ From(r, h.msg))
  <2>1. \A i \in 1..(n - 1) : r[i].op = "sendInLoop" => r[i].msg \in T
    BY <1>2a, <1>6, Zenon DEF InTurn, n
  <2>2. \A i, j \in 1..(n - 1) : i < j /\ r[i].op = "sendInLoop" /\ r[j].op = "sendInLoop" => r[i].msg <= r[j].msg
    <3> TAKE i, j \in 1..(n - 1)
    <3>1. r[i] = q[i + 1] /\ r[j] = q[j + 1] /\ i + 1 \in 1..n /\ j + 1 \in 1..n /\ (i < j => i + 1 < j + 1)
      BY <1>1, <1>2, Zenon
    <3> QED BY <1>6, <3>1, Zenon DEF InTurn, n
  <2>3. h.op = "sendInLoop" => h.msg \in T
    BY <1>1, <1>2, <1>6, Zenon DEF InTurn, n
  <2>4. h.op = "sendInLoop" => From(r, h.msg)
    <3> SUFFICES ASSUME h.op = "sendInLoop", NEW i \in 1..(n - 1), r[i].op = "sendInLoop" PROVE h.msg <= r[i].msg
      BY <1>1, Zenon DEF From
    <3>1. r[i] = q[i + 1] /\ i + 1 \in 1..n /\ 1 < i + 1 /\ 1 \in 1..n
      BY <1>1, <1>2, Zenon
    <3> QED BY <1>1, <1>6, <3>1, Zenon DEF InTurn, n
  <2> QED BY <1>1, <2>1, <2>2, <2>3, <2>4, Zenon DEF InTurn
<1>7. ASSUME NEW m, UpTo(q, m) PROVE UpTo(r, m) /\ (h.op = "sendInLoop" => h.msg <= m)
  <2>1. \A i \in 1..(n - 1) : r[i].op = "sendInLoop" => r[i].msg <= m
    BY <1>2a, <1>7, Zenon DEF UpTo, n
  <2> QED BY <1>1, <1>2, <1>7, <2>1, Zenon DEF UpTo, n
<1>8. ASSUME NEW m, From(q, m) PROVE From(r, m) /\ (h.op = "sendInLoop" => m <= h.msg)
  <2>1. \A i \in 1..(n - 1) : r[i].op = "sendInLoop" => m <= r[i].msg
    BY <1>2a, <1>8, Zenon DEF From, n
  <2> QED BY <1>1, <1>2, <1>8, <2>1, Zenon DEF From, n
<1> QED BY <1>1, <1>3, <1>4, <1>5, <1>6, <1>7, <1>8, Zenon DEF r, h

-----------------------------------------------------------------------------
(* The invariants *)

CallbackNames == {"close", "error", "read", "write"}
ForeignType == [op : Ops \cup {"none"}, at : {"none", "store", "queue"}, msg : Nat]
Messages == 1..usage.maxCalls

TypeInv ==
  /\ TypeOK /\ usage \in Usages
  /\ tasks \in Seq(TaskType) /\ callbacks \in Seq(CallbackNames) /\ foreign \in ForeignType
  /\ {ups, downs, destroyed, removals} \subseteq Nat

(* Messages are numbered by the calls.  Those of the other thread pass, in order,
   from it through the queue into the stream. *)
StreamInv ==
  /\ StreamInOrder
  /\ theirs \subseteq 1..calls /\ \A i \in 1..Len(accepted) : accepted[i] \in 1..calls
  /\ InTurn(tasks, theirs)
  /\ foreign.at # "none" => foreign.op \in Ops
  /\ foreign.op = "send" => foreign.at = "queue" /\ foreign.msg \in theirs /\ UpTo(tasks, foreign.msg)
  /\ \A i \in 1..Len(accepted) : accepted[i] \in theirs =>
       From(tasks, accepted[i]) /\ (foreign.op = "send" => accepted[i] <= foreign.msg)

(* The callbacks that may end in handleClose(): none of them is left, and at most one *)
Closing == {"close", "read"}
Calm(cs) == \A i \in 1..Len(cs) : cs[i] \notin Closing
AtMostOne(cs) == \A i, j \in 1..Len(cs) : cs[i] \in Closing /\ cs[j] \in Closing => i = j

(* The ways of a connection that is closed: into connectionCallback_, to the server,
   back to its loop, and destroyed *)
Leaving ==
  \/ pc = "closing" /\ removals = 0 /\ inMap /\ Without(tasks, "connectDestroyed") /\ destroyed = 0
  \/ pc = "loop" /\ removals = 1 /\ inMap /\ Without(tasks, "connectDestroyed") /\ destroyed = 0
  \/ pc = "loop" /\ removals = 0 /\ ~inMap /\ Once(tasks, "connectDestroyed") /\ destroyed = 0
  \/ pc \in {"loop", "destroying"} /\ removals = 0 /\ Without(tasks, "connectDestroyed") /\ destroyed = 1

(* What state_ stands for in orderly use *)
Connecting ==
  /\ state_ = "kConnecting" /\ tasks = <<Task("connectEstablished", 0)>> /\ foreign = Idle /\ ~delayed
  /\ callbacks = <<>> /\ pc = "loop" /\ ~watched /\ events = kNoneEvent
  /\ ups = 0 /\ downs = 0 /\ destroyed = 0 /\ removals = 0 /\ inMap

Opened ==
  /\ Open /\ ups = 1 /\ downs = 0 /\ destroyed = 0 /\ removals = 0 /\ inMap
  /\ pc = "loop" /\ AtMostOne(callbacks) /\ watched /\ isReading(events)
  /\ Without(tasks, "connectEstablished") /\ Without(tasks, "connectDestroyed")

Closed ==
  /\ state_ = "kDisconnected" /\ ups = 1 /\ downs = 1
  /\ Calm(callbacks) /\ ~watched /\ events = kNoneEvent
  /\ Without(tasks, "connectEstablished") /\ Leaving

LifeInv ==
  Orderly =>
  /\ ~serverGone /\ ~badClose /\ ~badRemove /\ foreign.op \in {"none", "send"} /\ foreign.at # "store"
  /\ Without(tasks, "startReadInLoop") /\ Without(tasks, "stopReadInLoop")
  /\ Connecting \/ Opened \/ Closed

-----------------------------------------------------------------------------
(* sendInLoop() *)

(* The functors sendInLoop() and handleWrite() queue *)
Told == {Task("writeComplete", 0), Task("highWaterMark", 0)}

(* The mask of the channel is as OutputAttended says. *)
Attended == (isWriting(events) <=> outputBuffer_ # <<>>) /\ (fin => outputBuffer_ = <<>>)

(* The bounds of a use *)
LEMMA Bounds ==
  ASSUME TypeInv
  PROVE  usage.maxCalls \in Nat /\ usage.maxInbox \in Nat /\ MessageSize \in Nat \ {0} /\ Messages \subseteq Nat
<1>1. usage \in Usages
  BY DEF TypeInv
<1>2. usage.maxCalls \in Nat /\ usage.maxInbox \in Nat
  BY <1>1, TcpConstants, Zenon
<1>3. MessageSize \in Nat \ {0}
  BY TcpConstants, Zenon
<1>4. Messages \subseteq Nat
  BY <1>2 DEF Messages
<1> QED BY <1>2, <1>3, <1>4

(* The state in these terms *)
LEMMA Basics ==
  ASSUME TypeInv
  PROVE  /\ sent \in Seq(Messages) /\ outputBuffer_ \in Seq(Messages) /\ accepted \in Seq(Messages)
         /\ Len(accepted) \in Nat /\ calls \in Nat /\ tasks \in Seq(TaskType)
         /\ foreign \in ForeignType /\ foreign.msg \in Nat
<1>1. sent \in Seq(Messages) /\ outputBuffer_ \in Seq(Messages) /\ accepted \in Seq(Messages)
  BY Zenon DEF TypeInv, TypeOK, Messages
<1>2. Len(accepted) \in Nat
  BY <1>1
<1>3. tasks \in Seq(TaskType) /\ foreign \in ForeignType /\ calls \in 0..usage.maxCalls
  BY Zenon DEF TypeInv, TypeOK
<1>4. foreign.msg \in Nat
  BY <1>3 DEF ForeignType
<1>5. calls \in Nat
  BY <1>3, Bounds
<1> QED BY <1>1, <1>2, <1>3, <1>4, <1>5, Zenon

(* The number of the next call *)
LEMMA NextCall ==
  ASSUME TypeInv, calls < usage.maxCalls
  PROVE  calls + 1 \in Messages /\ calls + 1 \in 0..usage.maxCalls /\ calls + 1 \in Nat
<1>1. calls \in Nat /\ usage.maxCalls \in Nat
  BY Basics, Bounds, Zenon
<1> QED BY <1>1 DEF Messages

(* The functors are functors. *)
LEMMA Tasks ==
  /\ \A op \in TaskOps, m \in Nat : Task(op, m) \in TaskType /\ Task(op, m).op = op /\ Task(op, m).msg = m
  /\ \A t \in Told : /\ t \in TaskType
                     /\ t.op \in {"writeComplete", "highWaterMark"}
<1>1. \A op \in TaskOps, m \in Nat : Task(op, m) \in TaskType /\ Task(op, m).op = op /\ Task(op, m).msg = m
  BY DEF Task, TaskType
<1>2. "writeComplete" \in TaskOps /\ "highWaterMark" \in TaskOps /\ 0 \in Nat
  BY DEF TaskOps
<1>3. ASSUME NEW t \in Told PROVE t = Task("writeComplete", 0) \/ t = Task("highWaterMark", 0)
  BY Zenon DEF Told
<1>4. ASSUME NEW t \in Told PROVE t \in TaskType /\ t.op \in {"writeComplete", "highWaterMark"}
  BY <1>1, <1>2, <1>3
<1> QED BY <1>1, <1>4, Zenon

(* The units of a message *)
LEMMA DataIs ==
  ASSUME NEW S, NEW msg \in S
  PROVE  /\ Data(msg) \in Seq(S) /\ Len(Data(msg)) = MessageSize /\ Data(msg) # <<>>
         /\ \A i \in 1..MessageSize : Data(msg)[i] = msg
  BY TcpConstants DEF Data

(* Behind a sequence p come the units of a message. *)
LEMMA Appended ==
  ASSUME NEW S, NEW p \in Seq(S), NEW d \in Seq(S), NEW m, \A i \in 1..Len(d) : d[i] = m
  PROVE  \A i \in 1..Len(p \o d) : (i \in 1..Len(p) /\ (p \o d)[i] = p[i])
                                   \/ ((p \o d)[i] = m /\ \A j \in 1..Len(p) : ~(i < j))
<1> DEFINE k == Len(p)
           n == Len(d)
           r == p \o d
<1>1. /\ k \in Nat /\ n \in Nat /\ Len(r) = k + n
      /\ (\A i \in 1..k : r[i] = p[i]) /\ \A i \in 1..n : r[k + i] = d[i]
  BY Joined, Elements
<1>2. \A i \in 1..n : d[i] = m
  OBVIOUS
<1> HIDE DEF k, n, r
<1>3. \A i \in 1..(k + n) : i \in 1..k \/ (i - k \in 1..n /\ k + (i - k) = i /\ \A j \in 1..k : ~(i < j))
  BY <1>1
<1>4. ASSUME NEW i \in 1..(k + n), i - k \in 1..n, k + (i - k) = i PROVE r[i] = m
  <2>1. r[k + (i - k)] = d[i - k] /\ d[i - k] = m
    BY <1>1, <1>2, <1>4, Zenon
  <2> QED BY <1>4, <2>1, Zenon
<1> QED BY <1>1, <1>3, <1>4, Zenon DEF k, r

(* What sendInLoop() takes becomes part of the stream, in full and behind what is
   waiting; it asks for POLLOUT if it leaves something. *)
LEMMA SendInLoopIs ==
  ASSUME TypeInv, NEW msg \in Messages, NEW q, SendInLoop(Data(msg), q)
  PROVE  /\ tasks' = q \/ \E t \in Told : tasks' = Append(q, t)
         /\ UNCHANGED chan \/ (state_ # "kDisconnected" /\ Update(enableWriting(events)))
         /\ {sent', outputBuffer_', accepted'} \subseteq Seq(Messages)
         /\ Data(msg) \in Seq(Messages) /\ Len(Data(msg)) = MessageSize
         /\ accepted' = accepted \/ accepted' = accepted \o Data(msg)
         /\ sent \o outputBuffer_ = accepted => sent' \o outputBuffer_' = accepted'
         /\ Attended /\ fin' = fin => Attended'
<1> DEFINE data == Data(msg)
           full == Len(outputBuffer_') >= highWaterMark_ /\ Len(outputBuffer_) < highWaterMark_
<1>1. /\ sent \in Seq(Messages) /\ outputBuffer_ \in Seq(Messages) /\ accepted \in Seq(Messages)
      /\ MessageSize \in Nat \ {0} /\ events \in Events
  BY Bounds, Zenon DEF TypeInv, TypeOK, Messages
<1>2. data \in Seq(Messages) /\ Len(data) = MessageSize /\ data # <<>>
  BY DataIs, Zenon
<1> HIDE DEF data
<1>3. CASE UNCHANGED <<outputBuffer_, chan, sent, accepted>> /\ tasks' = q
  <2>1. UNCHANGED chan /\ UNCHANGED <<outputBuffer_, sent, accepted, events>>
    BY <1>3 DEF chan
  <2>2. Attended /\ fin' = fin => Attended'
    BY <2>1 DEF Attended, isWriting
  <2>3. {sent', outputBuffer_', accepted'} \subseteq Seq(Messages)
    BY <1>1, <2>1
  <2> QED BY <1>2, <1>3, <2>1, <2>2, <2>3, Zenon DEF data
<1>4. ASSUME sent' = sent \o data, accepted' = accepted \o data, UNCHANGED <<outputBuffer_, chan>>,
             tasks' = Append(q, Task("writeComplete", 0)), MayWriteAtOnce
      PROVE  /\ {sent', outputBuffer_', accepted'} \subseteq Seq(Messages)
             /\ sent \o outputBuffer_ = accepted => sent' \o outputBuffer_' = accepted'
             /\ Attended /\ fin' = fin => Attended'
  <2>1. outputBuffer_ = <<>>
    BY <1>4, Zenon DEF MayWriteAtOnce
  <2>2. sent \o data \in Seq(Messages) /\ accepted \o data \in Seq(Messages)
    BY <1>1, <1>2, Joined
  <2>3. sent \o outputBuffer_ = sent /\ (sent \o data) \o outputBuffer_ = sent \o data
    BY <1>1, <2>1, <2>2, Nothing
  <2>4. Attended /\ fin' = fin => Attended'
    <3>1. events' = events /\ outputBuffer_' = outputBuffer_
      BY <1>4 DEF chan
    <3> QED BY <3>1 DEF Attended, isWriting
  <2> QED BY <1>1, <1>4, <2>2, <2>3, <2>4, Zenon
<1>5. ASSUME NEW n \in 0..(Len(data) - 1), sent' = sent \o SubSeq(data, 1, n), accepted' = accepted \o data,
             outputBuffer_' = outputBuffer_ \o Drop(data, n), n = 0 \/ outputBuffer_ = <<>>,
             UNCHANGED chan \/ Update(enableWriting(events)),
             isWriting(events) \/ Update(enableWriting(events)),
             MayWriteAtOnce => ~fin
      PROVE  /\ {sent', outputBuffer_', accepted'} \subseteq Seq(Messages)
             /\ sent \o outputBuffer_ = accepted => sent' \o outputBuffer_' = accepted'
             /\ Attended /\ fin' = fin => Attended'
  <2> DEFINE a == SubSeq(data, 1, n)
             b == Drop(data, n)
  <2>1. n \in 0..Len(data) /\ n # Len(data)
    BY <1>1, <1>2
  <2>2. a \in Seq(Messages) /\ b \in Seq(Messages) /\ a \o b = data /\ b # <<>> /\ (n = 0 => a = <<>> /\ b = data)
    BY <1>2, <2>1, Split, Zenon
  <2> HIDE DEF a, b
  <2>3. sent \o a \in Seq(Messages) /\ outputBuffer_ \o b \in Seq(Messages) /\ accepted \o data \in Seq(Messages)
    BY <1>1, <1>2, <2>2, Joined
  <2>4. (sent \o a) \o (outputBuffer_ \o b) = (sent \o outputBuffer_) \o data
    <3>1. CASE n = 0
      <4>1. sent \o a = sent /\ b = data
        BY <1>1, <2>2, <3>1, Nothing
      <4>2. (sent \o outputBuffer_) \o data = sent \o (outputBuffer_ \o data)
        <5>1. sent \in Seq(Messages) /\ outputBuffer_ \in Seq(Messages) /\ data \in Seq(Messages)
          BY <1>1, <1>2, Zenon
        <5> QED BY <5>1, Associative, SMTT(40)
      <4> QED BY <4>1, <4>2, Zenon
    <3>2. CASE outputBuffer_ = <<>>
      <4>1. outputBuffer_ \o b = b /\ sent \o outputBuffer_ = sent
        BY <1>1, <2>2, <3>2, Nothing
      <4>2. (sent \o a) \o b = sent \o (a \o b)
        <5>1. sent \in Seq(Messages) /\ a \in Seq(Messages) /\ b \in Seq(Messages)
          BY <1>1, <2>2
        <5> QED BY <5>1, Associative, SMTT(40)
      <4> QED BY <2>2, <4>1, <4>2, Zenon
    <3> QED BY <1>5, <3>1, <3>2, Zenon
  <2>5. outputBuffer_' # <<>>
    <3>1. Len(b) # 0 /\ Len(b) \in Nat /\ Len(outputBuffer_) \in Nat
      BY <1>1, <2>2
    <3>2. Len(outputBuffer_ \o b) = Len(outputBuffer_) + Len(b)
      BY <1>1, <2>2, Joined
    <3>3. Len(outputBuffer_ \o b) # 0
      BY <3>1, <3>2
    <3> QED BY <1>5, <3>3 DEF b
  <2>6. isWriting(events')
    BY <1>5 DEF Update, isWriting, enableWriting, chan
  <2>7. Attended => ~fin
    BY <1>5, Zenon DEF Attended, MayWriteAtOnce
  <2>8. Attended /\ fin' = fin => Attended'
    BY <2>5, <2>6, <2>7 DEF Attended
  <2>9. sent' = sent \o a /\ outputBuffer_' = outputBuffer_ \o b /\ accepted' = accepted \o data
    BY <1>5, Zenon DEF a, b
  <2>10. sent \o outputBuffer_ = accepted => sent' \o outputBuffer_' = accepted'
    BY <2>4, <2>9, Zenon
  <2> QED BY <2>3, <2>8, <2>9, <2>10, Zenon
<1>6. CASE state_ = "kDisconnected"
  BY <1>3, <1>6, Zenon DEF SendInLoop, data
<1>7. CASE state_ # "kDisconnected"
  <2>1. PICK n \in IF MayWriteAtOnce THEN Write(Len(data)) ELSE {0} :
             \/ n = -1 /\ tasks' = q /\ UNCHANGED <<outputBuffer_, chan, sent, accepted>>
             \/ /\ n = Len(data)
                /\ sent' = sent \o data /\ accepted' = accepted \o data
                /\ tasks' = Append(q, Task("writeComplete", 0))
                /\ UNCHANGED <<outputBuffer_, chan>>
             \/ /\ n \in 0..(Len(data) - 1)
                /\ sent' = sent \o SubSeq(data, 1, n) /\ accepted' = accepted \o data
                /\ BufferRest(Drop(data, n), q)
    BY <1>7, Zenon DEF SendInLoop, data
  <2>2. CASE n = -1 /\ tasks' = q /\ UNCHANGED <<outputBuffer_, chan, sent, accepted>>
    BY <1>3, <2>2
  <2>3. CASE /\ n = Len(data)
             /\ sent' = sent \o data /\ accepted' = accepted \o data
             /\ tasks' = Append(q, Task("writeComplete", 0))
             /\ UNCHANGED <<outputBuffer_, chan>>
    <3>1. n # 0
      BY <1>1, <1>2, <2>3
    <3>2. MayWriteAtOnce
      BY <2>1, <3>1
    <3>3. \E t \in Told : tasks' = Append(q, t)
      BY <2>3, Zenon DEF Told
    <3>4. UNCHANGED chan /\ accepted' = accepted \o data
      BY <2>3, Zenon
    <3> QED BY <1>2, <1>4, <2>3, <3>2, <3>3, <3>4, Zenon DEF data
  <2>4. CASE /\ n \in 0..(Len(data) - 1)
             /\ sent' = sent \o SubSeq(data, 1, n) /\ accepted' = accepted \o data
             /\ BufferRest(Drop(data, n), q)
    <3>1. /\ outputBuffer_' = outputBuffer_ \o Drop(data, n)
          /\ tasks' = q \/ \E t \in Told : tasks' = Append(q, t)
          /\ UNCHANGED chan \/ Update(enableWriting(events))
          /\ isWriting(events) \/ Update(enableWriting(events))
      BY <2>4, Zenon DEF BufferRest, Told
    <3>2. n = 0 \/ outputBuffer_ = <<>>
      BY <2>1, Zenon DEF MayWriteAtOnce
    <3>3. MayWriteAtOnce => ~fin
      <4>1. n # -1
        BY <1>1, <1>2, <2>4
      <4> QED BY <2>1, <4>1, Zenon DEF Write
    <3>4. /\ {sent', outputBuffer_', accepted'} \subseteq Seq(Messages)
          /\ sent \o outputBuffer_ = accepted => sent' \o outputBuffer_' = accepted'
          /\ Attended /\ fin' = fin => Attended'
      BY <1>5, <2>4, <3>1, <3>2, <3>3, Zenon
    <3> QED BY <1>2, <1>7, <2>4, <3>1, <3>4, Zenon DEF data
  <2> QED BY <2>1, <2>2, <2>3, <2>4, Zenon
<1> QED BY <1>6, <1>7, Zenon

-----------------------------------------------------------------------------
(* Types *)

(* Channel::update() with a mask *)
LEMMA UpdateIs ==
  ASSUME NEW e, Update(e)
  PROVE  events' = e /\ watched' \in BOOLEAN /\ registered' \in BOOLEAN /\ (e # kNoneEvent => watched')
  BY Zenon DEF Update

(* The masks *)
LEMMA Masks ==
  ASSUME NEW e \in Events
  PROVE  {enableReading(e), disableReading(e), enableWriting(e), disableWriting(e), disableAll(e)} \subseteq Events
  BY DEF Events, enableReading, disableReading, enableWriting, disableWriting, disableAll, kReadEvent, kWriteEvent,
         kNoneEvent

(* The callbacks of an event *)
LEMMA HandleEventIs ==
  ASSUME NEW revents
  PROVE  handleEvent(revents) \in Seq(CallbackNames) /\ AtMostOne(handleEvent(revents))
<1> DEFINE a == IF "hup" \in revents /\ "in" \notin revents THEN <<"close">> ELSE <<>>
           b == IF "err" \in revents THEN <<"error">> ELSE <<>>
           c == IF "in" \in revents THEN <<"read">> ELSE <<>>
           d == IF "out" \in revents THEN <<"write">> ELSE <<>>
<1>1. handleEvent(revents) = ((a \o b) \o c) \o d
  BY DEF handleEvent
<1>2. /\ a \in Seq(CallbackNames) /\ b \in Seq(CallbackNames) /\ c \in Seq(CallbackNames) /\ d \in Seq(CallbackNames)
      /\ Calm(b) /\ Calm(d) /\ AtMostOne(a) /\ AtMostOne(c) /\ (Calm(a) \/ Calm(c))
  <2>1. \A x \in CallbackNames : /\ <<x>> \in Seq(CallbackNames) /\ AtMostOne(<<x>>)
                                 /\ x \notin Closing => Calm(<<x>>)
    BY DEF AtMostOne, Calm
  <2>2. <<>> \in Seq(CallbackNames) /\ AtMostOne(<<>>) /\ Calm(<<>>)
    BY DEF AtMostOne, Calm
  <2>3. /\ "close" \in CallbackNames /\ "error" \in CallbackNames /\ "read" \in CallbackNames
        /\ "write" \in CallbackNames /\ "error" \notin Closing /\ "write" \notin Closing
    BY DEF CallbackNames, Closing
  <2> QED BY <2>1, <2>2, <2>3, Zenon
<1> HIDE DEF a, b, c, d
<1>3. ASSUME NEW p \in Seq(CallbackNames), NEW q \in Seq(CallbackNames)
      PROVE  /\ p \o q \in Seq(CallbackNames)
             /\ Calm(p) /\ Calm(q) => Calm(p \o q)
             /\ (Calm(p) /\ AtMostOne(q)) \/ (AtMostOne(p) /\ Calm(q)) => AtMostOne(p \o q)
  <2> DEFINE m == Len(p)
             n == Len(q)
             r == p \o q
  <2>1. /\ m \in Nat /\ n \in Nat /\ r \in Seq(CallbackNames) /\ Len(r) = m + n
        /\ (\A i \in 1..m : r[i] = p[i]) /\ (\A i \in 1..n : r[m + i] = q[i])
    BY Joined, Elements
  <2> HIDE DEF m, n, r
  <2>2. ASSUME NEW i \in 1..(m + n) PROVE (i \in 1..m /\ r[i] = p[i]) \/ (i - m \in 1..n /\ r[i] = q[i - m])
    <3>1. i \in 1..m \/ (i - m \in 1..n /\ m + (i - m) = i)
      BY <2>1
    <3>2. ASSUME i - m \in 1..n PROVE r[m + (i - m)] = q[i - m]
      BY <2>1, <3>2, Zenon
    <3> QED BY <2>1, <3>1, <3>2, Zenon
  <2>3. Calm(p) /\ Calm(q) => Calm(r)
    BY <2>1, <2>2, Zenon DEF Calm, m, n
  <2>4. ASSUME (Calm(p) /\ AtMostOne(q)) \/ (AtMostOne(p) /\ Calm(q)) PROVE AtMostOne(r)
    <3> SUFFICES ASSUME NEW i \in 1..(m + n), NEW j \in 1..(m + n), r[i] \in Closing, r[j] \in Closing PROVE i = j
      BY <2>1, Zenon DEF AtMostOne
    <3>1. CASE Calm(p) /\ AtMostOne(q)
      <4>1. i - m \in 1..n /\ r[i] = q[i - m] /\ j - m \in 1..n /\ r[j] = q[j - m]
        BY <2>2, <3>1, Zenon DEF Calm, m
      <4>2. i - m = j - m
        BY <3>1, <4>1, Zenon DEF AtMostOne, n
      <4> QED BY <2>1, <4>2
    <3>2. CASE AtMostOne(p) /\ Calm(q)
      <4>1. i \in 1..m /\ r[i] = p[i] /\ j \in 1..m /\ r[j] = p[j]
        BY <2>2, <3>2, Zenon DEF Calm, n
      <4> QED BY <3>2, <4>1, Zenon DEF AtMostOne, m
    <3> QED BY <2>4, <3>1, <3>2
  <2> QED BY <2>1, <2>3, <2>4, Zenon DEF r
<1>4. Calm(a) => Calm(a \o b) /\ AtMostOne((a \o b) \o c)
  BY <1>2, <1>3, Zenon
<1>5. Calm(c) => AtMostOne((a \o b) \o c)
  BY <1>2, <1>3, Zenon
<1>6. (a \o b) \o c \in Seq(CallbackNames) /\ AtMostOne((a \o b) \o c)
  BY <1>2, <1>3, <1>4, <1>5, Zenon
<1>7. ((a \o b) \o c) \o d \in Seq(CallbackNames) /\ AtMostOne(((a \o b) \o c) \o d)
  BY <1>2, <1>3, <1>6, Zenon
<1> QED BY <1>1, <1>7, Zenon

(* handleClose() *)
LEMMA HandleCloseIs ==
  ASSUME HandleClose
  PROVE  /\ state_' = "kDisconnected" /\ pc' = "closing" /\ downs' = downs + 1
         /\ events' = kNoneEvent /\ kNoneEvent \in Events /\ watched' = ~watched /\ watched' \in BOOLEAN
         /\ registered' = TRUE /\ badClose' = (badClose \/ ~Open)
<1>1. Update(kNoneEvent)
  BY DEF HandleClose, disableAll
<1>2. events' = kNoneEvent /\ watched' = (~watched \/ kNoneEvent # kNoneEvent) /\ registered' = TRUE
  BY <1>1, Zenon DEF Update
<1>3. kNoneEvent \in Events
  BY DEF kNoneEvent, Events
<1> QED BY <1>2, <1>3 DEF HandleClose

(* What the type invariant says of the connection, of the rest of its loop, of the
   environment and of the histories *)
ConnTypes ==
  /\ state_ \in {"kConnecting", "kConnected", "kDisconnecting", "kDisconnected"} /\ reading_ \in BOOLEAN
  /\ {sent, outputBuffer_, accepted} \subseteq Seq(Messages)
ChanTypes == events \in Events /\ {watched, registered} \subseteq BOOLEAN
LoopTypes ==
  /\ pc \in {"loop", "closing", "destroying"} /\ callbacks \in Seq(CallbackNames) /\ tasks \in Seq(TaskType)
UserTypes ==
  /\ foreign \in ForeignType /\ calls \in 0..usage.maxCalls /\ theirs \subseteq Messages /\ delayed \in BOOLEAN
RestTypes ==
  /\ inbox \in 0..usage.maxInbox /\ broken \in {"no", "pending", "told"}
  /\ {peerClosed, fin, inMap, serverGone} \subseteq BOOLEAN
  /\ {ups, downs, destroyed, removals} \subseteq Nat

(* These are all, before a step and after it. *)
LEMMA TypesAre ==
  /\ TypeInv <=> usage \in Usages /\ ConnTypes /\ ChanTypes /\ LoopTypes /\ UserTypes /\ RestTypes
  /\ TypeInv' <=> (usage' \in Usages) /\ ConnTypes' /\ ChanTypes' /\ LoopTypes' /\ UserTypes' /\ RestTypes'
<1>1. \A f \in ForeignType : f.op \in Ops \cup {"none"} /\ f.at \in {"none", "store", "queue"}
  BY DEF ForeignType
<1>2. TypeInv <=> usage \in Usages /\ ConnTypes /\ ChanTypes /\ LoopTypes /\ UserTypes /\ RestTypes
  BY <1>1 DEF TypeInv, TypeOK, ConnTypes, ChanTypes, LoopTypes, UserTypes, RestTypes, Messages
<1>3. TypeInv' <=> (usage' \in Usages) /\ ConnTypes' /\ ChanTypes' /\ LoopTypes' /\ UserTypes' /\ RestTypes'
  BY <1>1 DEF TypeInv, TypeOK, ConnTypes, ChanTypes, LoopTypes, UserTypes, RestTypes, Messages
<1> QED BY <1>2, <1>3

(* The other thread while it is in no call *)
LEMMA IdleIs == Idle \in ForeignType /\ Idle.op = "none" /\ Idle.at = "none"
  BY DEF Idle, ForeignType

(* At first *)
LEMMA TypesInit == Init => TypeInv
<1> SUFFICES ASSUME Init PROVE TypeInv
  OBVIOUS
<1>1. usage \in Usages /\ usage.maxCalls \in Nat /\ usage.maxInbox \in Nat
  BY TcpConstants DEF Init
<1>2. ConnTypes
  BY DEF Init, ConnTypes
<1>3. ChanTypes
  BY Zenon DEF Init, ChanTypes, Events, kNoneEvent
<1>4. LoopTypes
  <2>1. Task("connectEstablished", 0) \in TaskType
    BY Tasks DEF TaskOps
  <2> QED BY <2>1 DEF Init, LoopTypes
<1>5. UserTypes
  <2>1. 0 \in 0..usage.maxCalls
    BY <1>1
  <2> QED BY <2>1, IdleIs, Zenon DEF Init, UserTypes
<1>6. RestTypes
  <2>1. 0 \in 0..usage.maxInbox /\ 0 \in Nat
    BY <1>1
  <2> QED BY <2>1, Zenon DEF Init, RestTypes
<1> QED BY <1>1, <1>2, <1>3, <1>4, <1>5, <1>6, TypesAre

(* Groups of variables that do not change *)
LEMMA TypesStay ==
  ASSUME usage' = usage
  PROVE  /\ UNCHANGED <<state_, reading_, outputBuffer_, sent, accepted>> /\ ConnTypes => ConnTypes'
         /\ UNCHANGED <<events, watched, registered>> /\ ChanTypes => ChanTypes'
         /\ UNCHANGED <<pc, callbacks, tasks>> /\ LoopTypes => LoopTypes'
         /\ UNCHANGED <<foreign, calls, theirs, delayed>> /\ UserTypes => UserTypes'
         /\ UNCHANGED <<inbox, peerClosed, broken, fin, inMap, removals, serverGone, ups, downs, destroyed>>
              /\ RestTypes => RestTypes'
  BY DEF ConnTypes, ChanTypes, LoopTypes, UserTypes, RestTypes, Messages

(* A functor runs. *)
LEMMA RunTaskTypes ==
  ASSUME TypeInv, StreamInv, RunTask, usage' = usage PROVE TypeInv'
<1> DEFINE task == Head(tasks)
<1>1. usage' \in Usages /\ ConnTypes /\ ChanTypes /\ LoopTypes /\ UserTypes /\ RestTypes
  BY TypesAre
<1>2. tasks \in Seq(TaskType) /\ tasks # <<>>
  BY <1>1, Zenon DEF RunTask, LoopTypes
<1>3. Tail(tasks) \in Seq(TaskType) /\ task \in TaskType
      /\ (task.op = "sendInLoop" => task.msg \in Messages)
  <2>1. task.op = "sendInLoop" => task.msg \in theirs
    BY <1>2, Dequeued, Zenon DEF StreamInv
  <2> QED BY <1>1, <1>2, <2>1, Dequeued, Zenon DEF UserTypes
<1>4. UNCHANGED <<callbacks, inbox, peerClosed, broken, server, user, badRemove>>
  BY Zenon DEF RunTask
<1>5. UserTypes'
  BY <1>1, <1>4, TypesStay DEF user
<1>6. ASSUME tasks' = Tail(tasks), pc' \in {"loop", "closing", "destroying"} PROVE LoopTypes'
  BY <1>1, <1>3, <1>4, <1>6 DEF LoopTypes
<1>7. ASSUME fin' \in BOOLEAN, {ups', downs', destroyed'} \subseteq Nat PROVE RestTypes'
  BY <1>1, <1>4, <1>7 DEF RestTypes, server
<1> HIDE DEF task
<1>8. CASE task.op = "connectEstablished" /\ ConnectEstablished /\ tasks' = Tail(tasks)
  <2>1. Update(enableReading(events)) /\ enableReading(events) \in Events
    BY <1>1, <1>8, Masks DEF ConnectEstablished, ChanTypes
  <2>2. ChanTypes'
    BY <2>1, UpdateIs DEF ChanTypes
  <2>3. ConnTypes'
    BY <1>1, <1>8 DEF ConnTypes, ConnectEstablished, Messages
  <2>4. LoopTypes' /\ RestTypes'
    BY <1>1, <1>6, <1>7, <1>8 DEF ConnectEstablished, LoopTypes, RestTypes
  <2> QED BY <1>1, <1>5, <2>2, <2>3, <2>4, TypesAre, Zenon
<1>9. CASE task.op = "connectDestroyed" /\ ConnectDestroyed /\ tasks' = Tail(tasks)
  <2>1. UNCHANGED chan \/ Update(disableAll(events))
    BY <1>9 DEF ConnectDestroyed
  <2>2. ChanTypes'
    BY <1>1, <2>1, UpdateIs, Masks DEF ChanTypes, chan
  <2>3. ConnTypes'
    BY <1>1, <1>9 DEF ConnTypes, ConnectDestroyed, Messages
  <2>4. LoopTypes'
    BY <1>6, <1>9 DEF ConnectDestroyed
  <2>5. RestTypes'
    BY <1>1, <1>7, <1>9 DEF ConnectDestroyed, RestTypes
  <2> QED BY <1>1, <1>5, <2>2, <2>3, <2>4, <2>5, TypesAre, Zenon
<1>10. CASE /\ task.op = "sendInLoop" /\ SendInLoop(Data(task.msg), Tail(tasks))
            /\ UNCHANGED <<pc, fin, state_, reading_, ups, downs, destroyed, badClose>>
  <2>1. /\ tasks' = Tail(tasks) \/ \E t \in Told : tasks' = Append(Tail(tasks), t)
        /\ UNCHANGED chan \/ Update(enableWriting(events))
        /\ {sent', outputBuffer_', accepted'} \subseteq Seq(Messages)
    BY <1>3, <1>10, SendInLoopIs, Zenon
  <2>2. ChanTypes'
    BY <1>1, <2>1, UpdateIs, Masks DEF ChanTypes, chan
  <2>3. ConnTypes'
    BY <1>1, <1>10, <2>1 DEF ConnTypes, Messages
  <2>4. tasks' \in Seq(TaskType)
    <3>1. \A t \in Told : t \in TaskType
      BY Tasks, Zenon
    <3>2. \A q \in Seq(TaskType), t \in TaskType : Append(q, t) \in Seq(TaskType)
      OBVIOUS
    <3> QED BY <1>3, <2>1, <3>1, <3>2, Zenon
  <2>5. LoopTypes'
    BY <1>1, <1>4, <1>10, <2>4 DEF LoopTypes
  <2>6. RestTypes'
    BY <1>1, <1>7, <1>10 DEF RestTypes
  <2> QED BY <1>1, <1>5, <2>2, <2>3, <2>5, <2>6, TypesAre, Zenon
<1>11. CASE /\ task.op = "shutdownInLoop" /\ ShutdownInLoop(events) /\ tasks' = Tail(tasks)
            /\ UNCHANGED <<pc, conn, chan, sent, accepted, ups, downs, destroyed, badClose>>
  <2>1. ConnTypes' /\ ChanTypes'
    BY <1>1, <1>11, TypesStay DEF conn, chan
  <2>2. LoopTypes' /\ RestTypes'
    BY <1>1, <1>6, <1>7, <1>11 DEF ShutdownInLoop, LoopTypes, RestTypes
  <2> QED BY <1>1, <1>5, <2>1, <2>2, TypesAre, Zenon
<1>12. CASE /\ task.op = "forceCloseInLoop" /\ ForceCloseInLoop /\ tasks' = Tail(tasks)
            /\ UNCHANGED <<fin, sent, reading_, outputBuffer_, accepted, ups, destroyed>>
  <2>1. CASE UNCHANGED <<pc, state_, chan, downs, badClose>>
    <3>1. ConnTypes' /\ ChanTypes'
      BY <1>1, <1>12, <2>1, TypesStay DEF chan
    <3>2. LoopTypes' /\ RestTypes'
      BY <1>1, <1>6, <1>7, <1>12, <2>1 DEF LoopTypes, RestTypes
    <3> QED BY <1>1, <1>5, <3>1, <3>2, TypesAre, Zenon
  <2>2. CASE HandleClose
    <3>1. ConnTypes' /\ ChanTypes'
      BY <1>1, <1>12, <2>2, HandleCloseIs DEF ConnTypes, ChanTypes, Messages
    <3>2. LoopTypes' /\ RestTypes'
      BY <1>1, <1>6, <1>7, <1>12, <2>2, HandleCloseIs DEF RestTypes
    <3> QED BY <1>1, <1>5, <3>1, <3>2, TypesAre, Zenon
  <2> QED BY <1>12, <2>1, <2>2 DEF ForceCloseInLoop
<1>13. CASE /\ task.op \in {"startReadInLoop", "stopReadInLoop"} /\ (StartReadInLoop \/ StopReadInLoop)
            /\ tasks' = Tail(tasks)
            /\ UNCHANGED <<pc, fin, sent, state_, outputBuffer_, accepted, ups, downs, destroyed, badClose>>
  <2>1. /\ UNCHANGED chan \/ Update(enableReading(events)) \/ Update(disableReading(events))
        /\ reading_' \in BOOLEAN
    BY <1>1, <1>13, Zenon DEF StartReadInLoop, StopReadInLoop, ConnTypes
  <2>2. ChanTypes'
    BY <1>1, <2>1, UpdateIs, Masks DEF ChanTypes, chan
  <2>3. ConnTypes'
    BY <1>1, <1>13, <2>1 DEF ConnTypes, Messages
  <2>4. LoopTypes' /\ RestTypes'
    BY <1>1, <1>6, <1>7, <1>13 DEF LoopTypes, RestTypes
  <2> QED BY <1>1, <1>5, <2>2, <2>3, <2>4, TypesAre, Zenon
<1>14. CASE /\ task.op \in {"writeComplete", "highWaterMark"} /\ tasks' = Tail(tasks)
            /\ UNCHANGED <<pc, fin, sent, conn, chan, accepted, ups, downs, destroyed, badClose>>
  <2>1. ConnTypes' /\ ChanTypes'
    BY <1>1, <1>14, TypesStay DEF conn, chan
  <2>2. LoopTypes' /\ RestTypes'
    BY <1>1, <1>6, <1>7, <1>14 DEF LoopTypes, RestTypes
  <2> QED BY <1>1, <1>5, <2>1, <2>2, TypesAre, Zenon
<1> QED BY <1>8, <1>9, <1>10, <1>11, <1>12, <1>13, <1>14, Zenon DEF RunTask, task

(* A call by user code in the loop thread *)
LEMMA LoopCallTypes ==
  ASSUME TypeInv, NEW op \in Ops, LoopCall(op), usage' = usage PROVE TypeInv'
<1>1. usage' \in Usages /\ ConnTypes /\ ChanTypes /\ LoopTypes /\ UserTypes /\ RestTypes
  BY TypesAre
<1>2. calls' = calls + 1 /\ calls + 1 \in Messages /\ calls + 1 \in 0..usage.maxCalls
  BY NextCall, Zenon DEF LoopCall, MayCall
<1>3. UNCHANGED <<pc, callbacks, inbox, peerClosed, broken, server, foreign, theirs, ups, downs, destroyed>>
  BY Zenon DEF LoopCall
<1>4. CallSend \/ CallShutdown \/ CallForceClose \/ CallForceCloseWithDelay \/ CallStartRead \/ CallStopRead
  BY Zenon DEF LoopCall, Ops
<1>5. /\ \A t \in Told \cup {Task("forceCloseInLoop", 0)} : t \in TaskType
      /\ \A q \in Seq(TaskType), t \in TaskType : Append(q, t) \in Seq(TaskType)
  <2>1. Task("forceCloseInLoop", 0) \in TaskType
    BY Tasks DEF TaskOps
  <2>2. \A t \in Told : t \in TaskType
    BY Tasks, Zenon
  <2>3. \A q \in Seq(TaskType), t \in TaskType : Append(q, t) \in Seq(TaskType)
    OBVIOUS
  <2> QED BY <2>1, <2>2, <2>3, Zenon
<1>6. /\ state_' \in {"kConnecting", "kConnected", "kDisconnecting", "kDisconnected"} /\ reading_' \in BOOLEAN
      /\ {sent', outputBuffer_', accepted'} \subseteq Seq(Messages)
      /\ fin' \in BOOLEAN /\ delayed' \in BOOLEAN
      /\ tasks' = tasks \/ \E t \in Told \cup {Task("forceCloseInLoop", 0)} : tasks' = Append(tasks, t)
      /\ \/ UNCHANGED chan \/ Update(enableWriting(events))
         \/ Update(enableReading(events)) \/ Update(disableReading(events))
  <2>1. CASE CallSend
    <3>1. /\ tasks' = tasks \/ \E t \in Told : tasks' = Append(tasks, t)
          /\ UNCHANGED chan \/ Update(enableWriting(events))
          /\ {sent', outputBuffer_', accepted'} \subseteq Seq(Messages)
      BY <1>2, <2>1, SendInLoopIs, Zenon DEF CallSend
    <3>2. UNCHANGED <<state_, reading_, delayed, fin>>
      BY <2>1, Zenon DEF CallSend
    <3>3. /\ state_' \in {"kConnecting", "kConnected", "kDisconnecting", "kDisconnected"} /\ reading_' \in BOOLEAN
          /\ fin' \in BOOLEAN /\ delayed' \in BOOLEAN
      BY <1>1, <3>2 DEF ConnTypes, UserTypes, RestTypes
    <3> QED BY <3>1, <3>3, Zenon
  <2>2. CASE CallShutdown
    BY <1>1, <2>2 DEF CallShutdown, ShutdownInLoop, ConnTypes, UserTypes, RestTypes
  <2>3. CASE CallForceClose
    <3>1. \E t \in Told \cup {Task("forceCloseInLoop", 0)} : tasks' = Append(tasks, t)
      BY <2>3, Zenon DEF CallForceClose, Queue
    <3> QED BY <1>1, <2>3, <3>1 DEF CallForceClose, ConnTypes, UserTypes, RestTypes
  <2>4. CASE CallForceCloseWithDelay
    BY <1>1, <2>4 DEF CallForceCloseWithDelay, ConnTypes, UserTypes, RestTypes
  <2>5. CASE CallStartRead
    BY <1>1, <2>5, Zenon DEF CallStartRead, StartReadInLoop, ConnTypes, UserTypes, RestTypes, chan
  <2>6. CASE CallStopRead
    BY <1>1, <2>6, Zenon DEF CallStopRead, StopReadInLoop, ConnTypes, UserTypes, RestTypes, chan
  <2> QED BY <1>4, <2>1, <2>2, <2>3, <2>4, <2>5, <2>6, Zenon
<1>7. ConnTypes'
  BY <1>6 DEF ConnTypes, Messages
<1>8. ChanTypes'
  BY <1>1, <1>6, UpdateIs, Masks DEF ChanTypes, chan
<1>9. LoopTypes'
  <2>1. tasks' \in Seq(TaskType)
    BY <1>1, <1>5, <1>6, Zenon DEF LoopTypes
  <2> QED BY <1>1, <1>3, <2>1 DEF LoopTypes
<1>10. UserTypes'
  BY <1>1, <1>2, <1>3, <1>6 DEF UserTypes, Messages
<1>11. RestTypes'
  BY <1>1, <1>3, <1>6 DEF RestTypes, server
<1> QED BY <1>1, <1>7, <1>8, <1>9, <1>10, <1>11, TypesAre, Zenon

(* The functor of a call *)
LEMMA InLoopIs ==
  ASSUME NEW op \in Ops \ {"forceCloseWithDelay"}
  PROVE  /\ InLoop(op) \in TaskOps /\ InLoop(op) \notin {"connectEstablished", "connectDestroyed"}
         /\ InLoop(op) = "sendInLoop" <=> op = "send"
<1>1. /\ InLoop("send") = "sendInLoop" /\ InLoop("shutdown") = "shutdownInLoop"
      /\ InLoop("forceClose") = "forceCloseInLoop" /\ InLoop("startRead") = "startReadInLoop"
      /\ InLoop("stopRead") = "stopReadInLoop"
  BY DEF InLoop
<1> QED BY <1>1 DEF Ops, TaskOps

(* The other thread *)
LEMMA ForeignTypes ==
  ASSUME TypeInv, StreamInv, usage' = usage, (\E op \in Ops : ForeignCall(op)) \/ ForeignStore \/ ForeignQueue
  PROVE  TypeInv'
<1>1. usage' \in Usages /\ ConnTypes /\ ChanTypes /\ LoopTypes /\ UserTypes /\ RestTypes
  BY TypesAre
<1>2. ASSUME NEW op \in Ops, ForeignCall(op) PROVE TypeInv'
  <2>1. calls' = calls + 1 /\ calls + 1 \in Messages /\ calls + 1 \in 0..usage.maxCalls /\ calls + 1 \in Nat
    BY <1>2, NextCall, Zenon DEF ForeignCall, MayCall
  <2>2. UNCHANGED <<conn, chan, pc, callbacks, tasks, sock, server, delayed, hist>>
    BY <1>2, Zenon DEF ForeignCall
  <2>3. theirs' \subseteq Messages
    BY <1>1, <1>2, <2>1, Zenon DEF ForeignCall, UserTypes
  <2>4. foreign' \in ForeignType
    BY <1>2, <2>1, Zenon DEF ForeignCall, ForeignType
  <2>5. UserTypes'
    BY <1>1, <2>1, <2>2, <2>3, <2>4 DEF UserTypes, Messages
  <2>6. ConnTypes' /\ ChanTypes' /\ LoopTypes' /\ RestTypes'
    BY <1>1, <2>2, TypesStay DEF conn, chan, sock, server, hist
  <2> QED BY <1>1, <2>5, <2>6, TypesAre, Zenon
<1>3. CASE ForeignStore
  <2>1. /\ state_' = "kDisconnecting" /\ foreign' = [foreign EXCEPT !.at = "queue"]
        /\ UNCHANGED <<reading_, outputBuffer_, chan, pc, callbacks, tasks, sock, server, calls, theirs, delayed, hist>>
    BY <1>3, Zenon DEF ForeignStore
  <2>2. foreign' \in ForeignType
    BY <1>1, <2>1 DEF UserTypes, ForeignType
  <2>3. UserTypes'
    BY <1>1, <2>1, <2>2 DEF UserTypes, Messages
  <2>4. ConnTypes'
    BY <1>1, <2>1 DEF ConnTypes, Messages, sock, hist
  <2>5. ChanTypes' /\ LoopTypes' /\ RestTypes'
    BY <1>1, <2>1, TypesStay DEF chan, sock, server, hist
  <2> QED BY <1>1, <2>3, <2>4, <2>5, TypesAre, Zenon
<1>4. CASE ForeignQueue
  <2>1. /\ foreign' = Idle /\ UNCHANGED <<conn, chan, pc, callbacks, sock, server, calls, theirs, hist>>
        /\ \/ delayed' = TRUE /\ tasks' = tasks
           \/ /\ foreign.op # "forceCloseWithDelay"
              /\ tasks' = Append(tasks, Task(InLoop(foreign.op), foreign.msg)) /\ delayed' = delayed
    BY <1>4, Zenon DEF ForeignQueue
  <2>2. tasks' \in Seq(TaskType)
    <3>1. foreign.op \in Ops /\ foreign.msg \in Nat
      BY <1>1, <1>4 DEF ForeignQueue, StreamInv, UserTypes, ForeignType
    <3>2. ASSUME foreign.op # "forceCloseWithDelay" PROVE Task(InLoop(foreign.op), foreign.msg) \in TaskType
      BY <3>1, <3>2, InLoopIs, Tasks, Zenon
    <3>3. tasks \in Seq(TaskType) /\ \A q \in Seq(TaskType), t \in TaskType : Append(q, t) \in Seq(TaskType)
      BY <1>1 DEF LoopTypes
    <3> QED BY <2>1, <3>2, <3>3, Zenon
  <2>3. UserTypes'
    BY <1>1, <2>1, IdleIs, Zenon DEF UserTypes, Messages
  <2>4. LoopTypes'
    BY <1>1, <2>1, <2>2 DEF LoopTypes
  <2>5. ConnTypes' /\ ChanTypes' /\ RestTypes'
    BY <1>1, <2>1, TypesStay DEF conn, chan, sock, server, hist
  <2> QED BY <1>1, <2>3, <2>4, <2>5, TypesAre, Zenon
<1> QED BY <1>2, <1>3, <1>4

(* handleWrite() moves units from the buffer to the socket, and no longer asks for
   POLLOUT when it has moved the last. *)
LEMMA HandleWriteIs ==
  ASSUME TypeInv, HandleWrite
  PROVE  /\ tasks' = tasks \/ \E t \in Told : tasks' = Append(tasks, t)
         /\ UNCHANGED chan \/ (isWriting(events) /\ Update(disableWriting(events)))
         /\ {sent', outputBuffer_'} \subseteq Seq(Messages)
         /\ sent \o outputBuffer_ = accepted => sent' \o outputBuffer_' = accepted
         /\ fin' \in BOOLEAN
         /\ Attended => Attended'
<1>1. sent \in Seq(Messages) /\ outputBuffer_ \in Seq(Messages) /\ fin \in BOOLEAN /\ events \in Events
  BY Zenon DEF TypeInv, TypeOK, Messages
<1>2. CASE UNCHANGED <<outputBuffer_, sent, chan, tasks, fin>>
  <2>1. UNCHANGED chan /\ tasks' = tasks /\ sent' = sent /\ outputBuffer_' = outputBuffer_ /\ fin' = fin /\ events' = events
    BY <1>2 DEF chan
  <2>2. Attended => Attended'
    BY <2>1 DEF Attended, isWriting
  <2> QED BY <1>1, <2>1, <2>2
<1>3. CASE isWriting(events) /\ \E n \in Write(Len(outputBuffer_)) :
             /\ n > 0
             /\ outputBuffer_' = Drop(outputBuffer_, n)
             /\ sent' = sent \o SubSeq(outputBuffer_, 1, n)
             /\ IF outputBuffer_' = <<>> THEN Drained ELSE UNCHANGED <<chan, tasks, fin>>
  <2>1. PICK n \in Write(Len(outputBuffer_)) :
             /\ n > 0
             /\ outputBuffer_' = Drop(outputBuffer_, n)
             /\ sent' = sent \o SubSeq(outputBuffer_, 1, n)
             /\ IF outputBuffer_' = <<>> THEN Drained ELSE UNCHANGED <<chan, tasks, fin>>
    BY <1>3, Zenon
  <2>2. n \in 0..Len(outputBuffer_)
    BY <2>1 DEF Write
  <2> DEFINE a == SubSeq(outputBuffer_, 1, n)
             b == Drop(outputBuffer_, n)
  <2>3. a \in Seq(Messages) /\ b \in Seq(Messages) /\ a \o b = outputBuffer_
    BY <1>1, <2>2, Split, Zenon
  <2> HIDE DEF a, b
  <2>4. sent' = sent \o a /\ outputBuffer_' = b
    BY <2>1, Zenon DEF a, b
  <2>5. sent' \o outputBuffer_' = sent \o outputBuffer_
    <3>1. sent \in Seq(Messages) /\ a \in Seq(Messages) /\ b \in Seq(Messages)
      BY <1>1, <2>3
    <3>2. (sent \o a) \o b = sent \o (a \o b)
      BY <3>1, Associative
    <3> QED BY <2>3, <2>4, <3>2, Zenon
  <2>6. sent' \in Seq(Messages) /\ outputBuffer_' \in Seq(Messages)
    BY <1>1, <2>3, <2>4, Joined
  <2>7. CASE UNCHANGED <<chan, tasks, fin>> /\ outputBuffer_' # <<>>
    <3>1. UNCHANGED chan /\ tasks' = tasks /\ fin' = fin /\ events' = events
      BY <2>7 DEF chan
    <3>2. outputBuffer_ # <<>>
      <4>1. b # <<>> /\ Len(a) \in Nat /\ Len(b) \in Nat /\ Len(b) # 0
        BY <2>3, <2>4, <2>7
      <4>2. Len(outputBuffer_) = Len(a) + Len(b)
        BY <2>3, Joined
      <4>3. Len(outputBuffer_) # 0
        BY <4>1, <4>2
      <4> QED BY <4>3
    <3>3. Attended => Attended'
      BY <2>7, <3>1, <3>2 DEF Attended, isWriting
    <3> QED BY <1>1, <2>5, <2>6, <3>1, <3>3
  <2>8. CASE Drained /\ outputBuffer_' = <<>>
    <3>1. \E t \in Told : tasks' = Append(tasks, t)
      BY <2>8, Zenon DEF Drained, Queue, Told
    <3>2. Update(disableWriting(events)) /\ fin' \in BOOLEAN
      BY <1>1, <2>8, Zenon DEF Drained, ShutdownInLoop
    <3>3. ~isWriting(events')
      <4>1. events' = disableWriting(events)
        BY <3>2, Zenon DEF Update
      <4>2. ~isWriting(disableWriting(events))
        BY DEF disableWriting, isWriting, kWriteEvent
      <4> QED BY <4>1, <4>2
    <3>4. Attended'
      BY <2>8, <3>3 DEF Attended
    <3> QED BY <1>3, <2>5, <2>6, <3>1, <3>2, <3>4, Zenon
  <2> QED BY <2>1, <2>7, <2>8, Zenon
<1> QED BY <1>2, <1>3, Zenon DEF HandleWrite

(* A callback of Channel::handleEvent() *)
LEMMA CallbackTypes ==
  ASSUME TypeInv, usage' = usage, HandleRead \/ HandleWrite \/ HandleHup \/ HandleError PROVE TypeInv'
<1>1. usage' \in Usages /\ ConnTypes /\ ChanTypes /\ LoopTypes /\ UserTypes /\ RestTypes
  BY TypesAre
<1>2. callbacks # <<>> /\ callbacks' = Tail(callbacks)
  BY Zenon DEF HandleRead, HandleWrite, HandleHup, HandleError, Dispatches
<1>3. callbacks' \in Seq(CallbackNames)
  BY <1>1, <1>2, Rest, Zenon DEF LoopTypes
<1>4. ASSUME UNCHANGED <<pc, tasks>> PROVE LoopTypes'
  BY <1>1, <1>3, <1>4 DEF LoopTypes
<1>5. CASE HandleRead
  <2>1. UNCHANGED <<reading_, outputBuffer_, tasks, peerClosed, fin, sent, server, user, accepted, ups, destroyed>>
    BY <1>5, Zenon DEF HandleRead
  <2>2. \/ /\ inbox > 0 /\ inbox' = inbox - 1 /\ UNCHANGED <<pc, state_, chan, broken, downs, badClose>>
        \/ HandleClose /\ UNCHANGED <<inbox, broken>>
        \/ broken' = "told" /\ UNCHANGED <<inbox, pc, state_, chan, downs, badClose>>
    BY <1>5, Zenon DEF HandleRead, ReadsData
  <2>3. UserTypes'
    BY <1>1, <2>1, TypesStay DEF user
  <2>4. /\ state_' \in {"kConnecting", "kConnected", "kDisconnecting", "kDisconnected"}
        /\ pc' \in {"loop", "closing", "destroying"} /\ downs' \in Nat
    <3>1. CASE HandleClose
      BY <1>1, <3>1, HandleCloseIs DEF RestTypes
    <3>2. CASE UNCHANGED <<pc, state_, downs>>
      BY <1>1, <3>2 DEF ConnTypes, LoopTypes, RestTypes
    <3> QED BY <2>2, <3>1, <3>2
  <2>5. inbox' \in 0..usage.maxInbox /\ broken' \in {"no", "pending", "told"}
    <3>1. inbox \in 0..usage.maxInbox /\ usage.maxInbox \in Nat
      BY <1>1, Bounds, Zenon DEF RestTypes
    <3>2. inbox' = inbox \/ (inbox > 0 /\ inbox' = inbox - 1)
      BY <2>2, Zenon
    <3>3. inbox' \in 0..usage.maxInbox
      BY <3>1, <3>2
    <3>4. broken' \in {"no", "pending", "told"}
      BY <1>1, <2>2 DEF RestTypes
    <3> QED BY <3>3, <3>4
  <2>6. ConnTypes'
    BY <1>1, <2>1, <2>4 DEF ConnTypes, Messages
  <2>7. ChanTypes'
    BY <1>1, <2>2, HandleCloseIs, Zenon DEF ChanTypes, chan
  <2>8. LoopTypes'
    BY <1>1, <1>3, <2>1, <2>4 DEF LoopTypes
  <2>9. RestTypes'
    BY <1>1, <2>1, <2>4, <2>5 DEF RestTypes, server
  <2> QED BY <1>1, <2>3, <2>6, <2>7, <2>8, <2>9, TypesAre, Zenon
<1>6. CASE HandleWrite
  <2>1. UNCHANGED <<state_, reading_, pc, inbox, peerClosed, broken, server, user, hist>>
    BY <1>6, Zenon DEF HandleWrite
  <2>2. /\ tasks' = tasks \/ \E t \in Told : tasks' = Append(tasks, t)
        /\ UNCHANGED chan \/ (isWriting(events) /\ Update(disableWriting(events)))
        /\ {sent', outputBuffer_'} \subseteq Seq(Messages) /\ fin' \in BOOLEAN
    BY <1>6, HandleWriteIs, Zenon
  <2>3. UserTypes'
    BY <1>1, <2>1, TypesStay DEF user
  <2>4. ConnTypes'
    BY <1>1, <2>1, <2>2 DEF ConnTypes, Messages, hist
  <2>5. ChanTypes'
    BY <1>1, <2>2, UpdateIs, Masks DEF ChanTypes, chan
  <2>6. tasks' \in Seq(TaskType)
    <3>1. \A t \in Told : t \in TaskType
      BY Tasks, Zenon
    <3>2. tasks \in Seq(TaskType) /\ \A q \in Seq(TaskType), t \in TaskType : Append(q, t) \in Seq(TaskType)
      BY <1>1 DEF LoopTypes
    <3> QED BY <2>2, <3>1, <3>2, Zenon
  <2>7. LoopTypes'
    BY <1>1, <1>3, <2>1, <2>6 DEF LoopTypes
  <2>8. RestTypes'
    BY <1>1, <2>1, <2>2, Zenon DEF RestTypes, server, hist
  <2> QED BY <1>1, <2>3, <2>4, <2>5, <2>7, <2>8, TypesAre, Zenon
<1>7. CASE HandleHup
  <2>1. /\ HandleClose
        /\ UNCHANGED <<reading_, outputBuffer_, tasks, sock, server, user, accepted, ups, destroyed>>
    BY <1>7, Zenon DEF HandleHup
  <2>2. UserTypes'
    BY <1>1, <2>1, TypesStay DEF user
  <2>3. ConnTypes'
    BY <1>1, <2>1, HandleCloseIs DEF ConnTypes, Messages, sock
  <2>4. ChanTypes'
    BY <1>1, <2>1, HandleCloseIs DEF ChanTypes
  <2>5. LoopTypes'
    BY <1>1, <1>3, <2>1, HandleCloseIs DEF LoopTypes
  <2>6. RestTypes'
    BY <1>1, <2>1, HandleCloseIs DEF RestTypes, sock, server
  <2> QED BY <1>1, <2>2, <2>3, <2>4, <2>5, <2>6, TypesAre, Zenon
<1>8. CASE HandleError
  <2>1. broken' = "told" /\ UNCHANGED <<conn, chan, pc, tasks, inbox, peerClosed, fin, sent, server, user, hist>>
    BY <1>8, Zenon DEF HandleError
  <2>2. ConnTypes' /\ ChanTypes' /\ UserTypes'
    BY <1>1, <2>1, TypesStay DEF conn, chan, user, hist
  <2>3. RestTypes'
    BY <1>1, <2>1, Zenon DEF RestTypes, server, hist
  <2> QED BY <1>1, <1>4, <2>1, <2>2, <2>3, TypesAre
<1> QED BY <1>5, <1>6, <1>7, <1>8

(* Every step keeps the types. *)
LEMMA TypesStep ==
  ASSUME TypeInv, StreamInv, [Next]_vars PROVE TypeInv'
<1>1. CASE UNCHANGED vars
  <2>1. usage' = usage
    BY <1>1 DEF vars
  <2>2. usage \in Usages /\ ConnTypes /\ ChanTypes /\ LoopTypes /\ UserTypes /\ RestTypes
    BY TypesAre, Zenon
  <2>3. ConnTypes' /\ ChanTypes' /\ LoopTypes' /\ UserTypes' /\ RestTypes'
    BY <1>1, <2>1, <2>2, TypesStay, Zenon DEF vars, conn, chan, sock, server, user, hist
  <2> QED BY <2>1, <2>2, <2>3, TypesAre
<1> SUFFICES ASSUME Next PROVE TypeInv'
  BY <1>1
<1>2. usage' = usage /\ Step
  BY DEF Next, SameUse
<1>3. usage' \in Usages /\ ConnTypes /\ ChanTypes /\ LoopTypes /\ UserTypes /\ RestTypes
  BY <1>2, TypesAre
<1>4. \A q \in Seq(TaskType), t \in TaskType : Append(q, t) \in Seq(TaskType)
  OBVIOUS
<1>5. ASSUME NEW room \in BOOLEAN, Poll(room) PROVE TypeInv'
  <2>1. UNCHANGED <<conn, chan, pc, tasks, sock, server, user, hist>>
    BY <1>5, Zenon DEF Poll
  <2>2. callbacks' \in Seq(CallbackNames)
    BY <1>5, HandleEventIs, Zenon DEF Poll
  <2>3. ConnTypes' /\ ChanTypes' /\ UserTypes' /\ RestTypes'
    BY <1>2, <1>3, <2>1, TypesStay, Zenon DEF conn, chan, sock, server, user, hist
  <2>4. LoopTypes'
    BY <1>3, <2>1, <2>2 DEF LoopTypes
  <2> QED BY <1>3, <2>3, <2>4, TypesAre, Zenon
<1>6. CASE CloseCallback
  <2>1. /\ pc' = "loop" /\ removals' \in {removals, removals + 1}
        /\ UNCHANGED <<conn, chan, callbacks, tasks, sock, inMap, serverGone, user, hist>>
    BY <1>6 DEF CloseCallback
  <2>2. ConnTypes' /\ ChanTypes' /\ UserTypes'
    BY <1>2, <1>3, <2>1, TypesStay DEF conn, chan, sock, user, hist
  <2>3. LoopTypes'
    BY <1>3, <2>1 DEF LoopTypes
  <2>4. RestTypes'
    <3>1. removals' \in Nat
      BY <1>3, <2>1 DEF RestTypes
    <3> QED BY <1>2, <1>3, <2>1, <3>1 DEF RestTypes, sock, hist
  <2> QED BY <1>3, <2>2, <2>3, <2>4, TypesAre, Zenon
<1>7. CASE RemoveChannel
  <2>1. /\ pc' = "loop" /\ registered' = FALSE /\ watched' = FALSE
        /\ UNCHANGED <<conn, events, callbacks, tasks, sock, server, user, accepted, ups, downs, destroyed>>
    BY <1>7, Zenon DEF RemoveChannel
  <2>2. ConnTypes' /\ UserTypes' /\ RestTypes'
    BY <1>2, <1>3, <2>1, TypesStay DEF conn, sock, server, user
  <2>3. ChanTypes' /\ LoopTypes'
    BY <1>3, <2>1, Zenon DEF ChanTypes, LoopTypes
  <2> QED BY <1>3, <2>2, <2>3, TypesAre, Zenon
<1>8. CASE TimerFires
  <2>1. /\ delayed' = FALSE /\ state_' \in {state_, "kDisconnecting"}
        /\ tasks' = tasks \/ tasks' = Append(tasks, Task("forceCloseInLoop", 0))
        /\ UNCHANGED <<reading_, outputBuffer_, chan, pc, callbacks, sock, server, foreign, calls, theirs, hist>>
    BY <1>8 DEF TimerFires, Queue
  <2>2. Task("forceCloseInLoop", 0) \in TaskType
    BY Tasks DEF TaskOps
  <2>3. tasks' \in Seq(TaskType)
    BY <1>3, <1>4, <2>1, <2>2, Zenon DEF LoopTypes
  <2>4. ChanTypes' /\ RestTypes'
    BY <1>2, <1>3, <2>1, TypesStay, Zenon DEF chan, sock, server, hist
  <2>5. ConnTypes'
    BY <1>2, <1>3, <2>1 DEF ConnTypes, Messages, sock, hist
  <2>6. LoopTypes'
    BY <1>3, <2>1, <2>3 DEF LoopTypes
  <2>7. UserTypes'
    BY <1>2, <1>3, <2>1, Zenon DEF UserTypes, Messages
  <2> QED BY <1>3, <2>4, <2>5, <2>6, <2>7, TypesAre, Zenon
<1>9. CASE RemoveConnectionInLoop \/ DestroyServer
  <2>1. /\ tasks' = tasks \/ tasks' = Append(tasks, Task("connectDestroyed", 0))
        /\ inMap' = FALSE /\ serverGone' \in {serverGone, TRUE}
        /\ removals' = removals \/ (removals > 0 /\ removals' = removals - 1)
        /\ UNCHANGED <<conn, chan, pc, callbacks, sock, user, hist>>
    BY <1>9, Zenon DEF RemoveConnectionInLoop, DestroyServer, Queue
  <2>2. Task("connectDestroyed", 0) \in TaskType
    BY Tasks DEF TaskOps
  <2>3. tasks' \in Seq(TaskType)
    BY <1>3, <1>4, <2>1, <2>2, Zenon DEF LoopTypes
  <2>4. ConnTypes' /\ ChanTypes' /\ UserTypes'
    BY <1>2, <1>3, <2>1, TypesStay DEF conn, chan, sock, user, hist
  <2>5. LoopTypes'
    BY <1>3, <2>1, <2>3 DEF LoopTypes
  <2>6. RestTypes'
    <3>1. removals' \in Nat
      <4>1. removals \in Nat
        BY <1>3 DEF RestTypes
      <4>2. \A n \in Nat : n > 0 => n - 1 \in Nat
        OBVIOUS
      <4> QED BY <2>1, <4>1, <4>2, Zenon
    <3>2. {inMap', serverGone'} \subseteq BOOLEAN
      BY <1>3, <2>1, Zenon DEF RestTypes
    <3> QED BY <1>2, <1>3, <2>1, <3>1, <3>2, Zenon DEF RestTypes, sock, hist
  <2> QED BY <1>3, <2>4, <2>5, <2>6, TypesAre, Zenon
<1>10. CASE PeerSends \/ PeerCloses \/ Reset
  <2>1. /\ (inbox < usage.maxInbox /\ inbox' = inbox + 1) \/ inbox' = inbox
        /\ peerClosed' \in {peerClosed, TRUE} /\ broken' \in {broken, "pending"}
        /\ UNCHANGED <<conn, chan, pc, callbacks, tasks, fin, sent, server, user, hist>>
    BY <1>10, Zenon DEF PeerSends, PeerCloses, Reset
  <2>2. ConnTypes' /\ ChanTypes' /\ LoopTypes' /\ UserTypes'
    BY <1>2, <1>3, <2>1, TypesStay DEF conn, chan, user, hist
  <2>3. inbox' \in 0..usage.maxInbox
    <3>1. inbox \in 0..usage.maxInbox /\ usage.maxInbox \in Nat
      BY <1>3, Bounds, Zenon DEF RestTypes
    <3> QED BY <2>1, <3>1
  <2>4. RestTypes'
    BY <1>2, <1>3, <2>1, <2>3, Zenon DEF RestTypes, server, hist
  <2> QED BY <1>3, <2>2, <2>4, TypesAre, Zenon
<1> QED BY <1>2, <1>5, <1>6, <1>7, <1>8, <1>9, <1>10, RunTaskTypes, LoopCallTypes, ForeignTypes, CallbackTypes, Zenon
        DEF Step, LoopStep

-----------------------------------------------------------------------------
(* The stream *)

(* The order StreamInOrder asks for, with T the messages of the other thread *)
Ordered(s, T) == \A i, j \in 1..Len(s) : i < j /\ (s[i] \in T <=> s[j] \in T) => s[i] <= s[j]

(* The parts of the invariant *)
LEMMA StreamIs ==
  ASSUME accepted \in Seq(Messages), accepted' \in Seq(Messages)
  PROVE  /\ StreamInv => /\ sent \o outputBuffer_ = accepted /\ Ordered(accepted, theirs)
                         /\ theirs \subseteq 1..calls /\ \A i \in 1..Len(accepted) : accepted[i] \in 1..calls
         /\ /\ sent' \o outputBuffer_' = accepted' /\ Ordered(accepted', theirs')
            /\ theirs' \subseteq 1..(calls') /\ \A i \in 1..Len(accepted') : accepted'[i] \in 1..(calls')
            /\ InTurn(tasks', theirs')
            /\ foreign'.at # "none" => foreign'.op \in Ops
            /\ foreign'.op = "send" => foreign'.at = "queue" /\ foreign'.msg \in theirs' /\ UpTo(tasks', foreign'.msg)
            /\ \A i \in 1..Len(accepted') : accepted'[i] \in theirs' =>
                 From(tasks', accepted'[i]) /\ (foreign'.op = "send" => accepted'[i] <= foreign'.msg)
            => StreamInv'
<1>1. DOMAIN accepted = 1..Len(accepted) /\ DOMAIN accepted' = 1..Len(accepted')
  OBVIOUS
<1>2. StreamInOrder <=> sent \o outputBuffer_ = accepted /\ Ordered(accepted, theirs)
  BY <1>1, Zenon DEF StreamInOrder, Ordered
<1>3. sent' \o outputBuffer_' = accepted' /\ Ordered(accepted', theirs') => StreamInOrder'
  BY <1>1, Zenon DEF StreamInOrder, Ordered
<1> QED BY <1>2, <1>3, Zenon DEF StreamInv, InTurn, UpTo, From

(* The calls count up. *)
LEMMA Counting ==
  ASSUME NEW n \in Nat, NEW m \in {n, n + 1}
  PROVE  \A S : (S \subseteq 1..n => S \subseteq 1..m) /\ \A i \in 1..n : i \in 1..m
  OBVIOUS

(* A step that neither sends nor takes a message *)
Quiet ==
  /\ accepted' = accepted /\ theirs' = theirs /\ calls' \in {calls, calls + 1}
  /\ sent \o outputBuffer_ = accepted => sent' \o outputBuffer_' = accepted
  /\ \/ tasks' = tasks
     \/ \E t \in TaskType : t.op # "sendInLoop" /\ tasks' = Append(tasks, t)
     \/ tasks # <<>> /\ tasks' = Tail(tasks)
  /\ foreign' = foreign \/ (foreign'.op # "send" /\ (foreign'.at # "none" => foreign'.op \in Ops))

(* Such a step *)
LEMMA QuietStream ==
  ASSUME TypeInv, StreamInv, Quiet, usage' = usage PROVE StreamInv'
<1>1. accepted \in Seq(Messages) /\ tasks \in Seq(TaskType) /\ calls \in Nat /\ Len(accepted) \in Nat
  BY Basics, Bounds, Zenon
<1>2. /\ accepted' = accepted /\ theirs' = theirs /\ calls' \in {calls, calls + 1}
      /\ sent \o outputBuffer_ = accepted => sent' \o outputBuffer_' = accepted
  BY Zenon DEF Quiet
<1>3. /\ sent \o outputBuffer_ = accepted /\ Ordered(accepted, theirs)
      /\ theirs \subseteq 1..calls /\ \A i \in 1..Len(accepted) : accepted[i] \in 1..calls
  BY <1>1, <1>2, StreamIs, Zenon
<1>4. theirs \subseteq 1..(calls') /\ \A i \in 1..Len(accepted) : accepted[i] \in 1..(calls')
  BY <1>1, <1>2, <1>3, Counting, Zenon
<1>5. /\ InTurn(tasks, theirs) => InTurn(tasks', theirs)
      /\ \A m : UpTo(tasks, m) => UpTo(tasks', m)
      /\ \A m : From(tasks, m) => From(tasks', m)
  <2>1. CASE tasks' = tasks
    BY <2>1, Zenon
  <2>2. ASSUME NEW t \in TaskType, t.op # "sendInLoop", tasks' = Append(tasks, t)
        PROVE  /\ InTurn(tasks, theirs) => InTurn(tasks', theirs)
               /\ \A m : UpTo(tasks, m) => UpTo(tasks', m)
               /\ \A m : From(tasks, m) => From(tasks', m)
    BY <1>1, <2>2, Queued, Zenon
  <2>3. CASE tasks # <<>> /\ tasks' = Tail(tasks)
    BY <1>1, <2>3, Dequeued, Zenon
  <2> QED BY <2>1, <2>2, <2>3, Zenon DEF Quiet
<1>6. InTurn(tasks', theirs)
  BY <1>5, Zenon DEF StreamInv
<1>7. foreign'.at # "none" => foreign'.op \in Ops
  BY Zenon DEF StreamInv, Quiet
<1>8. foreign'.op = "send" => foreign' = foreign
  BY Zenon DEF Quiet
<1>9. foreign'.op = "send" => foreign'.at = "queue" /\ foreign'.msg \in theirs /\ UpTo(tasks', foreign'.msg)
  BY <1>5, <1>8, Zenon DEF StreamInv
<1>10. \A i \in 1..Len(accepted) : accepted[i] \in theirs =>
         From(tasks', accepted[i]) /\ (foreign'.op = "send" => accepted[i] <= foreign'.msg)
  BY <1>5, <1>8, Zenon DEF StreamInv
<1> QED BY <1>1, <1>2, <1>3, <1>4, <1>6, <1>7, <1>9, <1>10, StreamIs, Zenon

(* sendInLoop() takes m, which no message of the same thread that the stream has
   follows; q is the rest of the queue. *)
LEMMA SendStream ==
  ASSUME TypeInv, StreamInv, usage' = usage, NEW m \in Messages, NEW q \in Seq(TaskType), SendInLoop(Data(m), q),
         theirs' = theirs, foreign' = foreign, calls' \in {calls, calls + 1}, m \in 1..(calls'),
         InTurn(q, theirs),
         \A x : (UpTo(tasks, x) => UpTo(q, x)) /\ (From(tasks, x) => From(q, x)),
         \A i \in 1..Len(accepted) : (accepted[i] \in theirs <=> m \in theirs) => accepted[i] <= m,
         m \in theirs => From(q, m) /\ (foreign.op = "send" => m <= foreign.msg)
  PROVE  StreamInv'
<1>1. accepted \in Seq(Messages) /\ calls \in Nat /\ Len(accepted) \in Nat /\ MessageSize \in Nat
  <2>1. accepted \in Seq(Messages) /\ calls \in Nat /\ Len(accepted) \in Nat
    BY Basics, Zenon
  <2>2. MessageSize \in Nat
    BY Bounds
  <2> QED BY <2>1, <2>2
<1>2. /\ tasks' = q \/ \E t \in Told : tasks' = Append(q, t)
      /\ accepted' \in Seq(Messages)
      /\ accepted' = accepted \/ accepted' = accepted \o Data(m)
      /\ sent \o outputBuffer_ = accepted => sent' \o outputBuffer_' = accepted'
  BY SendInLoopIs, Zenon
<1>3. /\ sent \o outputBuffer_ = accepted /\ Ordered(accepted, theirs)
      /\ theirs \subseteq 1..calls /\ \A i \in 1..Len(accepted) : accepted[i] \in 1..calls
  BY <1>1, <1>2, StreamIs, Zenon
<1>4. theirs \subseteq 1..(calls') /\ \A i \in 1..Len(accepted) : accepted[i] \in 1..(calls')
  BY <1>1, <1>3, Counting, Zenon
<1>5. InTurn(tasks', theirs) /\ \A x : (UpTo(q, x) => UpTo(tasks', x)) /\ (From(q, x) => From(tasks', x))
  <2>1. ASSUME NEW t \in Told PROVE t \in TaskType /\ t.op # "sendInLoop"
    <3>1. t \in TaskType /\ t.op \in {"writeComplete", "highWaterMark"}
      BY Tasks, Zenon
    <3> QED BY <3>1
  <2>2. CASE tasks' = q
    BY <2>2, Zenon
  <2>3. ASSUME NEW t \in Told, tasks' = Append(q, t)
        PROVE  InTurn(tasks', theirs) /\ \A x : (UpTo(q, x) => UpTo(tasks', x)) /\ (From(q, x) => From(tasks', x))
    BY <2>1, <2>3, Queued, Zenon
  <2> QED BY <1>2, <2>2, <2>3, Zenon
<1>6. \A i \in 1..Len(accepted') : (i \in 1..Len(accepted) /\ accepted'[i] = accepted[i])
                                   \/ (accepted'[i] = m /\ \A j \in 1..Len(accepted) : ~(i < j))
  <2>1. CASE accepted' = accepted
    BY <2>1, Zenon
  <2>2. CASE accepted' = accepted \o Data(m)
    <3> DEFINE d == Data(m)
    <3>1. d \in Seq(Messages) /\ \A i \in 1..Len(d) : d[i] = m
      BY DataIs, Zenon
    <3>2. accepted' = accepted \o d
      BY <2>2
    <3> HIDE DEF d
    <3>3. \A i \in 1..Len(accepted \o d) :
            \/ i \in 1..Len(accepted) /\ (accepted \o d)[i] = accepted[i]
            \/ (accepted \o d)[i] = m /\ \A j \in 1..Len(accepted) : ~(i < j)
      BY <1>1, <3>1, Appended, Zenon
    <3> QED BY <3>2, <3>3, Zenon
  <2> QED BY <1>2, <2>1, <2>2
<1>7. \A i \in 1..Len(accepted') : accepted'[i] \in 1..(calls')
  BY <1>4, <1>6, Zenon
<1>8. m <= m
  BY Bounds
<1>9. Ordered(accepted', theirs)
  <2> SUFFICES ASSUME NEW i \in 1..Len(accepted'), NEW j \in 1..Len(accepted'), i < j,
                      accepted'[i] \in theirs <=> accepted'[j] \in theirs
               PROVE  accepted'[i] <= accepted'[j]
    BY Zenon DEF Ordered
  <2>1. CASE j \in 1..Len(accepted) /\ accepted'[j] = accepted[j]
    <3>1. i \in 1..Len(accepted) /\ accepted'[i] = accepted[i]
      BY <1>6, <2>1, Zenon
    <3> QED BY <1>3, <2>1, <3>1, Zenon DEF Ordered
  <2>2. CASE accepted'[j] = m
    BY <1>6, <1>8, <2>2, Zenon
  <2> QED BY <1>6, <2>1, <2>2, Zenon
<1>10. \A i \in 1..Len(accepted') : accepted'[i] \in theirs =>
         From(tasks', accepted'[i]) /\ (foreign.op = "send" => accepted'[i] <= foreign.msg)
  <2> SUFFICES ASSUME NEW i \in 1..Len(accepted'), accepted'[i] \in theirs
               PROVE  From(tasks', accepted'[i]) /\ (foreign.op = "send" => accepted'[i] <= foreign.msg)
    BY Zenon
  <2>1. CASE accepted'[i] = m
    BY <1>5, <2>1, Zenon
  <2>2. CASE i \in 1..Len(accepted) /\ accepted'[i] = accepted[i]
    <3>1. From(tasks, accepted[i]) /\ (foreign.op = "send" => accepted[i] <= foreign.msg)
      BY <2>2, Zenon DEF StreamInv
    <3> QED BY <1>5, <2>2, <3>1, Zenon
  <2> QED BY <1>6, <2>1, <2>2, Zenon
<1>11. /\ foreign.at # "none" => foreign.op \in Ops
       /\ foreign.op = "send" => foreign.at = "queue" /\ foreign.msg \in theirs /\ UpTo(tasks', foreign.msg)
  BY <1>5, Zenon DEF StreamInv
<1> QED BY <1>1, <1>2, <1>3, <1>4, <1>5, <1>7, <1>9, <1>10, <1>11, StreamIs, Zenon

(* The other thread enters send(). *)
LEMMA ForeignSendStream ==
  ASSUME TypeInv, StreamInv, usage' = usage, ForeignCall("send") PROVE StreamInv'
<1>1. accepted \in Seq(Messages) /\ calls \in Nat
  BY Basics, Bounds, Zenon
<1>2. /\ calls' = calls + 1 /\ theirs' = theirs \cup {calls + 1}
      /\ foreign'.op = "send" /\ foreign'.msg = calls + 1 /\ foreign'.at = "queue"
      /\ UNCHANGED <<conn, tasks, sock, hist>>
  BY Zenon DEF ForeignCall
<1>3. UNCHANGED <<outputBuffer_, tasks, sent, accepted>>
  BY <1>2 DEF conn, sock, hist
<1>4. /\ sent \o outputBuffer_ = accepted /\ Ordered(accepted, theirs)
      /\ theirs \subseteq 1..calls /\ \A i \in 1..Len(accepted) : accepted[i] \in 1..calls
  BY <1>1, <1>3, StreamIs, Zenon
<1>5. \A x \in 1..calls : x \in 1..(calls + 1) /\ x # calls + 1 /\ x <= calls + 1
  BY <1>1
<1>6. calls + 1 \in 1..(calls + 1)
  BY <1>1
<1>7. \A i \in 1..Len(accepted) : /\ accepted[i] \in theirs' <=> accepted[i] \in theirs
                                  /\ accepted[i] \in 1..(calls') /\ accepted[i] <= calls + 1
  BY <1>2, <1>4, <1>5, Zenon
<1>8. theirs' \subseteq 1..(calls') /\ theirs \subseteq theirs' /\ calls + 1 \in theirs'
  BY <1>2, <1>4, <1>5, <1>6, Zenon
<1>9. Ordered(accepted, theirs')
  BY <1>4, <1>7, Zenon DEF Ordered
<1>10. InTurn(tasks, theirs') /\ UpTo(tasks, calls + 1)
  <2>1. InTurn(tasks, theirs)
    BY Zenon DEF StreamInv
  <2>2. InTurn(tasks, theirs')
    BY <1>8, <2>1, Zenon DEF InTurn
  <2>3. UpTo(tasks, calls + 1)
    BY <1>4, <1>5, <2>1, Zenon DEF InTurn, UpTo
  <2> QED BY <2>2, <2>3
<1>11. \A i \in 1..Len(accepted) : accepted[i] \in theirs' => From(tasks, accepted[i])
  BY <1>7, Zenon DEF StreamInv
<1>12. foreign'.op \in Ops
  BY <1>2 DEF Ops
<1> QED BY <1>1, <1>2, <1>3, <1>4, <1>7, <1>8, <1>9, <1>10, <1>11, <1>12, StreamIs, Zenon

(* The functors that are not sendInLoop() *)
LEMMA OtherTasks ==
  \A op \in {"connectDestroyed", "forceCloseInLoop", "writeComplete", "highWaterMark"} :
     Task(op, 0) \in TaskType /\ Task(op, 0).op = op /\ Task(op, 0).op # "sendInLoop"
<1>1. ASSUME NEW op \in {"connectDestroyed", "forceCloseInLoop", "writeComplete", "highWaterMark"}
      PROVE  op \in TaskOps /\ op # "sendInLoop" /\ 0 \in Nat
  BY DEF TaskOps
<1> QED BY <1>1, Tasks, Zenon

(* The stream is untouched when its parts are. *)
LEMMA StillQuiet ==
  ASSUME accepted' = accepted, sent' = sent, outputBuffer_' = outputBuffer_, theirs' = theirs,
         calls' \in {calls, calls + 1},
         \/ tasks' = tasks
         \/ \E t \in TaskType : t.op # "sendInLoop" /\ tasks' = Append(tasks, t)
         \/ tasks # <<>> /\ tasks' = Tail(tasks),
         foreign' = foreign \/ (foreign'.op # "send" /\ (foreign'.at # "none" => foreign'.op \in Ops))
  PROVE  Quiet
  BY Zenon DEF Quiet

(* A functor runs. *)
LEMMA RunTaskStream ==
  ASSUME TypeInv, StreamInv, RunTask, usage' = usage PROVE StreamInv'
<1>1. tasks \in Seq(TaskType) /\ tasks # <<>> /\ UNCHANGED user
  BY Zenon DEF RunTask, TypeInv
<1>2. theirs' = theirs /\ foreign' = foreign /\ calls' = calls
  BY <1>1 DEF user
<1>3. CASE Head(tasks).op = "sendInLoop" /\ SendInLoop(Data(Head(tasks).msg), Tail(tasks))
  <2> DEFINE m == Head(tasks).msg
             q == Tail(tasks)
  <2>1. InTurn(tasks, theirs) /\ theirs \subseteq 1..calls
    BY Zenon DEF StreamInv
  <2>2. q \in Seq(TaskType) /\ InTurn(q, theirs) /\ m \in theirs /\ From(q, m)
    BY <1>1, <1>3, <2>1, Dequeued, Zenon
  <2>3. \A x : (UpTo(tasks, x) => UpTo(q, x) /\ m <= x) /\ (From(tasks, x) => From(q, x) /\ x <= m)
    BY <1>1, <1>3, Dequeued, Zenon
  <2>4. SendInLoop(Data(m), q)
    BY <1>3
  <2> HIDE DEF m, q
  <2>5. m \in Messages /\ m \in 1..(calls') /\ calls' \in {calls, calls + 1}
    BY <1>2, <2>1, <2>2, Zenon DEF TypeInv, TypeOK, Messages
  <2>6. \A i \in 1..Len(accepted) : accepted[i] \in theirs => accepted[i] <= m
    BY <2>3, Zenon DEF StreamInv
  <2>7. foreign.op = "send" => m <= foreign.msg
    BY <2>3, Zenon DEF StreamInv
  <2> QED BY <1>2, <2>2, <2>3, <2>4, <2>5, <2>6, <2>7, SendStream, Zenon
<1>4. CASE tasks' = Tail(tasks) /\ UNCHANGED <<sent, outputBuffer_, accepted>>
  BY <1>1, <1>2, <1>4, StillQuiet, QuietStream
<1> QED
  <2>1. (Head(tasks).op = "sendInLoop" /\ SendInLoop(Data(Head(tasks).msg), Tail(tasks)))
        \/ (tasks' = Tail(tasks) /\ UNCHANGED <<sent, outputBuffer_, accepted>>)
    BY Zenon DEF RunTask, ConnectEstablished, ConnectDestroyed, conn
  <2> QED BY <1>3, <1>4, <2>1

(* A call by user code in the loop thread *)
LEMMA LoopCallStream ==
  ASSUME TypeInv, StreamInv, NEW op \in Ops, LoopCall(op), usage' = usage PROVE StreamInv'
<1>1. /\ tasks \in Seq(TaskType) /\ calls \in Nat /\ calls + 1 \in Messages /\ calls' = calls + 1
      /\ theirs' = theirs /\ foreign' = foreign
  BY Basics, NextCall, Zenon DEF LoopCall, MayCall
<1>2. CASE CallSend
  <2>1. SendInLoop(Data(calls + 1), tasks)
    BY <1>2, Zenon DEF CallSend
  <2>2. theirs \subseteq 1..calls /\ InTurn(tasks, theirs) /\ \A i \in 1..Len(accepted) : accepted[i] \in 1..calls
    BY Zenon DEF StreamInv
  <2>3. calls + 1 \notin 1..calls /\ calls + 1 \in 1..(calls + 1) /\ \A x \in 1..calls : x <= calls + 1
    BY <1>1
  <2>4. calls + 1 \notin theirs /\ \A i \in 1..Len(accepted) : accepted[i] <= calls + 1
    BY <2>2, <2>3, Zenon
  <2>5. calls' \in {calls, calls + 1} /\ calls + 1 \in 1..(calls')
    BY <1>1, <2>3
  <2> QED BY <1>1, <2>1, <2>2, <2>4, <2>5, SendStream, Zenon
<1>3. CASE UNCHANGED <<sent, outputBuffer_, accepted>> /\ (tasks' = tasks \/ Queue("forceCloseInLoop"))
  <2>1. tasks' = tasks \/ \E t \in TaskType : t.op # "sendInLoop" /\ tasks' = Append(tasks, t)
    BY <1>3, OtherTasks, Zenon DEF Queue
  <2> QED BY <1>1, <1>3, <2>1, StillQuiet, QuietStream
<1> QED
  <2>1. CallSend \/ (UNCHANGED <<sent, outputBuffer_, accepted>> /\ (tasks' = tasks \/ Queue("forceCloseInLoop")))
    <3>1. CallSend \/ CallShutdown \/ CallForceClose \/ CallForceCloseWithDelay \/ CallStartRead \/ CallStopRead
      BY Zenon DEF LoopCall, Ops
    <3> QED BY <3>1 DEF CallShutdown, CallForceClose, CallForceCloseWithDelay, CallStartRead, CallStopRead
  <2> QED BY <1>2, <1>3, <2>1

(* The other thread *)
LEMMA ForeignStream ==
  ASSUME TypeInv, StreamInv, usage' = usage, (\E op \in Ops : ForeignCall(op)) \/ ForeignStore \/ ForeignQueue
  PROVE  StreamInv'
<1>1. /\ accepted \in Seq(Messages) /\ tasks \in Seq(TaskType) /\ calls \in Nat
      /\ foreign \in ForeignType /\ foreign.msg \in Nat
  BY Basics, Zenon
<1>2. ASSUME NEW op \in Ops, ForeignCall(op), op # "send" PROVE StreamInv'
  <2>1. UNCHANGED <<outputBuffer_, sent, accepted, tasks, theirs>> /\ calls' = calls + 1 /\ foreign'.op = op
    BY <1>2, Zenon DEF ForeignCall, conn, sock, hist
  <2> QED BY <1>2, <2>1, StillQuiet, QuietStream
<1>3. CASE ForeignStore
  <2>1. UNCHANGED <<outputBuffer_, sent, accepted, tasks, theirs, calls>>
    BY <1>3 DEF ForeignStore, sock, hist
  <2>2. foreign'.op = foreign.op
    BY <1>1, <1>3 DEF ForeignStore, ForeignType
  <2>3. foreign.at = "store" /\ foreign.op \in Ops /\ foreign.op # "send"
    BY <1>3 DEF ForeignStore, StreamInv
  <2> QED BY <2>1, <2>2, <2>3, StillQuiet, QuietStream
<1>4. CASE ForeignQueue
  <2>1. /\ UNCHANGED <<outputBuffer_, sent, accepted, theirs, calls>> /\ foreign' = Idle
        /\ foreign'.op = "none" /\ foreign'.at = "none"
    BY <1>4, IdleIs, Zenon DEF ForeignQueue, conn, sock, hist
  <2>2. foreign.op \in Ops /\ calls' \in {calls, calls + 1}
    BY <1>4, <2>1, Zenon DEF ForeignQueue, StreamInv
  <2>3. CASE tasks' = tasks
    BY <2>1, <2>2, <2>3, StillQuiet, QuietStream
  <2>4. CASE foreign.op # "forceCloseWithDelay" /\ tasks' = Append(tasks, Task(InLoop(foreign.op), foreign.msg))
    <3> DEFINE t == Task(InLoop(foreign.op), foreign.msg)
    <3>1. /\ t \in TaskType /\ t.msg = foreign.msg
          /\ t.op = "sendInLoop" <=> foreign.op = "send"
      <4>1. InLoop(foreign.op) \in TaskOps /\ (InLoop(foreign.op) = "sendInLoop" <=> foreign.op = "send")
        BY <2>2, <2>4, InLoopIs, Zenon
      <4>2. t \in TaskType /\ t.op = InLoop(foreign.op) /\ t.msg = foreign.msg
        BY <1>1, <4>1, Zenon DEF Task, TaskType
      <4> QED BY <4>1, <4>2, Zenon
    <3> HIDE DEF t
    <3>2. tasks' = Append(tasks, t)
      BY <2>4 DEF t
    <3>3. CASE foreign.op # "send"
      BY <2>1, <2>2, <3>1, <3>2, <3>3, StillQuiet, QuietStream, Zenon
    <3>4. CASE foreign.op = "send"
      <4>1. /\ sent \o outputBuffer_ = accepted /\ Ordered(accepted, theirs)
            /\ theirs \subseteq 1..calls /\ \A i \in 1..Len(accepted) : accepted[i] \in 1..calls
        BY <1>1, <2>1, StreamIs, Zenon
      <4>2. /\ InTurn(tasks, theirs) /\ foreign.msg \in theirs /\ UpTo(tasks, foreign.msg)
            /\ \A i \in 1..Len(accepted) : accepted[i] \in theirs =>
                 From(tasks, accepted[i]) /\ accepted[i] <= foreign.msg
        BY <3>4, Zenon DEF StreamInv
      <4>3. InTurn(tasks', theirs)
        BY <1>1, <3>1, <3>2, <4>2, Queued, Zenon
      <4>4. \A i \in 1..Len(accepted) : accepted[i] \in theirs => From(tasks', accepted[i])
        BY <1>1, <3>1, <3>2, <4>2, Queued, Zenon
      <4>5. foreign'.op # "send" /\ foreign'.at = "none"
        BY <2>1
      <4> QED BY <1>1, <2>1, <4>1, <4>3, <4>4, <4>5, StreamIs, Zenon
    <3> QED BY <3>3, <3>4
  <2> QED BY <1>4, <2>3, <2>4, Zenon DEF ForeignQueue
<1> QED BY <1>2, <1>3, <1>4, ForeignSendStream, Zenon

(* At first *)
LEMMA StreamInit == Init => StreamInv
<1> SUFFICES ASSUME Init PROVE StreamInv
  OBVIOUS
<1>1. /\ sent = <<>> /\ outputBuffer_ = <<>> /\ accepted = <<>> /\ theirs = {} /\ foreign = Idle
      /\ tasks = <<Task("connectEstablished", 0)>>
  BY DEF Init
<1>2. tasks[1].op # "sendInLoop" /\ Len(tasks) = 1
  BY <1>1 DEF Task
<1>3. InTurn(tasks, theirs)
  <2>1. \A i \in 1..Len(tasks) : i = 1
    BY <1>2
  <2> QED BY <1>2, <2>1, Zenon DEF InTurn
<1>4. StreamInOrder
  <2>1. sent \o outputBuffer_ = accepted /\ DOMAIN accepted = {}
    BY <1>1
  <2> QED BY <2>1, Zenon DEF StreamInOrder
<1>5. \A i \in 1..Len(accepted) : FALSE
  BY <1>1
<1>6. foreign.op = "none" /\ foreign.at = "none"
  BY <1>1, IdleIs
<1> QED BY <1>1, <1>3, <1>4, <1>5, <1>6 DEF StreamInv

(* Every step keeps the stream. *)
LEMMA StreamStep ==
  ASSUME TypeInv, StreamInv, [Next]_vars PROVE StreamInv'
<1>1. CASE UNCHANGED vars
  <2>1. usage' = usage /\ UNCHANGED <<accepted, sent, outputBuffer_, theirs, calls, tasks, foreign>>
    BY <1>1 DEF vars, conn, sock, user, hist
  <2> QED BY <2>1, StillQuiet, QuietStream
<1> SUFFICES ASSUME Next PROVE StreamInv'
  BY <1>1
<1>2. usage' = usage /\ Step
  BY DEF Next, SameUse
<1>3. CASE HandleWrite
  <2>1. /\ tasks' = tasks \/ \E t \in Told : tasks' = Append(tasks, t)
        /\ sent \o outputBuffer_ = accepted => sent' \o outputBuffer_' = accepted
    BY <1>3, HandleWriteIs, Zenon
  <2>2. accepted' = accepted /\ theirs' = theirs /\ calls' = calls /\ foreign' = foreign
    BY <1>3 DEF HandleWrite, user, hist
  <2>3. \A t \in Told : t \in TaskType /\ t.op # "sendInLoop"
    <3>1. \A t \in Told : t \in TaskType /\ t.op \in {"writeComplete", "highWaterMark"}
      BY Tasks, Zenon
    <3> QED BY <3>1
  <2>4. calls' \in {calls, calls + 1}
    BY <2>2
  <2>5. Quiet
    BY <2>1, <2>2, <2>3, <2>4, Zenon DEF Quiet
  <2> QED BY <1>2, <2>5, QuietStream
<1>4. CASE \/ (\E room \in BOOLEAN : Poll(room)) \/ HandleRead \/ HandleHup \/ HandleError \/ CloseCallback
           \/ RemoveChannel \/ TimerFires \/ RemoveConnectionInLoop \/ DestroyServer
           \/ PeerSends \/ PeerCloses \/ Reset
  <2>1. UNCHANGED <<accepted, sent, outputBuffer_, theirs, calls, foreign>>
    BY <1>4, Zenon DEF Poll, HandleRead, HandleHup, HandleError, CloseCallback, RemoveChannel, TimerFires,
         RemoveConnectionInLoop, DestroyServer, PeerSends, PeerCloses, Reset, conn, sock, user, hist
  <2>2. tasks' = tasks \/ Queue("forceCloseInLoop") \/ Queue("connectDestroyed")
    BY <1>4, Zenon DEF Poll, HandleRead, HandleHup, HandleError, CloseCallback, RemoveChannel, TimerFires,
         RemoveConnectionInLoop, DestroyServer, PeerSends, PeerCloses, Reset
  <2>3. tasks' = tasks \/ \E t \in TaskType : t.op # "sendInLoop" /\ tasks' = Append(tasks, t)
    BY <2>2, OtherTasks, Zenon DEF Queue
  <2> QED BY <1>2, <2>1, <2>3, StillQuiet, QuietStream
<1> QED BY <1>2, <1>3, <1>4, RunTaskStream, LoopCallStream, ForeignStream, Zenon DEF Step, LoopStep

(* For every way of using a connection, the peer gets what sendInLoop() took, in
   order and without holes, and the messages of each thread in the order of its
   calls, however direct writes, buffered writes and queued functors alternate. *)
THEOREM StreamStaysInOrder == Spec => []StreamInOrder
<1>1. Init => TypeInv /\ StreamInv
  BY TypesInit, StreamInit
<1>2. TypeInv /\ StreamInv /\ [Next]_vars => TypeInv' /\ StreamInv'
  BY TypesStep, StreamStep
<1>3. StreamInv => StreamInOrder
  BY Zenon DEF StreamInv
<1> QED BY <1>1, <1>2, <1>3, PTL DEF Spec

-----------------------------------------------------------------------------
(* POLLOUT *)

(* A step that leaves the buffer and the interest in POLLOUT as they are, and
   half-closes the socket only without that interest *)
LEMMA SameAttention ==
  ASSUME Attended, outputBuffer_' = outputBuffer_, isWriting(events') <=> isWriting(events),
         fin' = fin \/ fin' = (fin \/ ~isWriting(events))
  PROVE  Attended'
<1>1. (isWriting(events'))  <=> outputBuffer_' # <<>>
  BY DEF Attended, isWriting
<1>2. fin' => outputBuffer_' = <<>>
  BY Zenon DEF Attended, isWriting
<1> QED BY <1>1, <1>2 DEF Attended, isWriting

(* The interest in reading is not that in writing. *)
LEMMA ReadingMasks ==
  \A e : /\ isWriting(enableReading(e)) <=> isWriting(e)
         /\ isWriting(disableReading(e)) <=> isWriting(e)
  BY DEF isWriting, enableReading, disableReading, kReadEvent, kWriteEvent

(* Before a connection is down, every step keeps OutputAttended. *)
LEMMA AttendedStep ==
  ASSUME TypeInv, StreamInv, OutputAttended, [Next]_vars PROVE OutputAttended'
<1>1. CASE UNCHANGED vars
  BY <1>1 DEF vars, conn, chan, sock, hist, OutputAttended, isWriting
<1> SUFFICES ASSUME Next, downs' = 0 PROVE Attended'
  BY <1>1 DEF OutputAttended, Attended
<1>2. usage' = usage /\ Step /\ downs \in Nat
  BY DEF Next, SameUse, TypeInv
<1>3. downs' # downs + 1
  BY <1>2
<1>4. ASSUME downs' = downs PROVE Attended
  BY <1>4 DEF OutputAttended, Attended
<1>5. ASSUME downs' = downs, outputBuffer_' = outputBuffer_, fin' = fin, events' = events PROVE Attended'
  BY <1>4, <1>5, SameAttention
<1>6. ASSUME ~HandleClose, RunTask PROVE Attended'
  <2>1. CASE Head(tasks).op = "sendInLoop" /\ SendInLoop(Data(Head(tasks).msg), Tail(tasks)) /\ fin' = fin /\ downs' = downs
    <3>1. tasks \in Seq(TaskType) /\ tasks # <<>>
      BY <1>6, Zenon DEF RunTask, TypeInv
    <3>2. Head(tasks).msg \in theirs
      BY <2>1, <3>1, Dequeued, Zenon DEF StreamInv
    <3>3. Head(tasks).msg \in Messages
      BY <3>2, Zenon DEF TypeInv, TypeOK, Messages
    <3> QED BY <1>4, <2>1, <3>3, SendInLoopIs, Zenon
  <2>2. CASE UNCHANGED <<outputBuffer_, downs>> /\ UNCHANGED chan /\ (fin' = fin \/ ShutdownInLoop(events))
    BY <1>4, <2>2, SameAttention DEF ShutdownInLoop, chan
  <2>3. CASE /\ UNCHANGED <<outputBuffer_, downs, fin>>
             /\ UNCHANGED chan \/ Update(enableReading(events)) \/ Update(disableReading(events))
    <3>1. isWriting(events') <=> isWriting(events)
      <4>1. events' = events \/ events' = enableReading(events) \/ events' = disableReading(events)
        BY <2>3 DEF chan, Update
      <4> QED BY <4>1, ReadingMasks
    <3> QED BY <1>4, <2>3, <3>1, SameAttention
  <2> QED BY <1>3, <1>6, <2>1, <2>2, <2>3, Zenon DEF RunTask, ConnectEstablished, ConnectDestroyed, ForceCloseInLoop,
         StartReadInLoop, StopReadInLoop, conn
<1>7. ASSUME NEW op \in Ops, LoopCall(op) PROVE Attended'
  <2>1. downs' = downs
    BY <1>7 DEF LoopCall
  <2>2. CASE CallSend
    <3>1. SendInLoop(Data(calls + 1), tasks) /\ fin' = fin
      BY <2>2, Zenon DEF CallSend
    <3>2. calls + 1 \in Messages
      BY <1>7, NextCall, Zenon DEF LoopCall, MayCall
    <3> QED BY <1>4, <2>1, <3>1, <3>2, SendInLoopIs, Zenon
  <2>3. CASE UNCHANGED outputBuffer_ /\ UNCHANGED chan /\ (fin' = fin \/ ShutdownInLoop(events))
    BY <1>4, <2>1, <2>3, SameAttention DEF ShutdownInLoop, chan
  <2>4. CASE /\ UNCHANGED <<outputBuffer_, fin>>
             /\ UNCHANGED chan \/ Update(enableReading(events)) \/ Update(disableReading(events))
    <3>1. isWriting(events') <=> isWriting(events)
      <4>1. events' = events \/ events' = enableReading(events) \/ events' = disableReading(events)
        BY <2>4 DEF chan, Update
      <4> QED BY <4>1, ReadingMasks
    <3> QED BY <1>4, <2>1, <2>4, <3>1, SameAttention
  <2>5. CallSend \/ CallShutdown \/ CallForceClose \/ CallForceCloseWithDelay \/ CallStartRead \/ CallStopRead
    BY <1>7, Zenon DEF LoopCall, Ops
  <2> QED BY <2>2, <2>3, <2>4, <2>5, Zenon DEF CallShutdown, CallForceClose, CallForceCloseWithDelay, CallStartRead,
         CallStopRead, StartReadInLoop, StopReadInLoop
<1>8. CASE HandleWrite
  <2>1. downs' = downs
    BY <1>8 DEF HandleWrite, hist
  <2> QED BY <1>4, <1>8, <2>1, HandleWriteIs, Zenon
<1>9. CASE HandleClose
  BY <1>3, <1>9 DEF HandleClose
<1>10. ASSUME ~HandleClose,
              \/ (\E room \in BOOLEAN : Poll(room)) \/ HandleRead \/ HandleHup \/ HandleError \/ CloseCallback
              \/ RemoveChannel \/ TimerFires \/ RemoveConnectionInLoop \/ DestroyServer
              \/ PeerSends \/ PeerCloses \/ Reset
              \/ (\E op \in Ops : ForeignCall(op)) \/ ForeignStore \/ ForeignQueue
       PROVE  Attended'
  <2>1. UNCHANGED <<outputBuffer_, downs, fin, events>>
    BY <1>10, Zenon DEF Poll, HandleRead, HandleHup, HandleError, CloseCallback, RemoveChannel, TimerFires,
         RemoveConnectionInLoop, DestroyServer, PeerSends, PeerCloses, Reset, ForeignCall, ForeignStore, ForeignQueue,
         conn, chan, sock, hist
  <2> QED BY <1>5, <2>1
<1> QED BY <1>2, <1>6, <1>7, <1>8, <1>9, <1>10, Zenon DEF Step, LoopStep

(* For every way of using a connection, until it is down the channel asks for
   POLLOUT exactly while outputBuffer_ has something, and the socket is half-closed
   only once outputBuffer_ is empty. *)
THEOREM OutputIsAttended == Spec => []OutputAttended
<1>1. Init => OutputAttended
  BY DEF Init, OutputAttended, isWriting, kNoneEvent, kWriteEvent
<1>2. Init => TypeInv /\ StreamInv
  BY TypesInit, StreamInit
<1>3. TypeInv /\ StreamInv /\ OutputAttended /\ [Next]_vars => TypeInv' /\ StreamInv' /\ OutputAttended'
  BY TypesStep, StreamStep, AttendedStep
<1> QED BY <1>1, <1>2, <1>3, PTL DEF Spec

-----------------------------------------------------------------------------
(* The life of a connection *)

(* The functors its course depends on, and those it does not *)
Special == {"connectEstablished", "connectDestroyed", "startReadInLoop", "stopReadInLoop"}
Harmless == {"sendInLoop", "shutdownInLoop", "forceCloseInLoop", "writeComplete", "highWaterMark"}

(* A step leaves the special functors in the queue as they are. *)
Kept == \A op \in Special : (Without(tasks, op) => Without(tasks', op)) /\ (Once(tasks, op) => Once(tasks', op))

(* What holds in all of an orderly use *)
Common ==
  /\ ~serverGone /\ ~badClose /\ ~badRemove /\ foreign.op \in {"none", "send"} /\ foreign.at # "store"
  /\ Without(tasks, "startReadInLoop") /\ Without(tasks, "stopReadInLoop")

(* A harmless functor is queued. *)
LEMMA QueuedKept ==
  ASSUME NEW q \in Seq(TaskType), NEW r, r = q \/ \E t \in TaskType : t.op \in Harmless /\ r = Append(q, t),
         NEW op \in Special
  PROVE  (Without(q, op) => Without(r, op)) /\ (Once(q, op) => Once(r, op))
<1>1. CASE r = q
  BY <1>1, Zenon
<1>2. ASSUME NEW t \in TaskType, t.op \in Harmless, r = Append(q, t)
      PROVE  (Without(q, op) => Without(r, op)) /\ (Once(q, op) => Once(r, op))
  <2>1. t.op # op
    BY <1>2 DEF Harmless, Special
  <2> QED BY <1>2, <2>1, Queued, Zenon
<1> QED BY <1>1, <1>2, Zenon

(* A harmless functor runs, and may queue another. *)
LEMMA TakenKept ==
  ASSUME tasks \in Seq(TaskType), tasks # <<>>, Head(tasks).op \in Harmless,
         tasks' = Tail(tasks) \/ \E t \in TaskType : t.op \in Harmless /\ tasks' = Append(Tail(tasks), t)
  PROVE  Kept
<1> SUFFICES ASSUME NEW op \in Special
             PROVE  (Without(tasks, op) => Without(tasks', op)) /\ (Once(tasks, op) => Once(tasks', op))
  BY Zenon DEF Kept
<1>1. Head(tasks).op # op
  BY DEF Harmless, Special
<1>2. /\ Tail(tasks) \in Seq(TaskType)
      /\ Without(tasks, op) => Without(Tail(tasks), op)
      /\ Once(tasks, op) => Once(Tail(tasks), op)
  BY <1>1, Dequeued, Zenon
<1> QED BY <1>2, QueuedKept, Zenon

(* The functors told of are harmless. *)
LEMMA ToldIs == \A t \in Told : t \in TaskType /\ t.op \in Harmless
<1>1. \A t \in Told : t \in TaskType /\ t.op \in {"writeComplete", "highWaterMark"}
  BY Tasks, Zenon
<1> QED BY <1>1 DEF Harmless

(* The callbacks that are left *)
LEMMA CallbacksLeft ==
  ASSUME NEW cs \in Seq(CallbackNames), cs # <<>>
  PROVE  /\ AtMostOne(cs) => AtMostOne(Tail(cs)) /\ (Head(cs) \in Closing => Calm(Tail(cs)))
         /\ Calm(cs) => Calm(Tail(cs)) /\ Head(cs) \notin Closing
<1> DEFINE r == Tail(cs)
           n == Len(cs)
<1>1. n \in Nat /\ n # 0 /\ Len(r) = n - 1 /\ Head(cs) = cs[1] /\ \A i \in 1..(n - 1) : r[i] = cs[i + 1]
  BY Rest
<1> HIDE DEF r, n
<1>2. /\ 1 \in 1..n /\ \A i \in 1..(n - 1) : i + 1 \in 1..n /\ 1 < i + 1 /\ i + 1 # 1
      /\ \A i, j \in 1..(n - 1) : (i < j => i + 1 < j + 1) /\ (i + 1 = j + 1 => i = j)
  BY <1>1, Shifted, Zenon
<1>3. ASSUME AtMostOne(cs) PROVE AtMostOne(r)
  <2> SUFFICES ASSUME NEW i \in 1..(n - 1), NEW j \in 1..(n - 1), r[i] \in Closing, r[j] \in Closing PROVE i = j
    BY <1>1, Zenon DEF AtMostOne
  <2>1. i + 1 \in 1..n /\ j + 1 \in 1..n /\ r[i] = cs[i + 1] /\ r[j] = cs[j + 1]
    BY <1>1, <1>2, Zenon
  <2>2. i + 1 = j + 1
    BY <1>3, <2>1, Zenon DEF AtMostOne, n
  <2> QED BY <1>2, <2>2, Zenon
<1>4. \A i \in 1..(n - 1) : \E j \in 1..n : r[i] = cs[j] /\ j # 1
  BY <1>1, <1>2, Zenon
<1>5. ASSUME AtMostOne(cs), Head(cs) \in Closing PROVE Calm(r)
  BY <1>1, <1>2, <1>4, <1>5, Zenon DEF AtMostOne, Calm, n
<1>6. ASSUME Calm(cs) PROVE Calm(r) /\ Head(cs) \notin Closing
  BY <1>1, <1>2, <1>4, <1>6, Zenon DEF Calm, n
<1> QED BY <1>3, <1>5, <1>6, Zenon DEF r

(* Nothing is left. *)
LEMMA NothingLeft ==
  /\ AtMostOne(<<>>) /\ Calm(<<>>) /\ \A op : Without(<<>>, op)
  BY DEF AtMostOne, Calm, Without

(* The steps of an orderly use *)
LEMMA OrderlyStep ==
  ASSUME TypeInv, StreamInv, Orderly, Common, Step
  PROVE  \/ RunTask \/ (\E room \in BOOLEAN : Poll(room)) \/ HandleRead \/ HandleWrite \/ HandleHup \/ HandleError
         \/ CloseCallback \/ RemoveChannel \/ TimerFires
         \/ (\E op \in Ops : LoopCall(op) /\ (CallSend \/ CallShutdown \/ CallForceClose \/ CallForceCloseWithDelay))
         \/ ForeignCall("send")
         \/ ForeignQueue /\ foreign.op = "send"
         \/ RemoveConnectionInLoop
         \/ PeerSends \/ PeerCloses \/ Reset
<1>1. ASSUME NEW op \in Ops, LoopCall(op)
      PROVE  CallSend \/ CallShutdown \/ CallForceClose \/ CallForceCloseWithDelay
  <2>1. op \notin {"startRead", "stopRead"}
    BY <1>1 DEF LoopCall, Orderly
  <2> QED BY <1>1, <2>1, Zenon DEF LoopCall, Ops
<1>2. ASSUME NEW op \in Ops, ForeignCall(op) PROVE op = "send"
  BY <1>2, Zenon DEF ForeignCall, Orderly
<1>3. ~ForeignStore /\ ~DestroyServer
  BY DEF ForeignStore, DestroyServer, Common, Orderly
<1>4. ForeignQueue => foreign.op = "send"
  <2>1. ForeignQueue => foreign.op \in Ops
    BY DEF ForeignQueue, StreamInv
  <2> QED BY <2>1 DEF Common, Ops
<1> QED BY <1>1, <1>2, <1>3, <1>4, Zenon DEF Step, LoopStep

(* What holds in all of it stays. *)
LEMMA CommonKept ==
  ASSUME Common, Kept, ~serverGone', ~badClose', ~badRemove',
         foreign' = foreign \/ foreign' = Idle \/ (foreign'.op = "send" /\ foreign'.at = "queue")
  PROVE  Common'
<1>1. foreign'.op \in {"none", "send"} /\ foreign'.at # "store"
  BY IdleIs DEF Common
<1>2. Without(tasks', "startReadInLoop") /\ Without(tasks', "stopReadInLoop")
  BY DEF Common, Kept, Special
<1> QED BY <1>1, <1>2, Zenon DEF Common, Without

(* A connection that connectEstablished() has yet to reach *)
LEMMA ConnectingStep ==
  ASSUME TypeInv, StreamInv, Orderly, Common, Connecting, Next PROVE Common' /\ (Connecting \/ Opened)'
<1>1. Step
  BY DEF Next
<1>2. /\ state_ = "kConnecting" /\ tasks = <<Task("connectEstablished", 0)>> /\ foreign = Idle /\ delayed = FALSE
      /\ callbacks = <<>> /\ pc = "loop" /\ watched = FALSE /\ events = kNoneEvent
      /\ ups = 0 /\ downs = 0 /\ destroyed = 0 /\ removals = 0 /\ inMap
      /\ foreign.at = "none"
  BY IdleIs, Zenon DEF Connecting, TypeInv, TypeOK
<1>3. RunTask \/ PeerSends \/ PeerCloses \/ Reset
  <2>1. /\ ~(\E room \in BOOLEAN : Poll(room)) /\ ~HandleRead /\ ~HandleWrite /\ ~HandleHup /\ ~HandleError
        /\ ~CloseCallback /\ ~RemoveChannel /\ ~TimerFires
    BY <1>2, Zenon DEF Poll, HandleRead, HandleWrite, HandleHup, HandleError, Dispatches, CloseCallback, RemoveChannel,
         TimerFires
  <2>2. /\ ~ForeignCall("send") /\ ~ForeignQueue /\ ~RemoveConnectionInLoop
        /\ ~(\E op \in Ops : LoopCall(op))
    BY <1>2 DEF ForeignCall, ForeignQueue, RemoveConnectionInLoop, LoopCall, MayCall
  <2> QED BY <1>1, <2>1, <2>2, OrderlyStep, Zenon
<1>4. CASE RunTask
  <2>1. Head(tasks).op = "connectEstablished" /\ Tail(tasks) = <<>>
    BY <1>2 DEF Task
  <2>2. /\ ConnectEstablished /\ tasks' = <<>>
        /\ UNCHANGED <<callbacks, server, user, badRemove>>
    BY <1>4, <2>1, Zenon DEF RunTask
  <2>3. /\ state_' = "kConnected" /\ Update(enableReading(events)) /\ ups' = 1
        /\ UNCHANGED <<pc, downs, destroyed, badClose>>
    BY <1>2, <2>2 DEF ConnectEstablished
  <2>4. watched' /\ isReading(events')
    BY <1>2, <2>3, Zenon DEF Update, isReading, enableReading, kReadEvent
  <2>5. UNCHANGED <<inMap, removals, serverGone, foreign>> /\ callbacks' = <<>>
    BY <1>2, <2>2 DEF server, user
  <2>6. Opened'
    BY <1>2, <2>2, <2>3, <2>4, <2>5, NothingLeft DEF Opened, Open
  <2>7. Common'
    BY <2>2, <2>3, <2>5, NothingLeft DEF Common
  <2> QED BY <2>6, <2>7
<1>5. CASE PeerSends \/ PeerCloses \/ Reset
  <2>1. UNCHANGED <<conn, chan, pc, callbacks, tasks, server, user, hist>>
    BY <1>5, Zenon DEF PeerSends, PeerCloses, Reset
  <2>2. Connecting'
    BY <2>1 DEF Connecting, conn, chan, server, user, hist
  <2>3. Common'
    BY <2>1, Zenon DEF Common, Without, server, user, hist
  <2> QED BY <2>2, <2>3
<1> QED BY <1>3, <1>4, <1>5

(* Masks that keep the interest in reading, and keep the channel watched *)
LEMMA StillWatched ==
  ASSUME watched, isReading(events),
         UNCHANGED chan \/ Update(enableWriting(events)) \/ Update(disableWriting(events))
  PROVE  watched' /\ isReading(events')
<1>1. /\ isReading(enableWriting(events)) /\ enableWriting(events) # kNoneEvent
      /\ isReading(disableWriting(events)) /\ disableWriting(events) # kNoneEvent
  BY DEF isReading, enableWriting, disableWriting, kReadEvent, kWriteEvent, kNoneEvent
<1>2. CASE UNCHANGED chan
  BY <1>2 DEF chan, isReading
<1>3. ASSUME NEW e, Update(e), isReading(e), e # kNoneEvent PROVE watched' /\ isReading(events')
  <2>1. watched' /\ events' = e
    BY <1>3, UpdateIs
  <2> QED BY <1>3, <2>1 DEF isReading
<1> QED BY <1>1, <1>2, <1>3

(* An open connection *)
LEMMA OpenedStep ==
  ASSUME TypeInv, StreamInv, Orderly, Common, Opened, Next PROVE Common' /\ (Opened \/ Closed)'
<1>1. Step
  BY DEF Next
<1>2. /\ Open /\ ups = 1 /\ downs = 0 /\ destroyed = 0 /\ removals = 0 /\ inMap
      /\ pc = "loop" /\ AtMostOne(callbacks) /\ watched /\ isReading(events)
      /\ Without(tasks, "connectEstablished") /\ Without(tasks, "connectDestroyed")
  BY Zenon DEF Opened
<1>3. tasks \in Seq(TaskType) /\ callbacks \in Seq(CallbackNames)
  BY Zenon DEF TypeInv
<1>4. ASSUME Kept, state_' \in {state_, "kDisconnecting"}, AtMostOne(callbacks'), watched', isReading(events'),
             UNCHANGED <<ups, downs, destroyed, removals, inMap, pc, serverGone, badClose, badRemove>>,
             foreign' = foreign \/ foreign' = Idle \/ (foreign'.op = "send" /\ foreign'.at = "queue")
      PROVE  Common' /\ Opened'
  <2>1. ~serverGone' /\ ~badClose' /\ ~badRemove'
    BY <1>4 DEF Common
  <2>1a. Common'
    BY <1>4, <2>1, CommonKept, Zenon
  <2>2. Without(tasks', "connectEstablished") /\ Without(tasks', "connectDestroyed")
    BY <1>2, <1>4 DEF Kept, Special
  <2>3. state_' \in {"kConnected", "kDisconnecting"}
    BY <1>2, <1>4 DEF Open
  <2>4. Opened'
    BY <1>2, <1>4, <2>2, <2>3, Zenon DEF Opened, Open
  <2> QED BY <2>1a, <2>4
<1>5. ASSUME Kept, HandleClose, Calm(callbacks'),
             UNCHANGED <<ups, destroyed, removals, inMap, serverGone, badRemove, foreign>>
      PROVE  Common' /\ Closed'
  <2>1. /\ state_' = "kDisconnected" /\ pc' = "closing" /\ downs' = 1
        /\ events' = kNoneEvent /\ ~watched' /\ ~badClose'
    <3>1. downs' = downs + 1 /\ watched' = ~watched /\ badClose' = (badClose \/ ~Open)
      BY <1>5, HandleCloseIs, Zenon
    <3>2. ~badClose'
      BY <1>2, <3>1, Zenon DEF Common
    <3>3. ~watched'
      BY <1>2, <3>1, Zenon
    <3>4. downs' = 1
      BY <1>2, <3>1
    <3> QED BY <1>5, <3>2, <3>3, <3>4, HandleCloseIs, Zenon
  <2>2. Common'
    BY <1>5, <2>1, CommonKept, Zenon DEF Common
  <2>3. Without(tasks', "connectEstablished") /\ Without(tasks', "connectDestroyed")
    BY <1>2, <1>5 DEF Kept, Special
  <2>4. Leaving'
    BY <1>2, <1>5, <2>1, <2>3 DEF Leaving
  <2>5. Closed'
    BY <1>2, <1>5, <2>1, <2>3, <2>4 DEF Closed
  <2> QED BY <2>2, <2>5
<1>6. ASSUME tasks' = tasks \/ \E t \in TaskType : t.op \in Harmless /\ tasks' = Append(tasks, t) PROVE Kept
  BY <1>3, <1>6, QueuedKept, Zenon DEF Kept
<1>7. CASE RunTask
  <2>1. /\ tasks # <<>> /\ callbacks = <<>>
        /\ UNCHANGED <<callbacks, inMap, removals, serverGone, foreign, badRemove>>
    BY <1>7, Zenon DEF RunTask, InLoopIteration, server, user
  <2>2. AtMostOne(callbacks') /\ Calm(callbacks')
    BY <2>1, NothingLeft
  <2>3. Head(tasks).op \in Harmless
    <3>1. Head(tasks).op \notin Special
      BY <1>2, <1>3, <2>1, Dequeued, Zenon DEF Special, Common
    <3>2. Head(tasks) \in TaskType
      BY <1>3, <2>1, Dequeued, Zenon
    <3> QED BY <3>1, <3>2 DEF TaskType, TaskOps, Special, Harmless
  <2>4. CASE /\ tasks' = Tail(tasks)
             /\ UNCHANGED <<state_, chan, pc, ups, downs, destroyed, badClose>>
    BY <1>2, <1>3, <1>4, <2>1, <2>2, <2>3, <2>4, TakenKept, StillWatched, Zenon
  <2>5. CASE /\ tasks' = Tail(tasks) /\ HandleClose
             /\ UNCHANGED <<ups, destroyed>>
    BY <1>3, <1>5, <2>1, <2>2, <2>3, <2>5, TakenKept, Zenon
  <2>6. CASE /\ Head(tasks).op = "sendInLoop" /\ SendInLoop(Data(Head(tasks).msg), Tail(tasks))
             /\ UNCHANGED <<pc, state_, ups, downs, destroyed, badClose>>
    <3>1. Head(tasks).msg \in theirs
      BY <1>3, <2>1, <2>6, Dequeued, Zenon DEF StreamInv
    <3>2. Head(tasks).msg \in Messages
      BY <3>1, Zenon DEF TypeInv, TypeOK, Messages
    <3>3. /\ tasks' = Tail(tasks) \/ \E t \in Told : tasks' = Append(Tail(tasks), t)
          /\ UNCHANGED chan \/ Update(enableWriting(events))
      BY <2>6, <3>2, SendInLoopIs, Zenon
    <3>4. Kept
      BY <1>3, <2>1, <2>3, <3>3, ToldIs, TakenKept, Zenon
    <3>5. watched' /\ isReading(events')
      BY <1>2, <3>3, StillWatched, Zenon
    <3> QED BY <1>4, <2>1, <2>2, <2>6, <3>4, <3>5, Zenon
  <2>7. \/ /\ tasks' = Tail(tasks)
           /\ UNCHANGED <<state_, chan, pc, ups, downs, destroyed, badClose>>
        \/ /\ tasks' = Tail(tasks) /\ HandleClose
           /\ UNCHANGED <<ups, destroyed>>
        \/ /\ Head(tasks).op = "sendInLoop" /\ SendInLoop(Data(Head(tasks).msg), Tail(tasks))
           /\ UNCHANGED <<pc, state_, ups, downs, destroyed, badClose>>
    BY <1>7, <2>3, Zenon DEF RunTask, Harmless, ForceCloseInLoop, conn
  <2> QED BY <2>4, <2>5, <2>6, <2>7, Zenon
<1>8. ASSUME NEW room \in BOOLEAN, Poll(room) PROVE Common' /\ Opened'
  <2>1. AtMostOne(callbacks')
    BY <1>8, HandleEventIs, Zenon DEF Poll
  <2>2. UNCHANGED <<state_, events, watched, pc, tasks, inMap, removals, serverGone, foreign, ups, downs, destroyed,
                    badClose, badRemove>>
    BY <1>8 DEF Poll, conn, chan, server, user, hist
  <2>3. isReading(events')
    BY <1>2, <2>2 DEF isReading
  <2> QED BY <1>2, <1>4, <1>6, <2>1, <2>2, <2>3, Zenon
<1>9. CASE HandleRead \/ HandleHup
  <2>1. /\ callbacks # <<>> /\ Head(callbacks) \in Closing /\ callbacks' = Tail(callbacks)
        /\ UNCHANGED <<tasks, inMap, removals, serverGone, foreign, ups, destroyed, badRemove>>
        /\ HandleClose \/ UNCHANGED <<pc, state_, chan, downs, badClose>>
    BY <1>9, Zenon DEF HandleRead, HandleHup, Dispatches, Closing, server, user
  <2>2. AtMostOne(callbacks') /\ Calm(callbacks')
    BY <1>2, <1>3, <2>1, CallbacksLeft, Zenon
  <2>3. CASE HandleClose
    BY <1>5, <1>6, <2>1, <2>2, <2>3
  <2>4. CASE UNCHANGED <<pc, state_, chan, downs, badClose>>
    BY <1>2, <1>4, <1>6, <2>1, <2>2, <2>4, StillWatched, Zenon
  <2> QED BY <2>1, <2>3, <2>4
<1>10. CASE HandleWrite \/ HandleError
  <2>1. /\ callbacks # <<>> /\ callbacks' = Tail(callbacks)
        /\ UNCHANGED <<state_, pc, inMap, removals, serverGone, foreign, ups, downs, destroyed, badClose, badRemove>>
    BY <1>10, Zenon DEF HandleWrite, HandleError, Dispatches, conn, server, user, hist
  <2>2. AtMostOne(callbacks')
    BY <1>2, <1>3, <2>1, CallbacksLeft, Zenon
  <2>3. /\ tasks' = tasks \/ \E t \in Told : tasks' = Append(tasks, t)
        /\ UNCHANGED chan \/ Update(disableWriting(events))
    <3>1. CASE HandleWrite
      BY <3>1, HandleWriteIs, Zenon
    <3>2. CASE HandleError
      BY <3>2 DEF HandleError
    <3> QED BY <1>10, <3>1, <3>2
  <2>4. Kept
    BY <1>6, <2>3, ToldIs, Zenon
  <2>5. watched' /\ isReading(events')
    BY <1>2, <2>3, StillWatched, Zenon
  <2> QED BY <1>4, <2>1, <2>2, <2>4, <2>5
<1>11. CASE \/ TimerFires
            \/ \E op \in Ops : LoopCall(op) /\ (CallShutdown \/ CallForceClose \/ CallForceCloseWithDelay)
  <2>1. /\ state_' \in {state_, "kDisconnecting"} /\ (tasks' = tasks \/ Queue("forceCloseInLoop"))
        /\ UNCHANGED <<chan, callbacks, pc, inMap, removals, serverGone, foreign, ups, downs, destroyed, badClose,
                       badRemove>>
    <3>1. CASE TimerFires
      BY <3>1 DEF TimerFires, server, hist
    <3>2. ASSUME NEW op \in Ops, LoopCall(op), CallShutdown \/ CallForceClose \/ CallForceCloseWithDelay
          PROVE  /\ state_' \in {state_, "kDisconnecting"} /\ (tasks' = tasks \/ Queue("forceCloseInLoop"))
                 /\ UNCHANGED <<chan, callbacks, pc, inMap, removals, serverGone, foreign, ups, downs, destroyed,
                                badClose, badRemove>>
      BY <3>2 DEF LoopCall, CallShutdown, CallForceClose, CallForceCloseWithDelay, server
    <3> QED BY <1>11, <3>1, <3>2, Zenon
  <2>2. Kept
    <3>1. "forceCloseInLoop" \in Harmless
      BY DEF Harmless
    <3> QED BY <1>6, <2>1, <3>1, OtherTasks DEF Queue
  <2>3. watched' /\ isReading(events')
    BY <1>2, <2>1, StillWatched
  <2>4. AtMostOne(callbacks')
    BY <1>2, <2>1
  <2> QED BY <1>4, <2>1, <2>2, <2>3, <2>4, Zenon
<1>12. ASSUME NEW op \in Ops, LoopCall(op), CallSend PROVE Common' /\ Opened'
  <2>1. /\ SendInLoop(Data(calls + 1), tasks)
        /\ UNCHANGED <<state_, callbacks, pc, inMap, removals, serverGone, foreign, ups, downs, destroyed, badClose,
                       badRemove>>
    BY <1>12 DEF LoopCall, CallSend, server
  <2>2. calls + 1 \in Messages
    BY <1>12, NextCall, Zenon DEF LoopCall, MayCall
  <2>3. /\ tasks' = tasks \/ \E t \in Told : tasks' = Append(tasks, t)
        /\ UNCHANGED chan \/ Update(enableWriting(events))
    BY <2>1, <2>2, SendInLoopIs, Zenon
  <2>4. Kept
    BY <1>6, <2>3, ToldIs, Zenon
  <2>5. watched' /\ isReading(events')
    BY <1>2, <2>3, StillWatched, Zenon
  <2> QED BY <1>2, <1>4, <2>1, <2>4, <2>5, Zenon
<1>13. CASE ForeignCall("send") \/ (ForeignQueue /\ foreign.op = "send") \/ PeerSends \/ PeerCloses \/ Reset
  <2>1. UNCHANGED <<state_, chan, callbacks, pc, inMap, removals, serverGone, ups, downs, destroyed, badClose, badRemove>>
    BY <1>13, Zenon DEF ForeignCall, ForeignQueue, PeerSends, PeerCloses, Reset, conn, server, hist
  <2>2. foreign' = foreign \/ foreign' = Idle \/ (foreign'.op = "send" /\ foreign'.at = "queue")
    <3>1. CASE ForeignCall("send")
      BY <3>1, Zenon DEF ForeignCall
    <3>2. CASE ForeignQueue
      BY <3>2, Zenon DEF ForeignQueue
    <3>3. CASE PeerSends \/ PeerCloses \/ Reset
      BY <3>3 DEF PeerSends, PeerCloses, Reset, user
    <3> QED BY <1>13, <3>1, <3>2, <3>3, Zenon
  <2>3. tasks' = tasks \/ tasks' = Append(tasks, Task("sendInLoop", foreign.msg))
    <3>1. InLoop("send") = "sendInLoop"
      BY Zenon DEF InLoop
    <3> QED BY <1>13, <3>1, Zenon DEF ForeignCall, ForeignQueue, PeerSends, PeerCloses, Reset
  <2>4. Task("sendInLoop", foreign.msg) \in TaskType /\ Task("sendInLoop", foreign.msg).op \in Harmless
    <3>1. foreign.msg \in Nat
      BY DEF TypeInv, ForeignType
    <3> QED BY <3>1, Zenon DEF Task, TaskType, TaskOps, Harmless
  <2>5. Kept
    BY <1>6, <2>3, <2>4, Zenon
  <2>6. watched' /\ isReading(events')
    BY <1>2, <2>1, StillWatched
  <2> QED BY <1>2, <1>4, <2>1, <2>2, <2>5, <2>6, Zenon
<1>14. ~CloseCallback /\ ~RemoveChannel /\ ~RemoveConnectionInLoop
  <2>1. pc # "closing" /\ pc # "destroying" /\ ~(removals > 0)
    BY <1>2
  <2> QED BY <2>1, Zenon DEF CloseCallback, RemoveChannel, RemoveConnectionInLoop
<1> QED BY <1>1, <1>7, <1>8, <1>9, <1>10, <1>11, <1>12, <1>13, <1>14, OrderlyStep, Zenon

(* A closed connection *)
LEMMA ClosedStep ==
  ASSUME TypeInv, StreamInv, Orderly, Common, Closed, Next PROVE Common' /\ Closed'
<1>1. Step
  BY DEF Next
<1>2. /\ state_ = "kDisconnected" /\ ups = 1 /\ downs = 1
      /\ Calm(callbacks) /\ ~watched /\ events = kNoneEvent
      /\ Without(tasks, "connectEstablished") /\ Leaving
  BY Zenon DEF Closed
<1>3. tasks \in Seq(TaskType) /\ callbacks \in Seq(CallbackNames)
  BY Zenon DEF TypeInv
<1>4. ~Open
  BY <1>2 DEF Open
<1>5. ASSUME UNCHANGED <<state_, ups, downs, events, serverGone, badClose, badRemove>>, Calm(callbacks'), ~watched',
             foreign' = foreign \/ foreign' = Idle, Without(tasks', "connectEstablished"),
             Without(tasks', "startReadInLoop") /\ Without(tasks', "stopReadInLoop"), Leaving'
      PROVE  Common' /\ Closed'
  <2>1. foreign'.op \in {"none", "send"} /\ foreign'.at # "store"
    BY <1>5, IdleIs DEF Common
  <2>2. Common'
    BY <1>5, <2>1 DEF Common
  <2>3. Closed'
    BY <1>2, <1>5, Zenon DEF Closed
  <2> QED BY <2>2, <2>3
<1>6. ASSUME Kept, Calm(callbacks'),
             UNCHANGED <<state_, ups, downs, events, watched, serverGone, badClose, badRemove, pc, removals, inMap,
                         destroyed>>,
             foreign' = foreign \/ foreign' = Idle
      PROVE  Common' /\ Closed'
  <2>1. /\ Without(tasks', "connectEstablished")
        /\ Without(tasks', "startReadInLoop") /\ Without(tasks', "stopReadInLoop")
    BY <1>2, <1>6 DEF Kept, Special, Common
  <2>2. /\ Without(tasks, "connectDestroyed") => Without(tasks', "connectDestroyed")
        /\ Once(tasks, "connectDestroyed") => Once(tasks', "connectDestroyed")
    BY <1>6 DEF Kept, Special
  <2>3. Leaving'
    BY <1>2, <1>6, <2>2, Zenon DEF Leaving
  <2> QED BY <1>2, <1>5, <1>6, <2>1, <2>3, Zenon
<1>7. CASE RunTask
  <2>1. /\ tasks # <<>> /\ pc = "loop"
        /\ UNCHANGED <<callbacks, inMap, removals, serverGone, foreign, badRemove>>
    BY <1>7, Zenon DEF RunTask, InLoopIteration, server, user
  <2>2. Head(tasks).op \in Harmless \cup {"connectDestroyed"}
    <3>1. Head(tasks).op \notin Special \ {"connectDestroyed"}
      BY <1>2, <1>3, <2>1, Dequeued, Zenon DEF Special, Common
    <3>2. Head(tasks) \in TaskType
      BY <1>3, <2>1, Dequeued, Zenon
    <3> QED BY <3>1, <3>2 DEF TaskType, TaskOps, Special, Harmless
  <2>3. Calm(callbacks')
    BY <1>2, <2>1
  <2>4. CASE Head(tasks).op \in Harmless
    <3>1. \/ tasks' = Tail(tasks) /\ UNCHANGED <<state_, chan, pc, ups, downs, destroyed, badClose>>
          \/ /\ Head(tasks).op = "sendInLoop" /\ SendInLoop(Data(Head(tasks).msg), Tail(tasks))
             /\ UNCHANGED <<pc, state_, ups, downs, destroyed, badClose>>
      BY <1>4, <1>7, <2>4, Zenon DEF RunTask, Harmless, ForceCloseInLoop, conn
    <3>2. /\ UNCHANGED <<state_, chan, pc, ups, downs, destroyed, badClose>>
          /\ tasks' = Tail(tasks) \/ \E t \in Told : tasks' = Append(Tail(tasks), t)
      <4>1. CASE /\ Head(tasks).op = "sendInLoop" /\ SendInLoop(Data(Head(tasks).msg), Tail(tasks))
                 /\ UNCHANGED <<pc, state_, ups, downs, destroyed, badClose>>
        BY <1>2, <4>1, Zenon DEF SendInLoop
      <4> QED BY <3>1, <4>1, Zenon
    <3>3. Kept
      BY <1>3, <2>1, <2>4, <3>2, ToldIs, TakenKept, Zenon
    <3> QED BY <1>6, <2>1, <2>3, <3>2, <3>3, Zenon DEF chan
  <2>5. CASE Head(tasks).op = "connectDestroyed"
    <3>1. ConnectDestroyed /\ tasks' = Tail(tasks)
      BY <1>7, <2>5, Zenon DEF RunTask
    <3>2. UNCHANGED <<state_, chan, downs, ups, badClose>> /\ pc' = "destroying" /\ destroyed' = destroyed + 1
      BY <1>2, <3>1 DEF ConnectDestroyed
    <3>3. Once(tasks, "connectDestroyed") /\ removals = 0 /\ destroyed = 0
      <4>1. ~Without(tasks, "connectDestroyed")
        BY <1>3, <2>1, <2>5, Dequeued, Zenon
      <4> QED BY <1>2, <2>1, <4>1 DEF Leaving
    <3>4. /\ Without(tasks', "connectDestroyed") /\ Without(tasks', "connectEstablished")
          /\ Without(tasks', "startReadInLoop") /\ Without(tasks', "stopReadInLoop")
      BY <1>2, <1>3, <2>1, <2>5, <3>1, <3>3, Dequeued, Zenon DEF Common
    <3>5. Leaving'
      BY <2>1, <3>2, <3>3, <3>4 DEF Leaving
    <3> QED BY <1>2, <1>5, <2>1, <2>3, <3>2, <3>4, <3>5, Zenon DEF chan
  <2> QED BY <2>2, <2>4, <2>5
<1>8. CASE HandleWrite \/ HandleError
  <2>1. /\ callbacks # <<>> /\ callbacks' = Tail(callbacks)
        /\ UNCHANGED <<state_, pc, inMap, removals, serverGone, foreign, ups, downs, destroyed, badClose, badRemove>>
    BY <1>8, Zenon DEF HandleWrite, HandleError, Dispatches, conn, server, user, hist
  <2>2. Calm(callbacks')
    BY <1>2, <1>3, <2>1, CallbacksLeft, Zenon
  <2>3. ~isWriting(events)
    BY <1>2 DEF isWriting, kNoneEvent, kWriteEvent
  <2>4. UNCHANGED <<tasks, chan>>
    BY <1>8, <2>3 DEF HandleWrite, HandleError
  <2>5. Kept
    BY <2>4, Zenon DEF Kept
  <2> QED BY <1>6, <2>1, <2>2, <2>4, <2>5 DEF chan
<1>9. ~HandleRead /\ ~HandleHup
  <2>1. callbacks # <<>> => Head(callbacks) \notin Closing
    BY <1>2, <1>3, CallbacksLeft, Zenon
  <2> QED BY <2>1 DEF HandleRead, HandleHup, Dispatches, Closing
<1>10. CASE CloseCallback
  <2>1. /\ pc = "closing" /\ pc' = "loop" /\ removals' = removals + 1
        /\ UNCHANGED <<conn, chan, callbacks, tasks, inMap, serverGone, foreign, ups, downs, destroyed, badClose, badRemove>>
    BY <1>10 DEF CloseCallback, Common, user, hist
  <2>2. removals = 0 /\ inMap /\ Without(tasks, "connectDestroyed") /\ destroyed = 0
    BY <1>2, <2>1 DEF Leaving
  <2>3. Leaving'
    BY <2>1, <2>2 DEF Leaving
  <2>4. /\ Without(tasks', "connectEstablished") /\ Calm(callbacks')
        /\ Without(tasks', "startReadInLoop") /\ Without(tasks', "stopReadInLoop")
    BY <1>2, <2>1 DEF Common
  <2> QED BY <1>2, <1>5, <2>1, <2>3, <2>4, Zenon DEF conn, chan
<1>11. CASE RemoveChannel
  <2>1. /\ pc = "destroying" /\ pc' = "loop" /\ watched' = FALSE /\ badRemove' = (badRemove \/ events # kNoneEvent)
        /\ UNCHANGED <<conn, events, callbacks, tasks, inMap, removals, serverGone, foreign, ups, downs, destroyed,
                       badClose>>
    BY <1>11 DEF RemoveChannel, server, user
  <2>2. ~badRemove'
    BY <1>2, <2>1, Zenon DEF Common
  <2>3. removals = 0 /\ Without(tasks, "connectDestroyed") /\ destroyed = 1
    BY <1>2, <2>1 DEF Leaving
  <2>4. Leaving'
    BY <2>1, <2>3 DEF Leaving
  <2>5. Common'
    BY <2>1, <2>2 DEF Common
  <2>6. Closed'
    BY <1>2, <2>1, <2>4 DEF Closed, conn
  <2> QED BY <2>5, <2>6
<1>12. CASE TimerFires \/ PeerSends \/ PeerCloses \/ Reset
  <2>1. UNCHANGED <<conn, chan, callbacks, tasks, pc, inMap, removals, serverGone, foreign, ups, downs, destroyed,
                    badClose, badRemove>>
    BY <1>4, <1>12, Zenon DEF TimerFires, PeerSends, PeerCloses, Reset, conn, server, user, hist
  <2>2. Kept /\ Calm(callbacks')
    BY <1>2, <2>1 DEF Kept
  <2> QED BY <1>6, <2>1, <2>2 DEF conn, chan
<1>13. CASE ForeignQueue /\ foreign.op = "send"
  <2>1. /\ foreign' = Idle /\ tasks' = Append(tasks, Task("sendInLoop", foreign.msg))
        /\ UNCHANGED <<conn, chan, pc, callbacks, server, hist>>
    <3>1. InLoop("send") = "sendInLoop"
      BY Zenon DEF InLoop
    <3> QED BY <1>13, <3>1 DEF ForeignQueue
  <2>2. Task("sendInLoop", foreign.msg) \in TaskType /\ Task("sendInLoop", foreign.msg).op \in Harmless
    <3>1. foreign.msg \in Nat
      BY DEF TypeInv, ForeignType
    <3> QED BY <3>1 DEF Task, TaskType, TaskOps, Harmless
  <2>3. Kept
    <3>1. \E t \in TaskType : t.op \in Harmless /\ tasks' = Append(tasks, t)
      BY <2>1, <2>2, Zenon
    <3> QED BY <1>3, <3>1, QueuedKept, Zenon DEF Kept
  <2>4. Calm(callbacks')
    BY <1>2, <2>1
  <2> QED BY <1>6, <2>1, <2>3, <2>4 DEF conn, chan, server, hist
<1>14. CASE RemoveConnectionInLoop
  <2>1. /\ removals > 0 /\ removals' = removals - 1 /\ inMap' = FALSE
        /\ tasks' = Append(tasks, Task("connectDestroyed", 0))
        /\ UNCHANGED <<conn, chan, pc, callbacks, serverGone, foreign, ups, downs, destroyed, badClose, badRemove>>
    BY <1>14 DEF RemoveConnectionInLoop, Queue, user, hist
  <2>2. pc = "loop" /\ removals = 1 /\ Without(tasks, "connectDestroyed") /\ destroyed = 0
    BY <1>2, <2>1 DEF Leaving
  <2>3. Task("connectDestroyed", 0) \in TaskType /\ Task("connectDestroyed", 0).op = "connectDestroyed"
    BY OtherTasks
  <2>4. /\ Once(tasks', "connectDestroyed") /\ Without(tasks', "connectEstablished")
        /\ Without(tasks', "startReadInLoop") /\ Without(tasks', "stopReadInLoop")
    BY <1>2, <1>3, <2>1, <2>2, <2>3, Queued, Zenon DEF Common
  <2>5. Leaving'
    BY <2>1, <2>2, <2>4 DEF Leaving
  <2>6. Calm(callbacks')
    BY <1>2, <2>1
  <2> QED BY <1>2, <1>5, <2>1, <2>4, <2>5, <2>6, Zenon DEF conn, chan
<1>15. /\ ~(\E room \in BOOLEAN : Poll(room)) /\ ~ForeignCall("send")
       /\ ~(CallSend \/ CallShutdown \/ CallForceClose \/ CallForceCloseWithDelay)
  BY <1>2, <1>4, Zenon DEF Poll, ForeignCall, Checked, CallSend, CallShutdown, CallForceClose, CallForceCloseWithDelay
<1> QED BY <1>1, <1>7, <1>8, <1>9, <1>10, <1>11, <1>12, <1>13, <1>14, <1>15, OrderlyStep, Zenon

(* Every step of an orderly use keeps the course of a connection. *)
LEMMA LifeStep ==
  ASSUME TypeInv, StreamInv, LifeInv, [Next]_vars PROVE LifeInv'
<1>1. usage' = usage
  BY DEF Next, SameUse, vars
<1>2. Orderly' <=> Orderly
  BY <1>1 DEF Orderly
<1> SUFFICES ASSUME Orderly PROVE Common' /\ (Connecting' \/ Opened' \/ Closed')
  BY <1>2, Zenon DEF LifeInv, Common, Without
<1>3. Common /\ (Connecting \/ Opened \/ Closed)
  BY Zenon DEF LifeInv, Common
<1>4. CASE UNCHANGED vars
  BY <1>3, <1>4, Zenon DEF vars, conn, chan, server, user, hist, Common, Connecting, Opened, Closed, Leaving, Open
<1>5. CASE Next
  BY <1>3, <1>5, ConnectingStep, OpenedStep, ClosedStep, Zenon
<1> QED BY <1>4, <1>5

(* For every orderly use, no assert of handleClose(), removeConnectionInLoop(),
   Channel::remove() and ~TcpConnection() fails, connectDestroyed() is called once,
   and the user is told once of the connection going up and once of it going down. *)
THEOREM OrderlyUseIsSafe == Spec => []AssertsHold
<1>1. Init => TypeInv /\ StreamInv
  BY TypesInit, StreamInit
<1>2. Init => LifeInv
  <2> SUFFICES ASSUME Init PROVE Common /\ Connecting
    BY Zenon DEF LifeInv, Common
  <2>1. Connecting
    BY DEF Init, Connecting
  <2>2. Common
    BY IdleIs DEF Init, Common, Without, Task
  <2> QED BY <2>1, <2>2
<1>3. TypeInv /\ StreamInv /\ LifeInv /\ [Next]_vars => TypeInv' /\ StreamInv' /\ LifeInv'
  BY TypesStep, StreamStep, LifeStep
<1>4. TypeInv /\ LifeInv => AssertsHold
  <2> SUFFICES ASSUME TypeInv, LifeInv, Orderly
               PROVE  /\ TypeOK /\ ErasesItsEntry /\ ClosesOpenConnection /\ RemovesIgnoredChannel
                      /\ DisconnectedAtEnd /\ ConnectDestroyedOnce /\ UpOnceDownOnce
    BY Zenon DEF AssertsHold
  <2>1. Common /\ (Connecting \/ Opened \/ Closed)
    BY Zenon DEF LifeInv, Common
  <2>2. TypeOK /\ ClosesOpenConnection /\ RemovesIgnoredChannel
    BY <2>1 DEF TypeInv, Common, ClosesOpenConnection, RemovesIgnoredChannel
  <2>3. /\ destroyed \in {0, 1} /\ (destroyed = 1 => state_ = "kDisconnected")
        /\ removals \in {0, 1} /\ (removals = 1 => inMap)
        /\ (ups = 0 /\ downs = 0 /\ destroyed = 0) \/ (ups = 1 /\ downs = 0 /\ destroyed = 0) \/ (ups = 1 /\ downs = 1)
    <3>1. CASE Connecting
      BY <3>1 DEF Connecting
    <3>2. CASE Opened
      BY <3>2 DEF Opened
    <3>3. CASE Closed
      BY <3>3 DEF Closed, Leaving
    <3> QED BY <2>1, <3>1, <3>2, <3>3, Zenon
  <2>4. ErasesItsEntry /\ ConnectDestroyedOnce /\ DisconnectedAtEnd /\ UpOnceDownOnce
    BY <2>3 DEF ErasesItsEntry, ConnectDestroyedOnce, DisconnectedAtEnd, UpOnceDownOnce
  <2> QED BY <2>2, <2>3, <2>4
<1> QED BY <1>1, <1>2, <1>3, <1>4, PTL DEF Spec
===============================================================================

----------------------------- MODULE BufferProofs -----------------------------
(***************************************************************************)
(* Buffer keeps its indices in order and its content intact, for all sizes,    *)
(* bytes and sequences of operations.                                          *)
(***************************************************************************)
EXTENDS Buffer, SequenceTheorems, TLAPS

(* The fields of B have their types and the indices are in order. *)
InOrder(B) ==
  /\ B.size \in Nat /\ B.reader \in Nat /\ B.writer \in Nat
  /\ B.mem \in [0..(B.size - 1) -> Byte]
  /\ B.reader <= B.writer /\ B.writer <= B.size /\ kCheapPrepend <= B.size

(* B is in order and holds c. *)
Holds(B, c) ==
  /\ InOrder(B) /\ c \in Seq(Byte)
  /\ Len(c) = B.writer - B.reader
  /\ \A i \in 1..Len(c) : c[i] = B.mem[B.reader + i - 1]

(* Where the i-th of l bytes from k on lies in a vector of s. *)
LEMMA PlaceInside ==
  ASSUME NEW k \in Nat, NEW l \in Nat, NEW s \in Nat, k + l <= s, NEW i \in 1..l
  PROVE  /\ k + i - 1 \in 0..(s - 1)
         /\ k <= k + i - 1 /\ k + i - 1 < k + l
         /\ (k + i - 1) - k + 1 = i
  OBVIOUS

(* What Holds() says of positions is what ContentExact says of sequences. *)
LEMMA HoldsContent ==
  ASSUME NEW B, NEW c, Holds(B, c)
  PROVE  Content(B) = c
  BY SMT DEF Holds, Content, readableBytes, InOrder

(* std::copy() inside the vector keeps its shape. *)
LEMMA CopiedType ==
  ASSUME NEW n \in Nat, NEW mem \in [0..(n - 1) -> Byte], NEW data \in Seq(Byte), NEW at \in Nat
  PROVE  /\ Copied(mem, data, at) \in [0..(n - 1) -> Byte]
         /\ \A i \in 0..(n - 1) : Copied(mem, data, at)[i] =
              IF at <= i /\ i < at + Len(data) THEN data[i - at + 1] ELSE mem[i]
  BY SMT DEF Copied

(* resize() keeps the bytes that were there. *)
LEMMA ResizedType ==
  ASSUME NEW s \in Nat, NEW m \in [0..(s - 1) -> Byte], NEW size \in Nat, s <= size
  PROVE  LET n == [i \in 0..(size - 1) |-> IF i < s THEN m[i] ELSE 0]
         IN  n \in [0..(size - 1) -> Byte] /\ \A i \in 0..(s - 1) : n[i] = m[i]
  BY BufferConstants

(* A Buffer made of its fields *)
LEMMA BufFields ==
  ASSUME NEW m, NEW s, NEW r, NEW w
  PROVE  /\ Buf(m, s, r, w).mem = m /\ Buf(m, s, r, w).size = s
         /\ Buf(m, s, r, w).reader = r /\ Buf(m, s, r, w).writer = w
  BY DEF Buf

(* A concatenation, position by position *)
LEMMA ConcatAt ==
  ASSUME NEW c \in Seq(Byte), NEW data \in Seq(Byte)
  PROVE  /\ c \o data \in Seq(Byte) /\ Len(c \o data) = Len(c) + Len(data)
         /\ Len(data) \in Nat /\ Len(c) \in Nat
         /\ \A i \in 1..(Len(c) + Len(data)) :
              (c \o data)[i] = IF i <= Len(c) THEN c[i] ELSE data[i - Len(c)]
  OBVIOUS

(* Copying data to the writer's end of content, seen position by position *)
LEMMA CopiedAppends ==
  ASSUME NEW s \in Nat, NEW r \in Nat, NEW w \in Nat, NEW m \in [0..(s - 1) -> Byte], NEW c \in Seq(Byte),
         r <= w, w <= s, Len(c) = w - r, \A i \in 1..Len(c) : c[i] = m[r + i - 1],
         NEW data \in Seq(Byte), Len(data) <= s - w, kCheapPrepend <= s
  PROVE  Holds(Buf(Copied(m, data, w), s, r, w + Len(data)), c \o data)
<1> DEFINE n == Copied(m, data, w)
           d == c \o data
<1>1. /\ n \in [0..(s - 1) -> Byte]
      /\ \A i \in 0..(s - 1) : n[i] = IF w <= i /\ i < w + Len(data) THEN data[i - w + 1] ELSE m[i]
  BY CopiedType, SMTT(40)
<1>2. /\ d \in Seq(Byte) /\ Len(d) = Len(c) + Len(data) /\ Len(data) \in Nat /\ Len(c) \in Nat
      /\ \A i \in 1..(Len(c) + Len(data)) :
           d[i] = IF i <= Len(c) THEN c[i] ELSE data[i - Len(c)]
  BY ConcatAt
<1> HIDE DEF n, d
<1>3. ASSUME NEW i \in 1..(Len(c) + Len(data)) PROVE d[i] = n[r + i - 1]
  <2>1. r + i - 1 \in 0..(s - 1)
    BY <1>2
  <2>2. CASE i <= Len(c)
    <3>1. d[i] = c[i] /\ c[i] = m[r + i - 1]
      BY <1>2, <2>2, SMTT(40)
    <3>2. ~(w <= r + i - 1)
      BY <1>2, <2>2
    <3> QED
      BY <1>1, <2>1, <3>1, <3>2
  <2>3. CASE i > Len(c)
    <3>1. d[i] = data[i - Len(c)]
      BY <1>2, <2>3
    <3>2. w <= r + i - 1 /\ r + i - 1 < w + Len(data) /\ r + i - 1 - w + 1 = i - Len(c)
      BY <1>2, <2>3
    <3> QED
      BY <1>1, <2>1, <3>1, <3>2
  <2> QED
    BY <1>2, <2>2, <2>3
<1>4. w + Len(data) \in Nat /\ r <= w + Len(data) /\ w + Len(data) <= s /\ Len(d) = w + Len(data) - r
  BY <1>2
<1>5. \A i \in 1..Len(d) : d[i] = n[r + i - 1]
  BY <1>2, <1>3
<1>6. Holds(Buf(n, s, r, w + Len(data)), d)
  <2> DEFINE e == w + Len(data)
  <2>1. e \in Nat /\ r <= e /\ e <= s /\ Len(d) = e - r
    BY <1>4
  <2> HIDE DEF e
  <2>2. Holds(Buf(n, s, r, e), d)
    <3> DEFINE X == Buf(n, s, r, e)
    <3>1. X.mem = n /\ X.size = s /\ X.reader = r /\ X.writer = e
      BY BufFields
    <3> HIDE DEF X
    <3>2. InOrder(X)
      BY <1>1, <2>1, <3>1 DEF InOrder
    <3>3. Holds(X, d)
      BY <1>2, <1>5, <2>1, <3>1, <3>2 DEF Holds
    <3> QED
      BY <3>3 DEF X
  <2> QED
    BY <2>2 DEF e
<1> QED
  BY <1>6 DEF n, d

(* hasWritten() after a copy that fits appends the data. *)
LEMMA HasWrittenHolds ==
  ASSUME NEW B, NEW c, Holds(B, c), NEW data \in Seq(Byte), Len(data) <= writableBytes(B)
  PROVE  /\ Holds(hasWritten(B, data), c \o data)
         /\ hasWritten(B, data).size = B.size
<1>1. /\ B.size \in Nat /\ B.reader \in Nat /\ B.writer \in Nat /\ B.mem \in [0..(B.size - 1) -> Byte]
      /\ c \in Seq(Byte) /\ B.reader <= B.writer /\ B.writer <= B.size /\ Len(c) = B.writer - B.reader
      /\ \A i \in 1..Len(c) : c[i] = B.mem[B.reader + i - 1]
      /\ Len(data) <= B.size - B.writer /\ kCheapPrepend <= B.size
  BY DEF Holds, InOrder, writableBytes
<1>2. Holds(Buf(Copied(B.mem, data, B.writer), B.size, B.reader, B.writer + Len(data)), c \o data)
  BY <1>1, CopiedAppends, Zenon
<1> QED
  BY <1>2, BufFields DEF hasWritten

(* makeSpace() that grows the vector *)
LEMMA ResizedHolds ==
  ASSUME NEW B, NEW c, Holds(B, c), NEW size \in Nat, B.size <= size
  PROVE  Holds(Resized(B, size), c) /\ Resized(B, size).size = size
<1> DEFINE X == Resized(B, size)
           n == [i \in 0..(size - 1) |-> IF i < B.size THEN B.mem[i] ELSE 0]
<1>1. X.mem = n /\ X.size = size /\ X.reader = B.reader /\ X.writer = B.writer
  BY BufFields DEF Resized
<1>2. /\ B.size \in Nat /\ B.reader \in Nat /\ B.writer \in Nat /\ B.mem \in [0..(B.size - 1) -> Byte]
      /\ c \in Seq(Byte) /\ B.reader <= B.writer /\ B.writer <= B.size /\ Len(c) = B.writer - B.reader
      /\ kCheapPrepend \in Nat /\ kCheapPrepend <= B.size
  BY BufferConstants DEF Holds, InOrder
<1>3. n \in [0..(size - 1) -> Byte] /\ \A i \in 0..(B.size - 1) : n[i] = B.mem[i]
  <2> DEFINE s == B.size
             m == B.mem
  <2>1. s \in Nat /\ m \in [0..(s - 1) -> Byte] /\ s <= size
    BY <1>2
  <2> HIDE DEF s, m
  <2>2. LET k == [i \in 0..(size - 1) |-> IF i < s THEN m[i] ELSE 0]
        IN  k \in [0..(size - 1) -> Byte] /\ \A i \in 0..(s - 1) : k[i] = m[i]
    BY <2>1, ResizedType
  <2> QED
    BY <2>2 DEF s, m
<1> HIDE DEF X, n
<1>4. InOrder(X)
  BY <1>1, <1>2, <1>3 DEF InOrder
<1>5. ASSUME NEW i \in 1..Len(c) PROVE c[i] = X.mem[X.reader + i - 1]
  <2>1. B.reader + i - 1 \in 0..(B.size - 1)
    <3>1. B.reader \in Nat /\ Len(c) \in Nat /\ B.size \in Nat /\ B.reader + Len(c) <= B.size
      BY <1>2
    <3> QED
      BY <3>1, PlaceInside
  <2>2. c[i] = B.mem[B.reader + i - 1]
    BY DEF Holds
  <2> QED
    BY <1>1, <1>3, <2>1, <2>2
<1>6. Holds(X, c)
  BY <1>1, <1>2, <1>4, <1>5 DEF Holds
<1> QED
  BY <1>1, <1>6 DEF X

(* makeSpace() that moves the content to the front *)
LEMMA MovedHolds ==
  ASSUME NEW B, NEW c, Holds(B, c), kCheapPrepend <= B.reader
  PROVE  /\ Holds(MovedToFront(B), c)
         /\ MovedToFront(B).size = B.size /\ MovedToFront(B).writer = kCheapPrepend + Len(c)
<1> DEFINE X == MovedToFront(B)
           n == Copied(B.mem, c, kCheapPrepend)
<1>1. /\ B.size \in Nat /\ B.reader \in Nat /\ B.writer \in Nat /\ B.mem \in [0..(B.size - 1) -> Byte]
      /\ c \in Seq(Byte) /\ B.reader <= B.writer /\ B.writer <= B.size /\ Len(c) = B.writer - B.reader
      /\ kCheapPrepend \in Nat /\ Len(c) \in Nat /\ kCheapPrepend <= B.size
  BY BufferConstants DEF Holds, InOrder
<1>2. X.mem = n /\ X.size = B.size /\ X.reader = kCheapPrepend /\ X.writer = kCheapPrepend + Len(c)
  BY <1>1, HoldsContent, BufFields DEF MovedToFront, readableBytes
<1>3. /\ n \in [0..(B.size - 1) -> Byte]
      /\ \A i \in 0..(B.size - 1) : n[i] =
           IF kCheapPrepend <= i /\ i < kCheapPrepend + Len(c) THEN c[i - kCheapPrepend + 1] ELSE B.mem[i]
  <2> DEFINE s == B.size
             m == B.mem
             k == kCheapPrepend
  <2>1. s \in Nat /\ m \in [0..(s - 1) -> Byte] /\ k \in Nat /\ c \in Seq(Byte)
    BY <1>1
  <2> HIDE DEF s, m, k
  <2>2. /\ Copied(m, c, k) \in [0..(s - 1) -> Byte]
        /\ \A i \in 0..(s - 1) : Copied(m, c, k)[i] =
             IF k <= i /\ i < k + Len(c) THEN c[i - k + 1] ELSE m[i]
    BY <2>1, CopiedType
  <2> QED
    BY <2>2 DEF s, m, k
<1> HIDE DEF X, n
<1>4. InOrder(X)
  BY <1>1, <1>2, <1>3 DEF InOrder
<1>5. ASSUME NEW i \in 1..Len(c) PROVE c[i] = X.mem[X.reader + i - 1]
  <2>1. /\ kCheapPrepend + i - 1 \in 0..(B.size - 1)
        /\ kCheapPrepend <= kCheapPrepend + i - 1 /\ kCheapPrepend + i - 1 < kCheapPrepend + Len(c)
        /\ (kCheapPrepend + i - 1) - kCheapPrepend + 1 = i
    <3>1. kCheapPrepend \in Nat /\ Len(c) \in Nat /\ B.size \in Nat /\ kCheapPrepend + Len(c) <= B.size
      BY <1>1
    <3> QED
      BY <3>1, PlaceInside
  <2> QED
    BY <1>2, <1>3, <2>1
<1>6. Holds(X, c)
  <2>1. Len(c) = X.writer - X.reader
    BY <1>1, <1>2
  <2> QED
    BY <1>1, <1>4, <1>5, <2>1 DEF Holds
<1> QED
  BY <1>2, <1>6 DEF X

(* ensureWritableBytes() keeps the content and gives the room asked for; the
   vector grows only when the free space at both ends is not enough. *)
LEMMA EnsureHolds ==
  ASSUME NEW B, NEW c, Holds(B, c), NEW len \in Nat
  PROVE  LET E == ensureWritableBytes(B, len)
         IN  /\ Holds(E, c) /\ len <= writableBytes(E)
             /\ \/ E.size = B.size
                \/ /\ E.size = B.writer + len
                   /\ writableBytes(B) + prependableBytes(B) < len + kCheapPrepend
<1>1. /\ B.size \in Nat /\ B.reader \in Nat /\ B.writer \in Nat /\ B.reader <= B.writer /\ B.writer <= B.size
      /\ Len(c) = B.writer - B.reader /\ kCheapPrepend \in Nat /\ Len(c) \in Nat
  BY BufferConstants DEF Holds, InOrder
<1>2. CASE ~(writableBytes(B) < len)
  BY <1>1, <1>2 DEF ensureWritableBytes, writableBytes
<1>3. CASE writableBytes(B) < len /\ writableBytes(B) + prependableBytes(B) < len + kCheapPrepend
  <2> DEFINE E == Resized(B, B.writer + len)
  <2>1. ensureWritableBytes(B, len) = E
    BY <1>3 DEF ensureWritableBytes, makeSpace
  <2>2. B.writer + len \in Nat /\ B.size <= B.writer + len
    BY <1>1, <1>3 DEF writableBytes
  <2>3. Holds(E, c) /\ E.size = B.writer + len
    BY <2>2, ResizedHolds
  <2>4. E.writer = B.writer
    BY BufFields DEF Resized
  <2>5. len <= writableBytes(E)
    BY <1>1, <2>3, <2>4 DEF writableBytes
  <2> QED
    BY <1>3, <2>1, <2>3, <2>5
<1>4. CASE writableBytes(B) < len /\ ~(writableBytes(B) + prependableBytes(B) < len + kCheapPrepend)
  <2> DEFINE E == MovedToFront(B)
  <2>1. ensureWritableBytes(B, len) = E
    BY <1>4 DEF ensureWritableBytes, makeSpace
  <2>2. kCheapPrepend <= B.reader
    BY <1>1, <1>4 DEF writableBytes, prependableBytes
  <2>3. Holds(E, c) /\ E.size = B.size /\ E.writer = kCheapPrepend + Len(c)
    BY <2>2, MovedHolds
  <2>4. len <= writableBytes(E)
    BY <1>1, <1>4, <2>3 DEF writableBytes, prependableBytes
  <2> QED
    BY <2>1, <2>3, <2>4
<1> QED
  BY <1>2, <1>3, <1>4

(* append() *)
LEMMA AppendHolds ==
  ASSUME NEW B, NEW c, Holds(B, c), NEW data \in Seq(Byte)
  PROVE  /\ Holds(append(B, data), c \o data)
         /\ \/ append(B, data).size = B.size
            \/ append(B, data).size <= kCheapPrepend + Len(c) + 2 * Len(data)
<1> DEFINE E == ensureWritableBytes(B, Len(data))
<1>1. Len(data) \in Nat
  OBVIOUS
<1>2. /\ Holds(E, c) /\ Len(data) <= writableBytes(E)
      /\ \/ E.size = B.size
         \/ /\ E.size = B.writer + Len(data)
            /\ writableBytes(B) + prependableBytes(B) < Len(data) + kCheapPrepend
  BY <1>1, EnsureHolds
<1>3. append(B, data) = hasWritten(E, data)
  BY DEF append
<1> HIDE DEF E
<1>4. Holds(append(B, data), c \o data) /\ append(B, data).size = E.size
  BY <1>2, <1>3, HasWrittenHolds
<1>5. E.size = B.size \/ E.size <= kCheapPrepend + Len(c) + 2 * Len(data)
  <2>1. /\ B.size \in Nat /\ B.reader \in Nat /\ B.writer \in Nat /\ B.writer <= B.size
        /\ Len(c) = B.writer - B.reader /\ kCheapPrepend \in Nat
    BY BufferConstants DEF Holds, InOrder
  <2> QED
    BY <1>1, <1>2, <2>1, SMTT(40) DEF writableBytes, prependableBytes
<1> QED
  BY <1>4, <1>5

(* A part of a sequence *)
LEMMA SubSeqAt ==
  ASSUME NEW c \in Seq(Byte), NEW a \in Nat, NEW b \in Nat, 1 <= a, a <= b + 1, b <= Len(c)
  PROVE  /\ SubSeq(c, a, b) \in Seq(Byte) /\ Len(SubSeq(c, a, b)) = b + 1 - a
         /\ \A i \in 1..(b + 1 - a) : SubSeq(c, a, b)[i] = c[a + i - 1]
  OBVIOUS

(* retrieve() takes from the front.  When all is taken both indices go back. *)
LEMMA RetrieveHolds ==
  ASSUME NEW B, NEW c, Holds(B, c), NEW len \in 0..Len(c)
  PROVE  /\ Holds(retrieve(B, len), SubSeq(c, len + 1, Len(c)))
         /\ retrieve(B, len).size = B.size
<1> DEFINE X == retrieve(B, len)
           d == SubSeq(c, len + 1, Len(c))
<1>1. /\ B.size \in Nat /\ B.reader \in Nat /\ B.writer \in Nat /\ B.mem \in [0..(B.size - 1) -> Byte]
      /\ c \in Seq(Byte) /\ B.reader <= B.writer /\ B.writer <= B.size /\ Len(c) = B.writer - B.reader
      /\ kCheapPrepend \in Nat /\ Len(c) \in Nat /\ len \in Nat /\ len <= Len(c) /\ kCheapPrepend <= B.size
  BY BufferConstants DEF Holds, InOrder
<1>2. d \in Seq(Byte) /\ Len(d) = Len(c) - len /\ \A i \in 1..(Len(c) - len) : d[i] = c[len + i]
  <2> DEFINE a == len + 1
             b == Len(c)
  <2>1. a \in Nat /\ b \in Nat /\ 1 <= a /\ a <= b + 1 /\ b <= Len(c) /\ c \in Seq(Byte)
    BY <1>1
  <2> HIDE DEF a, b, d
  <2>2. /\ SubSeq(c, a, b) \in Seq(Byte) /\ Len(SubSeq(c, a, b)) = b + 1 - a
        /\ \A i \in 1..(b + 1 - a) : SubSeq(c, a, b)[i] = c[a + i - 1]
    BY <2>1, SubSeqAt
  <2>3. b + 1 - a = Len(c) - len /\ \A i \in 1..(Len(c) - len) : a + i - 1 = len + i
    BY <1>1 DEF a, b
  <2>4. d = SubSeq(c, a, b)
    BY DEF a, b, d
  <2> QED
    BY <2>2, <2>3, <2>4, Zenon
<1>3. CASE len < Len(c)
  <2>1. X.mem = B.mem /\ X.size = B.size /\ X.reader = B.reader + len /\ X.writer = B.writer
    BY <1>1, <1>3, BufFields DEF retrieve, readableBytes
  <2> HIDE DEF X, d
  <2>2. InOrder(X)
    BY <1>1, <1>3, <2>1 DEF InOrder
  <2>3. ASSUME NEW i \in 1..Len(d) PROVE d[i] = X.mem[X.reader + i - 1]
    <3>1. len + i \in 1..Len(c) /\ d[i] = c[len + i]
      BY <1>1, <1>2
    <3>2. c[len + i] = B.mem[B.reader + (len + i) - 1]
      BY <3>1 DEF Holds
    <3>3. X.reader + i - 1 = B.reader + (len + i) - 1
      BY <1>1, <1>2, <2>1
    <3> QED
      BY <2>1, <3>1, <3>2, <3>3
  <2>4. Holds(X, d)
    BY <1>1, <1>2, <2>1, <2>2, <2>3 DEF Holds
  <2> QED
    BY <2>1, <2>4 DEF X, d
<1>4. CASE len = Len(c)
  <2>1. X.mem = B.mem /\ X.size = B.size /\ X.reader = kCheapPrepend /\ X.writer = kCheapPrepend
    BY <1>1, <1>4, BufFields DEF retrieve, retrieveAll, readableBytes
  <2> HIDE DEF X, d
  <2>2. InOrder(X)
    BY <1>1, <2>1 DEF InOrder
  <2>3. Len(d) = X.writer - X.reader /\ Len(d) = 0
    BY <1>1, <1>2, <1>4, <2>1
  <2>4. Holds(X, d)
    BY <1>2, <2>2, <2>3 DEF Holds
  <2> QED
    BY <2>1, <2>4 DEF X, d
<1> QED
  BY <1>1, <1>3, <1>4

(* unwrite() takes from the back. *)
LEMMA UnwriteHolds ==
  ASSUME NEW B, NEW c, Holds(B, c), NEW len \in 0..Len(c)
  PROVE  /\ Holds(unwrite(B, len), SubSeq(c, 1, Len(c) - len))
         /\ unwrite(B, len).size = B.size
<1> DEFINE X == unwrite(B, len)
           d == SubSeq(c, 1, Len(c) - len)
<1>1. /\ B.size \in Nat /\ B.reader \in Nat /\ B.writer \in Nat /\ B.mem \in [0..(B.size - 1) -> Byte]
      /\ c \in Seq(Byte) /\ B.reader <= B.writer /\ B.writer <= B.size /\ Len(c) = B.writer - B.reader
      /\ Len(c) \in Nat /\ len \in Nat /\ len <= Len(c) /\ kCheapPrepend <= B.size
  BY DEF Holds, InOrder
<1>2. d \in Seq(Byte) /\ Len(d) = Len(c) - len /\ \A i \in 1..(Len(c) - len) : d[i] = c[i]
  <2> DEFINE b == Len(c) - len
  <2>1. b \in Nat /\ b <= Len(c) /\ b + 1 - 1 = b
    BY <1>1
  <2> HIDE DEF b
  <2>2. /\ SubSeq(c, 1, b) \in Seq(Byte) /\ Len(SubSeq(c, 1, b)) = b + 1 - 1
        /\ \A i \in 1..(b + 1 - 1) : SubSeq(c, 1, b)[i] = c[1 + i - 1]
    BY <1>1, <2>1, SubSeqAt
  <2>3. \A i \in 1..b : SubSeq(c, 1, b)[i] = c[i]
    BY <2>1, <2>2
  <2> QED
    BY <2>1, <2>2, <2>3, Zenon DEF b
<1>3. X.mem = B.mem /\ X.size = B.size /\ X.reader = B.reader /\ X.writer = B.writer - len
  BY BufFields DEF unwrite
<1> HIDE DEF X, d
<1>4. InOrder(X)
  BY <1>1, <1>3 DEF InOrder
<1>5. ASSUME NEW i \in 1..Len(d) PROVE d[i] = X.mem[X.reader + i - 1]
  <2>1. i \in 1..Len(c) /\ d[i] = c[i]
    BY <1>1, <1>2
  <2>2. c[i] = B.mem[B.reader + i - 1]
    BY <2>1 DEF Holds
  <2> QED
    BY <1>3, <2>1, <2>2
<1>6. Holds(X, d)
  BY <1>1, <1>2, <1>3, <1>4, <1>5 DEF Holds
<1> QED
  BY <1>3, <1>6 DEF X, d

(* prepend() *)
LEMMA PrependHolds ==
  ASSUME NEW B, NEW c, Holds(B, c), NEW data \in Seq(Byte), Len(data) <= prependableBytes(B)
  PROVE  /\ Holds(prepend(B, data), data \o c)
         /\ prepend(B, data).size = B.size
<1> DEFINE X == prepend(B, data)
           d == data \o c
           r == B.reader - Len(data)
           s == B.size
           m == B.mem
           n == Copied(m, data, r)
<1>1. /\ s \in Nat /\ B.reader \in Nat /\ B.writer \in Nat /\ m \in [0..(s - 1) -> Byte]
      /\ c \in Seq(Byte) /\ B.reader <= B.writer /\ B.writer <= s /\ Len(c) = B.writer - B.reader
      /\ kCheapPrepend <= s /\ Len(data) \in Nat /\ r \in Nat /\ B.reader = r + Len(data)
      /\ Len(c) \in Nat
  BY DEF Holds, InOrder, prependableBytes
<1>2. /\ d \in Seq(Byte) /\ Len(d) = Len(data) + Len(c)
      /\ \A i \in 1..(Len(data) + Len(c)) : d[i] = IF i <= Len(data) THEN data[i] ELSE c[i - Len(data)]
  BY <1>1, ConcatAt
<1>3. X.mem = n /\ X.size = s /\ X.reader = r /\ X.writer = B.writer
  BY BufFields DEF prepend
<1>4. \A i \in 1..Len(c) : c[i] = m[B.reader + i - 1]
  BY DEF Holds
<1> HIDE DEF X, d, r, s, m
<1>5. /\ n \in [0..(s - 1) -> Byte]
      /\ \A i \in 0..(s - 1) : n[i] = IF r <= i /\ i < r + Len(data) THEN data[i - r + 1] ELSE m[i]
  BY <1>1, CopiedType, SMTT(40)
<1> HIDE DEF n
<1>6. InOrder(X)
  BY <1>1, <1>3, <1>5 DEF InOrder
<1>7. ASSUME NEW i \in 1..Len(d) PROVE d[i] = n[r + i - 1]
  <2>1. r + i - 1 \in 0..(s - 1) /\ i \in 1..(Len(data) + Len(c))
    BY <1>1, <1>2
  <2>2. CASE i <= Len(data)
    <3>1. d[i] = data[i]
      BY <1>2, <2>1, <2>2
    <3>2. r <= r + i - 1 /\ r + i - 1 < r + Len(data) /\ (r + i - 1) - r + 1 = i
      BY <1>1, <2>1, <2>2
    <3>3. n[r + i - 1] = data[(r + i - 1) - r + 1]
      BY <1>5, <2>1, <3>2
    <3> QED
      BY <3>1, <3>2, <3>3
  <2>3. CASE i > Len(data)
    <3>1. d[i] = c[i - Len(data)] /\ i - Len(data) \in 1..Len(c)
      <4>1. ~(i <= Len(data)) /\ i - Len(data) \in 1..Len(c)
        BY <1>1, <2>1, <2>3
      <4> QED
        BY <1>2, <2>1, <4>1
    <3>2. ~(r + i - 1 < r + Len(data)) /\ B.reader + (i - Len(data)) - 1 = r + i - 1
      BY <1>1, <2>1, <2>3
    <3>3. c[i - Len(data)] = m[r + i - 1]
      BY <1>4, <3>1, <3>2
    <3> QED
      BY <1>5, <2>1, <3>1, <3>2, <3>3
  <2> QED
    BY <1>1, <2>1, <2>2, <2>3
<1>8. Holds(X, d)
  <2>1. Len(d) = X.writer - X.reader
    BY <1>1, <1>2, <1>3
  <2> QED
    BY <1>2, <1>3, <1>6, <1>7, <2>1 DEF Holds
<1> QED
  BY <1>3, <1>8 DEF X, d, s

(* readFd(), also when what was read went through extrabuf *)
LEMMA ReadFdHolds ==
  ASSUME NEW B, NEW c, Holds(B, c), NEW data \in Seq(Byte)
  PROVE  /\ Holds(readFd(B, data), c \o data)
         /\ \/ readFd(B, data).size = B.size
            \/ readFd(B, data).size <= kCheapPrepend + Len(c) + 2 * Len(data)
<1> DEFINE room == writableBytes(B)
           a == SubSeq(data, 1, room)
           b == SubSeq(data, room + 1, Len(data))
<1>1. /\ room \in Nat /\ c \in Seq(Byte) /\ Len(c) \in Nat /\ Len(data) \in Nat
      /\ kCheapPrepend \in Nat
  BY BufferConstants DEF Holds, InOrder, writableBytes
<1>2. CASE Len(data) <= room
  <2>1. readFd(B, data) = hasWritten(B, data)
    BY <1>2 DEF readFd
  <2> QED
    BY <1>2, <2>1, HasWrittenHolds
<1>3. CASE room < Len(data)
  <2>1. readFd(B, data) = append(hasWritten(B, a), b)
    BY <1>1, <1>3 DEF readFd
  <2>2. /\ a \in Seq(Byte) /\ b \in Seq(Byte) /\ Len(a) = room /\ Len(b) = Len(data) - room
        /\ data = a \o b
    <3>1. /\ a \in Seq(Byte) /\ Len(a) = room /\ b \in Seq(Byte) /\ Len(b) = Len(data) - room
      <4> HIDE DEF room
      <4> QED
        BY <1>1, <1>3
    <3>2. a \o b = SubSeq(data, 1, Len(data))
      <4>1. 1 \in 1..(Len(data) + 1) /\ room \in (1 - 1)..Len(data) /\ Len(data) \in room..Len(data)
        BY <1>1, <1>3
      <4> HIDE DEF room
      <4> QED
        BY <4>1, ConcatAdjacentSubSeq, Zenon
    <3>3. SubSeq(data, 1, Len(data)) = data
      BY SubSeqFull
    <3> QED
      BY <3>1, <3>2, <3>3, Zenon
  <2>3. Holds(hasWritten(B, a), c \o a) /\ hasWritten(B, a).size = B.size
    <3> HIDE DEF a
    <3> QED
      BY <1>1, <2>2, HasWrittenHolds
  <2> DEFINE R == append(hasWritten(B, a), b)
  <2>4. /\ Holds(R, (c \o a) \o b)
        /\ R.size = B.size \/ R.size <= kCheapPrepend + Len(c \o a) + 2 * Len(b)
    <3> HIDE DEF a, b
    <3> QED
      BY <2>2, <2>3, AppendHolds, Zenon
  <2> HIDE DEF R, a, b, room
  <2>5. (c \o a) \o b = c \o data /\ Len(c \o a) = Len(c) + room
    <3>1. (c \o a) \o b = c \o (a \o b)
      <4>1. c \in Seq(Byte) /\ a \in Seq(Byte) /\ b \in Seq(Byte)
        BY <1>1, <2>2
      <4> QED
        BY <4>1, ConcatAssociative, SMTT(40)
    <3>2. Len(c \o a) = Len(c) + Len(a)
      BY <1>1, <2>2, ConcatAt, Zenon
    <3> QED
      BY <2>2, <3>1, <3>2
  <2>6. R.size = B.size \/ R.size <= kCheapPrepend + Len(c) + 2 * Len(data)
    <3>1. R.size \in Nat
      BY <2>4 DEF Holds, InOrder
    <3> QED
      BY <1>1, <1>3, <2>2, <2>4, <2>5, <3>1
  <2> QED
    BY <2>1, <2>4, <2>5, <2>6 DEF R
<1> QED
  BY <1>1, <1>2, <1>3

(* A new Buffer is empty. *)
LEMMA NewHolds ==
  Holds(New(kInitialSize), <<>>) /\ New(kInitialSize).size = kCheapPrepend + kInitialSize
<1> DEFINE X == New(kInitialSize)
           s == kCheapPrepend + kInitialSize
<1>1. X.size = s /\ X.reader = kCheapPrepend /\ X.writer = kCheapPrepend
  BY BufFields DEF New
<1>2. X.mem = [i \in 0..(kCheapPrepend + kInitialSize - 1) |-> 0]
  BY BufFields DEF New
<1>3. s \in Nat /\ kCheapPrepend \in Nat /\ kCheapPrepend <= s /\ X.mem \in [0..(s - 1) -> Byte]
  BY <1>2, BufferConstants
<1> HIDE DEF X
<1>4. InOrder(X)
  BY <1>1, <1>3 DEF InOrder
<1>5. Holds(X, <<>>)
  BY <1>1, <1>3, <1>4 DEF Holds
<1> QED
  BY <1>1, <1>5 DEF X

(* shrink() *)
LEMMA ShrinkHolds ==
  ASSUME NEW B, NEW c, Holds(B, c), NEW reserve \in Nat
  PROVE  /\ Holds(shrink(B, reserve), c)
         /\ \/ shrink(B, reserve).size = kCheapPrepend + kInitialSize
            \/ shrink(B, reserve).size = kCheapPrepend + Len(c) + reserve
<1> DEFINE len == Len(c) + reserve
           E == ensureWritableBytes(New(kInitialSize), len)
<1>1. len \in Nat /\ c \in Seq(Byte) /\ Len(c) <= len /\ readableBytes(B) = Len(c) /\ Content(B) = c
  <2>1. c \in Seq(Byte) /\ readableBytes(B) = Len(c) /\ Len(c) \in Nat
    BY DEF Holds, InOrder, readableBytes
  <2> QED
    BY <2>1, HoldsContent
<1>2. New(kInitialSize).writer = kCheapPrepend
  BY BufFields DEF New
<1>3. shrink(B, reserve) = append(E, c)
  BY <1>1 DEF shrink
<1> HIDE DEF len
<1>4. /\ Holds(E, <<>>) /\ len <= writableBytes(E)
      /\ E.size = kCheapPrepend + kInitialSize \/ E.size = kCheapPrepend + len
  BY <1>1, <1>2, NewHolds, EnsureHolds
<1> HIDE DEF E
<1>5. append(E, c) = hasWritten(E, c) /\ Len(c) <= writableBytes(E)
  <2>1. writableBytes(E) \in Nat /\ Len(c) \in Nat
    BY <1>1, <1>4 DEF Holds, InOrder, writableBytes
  <2>2. Len(c) <= writableBytes(E)
    BY <1>1, <1>4, <2>1
  <2> QED
    BY <2>1, <2>2 DEF append, ensureWritableBytes
<1>6. Holds(append(E, c), <<>> \o c) /\ append(E, c).size = E.size
  BY <1>1, <1>4, <1>5, HasWrittenHolds, Zenon
<1>7. <<>> \o c = c
  BY <1>1
<1>8. kCheapPrepend + len = kCheapPrepend + Len(c) + reserve
  BY <1>1, BufferConstants DEF len
<1> QED
  BY <1>3, <1>4, <1>6, <1>7, <1>8

-----------------------------------------------------------------------------
(* Turned around twice, once by hostToNetwork() and once by the host's memory, an
   integer is in network order: for every width that is converted by the function
   for that width. *)
LEMMA NetworkOrder ==
  ASSUME NEW x \in Seq(Byte)
  PROVE  Memory(hostToNetwork(x)) = x
<1> DEFINE n == Len(x)
           r == [i \in 1..n |-> x[n + 1 - i]]
<1>1. n \in Nat /\ x = [i \in 1..n |-> x[i]]
  OBVIOUS
<1>2. \A i \in 1..n : n + 1 - i \in 1..n /\ n + 1 - (n + 1 - i) = i
  BY <1>1
<1>3. r \in Seq(Byte) /\ Len(r) = n
  BY <1>1, <1>2
<1>4. [i \in 1..n |-> r[n + 1 - i]] = x
  BY <1>1, <1>2
<1>5. hostToNetwork(x) = r
  BY DEF hostToNetwork, Reversed
<1> QED
  BY <1>3, <1>4, <1>5 DEF Memory, Reversed

(* The integers are sequences of bytes. *)
LEMMA IntsAreSequences ==
  ASSUME 8 \notin Widths, NEW x \in Ints
  PROVE  x \in Seq(Byte) /\ Appended(x) = x /\ Prepended(x) = x
<1>1. PICK w \in Widths : x \in [1..w -> Byte]
  BY DEF Ints
<1>2. w \in Nat /\ x \in Seq(Byte) /\ Len(x) = w /\ w # 8
  BY <1>1, BufferConstants
<1> QED
  BY <1>2, NetworkOrder DEF Appended, Prepended

-----------------------------------------------------------------------------
(* The first invariant holds for integers of every width: the buffer holds as many
   bytes as were put in and not taken out, and the histories bound what its size is
   compared with. *)
Fits ==
  /\ content \in Seq(Byte) /\ \E d : Holds(buf, d) /\ Len(d) = Len(content)
  /\ peak \in Nat /\ longest \in Nat /\ Len(content) <= peak
  /\ SizeBounded

(* The second: it holds these bytes. *)
IInv == Fits /\ Holds(buf, content)

(* The arithmetic of the bound *)
LEMMA Doubled ==
  ASSUME NEW p \in Nat, NEW q \in Nat, NEW k \in Nat, NEW l \in Nat, NEW n \in Nat, NEW len \in Nat,
         p <= q, k <= l, n <= p, len <= l
  PROVE  p + 2 * k \in Nat /\ q + 2 * l \in Nat /\ p + 2 * k <= q + 2 * l /\ n + 2 * len <= q + 2 * l
  OBVIOUS

(* How far makeSpace() may grow the vector *)
LEMMA Grown ==
  ASSUME NEW size \in Nat, NEW r \in Nat, NEW w \in Nat, NEW len \in Nat, NEW k \in Nat,
         w <= size, (size - w) + r < len + k
  PROVE  w + len <= k + (w - r) + 2 * len
  OBVIOUS

(* An operation that leaves the vector's size, sets it to a new one's, or grows it
   no further than twice its request past the content, keeps the first invariant. *)
LEMMA BecomesKeeps ==
  ASSUME Fits, NEW B, NEW c \in Seq(Byte), NEW d, NEW len \in Nat, Becomes(B, c, len),
         Holds(B, d), Len(d) = Len(c),
         \/ B.size = buf.size
         \/ B.size = kCheapPrepend + kInitialSize
         \/ B.size <= kCheapPrepend + Len(content) + 2 * len
  PROVE  Fits'
<1>1. buf' = B /\ content' = c /\ peak' = Greater(peak, Len(c)) /\ longest' = Greater(longest, len)
  BY DEF Becomes
<1>2. Len(c) \in Nat /\ Len(content) \in Nat /\ B.size \in Nat /\ buf.size \in Nat
  BY DEF Fits, Holds, InOrder
<1>3. /\ peak' \in Nat /\ longest' \in Nat /\ Len(c) <= peak' /\ peak <= peak'
      /\ longest <= longest' /\ len <= longest'
  BY <1>1, <1>2 DEF Fits, Greater
<1>4. peak \in Nat /\ longest \in Nat /\ Len(content) <= peak /\ kCheapPrepend \in Nat /\ kInitialSize \in Nat
      /\ buf.size <= kCheapPrepend + Greater(kInitialSize, peak + 2 * longest)
  BY BufferConstants DEF Fits, SizeBounded
<1> DEFINE s == B.size
           z == buf.size
           n == Len(content)
           old == peak + 2 * longest
           new == peak' + 2 * longest'
<1>5. /\ s \in Nat /\ z \in Nat /\ n \in Nat /\ n <= peak
      /\ z <= kCheapPrepend + Greater(kInitialSize, peak + 2 * longest)
      /\ s = z \/ s = kCheapPrepend + kInitialSize \/ s <= kCheapPrepend + n + 2 * len
  BY <1>2, <1>4
<1>6. old \in Nat /\ new \in Nat /\ old <= new /\ n + 2 * len <= new
  <2> HIDE DEF n
  <2> QED
    BY <1>3, <1>4, <1>5, Doubled, Zenon
<1>7. kInitialSize \in Nat /\ kCheapPrepend \in Nat /\ 2 * len \in Nat
  BY <1>4
<1> HIDE DEF s, z, n, old, new
<1>8. s <= kCheapPrepend + Greater(kInitialSize, new)
  <2>1. z <= kCheapPrepend + Greater(kInitialSize, old)
    BY <1>5 DEF old
  <2> QED
    BY <1>5, <1>6, <1>7, <2>1 DEF Greater
<1> QED
  BY <1>1, <1>3, <1>8 DEF Fits, SizeBounded, s, new

(* Both invariants hold of a new Buffer. *)
LEMMA InitIInv ==
  ASSUME Init PROVE IInv
<1>1. Holds(buf, content) /\ buf.size = kCheapPrepend + kInitialSize
  BY NewHolds DEF Init
<1>2. peak = 0 /\ longest = 0 /\ Len(content) = 0 /\ content \in Seq(Byte)
  BY DEF Init
<1>3. kCheapPrepend + kInitialSize <= kCheapPrepend + Greater(kInitialSize, 0 + 2 * 0)
  BY BufferConstants DEF Greater
<1> QED
  BY <1>1, <1>2, <1>3 DEF IInv, Fits, SizeBounded

(* Bytes after bytes *)
LEMMA BytesJoined ==
  ASSUME NEW p \in Seq(Byte), NEW q \in Seq(Byte)
  PROVE  p \o q \in Seq(Byte) /\ Len(p \o q) = Len(p) + Len(q)
  OBVIOUS

(* Lengths do not depend on the bytes. *)
LEMMA SameLength ==
  ASSUME NEW p \in Seq(Byte), NEW q \in Seq(Byte), NEW a \in Seq(Byte), NEW b \in Seq(Byte),
         Len(p) = Len(q), Len(a) = Len(b)
  PROVE  /\ p \o a \in Seq(Byte) /\ q \o b \in Seq(Byte) /\ Len(p \o a) = Len(q \o b)
         /\ \A len \in 0..Len(q) :
              /\ SubSeq(q, len + 1, Len(q)) \in Seq(Byte) /\ SubSeq(q, 1, Len(q) - len) \in Seq(Byte)
              /\ Len(SubSeq(p, len + 1, Len(p))) = Len(SubSeq(q, len + 1, Len(q)))
              /\ Len(SubSeq(p, 1, Len(p) - len)) = Len(SubSeq(q, 1, Len(q) - len))
  OBVIOUS

(* What appendInt*() and prependInt*() put into the buffer has the length of the
   integer. *)
LEMMA IntLengths ==
  ASSUME NEW x \in Ints
  PROVE  x \in Seq(Byte) /\ Appended(x) \in Seq(Byte) /\ Len(Appended(x)) = Len(x) /\ Prepended(x) = x
<1>1. PICK w \in Widths : x \in [1..w -> Byte]
  BY DEF Ints
<1>2. w \in Nat /\ x \in Seq(Byte) /\ Len(x) = w
  BY <1>1, BufferConstants
<1>3. ASSUME NEW s \in Seq(Byte) PROVE Reversed(s) \in Seq(Byte) /\ Len(Reversed(s)) = Len(s)
  <2>1. \A i \in 1..Len(s) : Len(s) + 1 - i \in 1..Len(s)
    OBVIOUS
  <2> QED
    BY <2>1 DEF Reversed
<1>4. Prepended(x) = x
  BY <1>2, NetworkOrder DEF Prepended
<1>5. CASE Len(x) # 8
  BY <1>2, <1>4, <1>5 DEF Appended, Prepended
<1>6. CASE Len(x) = 8
  <2> DEFINE low == SubSeq(x, 7, 8)
             r == hostToNetwork(low)
             z == Zeros(6)
  <2>1. low \in Seq(Byte) /\ Len(low) = 2
    <3>1. \A i \in 7..8 : x[i] \in Byte
      BY <1>1, <1>2, <1>6
    <3> QED
      BY <1>6, <3>1
  <2>2. r \in Seq(Byte) /\ Len(r) = 2
    BY <1>3, <2>1, Zenon DEF hostToNetwork
  <2>3. z \in Seq(Byte) /\ Len(z) = 6
    BY BufferConstants DEF Zeros
  <2>4. Appended(x) = Reversed(z \o r)
    BY <1>6 DEF Appended, Memory
  <2> HIDE DEF z, r
  <2>5. z \o r \in Seq(Byte) /\ Len(z \o r) = 8
    <3>1. Len(z \o r) = Len(z) + Len(r) /\ z \o r \in Seq(Byte)
      BY <2>2, <2>3, BytesJoined, Zenon
    <3> QED
      BY <2>2, <2>3, <3>1
  <2> QED
    BY <1>2, <1>3, <1>4, <1>6, <2>4, <2>5, Zenon
<1> QED
  BY <1>5, <1>6

(* Every operation keeps the first invariant. *)
LEMMA StepFits ==
  ASSUME Fits, [Next]_vars PROVE Fits'
<1> PICK d : Holds(buf, d) /\ Len(d) = Len(content)
  BY DEF Fits
<1>0. /\ d \in Seq(Byte) /\ content \in Seq(Byte) /\ Len(content) \in Nat /\ 0 \in Nat
      /\ Chunks \subseteq Seq(Byte) /\ \A x \in Seq(Byte) : Len(x) \in Nat
  BY BufferConstants DEF Fits, Holds
<1>1. ASSUME NEW a \in Seq(Byte), NEW x \in Seq(Byte), Len(a) = Len(x), NEW B, Becomes(B, content \o x, Len(x)),
             Holds(B, d \o a), B.size = buf.size \/ B.size <= kCheapPrepend + Len(d) + 2 * Len(a)
      PROVE  Fits'
  <2>1. content \o x \in Seq(Byte) /\ Len(d \o a) = Len(content \o x) /\ Len(x) \in Nat
    BY <1>0, <1>1, SameLength
  <2>2. B.size = buf.size \/ B.size <= kCheapPrepend + Len(content) + 2 * Len(x)
    BY <1>1
  <2> QED
    BY <1>1, <2>1, <2>2, BecomesKeeps, Zenon
<1>2. ASSUME NEW x \in Seq(Byte), Len(x) <= prependableBytes(buf), Becomes(prepend(buf, x), x \o content, 0)
      PROVE  Fits'
  <2> DEFINE B == prepend(buf, x)
  <2>1. Holds(B, x \o d) /\ B.size = buf.size
    BY <1>0, <1>2, PrependHolds
  <2>2. x \o content \in Seq(Byte) /\ Len(x \o d) = Len(x \o content)
    BY <1>0, SameLength
  <2> HIDE DEF B
  <2> QED
    BY <1>0, <1>2, <2>1, <2>2, BecomesKeeps, Zenon DEF B
<1>3. ASSUME NEW data \in Chunks, Append_(data) \/ ReadFd(data) \/ Prepend(data) PROVE Fits'
  <2>1. CASE Append_(data)
    BY <1>0, <1>1, <2>1, AppendHolds DEF Append_
  <2>2. CASE ReadFd(data)
    BY <1>0, <1>1, <2>2, ReadFdHolds DEF ReadFd
  <2>3. CASE Prepend(data)
    BY <1>0, <1>2, <2>3 DEF Prepend
  <2> QED
    BY <1>3, <2>1, <2>2, <2>3
<1>4. ASSUME NEW data \in Chunks, EnsureWritable(Len(data)) PROVE Fits'
  <2> DEFINE len == Len(data)
             B == ensureWritableBytes(buf, len)
  <2>0. len \in Nat /\ Becomes(B, content, len)
    BY <1>0, <1>4 DEF EnsureWritable
  <2> HIDE DEF len
  <2>1. /\ Holds(B, d)
        /\ \/ B.size = buf.size
           \/ B.size = buf.writer + len /\ writableBytes(buf) + prependableBytes(buf) < len + kCheapPrepend
    BY <1>0, <2>0, EnsureHolds
  <2>2. /\ buf.size \in Nat /\ buf.reader \in Nat /\ buf.writer \in Nat /\ buf.writer <= buf.size
        /\ Len(content) = buf.writer - buf.reader /\ kCheapPrepend \in Nat
    BY <1>0, BufferConstants DEF Holds, InOrder
  <2>3. B.size = buf.size \/ B.size <= kCheapPrepend + Len(content) + 2 * len
    <3> DEFINE n == Len(content)
               s == B.size
    <3>1. /\ \/ s = buf.size
             \/ s = buf.writer + len /\ (buf.size - buf.writer) + buf.reader < len + kCheapPrepend
          /\ n = buf.writer - buf.reader
      BY <2>1, <2>2 DEF writableBytes, prependableBytes
    <3> HIDE DEF n, s
    <3>2. s = buf.size \/ s <= kCheapPrepend + n + 2 * len
      <4> SUFFICES ASSUME s # buf.size PROVE s <= kCheapPrepend + n + 2 * len
        OBVIOUS
      <4> DEFINE z == buf.size
                 r == buf.reader
                 w == buf.writer
      <4>1. /\ z \in Nat /\ r \in Nat /\ w \in Nat /\ w <= z /\ (z - w) + r < len + kCheapPrepend
            /\ s = w + len /\ n = w - r
        BY <2>2, <3>1
      <4> HIDE DEF z, r, w
      <4> QED
        BY <2>0, <2>2, <4>1, Grown
    <3> QED
      BY <3>2 DEF n, s
  <2> HIDE DEF B
  <2> QED
    BY <1>0, <2>0, <2>1, <2>3, BecomesKeeps
<1>5. ASSUME NEW data \in Chunks, Shrink(Len(data)) PROVE Fits'
  <2> DEFINE len == Len(data)
             B == shrink(buf, len)
  <2>0. len \in Nat /\ Becomes(B, content, len) /\ kCheapPrepend \in Nat
    BY <1>0, <1>5, BufferConstants DEF Shrink
  <2> HIDE DEF len
  <2>1. /\ Holds(B, d)
        /\ B.size = kCheapPrepend + kInitialSize \/ B.size = kCheapPrepend + Len(content) + len
    <3>1. Holds(B, d) /\ (B.size = kCheapPrepend + kInitialSize \/ B.size = kCheapPrepend + Len(d) + len)
      BY <1>0, <2>0, ShrinkHolds, Zenon
    <3> QED
      BY <3>1
  <2>2. B.size = kCheapPrepend + kInitialSize \/ B.size <= kCheapPrepend + Len(content) + 2 * len
    BY <1>0, <2>0, <2>1
  <2> HIDE DEF B
  <2> QED
    BY <1>0, <2>0, <2>1, <2>2, BecomesKeeps
<1>6. ASSUME NEW x \in Ints, AppendInt(x) \/ PrependInt(x) PROVE Fits'
  <2>0. x \in Seq(Byte) /\ Appended(x) \in Seq(Byte) /\ Len(Appended(x)) = Len(x) /\ Prepended(x) = x
    BY IntLengths
  <2>1. CASE AppendInt(x)
    BY <1>0, <1>1, <2>0, <2>1, AppendHolds DEF AppendInt
  <2>2. CASE PrependInt(x)
    BY <1>0, <1>2, <2>0, <2>2 DEF PrependInt
  <2> QED
    BY <1>6, <2>1, <2>2
<1>7. ASSUME NEW len \in 0..Len(content), Retrieve(len) PROVE Fits'
  <2> DEFINE B == retrieve(buf, len)
             c == SubSeq(content, len + 1, Len(content))
             e == SubSeq(d, len + 1, Len(d))
  <2>1. Holds(B, e) /\ B.size = buf.size
    BY <1>0, RetrieveHolds
  <2>2. Becomes(B, c, 0) /\ c \in Seq(Byte) /\ Len(e) = Len(c)
    BY <1>0, <1>7, SameLength DEF Retrieve
  <2> HIDE DEF B, c, e
  <2> QED
    BY <1>0, <2>1, <2>2, BecomesKeeps
<1>8. ASSUME NEW len \in 0..Len(content), Unwrite(len) PROVE Fits'
  <2> DEFINE B == unwrite(buf, len)
             c == SubSeq(content, 1, Len(content) - len)
             e == SubSeq(d, 1, Len(d) - len)
  <2>1. Holds(B, e) /\ B.size = buf.size
    BY <1>0, UnwriteHolds, Zenon
  <2>2. Becomes(B, c, 0) /\ c \in Seq(Byte) /\ Len(e) = Len(c)
    BY <1>0, <1>8, SameLength DEF Unwrite
  <2> HIDE DEF B, c, e
  <2> QED
    BY <1>0, <2>1, <2>2, BecomesKeeps
<1>9. CASE UNCHANGED vars
  BY <1>9 DEF vars, Fits, SizeBounded
<1> QED
  BY <1>3, <1>4, <1>5, <1>6, <1>7, <1>8, <1>9 DEF Next

(* Every operation keeps the second invariant, with integers of the widths that are
   converted by the function for their width. *)
LEMMA StepIInv ==
  ASSUME 8 \notin Widths, IInv, [Next]_vars PROVE IInv'
<1>0. /\ Holds(buf, content) /\ Chunks \subseteq Seq(Byte) /\ \A x \in Seq(Byte) : Len(x) \in Nat
      /\ \A B, c, len : Becomes(B, c, len) => buf' = B /\ content' = c
  BY BufferConstants DEF IInv, Becomes
<1>1. Fits'
  BY StepFits DEF IInv
<1>2. ASSUME NEW data \in Chunks, Append_(data) \/ ReadFd(data) \/ Prepend(data) PROVE Holds(buf, content)'
  <2>1. CASE Append_(data)
    BY <1>0, <2>1, AppendHolds DEF Append_
  <2>2. CASE ReadFd(data)
    BY <1>0, <2>2, ReadFdHolds DEF ReadFd
  <2>3. CASE Prepend(data)
    BY <1>0, <2>3, PrependHolds DEF Prepend
  <2> QED
    BY <1>2, <2>1, <2>2, <2>3
<1>3. ASSUME NEW data \in Chunks, EnsureWritable(Len(data)) \/ Shrink(Len(data)) PROVE Holds(buf, content)'
  <2>1. CASE EnsureWritable(Len(data))
    BY <1>0, <2>1, EnsureHolds DEF EnsureWritable
  <2>2. CASE Shrink(Len(data))
    BY <1>0, <2>2, ShrinkHolds DEF Shrink
  <2> QED
    BY <1>3, <2>1, <2>2
<1>4. ASSUME NEW x \in Ints, AppendInt(x) \/ PrependInt(x) PROVE Holds(buf, content)'
  <2>0. x \in Seq(Byte) /\ Appended(x) = x /\ Prepended(x) = x
    BY IntsAreSequences
  <2>1. CASE AppendInt(x)
    BY <1>0, <2>0, <2>1, AppendHolds DEF AppendInt
  <2>2. CASE PrependInt(x)
    BY <1>0, <2>0, <2>2, PrependHolds DEF PrependInt
  <2> QED
    BY <1>4, <2>1, <2>2
<1>5. ASSUME NEW len \in 0..Len(content), Retrieve(len) \/ Unwrite(len) PROVE Holds(buf, content)'
  <2>1. CASE Retrieve(len)
    BY <1>0, <2>1, RetrieveHolds DEF Retrieve
  <2>2. CASE Unwrite(len)
    BY <1>0, <2>2, UnwriteHolds DEF Unwrite
  <2> QED
    BY <1>5, <2>1, <2>2
<1>6. CASE UNCHANGED vars
  <2>1. buf' = buf /\ content' = content
    BY <1>6 DEF vars
  <2> QED
    BY <1>1, <2>1 DEF IInv
<1> QED
  BY <1>1, <1>2, <1>3, <1>4, <1>5, <1>6 DEF Next, IInv

(* Whatever the sizes, the bytes and the order of the operations of buffer.h, integers
   of every width among them, the vector does not outgrow what it held at once by more
   than twice the largest request. *)
THEOREM BufferBounded == Spec => []SizeBounded
<1>1. Init => Fits
  BY InitIInv DEF IInv
<1>2. Fits /\ [Next]_vars => Fits'
  BY StepFits
<1>3. Fits => SizeBounded
  BY DEF Fits
<1> QED
  BY <1>1, <1>2, <1>3, PTL DEF Spec

(* As long as no integer has the width appendInt64() converts wrongly, a reader finds
   exactly what was put in. *)
THEOREM BufferCorrect ==
  ASSUME 8 \notin Widths
  PROVE  Spec => []ContentExact
<1>1. Init => IInv
  BY InitIInv
<1>2. IInv /\ [Next]_vars => IInv'
  BY StepIInv
<1>3. IInv => ContentExact
  <2> SUFFICES ASSUME IInv PROVE ContentExact
    OBVIOUS
  <2>1. Content(buf) = content
    BY HoldsContent DEF IInv
  <2> QED
    BY <2>1 DEF IInv, Fits, Holds, InOrder, ContentExact, TypeOK
<1> QED
  BY <1>1, <1>2, <1>3, PTL DEF Spec
=============================================================================

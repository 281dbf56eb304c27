-------------------------------- MODULE Buffer --------------------------------
(***************************************************************************)
(* fishnet/net/buffer.{h,cc}: a vector of bytes with a reader and a writer     *)
(* index.  The operations are operators on the record buf; content is what a   *)
(* reader must find, kept beside it.  Integers are the sequences of their      *)
(* bytes, most significant first; the host is little endian.                   *)
(***************************************************************************)
EXTENDS Naturals, Sequences

CONSTANTS
  Byte,             \* values of a char, 0 among them
  kCheapPrepend,    \* 8 in the code
  kInitialSize,     \* 1024
  ExtraSize,        \* 65536, size of extrabuf in readFd()
  MaxSize,          \* bound on the size of the vector
  Widths,           \* sizes of the integers appended and prepended
  Chunks            \* what is appended, prepended and read: sequences of bytes

ASSUME BufferConstants ==
  /\ 0 \in Byte /\ Widths \subseteq Nat \ {0} /\ Chunks \subseteq Seq(Byte)
  /\ kCheapPrepend \in Nat /\ kInitialSize \in Nat /\ ExtraSize \in Nat /\ MaxSize \in Nat

VARIABLES
  buf,           \* [mem: buffer_, size: buffer_.size(), reader: readerIndex_, writer: writerIndex_]
  content,       \* history: the bytes that were put in and not taken out
  peak, longest  \* history: most bytes held at once, most bytes asked room for at once

vars == <<buf, content, peak, longest>>

Buf(mem, size, reader, writer) == [mem |-> mem, size |-> size, reader |-> reader, writer |-> writer]

(* Buffer(initialSize) *)
New(initialSize) ==
  Buf([i \in 0..(kCheapPrepend + initialSize - 1) |-> 0],
      kCheapPrepend + initialSize, kCheapPrepend, kCheapPrepend)

readableBytes(B)    == B.writer - B.reader
writableBytes(B)    == B.size - B.writer
prependableBytes(B) == B.reader

(* toStringPiece(), or peek() and readableBytes() *)
Content(B) == [i \in 1..readableBytes(B) |-> B.mem[B.reader + i - 1]]

(* std::copy() of data to position at *)
Copied(mem, data, at) ==
  [i \in DOMAIN mem |-> IF at <= i /\ i < at + Len(data) THEN data[i - at + 1] ELSE mem[i]]

Resized(B, size) ==
  Buf([i \in 0..(size - 1) |-> IF i < B.size THEN B.mem[i] ELSE 0], size, B.reader, B.writer)

MovedToFront_Short(B) ==
  Buf(Copied(B.mem, Content(B), kCheapPrepend), B.size, kCheapPrepend, B.writer - kCheapPrepend)

MovedToFront(B) ==
  Buf(Copied(B.mem, Content(B), kCheapPrepend), B.size, kCheapPrepend, kCheapPrepend + readableBytes(B))

makeSpace_Grow(B, len) == Resized(B, B.writer + len)

makeSpace(B, len) ==
  IF writableBytes(B) + prependableBytes(B) < len + kCheapPrepend
  THEN Resized(B, B.writer + len) ELSE MovedToFront(B)

ensureWritableBytes(B, len) == IF writableBytes(B) < len THEN makeSpace(B, len) ELSE B

hasWritten(B, data) == Buf(Copied(B.mem, data, B.writer), B.size, B.reader, B.writer + Len(data))

append(B, data) == hasWritten(ensureWritableBytes(B, Len(data)), data)

retrieveAll(B) == Buf(B.mem, B.size, kCheapPrepend, kCheapPrepend)

retrieve(B, len) ==
  IF len < readableBytes(B) THEN Buf(B.mem, B.size, B.reader + len, B.writer) ELSE retrieveAll(B)

unwrite(B, len) == Buf(B.mem, B.size, B.reader, B.writer - len)

prepend(B, data) ==
  Buf(Copied(B.mem, data, B.reader - Len(data)), B.size, B.reader - Len(data), B.writer)

shrink(B, reserve) ==
  append(ensureWritableBytes(New(kInitialSize), readableBytes(B) + reserve), Content(B))

(* readFd() of as much as readv(2) gave *)
readFd(B, data) ==
  LET room == writableBytes(B)
  IN  IF Len(data) <= room THEN hasWritten(B, data)
      ELSE append(hasWritten(B, SubSeq(data, 1, room)), SubSeq(data, room + 1, Len(data)))

MayRead(B) == writableBytes(B) + (IF writableBytes(B) < ExtraSize THEN ExtraSize ELSE 0)

-----------------------------------------------------------------------------
(* Integers: hostToNetwork() turns the bytes of a value around, and so does the
   memory of a little endian host. *)
Reversed(x) == [i \in 1..Len(x) |-> x[Len(x) + 1 - i]]
Memory(x)   == Reversed(x)
Zeros(n)    == [i \in 1..n |-> 0]

hostToNetwork(x) == Reversed(x)

(* appendInt64() converts with hostToNetwork16(), the others with the function for
   their width. *)
Appended(x) ==
  Memory(IF Len(x) = 8 THEN Zeros(6) \o hostToNetwork(SubSeq(x, 7, 8)) ELSE hostToNetwork(x))

Prepended(x) == Memory(hostToNetwork(x))

Ints == UNION {[1..w -> Byte] : w \in Widths}

-----------------------------------------------------------------------------
Greater(m, n) == IF m < n THEN n ELSE m

(* The buffer becomes B and its content c, after a request for room for len bytes. *)
Becomes(B, c, len) ==
  /\ B.size <= MaxSize
  /\ buf' = B /\ content' = c
  /\ peak' = Greater(peak, Len(c)) /\ longest' = Greater(longest, len)

Init == buf = New(kInitialSize) /\ content = <<>> /\ peak = 0 /\ longest = 0

Append_(data) == Becomes(append(buf, data), content \o data, Len(data))

AppendInt(x) == Becomes(append(buf, Appended(x)), content \o x, Len(x))

(* The asserts of these are the callers' to keep. *)
Retrieve(len) == Becomes(retrieve(buf, len), SubSeq(content, len + 1, Len(content)), 0)

Unwrite(len) == Becomes(unwrite(buf, len), SubSeq(content, 1, Len(content) - len), 0)

Prepend(data) ==
  Len(data) <= prependableBytes(buf) /\ Becomes(prepend(buf, data), data \o content, 0)

PrependInt(x) ==
  Len(x) <= prependableBytes(buf) /\ Becomes(prepend(buf, Prepended(x)), x \o content, 0)

EnsureWritable(len) == Becomes(ensureWritableBytes(buf, len), content, len)

Shrink(reserve) == Becomes(shrink(buf, reserve), content, reserve)

ReadFd(data) ==
  Len(data) <= MayRead(buf) /\ Becomes(readFd(buf, data), content \o data, Len(data))

Next ==
  \/ \E data \in Chunks : Append_(data) \/ Prepend(data) \/ ReadFd(data) \/ EnsureWritable(Len(data))
                            \/ Shrink(Len(data))
  \/ \E x \in Ints : AppendInt(x) \/ PrependInt(x)
  \/ \E len \in 0..Len(content) : Retrieve(len) \/ Unwrite(len)

Spec == Init /\ [][Next]_vars

-----------------------------------------------------------------------------
TypeOK ==
  /\ buf.size \in Nat /\ buf.mem \in [0..(buf.size - 1) -> Byte]
  /\ buf.reader \in Nat /\ buf.writer \in Nat
  /\ content \in Seq(Byte) /\ peak \in Nat /\ longest \in Nat

(* 0 <= readerIndex <= writerIndex <= size, as the picture in buffer.h has it, and
   what a reader finds is exactly what was put in and not taken out, integers in
   network order, whichever operations moved the content, grew the vector or went
   through extrabuf. *)
ContentExact ==
  /\ TypeOK
  /\ buf.reader <= buf.writer /\ buf.writer <= buf.size
  /\ Content(buf) = content

(* However long it is used, the vector does not outgrow what it held at once by
   more than twice the largest request: makeSpace() moves the content when that is enough. *)
SizeBounded == buf.size <= kCheapPrepend + Greater(kInitialSize, peak + 2 * longest)
=============================================================================

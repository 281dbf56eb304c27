------------------------------- MODULE LogFile -------------------------------
(***************************************************************************)
(* fishnet/base/log_file.{h,cc} and AppendFile of file_util.cc: a log that     *)
(* begins a new file when the old one is too large or its day is over.  The    *)
(* operations are operators on the record log; the clock does not move within  *)
(* a call.                                                                     *)
(***************************************************************************)
EXTENDS Naturals, Sequences

CONSTANTS
  rollSize_,          \* in lines
  flushInterval_, checkEveryN_,
  kRollPerSeconds_,   \* 86400 in the code
  MaxTime             \* bound on the clock

ASSUME LogFileConstants ==
  /\ {rollSize_, flushInterval_, MaxTime} \subseteq Nat
  /\ {checkEveryN_, kRollPerSeconds_} \subseteq Nat \ {0}

VARIABLES
  now,        \* time(2), never 0
  setBack,    \* somebody set the clock back
  log         \* LogFile and its AppendFile; see NewLog

Period(t) == (t \div kRollPerSeconds_) * kRollPerSeconds_

NewLog ==
  [files |-> <<>>,       \* name (the time it was opened) and lines of each file
   writtenBytes_ |-> 0,
   unflushed |-> 0,      \* lines that may still be in the buffer of file_
   count_ |-> 0, startOfPeriod_ |-> 0, lastRoll_ |-> 0, lastFlush_ |-> 0,
   appended |-> 0,       \* history: when file_ was last appended to
   late |-> 0]           \* history: appends to file_ after its period was over

MayRoll_Again(L) == now >= L.lastRoll_

MayRoll(L) == now > L.lastRoll_

(* The old file is closed, which flushes it. *)
rollFile(L) ==
  IF MayRoll(L)
  THEN [L EXCEPT !.lastRoll_ = now, !.lastFlush_ = now, !.startOfPeriod_ = Period(now),
                 !.files = Append(@, [name |-> now, lines |-> <<>>]),
                 !.writtenBytes_ = 0, !.unflushed = 0, !.late = 0]
  ELSE L

(* AppendFile::append(): fwrite() took the first n of data and, if that is not all,
   then failed; the whole counts as written. *)
fileAppend(L, data, n) ==
  [L EXCEPT !.files = [L.files EXCEPT ![Len(L.files)].lines = @ \o SubSeq(data, 1, n)],
            !.writtenBytes_ = @ + Len(data), !.unflushed = @ + Len(data),
            !.appended = now,
            !.late = @ + (IF Period(now) > L.startOfPeriod_ THEN 1 ELSE 0)]

flush(L) == [L EXCEPT !.unflushed = 0]

(* The time is looked at once in checkEveryN_ appends. *)
CheckTime(L) ==
  IF Period(now) # L.startOfPeriod_ THEN rollFile(L)
  ELSE IF now > L.lastFlush_ + flushInterval_ THEN flush([L EXCEPT !.lastFlush_ = now])
  ELSE L

appendUnlocked(L, data, n) ==
  LET A == fileAppend(L, data, n)
  IN  IF A.writtenBytes_ > rollSize_ THEN rollFile(A)
      ELSE IF A.count_ + 1 >= checkEveryN_ THEN CheckTime([A EXCEPT !.count_ = 0])
      ELSE [A EXCEPT !.count_ = @ + 1]

-----------------------------------------------------------------------------
LogInit == now = 1 /\ setBack = FALSE /\ log = NewLog

Tick == now < MaxTime /\ now' = now + 1 /\ UNCHANGED <<setBack, log>>

ClockSetBack ==
  /\ ~setBack /\ setBack' = TRUE
  /\ \E t \in 1..(now - 1) : now' = t
  /\ UNCHANGED log

-----------------------------------------------------------------------------
(* No file is opened twice, even if the clock is set back: names increase.  A file
   outgrows rollSize_ by more than one append only within the second it was opened,
   in which it has no successor.  Once its day is over a file gets fewer than
   checkEveryN_ more appends. *)
FilesRolled ==
  /\ \A i, j \in DOMAIN log.files : i < j => log.files[i].name < log.files[j].name
  /\ log.writtenBytes_ > rollSize_ => log.appended <= log.lastRoll_
  /\ ~setBack => log.late < checkEveryN_
=============================================================================

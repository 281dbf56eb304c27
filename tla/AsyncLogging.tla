---------------------------- MODULE AsyncLogging ----------------------------
(***************************************************************************)
(* fishnet/base/async_logging.{h,cc}: threads append lines to buffers under a  *)
(* mutex, one thread swaps the buffers out and writes them to the file.  A     *)
(* line is its number.  append() and the logging thread's critical section are *)
(* single steps, except that waitForSeconds() gives the mutex back.            *)
(***************************************************************************)
EXTENDS LogFile, Functions

CONSTANTS
  Capacity,     \* lines that fit in a buffer (kLargerBuffer)
  DropAbove,    \* more buffers than this are dropped (25 in the code)
  MaxLines,     \* bound on the lines appended
  MaxFailures   \* bound on the writes that fail

ASSUME LoggingConstants ==
  Capacity \in Nat \ {0} /\ DropAbove \in Nat \ {0} /\ DropAbove >= 2 /\ MaxLines \in Nat /\ MaxFailures \in Nat

VARIABLES
  running_, currentBuffer_, buffers_,
  nextBuffer_,                \* it holds an (empty) buffer
  newBuffer1, newBuffer2,     \* locals of threadFunc(): the same
  buffersToWrite,
  next,       \* the next of buffersToWrite to be written
  pc,         \* the logging thread
  owner,      \* the thread that starts and stops it
  lines,      \* lines appended so far
  dropped,    \* lines thrown away
  lost,       \* lines a write failed on
  failures    \* writes that failed

shared == <<running_, currentBuffer_, nextBuffer_, buffers_>>
locals == <<newBuffer1, newBuffer2, buffersToWrite, next>>
output == <<now, setBack, log, dropped, lost, failures>>
vars   == <<shared, locals, pc, owner, lines, output>>

Init ==
  /\ running_ = FALSE
  /\ currentBuffer_ = <<>> /\ nextBuffer_ = TRUE /\ buffers_ = <<>>
  /\ newBuffer1 = TRUE /\ newBuffer2 = TRUE /\ buffersToWrite = <<>> /\ next = 1
  /\ pc = "none" /\ owner = "new" /\ lines = 0
  /\ LogInit /\ dropped = {} /\ lost = {} /\ failures = 0

-----------------------------------------------------------------------------
(* append(), in any thread, before start() and after stop() too *)
Line == lines + 1

(* avail() > len *)
HasRoom == Len(currentBuffer_) < Capacity

AppendHere ==
  /\ currentBuffer_' = Append(currentBuffer_, Line)
  /\ UNCHANGED <<nextBuffer_, buffers_, pc>>

(* cond_.notify() of append() *)
NotifyFull == pc' = IF pc = "wait" THEN "woken" ELSE pc

(* currentBuffer_ is taken over from nextBuffer_, or allocated. *)
NextCurrent == currentBuffer_' = <<Line>> /\ nextBuffer_' = FALSE

AppendNext ==
  /\ buffers_' = Append(buffers_, currentBuffer_)
  /\ NextCurrent
  /\ NotifyFull

AppendLine ==
  /\ lines < MaxLines
  /\ lines' = lines + 1
  /\ IF HasRoom THEN AppendHere ELSE AppendNext
  /\ UNCHANGED <<running_, locals, owner, output>>

-----------------------------------------------------------------------------
(* threadFunc() *)

CountDown ==
  /\ pc = "start"
  /\ pc' = "open"
  /\ UNCHANGED <<shared, locals, owner, lines, output>>

OpenLog ==
  /\ pc = "open"
  /\ log' = rollFile(NewLog)
  /\ pc' = "test"
  /\ UNCHANGED <<shared, locals, owner, lines, now, setBack, dropped, lost, failures>>

TestRunning ==
  /\ pc = "test"
  /\ pc' = IF running_ THEN "lock" ELSE "done"
  /\ UNCHANGED <<shared, locals, owner, lines, output>>

Wait ==
  /\ pc = "lock" /\ buffers_ = <<>>
  /\ pc' = "wait"
  /\ UNCHANGED <<shared, locals, owner, lines, output>>

TimeOut_Never == FALSE

(* flushInterval_ has passed, or a spurious wakeup. *)
TimeOut == pc = "wait"

AllBuffers_CurrentFirst == <<currentBuffer_>> \o buffers_

(* currentBuffer_ is written too, though it is not full. *)
AllBuffers == Append(buffers_, currentBuffer_)

(* if (!nextBuffer_) nextBuffer_ = std::move(newBuffer2) *)
RestoreNext ==
  IF nextBuffer_ THEN UNCHANGED <<nextBuffer_, newBuffer2>>
  ELSE nextBuffer_' = newBuffer2 /\ newBuffer2' = FALSE

(* The rest of the critical section *)
SwapBuffers ==
  /\ \/ pc = "lock" /\ buffers_ # <<>>
     \/ pc = "woken"
     \/ TimeOut
  /\ buffersToWrite' = AllBuffers
  /\ buffers_' = <<>>
  /\ currentBuffer_' = <<>> /\ newBuffer1' = FALSE
  /\ RestoreNext
  /\ next' = 1
  /\ pc' = "swapped"
  /\ UNCHANGED <<running_, owner, lines, output>>

Kept_Last(bs) == SubSeq(bs, Len(bs) - 1, Len(bs))

(* What is left of buffersToWrite when there are too many. *)
Kept(bs) == SubSeq(bs, 1, 2)

(* The line that tells of dropped buffers *)
Notice == 0

(* The lines of buffers *)
Lines(bs) == UNION {Range(bs[i]) : i \in DOMAIN bs}

(* output.append(): a write may fail. *)
OutputAppend(data) ==
  \E n \in 0..Len(data) :
    /\ n < Len(data) => failures < MaxFailures
    /\ failures' = IF n < Len(data) THEN failures + 1 ELSE failures
    /\ lost' = lost \cup (Range(SubSeq(data, n + 1, Len(data))) \ {Notice})
    /\ log' = appendUnlocked(log, data, n)

DropBuffers ==
  /\ pc = "swapped"
  /\ pc' = "write"
  /\ IF Len(buffersToWrite) > DropAbove
     THEN /\ OutputAppend(<<Notice>>)
          /\ buffersToWrite' = Kept(buffersToWrite)
          /\ dropped' = dropped \cup (Lines(buffersToWrite) \ Lines(buffersToWrite'))
     ELSE UNCHANGED <<buffersToWrite, log, dropped, lost, failures>>
  /\ UNCHANGED <<shared, newBuffer1, newBuffer2, next, owner, lines, now, setBack>>

WriteBuffer ==
  /\ pc = "write" /\ next <= Len(buffersToWrite)
  /\ OutputAppend(buffersToWrite[next])
  /\ next' = next + 1
  /\ UNCHANGED <<shared, newBuffer1, newBuffer2, buffersToWrite, pc, owner, lines, now, setBack, dropped>>

RoundFlush_Interval(L) == CheckTime(L)

(* output.flush() at the end of a round *)
RoundFlush(L) == flush(L)

(* Two of the buffers are taken back for newBuffer1 and newBuffer2. *)
EndRound ==
  /\ pc = "write" /\ next > Len(buffersToWrite)
  /\ LET left == IF newBuffer1 THEN Len(buffersToWrite) ELSE Len(buffersToWrite) - 1
     IN /\ newBuffer1' = (newBuffer1 \/ buffersToWrite # <<>>)
        /\ newBuffer2' = (newBuffer2 \/ left >= 1)
  /\ buffersToWrite' = <<>> /\ next' = 1
  /\ log' = RoundFlush(log)
  /\ pc' = "test"
  /\ UNCHANGED <<shared, owner, lines, now, setBack, dropped, lost, failures>>

-----------------------------------------------------------------------------
(* start() and stop() *)

Start ==
  /\ owner = "new"
  /\ running_' = TRUE
  /\ pc' = "start" /\ owner' = "latch"
  /\ UNCHANGED <<currentBuffer_, nextBuffer_, buffers_, locals, lines, output>>

Started ==
  /\ owner = "latch" /\ pc # "start"
  /\ owner' = "started"
  /\ UNCHANGED <<shared, locals, pc, lines, output>>

Stop ==
  /\ owner = "started"
  /\ running_' = FALSE
  /\ owner' = "notify"
  /\ UNCHANGED <<currentBuffer_, nextBuffer_, buffers_, locals, pc, lines, output>>

(* cond_.notify(), without the mutex *)
StopNotify ==
  /\ owner = "notify"
  /\ pc' = IF pc = "wait" THEN "woken" ELSE pc
  /\ owner' = "join"
  /\ UNCHANGED <<shared, locals, lines, output>>

Join ==
  /\ owner = "join" /\ pc = "done"
  /\ owner' = "stopped"
  /\ UNCHANGED <<shared, locals, pc, lines, output>>

-----------------------------------------------------------------------------
ThreadStep == CountDown \/ TestRunning \/ Wait \/ SwapBuffers
              \/ OpenLog \/ DropBuffers \/ WriteBuffer \/ EndRound

(* Time passes; only output reads the clock, so it moves just before that. *)
Clock ==
  /\ \/ pc = "swapped" /\ Len(buffersToWrite) > DropAbove
     \/ pc = "write" /\ next <= Len(buffersToWrite)
  /\ Tick \/ ClockSetBack
  /\ UNCHANGED <<shared, locals, pc, owner, lines, dropped, lost, failures>>

Next == AppendLine \/ ThreadStep \/ Start \/ Started \/ Stop \/ StopNotify \/ Join \/ Clock

Spec == Init /\ [][Next]_vars

(* The logging thread runs, waitForSeconds() times out, and the owner goes on. *)
FairSpec ==
  Spec /\ WF_vars(ThreadStep) /\ WF_vars(Started) /\ WF_vars(StopNotify) /\ WF_vars(Join)

-----------------------------------------------------------------------------
Written == [i \in DOMAIN log.files |-> log.files[i].lines]

(* Where the lines are, from the first file to the current buffer *)
Places == Written \o SubSeq(buffersToWrite, next, Len(buffersToWrite)) \o Append(buffers_, currentBuffer_)

(* But for notices, lines increase from one to the next. *)
Ascending(bs) ==
  \A i, j \in DOMAIN bs : \A k \in DOMAIN bs[i], l \in DOMAIN bs[j] :
    i < j \/ (i = j /\ k < l) => bs[i][k] < bs[j][l] \/ Notice \in {bs[i][k], bs[j][l]}

(* Lines reach the files in the order of append(), each once, and no line is cut out
   by going over to the next file; only lines of dropped buffers and of failed writes
   are missing.  The files, the buffers still to be written, the full buffers and the
   current one together hold every other line. *)
LinesInOrder ==
  /\ Ascending(Places)
  /\ Lines(Places) \ {Notice} = (1..lines) \ (dropped \cup lost)

(* However many buffers append() used up, the logging thread gets two back (the
   asserts at the top of threadFunc()'s loop and before pop_back()); append() is
   without a spare buffer only while there is a full one to be written; and nothing
   waits in the file's own buffer while the logging thread sleeps or has ended. *)
RoundComplete ==
  /\ pc = "lock" => newBuffer1 /\ newBuffer2 /\ buffersToWrite = <<>>
  /\ ~nextBuffer_ => buffers_ # <<>>
  /\ pc \in {"lock", "wait", "woken", "done"} => log.unflushed = 0

(* When a burst is dropped, its oldest two buffers are what is kept: no line of the
   burst later than a dropped one is written. *)
DropsNewest ==
  [][\A n \in dropped' \ dropped : \A m \in Lines(buffersToWrite') : m < n]_vars

(* Every line is written, dropped or lost to a failed write as long as the logger is
   not stopped, and stop() returns although it notifies without the mutex: the wait
   is timed. *)
LoggerProgress ==
  /\ \A n \in 1..MaxLines :
       (lines >= n /\ owner = "started") ~>
         (n \in Lines(Written) \cup dropped \cup lost \/ owner # "started")
  /\ owner = "notify" ~> owner = "stopped"
=============================================================================

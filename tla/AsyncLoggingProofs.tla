------------------------- MODULE AsyncLoggingProofs -------------------------
(***************************************************************************)
(* What the logging thread promises, for any number of lines, buffers, files  *)
(* and failed writes, and any sizes: files are rolled as they should, the two *)
(* spare buffers come back after every round, and lines reach the files in    *)
(* order.                                                                     *)
(***************************************************************************)
EXTENDS AsyncLogging, TLAPS

-----------------------------------------------------------------------------
(* Sequences *)

(* The values of a sequence are in its set. *)
LEMMA Elements == ASSUME NEW S, NEW q \in Seq(S)
                  PROVE  Len(q) \in Nat /\ DOMAIN q = 1..Len(q) /\ \A i \in 1..Len(q) : q[i] \in S
OBVIOUS

(* Append() adds one element at the end. *)
LEMMA Appended ==
  ASSUME NEW S, NEW q \in Seq(S), NEW e \in S
  PROVE  /\ Append(q, e) \in Seq(S) /\ Len(Append(q, e)) = Len(q) + 1
         /\ \A i \in 1..Len(q) : Append(q, e)[i] = q[i]
         /\ Append(q, e)[Len(q) + 1] = e /\ Append(q, e) # <<>>
OBVIOUS

(* Two sequences one after the other. *)
LEMMA Concatenated ==
  ASSUME NEW S, NEW p \in Seq(S), NEW q \in Seq(S)
  PROVE  /\ p \o q \in Seq(S) /\ Len(p \o q) = Len(p) + Len(q)
         /\ \A i \in 1..Len(p) : (p \o q)[i] = p[i]
         /\ \A i \in 1..Len(q) : (p \o q)[Len(p) + i] = q[i]
OBVIOUS

(* A part of a sequence. *)
LEMMA PartOf ==
  ASSUME NEW S, NEW q \in Seq(S), NEW a \in Nat \ {0}, NEW b \in 0..Len(q), a <= b + 1
  PROVE  /\ SubSeq(q, a, b) \in Seq(S) /\ Len(SubSeq(q, a, b)) = b + 1 - a
         /\ \A i \in 1..(b + 1 - a) : SubSeq(q, a, b)[i] = q[a + i - 1]
OBVIOUS

-----------------------------------------------------------------------------
(* LogFile *)

File == [name : Nat, lines : Seq(Nat)]

LogType ==
  [files : Seq(File), writtenBytes_ : Nat, unflushed : Nat, count_ : Nat, startOfPeriod_ : Nat,
   lastRoll_ : Nat, lastFlush_ : Nat, appended : Nat, late : Nat]

(* The period of a later time is no earlier: both are multiples of
   kRollPerSeconds_. *)
LEMMA PeriodMonotonic ==
  ASSUME NEW a \in Nat, NEW b \in Nat, a <= b
  PROVE  Period(a) \in Nat /\ Period(b) \in Nat /\ Period(a) <= Period(b)
<1> DEFINE k == kRollPerSeconds_
<1>1. k \in Nat \ {0}
  BY LogFileConstants
<1> HIDE DEF k
<1>2. ASSUME NEW x \in Nat
      PROVE  /\ x \div k \in Nat /\ (x \div k) * k \in Nat
             /\ (x \div k) * k <= x /\ x < (x \div k) * k + k
  BY <1>1, <1>2
<1>3. a \div k <= b \div k
  <2> DEFINE p == a \div k
             q == b \div k
  <2>1. p \in Nat /\ q \in Nat /\ p * k <= a /\ b < q * k + k
    BY <1>2
  <2> HIDE DEF p, q
  <2>2. ASSUME p > q PROVE FALSE
    <3>1. (q + 1) * k = q * k + k
      BY <1>1, <2>1
    <3>2. (q + 1) * k <= p * k
      BY <1>1, <2>1, <2>2
    <3> QED BY <1>1, <2>1, <3>1, <3>2
  <2> QED BY <2>1, <2>2 DEF p, q
<1>4. (a \div k) * k <= (b \div k) * k
  BY <1>1, <1>2, <1>3
<1> QED BY <1>2, <1>4 DEF Period, k

(* The names of the files are in order, up to lastRoll_. *)
Names(L) ==
  /\ \A i \in DOMAIN L.files : L.files[i].name <= L.lastRoll_
  /\ \A i, j \in DOMAIN L.files : i < j => L.files[i].name < L.files[j].name
  /\ L.count_ < checkEveryN_
  /\ L.startOfPeriod_ = Period(L.lastRoll_)

(* What FilesRolled needs at time t: unless the clock was set back, an append after
   the end of the period counts towards the next look at the clock. *)
LogOK(L, t, back) ==
  /\ L \in LogType /\ Names(L)
  /\ L.writtenBytes_ > rollSize_ => L.appended <= L.lastRoll_
  /\ ~back => /\ L.lastRoll_ <= t /\ L.late <= L.count_
              /\ L.late > 0 => Period(t) > L.startOfPeriod_

(* rollFile() *)
LEMMA RollFile ==
  ASSUME NEW L \in LogType, now \in Nat
  PROVE  /\ rollFile(L) \in LogType
         /\ now <= L.lastRoll_ => rollFile(L) = L
         /\ now > L.lastRoll_ =>
              /\ rollFile(L).files = Append(L.files, [name |-> now, lines |-> <<>>])
              /\ rollFile(L).lastRoll_ = now /\ rollFile(L).startOfPeriod_ = Period(now)
              /\ rollFile(L).writtenBytes_ = 0 /\ rollFile(L).unflushed = 0 /\ rollFile(L).late = 0
              /\ rollFile(L).count_ = L.count_ /\ rollFile(L).appended = L.appended
<1>1. Period(now) \in Nat
  BY PeriodMonotonic
<1>2. CASE now <= L.lastRoll_
  BY <1>2 DEF rollFile, MayRoll, LogType
<1>3. CASE now > L.lastRoll_
  <2>1. [name |-> now, lines |-> <<>>] \in File
    BY DEF File
  <2>2. Append(L.files, [name |-> now, lines |-> <<>>]) \in Seq(File)
    BY <2>1, Appended DEF LogType
  <2>3. rollFile(L) = [L EXCEPT !.lastRoll_ = now, !.lastFlush_ = now, !.startOfPeriod_ = Period(now),
                 !.files = Append(@, [name |-> now, lines |-> <<>>]),
                 !.writtenBytes_ = 0, !.unflushed = 0, !.late = 0]
    BY <1>3, Zenon DEF rollFile, MayRoll
  <2> DEFINE fs == Append(L.files, [name |-> now, lines |-> <<>>])
             p == Period(now)
  <2> HIDE DEF fs, p
  <2>4. rollFile(L) = [files |-> fs, writtenBytes_ |-> 0, unflushed |-> 0, count_ |-> L.count_,
                       startOfPeriod_ |-> p, lastRoll_ |-> now, lastFlush_ |-> now,
                       appended |-> L.appended, late |-> 0]
    BY <2>3, Zenon DEF LogType, fs, p
  <2>5. rollFile(L) \in LogType
    BY <1>1, <2>2, <2>4 DEF LogType, fs, p
  <2>6. ~(now <= L.lastRoll_)
    BY <1>3 DEF LogType
  <2> QED BY <2>4, <2>5, <2>6 DEF fs, p
<1> QED BY <1>2, <1>3 DEF LogType

(* rollFile() keeps all of it, and makes it true again of a file that outgrew
   rollSize_ or its period. *)
LEMMA RollFileOK ==
  ASSUME NEW L \in LogType, now \in Nat, setBack \in BOOLEAN, Names(L), ~setBack => L.lastRoll_ <= now,
         now <= L.lastRoll_ => L.appended <= L.lastRoll_ /\ (~setBack => L.late = 0)
  PROVE  LogOK(rollFile(L), now, setBack)
<1>1. L.lastRoll_ \in Nat /\ L.count_ \in Nat
  BY DEF LogType
<1>2. CASE now <= L.lastRoll_
  <2>1. rollFile(L) = L
    BY <1>2, RollFile
  <2>2. ~setBack => L.late <= L.count_ /\ ~(L.late > 0)
    BY <1>1, <1>2
  <2> QED BY <1>2, <2>1, <2>2 DEF LogOK
<1>3. CASE now > L.lastRoll_
  <2> DEFINE R == rollFile(L)
             m == Len(L.files)
  <2>1. /\ R \in LogType /\ R.files = Append(L.files, [name |-> now, lines |-> <<>>])
        /\ R.lastRoll_ = now /\ R.startOfPeriod_ = Period(now) /\ R.writtenBytes_ = 0
        /\ R.late = 0 /\ R.count_ = L.count_
    BY <1>3, RollFile
  <2> HIDE DEF R
  <2>2. /\ L.files \in Seq(File) /\ [name |-> now, lines |-> <<>>] \in File
        /\ \A i \in 1..m : L.files[i].name \in Nat
    <3>1. L.files \in Seq(File)
      BY DEF LogType
    <3>2. \A i \in 1..m : L.files[i] \in File
      BY <3>1, Elements
    <3>3. [name |-> now, lines |-> <<>>] \in File
      BY DEF File
    <3> QED BY <3>1, <3>2, <3>3 DEF File
  <2>3. /\ DOMAIN R.files = 1..(m + 1) /\ DOMAIN L.files = 1..m /\ m \in Nat
        /\ \A i \in 1..m : R.files[i] = L.files[i]
        /\ R.files[m + 1].name = now
    BY <2>1, <2>2, Appended, Elements
  <2>4. /\ \A i \in DOMAIN L.files : L.files[i].name <= L.lastRoll_
        /\ \A i, j \in DOMAIN L.files : i < j => L.files[i].name < L.files[j].name
        /\ L.count_ < checkEveryN_
    BY DEF Names
  <2>5. ASSUME NEW i \in DOMAIN R.files PROVE R.files[i].name <= now
    <3>1. CASE i = m + 1
      BY <2>3, <3>1
    <3>2. CASE i \in 1..m
      BY <1>1, <1>3, <2>2, <2>3, <2>4, <3>2
    <3> QED BY <2>3, <3>1, <3>2
  <2>6. ASSUME NEW i \in DOMAIN R.files, NEW j \in DOMAIN R.files, i < j
        PROVE  R.files[i].name < R.files[j].name
    <3>1. i \in 1..m /\ L.files[i].name < now
      BY <1>1, <1>3, <2>2, <2>3, <2>4, <2>6
    <3>2. CASE j = m + 1
      BY <2>3, <3>1, <3>2
    <3>3. CASE j \in 1..m
      BY <2>3, <2>4, <2>6, <3>1, <3>3
    <3> QED BY <2>3, <3>2, <3>3
  <2>7. Names(R)
    BY <2>1, <2>4, <2>5, <2>6 DEF Names
  <2>8. ~(0 > rollSize_) /\ 0 <= L.count_ /\ ~(0 > 0) /\ now <= now
    BY <1>1, LogFileConstants
  <2> QED BY <2>1, <2>7, <2>8 DEF LogOK, R
<1> QED BY <1>1, <1>2, <1>3

(* AppendFile::append(): the last file gets the lines that were written. *)
LEMMA FileAppend ==
  ASSUME NEW L \in LogType, now \in Nat, L.files # <<>>,
         NEW data \in Seq(Nat), NEW n \in 0..Len(data)
  PROVE  LET A == fileAppend(L, data, n)
             m == Len(L.files)
         IN  /\ A \in LogType /\ m \in Nat \ {0} /\ Len(A.files) = m
             /\ \A i \in 1..m : A.files[i].name = L.files[i].name
             /\ \A i \in 1..(m - 1) : A.files[i] = L.files[i]
             /\ A.files[m].lines = L.files[m].lines \o SubSeq(data, 1, n)
             /\ A.lastRoll_ = L.lastRoll_ /\ A.startOfPeriod_ = L.startOfPeriod_ /\ A.count_ = L.count_
             /\ A.appended = now
             /\ A.late = L.late + (IF Period(now) > L.startOfPeriod_ THEN 1 ELSE 0)
<1> DEFINE A == fileAppend(L, data, n)
           m == Len(L.files)
           add == SubSeq(data, 1, n)
           fs == [L.files EXCEPT ![m].lines = @ \o add]
           more == IF Period(now) > L.startOfPeriod_ THEN 1 ELSE 0
<1>1. L.files \in Seq(File) /\ m \in Nat \ {0}
  BY DEF LogType
<1>2. L.files[m] \in File /\ L.files[m].lines \in Seq(Nat)
  <2>1. m \in 1..m
    BY <1>1
  <2>2. L.files[m] \in File
    BY <1>1, <2>1, Elements
  <2> QED BY <2>2 DEF File
<1>3. add \in Seq(Nat) /\ Len(data) \in Nat /\ more \in Nat
  BY PartOf
<1>4. L.files[m].lines \o add \in Seq(Nat)
  BY <1>2, <1>3, Concatenated
<1> HIDE DEF add, more
<1>5. /\ fs \in Seq(File) /\ Len(fs) = m
      /\ \A i \in 1..m : fs[i].name = L.files[i].name
      /\ \A i \in 1..(m - 1) : fs[i] = L.files[i]
      /\ fs[m].lines = L.files[m].lines \o add
  <2> DEFINE f == [L.files[m] EXCEPT !.lines = @ \o add]
  <2>1. f \in File /\ f.name = L.files[m].name /\ f.lines = L.files[m].lines \o add
    <3> DEFINE g == L.files[m]
               l == L.files[m].lines \o add
    <3>1. g \in File /\ l \in Seq(Nat) /\ f = [g EXCEPT !.lines = l] /\ l = g.lines \o add
      BY <1>2, <1>4, Zenon
    <3> HIDE DEF g, l, f
    <3> QED BY <3>1, Zenon DEF File, g
  <2>2. fs = [L.files EXCEPT ![m] = f]
    BY Zenon
  <2> HIDE DEF f, fs
  <2>3. fs \in Seq(File) /\ Len(fs) = m /\ fs[m] = f /\ \A i \in 1..(m - 1) : fs[i] = L.files[i]
    BY <1>1, <2>1, <2>2
  <2>4. \A i \in 1..m : i = m \/ i \in 1..(m - 1)
    BY <1>1
  <2> QED BY <2>1, <2>3, <2>4, Zenon
<1> HIDE DEF fs
<1>6. A = [L EXCEPT !.files = fs, !.writtenBytes_ = @ + Len(data), !.unflushed = @ + Len(data),
                    !.appended = now, !.late = @ + more]
  BY Zenon DEF fileAppend, fs, add, more
<1>7. A = [files |-> fs, writtenBytes_ |-> L.writtenBytes_ + Len(data),
           unflushed |-> L.unflushed + Len(data), count_ |-> L.count_,
           startOfPeriod_ |-> L.startOfPeriod_, lastRoll_ |-> L.lastRoll_, lastFlush_ |-> L.lastFlush_,
           appended |-> now, late |-> L.late + more]
  BY <1>6, Zenon DEF LogType
<1>8. A \in LogType
  <2>1. /\ L.writtenBytes_ + Len(data) \in Nat /\ L.unflushed + Len(data) \in Nat /\ L.late + more \in Nat
        /\ {L.count_, L.startOfPeriod_, L.lastRoll_, L.lastFlush_} \subseteq Nat
    <3> HIDE DEF A
    <3>1. L.writtenBytes_ \in Nat /\ L.unflushed \in Nat /\ L.late \in Nat
      BY DEF LogType
    <3>2. {L.count_, L.startOfPeriod_, L.lastRoll_, L.lastFlush_} \subseteq Nat
      BY DEF LogType
    <3>3. L.writtenBytes_ + Len(data) \in Nat /\ L.unflushed + Len(data) \in Nat /\ L.late + more \in Nat
      BY <1>3, <3>1, SMTT(40)
    <3> QED BY <3>2, <3>3
  <2> HIDE DEF A
  <2> QED BY <1>5, <1>7, <2>1 DEF LogType
<1> HIDE DEF A
<1>9. /\ A.files = fs /\ A.lastRoll_ = L.lastRoll_ /\ A.startOfPeriod_ = L.startOfPeriod_
      /\ A.count_ = L.count_ /\ A.appended = now /\ A.late = L.late + more
  BY <1>7
<1> QED BY <1>1, <1>5, <1>8, <1>9, Zenon DEF A, add, more

(* CheckTime(): a new file, a flush or nothing. *)
LEMMA CheckTimeIs ==
  ASSUME NEW L \in LogType, now \in Nat, Period(now) = L.startOfPeriod_
  PROVE  LET C == CheckTime(L)
         IN  /\ C \in LogType /\ C.files = L.files /\ C.writtenBytes_ = L.writtenBytes_
             /\ C.count_ = L.count_ /\ C.startOfPeriod_ = L.startOfPeriod_
             /\ C.lastRoll_ = L.lastRoll_ /\ C.appended = L.appended /\ C.late = L.late
<1>1. CheckTime(L) = [L EXCEPT !.lastFlush_ = now, !.unflushed = 0] \/ CheckTime(L) = L
  <2>1. flush([L EXCEPT !.lastFlush_ = now]) = [L EXCEPT !.lastFlush_ = now, !.unflushed = 0]
    BY DEF flush
  <2> QED BY <2>1 DEF CheckTime
<1> DEFINE C == CheckTime(L)
<1> HIDE DEF C
<1>2. CASE C = [L EXCEPT !.lastFlush_ = now, !.unflushed = 0]
  <2>1. C = [files |-> L.files, writtenBytes_ |-> L.writtenBytes_, unflushed |-> 0, count_ |-> L.count_,
             startOfPeriod_ |-> L.startOfPeriod_, lastRoll_ |-> L.lastRoll_, lastFlush_ |-> now,
             appended |-> L.appended, late |-> L.late]
    BY <1>2, Zenon DEF LogType
  <2>2. C \in LogType
    BY <2>1 DEF LogType
  <2> QED BY <2>1, <2>2 DEF C
<1>3. CASE C = L
  BY <1>3 DEF LogType, C
<1> QED BY <1>1, <1>2, <1>3 DEF C

(* appendUnlocked() keeps the file names in order, the size and the lateness of the
   last file within their limits. *)
LEMMA AppendOK ==
  ASSUME NEW L, LogOK(L, now, setBack), now \in Nat, setBack \in BOOLEAN, L.files # <<>>,
         NEW data \in Seq(Nat), NEW n \in 0..Len(data)
  PROVE  LogOK(appendUnlocked(L, data, n), now, setBack)
<1> DEFINE A == fileAppend(L, data, n)
           m == Len(L.files)
<1>1. L \in LogType
  BY DEF LogOK
<1>2. /\ A \in LogType /\ m \in Nat \ {0} /\ Len(A.files) = m
      /\ \A i \in 1..m : A.files[i].name = L.files[i].name
      /\ A.lastRoll_ = L.lastRoll_ /\ A.startOfPeriod_ = L.startOfPeriod_ /\ A.count_ = L.count_
      /\ A.appended = now
      /\ A.late = L.late + (IF Period(now) > L.startOfPeriod_ THEN 1 ELSE 0)
  BY <1>1, FileAppend, Zenon
<1> HIDE DEF A
<1>3. DOMAIN L.files = 1..m /\ DOMAIN A.files = 1..m
  BY <1>1, <1>2, Elements DEF LogType
<1>4. Names(A) /\ (~setBack => A.lastRoll_ <= now)
  BY <1>2, <1>3 DEF LogOK, Names
<1>5. /\ A.count_ \in Nat /\ A.late \in Nat /\ L.late \in Nat /\ L.count_ \in Nat
      /\ A.lastRoll_ \in Nat /\ A.writtenBytes_ \in Nat
      /\ checkEveryN_ \in Nat \ {0} /\ rollSize_ \in Nat
  BY <1>1, <1>2, LogFileConstants, Zenon DEF LogType
<1>6. Period(now) \in Nat /\ Period(A.lastRoll_) \in Nat
  <2>1. \A t \in Nat : t <= t
    OBVIOUS
  <2> QED BY <1>5, <2>1, PeriodMonotonic, Zenon
<1>7. ~setBack => /\ A.late <= A.count_ + 1
                  /\ A.late > 0 => Period(now) > A.startOfPeriod_
  BY <1>2, <1>4, <1>5, <1>6 DEF LogOK
<1>8. ~setBack /\ Period(now) > A.startOfPeriod_ => now > A.lastRoll_
  <2>1. now <= A.lastRoll_ => Period(now) <= Period(A.lastRoll_)
    BY <1>5, PeriodMonotonic, Zenon
  <2> QED BY <1>4, <1>5, <1>6, <2>1 DEF Names
<1>9. CASE A.writtenBytes_ > rollSize_
  <2>1. appendUnlocked(L, data, n) = rollFile(A)
    BY <1>9 DEF appendUnlocked, A
  <2>2. now <= A.lastRoll_ => A.appended <= A.lastRoll_ /\ (~setBack => A.late = 0)
    BY <1>2, <1>5, <1>7, <1>8
  <2> QED BY <1>2, <1>4, <2>1, <2>2, RollFileOK
<1>10. CASE A.writtenBytes_ <= rollSize_ /\ A.count_ + 1 < checkEveryN_
  <2> DEFINE B == [A EXCEPT !.count_ = @ + 1]
  <2>1. appendUnlocked(L, data, n) = B
    <3>1. ~(A.writtenBytes_ > rollSize_) /\ ~(A.count_ + 1 >= checkEveryN_)
      BY <1>5, <1>10
    <3> QED BY <3>1, Zenon DEF appendUnlocked, A
  <2>2. /\ B \in LogType /\ B.files = A.files /\ B.writtenBytes_ = A.writtenBytes_ /\ B.count_ = A.count_ + 1
        /\ B.startOfPeriod_ = A.startOfPeriod_ /\ B.lastRoll_ = A.lastRoll_ /\ B.late = A.late
    <3> DEFINE k == A.count_ + 1
    <3>1. k \in Nat
      BY <1>5
    <3>2. B = [A EXCEPT !.count_ = k]
      BY Zenon
    <3> HIDE DEF k, B
    <3> QED BY <1>2, <3>1, <3>2, Zenon DEF LogType, k
  <2> HIDE DEF B
  <2>3. Names(B)
    BY <1>4, <1>10, <2>2 DEF Names
  <2>4. ~(B.writtenBytes_ > rollSize_)
    BY <1>5, <1>10, <2>2
  <2> QED BY <1>4, <1>7, <2>1, <2>2, <2>3, <2>4 DEF LogOK
<1>11. CASE A.writtenBytes_ <= rollSize_ /\ A.count_ + 1 >= checkEveryN_
  <2> DEFINE B == [A EXCEPT !.count_ = 0]
  <2>1. appendUnlocked(L, data, n) = CheckTime(B)
    <3>1. ~(A.writtenBytes_ > rollSize_)
      BY <1>5, <1>11
    <3> QED BY <1>11, <3>1, Zenon DEF appendUnlocked, A
  <2>2. /\ B \in LogType /\ B.files = A.files /\ B.writtenBytes_ = A.writtenBytes_ /\ B.count_ = 0
        /\ B.startOfPeriod_ = A.startOfPeriod_ /\ B.lastRoll_ = A.lastRoll_ /\ B.late = A.late
        /\ B.appended = A.appended
    BY <1>2, Zenon DEF LogType
  <2> HIDE DEF B
  <2>3. Names(B)
    BY <1>4, <1>5, <2>2 DEF Names
  <2>4. CASE Period(now) # B.startOfPeriod_
    <3>1. CheckTime(B) = rollFile(B)
      BY <2>4, Zenon DEF CheckTime
    <3>2. ~setBack /\ now <= B.lastRoll_ => now = B.lastRoll_
      BY <1>4, <1>5, <2>2
    <3>3. B.startOfPeriod_ = Period(B.lastRoll_)
      BY <2>3 DEF Names
    <3>4. now <= B.lastRoll_ => B.appended <= B.lastRoll_ /\ (~setBack => B.late = 0)
      BY <1>2, <2>2, <2>4, <3>2, <3>3
    <3> QED BY <1>4, <2>1, <2>2, <2>3, <3>1, <3>4, RollFileOK
  <2>5. CASE Period(now) = B.startOfPeriod_
    <3> DEFINE C == CheckTime(B)
    <3>1. /\ C \in LogType /\ C.files = B.files /\ C.writtenBytes_ = B.writtenBytes_
          /\ C.count_ = B.count_ /\ C.startOfPeriod_ = B.startOfPeriod_
          /\ C.lastRoll_ = B.lastRoll_ /\ C.appended = B.appended /\ C.late = B.late
      BY <2>2, <2>5, CheckTimeIs
    <3> HIDE DEF C
    <3>2. Names(C)
      BY <2>3, <3>1 DEF Names
    <3>3. ~(C.writtenBytes_ > rollSize_)
      BY <1>5, <1>11, <2>2, <3>1
    <3>4. ~setBack => C.lastRoll_ <= now /\ C.late <= C.count_ /\ ~(C.late > 0)
      BY <1>4, <1>5, <1>6, <1>7, <2>2, <2>5, <3>1
    <3> QED BY <2>1, <3>1, <3>2, <3>3, <3>4 DEF LogOK, C
  <2> QED BY <2>4, <2>5
<1> QED BY <1>5, <1>9, <1>10, <1>11

(* appendUnlocked() adds lines to the last file, and nothing but perhaps an empty
   file after it. *)
LEMMA AppendShape ==
  ASSUME NEW L \in LogType, now \in Nat, L.files # <<>>,
         NEW data \in Seq(Nat), NEW n \in 0..Len(data)
  PROVE  LET R == appendUnlocked(L, data, n).files
             m == Len(L.files)
         IN  /\ m \in Nat \ {0} /\ R \in Seq(File) /\ Len(R) \in {m, m + 1}
             /\ \A i \in 1..(m - 1) : R[i].lines = L.files[i].lines
             /\ R[m].lines = L.files[m].lines \o SubSeq(data, 1, n)
             /\ Len(R) = m + 1 => R[m + 1].lines = <<>>
<1> DEFINE A == fileAppend(L, data, n)
           R == appendUnlocked(L, data, n).files
           m == Len(L.files)
           f == [name |-> now, lines |-> <<>>]
<1>1. /\ A \in LogType /\ m \in Nat \ {0} /\ Len(A.files) = m
      /\ \A i \in 1..(m - 1) : A.files[i] = L.files[i]
      /\ A.files[m].lines = L.files[m].lines \o SubSeq(data, 1, n)
  BY FileAppend, Zenon
<1>2. A.files \in Seq(File) /\ f \in File /\ f.lines = <<>>
  BY <1>1 DEF LogType, File
<1>3. ASSUME NEW X \in LogType PROVE rollFile(X).files \in {X.files, Append(X.files, f)}
  <2>1. X.lastRoll_ \in Nat
    BY DEF LogType
  <2>2. now <= X.lastRoll_ \/ now > X.lastRoll_
    BY <2>1
  <2> QED BY <2>2, RollFile
<1>4. ASSUME NEW X \in LogType PROVE CheckTime(X).files \in {X.files, Append(X.files, f)}
  <2>1. CASE Period(now) # X.startOfPeriod_
    BY <1>3, <2>1, Zenon DEF CheckTime
  <2>2. CASE Period(now) = X.startOfPeriod_
    BY <2>2, CheckTimeIs
  <2> QED BY <2>1, <2>2
<1>5. R \in {A.files, Append(A.files, f)}
  <2> HIDE DEF f, A
  <2>1. CASE A.writtenBytes_ > rollSize_
    BY <1>1, <1>3, <2>1, Zenon DEF appendUnlocked, A
  <2>2. CASE ~(A.writtenBytes_ > rollSize_) /\ A.count_ + 1 >= checkEveryN_
    <3> DEFINE B == [A EXCEPT !.count_ = 0]
    <3>1. B \in LogType /\ B.files = A.files
      BY <1>1, Zenon DEF LogType
    <3>2. appendUnlocked(L, data, n) = CheckTime(B)
      BY <2>2, Zenon DEF appendUnlocked, A
    <3> HIDE DEF B
    <3> QED BY <1>4, <3>1, <3>2
  <2>3. CASE ~(A.writtenBytes_ > rollSize_) /\ ~(A.count_ + 1 >= checkEveryN_)
    <3>1. appendUnlocked(L, data, n) = [A EXCEPT !.count_ = @ + 1]
      BY <2>3, Zenon DEF appendUnlocked, A
    <3>2. [A EXCEPT !.count_ = @ + 1].files = A.files
      BY <1>1 DEF LogType
    <3> QED BY <3>1, <3>2
  <2> QED BY <2>1, <2>2, <2>3
<1> HIDE DEF A, R, f
<1>6. CASE R = A.files
  <2>1. R \in Seq(File) /\ Len(R) = m /\ m # m + 1
    BY <1>1, <1>2, <1>6
  <2> QED BY <1>1, <1>6, <2>1, Zenon DEF R
<1>7. CASE R = Append(A.files, f)
  <2>1. /\ R \in Seq(File) /\ Len(R) = m + 1 /\ R[m + 1] = f
        /\ \A i \in 1..m : R[i] = A.files[i]
    <3>1. A.files \in Seq(File) /\ f \in File /\ Len(A.files) = m
      BY <1>1, <1>2
    <3> QED BY <1>7, <3>1, Appended
  <2>2. m \in 1..m /\ \A i \in 1..(m - 1) : i \in 1..m
    BY <1>1
  <2> QED BY <1>1, <1>2, <2>1, <2>2, Zenon DEF R
<1> QED BY <1>5, <1>6, <1>7, Zenon DEF R

-----------------------------------------------------------------------------
(* The types, and what the control state says of the buffers *)

Resting == {"none", "start", "open", "test", "lock", "wait", "woken", "done"}

TypeInv ==
  /\ {running_, nextBuffer_, newBuffer1, newBuffer2, setBack} \subseteq BOOLEAN
  /\ currentBuffer_ \in Seq(Nat) /\ buffers_ \in Seq(Seq(Nat)) /\ buffersToWrite \in Seq(Seq(Nat))
  /\ next \in 1..(Len(buffersToWrite) + 1)
  /\ lines \in Nat /\ now \in Nat \ {0}
  /\ pc \in Resting \cup {"swapped", "write"}
  /\ LogOK(log, now, setBack)

(* Between rounds the logging thread has both spare buffers, during a round it can
   take back what is missing; the log is opened before the first round, and each
   round ends with a flush. *)
RoundInv ==
  /\ ~nextBuffer_ => buffers_ # <<>>
  /\ owner = "new" => pc = "none"
  /\ pc \in {"none", "start", "open"} => log = NewLog
  /\ pc \notin {"none", "start", "open"} => log.files # <<>>
  /\ pc \in Resting => newBuffer1 /\ newBuffer2 /\ buffersToWrite = <<>> /\ log.unflushed = 0
  /\ pc \notin Resting => /\ ~newBuffer1 /\ buffersToWrite # <<>>
                          /\ newBuffer2 \/ Len(buffersToWrite) >= 2
  /\ pc = "swapped" => next = 1

(* The log of an AsyncLogging that was not started. *)
LEMMA NewLogOK == LogOK(NewLog, 1, FALSE) /\ NewLog.files = <<>> /\ NewLog.unflushed = 0
<1>1. Period(0) = 0
  BY LogFileConstants DEF Period
<1>2. NewLog \in LogType
  BY DEF NewLog, LogType
<1>3. 0 < checkEveryN_ /\ ~(0 > rollSize_)
  BY LogFileConstants
<1>4. Names(NewLog)
  BY <1>1, <1>3 DEF NewLog, Names
<1> QED BY <1>2, <1>3, <1>4 DEF LogOK, NewLog

(* output.append() keeps the log's own invariants. *)
LEMMA OutputOK ==
  ASSUME TypeInv, log.files # <<>>, NEW data \in Seq(Nat), OutputAppend(data), UNCHANGED <<now, setBack>>
  PROVE  LogOK(log, now, setBack)' /\ log'.files # <<>>
<1>1. PICK n \in 0..Len(data) : log' = appendUnlocked(log, data, n)
  BY Zenon DEF OutputAppend
<1>2. LogOK(appendUnlocked(log, data, n), now, setBack)
  BY AppendOK DEF TypeInv
<1>3. appendUnlocked(log, data, n).files # <<>>
  <2> DEFINE R == appendUnlocked(log, data, n).files
  <2>1. Len(R) \in {Len(log.files), Len(log.files) + 1} /\ Len(log.files) \in Nat \ {0}
    BY AppendShape, Zenon DEF TypeInv, LogOK
  <2> HIDE DEF R
  <2> QED BY <2>1 DEF R
<1> QED BY <1>1, <1>2, <1>3

(* append() *)
LEMMA AppendLineRound ==
  ASSUME TypeInv, RoundInv, AppendLine PROVE TypeInv' /\ RoundInv'
<1>1. /\ UNCHANGED <<running_, newBuffer1, newBuffer2, buffersToWrite, next, now, setBack, log, owner>>
      /\ lines' = lines + 1 /\ lines \in Nat
  BY DEF AppendLine, locals, output, TypeInv
<1>2. LogOK(log, now, setBack)'
  BY <1>1, Zenon DEF TypeInv
<1>3. currentBuffer_ \in Seq(Nat) /\ buffers_ \in Seq(Seq(Nat)) /\ Line \in Nat
  BY <1>1 DEF TypeInv, Line
<1>4. CASE AppendHere
  <2>1. currentBuffer_' \in Seq(Nat)
    BY <1>3, <1>4, Appended DEF AppendHere
  <2>2. TypeInv'
    BY <1>1, <1>2, <1>4, <2>1 DEF TypeInv, AppendHere
  <2> QED BY <1>1, <1>4, <2>2, Zenon DEF RoundInv, AppendHere
<1>5. CASE AppendNext
  <2>1. currentBuffer_' \in Seq(Nat) /\ nextBuffer_' = FALSE
    BY <1>3, <1>5 DEF AppendNext, NextCurrent
  <2>2. buffers_' \in Seq(Seq(Nat)) /\ buffers_' # <<>>
    <3>1. buffers_' = Append(buffers_, currentBuffer_)
      BY <1>5, Zenon DEF AppendNext
    <3> QED BY <1>3, <3>1, Appended
  <2>3. pc' = pc \/ (pc = "wait" /\ pc' = "woken")
    BY <1>5 DEF AppendNext, NotifyFull
  <2>4. TypeInv'
    <3>1. pc' \in Resting \cup {"swapped", "write"}
      BY <2>3 DEF TypeInv, Resting
    <3>2. {running_, nextBuffer_, newBuffer1, newBuffer2, setBack}' \subseteq BOOLEAN
      BY <1>1, <2>1, Zenon DEF TypeInv
    <3>3. next' \in 1..(Len(buffersToWrite') + 1) /\ now' \in Nat \ {0} /\ buffersToWrite' \in Seq(Seq(Nat))
      BY <1>1, Zenon DEF TypeInv
    <3>4. lines' \in Nat
      BY <1>1
    <3> QED BY <1>2, <2>1, <2>2, <3>1, <3>2, <3>3, <3>4, Zenon DEF TypeInv
  <2> QED BY <1>1, <2>2, <2>3, <2>4 DEF RoundInv, Resting
<1> QED BY <1>4, <1>5 DEF AppendLine

(* The steps of threadFunc() that only move on, start(), stop() and the clock. *)
LEMMA MoveRound ==
  ASSUME TypeInv, RoundInv, CountDown \/ TestRunning \/ Wait \/ Start \/ Started \/ Stop \/ StopNotify \/ Join
  PROVE  TypeInv' /\ RoundInv'
<1>1. /\ UNCHANGED <<currentBuffer_, nextBuffer_, buffers_, newBuffer1, newBuffer2, buffersToWrite, next, lines, now, setBack, log>>
      /\ running_' \in BOOLEAN
  BY Zenon DEF CountDown, TestRunning, Wait, Start, Started, Stop, StopNotify, Join, shared, locals, output, TypeInv
<1>2. LogOK(log, now, setBack)'
  BY <1>1, Zenon DEF TypeInv
<1>3. /\ \/ pc' = pc /\ owner' = owner
         \/ pc' = pc /\ owner' # "new"
         \/ pc = "none" /\ pc' = "start" /\ owner' # "new"
         \/ pc = "start" /\ pc' = "open" /\ owner' = owner
         \/ pc \in {"test", "lock", "wait"} /\ pc' \in {"lock", "done", "wait", "woken"} /\ (owner' = owner \/ owner' # "new")
  BY DEF CountDown, TestRunning, Wait, Start, Started, Stop, StopNotify, Join, RoundInv
<1>4. TypeInv'
  BY <1>1, <1>2, <1>3 DEF TypeInv, Resting
<1> QED BY <1>1, <1>3, <1>4 DEF RoundInv, Resting

(* The clock *)
LEMMA ClockRound ==
  ASSUME TypeInv, RoundInv, Clock PROVE TypeInv' /\ RoundInv'
<1>1. /\ UNCHANGED <<running_, currentBuffer_, nextBuffer_, buffers_, newBuffer1, newBuffer2, buffersToWrite, next, lines, log, pc, owner>>
  BY DEF Clock, shared, locals, Tick, ClockSetBack
<1>2. /\ now \in Nat \ {0} /\ now' \in Nat \ {0} /\ setBack' \in BOOLEAN
      /\ ~setBack' => ~setBack /\ now <= now'
  <2>1. now \in Nat \ {0} /\ setBack \in BOOLEAN
    BY DEF TypeInv
  <2>2. CASE Tick
    BY <2>1, <2>2 DEF Tick
  <2>3. CASE ClockSetBack
    BY <2>1, <2>3 DEF ClockSetBack
  <2> QED BY <2>2, <2>3 DEF Clock
<1>3. LogOK(log, now, setBack)'
  <2>1. LogOK(log, now, setBack) /\ log \in LogType
    BY DEF TypeInv, LogOK
  <2>2. log.lastRoll_ \in Nat /\ log.startOfPeriod_ \in Nat
    BY <2>1 DEF LogType
  <2>3. ~setBack' => Period(now) <= Period(now') /\ Period(now) \in Nat /\ Period(now') \in Nat
    BY <1>2, PeriodMonotonic
  <2>4. ~setBack' => /\ log.lastRoll_ <= now' /\ log.late <= log.count_
                     /\ log.late > 0 => Period(now') > log.startOfPeriod_
    BY <1>2, <2>1, <2>2, <2>3 DEF LogOK
  <2> QED BY <1>1, <2>1, <2>4 DEF LogOK
<1>4. TypeInv'
  BY <1>1, <1>2, <1>3 DEF TypeInv
<1> QED BY <1>1, <1>4, Zenon DEF RoundInv

(* The log is opened: the first roll succeeds, as time(2) is not 0. *)
LEMMA OpenRound ==
  ASSUME TypeInv, RoundInv, OpenLog PROVE TypeInv' /\ RoundInv' /\ log'.files = <<[name |-> now, lines |-> <<>>]>>
<1>1. /\ UNCHANGED <<running_, currentBuffer_, nextBuffer_, buffers_, newBuffer1, newBuffer2, buffersToWrite, next, lines, owner, now, setBack>>
      /\ pc = "open" /\ pc' = "test" /\ log' = rollFile(log) /\ log = NewLog
  BY DEF OpenLog, shared, locals, RoundInv
<1>2. now \in Nat \ {0} /\ LogOK(log, now, setBack) /\ setBack \in BOOLEAN
  BY DEF TypeInv
<1>3. NewLog \in LogType /\ NewLog.lastRoll_ = 0 /\ NewLog.files = <<>> /\ NewLog.late = 0 /\ now > 0
  BY <1>2, NewLogOK DEF LogOK, NewLog
<1>4. log'.files = <<[name |-> now, lines |-> <<>>]>> /\ log'.unflushed = 0
  <2> DEFINE f == [name |-> now, lines |-> <<>>]
  <2>1. log'.files = Append(<<>>, f) /\ log'.unflushed = 0
    BY <1>1, <1>2, <1>3, RollFile
  <2> HIDE DEF f
  <2>2. Append(<<>>, f) = <<f>>
    OBVIOUS
  <2> QED BY <2>1, <2>2 DEF f
<1>5. LogOK(log, now, setBack)'
  <2>1. LogOK(rollFile(log), now, setBack)
    BY <1>1, <1>2, <1>3, RollFileOK DEF LogOK
  <2> QED BY <1>1, <2>1
<1>6. TypeInv'
  BY <1>1, <1>5 DEF TypeInv, Resting
<1>7. log'.files # <<>>
  BY <1>4
<1> QED BY <1>1, <1>4, <1>6, <1>7 DEF RoundInv, Resting

(* The critical section: full buffers and current buffer are swapped out. *)
LEMMA SwapRound ==
  ASSUME TypeInv, RoundInv, SwapBuffers PROVE TypeInv' /\ RoundInv'
<1>1. /\ UNCHANGED <<running_, lines, owner, now, setBack, log>>
      /\ pc \in {"lock", "wait", "woken"} /\ pc' = "swapped"
      /\ currentBuffer_' = <<>> /\ buffers_' = <<>> /\ next' = 1 /\ newBuffer1' = FALSE
      /\ buffersToWrite' = Append(buffers_, currentBuffer_)
  BY DEF SwapBuffers, TimeOut, AllBuffers, output
<1>2. newBuffer2 /\ (~nextBuffer_ => buffers_ # <<>>) /\ log.files # <<>> /\ owner # "new"
  BY <1>1 DEF RoundInv, Resting
<1>3. /\ nextBuffer_' = TRUE /\ newBuffer2' \in BOOLEAN
      /\ newBuffer2' \/ buffers_ # <<>>
  BY <1>2, Zenon DEF SwapBuffers, RestoreNext, TypeInv
<1>4. /\ currentBuffer_ \in Seq(Nat) /\ buffers_ \in Seq(Seq(Nat))
  BY DEF TypeInv
<1>5. /\ buffersToWrite' \in Seq(Seq(Nat)) /\ Len(buffersToWrite') = Len(buffers_) + 1 /\ Len(buffers_) \in Nat
      /\ buffersToWrite' # <<>>
  BY <1>1, <1>4, Appended
<1>6. newBuffer2' \/ Len(buffersToWrite') >= 2
  <2>1. buffers_ # <<>> => Len(buffers_) >= 1
    BY <1>4
  <2> QED BY <1>3, <1>5, <2>1
<1>7. LogOK(log, now, setBack)'
  BY <1>1, Zenon DEF TypeInv
<1>8. TypeInv'
  <2>1. next' \in 1..(Len(buffersToWrite') + 1)
    BY <1>1, <1>5
  <2>2. currentBuffer_' \in Seq(Nat) /\ buffers_' \in Seq(Seq(Nat))
    BY <1>1
  <2>3. {running_, nextBuffer_, newBuffer1, newBuffer2, setBack}' \subseteq BOOLEAN
    BY <1>1, <1>3, Zenon DEF TypeInv
  <2> QED BY <1>1, <1>5, <1>7, <2>1, <2>2, <2>3, Zenon DEF TypeInv
<1> QED BY <1>1, <1>2, <1>3, <1>5, <1>6, <1>8 DEF RoundInv, Resting

(* Too many buffers: all but two are dropped. *)
LEMMA DropRound ==
  ASSUME TypeInv, RoundInv, DropBuffers PROVE TypeInv' /\ RoundInv'
<1>1. /\ UNCHANGED <<running_, currentBuffer_, nextBuffer_, buffers_, newBuffer1, newBuffer2, next, lines, owner, now, setBack>>
      /\ pc = "swapped" /\ pc' = "write"
  BY DEF DropBuffers, shared
<1>2. /\ next = 1 /\ ~newBuffer1 /\ buffersToWrite # <<>> /\ (newBuffer2 \/ Len(buffersToWrite) >= 2)
      /\ log.files # <<>> /\ (~nextBuffer_ => buffers_ # <<>>) /\ owner # "new"
  BY <1>1 DEF RoundInv, Resting
<1>3. buffersToWrite \in Seq(Seq(Nat)) /\ Len(buffersToWrite) \in Nat
  BY DEF TypeInv
<1>4. /\ buffersToWrite' \in Seq(Seq(Nat)) /\ Len(buffersToWrite') \in Nat /\ buffersToWrite' # <<>>
      /\ newBuffer2 \/ Len(buffersToWrite') >= 2
      /\ LogOK(log, now, setBack)' /\ log'.files # <<>>
  <2>1. CASE Len(buffersToWrite) > DropAbove
    <3>1. /\ OutputAppend(<<Notice>>) /\ buffersToWrite' = SubSeq(buffersToWrite, 1, 2)
      BY <2>1 DEF DropBuffers, Kept
    <3>2. <<Notice>> \in Seq(Nat) /\ 2 \in 0..Len(buffersToWrite)
      BY <1>3, <2>1, LoggingConstants DEF Notice
    <3>3. SubSeq(buffersToWrite, 1, 2) \in Seq(Seq(Nat)) /\ Len(SubSeq(buffersToWrite, 1, 2)) = 2
      BY <1>3, <3>2, PartOf
    <3>4. buffersToWrite' # <<>>
      <4> DEFINE q == SubSeq(buffersToWrite, 1, 2)
      <4> HIDE DEF q
      <4>1. Len(q) = 2
        BY <3>3 DEF q
      <4>2. q # <<>>
        BY <4>1
      <4> QED BY <3>1, <4>2, Zenon DEF q
    <3>5. LogOK(log, now, setBack)' /\ log'.files # <<>>
      BY <1>1, <1>2, <3>1, <3>2, OutputOK
    <3> QED BY <3>1, <3>3, <3>4, <3>5
  <2>2. CASE ~(Len(buffersToWrite) > DropAbove)
    <3>1. UNCHANGED <<buffersToWrite, log, now, setBack>>
      BY <1>1, <2>2 DEF DropBuffers
    <3>2. LogOK(log, now, setBack)'
      BY <3>1, Zenon DEF TypeInv
    <3> QED BY <1>2, <1>3, <3>1, <3>2
  <2> QED BY <2>1, <2>2
<1>5. TypeInv'
  <2>1. next' \in 1..(Len(buffersToWrite') + 1)
    BY <1>1, <1>2, <1>4
  <2> QED BY <1>1, <1>4, <2>1, Zenon DEF TypeInv
<1> QED BY <1>1, <1>2, <1>4, <1>5 DEF RoundInv, Resting

(* A buffer is written to the file. *)
LEMMA WriteRound ==
  ASSUME TypeInv, RoundInv, WriteBuffer PROVE TypeInv' /\ RoundInv'
<1>1. /\ UNCHANGED <<running_, currentBuffer_, nextBuffer_, buffers_, newBuffer1, newBuffer2, buffersToWrite, lines, owner, now, setBack, pc>>
      /\ pc = "write" /\ next' = next + 1 /\ next <= Len(buffersToWrite) /\ OutputAppend(buffersToWrite[next])
  BY DEF WriteBuffer, shared
<1>2. log.files # <<>>
  BY <1>1 DEF RoundInv
<1>3. /\ buffersToWrite \in Seq(Seq(Nat)) /\ Len(buffersToWrite) \in Nat /\ next \in 1..Len(buffersToWrite)
      /\ next' \in 1..(Len(buffersToWrite') + 1)
  BY <1>1 DEF TypeInv
<1>4. buffersToWrite[next] \in Seq(Nat)
  BY <1>3, Elements
<1>5. LogOK(log, now, setBack)' /\ log'.files # <<>>
  BY <1>1, <1>2, <1>4, OutputOK
<1>6. TypeInv'
  BY <1>1, <1>3, <1>5, Zenon DEF TypeInv
<1> QED BY <1>1, <1>5, <1>6 DEF RoundInv, Resting

(* The end of a round *)
LEMMA EndRoundRound ==
  ASSUME TypeInv, RoundInv, EndRound PROVE TypeInv' /\ RoundInv' /\ log'.files = log.files
<1>1. /\ UNCHANGED <<running_, currentBuffer_, nextBuffer_, buffers_, lines, owner, now, setBack>>
      /\ pc = "write" /\ pc' = "test" /\ next' = 1 /\ buffersToWrite' = <<>> /\ log' = flush(log)
  BY DEF EndRound, shared, RoundFlush
<1>2. /\ ~newBuffer1 /\ buffersToWrite # <<>> /\ (newBuffer2 \/ Len(buffersToWrite) >= 2)
      /\ log.files # <<>> /\ (~nextBuffer_ => buffers_ # <<>>) /\ owner # "new"
  BY <1>1 DEF RoundInv, Resting
<1>3. Len(buffersToWrite) \in Nat
  BY DEF TypeInv
<1>4. newBuffer1' = TRUE /\ newBuffer2' = TRUE
  <2>1. newBuffer2 \/ Len(buffersToWrite) - 1 >= 1
    BY <1>2, <1>3
  <2> QED BY <1>2, <2>1, Zenon DEF EndRound
<1>5. LogOK(log, now, setBack) /\ log \in LogType
  BY DEF TypeInv, LogOK
<1>6. /\ log' \in LogType /\ log'.files = log.files /\ log'.writtenBytes_ = log.writtenBytes_ /\ log'.unflushed = 0
      /\ log'.count_ = log.count_ /\ log'.startOfPeriod_ = log.startOfPeriod_
      /\ log'.lastRoll_ = log.lastRoll_ /\ log'.appended = log.appended /\ log'.late = log.late
  BY <1>1, <1>5 DEF flush, LogType
<1>7. LogOK(log, now, setBack)'
  BY <1>1, <1>5, <1>6 DEF LogOK, Names
<1>8. TypeInv'
  <2>1. next' \in 1..(Len(buffersToWrite') + 1) /\ buffersToWrite' \in Seq(Seq(Nat))
    BY <1>1
  <2>2. pc' \in Resting
    BY <1>1 DEF Resting
  <2>3. {running_, nextBuffer_, newBuffer1, newBuffer2, setBack}' \subseteq BOOLEAN
    BY <1>1, <1>4 DEF TypeInv
  <2> QED BY <1>1, <1>7, <2>1, <2>2, <2>3, Zenon DEF TypeInv
<1> QED BY <1>1, <1>2, <1>4, <1>6, <1>8 DEF RoundInv, Resting

(* Both invariants hold at first. *)
LEMMA RoundInit == Init => TypeInv /\ RoundInv
<1> SUFFICES ASSUME Init PROVE TypeInv /\ RoundInv
  OBVIOUS
<1>1. LogOK(log, now, setBack) /\ log = NewLog
  BY NewLogOK, Zenon DEF Init, LogInit
<1>2. TypeInv
  <2>1. next \in 1..(Len(buffersToWrite) + 1) /\ buffersToWrite \in Seq(Seq(Nat))
    BY DEF Init
  <2>2. pc \in Resting
    BY DEF Resting, Init
  <2>3. {running_, nextBuffer_, newBuffer1, newBuffer2, setBack} \subseteq BOOLEAN
    BY Zenon DEF Init, LogInit
  <2>4. currentBuffer_ \in Seq(Nat) /\ buffers_ \in Seq(Seq(Nat)) /\ lines \in Nat /\ now \in Nat \ {0}
    BY DEF Init, LogInit
  <2> QED BY <1>1, <2>1, <2>2, <2>3, <2>4, Zenon DEF TypeInv
<1> QED BY <1>1, <1>2, NewLogOK DEF Init, RoundInv, Resting

(* Every step keeps them. *)
LEMMA RoundStep ==
  ASSUME TypeInv, RoundInv, [Next]_vars PROVE TypeInv' /\ RoundInv'
<1>1. CASE UNCHANGED vars
  <2>1. TypeInv'
    BY <1>1, Zenon DEF vars, shared, locals, output, TypeInv
  <2> QED BY <1>1, <2>1, Zenon DEF vars, shared, locals, output, RoundInv
<1> QED BY <1>1, AppendLineRound, MoveRound, ClockRound, OpenRound, SwapRound, DropRound, WriteRound,
           EndRoundRound DEF Next, ThreadStep

-----------------------------------------------------------------------------
(* The order of the lines *)

(* Every line of A is earlier than every line of B. *)
Below(A, B) == \A a \in A, b \in B : a < b

(* But for notices, the lines of one buffer increase. *)
Rising(s) == \A k, l \in DOMAIN s : k < l => s[k] < s[l] \/ Notice \in {s[k], s[l]}

(* The lines of a buffer after one more line. *)
LEMMA OneMore ==
  ASSUME NEW s \in Seq(Nat), NEW x \in Nat, Rising(s), \A y \in Range(s) : y < x
  PROVE  Append(s, x) \in Seq(Nat) /\ Range(Append(s, x)) = Range(s) \cup {x} /\ Rising(Append(s, x))
<1> DEFINE q == Append(s, x)
           m == Len(s)
<1>1. /\ q \in Seq(Nat) /\ DOMAIN q = 1..(m + 1) /\ DOMAIN s = 1..m /\ m \in Nat
      /\ (\A i \in 1..m : q[i] = s[i]) /\ q[m + 1] = x
  BY Appended, Elements
<1> HIDE DEF q
<1>2. Range(q) = Range(s) \cup {x}
  <2>1. /\ \A i \in 1..(m + 1) : i \in 1..m \/ i = m + 1
        /\ m + 1 \in 1..(m + 1) /\ \A i \in 1..m : i \in 1..(m + 1)
    BY <1>1
  <2> QED BY <1>1, <2>1, Zenon DEF Range
<1>3. Rising(q)
  <2> SUFFICES ASSUME NEW k \in DOMAIN q, NEW l \in DOMAIN q, k < l PROVE q[k] < q[l] \/ Notice \in {q[k], q[l]}
    BY DEF Rising
  <2>1. k \in 1..m
    BY <1>1
  <2>2. CASE l = m + 1
    BY <1>1, <2>1, <2>2 DEF Range
  <2>3. CASE l \in 1..m
    BY <1>1, <2>1, <2>3 DEF Rising
  <2> QED BY <1>1, <2>2, <2>3
<1> QED BY <1>1, <1>2, <1>3 DEF q

(* Where a line is *)
LEMMA InLines ==
  ASSUME NEW bs \in Seq(Seq(Nat)), NEW x
  PROVE  x \in Lines(bs) <=> \E i \in 1..Len(bs) : x \in Range(bs[i])
<1>1. DOMAIN bs = 1..Len(bs)
  BY Elements
<1> QED BY <1>1, Zenon DEF Lines

(* The buffers after one more buffer. *)
LEMMA OneMoreBuffer ==
  ASSUME NEW bs \in Seq(Seq(Nat)), NEW s \in Seq(Nat), Ascending(bs), Rising(s),
         Below(Lines(bs) \ {Notice}, Range(s) \ {Notice})
  PROVE  /\ Append(bs, s) \in Seq(Seq(Nat))
         /\ Lines(Append(bs, s)) = Lines(bs) \cup Range(s) /\ Ascending(Append(bs, s))
<1> DEFINE q == Append(bs, s)
           m == Len(bs)
<1>1. /\ q \in Seq(Seq(Nat)) /\ Len(q) = m + 1 /\ DOMAIN q = 1..(m + 1) /\ DOMAIN bs = 1..m /\ m \in Nat
      /\ (\A i \in 1..m : q[i] = bs[i]) /\ q[m + 1] = s
  BY Appended, Elements
<1> HIDE DEF q
<1>2. /\ \A i \in 1..(m + 1) : i \in 1..m \/ i = m + 1
      /\ m + 1 \in 1..(m + 1) /\ \A i \in 1..m : i \in 1..(m + 1)
  BY <1>1
<1>3. Lines(q) = Lines(bs) \cup Range(s)
  BY <1>1, <1>2, Zenon DEF Lines
<1>4. Ascending(q)
  <2> SUFFICES ASSUME NEW i \in 1..(m + 1), NEW j \in 1..(m + 1), NEW k \in DOMAIN q[i], NEW l \in DOMAIN q[j],
                      i < j \/ (i = j /\ k < l)
               PROVE  q[i][k] < q[j][l] \/ Notice \in {q[i][k], q[j][l]}
    BY <1>1 DEF Ascending
  <2>1. CASE i = m + 1
    <3>1. j = m + 1
      BY <1>1, <2>1
    <3> QED BY <1>1, <2>1, <3>1 DEF Rising
  <2>2. CASE i \in 1..m /\ j = m + 1
    <3>1. q[i][k] \in Lines(bs) /\ q[j][l] \in Range(s)
      <4>1. q[i][k] \in Range(bs[i]) /\ q[j][l] \in Range(s)
        BY <1>1, <2>2, Zenon DEF Range
      <4> QED BY <1>1, <2>2, <4>1, Zenon DEF Lines
    <3> QED BY <3>1 DEF Below
  <2>3. CASE i \in 1..m /\ j \in 1..m
    BY <1>1, <2>3, Zenon DEF Ascending
  <2> QED BY <1>2, <2>1, <2>2, <2>3
<1> QED BY <1>1, <1>3, <1>4 DEF q

(* Indices of a sequence of c elements followed by one of n elements. *)
LEMMA SplitIndex ==
  ASSUME NEW c \in Nat, NEW n \in Nat
  PROVE  /\ \A k \in 1..(c + n) : k \in 1..c \/ (k - c \in 1..n /\ k = c + (k - c))
         /\ \A k \in 1..c : k \in 1..(c + n)
         /\ \A k \in 1..n : c + k \in 1..(c + n)
         /\ \A k, l \in 1..(c + n) : k < l /\ k \notin 1..c => l \notin 1..c /\ k - c < l - c
OBVIOUS

(* Indices of a sequence with m elements, and of one with one more. *)
LEMMA Indices ==
  ASSUME NEW m \in Nat \ {0}
  PROVE  /\ m \in 1..m /\ ~(m < m)
         /\ \A i \in 1..m : i = m \/ (i \in 1..(m - 1) /\ i < m /\ ~(m < i))
         /\ \A i \in 1..(m - 1) : i \in 1..m /\ i # m
         /\ \A i \in 1..(m + 1) : i \in 1..m \/ i = m + 1
         /\ m + 1 \in 1..(m + 1) /\ \A i \in 1..m : i \in 1..(m + 1)
OBVIOUS

(* The last file grows by the lines written, and an empty file may follow. *)
LEMMA LastGrows ==
  ASSUME NEW W \in Seq(Seq(Nat)), NEW V \in Seq(Seq(Nat)), NEW d \in Seq(Nat), Len(W) # 0,
         Len(V) \in {Len(W), Len(W) + 1}, V[Len(W)] = W[Len(W)] \o d,
         \A i \in 1..(Len(W) - 1) : V[i] = W[i], Len(V) = Len(W) + 1 => V[Len(W) + 1] = <<>>,
         Ascending(W), Rising(d), Below(Lines(W) \ {Notice}, Range(d) \ {Notice})
  PROVE  Ascending(V) /\ Lines(V) = Lines(W) \cup Range(d)
<1> DEFINE m == Len(W)
           w == W[m]
           c == Len(w)
<1>1. /\ DOMAIN W = 1..m /\ DOMAIN V = 1..Len(V) /\ m \in Nat \ {0} /\ m \in 1..m
      /\ \A i \in 1..m : i = m \/ (i \in 1..(m - 1) /\ i < m /\ ~(m < i))
      /\ \A i \in 1..(m - 1) : i \in 1..m /\ i # m
      /\ \A i \in DOMAIN V : i \in 1..m \/ (i = m + 1 /\ V[i] = <<>>)
      /\ \A i \in 1..m : i \in DOMAIN V
      /\ ~(m < m)
  <2>1. DOMAIN W = 1..m /\ DOMAIN V = 1..Len(V) /\ m \in Nat \ {0}
    BY Elements
  <2> HIDE DEF m
  <2>2. /\ m \in 1..m /\ ~(m < m)
        /\ \A i \in 1..m : i = m \/ (i \in 1..(m - 1) /\ i < m /\ ~(m < i))
        /\ \A i \in 1..(m - 1) : i \in 1..m /\ i # m
        /\ \A i \in 1..(m + 1) : i \in 1..m \/ i = m + 1
        /\ \A i \in 1..m : i \in 1..(m + 1)
    BY <2>1, Indices, Zenon
  <2>3. CASE Len(V) = m
    BY <2>1, <2>2, <2>3, Zenon
  <2>4. CASE Len(V) = m + 1
    <3>1. V[m + 1] = <<>>
      BY <2>4 DEF m
    <3> QED BY <2>1, <2>2, <2>4, <3>1, Zenon
  <2> QED BY <2>3, <2>4 DEF m
<1>2. w \in Seq(Nat)
  BY <1>1, Elements, Zenon
<1>3. /\ DOMAIN w = 1..c /\ DOMAIN d = 1..Len(d) /\ c \in Nat /\ Len(d) \in Nat
      /\ DOMAIN V[m] = 1..(c + Len(d))
      /\ \A k \in 1..c : V[m][k] = w[k]
      /\ \A k \in 1..Len(d) : V[m][c + k] = d[k]
  <2> DEFINE q == w \o d
  <2>1. /\ q \in Seq(Nat) /\ Len(q) = c + Len(d)
        /\ (\A k \in 1..c : q[k] = w[k]) /\ (\A k \in 1..Len(d) : q[c + k] = d[k])
    <3> HIDE DEF w
    <3> QED BY <1>2, Concatenated
  <2>2. DOMAIN w = 1..c /\ DOMAIN d = 1..Len(d) /\ c \in Nat /\ Len(d) \in Nat /\ DOMAIN q = 1..Len(q)
    BY <1>2, <2>1, Elements, Zenon
  <2>3. V[m] = q
    OBVIOUS
  <2> HIDE DEF q
  <2> QED BY <2>1, <2>2, <2>3, Zenon
<1>4. \A k \in DOMAIN V[m] : k \in 1..c \/ (k - c \in 1..Len(d) /\ V[m][k] = d[k - c])
  <2> TAKE k \in DOMAIN V[m]
  <2> DEFINE z == k - c
  <2>1. k \in 1..c \/ (z \in 1..Len(d) /\ k = c + z)
    BY <1>3, SplitIndex, ZenonT(40)
  <2> HIDE DEF z
  <2>2. k \in 1..c \/ (z \in 1..Len(d) /\ V[m][k] = d[z])
    BY <1>3, <2>1, Zenon
  <2> QED BY <2>2, Zenon DEF z
<1>5. Range(V[m]) = Range(w) \cup Range(d)
  <2>1. ASSUME NEW k \in 1..Len(d) PROVE c + k \in DOMAIN V[m] /\ V[m][c + k] = d[k]
    BY <1>3, SplitIndex, Zenon
  <2>2. ASSUME NEW k \in 1..c PROVE k \in DOMAIN V[m] /\ V[m][k] = w[k]
    BY <1>3, SplitIndex, Zenon
  <2>3. Range(w) \subseteq Range(V[m])
    BY <1>3, <2>2, ZenonT(40) DEF Range
  <2>3b. Range(d) \subseteq Range(V[m])
    <3> SUFFICES ASSUME NEW y \in Range(d) PROVE y \in Range(V[m])
      BY Zenon
    <3>1. PICK k \in 1..Len(d) : y = d[k]
      BY <1>3, Zenon DEF Range
    <3>2. c + k \in DOMAIN V[m] /\ V[m][c + k] = y
      BY <2>1, <3>1, Zenon
    <3> QED BY <3>2, Zenon DEF Range
  <2>4. ASSUME NEW k \in DOMAIN V[m] PROVE V[m][k] \in Range(w) \cup Range(d)
    BY <1>3, <1>4, Zenon DEF Range
  <2> QED BY <2>3, <2>3b, <2>4, Zenon DEF Range
<1> HIDE DEF m, w, c
<1>6. Range(<<>>) = {}
  BY DEF Range
<1>7. /\ \A i \in 1..(m - 1) : i \in 1..m /\ V[i] = W[i]
      /\ W[m] = w
  BY <1>1, Zenon DEF m, w
<1>8. Lines(V) = Lines(W) \cup Range(d)
  <2>1. ASSUME NEW x \in Lines(V) PROVE x \in Lines(W) \cup Range(d)
    <3>1. PICK i \in DOMAIN V : x \in Range(V[i])
      BY <2>1, Zenon DEF Lines
    <3>2. CASE i = m
      BY <1>1, <1>5, <1>7, <3>1, <3>2, Zenon DEF Lines
    <3>3. CASE i \in 1..(m - 1)
      BY <1>1, <1>7, <3>1, <3>3, Zenon DEF Lines
    <3> QED BY <1>1, <1>6, <3>1, <3>2, <3>3, Zenon
  <2>2. ASSUME NEW x \in Lines(W) PROVE x \in Lines(V)
    <3>1. PICK i \in 1..m : x \in Range(W[i])
      BY <2>2, InLines, Zenon DEF m
    <3>2. x \in Range(V[i]) /\ i \in DOMAIN V
      BY <1>1, <1>5, <1>7, <3>1, Zenon
    <3> QED BY <3>2, Zenon DEF Lines
  <2>3. Range(d) \subseteq Lines(V)
    BY <1>1, <1>5, Zenon DEF Lines
  <2> QED BY <2>1, <2>2, <2>3, Zenon
<1>9. Ascending(V)
  <2> SUFFICES ASSUME NEW i \in DOMAIN V, NEW j \in DOMAIN V, NEW k \in DOMAIN V[i], NEW l \in DOMAIN V[j],
                      i < j \/ (i = j /\ k < l)
               PROVE  V[i][k] < V[j][l] \/ Notice \in {V[i][k], V[j][l]}
    BY DEF Ascending
  <2>1. DOMAIN <<>> = {}
    OBVIOUS
  <2>2. i \in 1..m /\ j \in 1..m
    BY <1>1, <2>1, Zenon
  <2>3. \/ i \in 1..(m - 1) /\ j \in 1..(m - 1)
        \/ i \in 1..(m - 1) /\ j = m /\ i < j
        \/ i = m /\ j = m /\ k < l
    BY <1>1, <2>2, Zenon
  <2>4. CASE i \in 1..(m - 1) /\ j \in 1..(m - 1)
    BY <1>1, <1>7, <2>4, Zenon DEF Ascending
  <2>5. ASSUME i = m => k \in 1..c, j = m, l \in 1..c PROVE V[i][k] < V[j][l] \/ Notice \in {V[i][k], V[j][l]}
    <3>1. /\ k \in DOMAIN W[i] /\ V[i][k] = W[i][k]
          /\ l \in DOMAIN W[j] /\ V[j][l] = W[j][l]
      BY <1>1, <1>3, <1>7, <2>2, <2>5, Zenon
    <3> QED BY <1>1, <2>2, <3>1, Zenon DEF Ascending
  <2>6. ASSUME i = m => k \in 1..c, j = m, l \notin 1..c PROVE V[i][k] < V[j][l] \/ Notice \in {V[i][k], V[j][l]}
    <3>1. k \in DOMAIN W[i] /\ V[i][k] = W[i][k]
      BY <1>1, <1>3, <1>7, <2>2, <2>6, Zenon
    <3>2. V[i][k] \in Lines(W)
      <4>1. V[i][k] \in Range(W[i])
        BY <3>1, Zenon DEF Range
      <4> QED BY <1>1, <2>2, <4>1, Zenon DEF Lines
    <3>3. V[j][l] \in Range(d)
      BY <1>3, <1>4, <2>6, Zenon DEF Range
    <3> QED BY <3>2, <3>3 DEF Below
  <2>7. ASSUME i = m, j = m, k < l, k \notin 1..c PROVE V[i][k] < V[j][l] \/ Notice \in {V[i][k], V[j][l]}
    <3>1. l \notin 1..c /\ k - c < l - c
      BY <1>3, <2>7, SplitIndex, Zenon
    <3>2. /\ k - c \in DOMAIN d /\ V[i][k] = d[k - c]
          /\ l - c \in DOMAIN d /\ V[j][l] = d[l - c]
      BY <1>3, <1>4, <2>7, <3>1, Zenon
    <3> QED BY <3>1, <3>2, Zenon DEF Rising
  <2> QED BY <1>1, <2>3, <2>4, <2>5, <2>6, <2>7, Zenon
<1> QED BY <1>8, <1>9

(* The lines of the files are a sequence of buffers. *)
LEMMA FilesAre ==
  ASSUME NEW L \in LogType
  PROVE  LET F == [i \in DOMAIN L.files |-> L.files[i].lines]
         IN  F \in Seq(Seq(Nat)) /\ Len(F) = Len(L.files) /\ \A i \in 1..Len(F) : F[i] = L.files[i].lines
<1> DEFINE F == [i \in DOMAIN L.files |-> L.files[i].lines]
           m == Len(L.files)
<1>1. L.files \in Seq(File)
  BY DEF LogType
<1>2. DOMAIN L.files = 1..m /\ m \in Nat /\ \A i \in 1..m : L.files[i] \in File
  BY <1>1, Elements
<1>3. \A i \in 1..m : L.files[i].lines \in Seq(Nat)
  BY <1>2 DEF File
<1>4. F = [i \in 1..m |-> L.files[i].lines]
  BY <1>2
<1> HIDE DEF m, F
<1>5. F \in Seq(Seq(Nat)) /\ Len(F) = m
  BY <1>2, <1>3, <1>4
<1> QED BY <1>4, <1>5 DEF F, m

(* output.append() keeps the order in the files, if what it writes is later than
   what they hold; what it does not write is lost. *)
LEMMA OutputOrder ==
  ASSUME TypeInv, log.files # <<>>, NEW data \in Seq(Nat), OutputAppend(data), LogOK(log, now, setBack)',
         Ascending(Written), Rising(data), Below(Lines(Written) \ {Notice}, Range(data) \ {Notice})
  PROVE  /\ Ascending(Written)'
         /\ \E n \in 0..Len(data) :
              /\ Lines(Written)' = Lines(Written) \cup Range(SubSeq(data, 1, n))
              /\ lost' = lost \cup (Range(SubSeq(data, n + 1, Len(data))) \ {Notice})
<1>1. PICK n \in 0..Len(data) : /\ log' = appendUnlocked(log, data, n)
                                /\ lost' = lost \cup (Range(SubSeq(data, n + 1, Len(data))) \ {Notice})
  BY Zenon DEF OutputAppend
<1> DEFINE W == Written
           V == Written'
           d == SubSeq(data, 1, n)
           m == Len(log.files)
<1>2. log \in LogType /\ log' \in LogType /\ now \in Nat
  BY DEF TypeInv, LogOK
<1>3. /\ W \in Seq(Seq(Nat)) /\ Len(W) = m /\ \A i \in 1..m : W[i] = log.files[i].lines
  BY <1>2, FilesAre, Zenon DEF Written
<1>4. /\ V \in Seq(Seq(Nat)) /\ Len(V) = Len(log'.files) /\ \A i \in 1..Len(V) : V[i] = log'.files[i].lines
  BY <1>2, FilesAre, Zenon DEF Written
<1>5. /\ m \in Nat \ {0} /\ Len(log'.files) \in {m, m + 1}
      /\ \A i \in 1..(m - 1) : log'.files[i].lines = log.files[i].lines
      /\ log'.files[m].lines = log.files[m].lines \o d
      /\ Len(log'.files) = m + 1 => log'.files[m + 1].lines = <<>>
  <2> DEFINE R == appendUnlocked(log, data, n).files
  <2>1. /\ m \in Nat \ {0} /\ Len(R) \in {m, m + 1}
        /\ \A i \in 1..(m - 1) : R[i].lines = log.files[i].lines
        /\ R[m].lines = log.files[m].lines \o d
        /\ Len(R) = m + 1 => R[m + 1].lines = <<>>
    BY <1>2, AppendShape, Zenon
  <2>2. log'.files = R
    BY <1>1, Zenon
  <2> HIDE DEF R, m, d
  <2> QED BY <2>1, <2>2, Zenon
<1>6. /\ d \in Seq(Nat) /\ Len(d) = n /\ Len(data) \in Nat /\ DOMAIN data = 1..Len(data) /\ DOMAIN d = 1..n
      /\ \A i \in 1..n : d[i] = data[i]
  <2>1. Len(data) \in Nat /\ DOMAIN data = 1..Len(data)
    BY Elements
  <2>2. 1 <= n + 1 /\ n + 1 - 1 = n /\ \A i \in 1..n : 1 + i - 1 = i
    BY <2>1
  <2>3. d \in Seq(Nat) /\ Len(d) = n /\ \A i \in 1..n : d[i] = data[i]
    BY <2>1, <2>2, PartOf
  <2> QED BY <2>1, <2>3, Elements
<1>7. Rising(d) /\ Range(d) \subseteq Range(data)
  <2>1. \A i \in 1..n : i \in 1..Len(data)
    BY <1>6
  <2> HIDE DEF d
  <2> QED BY <1>6, <2>1, Zenon DEF Rising, Range
<1>8. Below(Lines(W) \ {Notice}, Range(d) \ {Notice})
  BY <1>7, Zenon DEF Below
<1>9. /\ V[m] = W[m] \o d /\ (\A i \in 1..(m - 1) : V[i] = W[i])
      /\ (Len(V) = m + 1 => V[m + 1] = <<>>) /\ Len(V) \in {m, m + 1}
  <2> HIDE DEF W, V, d, m
  <2>1. Len(V) = m \/ Len(V) = m + 1
    BY <1>4, <1>5, Zenon DEF V
  <2>2. m \in 1..m /\ (\A i \in 1..(m - 1) : i \in 1..m) /\ (\A i \in 1..m : i \in 1..(m + 1)) /\ m + 1 \in 1..(m + 1)
    BY <1>5, Indices, Zenon
  <2>3. \A i \in 1..m : i \in 1..Len(V)
    BY <2>1, <2>2, Zenon
  <2> QED BY <1>3, <1>4, <1>5, <2>1, <2>2, <2>3, Zenon DEF V
<1>10. Ascending(V) /\ Lines(V) = Lines(W) \cup Range(d)
  <2> HIDE DEF W, V, d
  <2>1. Ascending(W) /\ Len(W) # 0
    BY <1>3, <1>5 DEF W
  <2>2. /\ V[Len(W)] = W[Len(W)] \o d /\ (\A i \in 1..(Len(W) - 1) : V[i] = W[i])
        /\ (Len(V) = Len(W) + 1 => V[Len(W) + 1] = <<>>) /\ Len(V) \in {Len(W), Len(W) + 1}
    BY <1>3, <1>9, Zenon
  <2>3. W \in Seq(Seq(Nat)) /\ V \in Seq(Seq(Nat)) /\ d \in Seq(Nat)
    BY <1>3, <1>4, <1>6, Zenon
  <2> QED BY <1>7, <1>8, <2>1, <2>2, <2>3, LastGrows, ZenonT(40)
<1>11. Ascending(Written)' /\ Lines(Written)' = Lines(Written) \cup Range(d)
  BY <1>10, Zenon
<1> QED BY <1>1, <1>11, Zenon

(* The lines written W, being written T, of the full buffers B and of the current one
   C come in this order, and are all of the N lines but those in D. *)
Sorted(W, T, B, C, D, N) ==
  /\ D \subseteq 1..N
  /\ Below(W, T) /\ Below(W \cup T, B \cup C) /\ Below(B, C)
  /\ W \cup T \cup B \cup C = (1..N) \ D

(* append() puts a line into the current buffer. *)
LEMMA SortedHere ==
  ASSUME NEW W, NEW T, NEW B, NEW C, NEW D, NEW N \in Nat, Sorted(W, T, B, C, D, N)
  PROVE  Sorted(W, T, B, C \cup {N + 1}, D, N + 1) /\ \A x \in W \cup T \cup B \cup C : x \in 1..N /\ x < N + 1
<1>1. \A x \in W \cup T \cup B \cup C : x \in 1..N /\ x < N + 1 /\ x \notin D
  BY DEF Sorted
<1>2. 1..(N + 1) = (1..N) \cup {N + 1} /\ N + 1 \notin 1..N
  OBVIOUS
<1>3. D \subseteq 1..N /\ W \cup T \cup B \cup C = (1..N) \ D
  BY DEF Sorted
<1>4. D \subseteq 1..(N + 1) /\ W \cup T \cup B \cup (C \cup {N + 1}) = (1..(N + 1)) \ D
  BY <1>2, <1>3, Zenon
<1>5. Below(W \cup T, B \cup (C \cup {N + 1})) /\ Below(B, C \cup {N + 1}) /\ Below(W, T)
  BY <1>1 DEF Sorted, Below
<1> QED BY <1>1, <1>4, <1>5 DEF Sorted

(* append() puts a line into the next buffer. *)
LEMMA SortedNext ==
  ASSUME NEW W, NEW T, NEW B, NEW C, NEW D, NEW N \in Nat, Sorted(W, T, B, C, D, N)
  PROVE  Sorted(W, T, B \cup C, {N + 1}, D, N + 1)
<1>1. Sorted(W, T, B, C \cup {N + 1}, D, N + 1) /\ \A x \in W \cup T \cup B \cup C : x < N + 1
  BY SortedHere, Zenon
<1>2. W \cup T \cup (B \cup C) \cup {N + 1} = W \cup T \cup B \cup (C \cup {N + 1})
  OBVIOUS
<1>3. Below(W \cup T, (B \cup C) \cup {N + 1}) /\ Below(B \cup C, {N + 1})
  BY <1>1 DEF Sorted, Below
<1> QED BY <1>1, <1>2, <1>3, Zenon DEF Sorted

(* The buffers are swapped out. *)
LEMMA SortedSwap ==
  ASSUME NEW W, NEW B, NEW C, NEW D, NEW N, Sorted(W, {}, B, C, D, N)
  PROVE  Sorted(W, B \cup C, {}, {}, D, N)
BY Zenon DEF Sorted, Below

(* Buffers are dropped. *)
LEMMA SortedDrop ==
  ASSUME NEW W, NEW T, NEW B, NEW C, NEW D, NEW N \in Nat, Sorted(W, T, B, C, D, N), NEW K \in SUBSET T
  PROVE  Sorted(W, K, B, C, D \cup (T \ K), N)
<1>1. \A x \in T : x \in 1..N /\ ~(x < x)
  BY DEF Sorted
<1>2. T \cap (W \cup B \cup C) = {}
  BY <1>1, Zenon DEF Sorted, Below
<1>3. W \cup K \cup B \cup C = (1..N) \ (D \cup (T \ K)) /\ D \cup (T \ K) \subseteq 1..N
  BY <1>1, <1>2, Zenon DEF Sorted
<1>4. Below(W, K) /\ Below(W \cup K, B \cup C) /\ Below(B, C)
  BY Zenon DEF Sorted, Below
<1> QED BY <1>3, <1>4, Zenon DEF Sorted

(* The lines H of a buffer reach the file, and the lines R of it do not. *)
LEMMA SortedWrite ==
  ASSUME NEW W, NEW H, NEW R, NEW T, NEW B, NEW C, NEW D, NEW N \in Nat,
         Sorted(W, H \cup R \cup T, B, C, D, N), Below(H, R), Below(H \cup R, T)
  PROVE  Sorted(W \cup H, T, B, C, D \cup R, N)
<1>1. \A x \in H \cup R \cup T : x \in 1..N /\ ~(x < x)
  BY DEF Sorted
<1>2. R \cap (W \cup H \cup T \cup B \cup C) = {}
  BY <1>1, Zenon DEF Sorted, Below
<1>3. (W \cup H) \cup T \cup B \cup C = (1..N) \ (D \cup R) /\ D \cup R \subseteq 1..N
  BY <1>1, <1>2, Zenon DEF Sorted
<1>4. Below(W \cup H, T) /\ Below((W \cup H) \cup T, B \cup C) /\ Below(B, C)
  BY Zenon DEF Sorted, Below
<1> QED BY <1>3, <1>4, Zenon DEF Sorted

(* The lines of buffers still to be written *)
ToWrite == UNION {Range(buffersToWrite[i]) : i \in next..Len(buffersToWrite)}

(* Lines in every place increase, and so they do from one place to the next. *)
OrderInv ==
  /\ Ascending(Written) /\ Ascending(buffersToWrite) /\ Ascending(buffers_) /\ Rising(currentBuffer_)
  /\ Lines(buffersToWrite) \subseteq 1..lines
  /\ Sorted(Lines(Written) \ {Notice}, ToWrite, Lines(buffers_), Range(currentBuffer_), dropped \cup lost, lines)

(* append() *)
LEMMA AppendLineOrder ==
  ASSUME TypeInv, OrderInv, AppendLine PROVE OrderInv'
<1>1. /\ UNCHANGED <<buffersToWrite, next, log, dropped, lost>>
      /\ lines' = lines + 1 /\ lines \in Nat
  BY DEF AppendLine, locals, output, TypeInv
<1>2. /\ Written' = Written /\ ToWrite' = ToWrite /\ (dropped \cup lost)' = dropped \cup lost
  BY <1>1, Zenon DEF Written, ToWrite
<1>3. /\ currentBuffer_ \in Seq(Nat) /\ buffers_ \in Seq(Seq(Nat)) /\ lines + 1 \in Nat
  BY <1>1 DEF TypeInv
<1>4. \A x \in Lines(buffers_) \cup Range(currentBuffer_) : x < lines + 1
  <2>1. Sorted(Lines(Written) \ {Notice}, ToWrite, Lines(buffers_), Range(currentBuffer_), dropped \cup lost, lines)
    BY Zenon DEF OrderInv
  <2> QED BY <1>1, <2>1, SortedHere, ZenonT(40)
<1>5. Ascending(Written)' /\ Ascending(buffersToWrite)'
  BY <1>1, <1>2, Zenon DEF OrderInv
<1>6. Lines(buffersToWrite)' \subseteq 1..lines'
  <2>1. 1..lines \subseteq 1..(lines + 1)
    BY <1>1
  <2> QED BY <1>1, <2>1, Zenon DEF OrderInv
<1>7. CASE AppendHere
  <2>1. currentBuffer_' = Append(currentBuffer_, lines + 1) /\ buffers_' = buffers_
    BY <1>7 DEF AppendHere, Line
  <2>2. Range(currentBuffer_)' = Range(currentBuffer_) \cup {lines + 1} /\ Rising(currentBuffer_)'
    BY <1>3, <1>4, <2>1, OneMore DEF OrderInv
  <2>3. Sorted(Lines(Written) \ {Notice}, ToWrite, Lines(buffers_), Range(currentBuffer_) \cup {lines + 1},
               dropped \cup lost, lines + 1)
    BY <1>1, SortedHere DEF OrderInv
  <2> QED BY <1>1, <1>2, <1>5, <1>6, <2>1, <2>2, <2>3, Zenon DEF OrderInv
<1>8. CASE AppendNext
  <2>1. currentBuffer_' = <<lines + 1>> /\ buffers_' = Append(buffers_, currentBuffer_)
    BY <1>8 DEF AppendNext, NextCurrent, Line
  <2>2. Range(currentBuffer_)' = {lines + 1} /\ Rising(currentBuffer_)'
    <3> DEFINE x == lines + 1
    <3>1. DOMAIN <<x>> = {1} /\ <<x>>[1] = x /\ ~(1 < 1)
      OBVIOUS
    <3> HIDE DEF x
    <3>2. Range(<<x>>) = {x} /\ Rising(<<x>>)
      BY <3>1, Zenon DEF Range, Rising
    <3> QED BY <2>1, <3>2, Zenon DEF x
  <2>3. Below(Lines(buffers_) \ {Notice}, Range(currentBuffer_) \ {Notice})
    BY Zenon DEF OrderInv, Sorted, Below
  <2>4. Ascending(buffers_)' /\ Lines(buffers_)' = Lines(buffers_) \cup Range(currentBuffer_)
    <3>1. Ascending(Append(buffers_, currentBuffer_)) /\ Lines(Append(buffers_, currentBuffer_)) = Lines(buffers_) \cup Range(currentBuffer_)
      BY <1>3, <2>3, OneMoreBuffer, Zenon DEF OrderInv
    <3> QED BY <2>1, <3>1, Zenon
  <2>5. Sorted(Lines(Written) \ {Notice}, ToWrite, Lines(buffers_) \cup Range(currentBuffer_), {lines + 1},
               dropped \cup lost, lines + 1)
    BY <1>1, SortedNext DEF OrderInv
  <2> QED BY <1>1, <1>2, <1>5, <1>6, <2>2, <2>4, <2>5, Zenon DEF OrderInv
<1> QED BY <1>7, <1>8 DEF AppendLine

(* Nothing is to be written between rounds. *)
LEMMA NothingToWrite ==
  ASSUME TypeInv, buffersToWrite = <<>> \/ next > Len(buffersToWrite) PROVE ToWrite = {}
<1>1. next..Len(buffersToWrite) = {}
  BY DEF TypeInv
<1> QED BY <1>1, Zenon DEF ToWrite

(* The critical section *)
LEMMA SwapOrder ==
  ASSUME TypeInv, RoundInv, OrderInv, SwapBuffers PROVE OrderInv'
<1>1. /\ UNCHANGED <<lines, log, dropped, lost>>
      /\ pc \in {"lock", "wait", "woken"}
      /\ currentBuffer_' = <<>> /\ buffers_' = <<>> /\ next' = 1
      /\ buffersToWrite' = Append(buffers_, currentBuffer_)
  BY DEF SwapBuffers, TimeOut, AllBuffers, output
<1>2. ToWrite = {}
  BY <1>1, NothingToWrite DEF RoundInv, Resting
<1>3. /\ Written' = Written /\ (dropped \cup lost)' = dropped \cup lost
  BY <1>1, Zenon DEF Written
<1>4. /\ currentBuffer_ \in Seq(Nat) /\ buffers_ \in Seq(Seq(Nat))
  BY DEF TypeInv
<1>5. /\ buffersToWrite' \in Seq(Seq(Nat)) /\ Ascending(buffersToWrite)'
      /\ Lines(buffersToWrite)' = Lines(buffers_) \cup Range(currentBuffer_)
  <2>1. Below(Lines(buffers_) \ {Notice}, Range(currentBuffer_) \ {Notice})
    BY Zenon DEF OrderInv, Sorted, Below
  <2>2. /\ Append(buffers_, currentBuffer_) \in Seq(Seq(Nat)) /\ Ascending(Append(buffers_, currentBuffer_))
        /\ Lines(Append(buffers_, currentBuffer_)) = Lines(buffers_) \cup Range(currentBuffer_)
    BY <1>4, <2>1, OneMoreBuffer, Zenon DEF OrderInv
  <2> QED BY <1>1, <2>2, Zenon
<1>6. ToWrite' = Lines(buffers_) \cup Range(currentBuffer_)
  <2>1. DOMAIN buffersToWrite' = 1..Len(buffersToWrite')
    BY <1>5, Elements
  <2> QED BY <1>1, <1>5, <2>1, Zenon DEF ToWrite, Lines
<1>7. Lines(buffers_)' = {} /\ Range(currentBuffer_)' = {} /\ Ascending(buffers_)' /\ Rising(currentBuffer_)'
  <2>1. DOMAIN <<>> = {}
    OBVIOUS
  <2> QED BY <1>1, <2>1, Zenon DEF Lines, Range, Ascending, Rising
<1>8. Sorted(Lines(Written) \ {Notice}, Lines(buffers_) \cup Range(currentBuffer_), {}, {}, dropped \cup lost, lines)
  BY <1>2, SortedSwap, Zenon DEF OrderInv
<1>9. Lines(buffersToWrite)' \subseteq 1..lines
  BY <1>5, Zenon DEF OrderInv, Sorted
<1> QED BY <1>1, <1>3, <1>5, <1>6, <1>7, <1>8, <1>9, Zenon DEF OrderInv

(* Before the first buffer of a round is written all of them are to be written. *)
LEMMA AllToWrite ==
  ASSUME TypeInv, next = 1 PROVE ToWrite = Lines(buffersToWrite)
<1>1. DOMAIN buffersToWrite = 1..Len(buffersToWrite)
  BY Elements DEF TypeInv
<1> QED BY <1>1, Zenon DEF ToWrite, Lines

(* Indices of the two parts of a sequence with k elements *)
LEMMA PartIndex ==
  ASSUME NEW k \in Nat, NEW n \in 0..k
  PROVE  /\ n \in Nat /\ k - n \in Nat /\ n + 1 \in Nat \ {0} /\ k \in 0..k /\ n + 1 <= k + 1
         /\ k + 1 - (n + 1) = k - n /\ \A i \in 1..(k - n) : (n + 1) + i - 1 = n + i
         /\ 1 <= n + 1 /\ n + 1 - 1 = n /\ \A i \in 1..n : 1 + i - 1 = i
         /\ \A i \in 1..k : i \in 1..n \/ (i - n \in 1..(k - n) /\ i = n + (i - n))
         /\ \A i \in 1..n : i \in 1..k
         /\ \A i \in 1..(k - n) : n + i \in 1..k
         /\ \A i \in 1..n, j \in 1..(k - n) : i < n + j
OBVIOUS

(* Both parts of a buffer, and that the first is earlier *)
LEMMA TwoParts ==
  ASSUME NEW data \in Seq(Nat), NEW n \in 0..Len(data)
  PROVE  LET H == Range(SubSeq(data, 1, n))
             R == Range(SubSeq(data, n + 1, Len(data)))
         IN  /\ Range(data) = H \cup R
             /\ Rising(data) => Below(H \ {Notice}, R \ {Notice})
<1> DEFINE h == SubSeq(data, 1, n)
           r == SubSeq(data, n + 1, Len(data))
           k == Len(data)
<1>1. k \in Nat /\ DOMAIN data = 1..k
  BY Elements
<1>2. Len(h) = n /\ DOMAIN h = 1..n /\ \A i \in 1..n : h[i] = data[i]
  <2>1. n \in Nat /\ 1 <= n + 1 /\ n + 1 - 1 = n /\ \A i \in 1..n : 1 + i - 1 = i
    BY <1>1, PartIndex, Zenon
  <2>2. h \in Seq(Nat) /\ Len(h) = n /\ \A i \in 1..n : h[i] = data[i]
    BY <1>1, <2>1, PartOf
  <2> QED BY <2>2, Elements
<1>3. DOMAIN r = 1..(k - n) /\ \A i \in 1..(k - n) : r[i] = data[n + i]
  <2>1. n + 1 \in Nat \ {0} /\ k \in 0..k /\ n + 1 <= k + 1 /\ k + 1 - (n + 1) = k - n
        /\ \A i \in 1..(k - n) : (n + 1) + i - 1 = n + i
    BY <1>1, PartIndex, Zenon
  <2>2. r \in Seq(Nat) /\ Len(r) = k - n /\ \A i \in 1..(k - n) : r[i] = data[n + i]
    BY <2>1, PartOf
  <2> QED BY <2>2, Elements
<1>4. /\ \A i \in 1..k : i \in 1..n \/ (i - n \in 1..(k - n) /\ i = n + (i - n))
      /\ \A i \in 1..n : i \in 1..k
      /\ \A i \in 1..(k - n) : n + i \in 1..k
      /\ \A i \in 1..n, j \in 1..(k - n) : i < n + j
  BY <1>1, PartIndex, Zenon
<1> HIDE DEF h, r, k
<1>5. \A i \in 1..k : i \in 1..n \/ \E j \in 1..(k - n) : i = n + j
  BY <1>4, Zenon
<1>6. Range(data) \subseteq Range(h) \cup Range(r)
  <2> SUFFICES ASSUME NEW i \in 1..k PROVE data[i] \in Range(h) \cup Range(r)
    BY <1>1, Zenon DEF Range
  <2>1. CASE i \in 1..n
    BY <1>2, <2>1, Zenon DEF Range
  <2>2. ASSUME NEW j \in 1..(k - n), i = n + j PROVE data[i] \in Range(r)
    BY <1>3, <2>2, Zenon DEF Range
  <2> QED BY <1>5, <2>1, <2>2, Zenon
<1>7. Range(h) \subseteq Range(data) /\ Range(r) \subseteq Range(data)
  <2>1. ASSUME NEW i \in 1..n PROVE h[i] \in Range(data)
    BY <1>1, <1>2, <1>4, Zenon DEF Range
  <2>2. ASSUME NEW i \in 1..(k - n) PROVE r[i] \in Range(data)
    BY <1>1, <1>3, <1>4, Zenon DEF Range
  <2>3. Range(h) \subseteq Range(data)
    BY <1>2, <2>1, Zenon DEF Range
  <2>4. Range(r) \subseteq Range(data)
    BY <1>3, <2>2, Zenon DEF Range
  <2> QED BY <2>3, <2>4
<1>8. ASSUME Rising(data) PROVE Below(Range(h) \ {Notice}, Range(r) \ {Notice})
  <2> SUFFICES ASSUME NEW a \in Range(h), NEW b \in Range(r), a # Notice, b # Notice PROVE a < b
    BY Zenon DEF Below
  <2>a. PICK i \in 1..n : a = h[i]
    BY <1>2, Zenon DEF Range
  <2>b. PICK j \in 1..(k - n) : b = r[j]
    BY <1>3, Zenon DEF Range
  <2>1. i \in DOMAIN data /\ n + j \in DOMAIN data /\ i < n + j /\ h[i] = data[i] /\ r[j] = data[n + j]
    BY <1>1, <1>2, <1>3, <1>4, Zenon
  <2>2. data[i] < data[n + j] \/ Notice \in {data[i], data[n + j]}
    BY <1>8, <2>1, Zenon DEF Rising
  <2> QED BY <2>1, <2>2, <2>a, <2>b, Zenon
<1>9. Range(data) = Range(h) \cup Range(r)
  BY <1>6, <1>7, Zenon
<1> QED BY <1>8, <1>9, Zenon DEF h, r, k

(* Two buffers are kept, and the dropped lines are later than all of theirs. *)
LEMMA KeptAre ==
  ASSUME NEW bs \in Seq(Seq(Nat)), Len(bs) >= 2, Ascending(bs), Notice \notin Lines(bs)
  PROVE  /\ Kept(bs) \in Seq(Seq(Nat)) /\ Len(Kept(bs)) = 2 /\ Ascending(Kept(bs)) /\ Lines(Kept(bs)) \subseteq Lines(bs)
         /\ Below(Lines(Kept(bs)), Lines(bs) \ Lines(Kept(bs)))
<1> DEFINE q == Kept(bs)
           m == Len(bs)
<1>1. DOMAIN bs = 1..m /\ m \in Nat
  BY Elements
<1>2. q \in Seq(Seq(Nat)) /\ Len(q) = 2 /\ DOMAIN q = 1..2 /\ \A i \in 1..2 : q[i] = bs[i]
  <2>1. 1 <= 2 + 1 /\ 2 + 1 - 1 = 2 /\ (\A i \in 1..2 : 1 + i - 1 = i) /\ 2 \in 0..m
    BY <1>1
  <2>2. q \in Seq(Seq(Nat)) /\ Len(q) = 2 /\ \A i \in 1..2 : q[i] = bs[i]
    BY <2>1, PartOf DEF Kept
  <2> QED BY <2>2, Elements
<1> HIDE DEF q
<1>3. /\ \A i \in 1..2 : i \in 1..m
      /\ \A j \in 1..m : j \in 1..2 \/ \A i \in 1..2 : i < j
  BY <1>1
<1>4. Lines(q) \subseteq Lines(bs)
  <2> SUFFICES ASSUME NEW x \in Lines(q) PROVE x \in Lines(bs)
    BY Zenon
  <2>1. PICK i \in 1..2 : x \in Range(q[i])
    BY <1>2, Zenon DEF Lines
  <2>2. i \in DOMAIN bs /\ q[i] = bs[i]
    BY <1>1, <1>2, <1>3, Zenon
  <2> QED BY <2>1, <2>2, Zenon DEF Lines
<1>5. Ascending(q)
  BY <1>1, <1>2, <1>3, Zenon DEF Ascending
<1>6. ASSUME NEW a \in Lines(q), NEW b \in Lines(bs) \ Lines(q) PROVE a < b
  <2>1. PICK i \in 1..2 : a \in Range(bs[i])
    BY <1>2, ZenonT(40) DEF Lines
  <2>2. PICK j \in 1..m : b \in Range(bs[j])
    BY <1>1, Zenon DEF Lines
  <2>3. i < j
    BY <1>2, <1>3, <2>2, Zenon DEF Lines
  <2>4. PICK x \in DOMAIN bs[i] : a = bs[i][x]
    BY <2>1, Zenon DEF Range
  <2>5. PICK y \in DOMAIN bs[j] : b = bs[j][y]
    BY <2>2, Zenon DEF Range
  <2>6. a # Notice /\ b # Notice
    BY <1>4, Zenon
  <2>7. bs[i][x] < bs[j][y] \/ Notice \in {bs[i][x], bs[j][y]}
    BY <1>1, <1>3, <2>3, Zenon DEF Ascending
  <2> QED BY <2>4, <2>5, <2>6, <2>7, Zenon
<1> QED BY <1>2, <1>4, <1>5, <1>6, Zenon DEF q, Below

(* Too many buffers: the notice is written, and the two oldest buffers are kept. *)
LEMMA DropOrder ==
  ASSUME TypeInv, TypeInv', RoundInv, OrderInv, DropBuffers
  PROVE  /\ OrderInv'
         /\ \A n \in dropped' \ dropped : \A m \in Lines(buffersToWrite') : m < n
<1>1. UNCHANGED <<currentBuffer_, buffers_, next, lines>> /\ pc = "swapped"
  BY DEF DropBuffers, shared
<1>2. /\ next = 1 /\ next' = 1 /\ log.files # <<>>
  BY <1>1 DEF RoundInv
<1>3. /\ buffersToWrite \in Seq(Seq(Nat)) /\ Len(buffersToWrite) \in Nat /\ lines \in Nat /\ LogOK(log, now, setBack)'
  BY DEF TypeInv
<1>4. ToWrite = Lines(buffersToWrite) /\ ToWrite' = Lines(buffersToWrite)'
  <2>1. ToWrite = Lines(buffersToWrite)
    BY <1>2, AllToWrite
  <2>2. DOMAIN buffersToWrite' = 1..Len(buffersToWrite')
    BY Elements DEF TypeInv
  <2> QED BY <1>2, <2>1, <2>2, Zenon DEF ToWrite, Lines
<1>5. CASE Len(buffersToWrite) > DropAbove
  <2>1. /\ OutputAppend(<<Notice>>) /\ buffersToWrite' = Kept(buffersToWrite)
        /\ dropped' = dropped \cup (Lines(buffersToWrite) \ Lines(buffersToWrite'))
    BY <1>5, Zenon DEF DropBuffers
  <2>2. Len(buffersToWrite) >= 2 /\ Notice \notin 1..lines
    BY <1>3, <1>5, LoggingConstants DEF Notice
  <2>3. Notice \notin Lines(buffersToWrite) /\ Ascending(buffersToWrite)
    BY <2>2, Zenon DEF OrderInv
  <2>4. /\ Ascending(buffersToWrite)' /\ Lines(buffersToWrite)' \subseteq Lines(buffersToWrite)
        /\ Below(Lines(buffersToWrite)', Lines(buffersToWrite) \ Lines(buffersToWrite)')
    <3>1. /\ Ascending(Kept(buffersToWrite)) /\ Lines(Kept(buffersToWrite)) \subseteq Lines(buffersToWrite)
          /\ Below(Lines(Kept(buffersToWrite)), Lines(buffersToWrite) \ Lines(Kept(buffersToWrite)))
      BY <1>3, <2>2, <2>3, KeptAre, Zenon
    <3> QED BY <2>1, <3>1, Zenon
  <2>5. /\ <<Notice>> \in Seq(Nat) /\ Rising(<<Notice>>) /\ Range(<<Notice>>) = {Notice} /\ Len(<<Notice>>) = 1
    <3>1. Len(<<Notice>>) = 1 /\ DOMAIN <<Notice>> = {1} /\ <<Notice>>[1] = Notice /\ <<Notice>> \in Seq(Nat)
      BY DEF Notice
    <3> QED BY <3>1, Zenon DEF Range, Rising
  <2>6. Below(Lines(Written) \ {Notice}, Range(<<Notice>>) \ {Notice}) /\ Ascending(Written)
    BY <2>5, Zenon DEF Below, OrderInv
  <2>7. PICK n \in 0..Len(<<Notice>>) :
           /\ Ascending(Written)'
           /\ Lines(Written)' = Lines(Written) \cup Range(SubSeq(<<Notice>>, 1, n))
           /\ lost' = lost \cup (Range(SubSeq(<<Notice>>, n + 1, Len(<<Notice>>))) \ {Notice})
    BY <1>2, <1>3, <2>1, <2>5, <2>6, OutputOrder, Zenon
  <2>8. {Notice} = Range(SubSeq(<<Notice>>, 1, n)) \cup Range(SubSeq(<<Notice>>, n + 1, Len(<<Notice>>)))
    BY <2>5, TwoParts, Zenon
  <2>9. (Lines(Written) \ {Notice})' = Lines(Written) \ {Notice} /\ lost' = lost
    BY <2>7, <2>8, Zenon DEF Notice
  <2>10. Sorted(Lines(Written) \ {Notice}, Lines(buffersToWrite)', Lines(buffers_), Range(currentBuffer_),
                (dropped \cup lost) \cup (Lines(buffersToWrite) \ Lines(buffersToWrite)'), lines)
    BY <1>3, <1>4, <2>4, SortedDrop DEF OrderInv
  <2>11. (dropped \cup lost)' = (dropped \cup lost) \cup (Lines(buffersToWrite) \ Lines(buffersToWrite)')
    BY <2>1, <2>9, Zenon
  <2>12. Lines(buffersToWrite)' \subseteq 1..lines'
    BY <1>1, <2>4, Zenon DEF OrderInv
  <2>13. OrderInv'
    BY <1>1, <1>4, <2>4, <2>7, <2>9, <2>10, <2>11, <2>12, Zenon DEF OrderInv
  <2> QED BY <2>1, <2>4, <2>13, Zenon DEF Below
<1>6. CASE ~(Len(buffersToWrite) > DropAbove)
  <2>1. UNCHANGED <<buffersToWrite, log, dropped, lost>>
    BY <1>6, Zenon DEF DropBuffers
  <2> QED BY <1>1, <2>1, Zenon DEF OrderInv, Written, ToWrite
<1> QED BY <1>5, <1>6

(* A buffer is written: it is later than the files and earlier than the buffers
   after it. *)
LEMMA WriteOrder ==
  ASSUME TypeInv, TypeInv', RoundInv, OrderInv, WriteBuffer
  PROVE  OrderInv' /\ dropped' = dropped
<1> DEFINE data == buffersToWrite[next]
           k == Len(buffersToWrite)
<1>1. /\ UNCHANGED <<currentBuffer_, buffers_, buffersToWrite, lines, dropped>>
      /\ pc = "write" /\ next' = next + 1 /\ next <= k /\ OutputAppend(data)
  BY DEF WriteBuffer, shared
<1>2. log.files # <<>>
  BY <1>1 DEF RoundInv
<1>3. /\ buffersToWrite \in Seq(Seq(Nat)) /\ k \in Nat /\ next \in 1..k /\ lines \in Nat
      /\ LogOK(log, now, setBack)'
  <2>1. /\ buffersToWrite \in Seq(Seq(Nat)) /\ next \in 1..(k + 1) /\ lines \in Nat
        /\ LogOK(log, now, setBack)'
    BY Zenon DEF TypeInv
  <2>2. k \in Nat
    BY <2>1, Elements, Zenon
  <2> HIDE DEF k
  <2>3. next \in 1..k
    BY <1>1, <2>1, <2>2
  <2> QED BY <2>1, <2>2, <2>3
<1>4. /\ data \in Seq(Nat) /\ DOMAIN buffersToWrite = 1..k
  BY <1>3, Elements
<1>5. /\ \A i \in next..k : (i = next \/ i \in (next + 1)..k) /\ i \in 1..k
      /\ \A i \in (next + 1)..k : i \in next..k /\ i \in 1..k /\ next < i
      /\ next \in next..k
  BY <1>3
<1> HIDE DEF data, k
<1>6. ToWrite = Range(data) \cup ToWrite' /\ ToWrite' = UNION {Range(buffersToWrite[i]) : i \in (next + 1)..k}
  <2>1. ToWrite' = UNION {Range(buffersToWrite[i]) : i \in (next + 1)..k}
    BY <1>1, Zenon DEF ToWrite, k
  <2>2. ToWrite = UNION {Range(buffersToWrite[i]) : i \in next..k}
    BY Zenon DEF ToWrite, k
  <2> QED BY <1>5, <2>1, <2>2, Zenon DEF data
<1>7. Range(data) \subseteq 1..lines /\ ToWrite \subseteq 1..lines /\ Notice \notin 1..lines
  <2>1. Notice \notin 1..lines
    BY <1>3 DEF Notice
  <2>2. ToWrite \subseteq 1..lines
    BY Zenon DEF OrderInv, Sorted
  <2> QED BY <1>6, <2>1, <2>2, Zenon
<1>8. Rising(data)
  <2>1. next \in DOMAIN buffersToWrite /\ next = next
    BY <1>3, <1>4
  <2> QED BY <2>1, Zenon DEF OrderInv, Ascending, Rising, data
<1>9. Below(Range(data), ToWrite')
  <2> SUFFICES ASSUME NEW a \in Range(data), NEW b \in ToWrite' PROVE a < b
    BY Zenon DEF Below
  <2>1. PICK j \in (next + 1)..k : b \in Range(buffersToWrite[j])
    BY <1>6, Zenon
  <2>2. PICK x \in DOMAIN data : a = data[x]
    BY Zenon DEF Range
  <2>3. PICK y \in DOMAIN buffersToWrite[j] : b = buffersToWrite[j][y]
    BY <2>1, Zenon DEF Range
  <2>4. next \in DOMAIN buffersToWrite /\ j \in DOMAIN buffersToWrite /\ next < j
    BY <1>3, <1>4, <1>5, Zenon
  <2>5. buffersToWrite[next][x] < buffersToWrite[j][y] \/ Notice \in {buffersToWrite[next][x], buffersToWrite[j][y]}
    BY <2>2, <2>4, Zenon DEF OrderInv, Ascending, data
  <2>6. a # Notice /\ b # Notice
    BY <1>6, <1>7, Zenon
  <2> QED BY <2>2, <2>3, <2>5, <2>6, Zenon DEF data
<1>10. Below(Lines(Written) \ {Notice}, Range(data) \ {Notice}) /\ Ascending(Written)
  BY <1>6, Zenon DEF OrderInv, Sorted, Below
<1>11. PICK n \in 0..Len(data) :
           /\ Ascending(Written)'
           /\ Lines(Written)' = Lines(Written) \cup Range(SubSeq(data, 1, n))
           /\ lost' = lost \cup (Range(SubSeq(data, n + 1, Len(data))) \ {Notice})
  BY <1>1, <1>2, <1>3, <1>4, <1>8, <1>10, OutputOrder, Zenon
<1> DEFINE H == Range(SubSeq(data, 1, n))
           R == Range(SubSeq(data, n + 1, Len(data)))
<1>12. Range(data) = H \cup R /\ Below(H \ {Notice}, R \ {Notice})
  BY <1>4, <1>8, TwoParts, Zenon
<1> HIDE DEF H, R
<1>13. Notice \notin H /\ Notice \notin R /\ Below(H, R)
  BY <1>7, <1>12, Zenon DEF Below
<1>14. (Lines(Written) \ {Notice})' = (Lines(Written) \ {Notice}) \cup H /\ (dropped \cup lost)' = (dropped \cup lost) \cup R
  <2>1. Lines(Written)' = Lines(Written) \cup H /\ lost' = lost \cup (R \ {Notice}) /\ dropped' = dropped
    BY <1>1, <1>11, Zenon DEF H, R
  <2> QED BY <1>13, <2>1, Zenon DEF Notice
<1>15. Sorted((Lines(Written) \ {Notice}) \cup H, ToWrite', Lines(buffers_), Range(currentBuffer_), (dropped \cup lost) \cup R, lines)
  <2>1. Sorted(Lines(Written) \ {Notice}, H \cup R \cup ToWrite', Lines(buffers_), Range(currentBuffer_), dropped \cup lost, lines)
    BY <1>6, <1>12, Zenon DEF OrderInv
  <2> QED BY <1>3, <1>9, <1>12, <1>13, <2>1, SortedWrite
<1> QED BY <1>1, <1>11, <1>14, <1>15, Zenon DEF OrderInv

(* The end of a round, when nothing is left to be written *)
LEMMA EndRoundOrder ==
  ASSUME TypeInv, TypeInv', RoundInv, OrderInv, EndRound PROVE OrderInv' /\ dropped' = dropped
<1>1. /\ UNCHANGED <<currentBuffer_, buffers_, lines, dropped, lost>>
      /\ next > Len(buffersToWrite) /\ buffersToWrite' = <<>> /\ next' = 1
  BY DEF EndRound, shared
<1>2. log'.files = log.files
  BY EndRoundRound
<1>3. ToWrite = {}
  BY <1>1, NothingToWrite
<1>4. ToWrite' = {} /\ Lines(buffersToWrite)' = {} /\ Ascending(buffersToWrite)'
  <2>1. 1..Len(<<>>) = {} /\ DOMAIN <<>> = {}
    OBVIOUS
  <2> QED BY <1>1, <2>1, Zenon DEF ToWrite, Lines, Ascending
<1>5. Written' = Written
  BY <1>2, Zenon DEF Written
<1> QED BY <1>1, <1>3, <1>4, <1>5, Zenon DEF OrderInv

(* The log is opened, with one empty file. *)
LEMMA OpenOrder ==
  ASSUME TypeInv, TypeInv', RoundInv, OrderInv, OpenLog PROVE OrderInv' /\ dropped' = dropped
<1>1. /\ UNCHANGED <<currentBuffer_, buffers_, buffersToWrite, next, lines, dropped, lost>>
      /\ log = NewLog
  BY Zenon DEF OpenLog, shared, locals, RoundInv
<1>2. log'.files = <<[name |-> now, lines |-> <<>>]>> /\ log.files = <<>>
  BY <1>1, OpenRound, NewLogOK
<1>3. /\ Lines(Written) = {} /\ Lines(Written)' = {} /\ Ascending(Written)'
  <2> DEFINE f == [name |-> now, lines |-> <<>>]
  <2>1. DOMAIN <<>> = {} /\ DOMAIN <<f>> = {1} /\ <<f>>[1].lines = <<>>
    OBVIOUS
  <2> HIDE DEF f
  <2>2. Written' = [i \in {1} |-> <<>>] /\ Written = [i \in {} |-> log.files[i].lines]
    <3>1. Written' = [i \in DOMAIN <<f>> |-> <<f>>[i].lines]
      BY <1>2, Zenon DEF Written, f
    <3>2. [i \in DOMAIN <<f>> |-> <<f>>[i].lines] = [i \in {1} |-> <<>>]
      BY <2>1
    <3>3. DOMAIN log.files = {}
      BY <1>2, <2>1, Zenon
    <3> QED BY <3>1, <3>2, <3>3, Zenon DEF Written
  <2>3. Lines(Written) = {} /\ Lines(Written)' = {}
    <3>1. Lines(Written) = {}
      BY <2>2, Zenon DEF Lines
    <3>2. Range(<<>>) = {} /\ DOMAIN Written' = {1} /\ Written'[1] = <<>>
      BY <2>1, <2>2, Zenon DEF Range
    <3>3. Lines(Written)' = UNION {Range(Written'[i]) : i \in {1}}
      BY <3>2, Zenon DEF Lines
    <3>4. UNION {Range(Written'[i]) : i \in {1}} = {}
      BY <3>2
    <3> QED BY <3>1, <3>3, <3>4, Zenon
  <2>4. Ascending(Written)'
    BY <2>1, <2>2, Zenon DEF Ascending
  <2> QED BY <2>3, <2>4
<1> QED BY <1>1, <1>3, Zenon DEF OrderInv, ToWrite

(* At first there are no lines. *)
LEMMA OrderInit == Init => OrderInv
<1> SUFFICES ASSUME Init PROVE OrderInv
  OBVIOUS
<1>1. /\ currentBuffer_ = <<>> /\ buffers_ = <<>> /\ buffersToWrite = <<>> /\ next = 1 /\ lines = 0
      /\ dropped = {} /\ lost = {} /\ log.files = <<>>
  BY NewLogOK DEF Init, LogInit
<1>2. DOMAIN <<>> = {} /\ 1..0 = {} /\ 1..Len(<<>>) = {}
  OBVIOUS
<1>3. Written = [i \in {} |-> log.files[i].lines]
  BY <1>1, <1>2, Zenon DEF Written
<1>4. Ascending(Written) /\ Lines(Written) = {}
  BY <1>3, Zenon DEF Ascending, Lines
<1>5. /\ Ascending(buffersToWrite) /\ Ascending(buffers_) /\ Rising(currentBuffer_)
      /\ Lines(buffersToWrite) = {} /\ Lines(buffers_) = {} /\ Range(currentBuffer_) = {} /\ ToWrite = {}
  BY <1>1, <1>2, Zenon DEF Ascending, Rising, Lines, Range, ToWrite
<1>6. Sorted({} \ {Notice}, {}, {}, {}, {} \cup {}, 0)
  BY <1>2, Zenon DEF Sorted, Below
<1> QED BY <1>1, <1>4, <1>5, <1>6, Zenon DEF OrderInv

(* Every step keeps the order, and drops only what is later than what it keeps. *)
LEMMA OrderStep ==
  ASSUME TypeInv, RoundInv, OrderInv, [Next]_vars
  PROVE  /\ OrderInv'
         /\ \A n \in dropped' \ dropped : \A m \in Lines(buffersToWrite') : m < n
<1>1. TypeInv'
  BY RoundStep
<1>2. CASE UNCHANGED <<currentBuffer_, buffers_, buffersToWrite, next, lines, log, dropped, lost>>
  BY <1>2, Zenon DEF OrderInv, Written, ToWrite
<1>3. CASE AppendLine \/ SwapBuffers
  <2>1. dropped' = dropped
    BY <1>3, Zenon DEF AppendLine, SwapBuffers, output
  <2> QED BY <1>3, <2>1, AppendLineOrder, SwapOrder, Zenon
<1>4. CASE DropBuffers
  BY <1>1, <1>4, DropOrder
<1>5. CASE WriteBuffer \/ EndRound \/ OpenLog
  BY <1>1, <1>5, WriteOrder, EndRoundOrder, OpenOrder, Zenon
<1>6. CASE CountDown \/ TestRunning \/ Wait \/ Start \/ Started \/ Stop \/ StopNotify \/ Join \/ Clock
  BY <1>2, <1>6, Zenon DEF CountDown, TestRunning, Wait, Start, Started, Stop, StopNotify, Join, Clock, Tick,
     ClockSetBack, shared, locals, output
<1>7. CASE UNCHANGED vars
  BY <1>2, <1>7, Zenon DEF vars, shared, locals, output
<1> QED BY <1>3, <1>4, <1>5, <1>6, <1>7, Zenon DEF Next, ThreadStep

(* Buffers followed by later ones *)
LEMMA JoinedBuffers ==
  ASSUME NEW p \in Seq(Seq(Nat)), NEW r \in Seq(Seq(Nat)), Ascending(p), Ascending(r),
         Below(Lines(p) \ {Notice}, Lines(r) \ {Notice})
  PROVE  p \o r \in Seq(Seq(Nat)) /\ Lines(p \o r) = Lines(p) \cup Lines(r) /\ Ascending(p \o r)
<1> DEFINE q == p \o r
           m == Len(p)
           n == Len(r)
<1>1. /\ q \in Seq(Seq(Nat)) /\ DOMAIN q = 1..(m + n) /\ DOMAIN p = 1..m /\ DOMAIN r = 1..n
      /\ m \in Nat /\ n \in Nat
      /\ (\A i \in 1..m : q[i] = p[i]) /\ (\A i \in 1..n : q[m + i] = r[i])
  BY Concatenated, Elements
<1> HIDE DEF q, m, n
<1>2. /\ \A i \in 1..(m + n) : i \in 1..m \/ \E a \in 1..n : i = m + a
      /\ \A i \in 1..m : i \in 1..(m + n)
      /\ \A a \in 1..n : m + a \in 1..(m + n)
  <2>1. ASSUME NEW i \in 1..(m + n), i \notin 1..m PROVE \E a \in 1..n : i = m + a
    <3>1. i - m \in 1..n /\ i = m + (i - m)
      BY <1>1, <2>1
    <3> QED BY <3>1, Zenon
  <2> QED BY <1>1, <2>1
<1>3. /\ \A a, b \in 1..n : (m + a < m + b => a < b) /\ (m + a = m + b => a = b)
      /\ \A a \in 1..n, i \in 1..m : ~(m + a < i) /\ m + a # i
  BY <1>1
<1>4. Lines(q) = Lines(p) \cup Lines(r)
  <2>1. ASSUME NEW x \in Lines(q) PROVE x \in Lines(p) \cup Lines(r)
    <3>1. PICK i \in 1..(m + n) : x \in Range(q[i])
      BY <1>1, Zenon DEF Lines
    <3>2. CASE i \in 1..m
      BY <1>1, <3>1, <3>2, Zenon DEF Lines
    <3>3. ASSUME NEW a \in 1..n, i = m + a PROVE x \in Lines(r)
      BY <1>1, <3>1, <3>3, Zenon DEF Lines
    <3> QED BY <1>2, <3>2, <3>3, Zenon
  <2>2. ASSUME NEW x \in Lines(p) \cup Lines(r) PROVE x \in Lines(q)
    BY <1>1, <1>2, Zenon DEF Lines
  <2> QED BY <2>1, <2>2, Zenon
<1>5. Ascending(q)
  <2> SUFFICES ASSUME NEW i \in 1..(m + n), NEW j \in 1..(m + n), NEW k \in DOMAIN q[i], NEW l \in DOMAIN q[j],
                      i < j \/ (i = j /\ k < l)
               PROVE  q[i][k] < q[j][l] \/ Notice \in {q[i][k], q[j][l]}
    BY <1>1, Zenon DEF Ascending
  <2>1. CASE i \in 1..m /\ j \in 1..m
    BY <1>1, <2>1, Zenon DEF Ascending
  <2>2. CASE i \in 1..m /\ \E b \in 1..n : j = m + b
    <3>1. q[i][k] \in Range(p[i])
      BY <1>1, <2>2, Zenon DEF Range
    <3>2. PICK b \in 1..n : q[j][l] \in Range(r[b])
      BY <1>1, <2>2, Zenon DEF Range
    <3>3. q[i][k] \in Lines(p) /\ q[j][l] \in Lines(r)
      BY <1>1, <2>2, <3>1, <3>2, Zenon DEF Lines
    <3> QED BY <3>3 DEF Below
  <2>3. CASE (\E a \in 1..n : i = m + a) /\ j \in 1..m
    <3>1. PICK a \in 1..n : i = m + a
      BY <2>3, Zenon
    <3>2. ~(i < j) /\ i # j
      BY <1>3, <2>3, <3>1, Zenon
    <3> QED BY <3>2, Zenon
  <2>4. CASE (\E a \in 1..n : i = m + a) /\ \E b \in 1..n : j = m + b
    <3>1. PICK a \in 1..n : i = m + a
      BY <2>4, Zenon
    <3>2. PICK b \in 1..n : j = m + b
      BY <2>4, Zenon
    <3>3. q[i] = r[a] /\ q[j] = r[b]
      BY <1>1, <3>1, <3>2, Zenon
    <3>4. a < b \/ (a = b /\ k < l)
      BY <1>3, <3>1, <3>2, Zenon
    <3>5. k \in DOMAIN r[a] /\ l \in DOMAIN r[b]
      BY <3>3, Zenon
    <3>6. r[a][k] < r[b][l] \/ Notice \in {r[a][k], r[b][l]}
      BY <1>1, <3>4, <3>5, Zenon DEF Ascending
    <3> QED BY <3>3, <3>6, Zenon
  <2> QED BY <1>2, <2>1, <2>2, <2>3, <2>4, Zenon
<1> QED BY <1>1, <1>4, <1>5, Zenon DEF q

(* What is left of buffersToWrite *)
LEMMA RestToWrite ==
  ASSUME NEW bs \in Seq(Seq(Nat)), NEW a \in 1..(Len(bs) + 1), Ascending(bs)
  PROVE  LET q == SubSeq(bs, a, Len(bs))
         IN  /\ q \in Seq(Seq(Nat)) /\ Ascending(q)
             /\ Lines(q) = UNION {Range(bs[i]) : i \in a..Len(bs)}
<1> DEFINE q == SubSeq(bs, a, Len(bs))
           m == Len(bs)
           n == m + 1 - a
<1>1. /\ m \in Nat /\ DOMAIN bs = 1..m
  BY Elements
<1>2. q \in Seq(Seq(Nat)) /\ Len(q) = n /\ \A i \in 1..n : q[i] = bs[a + i - 1]
  <2>1. a \in Nat \ {0} /\ m \in 0..m /\ a <= m + 1
    BY <1>1
  <2> QED BY <2>1, PartOf
<1>3. DOMAIN q = 1..n
  BY <1>2, Elements
<1> HIDE DEF q
<1>4. /\ \A i \in 1..n : a + i - 1 \in a..m /\ a + i - 1 \in 1..m
      /\ \A i, j \in 1..n : (i < j => a + i - 1 < a + j - 1) /\ (i = j => a + i - 1 = a + j - 1)
      /\ \A k \in a..m : k + 1 - a \in 1..n /\ a + (k + 1 - a) - 1 = k
  BY <1>1
<1> HIDE DEF n, m
<1>5. Ascending(q)
  <2> SUFFICES ASSUME NEW i \in 1..n, NEW j \in 1..n, NEW k \in DOMAIN q[i], NEW l \in DOMAIN q[j],
                      i < j \/ (i = j /\ k < l)
               PROVE  q[i][k] < q[j][l] \/ Notice \in {q[i][k], q[j][l]}
    BY <1>3, Zenon DEF Ascending
  <2> DEFINE u == a + i - 1
             v == a + j - 1
  <2>1. q[i] = bs[u] /\ q[j] = bs[v] /\ u \in DOMAIN bs /\ v \in DOMAIN bs
    BY <1>1, <1>2, <1>4, Zenon
  <2>2. u < v \/ (u = v /\ k < l)
    BY <1>4, Zenon
  <2> HIDE DEF u, v
  <2>3. bs[u][k] < bs[v][l] \/ Notice \in {bs[u][k], bs[v][l]}
    BY <2>1, <2>2, Zenon DEF Ascending
  <2> QED BY <2>1, <2>3, Zenon
<1>6. Lines(q) = UNION {Range(bs[i]) : i \in a..m}
  <2>1. ASSUME NEW x \in Lines(q) PROVE \E i \in a..m : x \in Range(bs[i])
    <3>1. PICK i \in 1..n : x \in Range(q[i])
      BY <1>3, Zenon DEF Lines
    <3> QED BY <1>2, <1>4, <3>1, Zenon
  <2>2. ASSUME NEW k \in a..m, NEW x \in Range(bs[k]) PROVE x \in Lines(q)
    <3>1. k + 1 - a \in 1..n /\ q[k + 1 - a] = bs[k]
      BY <1>2, <1>4, Zenon
    <3> QED BY <1>3, <2>2, <3>1, Zenon DEF Lines
  <2> QED BY <2>1, <2>2, Zenon
<1> QED BY <1>2, <1>5, <1>6 DEF q, m

(* The invariant puts every line where LinesInOrder says. *)
LEMMA InOrder ==
  ASSUME TypeInv, OrderInv PROVE LinesInOrder
<1> DEFINE T == SubSeq(buffersToWrite, next, Len(buffersToWrite))
           B == Append(buffers_, currentBuffer_)
<1>1. /\ currentBuffer_ \in Seq(Nat) /\ buffers_ \in Seq(Seq(Nat)) /\ buffersToWrite \in Seq(Seq(Nat))
      /\ next \in 1..(Len(buffersToWrite) + 1) /\ lines \in Nat
  BY DEF TypeInv
<1>2. Written \in Seq(Seq(Nat))
  <2>1. log \in LogType
    BY DEF TypeInv, LogOK
  <2> QED BY <2>1, FilesAre, Zenon DEF Written
<1>3. T \in Seq(Seq(Nat)) /\ Ascending(T) /\ Lines(T) = ToWrite
  BY <1>1, RestToWrite, Zenon DEF OrderInv, ToWrite
<1>4. /\ Below(Lines(Written) \ {Notice}, ToWrite)
      /\ Below((Lines(Written) \ {Notice}) \cup ToWrite, Lines(buffers_) \cup Range(currentBuffer_))
      /\ Below(Lines(buffers_), Range(currentBuffer_))
      /\ (Lines(Written) \ {Notice}) \cup ToWrite \cup Lines(buffers_) \cup Range(currentBuffer_)
           = (1..lines) \ (dropped \cup lost)
  BY Zenon DEF OrderInv, Sorted
<1>5. B \in Seq(Seq(Nat)) /\ Ascending(B) /\ Lines(B) = Lines(buffers_) \cup Range(currentBuffer_)
  <2>1. Below(Lines(buffers_) \ {Notice}, Range(currentBuffer_) \ {Notice})
    BY <1>4, Zenon DEF Below
  <2> QED BY <1>1, <2>1, OneMoreBuffer, Zenon DEF OrderInv
<1>6. Written \o T \in Seq(Seq(Nat)) /\ Ascending(Written \o T) /\ Lines(Written \o T) = Lines(Written) \cup ToWrite
  <2>1. Below(Lines(Written) \ {Notice}, Lines(T) \ {Notice}) /\ Ascending(Written)
    BY <1>3, <1>4, Zenon DEF Below, OrderInv
  <2> QED BY <1>2, <1>3, <2>1, JoinedBuffers, Zenon
<1>7. Ascending((Written \o T) \o B) /\ Lines((Written \o T) \o B) = (Lines(Written) \cup ToWrite) \cup Lines(B)
  <2>1. Below(Lines(Written \o T) \ {Notice}, Lines(B) \ {Notice})
    BY <1>4, <1>5, <1>6, Zenon DEF Below
  <2> QED BY <1>5, <1>6, <2>1, JoinedBuffers, Zenon
<1>8. Places = (Written \o T) \o B
  BY DEF Places
<1>9. Notice \notin 1..lines
  BY <1>1 DEF Notice
<1>10. Lines(Places) \ {Notice} = (1..lines) \ (dropped \cup lost)
  BY <1>4, <1>5, <1>7, <1>8, <1>9, Zenon
<1> QED BY <1>7, <1>8, <1>10, Zenon DEF LinesInOrder

-----------------------------------------------------------------------------
(* The theorems *)

(* The invariant of the logger *)
THEOREM LoggerInvariant == Spec => [](TypeInv /\ RoundInv /\ OrderInv)
<1>1. Init => TypeInv /\ RoundInv /\ OrderInv
  BY RoundInit, OrderInit
<1>2. TypeInv /\ RoundInv /\ OrderInv /\ [Next]_vars => (TypeInv /\ RoundInv /\ OrderInv)'
  BY RoundStep, OrderStep
<1> QED BY <1>1, <1>2, PTL DEF Spec

(* threadFunc() gets its two buffers back at the end of every round, append() has a
   spare buffer unless there is one to be written, and nothing stays unflushed while
   the logging thread sleeps or has ended. *)
THEOREM RoundsComplete == Spec => []RoundComplete
<1>1. TypeInv /\ RoundInv /\ OrderInv => RoundComplete
  BY DEF RoundInv, RoundComplete, Resting
<1> QED BY <1>1, LoggerInvariant, PTL

(* LogFile's files have increasing names, a file over rollSize_ is written to only in
   the second it was opened, and a period's file is at most checkEveryN_ appends late,
   for the appends of AsyncLogging. *)
THEOREM FilesAreRolled == Spec => []FilesRolled
<1>1. TypeInv /\ RoundInv /\ OrderInv => FilesRolled
  <2> SUFFICES ASSUME TypeInv PROVE FilesRolled
    OBVIOUS
  <2>1. log \in LogType /\ Names(log) /\ (log.writtenBytes_ > rollSize_ => log.appended <= log.lastRoll_)
        /\ (~setBack => log.late <= log.count_)
    BY DEF TypeInv, LogOK
  <2>2. ~setBack => log.late < checkEveryN_
    BY <2>1, LogFileConstants DEF Names, LogType
  <2> QED BY <2>1, <2>2 DEF FilesRolled, Names
<1> QED BY <1>1, LoggerInvariant, PTL

(* Every line appended is, in the order of append(), in the files or in a buffer on its
   way there, unless its buffer was dropped or its write failed. *)
THEOREM LinesStayInOrder == Spec => []LinesInOrder
<1>1. TypeInv /\ RoundInv /\ OrderInv => LinesInOrder
  BY InOrder
<1> QED BY <1>1, LoggerInvariant, PTL

(* A burst that is too long loses its newest lines and keeps its oldest. *)
THEOREM NewestAreDropped == Spec => DropsNewest
<1>1. TypeInv /\ RoundInv /\ OrderInv /\ [Next]_vars
        => [\A n \in dropped' \ dropped : \A m \in Lines(buffersToWrite') : m < n]_vars
  BY OrderStep
<1> QED BY <1>1, LoggerInvariant, PTL DEF Spec, DropsNewest
===============================================================================

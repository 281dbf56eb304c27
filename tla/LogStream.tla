------------------------------ MODULE LogStream -------------------------------
(***************************************************************************)
(* fishnet/base/log_stream.{h,cc}: the FixedBuffer a log line is put together *)
(* in, the conversion of integers and addresses, and formatSI() and           *)
(* formatIEC(), which show a quantity in five or six characters.              *)
(***************************************************************************)
EXTENDS Integers, Sequences, SequencesExt

CONSTANTS
  SIZE,               \* of the FixedBuffer
  kMaxNumericSize,
  Integrals,          \* integers that are logged
  Addresses,
  Strings,            \* texts that are logged, nullptr's "(null)" among them
  MaxPieces,          \* bound: calls of operator<< on one line
  Leads               \* the leading digits of quantities

VARIABLES
  line,       \* what is between data_ and cur_
  wrote,      \* history: what was logged and not left out, with its text
  pieces,     \* calls so far
  quantity,
  shown       \* what formatSI() or formatIEC() made of it

(* A character is the value of its digit, or one of these. *)
Minus == -1
LetterX == -2
SomeDigit == -3

-----------------------------------------------------------------------------
(* Division and remainder of C *)
Quot(a, b) == IF a >= 0 \/ a % b = 0 THEN a \div b ELSE a \div b + 1
Rem(a, b)  == a - b * Quot(a, b)

(* zero[lsd], for a remainder with the sign of its number *)
zero(lsd) == IF lsd < 0 THEN -lsd ELSE lsd

RECURSIVE LowestFirst(_, _)
LowestFirst(i, base) ==
  LET next == Quot(i, base)
  IN <<zero(Rem(i, base))>> \o IF next # 0 THEN LowestFirst(next, base) ELSE <<>>

convert(value) == Reverse(LowestFirst(value, 10) \o IF value < 0 THEN <<Minus>> ELSE <<>>)

convertHex(value) == Reverse(LowestFirst(value, 16))

-----------------------------------------------------------------------------
avail == SIZE - Len(line)

Put(kind, value, text) ==
  line' = line \o text /\ wrote' = Append(wrote, [kind |-> kind, value |-> value, text |-> text])

LeftOut == UNCHANGED <<line, wrote>>

append_Fills(str) == IF avail >= Len(str) THEN Put("string", 0, str) ELSE LeftOut

(* FixedBuffer::append() *)
append(str) == IF avail > Len(str) THEN Put("string", 0, str) ELSE LeftOut

formatInteger(v) == IF avail >= kMaxNumericSize THEN Put("decimal", v, convert(v)) ELSE LeftOut

formatAddress(p) ==
  IF avail >= kMaxNumericSize THEN Put("hex", p, <<0, LetterX>> \o convertHex(p)) ELSE LeftOut

(* A sign, twelve digits, a point and an exponent *)
DoubleLengths == {1, 19}

formatDouble == \E n \in DoubleLengths :
  IF avail >= kMaxNumericSize THEN Put("double", 0, [i \in 1..n |-> SomeDigit]) ELSE LeftOut

resetBuffer == line' = <<>> /\ wrote' = <<>> /\ pieces' = 0

StreamInit == line = <<>> /\ wrote = <<>> /\ pieces = 0

Shift ==
  /\ pieces < MaxPieces /\ pieces' = pieces + 1
  /\ \/ \E str \in Strings : append(str)
     \/ \E v \in Integrals : formatInteger(v)
     \/ \E p \in Addresses : formatAddress(p)
     \/ formatDouble

StreamNext == Shift \/ (pieces > 0 /\ resetBuffer)

(* Reading a number back, downward for a negative one so that the lowest fits *)
ReadBack(digits, base, sign) == FoldLeft(LAMBDA n, c : base * n + sign * c, 0, digits)

Canonical(digits) == digits # <<>> /\ (digits[1] = 0 => Len(digits) = 1) /\ \A i \in DOMAIN digits : digits[i] >= 0

Behind(prefix, text) == SubSeq(text, Len(prefix) + 1, Len(text))

Denotes(text, prefix, base, sign, value) ==
  LET digits == Behind(prefix, text)
  IN IsPrefix(prefix, text) /\ Canonical(digits) /\ ReadBack(digits, base, sign) = value

Reads(w) ==
  CASE w.kind = "decimal" /\ w.value < 0  -> Denotes(w.text, <<Minus>>, 10, -1, w.value)
    [] w.kind = "decimal" /\ w.value >= 0 -> Denotes(w.text, <<>>, 10, 1, w.value)
    [] w.kind = "hex"                     -> Denotes(w.text, <<0, LetterX>>, 16, 1, w.value)
    [] OTHER                              -> TRUE

(* A line consists of whole pieces in the order they were logged; one that does not fit
   is left out.  Numbers read back, the lowest integer too, and there is always room for
   the NUL that convert() and debugString() write behind the text. *)
LineExact ==
  /\ line = FoldLeft(LAMBDA l, w : l \o w.text, <<>>, wrote)
  /\ \A i \in DOMAIN wrote : Reads(wrote[i])
  /\ Len(line) < SIZE

-----------------------------------------------------------------------------
(* A quantity of lead and rest thousandths times base^exp, with lead < base^2 and lead >=
   base if exp > 0: any up to 2^63-1, in terms of which all comparisons are small; a rest
   of 999 is the integer just below the next lead too.  The units k to E (base 1000) and
   Ki to Ei (1024) are 1 to 6; 0 is none. *)
Bases == {1000, 1024}
Rests == {0, 1, 500, 879, 881, 999}
P == 5
E == 6
Quantities ==
  {q \in [base : Bases, lead : Leads, exp : 0..5, rest : Rests] :
     /\ q.lead < q.base * q.base /\ (q.exp > 0 => q.lead >= q.base)
     /\ q.exp = 5 => q.lead <= (IF q.base = 1000 THEN 9222 ELSE 8191)
     /\ q.exp = 0 => q.rest = 0}

Exact(q) == 1000 * q.lead + q.rest

(* static_cast<double>(s): from 2^53 on an integer may be rounded up to the next lead. *)
Doubles(q) == {Exact(q)} \cup IF q.exp >= 4 /\ q.rest = 999 THEN {Exact(q) + 1} ELSE {}


(* 9.995, 99.95 and 999.5 or 1023.5 of a unit, in thousandths of it *)
Bounds(base) == <<9995, 99950, IF base = 1000 THEN 999500 ELSE 1023500>>

(* Which of a unit's comparisons succeeds; 4: none, and the next unit is used. *)
Branch(n, base) == Min({b \in 1..3 : n < Bounds(base)[b] * base} \cup {4})

(* "%.<dec>f" of n / (1000 * divisor), as a number of 10^-dec; a tie goes either way. *)
Printed(n, dec, divisor) ==
  LET m == (n * 10^dec) \div (1000 * divisor)
      over == (n * 10^dec) % (1000 * divisor)
  IN {k \in {m, m + 1} : IF k = m THEN 2 * over <= 1000 * divisor ELSE 2 * over >= 1000 * divisor}

Texts(n, unit, dec, divisor) ==
  {[number |-> m, dec |-> dec, unit |-> unit] : m \in Printed(n, dec, divisor)}

(* Two decimals of the next unit, of which there is almost one *)
NextUnit(q) == {[number |-> m, dec |-> 2, unit |-> q.exp + 2] :
                m \in {k \in 0..100 : LET d == k * q.base * q.base - 100 * q.lead
                                      IN 2 * d <= q.base * q.base /\ -2 * d <= q.base * q.base}}

Plain(q) == {[number |-> q.lead, dec |-> 0, unit |-> 0]}

(* It compares the integer and prints the double. *)
formatSI(q) ==
  LET unit == q.exp + 1
      branch == Branch(Exact(q), 1000)
  IN CASE q.exp = 0 /\ q.lead < 1000 -> Plain(q)
       [] unit = E                   -> UNION {Texts(n, E, 2, 1000) : n \in Doubles(q)}
       [] OTHER -> IF branch = 4 THEN NextUnit(q)
                   ELSE UNION {Texts(n, unit, 3 - branch, 1000) : n \in Doubles(q)}

(* Two of the branches of Pi divide by Ti. *)
Divisor(unit, branch) == IF unit = P /\ branch \in {2, 3} THEN 1 ELSE 1024

(* It compares the double, too, and has a decimal for tens of Ki and Ei only. *)
formatIEC(q) ==
  LET unit == q.exp + 1
      decimals(branch) == CASE branch = 1 -> 2
                            [] branch = 2 -> IF unit \in {1, E} THEN 1 ELSE 0
                            [] branch = 3 -> 0
      text(n) == LET branch == Branch(n, 1024)
                 IN IF branch = 4 THEN NextUnit(q)
                    ELSE Texts(n, unit, decimals(branch), Divisor(unit, branch))
  IN IF q.exp = 0 /\ q.lead < 1024 THEN Plain(q) ELSE UNION {text(n) : n \in Doubles(q)}

QuantityInit == quantity = <<>> /\ shown = <<>>

Format ==
  /\ shown = <<>>
  /\ \E q \in Quantities :
       /\ quantity' = <<q>>
       /\ \E text \in IF q.base = 1000 THEN formatSI(q) ELSE formatIEC(q) : shown' = <<text>>

Characters(text, base) ==
  Len(convert(text.number \div 10^text.dec)) + (IF text.dec > 0 THEN text.dec + 1 ELSE 0)
  + (IF text.unit = 0 THEN 0 ELSE IF base = 1000 THEN 1 ELSE 2)

(* Half of the last digit shown, and what rest may add *)
Precise(q, text) ==
  LET divisor == q.base^(text.unit - q.exp)
      error   == text.number * divisor - q.lead * 10^text.dec
  IN 2 * error <= divisor + 2 * 10^text.dec /\ 2 * error >= -divisor - 2 * 10^text.dec

(* A double rounded up to a bound is printed with the decimals of the branch below
   ("100.0P"). *)
RoundedToBound(q) == q.base = 1000 /\ \E b \in 1..3 : Bounds(1000)[b] * 1000 \in Doubles(q) \ {Exact(q)}

(* 9.995 to 1023.5 Pi are divided by Ti: the number is that of Ti. *)
InTi(q, text) == q.base = 1024 /\ text.unit = P /\ text.dec = 0

(* A quantity is shown in at most five characters, or six with binary units, and right to
   half of the last digit, on either side of every bound; in six when the integer is just
   below a bound that its double reaches.  From 9.995 to 1023.5 Pi the number shown is
   right for the unit below the one that is printed. *)
QuantityShort ==
  shown # <<>> =>
    LET q == quantity[1]
        text == shown[1]
    IN IF InTi(q, text) THEN Precise(q, [text EXCEPT !.unit = P - 1])
       ELSE /\ text.unit = 0 \/ Precise(q, text)
            /\ Characters(text, q.base) <= (IF q.base = 1024 \/ RoundedToBound(q) THEN 6 ELSE 5)
=============================================================================

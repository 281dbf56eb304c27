--------------------------------- MODULE Json ---------------------------------
(***************************************************************************)
(* fishnet/utils/zjson/zjson.hpp: the recursive descent parser and dump().     *)
(* A text is a sequence of characters; the five characters uXXXX are one,      *)
(* U + XXXX.  A double is the shortest decimal that reads as it, which has the  *)
(* digits of the text as long as that has few: the 17 that "%.17g" writes read  *)
(* as the same double.                                                         *)
(***************************************************************************)
EXTENDS Integers, Sequences, SequencesExt, TLC

CONSTANTS
  Cases      \* [text: to begin with, units: what it is extended with (characters,
             \* literals, UTF-8 sequences), most: bound on the extensions]

VARIABLES
  text,      \* the text
  alphabet,  \* the units it is extended with
  units,     \* extensions left
  doc        \* what parse(text) returned and stored

Quote     == 34
Comma     == 44
Plus      == 43
Minus     == 45
Point     == 46
Slash     == 47
Colon     == 58
Backslash == 92
Array     == <<91, 93>>            \* its brackets
Object    == <<123, 125>>
U         == 65536
BadU      == U - 1                     \* u with a digit that ch2hex() refuses
Space     == {32, 9, 10, 13}
Digit     == 48..57
Exponent  == {69, 101}
kLiteralNull  == <<110, 117, 108, 108>>
kLiteralTrue  == <<116, 114, 117, 101>>
kLiteralFalse == <<102, 97, 108, 115, 101>>

(* The characters after a backslash, and what they stand for *)
Escape == (98 :> 8) @@ (102 :> 12) @@ (110 :> 10) @@ (114 :> 13) @@ (116 :> 9)
          @@ (Slash :> Slash) @@ (Quote :> Quote) @@ (Backslash :> Backslash)

(* Json: chars of a boolean, string, or number (see strtod); keys and elems of an array or object *)
Value(type, chars, keys, elems) == [type |-> type, chars |-> chars, keys |-> keys, elems |-> elems]
Null == Value("kNull", <<>>, <<>>, <<>>)

Ok(pos, val)  == [ret |-> "kParseOk", pos |-> pos, val |-> val]
Bytes(pos, s) == Ok(pos, Value("kString", s, <<>>, <<>>))
Err(ret)      == [ret |-> ret, pos |-> 0, val |-> Null]

(* *text, which ends with a NUL *)
At(t, p) == IF p <= Len(t) THEN t[p] ELSE 0

(* The first position from p on whose character is none of S *)
Past(t, p, S) == CHOOSE q \in p..(Len(t) + 1) : At(t, q) \notin S /\ \A i \in p..(q - 1) : t[i] \in S

parse_whitespace(t, p) == Past(t, p, Space)

parse_literal(t, p, literal, val) ==
  IF IsPrefix(literal, SubSeq(t, p, Len(t))) THEN Ok(p + Len(literal), val)
                                              ELSE Err("kParseInvalidValue")

(* operator< of std::string *)
Before(a, b) ==
  \E n \in 1..Len(b) : /\ IsPrefix(SubSeq(b, 1, n - 1), a)
                       /\ Len(a) = n - 1 \/ a[n] < b[n]

Numeral(digits) == FoldLeft(LAMBDA n, c : 10 * n + c - 48, 0, digits)

(* strtod(): <<whether there is a minus, the digits without zeros at either end, the
   exponent of the first>>; zero has a sign, and what is below 10^-323 is zero. *)
strtod(minus, integer, fraction, exponent) ==
  LET digits == integer \o fraction
      places == {i \in DOMAIN digits : digits[i] # 48}
      first  == Len(integer) - Min(places) + exponent
  IN IF places = {} \/ first < -323 THEN <<minus, <<48>>, 0>>
     ELSE <<minus, SubSeq(digits, Min(places), Max(places)), first>>

(* The digits of the largest double *)
Largest == <<49, 55, 57, 55, 54, 57, 51, 49, 51, 52, 56, 54, 50, 51, 49, 53, 55>>
isinf(number) == number[3] > 308 \/ (number[3] = 308 /\ Before(Largest, number[2]))

IntegerEnd_Zeros(t, p) == Past(t, p, Digit)

(* Behind the integer that starts at p: a zero ends it *)
IntegerEnd(t, p) == IF At(t, p) = 48 THEN p + 1 ELSE Past(t, p, Digit)

(* d, i and f: where the integer starts, where it ends, where the fraction ends; x and q:
   where the digits of the exponent start and where they end.  Where strtod() reads on
   (07, 0x7) the text is refused anyway. *)
parse_number(t, p) ==
  LET d == IF At(t, p) = Minus THEN p + 1 ELSE p
      i == IntegerEnd(t, d)
      f == IF At(t, i) = Point THEN Past(t, i + 1, Digit) ELSE i
      x == IF At(t, f) \notin Exponent THEN f
           ELSE IF At(t, f + 1) \in {Plus, Minus} THEN f + 2 ELSE f + 1
      q == Past(t, x, Digit)
      exponent == (IF At(t, x - 1) = Minus THEN -1 ELSE 1) * Numeral(SubSeq(t, x, q - 1))
      number   == strtod(d > p, SubSeq(t, d, i - 1), SubSeq(t, i + 1, f - 1), IF x > f THEN exponent ELSE 0)
  IN IF i = d \/ f = i + 1 \/ (x > f /\ q = x) THEN Err("kParseInvalidValue")
     ELSE IF isinf(number) THEN Err("kParseNumberTooBig")
     ELSE Ok(IF x > f THEN q ELSE f, Value("kNumber", number, <<>>, <<>>))

High(code) == 55296 <= code /\ code < 56320
Low(code)  == 56320 <= code /\ code < 57344

UTF8(code) ==
  LET Tail6(n) == 128 + ((code \div 64^n) % 64)
  IN IF code < 128        THEN <<code>>
     ELSE IF code < 2048  THEN <<192 + code \div 64, Tail6(0)>>
     ELSE IF code < 65536 THEN <<224 + code \div 4096, Tail6(1), Tail6(0)>>
     ELSE <<240 + code \div 262144, Tail6(2), Tail6(1), Tail6(0)>>

(* p is at the u of the escape *)
encode_utf8(t, p) ==
  LET code == At(t, p) - U
      next == IF At(t, p + 1) = Backslash THEN At(t, p + 2) - U ELSE -1
      both == 65536 + (code - 55296) * 1024 + (next - 56320)
  IN IF code < 0 THEN Err("kParseInvalidUnicodeHex")
     ELSE IF ~High(code) THEN Bytes(p + 1, UTF8(code))
     ELSE IF ~Low(next) THEN Err("kParseInvalidUnicodeSurrogate")
     ELSE IF both >= 1114111 THEN Err("kParseInvalidUnicodeHex")
     ELSE Bytes(p + 3, UTF8(both))

(* p is behind the opening quote, read is what stack_ got *)
RECURSIVE parse_string_raw(_, _, _)
parse_string_raw(t, p, read) ==
  LET c == At(t, p)
      e == IF At(t, p + 1) >= BadU THEN encode_utf8(t, p + 1)
           ELSE IF At(t, p + 1) \in DOMAIN Escape THEN Bytes(p + 2, <<Escape[t[p + 1]]>>)
           ELSE Err("kParseInvalidStringEscape")
  IN CASE c = 0         -> Err("kParseMissQuotationMark")
       [] c = Quote     -> Bytes(p + 1, read)
       [] c = Backslash -> IF e.ret = "kParseOk" THEN parse_string_raw(t, e.pos, read \o e.val.chars) ELSE e
       [] c \in 1..31   -> Err("kParseInvalidStringChar")
       [] OTHER         -> parse_string_raw(t, p + 1, Append(read, c))

(* std::map::emplace(): sorted by key, and the first value of a key stays *)
emplace(obj, key, val) ==
  LET n == Len(SelectSeq(obj.keys, LAMBDA k : Before(k, key))) + 1
  IN IF key \in Range(obj.keys) THEN obj
     ELSE [obj EXCEPT !.keys = InsertAt(@, n, key), !.elems = InsertAt(@, n, val)]

RECURSIVE parse_text(_, _)

(* The loop of parse_array(): an element is read, then the bracket or a comma *)
RECURSIVE parse_elements(_, _, _)
parse_elements(t, p, arr) ==
  LET e == parse_text(t, p)
      q == parse_whitespace(t, e.pos)
      a == [arr EXCEPT !.elems = Append(@, e.val)]
  IN IF e.ret # "kParseOk" THEN e
     ELSE CASE At(t, q) = Array[2] -> Ok(q + 1, a)
            [] At(t, q) = Comma    -> parse_elements(t, q + 1, a)
            [] OTHER               -> Err("kParseMissCommaOrSquareBracket")

parse_array(t, p) ==
  LET q     == parse_whitespace(t, p + 1)
      empty == Value("kArray", <<>>, <<>>, <<>>)
  IN CASE At(t, q) = 0        -> Err("kParseMissCommaOrSquareBracket")
       [] At(t, q) = Array[2] -> Ok(q + 1, empty)
       [] OTHER               -> parse_elements(t, q, empty)

(* The loop of parse_object(), p at what must be a key *)
RECURSIVE parse_members(_, _, _)
parse_members(t, p, obj) ==
  LET k == IF At(t, p) = Quote THEN parse_string_raw(t, p + 1, <<>>) ELSE Err("kParseMissKey")
      c == parse_whitespace(t, k.pos)
      e == parse_text(t, c + 1)
      q == parse_whitespace(t, e.pos)
      o == emplace(obj, k.val.chars, e.val)
  IN IF k.ret # "kParseOk" THEN Err("kParseMissKey")
     ELSE IF At(t, c) # Colon THEN Err("kParseMissColon")
     ELSE IF e.ret # "kParseOk" THEN e
     ELSE CASE At(t, q) = Object[2] -> Ok(q + 1, o)
            [] At(t, q) = Comma     -> parse_members(t, parse_whitespace(t, q + 1), o)
            [] OTHER                -> Err("kParseMissCommaOrCurlyBracket")

parse_object(t, p) ==
  LET q     == parse_whitespace(t, p + 1)
      empty == Value("kObject", <<>>, <<>>, <<>>)
  IN CASE At(t, q) = 0         -> Err("kParseMissCommaOrCurlyBracket")
       [] At(t, q) = Object[2] -> Ok(q + 1, empty)
       [] OTHER                -> parse_members(t, q, empty)

Boolean(b) == Value("kBoolean", <<b>>, <<>>, <<>>)

parse_text(t, p) ==
  LET q == parse_whitespace(t, p)
      c == At(t, q)
  IN CASE c = 0                 -> Err("kParseExpectValue")
       [] c = kLiteralNull[1]   -> parse_literal(t, q, kLiteralNull, Null)
       [] c = kLiteralTrue[1]   -> parse_literal(t, q, kLiteralTrue, Boolean(1))
       [] c = kLiteralFalse[1]  -> parse_literal(t, q, kLiteralFalse, Boolean(0))
       [] c = Quote             -> parse_string_raw(t, q + 1, <<>>)
       [] c = Array[1]          -> parse_array(t, q)
       [] c = Object[1]         -> parse_object(t, q)
       [] OTHER                 -> parse_number(t, q)

parse(t) ==
  LET r == parse_text(t, 1)
  IN IF r.ret = "kParseOk" /\ At(t, parse_whitespace(t, r.pos)) # 0
     THEN Err("kParseRootNotSingular") ELSE r

-----------------------------------------------------------------------------
(* dump() *)

Zeros(n) == [i \in 1..n |-> 48]
TwoOrMore(n) ==
  LET Ones(m) == <<48 + (m % 10)>>
  IN (IF n < 100 THEN <<>> ELSE Ones(n \div 100)) \o Ones(n \div 10) \o Ones(n)
WithPoint(s, n) == IF Len(s) > n THEN SubSeq(s, 1, n) \o <<Point>> \o SubSeq(s, n + 1, Len(s)) ELSE s

(* "%.17g": an exponent below -4 or above 16 is written, with its sign. *)
stringify_number(number) ==
  LET digits == number[2]
      first  == number[3]
  IN (IF number[1] THEN <<Minus>> ELSE <<>>)
     \o IF first \in 0..16 THEN WithPoint(digits \o Zeros(first + 1 - Len(digits)), first + 1)
        ELSE IF first \in -4..-1 THEN WithPoint(Zeros(-first) \o digits, 1)
        ELSE WithPoint(digits, 1)
             \o (IF first < 0 THEN <<101, Minus>> \o TwoOrMore(-first) ELSE <<101, Plus>> \o TwoOrMore(first))

(* Above 0xFFFF the plane is masked off: right for plane 1 only. *)
stringify_utf8(code) ==
  IF code < 65536 THEN <<Backslash, U + code>>
  ELSE <<Backslash, U + 55296 + (code % 65536) \div 1024, Backslash, U + 56320 + (code % 1024)>>

(* Bytes of the sequence that starts with ch, and the code point of a sequence *)
Count(ch) == IF ch >= 240 THEN 4 ELSE IF ch >= 224 THEN 3 ELSE IF ch >= 192 THEN 2 ELSE 1

CodePoint(seq) ==
  FoldLeft(LAMBDA code, ch : code * 64 + (ch % 64), seq[1] % 2^(8 - Len(seq)), Tail(seq))

RECURSIVE Escaped(_)
Escaped(s) ==
  IF s = <<>> THEN <<>>
  ELSE LET c == s[1]
           n == Count(c)
       IN IF \E e \in DOMAIN Escape \ {Slash} : Escape[e] = c
          THEN <<Backslash, CHOOSE e \in DOMAIN Escape : Escape[e] = c>> \o Escaped(Tail(s))
          ELSE IF c \in 32..127 \/ c >= BadU THEN <<c>> \o Escaped(Tail(s))
          ELSE stringify_utf8(CodePoint(SubSeq(s, 1, n))) \o Escaped(SubSeq(s, n + 1, Len(s)))

stringify_string_raw(s) == <<Quote>> \o Escaped(s) \o <<Quote>>

Separated(parts) ==
  FoldLeft(LAMBDA all, part : (IF all = <<>> THEN <<>> ELSE Append(all, Comma)) \o part, <<>>, parts)

RECURSIVE stringify(_)
stringify(v) ==
  LET part(i) == (IF v.type = "kArray" THEN <<>> ELSE Append(stringify_string_raw(v.keys[i]), Colon))
                 \o stringify(v.elems[i])
      parts   == Separated([i \in 1..Len(v.elems) |-> part(i)])
  IN CASE v.type = "kNull"    -> kLiteralNull
       [] v.type = "kBoolean" -> IF v.chars = <<1>> THEN kLiteralTrue ELSE kLiteralFalse
       [] v.type = "kNumber"  -> stringify_number(v.chars)
       [] v.type = "kString"  -> stringify_string_raw(v.chars)
       [] v.type = "kArray"   -> <<Array[1]>> \o parts \o <<Array[2]>>
       [] v.type = "kObject"  -> <<Object[1]>> \o parts \o <<Object[2]>>

-----------------------------------------------------------------------------
JsonInit ==
  \E case \in Cases :
    text = case.text /\ alphabet = case.units /\ units = case.most /\ doc = parse(text)

Extend(unit) ==
  /\ units > 0
  /\ text' = text \o unit /\ units' = units - 1 /\ doc' = parse(text')
  /\ UNCHANGED alphabet

JsonNext == \E unit \in alphabet : Extend(unit)

-----------------------------------------------------------------------------
(* The grammar of JSON, by splitting the text instead of reading it *)

Trim(s) ==
  LET kept == {i \in 1..Len(s) : s[i] \notin Space}
  IN IF kept = {} THEN <<>>
     ELSE SubSeq(s, CHOOSE i \in kept : \A j \in kept : i <= j, CHOOSE i \in kept : \A j \in kept : j <= i)

Inner(s) == SubSeq(s, 2, Len(s) - 1)
Within(s, brackets) == Len(s) >= 2 /\ s[1] = brackets[1] /\ s[Len(s)] = brackets[2]

IsDigits(s)   == s # <<>> /\ Range(s) \subseteq Digit
IsInteger(s)  == IsDigits(s) /\ (s[1] = 48 => Len(s) = 1)
IsFraction(s) == s = <<>> \/ (s[1] = Point /\ IsDigits(Tail(s)))
Unsigned(s, signs) == IF s # <<>> /\ s[1] \in signs THEN Tail(s) ELSE s
IsExponent(s) == s = <<>> \/ (s[1] \in Exponent /\ IsDigits(Unsigned(Tail(s), {Plus, Minus})))

(* 2 * 10^308 or more: some digit says so.  (No text has a number between the largest
   double and that.) *)
TooBig(integer, fraction, exponent) ==
  LET power == IF exponent = <<>> THEN 0
               ELSE (IF exponent[2] = Minus THEN -1 ELSE 1)
                    * Numeral(Unsigned(Tail(exponent), {Plus, Minus}))
      Says(digit, place) == (digit > 48 /\ place + power > 308) \/ (digit > 49 /\ place + power = 308)
  IN \/ \E i \in DOMAIN integer : Says(integer[i], Len(integer) - i)
     \/ \E i \in 2..Len(fraction) : Says(fraction[i], 1 - i)

IsNumber(s) ==
  LET d == Unsigned(s, {Minus})
      Part(i, j) == SubSeq(d, i + 1, j)
  IN \E i \in 1..Len(d) : \E j \in i..Len(d) :
       /\ IsInteger(Part(0, i)) /\ IsFraction(Part(i, j)) /\ IsExponent(Part(j, Len(d)))
       /\ ~TooBig(Part(0, i), Part(i, j), Part(j, Len(d)))

(* A character of a string: one that needs no escape, an escape, or a surrogate pair
   but the last *)
IsChar(s) ==
  \/ Len(s) = 1 /\ s[1] >= 32 /\ s[1] \notin {Quote, Backslash}
  \/ /\ Len(s) = 2 /\ s[1] = Backslash
     /\ s[2] \in DOMAIN Escape \/ (s[2] >= U /\ ~High(s[2] - U))
  \/ /\ Len(s) = 4 /\ s[1] = Backslash /\ s[3] = Backslash
     /\ High(s[2] - U) /\ Low(s[4] - U) /\ s # <<Backslash, U + 56319, Backslash, U + 57343>>

RECURSIVE IsChars(_)
IsChars(s) ==
  s = <<>> \/ \E n \in {1, 2, 4} : n <= Len(s) /\ IsChar(SubSeq(s, 1, n)) /\ IsChars(SubSeq(s, n + 1, Len(s)))

IsString(s) == Within(s, <<Quote, Quote>>) /\ IsChars(Inner(s))

RECURSIVE IsJson(_), IsList(_, _)
IsItem(s, type) ==
  IF type = Array THEN IsJson(s)
  ELSE \E i \in 1..Len(s) : /\ s[i] = Colon /\ IsString(Trim(SubSeq(s, 1, i - 1)))
                            /\ IsJson(SubSeq(s, i + 1, Len(s)))

IsList(s, type) ==
  \/ IsItem(s, type)
  \/ \E i \in 1..Len(s) : /\ s[i] = Comma /\ IsItem(SubSeq(s, 1, i - 1), type)
                          /\ IsList(SubSeq(s, i + 1, Len(s)), type)

IsJson(s) ==
  LET v == Trim(s)
  IN \/ v \in {kLiteralNull, kLiteralTrue, kLiteralFalse} \/ IsNumber(v) \/ IsString(v)
     \/ \E type \in {Array, Object} :
          Within(v, type) /\ (Trim(Inner(v)) = <<>> \/ IsList(Inner(v), type))

(* Whether dump() masks a plane off: strings with a code point above plane 1 *)
RECURSIVE HighPlane(_)
HighPlane(v) ==
  \/ \E s \in Range(v.keys) \cup (IF v.type = "kString" THEN {v.chars} ELSE {}) :
       \E i \in 1..(Len(s) - 1) : s[i] \in 241..255 \/ (s[i] = 240 /\ s[i + 1] >= 160)
  \/ \E e \in Range(v.elems) : HighPlane(e)

(* The parser accepts exactly the texts of the grammar whose numbers are not too big (but
   not the last surrogate pair), and what it stored, the sign of a zero too, is what it
   stores again from its own dump(), unless a code point is above plane 1. *)
JsonExact ==
  /\ (doc.ret = "kParseOk") = IsJson(text)
  /\ doc.ret = "kParseOk" /\ ~HighPlane(doc.val) =>
       LET again == parse(stringify(doc.val)) IN again.ret = "kParseOk" /\ again.val = doc.val
=============================================================================

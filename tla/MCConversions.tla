---------------------------- MODULE MCConversions -----------------------------
(* Instances of Conversions for TLC *)
EXTENDS Conversions, Integers

MCChunks == {<<>>} \cup [1..1 -> Byte] \cup [1..2 -> Byte] \cup {<<1, 0, 1>>}

(* Zones with and without daylight saving time, east and west of Greenwich; in 1970 *)
Std(h) == [gmtOffset |-> h * 3600, isDst |-> FALSE]
Dst(h) == [gmtOffset |-> (h + 1) * 3600, isDst |-> TRUE]
Changes == <<20000000, 30000000, 40000000>>
MCZoneFiles == {<<<<Std(8)>>, <<>>>>,
                <<<<Std(1), Dst(1), Std(1), Dst(1)>>, Changes>>,
                <<<<Dst(-5), Std(-5), Dst(-5), Std(-5)>>, Changes>>}
MCTimes == UNION {{c - 3601, c - 3600, c - 3599, c - 1, c, c + 1, c + 3599, c + 3600, c + 7200} :
                  c \in {20000000, 30000000, 40000000}} \cup {30000060}

(* Texts: structure, what follows a member of an object, numbers, and strings; characters
   by their codes, U + XXXX the characters uXXXX *)
Chars(S) == {<<c>> : c \in S}
Quote == 34
Key(c) == <<Quote, c, Quote>>
True == <<116, 114, 117, 101>>
U == 65536
Esc(code) == <<92, U + code>>
Structure == Chars({Quote, 32, 44, 45, 48, 55, 58, 91, 93, 123, 125}) \cup {Key(97), True}
(* - 0 7 . e + e-7 E308 e309 e-400 *)
InNumber == Chars({45, 48, 55, 46, 101, 43})
            \cup {<<101, 45, 55>>, <<69, 51, 48, 56>>, <<101, 51, 48, 57>>, <<101, 45, 52, 48, 48>>}
InString == Chars({Quote, 92, 47, 110, 10, 1, U + 7})
            \cup {Esc(c) : c \in {-1, 0, 233, 8364, 55348, 55380, 56319, 56606, 57343}}
            \cup {<<195, 169>>, <<240, 157, 132, 158>>}
MCCases == {[text |-> <<>>, units |-> Structure, most |-> 4],
            [text |-> <<123>> \o Key(98) \o <<58, 55, 44>>, units |-> Structure, most |-> 4],
            [text |-> <<>>, units |-> InNumber, most |-> 5],
            [text |-> <<Quote>>, units |-> InString, most |-> 4]}

(* int at its limits; strings that leave just room, or none, for a number or each other *)
MCIntegrals == {-2147483647 - 1, -10, -1, 0, 7, 100, 2147483647}
MCStrings == {[i \in 1..n |-> 1] : n \in {1, 8, 31}}

(* Around the bounds of either unit *)
MCLeads == UNION {c - 6..c + 6 : c \in {6, 1000, 1024, 8186, 9216, 9995, 10235, 99950, 102349, 999500, 999993,
                                        1048064, 1048569}} \cup {1005, 1500, 10050, 10500, 105500}
=============================================================================

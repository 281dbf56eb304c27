----------------------------- MODULE Conversions ------------------------------
(***************************************************************************)
(* The sequential parts of the library, whose operations are functions of what *)
(* they are given: the Buffer, dates and time zones with the stamps of the     *)
(* logger, the text of log lines, and the JSON parser.  One of them per        *)
(* behaviour.                                                                *)
(***************************************************************************)
EXTENDS Buffer

CONSTANTS DaysBefore, DaysAfter, ZoneFiles, Times, MaxZoneChanges,   \* of TimeZone
          Cases,                                             \* of Json
          SIZE, kMaxNumericSize, Integrals, Addresses, Strings, MaxPieces, Leads   \* of LogStream

VARIABLES part, day, date, wday, now, g_logTimeZone, cache, stamp, changes, inForce,
          text, alphabet, units, doc, line, wrote, pieces, quantity, shown

dates  == <<day, date, wday>>
stamps == <<now, g_logTimeZone, cache, stamp, changes, inForce>>
texts  == <<text, alphabet, units, doc>>
lines  == <<line, wrote, pieces, quantity, shown>>

Z == INSTANCE TimeZone
J == INSTANCE Json
L == INSTANCE LogStream

None == "none"
NoDate   == day = None /\ date = None /\ wday = None
NoStamp  == /\ now = None /\ g_logTimeZone = None /\ cache = None /\ stamp = None
            /\ changes = None /\ inForce = None
NoJson   == text = None /\ alphabet = None /\ units = None /\ doc = None

NoLine   == L!StreamInit /\ L!QuantityInit

ConversionsInit ==
  /\ Init /\ NoLine
  /\ \/ part \in {"buffer", "line", "quantity"} /\ NoDate /\ NoStamp /\ NoJson
     \/ part = "date" /\ Z!DateInit /\ NoStamp /\ NoJson
     \/ part = "stamp" /\ Z!StampInit /\ NoDate /\ NoJson
     \/ part = "json" /\ J!JsonInit /\ NoDate /\ NoStamp

BufferStep == part = "buffer" /\ Next /\ UNCHANGED <<part, dates, stamps, texts, lines>>
DateStep   == /\ part = "date" /\ (Z!NextDay \/ Z!PreviousDay)
              /\ UNCHANGED <<part, vars, stamps, texts, lines>>
StampStep  == part = "stamp" /\ Z!StampNext /\ UNCHANGED <<part, vars, dates, texts, lines>>
JsonStep   == part = "json" /\ J!JsonNext /\ UNCHANGED <<part, vars, dates, stamps, lines>>
LineStep   == /\ \/ part = "line" /\ L!StreamNext /\ UNCHANGED <<quantity, shown>>
                 \/ part = "quantity" /\ L!Format /\ UNCHANGED <<line, wrote, pieces>>
              /\ UNCHANGED <<part, vars, dates, stamps, texts>>

ConversionsSpec ==
  /\ ConversionsInit
  /\ [][BufferStep \/ DateStep \/ StampStep \/ JsonStep \/ LineStep]_<<part, vars, dates, stamps, texts, lines>>

-----------------------------------------------------------------------------
(* Days, dates and broken-down times convert into each other. *)
CalendarExact == part = "date" => Z!CalendarExact


(* The JSON parser accepts the grammar and reads back what dump() writes. *)
JsonExact == part = "json" => J!JsonExact
=============================================================================

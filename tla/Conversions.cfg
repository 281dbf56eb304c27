SPECIFICATION ConversionsSpec
CONSTANTS
  Byte = {0, 1}
  kCheapPrepend = 2
  kInitialSize = 2
  ExtraSize = 2
  MaxSize = 7
  Widths = {1, 2}
  Chunks <- MCChunks
  DaysBefore = 26000
  DaysAfter = 48000
  ZoneFiles <- MCZoneFiles
  Times <- MCTimes
  MaxZoneChanges = 2
  Cases <- MCCases
  SIZE = 40
  kMaxNumericSize = 32
  Integrals <- MCIntegrals
  Addresses = {0, 48879}
  Strings <- MCStrings
  MaxPieces = 4
  Leads <- MCLeads
INVARIANTS ContentExact SizeBounded CalendarExact  JsonExact
CHECK_DEADLOCK FALSE

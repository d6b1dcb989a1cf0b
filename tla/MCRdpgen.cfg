SPECIFICATION MainFairSpec
CONSTANTS
  Symbols = {"a", "b", "x", "y"}
  Strings = {"s"}
  Numerals = {"0", "6"}
  Blocks = {"c"}
  UnknownName = "%unknown"
  NoText = ""
  NullText = "null"
  NumeralValue <- MCNumeralValue
  IntMax = 7
  LongMax = 31
  MaxTokens = 10
CONSTRAINT
  Bounded
INVARIANTS
  KilledOnlyByEmptyLists
  ReportIsRight
  OnlyCleanStateIsPrinted
  PrintedListsAreComplete
PROPERTIES
  AlwaysEnds

SPECIFICATION FairSpec
CONSTANTS
  Symbols = {"a", "b", "x"}
  Blocks = {"c"}
  NullText = "null"
  InitialRules <- MCInitialRules
INVARIANTS
  EverySymbolClassified
  FlagMarksFirstUse
  EveryDuplicateReported
  CrashIffEmptyList
PROPERTIES
  Ends

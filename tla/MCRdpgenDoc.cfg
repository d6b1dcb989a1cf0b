SPECIFICATION MainSpec
CONSTANTS
  Symbols = {"a", "x"}
  Strings = {"s"}
  Numerals = {"0", "6"}
  Blocks = {"c"}
  UnknownName = "%unknown"
  NoText = ""
  NullText = "null"
  NumeralValue <- MCNumeralValue
  IntMax = 7
  LongMax = 31
  MaxTokens = 5
INVARIANTS
  NoRestrictionsOnTheGrammar

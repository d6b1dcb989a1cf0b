SPECIFICATION Spec
CONSTANTS
  Symbols = {"a", "b"}
  Strings = {"s", "t"}
  Numerals = {"9", "99"}
  Blocks = {"x"}
  UnknownName = "%unknown"
  NoText = ""
  NullText = "null"
  NumeralValue <- MCNumeralValue
  IntMax = 7
  LongMax = 31
  MaxTokens = 7
INVARIANTS
  TypeOK
  VerdictIsRight
  TreeMatchesInput
  SettingsMatchInput
  RulesWellFormed

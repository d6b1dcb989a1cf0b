SPECIFICATION FairSpec
CONSTANTS
  Letters = {"n"}
  Digits = {}
  Spaces = {" ", "newline"}
  High = {"high"}
  Others = {"!"}
  NL = "newline"
  EOF = "EOF"
  None = NULL
  Keyword <- MCKeyword
  Texts <- MCTexts
  Symbols <- MCSymbols
  Strings <- MCStrings
  Numerals = {}
  Blocks <- MCBlocks
  NumeralValue <- MCNumeralValue
  IntMax = 7
  LongMax = 31
  MaxTokens = 20
INVARIANTS
  VerdictIsThatOfTheText
  ErrorsPointBehindTheToken
PROPERTIES
  ParsingEnds

SPECIFICATION FairSpec
CONSTANTS
  Letters = {"n"}
  Digits = {"1"}
  Spaces = {" ", "newline"}
  High = {"high"}
  Others = {"!"}
  NL = "newline"
  EOF = "EOF"
  MaxCalls = 6
  Keyword <- MCKeyword
  Texts <- MCTexts
INVARIANTS
  TokensAreRight
  StopsOnlyWhereItMust
PROPERTIES
  ImplementsSource
  CallsReturn

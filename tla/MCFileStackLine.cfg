SPECIFICATION Spec
CONSTANTS
  NL = "newline"
  EOF = "EOF"
  MaxOpens = 2
  Texts <- AllTexts
INVARIANTS
  LineNumberOfCurrentFile

SPECIFICATION Spec
CONSTANTS
  NL = "newline"
  EOF = "EOF"
  MaxOpens = 3
  Texts <- UsualTexts
INVARIANTS
  NoFinishedFile
  PositionsAreRight
PROPERTIES
  ImplementsStream

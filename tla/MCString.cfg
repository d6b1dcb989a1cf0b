SPECIFICATION Spec
CONSTANTS
  s1 = s1
  s2 = s2
  Handles = {s1, s2}
  Literals <- MCLiterals
  Extensions <- MCExtensions
  Chars = {"a", "A", " "}
  Spaces = {" "}
  Upper <- MCUpper
  Lower <- MCLower
  NUL = "NUL"
  Junk = "junk"
  InitialCap = 4
  MaxDoublings = 1
  MaxBytes = 8
  HandleLens = {0, 2}
SYMMETRY Symmetry
INVARIANTS
  BuffersNotOverrun
  TextsEnd
  LengthsFitTexts
PROPERTIES
  ImplementsTextWhileSound

SPECIFICATION Spec
CONSTANTS
  A = A
  B = B
  C = C
  D = D
  X = X
  Comma = Comma
  MaxLen = 3
  BoxChars = 4
  CharsPerSide = 2
  Letter = {A, B, C, D, X}
  InvalidCharFlag = 4095
  MaskBits = 32
  Separator = Comma
  Inputs <- Problems
INVARIANTS InvalidDropped

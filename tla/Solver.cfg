SPECIFICATION Spec
CONSTANTS
  A = A
  B = B
  C = C
  D = D
  X = X
  Comma = Comma
  BoxChars = 4
  CharsPerSide = 2
  Letter = {A, B, C, D, X}
  InvalidCharFlag = 4095
  MaskBits = 32
  Separator = Comma
  MinSolutionSize = 1
  MaxSearchSize = 3
  MaxSolutions = 20
  StateCacheMinDepth = 2
  Inputs <- Puzzles
INVARIANTS ChainsWin NoSolutionHonest DoubleLetterUnsolved SolversAgree GraphIsWordGraph
PROPERTIES Answers

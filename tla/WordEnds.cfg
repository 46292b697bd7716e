SPECIFICATION Spec
CONSTANTS
  Comma = Comma
  Letter = Letter
  Nul = Nul
  Char = {Comma, Letter}
  Separator = Comma
  BlockSize = 3
  SimdBlockSize = 4
  Data <- Texts
INVARIANTS RoomInBuffer EndsExact

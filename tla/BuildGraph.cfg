SPECIFICATION Spec
CONSTANTS
  BoxChars = 3
  MaxWords = 3
  WordLists <- ProperLists
INVARIANTS BuildsWordGraph VariantsExact WordsPlaced EdgesDiffer

SPECIFICATION Spec
CONSTANTS
  BoxChars = 4
  MinSolutionSize = 1
  MaxSearchSize = 3
  MaxSolutions = 20
  StateCacheMinDepth = 2
  Graphs <- FourLetters
INVARIANTS CeilingIsShortest FinalWordsComplete

SPECIFICATION Spec
CONSTANTS
  BoxChars = 3
  MinSolutionSize = 1
  MaxSearchSize = 3
  MaxSolutions = 20
  StateCacheMinDepth = 2
  Graphs <- ThreeLetters
INVARIANTS EveryOptimalChainReported

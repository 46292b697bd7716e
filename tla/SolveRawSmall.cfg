SPECIFICATION Spec
CONSTANTS
  BoxChars = 3
  MinSolutionSize = 2
  MaxSearchSize = 3
  MaxSolutions = 2
  StateCacheMinDepth = 3
  Graphs <- ThreeLetters
INVARIANTS TypeOK StacksAgree ReportsSolve ReportedOnce CacheKeyLossless
PROPERTIES CeilingsSink AnswersRefine

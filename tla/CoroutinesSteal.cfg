SPECIFICATION Spec
CONSTANTS
  a1 = a1
  a2 = a2
  b1 = b1
  Main = main1
  Home <- MCHome
  Programs <- MCPrograms
INVARIANTS ComesHome
CHECK_DEADLOCK FALSE

SPECIFICATION MaintainedSpec
CONSTANTS
  MantissaBits = 1
  TopBins = 4
  Capacity = 7
  InitialAllocs = 3
  Sizes = {1, 2, 4}
  MaxNodes = 4
INVARIANTS FreeNodeLeft
CHECK_DEADLOCK FALSE

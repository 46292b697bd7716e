SPECIFICATION Spec
CONSTANTS
  Units <- MCUnits
  Threads = {t1, t2}
  MantissaBits = 1
  TopBins = 4
  Capacity = 7
  InitialAllocs = 1
  Sizes = {1, 2, 5}
  MaxNodes = 4
  RingSize = 5
  AllocSizes = {1, 2, 4}
  MaxPos = 9
  MaxStored = 3
  Size = 4
  Groups <- MCGroups
  Kinds = {"native", "cohandle", "buffer", "move_ptr"}
  Objects = {o1, o2}
  MaxResources = 3
  Types <- MCTypes
  MinAlign = 16
  Lengths = {0, 1, 3}
  Programs <- MCPrograms
  Home <- MCHome
  Main = main1
  a1 = a1
  a2 = a2
  b1 = b1
  MaxAcquires = 3
  Readers = {r1, r2}
  MaxMessages = 3
  Jobs <- MCJobs
  Colors = {"default", "red"}
  MaxStack = 2
INVARIANTS
  RamSound CompactionKeepsData RegionsDisjoint ResourcesApart ForestExact OwnedOnce
  BlocksApart OneResumer ComesHome WakesAndBalances MessagesReadOnce AssignedWithSpread
  PrintedAsWanted FailuresReported
PROPERTIES RefusalsHonest SyncReturns
CHECK_DEADLOCK FALSE

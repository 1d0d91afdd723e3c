CONSTANTS
  t1 = t1
  t2 = t2
  Threads <- TwoThreads
  SlabCnt = 2
  MaxHeld = 2
  MaxSlots = 5
  NoData = nodata
SPECIFICATION Spec
INVARIANTS
  DataKept
  FreeListSound
  GrowthBounded
PROPERTIES
  PoolSpec

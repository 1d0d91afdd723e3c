CONSTANTS
  p1 = p1
  p2 = p2
  Producers <- TwoProducers
  UTask = unstuck
  NoOne = noone
  BufferLen = 2
  MaxPush = 4
  YieldCnt = 1
  ReadChunk = 2
  SockCap = 1
  PushKinds <- AllKinds
SPECIFICATION Spec
SYMMETRY ProducerSymmetry
\* Producers stop pushing at MaxPush; the two tasks then sleep for good.
CHECK_DEADLOCK FALSE
INVARIANTS
  TypeOK
  RingHoldsLog
  NoSlotRace
  HandledInOrder
  OneHolder
  AwaiterSound
  NoLostWakeup
  PendingFlagged

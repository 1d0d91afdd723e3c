CONSTANTS
  p1 = p1
  p2 = p2
  Producers <- TwoProducers
  UTask = unstuck
  NoOne = noone
  BufferLen = 2
  MaxPush = 3
  YieldCnt = 1
  ReadChunk = 1
  SockCap = 1
  PushKinds <- PlainPush
SPECIFICATION PairSpec
\* Producers stop pushing at MaxPush; the two tasks then sleep for good.
CHECK_DEADLOCK FALSE
INVARIANTS
  NoSlotRace
  NoLostWakeup
PROPERTIES
  PublishedHandled
  RustPendingMoves
  RustLockReleased
  ChannelSpec

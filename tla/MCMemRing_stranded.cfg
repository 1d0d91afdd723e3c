CONSTANTS
  p1 = p1
  p2 = p2
  Producers <- OneProducer
  UTask = unstuck
  NoOne = noone
  BufferLen = 1
  MaxPush = 2
  YieldCnt = 1
  ReadChunk = 1
  SockCap = 2
  PushKinds <- PlainPush
SPECIFICATION FairSpec
\* Producers stop pushing at MaxPush; the two tasks then sleep for good.
CHECK_DEADLOCK FALSE
PROPERTIES
  PendingSent

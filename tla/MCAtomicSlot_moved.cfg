CONSTANTS
  t1 = t1
  t2 = t2
  t3 = t3
  NoTask = notask
  Tasks <- TwoTasks
SPECIFICATION FairSpec
\* A call is over when both sides have left the slot.
CHECK_DEADLOCK FALSE
PROPERTIES
  Answered

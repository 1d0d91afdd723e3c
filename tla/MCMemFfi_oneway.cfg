CONSTANTS
  c1 = c1
  c2 = c2
  c3 = c3
  k1 = k1
  k2 = k2
  Calls <- TwoCalls
  OneWay <- LastOneWay
  NoCall = nocall
  Keys <- TwoKeys
  NoKey = nokey
  NoMsg = nomsg
SPECIFICATION FairSpec
\* The thread makes each call once; then everybody waits.
CHECK_DEADLOCK FALSE
PROPERTIES
  EveryCallRuns

SPECIFICATION FairSpec
CONSTANTS
  g1 = g1
  g2 = g2
  g3 = g3
  Goroutine <- ThreeGoroutines
  Ops <- AllOps
  RefLimit = 3
  WaitLimit = 2
INVARIANTS
  RefsAccounted
  SerializedIO
  NoUseAfterClose
  EvictedBeforeClosed
  WaitersAccounted
PROPERTIES
  CloseReturnsUnlessSet
  ClosedWakes

SPECIFICATION FairSpec
CONSTANTS
  g1 = g1
  g2 = g2
  g3 = g3
  Goroutine <- ThreeGoroutines
  Ops <- BlockingOps
  RefLimit = 4
  WaitLimit = 3
PROPERTIES
  CloseReturns

CONSTANTS
  g1 = g1 g2 = g2 g3 = g3
  Goroutine <- ThreeGoroutines
  Channel <- OneChannel
  Cap <- OneSlot
  Calls <- SharedCalls
  MaxCalls = 2
SPECIFICATION FairFastSpec
CHECK_DEADLOCK FALSE
INVARIANTS RecvRefusalJustified SendRefusalJustified ClosedMeansDrained
PROPERTIES ImplementsChannel CloseReleases

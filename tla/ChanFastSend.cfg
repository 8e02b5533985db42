CONSTANTS
  g1 = g1 g2 = g2 g3 = g3
  Goroutine <- ThreeGoroutines
  Channel <- OneChannel
  Cap <- Unbuffered
  Calls <- AllPlain
  MaxCalls = 2
SPECIFICATION FastSpec
SYMMETRY Symmetry
CHECK_DEADLOCK FALSE
INVARIANT SendRefusalJustified

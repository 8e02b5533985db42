CONSTANTS
  g1 = g1 g2 = g2 g3 = g3
  Goroutine <- ThreeGoroutines
  Channel <- TwoChannels
  Cap <- Mixed
  Calls <- SelectCalls
  MaxCalls = 2
SPECIFICATION Spec
CHECK_DEADLOCK FALSE
INVARIANTS QueueInvariants FIFO OutcomeTrue NoLostWakeup NoLockDeadlock CommitHoldsLocks NoStaleSudog

CONSTANTS
  Waiters = {"w"}
  DeadlineModes = {"w", "rw"}
  EventModes = {{"r", "w"}}
  MaxTime = 3
  MaxSets = 2
  MaxOpens = 2
  MaxEvents = 1
SPECIFICATION FairSpec
CHECK_DEADLOCK FALSE
INVARIANT NeverThrows
PROPERTIES ReadinessConsumedOnce NoEarlyTimeout WaitEnds

CONSTANTS
  m0 = m0
  m1 = m1
  m2 = m2
  M0 = m0
  Sysmon = sysmon
  None = None
  Ms <- ThreeMs
  NP = 2
  Ops = {"stop", "each", "syscall", "block"}
  MaxOps = 1
  MaxSys = 1
SPECIFICATION FairSpec
CHECK_DEADLOCK FALSE
INVARIANTS WorldIsStopped EachRanOnce
PROPERTY WorldStops

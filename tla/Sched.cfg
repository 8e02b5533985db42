CONSTANTS
  m0 = m0
  m1 = m1
  m2 = m2
  g0 = g0
  g1 = g1
  M0 = m0
  G0 = g0
  Sysmon = sysmon
  None = None
  NP = 2
  Ms <- ThreeMs
  Gs <- TwoGs
  Ops = {"gosched", "syscall", "block"}
  MaxReady = 2
SPECIFICATION FairSpec
CHECK_DEADLOCK FALSE
INVARIANTS EachPHasOneOwner EachGOnce DanceLosesNothing
PROPERTY RunnableRuns

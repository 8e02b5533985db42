CONSTANTS
  t1 = t1 t2 = t2 u1 = u1 u2 = u2 p1 = p1 p2 = p2 r1 = r1 None = None
  Timers = {t1, t2}
  Users = {u1, u2}
  Ps = {p1, p2}
  Runners = {r1}
  Own <- MCOwn
  Period <- OneTicker
  CounterMod = 16
  Moves = TRUE
  MaxTime = 2
  MaxOps = 3
SPECIFICATION Spec
CHECK_DEADLOCK FALSE
SYMMETRY Symmetry
INVARIANTS NeverThrows WakeTimeNotLate
PROPERTY ImplementsTimers

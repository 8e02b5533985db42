CONSTANTS
  g1 = g1 g2 = g2 g3 = g3 m1 = m1
  None = None
  Goroutine <- ThreeGoroutines
  Addr <- OneMutex
  Sem = m1
  MaxCount = 3
  MaxSpin = 1
  Patience = 2
SPECIFICATION MutexSpecOf
SYMMETRY Symmetry
INVARIANTS NeverInconsistent FreeMutexIsNoticed
PROPERTY ImplementsLock

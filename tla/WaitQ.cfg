CONSTANTS
  s1 = s1 s2 = s2 s3 = s3 s4 = s4
  Nil = Nil
  Sudog <- FourSudogs
SPECIFICATION Spec
SYMMETRY Symmetry
INVARIANTS LinksMatch UnlinkedOutside
PROPERTY ReturnsOldestLive

CONSTANTS
  Initializer = {i1, i2}
  Program = {p1, p2, p3}
  Slot = {s1, s2}
  ReadOnly = ReadOnly
  None = None
  Run = {r1, r2, r3}
  Nobody = Nobody
SPECIFICATION FSpec
CHECK_DEADLOCK FALSE
SYMMETRY MCSymmetry
INVARIANTS OneWriter OpenIsReady PathIsWhole PathLeadsToTheRelay

SPECIFICATION Spec
CONSTANTS
  Proc = {p1, p2}
  Block = {k1, k2, k3, k4}
  NBUF = 3
  LOGBLOCKS = 1
SYMMETRY Symmetry
INVARIANTS  ReadsLatest

SPECIFICATION MCSpec
CONSTANTS
  Proc = {p1, p2, p3}
  Block = {b1, b2, b3}
  NUM = 7
  RING = 2
  UINT16 = 4
  Pauser = {q1, q2}
  UINT = 6
  MaxN = 2
  Printer = {c1, c2}
  INT = 4
  LONG = 8
  MaxPrints = 1
SYMMETRY Symmetry
INVARIANTS TransferDone DescriptorsOwned NobodyOversleeps PrintsWhole

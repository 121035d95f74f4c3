SPECIFICATION MCSpec
CONSTANTS
  Proc = {1, 2}
  NPAGE = 21
  NV = 5
  PGSIZE = 2
  R0 = 2
  R1 = 4
  USERSTACK = 1
  Program <- Programs
  MaxGrow = 2
  MinSz = 4
  HEADER = 2
  MINCORE = 3
  LIMIT = 9
  Bytes = {0, 2, 7}
VIEW View
INVARIANTS  MemoryIsPrivate HeapInv

SPECIFICATION Spec
CONSTANTS
  Proc = {p1, p2}
  Inum = {i1, i2}
  NB = 4
  BSIZE = 2
  NDIRECT = 1
  NINDIRECT = 2
  BPB = 1
  MAXOPBLOCKS = 6
  FileNo = {f1, f2}
  Count = {3}
VIEW View
SYMMETRY Symmetry
INVARIANTS BlocksOwnedOnce OwnData TransactionFits OffsetInFile

SPECIFICATION MCSpec
CONSTANTS
  Proc = {p1, p2}
  InitProc = p1
  Name = {n1}
  NINUM = 1
  NINODE = 1
  Calls = {"create", "unlink"}
  BSIZE = 2
  NDIRECT = 1
  NINDIRECT = 2
  FSSIZE = 22
  BPB = 21
  NINODES = 5
  IPB = 2
  LOGBLOCKS = 1
  MaxFiles = 3
  MaxLength = 7
  Char = {"a", "b"}
  DIRSIZ = 2
  MaxPath = 5
  MaxEntries = 2
  N = 4
  Byte = {0, 1}
INVARIANT NoOrphanStays

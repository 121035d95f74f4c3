SPECIFICATION MCSpec
CONSTANTS
  Proc = {p1, p2}
  First = p1
  PIPESIZE = 2
  UINT = 4
  MaxN = 2
  STREAM = 4
  MAXARGS = 3
  NPROC = 6
  NOFILE = 6
  PipeName = {"k1", "k2", "k3"}
  BUF = 4
  SIZEBUF = 9
  DIRSIZ = 1
  LineLen = 4
  PatternLen = 3
  TextLen = 2
  FileLen = 4
INVARIANTS PipeInv WakeupsUnlessKilled LineMeansCommand ShellInv OutputComplete
PROPERTIES ProgramsFinish

SPECIFICATION MCSpec
CONSTANTS
  NPROC = 3
  Cpu = {c1, c2}
  MaxPid = 3
  KillPids = {2, 3}
  Reader = {p1, p2}
  Char = {a}
  INPUT_BUF_SIZE = 3
  UINT = 6
  ReadN = 2
  Writer = {q1, q2}
  FIFO = 3
  WriteN = 2
  MaxRx = 2
  MaxEcho = 3
SYMMETRY Symmetry
INVARIANTS ProcInv NoLostWait  BufferIsInput WritersWoken
PROPERTY EofReported

SPECIFICATION FairSpec
CONSTANTS
  Proc = {p1, p2}
  Block = {b1, b2}
  Data = {d0, d1}
  LOGBLOCKS = 6
  MAXOPBLOCKS = 3
  MaxWrites = 2
  NoBlock = NoBlock
INVARIANTS  IInv
PROPERTIES DurableOnReturn AtomicAcrossCrashes SleepersWoken

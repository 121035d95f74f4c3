SPECIFICATION SpecMC
CONSTANTS
  Proc = {p1, p2}
  NINODES = 3
  Name = {"a", "b"}
  Paths <- PathsMC
  Second <- SecondMC
  Op = {"open", "create", "mkdir", "symlink", "link", "unlink", "chdir"}
  MAXDEPTH = 2
  User = {u1, u2}
  initproc = u1
  NFILE = 3
  NOFILE = 2
  Inode = {i1, i2}
INVARIANT IlockFindsInode
SYMMETRY Symmetry

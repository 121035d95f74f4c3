------------------------------ MODULE FileData ------------------------------
(***************************************************************************)
(* File contents: balloc, bfree, bmap, itrunc, readi and writei of fs.c    *)
(* under open(), read(), write(), unlink() and the last close() of a file. *)
(*                                                                         *)
(* A block is BSIZE words; a word is 0, the number of a block (in an       *)
(* indirect block), or the mark of the file whose data it is.  Each turn   *)
(* of writei()'s loop is a step; a system call waits for the inode's lock  *)
(* and does what it does under it in one step otherwise.  Commits are      *)
(* those of module Log: the disk counts when no operation is under way.    *)
(* Any process may use any open file: who has descriptors for it is module *)
(* FileTable's, and the inode table module Inode's.                        *)
(***************************************************************************)
EXTENDS Integers, FiniteSets, FiniteSetsExt

CONSTANTS
  Proc,
  Inum,         \* files
  NB,           \* data blocks of the disk
  BSIZE,        \* words in a block
  NDIRECT, NINDIRECT,
  BPB,          \* blocks to a bitmap block
  MAXOPBLOCKS,
  FileNo,       \* open files
  Count         \* words that one read() or write() asks for

Block == 1 .. NB
MAXFILE == NDIRECT + NINDIRECT
Nil == "nil"

FileDataAssumption ==
  /\ {NB, BSIZE, NDIRECT, NINDIRECT, BPB, MAXOPBLOCKS} \cup Count \subseteq Nat \ {0}
  /\ NINDIRECT <= BSIZE /\ MAXOPBLOCKS > 5 /\ Nil \notin Proc \cup Inum \cup FileNo

VARIABLES
  bitmap,  \* blocks in use
  blk,     \* contents of the blocks
  ip,      \* inodes in memory
  dip,     \* inodes as last written by iupdate()
  lock,    \* holder of each inode's lock
  file,    \* ftable.file[] as far as inodes go
  pc,      \* where each process is
  io,      \* locals of filewrite() and writei(), or the inode that fileclose() puts
  logged,  \* home blocks that each process's operation has logged
  panic

vars == <<bitmap, blk, ip, dip, lock, file, pc, io, logged, panic>>
disk == <<bitmap, blk, ip, dip>>

Zero == [w \in 0 .. BSIZE - 1 |-> 0]
FreeInode == [type |-> 0, nlink |-> 0, size |-> 0, addrs |-> [a \in 0 .. NDIRECT |-> 0]]
NoFile == [ip |-> Nil, off |-> 0, cut |-> 0]
NoIo == [f |-> Nil, i |-> Nil, n |-> 0, n1 |-> 0, tot |-> 0]

TypeOK ==
  /\ bitmap \subseteq Block
  /\ blk \in [Block -> [0 .. BSIZE - 1 -> (0 .. NB) \cup Inum]]
  /\ \A i \in Inum : \A d \in {ip[i], dip[i]} :
       /\ {d.type, d.nlink} \subseteq {0, 1} /\ d.size \in 0 .. MAXFILE * BSIZE
       /\ d.addrs \in [0 .. NDIRECT -> 0 .. NB]
  /\ lock \in [Inum -> Proc \cup {Nil}]
  /\ file \in [FileNo -> [ip : Inum \cup {Nil}, off : 0 .. MAXFILE * BSIZE, cut : {0, 1}]]
  /\ pc \in [Proc -> {"out", "write", "loop", "written", "iput"}]
  /\ \A p \in Proc : logged[p] \subseteq Nat

(***************************************************************************)
(* Blocks                                                                  *)
(***************************************************************************)
BitmapBlock(b) == NB + 1 + b \div BPB
InodeBlock == 0

\* bmap()'s view of the disk: the block it is about to return, the bitmap, the
\* blocks, the inode's addrs[], and what it has logged.
Now(i, a) == [addr |-> a, used |-> bitmap, blk |-> blk, addrs |-> ip[i].addrs, log |-> {}]

\* balloc(): the first free block, zeroed, or 0.
Balloc(s) ==
  LET free == Block \ s.used
      b == Min(free)
  IN  IF free = {} THEN [s EXCEPT !.addr = 0]
      ELSE [s EXCEPT !.addr = b, !.used = @ \cup {b}, !.blk[b] = Zero,
                     !.log = @ \cup {BitmapBlock(b), b}]

MutNoEntry(s, x, n) == s
\* a[bn] = addr; log_write(bp)
SetEntry(s, x, n) == [s EXCEPT !.blk[x][n] = s.addr, !.log = @ \cup {x}]

Bmap(i, bn) ==
  LET a == IF bn < NDIRECT THEN bn ELSE NDIRECT
      n == bn - NDIRECT
      s == IF ip[i].addrs[a] # 0 THEN Now(i, ip[i].addrs[a]) ELSE Balloc(Now(i, 0))
      top == [s EXCEPT !.addrs[a] = s.addr]
      x == top.addr
  IN  IF bn < NDIRECT \/ x = 0 THEN top
      ELSE IF top.blk[x][n] # 0 THEN [top EXCEPT !.addr = top.blk[x][n]]
      ELSE LET t == Balloc(top) IN IF t.addr = 0 THEN t ELSE SetEntry(t, x, n)

\* The blocks of an inode d, each with the pointer to it.
Pointers(d, c) ==
  {<<a, 0, d.addrs[a]>> : a \in {a \in 0 .. NDIRECT : d.addrs[a] # 0}}
    \cup IF d.addrs[NDIRECT] = 0 THEN {}
         ELSE LET x == d.addrs[NDIRECT] IN
              {<<NDIRECT, n + 1, c[x][n]>> : n \in {n \in 0 .. NINDIRECT - 1 : c[x][n] # 0}}
Blocks(d, c) == {t[3] : t \in Pointers(d, c)}

MutDirectOnly(i) == {ip[i].addrs[a] : a \in 0 .. NDIRECT - 1} \ {0}
\* What itrunc() gives to bfree().
Truncated(i) == Blocks(ip[i], blk)

\* itrunc(), with d what iupdate() then writes.
Itrunc(i, d) ==
  /\ bitmap' = bitmap \ Truncated(i)
  /\ panic' = IF Truncated(i) \subseteq bitmap THEN panic ELSE "freeing free block"
  /\ ip' = [ip EXCEPT ![i] = d] /\ dip' = [dip EXCEPT ![i] = d]
  /\ UNCHANGED blk

(***************************************************************************)
(* open, unlink, close                                                     *)
(***************************************************************************)
Ref(i) == Cardinality({f \in FileNo : file[f].ip = i}) + Cardinality({p \in Proc : io[p].i = i})

\* sys_open() with O_CREATE, and with O_APPEND or O_TRUNC as mode says; cut is
\* history: the file has been truncated since it was opened.
Open(p, f, i, mode) ==
  LET new == [FreeInode EXCEPT !.type = 1, !.nlink = 1]
      made == IF ip[i].type = 0 THEN new ELSE ip[i]
      opened == [ip |-> i, off |-> IF mode = "append" THEN made.size ELSE 0, cut |-> 0]
  IN
  /\ pc[p] = "out" /\ lock[i] = Nil /\ file[f] = NoFile /\ made.nlink = 1
  /\ IF mode = "trunc" THEN Itrunc(i, new)
     ELSE /\ ip' = [ip EXCEPT ![i] = made] /\ dip' = [dip EXCEPT ![i] = made]
          /\ UNCHANGED <<bitmap, blk, panic>>
  /\ file' = [g \in FileNo |->
       IF g = f THEN opened
       ELSE IF file[g].ip = i /\ mode = "trunc" THEN [file[g] EXCEPT !.cut = 1] ELSE file[g]]
  /\ UNCHANGED <<lock, pc, io, logged>>

\* iput() with nobody else's reference left frees an unlinked file.
Iput(i, others) ==
  IF others = 0 /\ ip[i].nlink = 0 THEN Itrunc(i, FreeInode) ELSE UNCHANGED <<disk, panic>>

\* sys_unlink()
Unlink(p, i) ==
  /\ pc[p] = "out" /\ lock[i] = Nil /\ ip[i].nlink = 1
  /\ IF Ref(i) = 0 THEN Itrunc(i, FreeInode)
     ELSE /\ ip' = [ip EXCEPT ![i].nlink = 0] /\ dip' = [dip EXCEPT ![i].nlink = 0]
          /\ UNCHANGED <<bitmap, blk, panic>>
  /\ UNCHANGED <<lock, file, pc, io, logged>>

\* The last fileclose(), and then its transaction.
Close(p, f) ==
  /\ pc[p] = "out" /\ file[f] # NoFile /\ \A q \in Proc : io[q].f # f
  /\ file' = [file EXCEPT ![f] = NoFile]
  /\ pc' = [pc EXCEPT ![p] = "iput"] /\ io' = [io EXCEPT ![p].i = file[f].ip]
  /\ UNCHANGED <<disk, lock, logged, panic>>

CloseIput(p) ==
  LET i == io[p].i IN
  /\ pc[p] = "iput"
  /\ Iput(i, Ref(i) - 1)
  /\ pc' = [pc EXCEPT ![p] = "out"] /\ io' = [io EXCEPT ![p] = NoIo]
  /\ UNCHANGED <<lock, file, logged>>

(***************************************************************************)
(* read and write                                                          *)
(***************************************************************************)
Mapped(i, bn) == LET s == Bmap(i, bn) IN s.addr # 0 /\ s.used = bitmap

\* fileread() and readi(), of as much as n words.  A block that is missing below
\* the size would be allocated, and log_write() be called outside a transaction.
Read(p, f, n) ==
  LET i == file[f].ip
      off == file[f].off
      r == Min({n, ip[i].size - off})
  IN
  /\ pc[p] = "out" /\ file[f] # NoFile /\ lock[i] = Nil /\ r > 0
  /\ file' = [file EXCEPT ![f].off = @ + r]
  /\ panic' = IF \A o \in off .. off + r - 1 : Mapped(i, o \div BSIZE) THEN panic
              ELSE "log_write outside of trans"
  /\ UNCHANGED <<disk, lock, pc, io, logged>>

\* filewrite(): how much of n goes into one transaction.
ChunkMax == ((MAXOPBLOCKS - 1 - 1 - 2) \div 2) * BSIZE

\* A transaction for the first part of n: begin_op(), ilock() and writei()'s
\* tests; one that fails ends the write.
WriteChunk(p, f, n) ==
  LET i == file[f].ip
      n1 == Min({n, ChunkMax})
      bad == file[f].off > ip[i].size \/ file[f].off + n1 > MAXFILE * BSIZE
  IN
  /\ lock[i] = Nil
  /\ IF bad THEN pc' = [pc EXCEPT ![p] = "out"] /\ io' = [io EXCEPT ![p] = NoIo] /\ UNCHANGED lock
     ELSE /\ lock' = [lock EXCEPT ![i] = p]
          /\ pc' = [pc EXCEPT ![p] = "loop"]
          /\ io' = [io EXCEPT ![p] = [NoIo EXCEPT !.f = f, !.n = n, !.n1 = n1]]
  /\ UNCHANGED <<disk, file, logged, panic>>

Write(p, f, n) == pc[p] = "out" /\ file[f] # NoFile /\ WriteChunk(p, f, n)
WriteRest(p) == pc[p] = "write" /\ WriteChunk(p, io[p].f, io[p].n)

\* Words off .. off + k - 1 of block b marked as the file's.
Marked(c, b, off, k, i) ==
  [c EXCEPT ![b] = [w \in 0 .. BSIZE - 1 |->
     IF w \in (off % BSIZE) .. ((off % BSIZE) + k - 1) THEN i ELSE @[w]]]

\* A turn of writei()'s loop.  It ends early when the disk is full, or when the
\* copy from user space fails and leaves part of it in the buffer.
WriteBlock(p) ==
  LET i == file[io[p].f].ip
      off == file[io[p].f].off + io[p].tot
      m == Min({io[p].n1 - io[p].tot, BSIZE - (off % BSIZE)})
      s == Bmap(i, off \div BSIZE)
      more == io[p].tot + m < io[p].n1
  IN
  /\ pc[p] = "loop"
  /\ bitmap' = s.used
  /\ ip' = [ip EXCEPT ![i].addrs = s.addrs]
  /\ \/ /\ s.addr # 0
        /\ blk' = Marked(s.blk, s.addr, off, m, i)
        /\ logged' = [logged EXCEPT ![p] = @ \cup s.log \cup {s.addr}]
        /\ io' = [io EXCEPT ![p].tot = @ + m]
        /\ pc' = [pc EXCEPT ![p] = IF more THEN "loop" ELSE "written"]
     \/ /\ \E k \in 0 .. m - 1 :
             blk' = IF s.addr = 0 THEN s.blk ELSE Marked(s.blk, s.addr, off, k, i)
        /\ logged' = [logged EXCEPT ![p] = @ \cup s.log]
        /\ pc' = [pc EXCEPT ![p] = "written"]
        /\ UNCHANGED io
  /\ UNCHANGED <<dip, lock, file, panic>>

MutOneTransaction(p, more) == IF more THEN logged ELSE [logged EXCEPT ![p] = {}]
\* end_op(): the next part is another operation.
EndOp(p, more) == [logged EXCEPT ![p] = {}]

\* "write the i-node back to disk even if the size didn't change"
Iupdate(i, d) == [dip EXCEPT ![i] = d]

MutKeepSize(i, off) == ip[i].size
\* if(off > ip->size) ip->size = off
Size(i, off) == Max({ip[i].size, off})

\* The end of writei(), f->off += r, iunlock() and end_op(); then the next part
\* of the write unless this one fell short.
WriteDone(p) ==
  LET f == io[p].f
      i == file[f].ip
      r == io[p].tot
      off == file[f].off + r
      left == io[p].n - r
      more == r = io[p].n1 /\ left > 0
  IN
  /\ pc[p] = "written"
  /\ ip' = [ip EXCEPT ![i].size = Size(i, off)]
  /\ dip' = Iupdate(i, ip'[i])
  /\ file' = [file EXCEPT ![f].off = off]
  /\ lock' = [lock EXCEPT ![i] = Nil]
  /\ logged' = EndOp(p, more)
  /\ IF more
     THEN pc' = [pc EXCEPT ![p] = "write"] /\ io' = [io EXCEPT ![p] = [NoIo EXCEPT !.f = f, !.n = left]]
     ELSE pc' = [pc EXCEPT ![p] = "out"] /\ io' = [io EXCEPT ![p] = NoIo]
  /\ UNCHANGED <<bitmap, blk, panic>>

\* An empty disk.
Init ==
  /\ bitmap = {} /\ blk = [b \in Block |-> Zero]
  /\ ip = [i \in Inum |-> FreeInode] /\ dip = [i \in Inum |-> FreeInode]
  /\ lock = [i \in Inum |-> Nil] /\ file = [f \in FileNo |-> NoFile]
  /\ pc = [p \in Proc |-> "out"] /\ io = [p \in Proc |-> NoIo] /\ logged = [p \in Proc |-> {}] /\ panic = "none"

Next ==
  /\ panic = "none"
  /\ \E p \in Proc :
       \/ \E i \in Inum : \/ Unlink(p, i)
                          \/ \E f \in FileNo, mode \in {"plain", "append", "trunc"} : Open(p, f, i, mode)
       \/ \E f \in FileNo : Close(p, f) \/ \E n \in Count : Read(p, f, n) \/ Write(p, f, n)
       \/ CloseIput(p)
       \/ WriteRest(p) \/ WriteBlock(p) \/ WriteDone(p)

Spec == Init /\ [][Next]_vars

(***************************************************************************)
(* Properties                                                              *)
(***************************************************************************)

\* Every block in use has one pointer to it, in one file; whenever the log may
\* commit, what it commits says so too, inodes and bitmap alike.  Then bfree()
\* is never given a free block, and readi() never allocates one.
BlocksOwnedOnce ==
  /\ TypeOK /\ panic = "none"
  /\ MapThenSumSet(LAMBDA i : Cardinality(Pointers(ip[i], blk)), Inum) = Cardinality(bitmap)
  /\ UNION {Blocks(ip[i], blk) : i \in Inum} = bitmap
  /\ (\A p \in Proc : pc[p] \notin {"loop", "written"}) => dip = ip

\* What a file holds below its size was written to that file: no hole, no
\* words of a file that had the block before, whatever failed half-way.
OwnData ==
  \A i \in Inum : \A o \in 0 .. ip[i].size - 1 :
    /\ Mapped(i, o \div BSIZE)
    /\ blk[Bmap(i, o \div BSIZE).addr][o % BSIZE] = i

\* "write a few blocks at a time to avoid exceeding the maximum log transaction
\* size, including i-node, indirect block, allocation blocks, and 2 blocks of
\* slop for non-aligned writes".
TransactionFits ==
  \A p \in Proc : pc[p] = "written" => Cardinality(logged[p] \cup {InodeBlock}) <= MAXOPBLOCKS

\* An offset that processes share through dup() or fork() never runs past the
\* end of the file, where every later write() would fail, unless another
\* open() has truncated the file.
OffsetInFile ==
  \A f \in FileNo : file[f] # NoFile /\ file[f].cut = 0 => file[f].off <= ip[file[f].ip].size
=============================================================================

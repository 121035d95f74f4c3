-------------------------------- MODULE Mkfs --------------------------------
(***************************************************************************)
(* mkfs/mkfs.c: the image that the kernel first mounts.  A block is BSIZE  *)
(* words and a directory entry one word, the number of its inode; word o   *)
(* of the host file with inode i is <<i, o>>.  A turn of iappend()'s loop  *)
(* is a step.  The superblock holds constants, and host calls succeed.     *)
(***************************************************************************)
EXTENDS Integers, Sequences, FiniteSetsExt

CONSTANTS
  BSIZE, NDIRECT, NINDIRECT,
  FSSIZE, BPB, NINODES, IPB, LOGBLOCKS,
  MaxFiles, MaxLength  \* host files, and words in one

ROOTINO == 1
MAXFILE == NDIRECT + NINDIRECT

nbitmap == FSSIZE \div BPB + 1
ninodeblocks == NINODES \div IPB + 1
nlog == LOGBLOCKS + 1
nmeta == 2 + nlog + ninodeblocks + nbitmap
inodestart == 2 + nlog
bmapstart == 2 + nlog + ninodeblocks

\* Nothing in the program counts inodes.
MkfsAssumption ==
  /\ {BSIZE, NDIRECT, NINDIRECT, FSSIZE, BPB, NINODES, IPB, MaxFiles} \subseteq Nat \ {0}
  /\ LOGBLOCKS \in Nat /\ MaxLength \in Nat /\ NINDIRECT <= BSIZE /\ MaxFiles < NINODES
  /\ nmeta < FSSIZE

Sector == 0 .. FSSIZE - 1

VARIABLES
  pc, ret,               \* where the program is, and where iappend() returns to
  freeinode, freeblock,
  din, sect, bits,       \* the image: inodes, blocks, bitmap
  app,                   \* locals of iappend()
  fd,                    \* the host file that is open: its inode, words read, length
  given                  \* history: the lengths of the host files

vars == <<pc, ret, freeinode, freeblock, din, sect, bits, app, fd, given>>

Zero == [w \in 0 .. BSIZE - 1 |-> 0]
FreeInode == [type |-> 0, nlink |-> 0, size |-> 0, addrs |-> [a \in 0 .. NDIRECT |-> 0]]
NoApp == [inum |-> 0, din |-> FreeInode, off |-> 0, xp |-> <<>>]
NoFd == [inum |-> 0, off |-> 0, length |-> 0]

Init ==
  /\ pc = "root" /\ ret = "none"
  /\ freeinode = 1 /\ freeblock = nmeta
  /\ din = [i \in 1 .. NINODES |-> FreeInode] /\ sect = [b \in Sector |-> Zero] /\ bits = {}
  /\ app = NoApp /\ fd = NoFd /\ given = <<>>

(***************************************************************************)
(* iappend                                                                 *)
(***************************************************************************)
Iappend(inum, d, xp, then) ==
  /\ app' = [inum |-> inum, din |-> d, off |-> d.size, xp |-> xp]
  /\ pc' = "append" /\ ret' = then

fbn == app.off \div BSIZE
Slot == IF fbn < NDIRECT THEN fbn ELSE NDIRECT

\* addrs[Slot], allocated if need be, and freeblock after that.
Addr == IF app.din.addrs[Slot] = 0 THEN freeblock ELSE app.din.addrs[Slot]
Next1 == IF app.din.addrs[Slot] = 0 THEN freeblock + 1 ELSE freeblock

MutNotWritten(entry) == sect
\* indirect[fbn - NDIRECT] = entry, and wsect()
Indirect(entry) == [sect EXCEPT ![Addr][fbn - NDIRECT] = entry]

\* The first words of xp copied to block x at app.off, in the image s.
Copied(s, x, n1) ==
  [s EXCEPT ![x] = [w \in 0 .. BSIZE - 1 |->
     IF w \in (app.off % BSIZE) .. ((app.off % BSIZE) + n1 - 1)
     THEN app.xp[w - (app.off % BSIZE) + 1] ELSE @[w]]]

\* The block of the file at fbn: known, or the next free one.
Unknown == fbn >= NDIRECT /\ sect[Addr][fbn - NDIRECT] = 0
X == IF fbn < NDIRECT THEN Addr ELSE IF Unknown THEN Next1 ELSE sect[Addr][fbn - NDIRECT]

\* rsect() finds no block beyond the ones that main() wrote.
CanRead == Addr \in Sector /\ X \in Sector

AppendBlock ==
  LET n1 == Min({Len(app.xp), (fbn + 1) * BSIZE - app.off}) IN
  /\ pc = "append" /\ app.xp # <<>> /\ fbn < MAXFILE /\ CanRead
  /\ app' = [app EXCEPT !.din.addrs[Slot] = Addr, !.off = @ + n1,
                        !.xp = SubSeq(@, n1 + 1, Len(@))]
  /\ sect' = Copied(IF Unknown THEN Indirect(X) ELSE sect, X, n1)
  /\ freeblock' = IF Unknown THEN Next1 + 1 ELSE Next1
  /\ UNCHANGED <<pc, ret, freeinode, din, bits, fd, given>>

\* The assertion, or die("read"): the image stays unfinished.
AppendDies ==
  /\ pc = "append" /\ app.xp # <<>> /\ ~(fbn < MAXFILE /\ CanRead)
  /\ pc' = "abort"
  /\ UNCHANGED <<ret, freeinode, freeblock, din, sect, bits, app, fd, given>>

AppendDone ==
  /\ pc = "append" /\ app.xp = <<>>
  /\ din' = [din EXCEPT ![app.inum] = [app.din EXCEPT !.size = app.off]]
  /\ pc' = ret /\ ret' = "none" /\ app' = NoApp
  /\ UNCHANGED <<freeinode, freeblock, sect, bits, fd, given>>

(***************************************************************************)
(* main                                                                    *)
(***************************************************************************)
NewInode(type) == [FreeInode EXCEPT !.type = type, !.nlink = 1]

Ialloc(type) == freeinode' = freeinode + 1 /\ din' = [din EXCEPT ![freeinode] = NewInode(type)]

\* The root directory and "."
Root ==
  /\ pc = "root"
  /\ Ialloc("T_DIR")
  /\ Iappend(ROOTINO, NewInode("T_DIR"), <<ROOTINO>>, "dotdot")
  /\ UNCHANGED <<freeblock, sect, bits, fd, given>>

DotDot ==
  /\ pc = "dotdot"
  /\ Iappend(ROOTINO, din[ROOTINO], <<ROOTINO>>, "files")
  /\ UNCHANGED <<freeinode, freeblock, din, sect, bits, fd, given>>

AddFile(length) ==
  /\ pc = "files" /\ Len(given) < MaxFiles
  /\ Ialloc("T_FILE")
  /\ Iappend(ROOTINO, din[ROOTINO], <<freeinode>>, "copy")
  /\ fd' = [inum |-> freeinode, off |-> 0, length |-> length]
  /\ given' = Append(given, length)
  /\ UNCHANGED <<freeblock, sect, bits>>

\* read(), which may return less than a block before the end of the file.
CopyFile(cc) ==
  /\ pc = "copy" /\ cc <= fd.length - fd.off
  /\ Iappend(fd.inum, din[fd.inum], [k \in 1 .. cc |-> <<fd.inum, fd.off + k - 1>>], "copy")
  /\ fd' = [fd EXCEPT !.off = @ + cc]
  /\ UNCHANGED <<freeinode, freeblock, din, sect, bits, given>>

CloseFile ==
  /\ pc = "copy" /\ fd.off = fd.length
  /\ pc' = "files" /\ fd' = NoFd
  /\ UNCHANGED <<ret, freeinode, freeblock, din, sect, bits, app, given>>

\* "fix size of root inode dir"
RootSize == (din[ROOTINO].size \div BSIZE + 1) * BSIZE

\* Its assertion, and the bitmap's first block.
Balloc(used) ==
  IF used < BPB THEN bits' = 0 .. used - 1 /\ pc' = "exit" ELSE bits' = bits /\ pc' = "abort"

Finish ==
  /\ pc = "files"
  /\ din' = [din EXCEPT ![ROOTINO].size = RootSize]
  /\ Balloc(freeblock)
  /\ UNCHANGED <<ret, freeinode, freeblock, sect, app, fd, given>>

Exited == pc \in {"exit", "abort"} /\ UNCHANGED vars

Next ==
  \/ Root \/ DotDot \/ AppendBlock \/ AppendDies \/ AppendDone
  \/ \E n \in 0 .. MaxLength : AddFile(n)
  \/ \E cc \in 1 .. BSIZE : CopyFile(cc)
  \/ CloseFile \/ Finish \/ Exited

Spec == Init /\ [][Next]_vars

(***************************************************************************)
(* Properties                                                              *)
(***************************************************************************)

\* The block of inode i that the kernel's bmap() finds at n, or 0.
BlockAt(i, n) ==
  IF n < NDIRECT THEN din[i].addrs[n]
  ELSE IF din[i].addrs[NDIRECT] = 0 THEN 0 ELSE sect[din[i].addrs[NDIRECT]][n - NDIRECT]

Pointers ==
  {p \in (1 .. freeinode - 1) \X (0 .. MAXFILE - 1) : BlockAt(p[1], p[2]) # 0}
    \cup {p \in (1 .. freeinode - 1) \X {MAXFILE} : din[p[1]].addrs[NDIRECT] # 0}

Block(p) == IF p[2] = MAXFILE THEN din[p[1]].addrs[NDIRECT] ELSE BlockAt(p[1], p[2])

WordAt(i, o) == sect[BlockAt(i, o \div BSIZE)][o % BSIZE]

Entries == <<ROOTINO, ROOTINO>> \o [k \in DOMAIN given |-> k + 1]

\* An image that mkfs finishes is one that the kernel's file system could have
\* made: the bitmap has the metadata and the blocks of files, each of which has
\* one pointer to it; every file has the host file's words and no others; the
\* root directory has an entry for each inode, and zeros up to its size.  One
\* thing is not as the kernel makes it: "fix size of root inode dir" rounds up
\* past the last block when the entries fill it, and only then the directory
\* has a size with no block behind it.
ImageSound ==
  pc = "exit" =>
    /\ bits = (0 .. nmeta - 1) \cup {Block(p) : p \in Pointers}
    /\ \A p, q \in Pointers : Block(p) \in nmeta .. FSSIZE - 1 /\ (Block(p) = Block(q) => p = q)
    /\ \A i \in 1 .. freeinode - 1 : din[i].nlink = 1 /\ inodestart + i \div IPB < bmapstart
    /\ \A k \in DOMAIN given :
         /\ din[k + 1].size = given[k]
         /\ \A o \in 0 .. given[k] - 1 : WordAt(k + 1, o) = <<k + 1, o>>
    /\ din[ROOTINO].size > Len(Entries) /\ din[ROOTINO].size % BSIZE = 0
    /\ \A o \in 0 .. din[ROOTINO].size - 1 :
         LET hole == BlockAt(ROOTINO, o \div BSIZE) = 0 IN
         /\ hole <=> Len(Entries) % BSIZE = 0 /\ o >= Len(Entries)
         /\ ~hole => WordAt(ROOTINO, o) = IF o < Len(Entries) THEN Entries[o + 1] ELSE 0
=============================================================================

-------------------------------- MODULE Inode --------------------------------
(***************************************************************************)
(* The inode layer of kernel/fs.c (ialloc, iget, ilock, iput, ireclaim)    *)
(* under the system calls of kernel/sysfile.c that create, open, link,     *)
(* unlink and close files in one directory, with crashes.                  *)
(*                                                                         *)
(* dinode and entry are what the buffer cache shows; saved is what the log *)
(* has committed.  end_op() commits when no other operation is under way,  *)
(* and a crash goes back to what was committed (module AtomicDisk).        *)
(* itable.lock is held over one action; an inode's sleep lock and the      *)
(* directory's are variables.  The directory itself is never removed.      *)
(***************************************************************************)
EXTENDS Integers, FiniteSets

CONSTANTS
  Proc,      \* processes, each with at most one open file
  InitProc,  \* the process that runs fsinit() and ireclaim() at boot
  Name,      \* names in the directory
  NINUM,     \* inodes on the disk besides the directory's
  NINODE,    \* entries of itable
  Calls      \* the system calls that the processes make

Nobody == "nobody"
Inum == 1 .. NINUM
Slot == 1 .. NINODE

ASSUME InodeAssumption ==
  /\ Calls \subseteq {"open", "create", "symlink", "unlink", "link"}
  /\ InitProc \in Proc /\ NINUM \in Nat \ {0} /\ NINODE \in Nat \ {0} /\ Nobody \notin Proc

VARIABLES
  dinode,       \* type and link count of each inode, as last written with iupdate()
  entry,        \* the directory: an inode number, or 0
  saved,        \* dinode and entry as committed
  outstanding,  \* operations between begin_op() and end_op()
  slot,         \* itable.inode[]: inum, ref, valid, type, nlink, and the holder of lock
  dirlock,      \* holder of the directory's lock
  pc, op, arg,  \* where each process is, in which call, on which name
  ip,           \* the slot its local variable ip points to
  inum,         \* the inode number ialloc() has found
  fd,           \* the slot of its open file, or 0
  reclaim,      \* ireclaim()'s loop index; 0 when the system is up
  panic

disk == <<dinode, entry>>
local == <<op, arg, ip, inum, fd>>
vars == <<dinode, entry, saved, outstanding, slot, dirlock, pc, op, arg, ip, inum, fd,
          reclaim, panic>>

Type == {"none", "file", "symlink"}
Dinode == [type : Type, nlink : Nat]
Free == [type |-> "none", nlink |-> 0]
Empty == [inum |-> 0, ref |-> 0, valid |-> 0, type |-> "none", nlink |-> 0, lock |-> Nobody]
Op == {"none", "open", "create", "symlink", "new", "unlink", "link", "bad", "close", "read",
       "reclaim"}
Label == {"out", "begin", "root", "ialloc", "iget", "ilock", "locked", "entry", "nlink",
          "iunlockput", "iput", "free", "freed", "end"}

TypeOK ==
  /\ dinode \in [Inum -> Dinode] /\ entry \in [Name -> Inum \cup {0}]
  /\ saved \in [dinode : [Inum -> Dinode], entry : [Name -> Inum \cup {0}]]
  /\ outstanding \in 0 .. Cardinality(Proc)
  /\ slot \in [Slot -> [inum : Inum \cup {0}, ref : Nat, valid : {0, 1}, type : Type,
                        nlink : Nat, lock : Proc \cup {Nobody}]]
  /\ dirlock \in Proc \cup {Nobody}
  /\ pc \in [Proc -> Label] /\ op \in [Proc -> Op]
  /\ arg \in [Proc -> Name \cup {0}] /\ inum \in [Proc -> Inum \cup {0}]
  /\ ip \in [Proc -> Slot \cup {0}] /\ fd \in [Proc -> Slot \cup {0}]
  /\ reclaim \in 0 .. NINUM + 1
  /\ panic \in {"none", "iget: no inodes", "ilock: no type", "unlink: nlink < 1"}

Each(v) == [p \in Proc |-> v]

\* A file system as mkfs makes it, without files, about to be booted.
Init ==
  /\ dinode = [i \in Inum |-> Free] /\ entry = [n \in Name |-> 0]
  /\ saved = [dinode |-> dinode, entry |-> entry]
  /\ slot = [s \in Slot |-> Empty]
  /\ pc = Each("out") /\ op = Each("none") /\ arg = Each(0) /\ ip = Each(0)
  /\ inum = Each(0) /\ fd = Each(0)
  /\ outstanding = 0 /\ dirlock = Nobody /\ reclaim = 1 /\ panic = "none"

Go(p, l) == pc' = [pc EXCEPT ![p] = l]

(***************************************************************************)
(* The inode table                                                         *)
(***************************************************************************)
InTable(s, i) == slot[s].ref > 0 /\ slot[s].inum = i

\* iget(): the slot that has the inode, or the first one that is not in use.
Iget(p, i) ==
  LET has == {s \in Slot : InTable(s, i)}
      unused == {s \in Slot : slot[s].ref = 0}
      first == {s \in unused : \A t \in unused : s <= t}
  IN
  IF has \cup unused = {}
  THEN panic' = "iget: no inodes" /\ UNCHANGED <<slot, ip>>
  ELSE /\ \E s \in IF has # {} THEN has ELSE first :
            /\ slot' = [slot EXCEPT ![s] =
                 IF s \in has THEN [@ EXCEPT !.ref = @ + 1]
                 ELSE [@ EXCEPT !.inum = i, !.ref = 1, !.valid = 0]]
            /\ ip' = [ip EXCEPT ![p] = s]
       /\ UNCHANGED panic

\* iupdate() of slot s, whose fields are about to become t and n.
Iupdate(s, t, n) ==
  /\ slot' = [slot EXCEPT ![s].type = t, ![s].nlink = n]
  /\ dinode' = [dinode EXCEPT ![slot[s].inum] = [type |-> t, nlink |-> n]]

\* ilock(), which reads the inode from the disk unless the slot has it.
Ilock(p) ==
  LET s == ip[p]
      d == dinode[slot[s].inum]
  IN
  /\ pc[p] = "ilock" /\ slot[s].lock = Nobody
  /\ slot' = [slot EXCEPT ![s] =
       IF @.valid = 1 THEN [@ EXCEPT !.lock = p]
       ELSE [@ EXCEPT !.lock = p, !.valid = 1, !.type = d.type, !.nlink = d.nlink]]
  /\ panic' = IF slot'[s].type = "none" /\ slot[s].valid = 0 THEN "ilock: no type" ELSE panic
  /\ Go(p, "locked")
  /\ UNCHANGED <<disk, saved, outstanding, dirlock, local, reclaim>>

Iunlockput(p) ==
  /\ pc[p] = "iunlockput"
  /\ slot' = [slot EXCEPT ![ip[p]].lock = Nobody]
  /\ Go(p, "iput")
  /\ UNCHANGED <<disk, saved, outstanding, dirlock, local, reclaim, panic>>

\* ip->ref--.  What an unused slot still holds nothing reads, as iget() clears
\* valid: forget it.
Unref(s) == IF slot[s].ref = 1 THEN Empty ELSE [slot[s] EXCEPT !.ref = @ - 1]

MutLast(s) == slot[s].valid = 1 /\ slot[s].nlink = 0
\* iput() is to free the inode.
Last(s) == slot[s].ref = 1 /\ slot[s].valid = 1 /\ slot[s].nlink = 0

Iput(p) ==
  LET s == ip[p] IN
  /\ pc[p] = "iput"
  /\ \/ /\ Last(s) /\ slot[s].lock = Nobody
        /\ slot' = [slot EXCEPT ![s].lock = p]
        /\ Go(p, "free")
     \/ /\ ~Last(s)
        /\ slot' = [slot EXCEPT ![s] = Unref(s)]
        /\ Go(p, "end")
  /\ UNCHANGED <<disk, saved, outstanding, dirlock, local, reclaim, panic>>

\* itrunc(ip); ip->type = 0; iupdate(ip)
IputFree(p) ==
  /\ pc[p] = "free"
  /\ Iupdate(ip[p], "none", 0)
  /\ Go(p, "freed")
  /\ UNCHANGED <<entry, saved, outstanding, dirlock, local, reclaim, panic>>

MutKeepValid(s) == [slot EXCEPT ![s].lock = Nobody]
\* ip->valid = 0; releasesleep(&ip->lock)
Invalidate(s) == [slot EXCEPT ![s].lock = Nobody, ![s].valid = 0]

\* First the lock is released, then, under itable.lock, ref is decremented.
IputUnlock(p) ==
  /\ pc[p] = "freed" /\ slot[ip[p]].lock = p
  /\ slot' = Invalidate(ip[p])
  /\ UNCHANGED <<disk, saved, outstanding, dirlock, pc, local, reclaim, panic>>

IputUnref(p) ==
  /\ pc[p] = "freed" /\ slot[ip[p]].lock # p
  /\ slot' = [slot EXCEPT ![ip[p]] = Unref(ip[p])]
  /\ Go(p, "end")
  /\ UNCHANGED <<disk, saved, outstanding, dirlock, local, reclaim, panic>>

(***************************************************************************)
(* System calls                                                            *)
(***************************************************************************)
BeginOp(p, o, n) ==
  /\ reclaim = 0 /\ pc[p] = "out" 
  /\ outstanding' = outstanding + 1
  /\ op' = [op EXCEPT ![p] = o] /\ arg' = [arg EXCEPT ![p] = n]
  /\ Go(p, "root")
  /\ UNCHANGED <<disk, saved, slot, dirlock, ip, inum, fd, reclaim, panic>>

\* fileclose() of the last reference to an open file.
Close(p) ==
  /\ pc[p] = "out" /\ fd[p] # 0
  /\ outstanding' = outstanding + 1
  /\ ip' = [ip EXCEPT ![p] = fd[p]] /\ fd' = [fd EXCEPT ![p] = 0]
  /\ op' = [op EXCEPT ![p] = "close"]
  /\ Go(p, "iput")
  /\ UNCHANGED <<disk, saved, slot, dirlock, arg, inum, reclaim, panic>>

\* fileread(), outside any transaction.
Read(p) ==
  /\ pc[p] = "out" /\ fd[p] # 0
  /\ ip' = [ip EXCEPT ![p] = fd[p]]
  /\ op' = [op EXCEPT ![p] = "read"]
  /\ Go(p, "ilock")
  /\ UNCHANGED <<disk, saved, outstanding, slot, dirlock, arg, inum, fd, reclaim, panic>>

\* Lock the directory and look the name up.  unlink keeps the directory
\* locked, and so does create() for a name that is not there.
Dirlookup(p) ==
  LET i == entry[arg[p]]
      makes == op[p] \in {"create", "symlink"}
  IN
  /\ pc[p] = "root" /\ dirlock = Nobody
  /\ \/ /\ i # 0 /\ Iget(p, i)
        /\ Go(p, "ilock")
        /\ dirlock' = IF op[p] = "unlink" THEN p ELSE Nobody
     \/ /\ i = 0
        /\ Go(p, IF makes THEN "ialloc" ELSE "end")
        /\ dirlock' = IF makes THEN p ELSE Nobody
        /\ UNCHANGED <<slot, ip, panic>>
  /\ UNCHANGED <<disk, saved, outstanding, op, arg, inum, fd, reclaim>>

\* ialloc() marks a free inode on the disk, and gets a reference to it later.
Ialloc(p) ==
  /\ pc[p] = "ialloc"
  /\ \/ \E i \in Inum :
          /\ dinode[i].type = "none"
          /\ dinode' = [dinode EXCEPT ![i] =
               [type |-> IF op[p] = "symlink" THEN "symlink" ELSE "file", nlink |-> 0]]
          /\ inum' = [inum EXCEPT ![p] = i]
          /\ op' = [op EXCEPT ![p] = "new"]
          /\ Go(p, "iget")
          /\ UNCHANGED dirlock
     \/ /\ \A i \in Inum : dinode[i].type # "none"
        /\ dirlock' = Nobody
        /\ Go(p, "end")
        /\ UNCHANGED <<dinode, inum, op>>
  /\ UNCHANGED <<entry, saved, outstanding, slot, arg, ip, fd, reclaim, panic>>

IallocIget(p) ==
  /\ pc[p] = "iget"
  /\ Iget(p, inum[p])
  /\ inum' = [inum EXCEPT ![p] = 0]
  /\ Go(p, "ilock")
  /\ UNCHANGED <<disk, saved, outstanding, dirlock, op, arg, fd, reclaim>>

\* sys_open(), on a link with O_NOFOLLOW: keep the reference if create() likes
\* the type and a file structure and a descriptor are to be had, or drop it.
OpenLocked(p) ==
  /\ pc[p] = "locked" /\ op[p] \in {"open", "create"}
  /\ \/ /\ op[p] = "create" => slot[ip[p]].type = "file"
        /\ fd[p] = 0
        /\ fd' = [fd EXCEPT ![p] = ip[p]]
        /\ slot' = [slot EXCEPT ![ip[p]].lock = Nobody]
        /\ Go(p, "end")
     \/ /\ Go(p, "iunlockput")
        /\ UNCHANGED <<fd, slot>>
  /\ UNCHANGED <<disk, saved, outstanding, dirlock, op, arg, ip, inum, reclaim, panic>>

\* create() of a link gives up on a name that is there; ireclaim() does
\* nothing between ilock() and iput().
NothingLocked(p) ==
  /\ pc[p] = "locked" /\ op[p] \in {"symlink", "reclaim"}
  /\ Go(p, "iunlockput")
  /\ UNCHANGED <<disk, saved, outstanding, slot, dirlock, local, reclaim, panic>>

ReadLocked(p) ==
  /\ pc[p] = "locked" /\ op[p] = "read"
  /\ slot' = [slot EXCEPT ![ip[p]].lock = Nobody]
  /\ Go(p, "out")
  /\ ip' = [ip EXCEPT ![p] = 0] /\ op' = [op EXCEPT ![p] = "none"]
  /\ UNCHANGED <<disk, saved, outstanding, dirlock, arg, inum, fd, reclaim, panic>>

\* create() of a new inode; dirlink() fails when the disk is full.
NewLocked(p) ==
  LET s == ip[p] IN
  /\ pc[p] = "locked" /\ op[p] = "new"
  /\ \/ /\ Iupdate(s, slot[s].type, 1)
        /\ entry' = [entry EXCEPT ![arg[p]] = slot[s].inum]
        /\ dirlock' = Nobody
        /\ IF slot[s].type = "file" THEN op' = [op EXCEPT ![p] = "open"] /\ UNCHANGED pc
           ELSE Go(p, "iunlockput") /\ UNCHANGED op
     \/ /\ Iupdate(s, slot[s].type, 0)
        /\ Go(p, "iunlockput")
        /\ UNCHANGED <<entry, dirlock, op>>
  /\ UNCHANGED <<saved, outstanding, arg, ip, inum, fd, reclaim, panic>>

\* sys_unlink(): erase the entry, let go of the directory, then drop the link.
UnlinkEntry(p) ==
  /\ pc[p] = "locked" /\ op[p] = "unlink"
  /\ IF slot[ip[p]].nlink < 1
     THEN panic' = "unlink: nlink < 1" /\ UNCHANGED <<entry, dirlock, pc>>
     ELSE /\ entry' = [entry EXCEPT ![arg[p]] = 0]
          /\ dirlock' = Nobody
          /\ Go(p, "nlink")
          /\ UNCHANGED panic
  /\ UNCHANGED <<dinode, saved, outstanding, slot, local, reclaim>>

UnlinkNlink(p) ==
  LET s == ip[p] IN
  /\ pc[p] = "nlink"
  /\ Iupdate(s, slot[s].type, slot[s].nlink - 1)
  /\ Go(p, "iunlockput")
  /\ UNCHANGED <<entry, saved, outstanding, dirlock, local, reclaim, panic>>

\* sys_link(): count the link first ...
LinkNlink(p) ==
  LET s == ip[p] IN
  /\ pc[p] = "locked" /\ op[p] = "link"
  /\ slot' = [slot EXCEPT ![s].nlink = @ + 1, ![s].lock = Nobody]
  /\ dinode' = [dinode EXCEPT ![slot[s].inum].nlink = slot[s].nlink + 1]
  /\ Go(p, "entry")
  /\ UNCHANGED <<entry, saved, outstanding, dirlock, local, reclaim, panic>>

\* ... then write the entry, if the new name is free and the disk not full,
LinkEntry(p) ==
  /\ pc[p] = "entry" /\ dirlock = Nobody
  /\ \/ \E n \in Name : /\ entry[n] = 0
                        /\ entry' = [entry EXCEPT ![n] = slot[ip[p]].inum]
                        /\ Go(p, "iput")
                        /\ UNCHANGED op
     \/ /\ Go(p, "ilock")
        /\ op' = [op EXCEPT ![p] = "bad"]
        /\ UNCHANGED entry
  /\ UNCHANGED <<dinode, saved, outstanding, slot, dirlock, arg, ip, inum, fd, reclaim, panic>>

\* ... and otherwise take the link back.
LinkBad(p) ==
  LET s == ip[p] IN
  /\ pc[p] = "locked" /\ op[p] = "bad"
  /\ Iupdate(s, slot[s].type, slot[s].nlink - 1)
  /\ Go(p, "iunlockput")
  /\ UNCHANGED <<entry, saved, outstanding, dirlock, local, reclaim, panic>>

MutCommitEarly(n) == TRUE
\* end_op() commits when this was the last operation under way.
Commits(n) == n = 0

Ended == outstanding - 1

EndOp(p) ==
  /\ pc[p] = "end"
  /\ outstanding' = Ended
  /\ saved' = IF Commits(outstanding') THEN [dinode |-> dinode, entry |-> entry] ELSE saved
  /\ dirlock' = IF dirlock = p THEN Nobody ELSE dirlock
  /\ Go(p, "out") /\ op' = [op EXCEPT ![p] = "none"]
  /\ arg' = [arg EXCEPT ![p] = 0] /\ ip' = [ip EXCEPT ![p] = 0]
  /\ UNCHANGED <<disk, slot, inum, fd, reclaim, panic>>

(***************************************************************************)
(* Crash and reboot                                                        *)
(***************************************************************************)
Crash ==
  /\ dinode' = saved.dinode /\ entry' = saved.entry
  /\ slot' = [s \in Slot |-> Empty]
  /\ pc' = Each("out") /\ op' = Each("none") /\ arg' = Each(0) /\ ip' = Each(0)
  /\ inum' = Each(0) /\ fd' = Each(0)
  /\ outstanding' = 0 /\ dirlock' = Nobody /\ reclaim' = 1
  /\ UNCHANGED <<saved, panic>>

Orphan(i) == dinode[i].type # "none" /\ dinode[i].nlink = 0

\* One turn of ireclaim()'s loop, as far as its begin_op(); and its end.
Reclaim(p) ==
  /\ p = InitProc /\ reclaim \in Inum /\ pc[p] = "out"
  /\ \/ /\ Orphan(reclaim)
        /\ Iget(p, reclaim)
        /\ op' = [op EXCEPT ![p] = "reclaim"]
        /\ Go(p, "begin")
     \/ /\ ~Orphan(reclaim)
        /\ UNCHANGED <<slot, ip, op, pc, panic>>
  /\ reclaim' = reclaim + 1
  /\ UNCHANGED <<disk, saved, outstanding, dirlock, arg, inum, fd>>

ReclaimDone(p) ==
  /\ p = InitProc /\ reclaim = NINUM + 1 /\ pc[p] = "out"
  /\ reclaim' = 0
  /\ UNCHANGED <<disk, saved, outstanding, slot, dirlock, pc, local, panic>>

\* The mutant leaves out ilock(), so that iput() sees an inode that is not valid.
MutReclaimNoLock(p) ==
  /\ pc[p] = "begin"
  /\ outstanding' = outstanding + 1
  /\ Go(p, "iput")
  /\ UNCHANGED <<disk, saved, slot, dirlock, local, reclaim, panic>>

ReclaimBegin(p) ==
  /\ pc[p] = "begin"
  /\ outstanding' = outstanding + 1
  /\ Go(p, "ilock")
  /\ UNCHANGED <<disk, saved, slot, dirlock, local, reclaim, panic>>

Next ==
  /\ panic = "none"
  /\ \/ \E p \in Proc :
          \/ \E o \in Calls, n \in Name : BeginOp(p, o, n)
          \/ Close(p) \/ Read(p) \/ Dirlookup(p) \/ Ialloc(p) \/ IallocIget(p) \/ Ilock(p)
          \/ OpenLocked(p) \/ NothingLocked(p) \/ ReadLocked(p) \/ NewLocked(p)
          \/ UnlinkEntry(p) \/ UnlinkNlink(p) \/ LinkNlink(p) \/ LinkEntry(p) \/ LinkBad(p)
          \/ Iunlockput(p) \/ Iput(p) \/ IputFree(p) \/ IputUnlock(p) \/ IputUnref(p)
          \/ EndOp(p) \/ Reclaim(p) \/ ReclaimBegin(p) \/ ReclaimDone(p)
     \/ Crash

Spec == Init /\ [][Next]_vars

(***************************************************************************)
(* Properties                                                              *)
(***************************************************************************)

\* "ip->ref == 1 means no other process can have ip locked, so this
\* acquiresleep() won't block (or deadlock)": iput() calls it with a spin
\* lock held.  Nor is any panic of the layer reached: ilock() never meets an
\* inode that has been freed since it was looked up.
IputWontBlock ==
  /\ panic = "none"
  /\ \A p \in Proc : pc[p] = "iput" /\ Last(ip[p]) => slot[ip[p]].lock = Nobody

\* What has been committed is a consistent file system: every entry names an
\* allocated inode, and every link count is the number of entries.
CommittedConsistent ==
  \A i \in Inum :
    /\ saved.dinode[i].nlink = Cardinality({n \in Name : saved.entry[n] = i})
    /\ saved.dinode[i].nlink > 0 => saved.dinode[i].type # "none"

\* An inode that nothing refers to does not stay allocated: iput() frees it,
\* or, if the system crashed before that, ireclaim() does.
NoOrphanStays ==
  reclaim = 0 /\ outstanding = 0 =>
    \A i \in Inum : Orphan(i) => \E s \in Slot : InTable(s, i)

\* After a crash, and after any number of crashes in ireclaim() itself, no
\* orphan is left among the inodes it has passed.
ReclaimComplete ==
  pc[InitProc] = "out" => \A i \in 1 .. reclaim - 1 : ~Orphan(i)

\* The table has one entry for an inode, whose count is the number of pointers
\* to it; while that is valid and not locked it agrees with the disk.
TableCoherent ==
  /\ TypeOK
  /\ \A s, t \in Slot, i \in Inum : InTable(s, i) /\ InTable(t, i) => s = t
  /\ \A s \in Slot :
       slot[s].ref = Cardinality({p \in Proc : ip[p] = s /\ pc[p] # "end" /\ op[p] # "read"})
                     + Cardinality({p \in Proc : fd[p] = s})
  /\ \A s \in Slot : slot[s].ref > 0 /\ slot[s].valid = 1 /\ slot[s].lock = Nobody =>
       [type |-> slot[s].type, nlink |-> slot[s].nlink] = dinode[slot[s].inum]
=============================================================================

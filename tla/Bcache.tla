------------------------------- MODULE Bcache -------------------------------
(***************************************************************************)
(* kernel/bio.c and kernel/sleeplock.c: the buffer cache, and the sleep    *)
(* lock of each buffer, used as the file system and the log use them.      *)
(*                                                                         *)
(* bcache.lock and a sleep lock's own spin lock are each held over one     *)
(* action.  A disk transfer is one step, at the moment it completes: what  *)
(* VirtioDisk shows of virtio_disk_rw() for a buffer held alone.  A        *)
(* process uses one buffer at a time.                                      *)
(*                                                                         *)
(* The contents of a buffer, and of a disk block, are told apart by what   *)
(* they are for the block: "cur", what it was last given, "old", anything  *)
(* else, or "torn", what a copy that failed half way left.                 *)
(***************************************************************************)
EXTENDS Integers, Sequences, FiniteSets

CONSTANTS
  Proc,       \* processes
  Block,      \* disk blocks
  NBUF,       \* buffers
  LOGBLOCKS   \* blocks the log can have pinned at a time

Buf == 1 .. NBUF
Nil == "nil"        \* blockno of a buffer that was never used
Nobody == "nobody"  \* holder of a free sleep lock

ASSUME BcacheAssumption ==
  /\ NBUF \in Nat \ {0} /\ LOGBLOCKS \in Nat
  /\ Nil \notin Block /\ Nobody \notin Proc /\ IsFiniteSet(Proc)

VARIABLES
  lru,      \* the list from head.next, most recently used first
  blockno, valid, refcnt,
  data,     \* contents of each buffer
  holder,   \* lock.locked and lock.pid
  disk,     \* contents of each block on the disk
  pc, want, buf,  \* where each process is, the block it asked for, its buffer
  pins,     \* the buffers log_write() has pinned
  panic

cache == <<blockno, valid, refcnt, lru>>
vars == <<lru, blockno, valid, refcnt, data, holder, disk, pc, want, buf, pins, panic>>

Contents == {"cur", "old", "torn"}
Label == {"out", "lock", "asleep", "have", "held", "dirty", "installed", "put"}

TypeOK ==
  /\ lru \in [Buf -> Buf] /\ \A b \in Buf : \E i \in Buf : lru[i] = b
  /\ blockno \in [Buf -> Block \cup {Nil}]
  /\ valid \in [Buf -> {0, 1}]
  /\ refcnt \in [Buf -> Nat]
  /\ data \in [Buf -> Contents]
  /\ holder \in [Buf -> Proc \cup {Nobody}]
  /\ disk \in [Block -> Contents]
  /\ pc \in [Proc -> Label]
  /\ want \in [Proc -> Block \cup {Nil}] /\ buf \in [Proc -> Buf \cup {0}]
  /\ pins \subseteq Buf
  /\ panic \in {"none", "no buffers", "bwrite", "brelse"}

\* binit() links each buffer in at the head.
Init ==
  /\ lru = [i \in Buf |-> NBUF + 1 - i]
  /\ blockno = [b \in Buf |-> Nil]
  /\ valid = [b \in Buf |-> 0] /\ refcnt = [b \in Buf |-> 0]
  /\ data = [b \in Buf |-> "old"] /\ disk = [k \in Block |-> "cur"]
  /\ holder = [b \in Buf |-> Nobody]
  /\ pc = [p \in Proc |-> "out"]
  /\ want = [p \in Proc |-> Nil] /\ buf = [p \in Proc |-> 0]
  /\ pins = {}
  /\ panic = "none"

Go(p, l) == pc' = [pc EXCEPT ![p] = l]

(***************************************************************************)
(* bread                                                                   *)
(***************************************************************************)

\* What the first loop of bget() looks for.
Cached(k) == {b \in Buf : blockno[b] = k}

BgetHit(p, k) ==
  /\ pc[p] = "out"
  /\ \E b \in Cached(k) :
       /\ refcnt' = [refcnt EXCEPT ![b] = @ + 1]
       /\ buf' = [buf EXCEPT ![p] = b]
  /\ want' = [want EXCEPT ![p] = k]
  /\ Go(p, "lock")
  /\ UNCHANGED <<lru, blockno, valid, data, holder, disk, pins, panic>>

MutLeastRecent(i) == i = NBUF
\* The second loop stops at the least recently used buffer with no reference.
Victim(i) == refcnt[lru[i]] = 0 /\ \A j \in Buf : j > i => refcnt[lru[j]] # 0

BgetMiss(p, k) ==
  /\ pc[p] = "out"
  /\ Cached(k) = {}
  /\ IF \A i \in Buf : ~Victim(i)
     THEN panic' = "no buffers" /\ UNCHANGED <<blockno, valid, refcnt, data, buf, want, pc>>
     ELSE /\ \E i \in Buf :
               /\ Victim(i)
               /\ blockno' = [blockno EXCEPT ![lru[i]] = k]
               /\ valid' = [valid EXCEPT ![lru[i]] = 0]
               /\ refcnt' = [refcnt EXCEPT ![lru[i]] = 1]
               /\ data' = [data EXCEPT ![lru[i]] = "old"]
               /\ buf' = [buf EXCEPT ![p] = lru[i]]
          /\ want' = [want EXCEPT ![p] = k]
          /\ Go(p, "lock")
          /\ UNCHANGED panic
  /\ UNCHANGED <<lru, holder, disk, pins>>

\* acquiresleep(): take the lock, or sleep until releasesleep().
AcquireSleep(p) ==
  /\ pc[p] = "lock"
  /\ holder[buf[p]] = Nobody
  /\ holder' = [holder EXCEPT ![buf[p]] = p]
  /\ Go(p, "have")
  /\ UNCHANGED <<cache, data, disk, want, buf, pins, panic>>

SleepOnLock(p) ==
  /\ pc[p] = "lock"
  /\ holder[buf[p]] # Nobody
  /\ Go(p, "asleep")
  /\ UNCHANGED <<cache, data, holder, disk, want, buf, pins, panic>>

\* kkill() makes the sleeper runnable; acquiresleep() looks at the lock again.
Kill(p) ==
  /\ pc[p] = "asleep"
  /\ Go(p, "lock")
  /\ UNCHANGED <<cache, data, holder, disk, want, buf, pins, panic>>

\* Read the block from the disk, unless the buffer has it.
Fill(b) ==
  \/ valid[b] = 1 /\ UNCHANGED <<data, valid>>
  \/ /\ valid[b] = 0
     /\ data' = [data EXCEPT ![b] = disk[blockno[b]]]
     /\ valid' = [valid EXCEPT ![b] = 1]

Bread(p) ==
  /\ pc[p] = "have"
  /\ Fill(buf[p])
  /\ Go(p, "held")
  /\ UNCHANGED <<lru, blockno, refcnt, holder, disk, want, buf, pins, panic>>

(***************************************************************************)
(* What callers do with a buffer they hold                                 *)
(***************************************************************************)
Modify(p) ==
  /\ pc[p] = "held"
  /\ data' = [data EXCEPT ![buf[p]] = "cur"]
  /\ disk' = [disk EXCEPT ![want[p]] = "old"]
  /\ Go(p, "dirty")
  /\ UNCHANGED <<cache, holder, want, buf, pins, panic>>

\* writei()'s either_copyin() fails after it has changed part of the block,
\* which goes back with brelse() neither written nor logged.
ModifyFails(p) ==
  /\ pc[p] = "held"
  /\ data' = [data EXCEPT ![buf[p]] = "torn"]
  /\ UNCHANGED <<cache, holder, disk, pc, want, buf, pins, panic>>

\* log_write(): pin the buffer unless its block is already in the log.
MutNoPin(b) == UNCHANGED <<pins, refcnt>>
Pin(b) ==
  \/ b \in pins /\ UNCHANGED <<pins, refcnt>>
  \/ /\ b \notin pins
     /\ pins' = pins \cup {b}
     /\ refcnt' = [refcnt EXCEPT ![b] = @ + 1]

LogWrite(p) ==
  /\ pc[p] = "dirty"
  /\ buf[p] \in pins \/ Cardinality(pins) < LOGBLOCKS
  /\ Pin(buf[p])
  /\ Go(p, "held")
  /\ UNCHANGED <<lru, blockno, valid, data, holder, disk, want, buf, panic>>


\* bwrite(), followed for a pinned buffer by install_trans()'s bunpin().
Bwrite(p) ==
  /\ pc[p] = "dirty" \/ (pc[p] = "held" /\ buf[p] \in pins)
  /\ IF holder[buf[p]] # p
     THEN panic' = "bwrite" /\ UNCHANGED <<disk, pc>>
     ELSE /\ disk' = [disk EXCEPT ![blockno[buf[p]]] = data[buf[p]]]
          /\ Go(p, IF buf[p] \in pins THEN "installed" ELSE "held")
          /\ UNCHANGED panic
  /\ UNCHANGED <<cache, data, holder, want, buf, pins>>

Bunpin(p) ==
  /\ pc[p] = "installed"
  /\ pins' = pins \ {buf[p]}
  /\ refcnt' = [refcnt EXCEPT ![buf[p]] = @ - 1]
  /\ Go(p, "held")
  /\ UNCHANGED <<lru, blockno, valid, data, holder, disk, want, buf, panic>>

(***************************************************************************)
(* brelse                                                                  *)
(***************************************************************************)
\* wakeup(lk) for p's buffer, while p goes on to drop its reference.
WakeLock(p) ==
  pc' = [q \in Proc |-> IF q = p THEN "put"
                        ELSE IF pc[q] = "asleep" /\ buf[q] = buf[p] THEN "lock" ELSE pc[q]]

ReleaseSleep(p) ==
  /\ pc[p] = "held"
  /\ IF holder[buf[p]] # p
     THEN panic' = "brelse" /\ UNCHANGED <<holder, pc>>
     ELSE /\ holder' = [holder EXCEPT ![buf[p]] = Nobody]
          /\ WakeLock(p)
          /\ UNCHANGED panic
  /\ UNCHANGED <<cache, data, disk, want, buf, pins>>

\* To the head of the list, when this was the last reference.
ToFront(b) ==
  LET at == CHOOSE i \in Buf : lru[i] = b
  IN  [i \in Buf |-> IF i = 1 THEN b ELSE IF i <= at THEN lru[i - 1] ELSE lru[i]]

Drop(b) == [refcnt EXCEPT ![b] = @ - 1]

Put(p) ==
  LET b == buf[p] IN
  /\ pc[p] = "put"
  /\ refcnt' = Drop(b)
  /\ lru' = IF refcnt'[b] = 0 THEN ToFront(b) ELSE lru
  /\ Go(p, "out")
  /\ buf' = [buf EXCEPT ![p] = 0] /\ want' = [want EXCEPT ![p] = Nil]
  /\ UNCHANGED <<blockno, valid, data, holder, disk, pins, panic>>

Next ==
  /\ panic = "none"
  /\ \E p \in Proc :
       \/ \E k \in Block : BgetHit(p, k) \/ BgetMiss(p, k)
       \/ AcquireSleep(p) \/ SleepOnLock(p) \/ Kill(p) \/ Bread(p)
       \/ Modify(p) \/ ModifyFails(p)
       \/ LogWrite(p) \/ Bwrite(p) \/ Bunpin(p)
       \/ ReleaseSleep(p) \/ Put(p)

Spec == Init /\ [][Next]_vars

(***************************************************************************)
(* Properties                                                              *)
(***************************************************************************)

\* A block is cached in at most one buffer, so its sleep lock is the lock of
\* the block: two processes that miss at the same time end up with the same
\* buffer.
OneBufferPerBlock ==
  \A b, c \in Buf : blockno[b] = blockno[c] /\ blockno[b] # Nil => b = c

\* A process that went to sleep for a buffer's lock finds, when it gets the
\* lock, that the buffer still is the one of the block it asked for: bget()
\* counts the reference before it lets go of bcache.lock.
GetsItsBlock == \A p \in Proc : pc[p] # "out" => blockno[buf[p]] = want[p]

\* The count of a buffer is the number of processes in bread()..brelse() on
\* it, and one more if the log has it pinned.
Users(b) == {p \in Proc : buf[p] = b}
RefcntExact ==
  \A b \in Buf : refcnt[b] = Cardinality(Users(b)) + (IF b \in pins THEN 1 ELSE 0)

\* bread() returns what was last put in the block, by whichever process,
\* through however many evictions and whether or not the log has installed it;
\* or what a copy that failed since has left.
ReadsLatest == \A p \in Proc : pc[p] = "held" => data[buf[p]] # "old"

\* A buffer bget() may recycle holds nothing that is not on the disk: every
\* change was written with bwrite() or pinned with log_write(), but for one
\* that a failed copy left behind.
UnusedClean ==
  \A b \in Buf : refcnt[b] = 0 /\ valid[b] = 1 => data[b] \in {disk[blockno[b]], "torn"}

\* Nobody sleeps for a lock that is free.
SleepersHaveHolder == \A p \in Proc : pc[p] = "asleep" => holder[buf[p]] # Nobody

\* A sleep lock is held by the process that is past acquiresleep() on that
\* buffer, and by no other; what such a process has read stays valid, and
\* between bwrite() and bunpin() the disk has it.
Holding == {"have", "held", "dirty", "installed"}
LockedByUser ==
  /\ \A p \in Proc : (pc[p] = "out" <=> buf[p] = 0) /\ (pc[p] = "out" <=> want[p] = Nil)
  /\ \A p \in Proc, b \in Buf : holder[b] = p <=> buf[p] = b /\ pc[p] \in Holding
  /\ \A p \in Proc : pc[p] \in Holding \ {"have"} => valid[buf[p]] = 1
  /\ \A p \in Proc : pc[p] = "installed" => buf[p] \in pins /\ disk[want[p]] # "old"

\* A valid buffer has the newest contents, and while the disk has not, the
\* buffer is pinned or its holder is about to write or to log it.
NewestIsCached ==
  /\ \A b \in Buf : valid[b] = 1 =>
       /\ blockno[b] # Nil /\ data[b] # "old"
       /\ data[b] \in {disk[blockno[b]], "torn"} \/ disk[blockno[b]] = "old"
  /\ \A k \in Block : disk[k] = "old" =>
       \E b \in Cached(k) :
         valid[b] = 1 /\ (b \in pins \/ \E p \in Proc : buf[p] = b /\ pc[p] = "dirty")

PinsFit == IsFiniteSet(pins) /\ Cardinality(pins) <= LOGBLOCKS

\* One buffer to a block, exact counts, nobody's buffer recycled while they
\* wait for it, nothing recycled that the disk does not have, no lost wakeup,
\* and bwrite() and brelse() called by the holder only.
CacheSound ==
  /\ TypeOK /\ OneBufferPerBlock /\ GetsItsBlock /\ RefcntExact /\ SleepersHaveHolder
  /\ UnusedClean /\ LockedByUser /\ NewestIsCached /\ PinsFit
  /\ panic \in {"none", "no buffers"}

\* The cache's own invariant: all this, and bget() always finds a buffer, if
\* there are enough for every process and every pinned block.
CacheInv == CacheSound /\ panic = "none"
=============================================================================

-------------------------------- MODULE Log --------------------------------
(***************************************************************************)
(* kernel/log.c: the physical redo log under the file system, with the     *)
(* part of the buffer cache it relies on (pinning), the disk, and crashes  *)
(* at every point between two disk writes.                                 *)
(*                                                                         *)
(* log.lock is held across each of begin_op's iterations, end_op's two     *)
(* critical sections and log_write, and sleep() releases it atomically     *)
(* (kernel/proc.c), so each of them is one action.  The steps of commit()  *)
(* run without the lock: each block written to the disk is one action.     *)
(* virtio_disk_rw() returns when the write is done, and a block write is   *)
(* taken to be atomic, as the comment "the real commit" in log.c takes it. *)
(***************************************************************************)
EXTENDS Integers, Sequences, FiniteSets

CONSTANTS
  Proc,         \* the processes that make file-system calls
  Block,        \* home blocks of the file system
  Data,         \* contents of a block
  LOGBLOCKS,    \* data blocks in the on-disk log
  MAXOPBLOCKS,  \* what begin_op reserves for one operation
  MaxWrites,    \* distinct blocks one operation really writes
  NoBlock       \* "holds no buffer"

ASSUME LogAssumption ==
  /\ IsFiniteSet(Proc)
  /\ Data # {}
  /\ LOGBLOCKS \in Nat
  /\ MAXOPBLOCKS \in Nat
  /\ MaxWrites \in 0 .. MAXOPBLOCKS
  /\ NoBlock \notin Block

VARIABLES
  disk,         \* home blocks on the disk
  logdata,      \* data blocks of the on-disk log
  header,       \* header block of the on-disk log: the logged block numbers
  cache,        \* what bread() of a home block returns
  pin,          \* references taken by bpin()
  lh,           \* log.lh
  outstanding,  \* log.outstanding
  committing,   \* log.committing
  pc,           \* where each process is
  held,         \* the buffer a process has modified and not yet released
  written,      \* blocks logged by a process's current operation
  tail,         \* the loop index of write_log() and install_trans()
  boot,         \* progress of recover_from_log()
  panic         \* some process called panic()

persistent == <<disk, logdata, header>>
memory == <<lh, outstanding, committing>>
vars == <<disk, logdata, header, cache, pin, lh, outstanding, committing,
          pc, held, written, tail, boot, panic>>

InOp == {"op", "log_write"}
InCommit == {"write_log", "write_head", "install", "clear", "finish"}
Label == {"out", "begin", "asleep"} \cup InOp \cup InCommit

Logged(h) == {h[i] : i \in DOMAIN h}

TypeOK ==
  /\ disk \in [Block -> Data]
  /\ logdata \in [1 .. LOGBLOCKS -> Data]
  /\ header \in Seq(Block) /\ Len(header) <= LOGBLOCKS
  /\ cache \in [Block -> Data]
  /\ pin \in [Block -> Int]
  /\ lh \in Seq(Block) /\ Len(lh) <= LOGBLOCKS
  /\ outstanding \in Int
  /\ committing \in {0, 1}
  /\ pc \in [Proc -> Label]
  /\ held \in [Proc -> Block \cup {NoBlock}]
  /\ written \in [Proc -> SUBSET Block]
  /\ tail \in 0 .. LOGBLOCKS
  /\ boot \in {"read_head", "install", "clear", "up"}
  /\ panic \in {"none", "too_big", "outside_trans", "committing"}

(***************************************************************************)
(* A freshly formatted disk (mkfs zeroes every block), about to boot.      *)
(***************************************************************************)
Init ==
  /\ \E zero \in Data : /\ disk = [b \in Block |-> zero]
                        /\ logdata = [i \in 1 .. LOGBLOCKS |-> zero]
  /\ header = <<>>
  /\ cache = disk
  /\ pin = [b \in Block |-> 0]
  /\ lh = <<>>
  /\ outstanding = 0
  /\ committing = 0
  /\ pc = [p \in Proc |-> "out"]
  /\ held = [p \in Proc |-> NoBlock]
  /\ written = [p \in Proc |-> {}]
  /\ tail = 0
  /\ boot = "read_head"
  /\ panic = "none"

Goto(p, l) == pc' = [pc EXCEPT ![p] = l]

\* wakeup(&log), together with the caller's own next step.
WakeupAndGoto(p, l) ==
  pc' = [q \in Proc |-> IF q = p THEN l
                        ELSE IF pc[q] = "asleep" THEN "begin" ELSE pc[q]]

(***************************************************************************)
(* begin_op                                                                *)
(***************************************************************************)
MutNoReserve == Len(lh) + outstanding * MAXOPBLOCKS > LOGBLOCKS
MightExhaust == Len(lh) + (outstanding + 1) * MAXOPBLOCKS > LOGBLOCKS

MustWait == committing = 1 \/ MightExhaust

\* One iteration of begin_op's loop: sleep on &log, or join the transaction.
BeginOp(p) ==
  /\ pc[p] \in {"out", "begin"}
  /\ \/ /\ MustWait
        /\ Goto(p, "asleep")
        /\ UNCHANGED <<outstanding, written>>
     \/ /\ ~ MustWait
        /\ outstanding' = outstanding + 1
        /\ written' = [written EXCEPT ![p] = {}]
        /\ Goto(p, "op")
  /\ UNCHANGED <<persistent, cache, pin, lh, committing, held, tail, boot, panic>>

(***************************************************************************)
(* The body of an operation: bread, modify b->data, log_write, brelse.     *)
(***************************************************************************)

\* bread() and the change to b->data.  The caller's contract: one operation
\* logs at most MaxWrites distinct blocks.
Modify(p, b, v) ==
  /\ pc[p] = "op"
  /\ \A q \in Proc : held[q] # b
  /\ Cardinality(written[p] \cup {b}) <= MaxWrites
  /\ cache' = [cache EXCEPT ![b] = v]
  /\ held' = [held EXCEPT ![p] = b]
  /\ Goto(p, "log_write")
  /\ UNCHANGED <<persistent, pin, memory, written, tail, boot, panic>>

MutNoAbsorb(b) == FALSE
Absorbs(b) == b \in Logged(lh)

MutNoPin(b) == UNCHANGED pin
Bpin(b) == pin' = [pin EXCEPT ![b] = @ + 1]

\* log_write(b), and the brelse() that follows it.
LogWrite(p) ==
  LET b == held[p] IN
  /\ pc[p] = "log_write"
  /\ \/ /\ Len(lh) >= LOGBLOCKS
        /\ panic' = "too_big"
        /\ UNCHANGED <<lh, pin, held, written, pc>>
     \/ /\ Len(lh) < LOGBLOCKS /\ outstanding < 1
        /\ panic' = "outside_trans"
        /\ UNCHANGED <<lh, pin, held, written, pc>>
     \/ /\ Len(lh) < LOGBLOCKS /\ outstanding >= 1
        /\ \/ Absorbs(b) /\ UNCHANGED <<lh, pin>>
           \/ ~ Absorbs(b) /\ lh' = Append(lh, b) /\ Bpin(b)
        /\ written' = [written EXCEPT ![p] = @ \cup {b}]
        /\ held' = [held EXCEPT ![p] = NoBlock]
        /\ Goto(p, "op")
        /\ UNCHANGED panic
  /\ UNCHANGED <<persistent, cache, outstanding, committing, tail, boot>>

\* bget() recycles a buffer nobody references (external to log.c: the next
\* bread of the block reads the disk).
Evict(b) ==
  /\ pin[b] = 0
  /\ \A q \in Proc : held[q] # b
  /\ cache' = [cache EXCEPT ![b] = disk[b]]
  /\ UNCHANGED <<persistent, pin, memory, pc, held, written, tail, boot, panic>>

(***************************************************************************)
(* end_op and commit                                                       *)
(***************************************************************************)
MutCommitNothing == "finish"
FirstCommitStep == IF Len(lh) > 0 THEN "write_log" ELSE "finish"

\* end_op's first critical section.
EndOp(p) ==
  /\ pc[p] = "op"
  /\ outstanding' = outstanding - 1
  /\ \/ /\ committing = 1
        /\ panic' = "committing"
        /\ UNCHANGED <<committing, pc, tail>>
     \/ /\ committing = 0
        /\ outstanding' = 0
        /\ committing' = 1
        /\ tail' = 0
        /\ Goto(p, FirstCommitStep)
        /\ UNCHANGED panic
     \/ /\ committing = 0
        /\ outstanding' # 0
        /\ WakeupAndGoto(p, "out")
        /\ UNCHANGED <<committing, tail, panic>>
  /\ UNCHANGED <<persistent, cache, pin, lh, held, written, boot>>

\* One iteration of write_log(): a modified block goes to its log slot.
WriteLog(p) ==
  /\ pc[p] = "write_log"
  /\ tail < Len(lh)
  /\ logdata' = [logdata EXCEPT ![tail + 1] = cache[lh[tail + 1]]]
  /\ IF tail + 1 < Len(lh)
     THEN tail' = tail + 1 /\ UNCHANGED pc
     ELSE tail' = 0 /\ Goto(p, "write_head")
  /\ UNCHANGED <<disk, header, cache, pin, memory, held, written, boot, panic>>

\* The first write_head(): the real commit.
WriteHead(p) ==
  /\ pc[p] = "write_head"
  /\ header' = lh
  /\ Goto(p, "install")
  /\ UNCHANGED <<disk, logdata, cache, pin, memory, held, written, tail, boot, panic>>

Bunpin(b) == pin' = [pin EXCEPT ![b] = @ - 1]

\* One iteration of install_trans(0): log block to its home location.
Install(p) ==
  LET b == lh[tail + 1] IN
  /\ pc[p] = "install"
  /\ tail < Len(lh)
  /\ cache' = [cache EXCEPT ![b] = logdata[tail + 1]]
  /\ disk' = [disk EXCEPT ![b] = logdata[tail + 1]]
  /\ Bunpin(b)
  /\ IF tail + 1 < Len(lh)
     THEN tail' = tail + 1 /\ UNCHANGED pc
     ELSE tail' = 0 /\ Goto(p, "clear")
  /\ UNCHANGED <<logdata, header, memory, held, written, boot, panic>>

\* log.lh.n = 0 and the second write_head().
ClearHead(p) ==
  /\ pc[p] = "clear"
  /\ lh' = <<>>
  /\ header' = <<>>
  /\ Goto(p, "finish")
  /\ UNCHANGED <<disk, logdata, cache, pin, outstanding, committing, held,
                 written, tail, boot, panic>>

MutNoWakeup(p) == Goto(p, "out")
WakeBeginners(p) == WakeupAndGoto(p, "out")

\* end_op's second critical section.
Finish(p) ==
  /\ pc[p] = "finish"
  /\ committing' = 0
  /\ WakeBeginners(p)
  /\ UNCHANGED <<persistent, cache, pin, lh, outstanding, held, written, tail,
                 boot, panic>>

(***************************************************************************)
(* Crash and recover_from_log()                                            *)
(***************************************************************************)

\* The machine stops: memory is lost, the disk is kept.
Crash ==
  /\ cache' = disk
  /\ pin' = [b \in Block |-> 0]
  /\ lh' = <<>>
  /\ outstanding' = 0
  /\ committing' = 0
  /\ pc' = [p \in Proc |-> "out"]
  /\ held' = [p \in Proc |-> NoBlock]
  /\ written' = [p \in Proc |-> {}]
  /\ tail' = 0
  /\ boot' = "read_head"
  /\ UNCHANGED <<persistent, panic>>

RecoverReadHead ==
  /\ boot = "read_head"
  /\ lh' = header
  /\ boot' = IF Len(header) > 0 THEN "install" ELSE "clear"
  /\ UNCHANGED <<persistent, cache, pin, outstanding, committing, pc, held,
                 written, tail, panic>>

\* One iteration of install_trans(1): as Install, but nothing is pinned.
RecoverInstall ==
  LET b == lh[tail + 1] IN
  /\ boot = "install"
  /\ tail < Len(lh)
  /\ cache' = [cache EXCEPT ![b] = logdata[tail + 1]]
  /\ disk' = [disk EXCEPT ![b] = logdata[tail + 1]]
  /\ IF tail + 1 < Len(lh)
     THEN tail' = tail + 1 /\ UNCHANGED boot
     ELSE tail' = 0 /\ boot' = "clear"
  /\ UNCHANGED <<logdata, header, pin, memory, pc, held, written, panic>>

RecoverClear ==
  /\ boot = "clear"
  /\ lh' = <<>>
  /\ header' = <<>>
  /\ boot' = "up"
  /\ UNCHANGED <<disk, logdata, cache, pin, outstanding, committing, pc, held,
                 written, tail, panic>>

Recover == RecoverReadHead \/ RecoverInstall \/ RecoverClear

Commit(p) ==
  WriteLog(p) \/ WriteHead(p) \/ Install(p) \/ ClearHead(p) \/ Finish(p)

\* A panic stops the system; before that, system calls run once recovery is
\* over (initlog() runs in the first process, before it creates another).
Next ==
  /\ panic = "none"
  /\ \/ boot = "up" /\ \E p \in Proc : \/ BeginOp(p)
                                       \/ \E b \in Block, v \in Data : Modify(p, b, v)
                                       \/ LogWrite(p)
                                       \/ EndOp(p)
                                       \/ Commit(p)
     \/ boot = "up" /\ \E b \in Block : Evict(b)
     \/ Recover
     \/ Crash

Spec == Init /\ [][Next]_vars

\* Every process that can run is run (scheduler()), the code of a system call
\* is finite and so reaches its end_op(), and disk writes complete.
Fairness ==
  /\ WF_vars(panic = "none" /\ Recover)
  /\ \A p \in Proc :
       /\ WF_vars(panic = "none" /\ boot = "up" /\ (LogWrite(p) \/ Commit(p)))
       /\ SF_vars(panic = "none" /\ boot = "up" /\ EndOp(p))

FairSpec == Spec /\ Fairness

(***************************************************************************)
(* Properties                                                              *)
(***************************************************************************)

\* begin_op()'s reservation is enough: no operation that keeps below its
\* MAXOPBLOCKS share reaches one of log.c's panics ("too_big",
\* "log_write outside of trans", "log.committing").
NoPanic == panic = "none"

\* log.c's header comment: a commit never runs beside an operation, and there
\* is one committer at a time.
CommitExcludesOps ==
  \A p \in Proc : pc[p] \in InCommit =>
     /\ committing = 1
     /\ outstanding = 0
     /\ \A q \in Proc \ {p} : pc[q] \notin InOp \cup InCommit

\* Home blocks d after the log with header h and slots s has been replayed.
Replay(h, s, d) ==
  [b \in Block |-> IF b \in Logged(h) THEN s[CHOOSE i \in DOMAIN h : h[i] = b] ELSE d[b]]

\* What a reboot would find on the disk once recover_from_log() has run.
Recovered == Replay(header, logdata, disk)

\* Block b has been logged and install_trans() has not come to it.
Uninstalled(b) ==
  \E i \in DOMAIN lh : /\ lh[i] = b
                       /\ \A p \in Proc : /\ pc[p] # "clear"
                                          /\ pc[p] = "install" => i > tail

\* log_write() pins a block once however often it is logged, and
\* install_trans() drops exactly that reference: no buffer of an uncommitted
\* block can be recycled and none stays pinned after the commit.
PinsMatchLog ==
  boot = "up" => \A b \in Block : pin[b] = IF Uninstalled(b) THEN 1 ELSE 0

\* When the end_op() that commits returns, everything any finished operation
\* wrote would survive a crash.
DurableOnReturn ==
  [][\A p \in Proc : (pc[p] = "finish" /\ pc'[p] = "out" /\ boot' = "up")
                       => Recovered' = cache']_vars

\* No lost wakeup: a process that sleeps in begin_op() is woken again (or the
\* machine goes down with it).
SleepersWoken == \A p \in Proc : (pc[p] = "asleep") ~> (pc[p] # "asleep")

\* The log implements a disk on which operations are atomic across crashes.
Abstract == INSTANCE AtomicDisk WITH
  durable <- Recovered,
  live <- IF boot = "up" THEN cache ELSE Recovered,
  active <- {p \in Proc : pc[p] \in InOp}

AtomicAcrossCrashes == Abstract!Spec

(***************************************************************************)
(* The inductive invariant behind CommitExcludesOps, PinsMatchLog and      *)
(* AtomicAcrossCrashes.                                                    *)
(***************************************************************************)
Distinct(h) == \A i, j \in DOMAIN h : h[i] = h[j] => i = j

Committers == {p \in Proc : pc[p] \in InCommit}
Ops == {p \in Proc : pc[p] \in InOp}

\* The first n entries of lh agree, as block contents, with f.
SlotsHold(n, f) == \A i \in DOMAIN lh : i <= n => logdata[i] = f[lh[i]]

\* During recovery nothing else runs, and the prefix of the log up to tail is
\* already home.
BootInv ==
  boot # "up" =>
    /\ \A p \in Proc : pc[p] = "out" /\ held[p] = NoBlock
    /\ outstanding = 0 /\ committing = 0
    /\ \A b \in Block : pin[b] = 0
    /\ cache = disk
    /\ boot = "read_head" => lh = <<>> /\ tail = 0
    /\ boot = "install" => lh = header /\ tail < Len(lh) /\ SlotsHold(tail, disk)
    /\ boot = "clear" => lh = header /\ tail = 0 /\ SlotsHold(Len(lh), disk)

\* log.outstanding counts the operations, log.committing marks the one
\* committer, and the two exclude each other.
CountInv ==
  boot = "up" =>
    /\ outstanding = Cardinality(Ops)
    /\ committing = 1 <=> Committers # {}
    /\ committing = 1 => Ops = {}
    /\ \A p, q \in Committers : p = q

\* A process between modifying a buffer and logging it holds that buffer alone.
HeldInv ==
  /\ \A p \in Proc : held[p] # NoBlock <=> pc[p] = "log_write"
  /\ \A p, q \in Proc : held[p] = held[q] /\ held[p] # NoBlock => p = q

\* Where a committer is tells what is in the log slots, the header and the
\* home blocks.
CommitInv ==
  \A p \in Proc :
    /\ pc[p] = "write_log" => tail < Len(lh) /\ SlotsHold(tail, cache)
    /\ pc[p] = "write_head" => Len(lh) > 0 /\ tail = 0 /\ SlotsHold(Len(lh), cache)
    /\ pc[p] = "install" => /\ header = lh /\ tail < Len(lh)
                            /\ SlotsHold(Len(lh), cache) /\ SlotsHold(tail, disk)
    /\ pc[p] = "clear" => /\ header = lh /\ SlotsHold(Len(lh), cache)
                          /\ SlotsHold(Len(lh), disk)
    /\ pc[p] = "finish" => lh = <<>>

\* Only a commit past its write_head() has a header on the disk.
HeaderInv ==
  boot = "up" /\ header # <<>> => \E p \in Proc : pc[p] \in {"install", "clear"}

\* A block that is neither logged nor being modified is the same in the cache
\* and on the disk.
CleanInv ==
  boot = "up" =>
    \A b \in Block : (b \notin Logged(lh) /\ \A p \in Proc : held[p] # b)
                       => cache[b] = disk[b]

\* The log space the running operations may still claim: what begin_op()
\* reserved for each of them less what it has logged.
Reserved ==
  {r \in Ops \X (1 .. MAXOPBLOCKS) : r[2] > Cardinality(written[r[1]])}

\* begin_op()'s test keeps that space free, so log.lh.n cannot run over.
ReserveInv ==
  /\ boot = "up" => /\ Len(lh) + Cardinality(Reserved) <= LOGBLOCKS
                    /\ \A p \in Ops : written[p] \subseteq Logged(lh)
  /\ \A p \in Proc :
       /\ IsFiniteSet(written[p]) /\ Cardinality(written[p]) <= MaxWrites
       /\ pc[p] = "log_write" => Cardinality(written[p] \cup {held[p]}) <= MaxWrites

LogInv ==
  /\ Distinct(lh) /\ Distinct(header)
  /\ BootInv /\ CountInv /\ HeldInv /\ CommitInv /\ HeaderInv /\ CleanInv
  /\ PinsMatchLog

\* All of it: types, counters, what the disk and the cache hold at every point
\* of commit() and of recovery, pins and reservations.
IInv == TypeOK /\ LogInv /\ ReserveInv
=============================================================================

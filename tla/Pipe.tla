-------------------------------- MODULE Pipe --------------------------------
(***************************************************************************)
(* kernel/pipe.c, with the reference counts of kernel/file.c that decide   *)
(* when pipeclose() runs and kkill()'s effect on a process inside it.      *)
(*                                                                         *)
(* pi->lock is held from step to step.  sleep() takes p->lock and then     *)
(* releases pi->lock (module Proc), so for the holders of pi->lock falling *)
(* asleep is one step; the killed() test before it is another, and a kill  *)
(* may come between the two.                                               *)
(***************************************************************************)
EXTENDS Integers, FiniteSets

CONSTANTS
  Proc,      \* processes
  First,     \* the one that calls pipe()
  PIPESIZE,  \* bytes in the buffer
  UINT,      \* number of values of nread and nwrite (2^32)
  MaxN,      \* bound on the byte count of one read() or write()
  STREAM     \* bytes are numbered modulo STREAM, to tell them apart

ASSUME PipeAssumption ==
  /\ PIPESIZE \in Nat \ {0} /\ UINT \in Nat /\ UINT > PIPESIZE /\ UINT % PIPESIZE = 0
  /\ MaxN \in Nat /\ STREAM \in Nat /\ STREAM > PIPESIZE
  /\ First \in Proc /\ IsFiniteSet(Proc)

VARIABLES
  nread, nwrite, data,  \* the ring
  readopen, writeopen,  \* pi->readopen, pi->writeopen
  lock,                 \* {} or the holder of pi->lock
  freed,                \* how often kfree(pi) was called
  ref,                  \* f->ref of the two files
  fds,                  \* the ends each process holds
  pc, n, i,             \* where each process is; its n and i
  killed,               \* p->killed
  taken, sent           \* history: bytes taken out and put in, modulo STREAM

ring == <<nread, nwrite, data, taken, sent>>
ends == <<readopen, writeopen, freed>>
vars == <<nread, nwrite, data, readopen, writeopen, lock, freed, ref, fds, pc, n, i,
          killed, taken, sent>>

Locked == {"w_loop", "w_sleep", "r_wait", "r_sleep", "r_copy"}
Asleep == {"w_asleep", "r_asleep"}
Label == {"unborn", "idle", "w_start", "r_start", "close_r", "close_w"}
           \cup Locked \cup Asleep

TypeOK ==
  /\ nread \in 0 .. UINT - 1 /\ nwrite \in 0 .. UINT - 1
  /\ data \in [0 .. PIPESIZE - 1 -> 0 .. STREAM - 1]
  /\ readopen \in {0, 1} /\ writeopen \in {0, 1} /\ freed \in Nat
  /\ lock \subseteq Proc
  /\ ref \in [{"r", "w"} -> Nat]
  /\ fds \in [Proc -> SUBSET {"r", "w"}]
  /\ pc \in [Proc -> Label]
  /\ n \in [Proc -> 0 .. MaxN] /\ i \in [Proc -> 0 .. MaxN]
  /\ killed \in [Proc -> {0, 1}]
  /\ taken \in 0 .. STREAM - 1 /\ sent \in 0 .. STREAM - 1

\* pipe() has returned to First.
Init ==
  /\ nread = 0 /\ nwrite = 0 /\ data = [k \in 0 .. PIPESIZE - 1 |-> 0]
  /\ readopen = 1 /\ writeopen = 1
  /\ lock = {} /\ freed = 0
  /\ ref = [e \in {"r", "w"} |-> 1]
  /\ fds = [p \in Proc |-> IF p = First THEN {"r", "w"} ELSE {}]
  /\ pc = [p \in Proc |-> IF p = First THEN "idle" ELSE "unborn"]
  /\ n = [p \in Proc |-> 0] /\ i = [p \in Proc |-> 0]
  /\ killed = [p \in Proc |-> 0]
  /\ taken = 0 /\ sent = 0

Goto(p, l) == pc' = [pc EXCEPT ![p] = l]

\* wakeup(&pi->nread) or wakeup(&pi->nwrite), then p goes to l.
WakeReaders(p, l) ==
  pc' = [q \in Proc |-> IF q = p THEN l ELSE IF pc[q] = "r_asleep" THEN "r_start" ELSE pc[q]]
WakeWriters(p, l) ==
  pc' = [q \in Proc |-> IF q = p THEN l ELSE IF pc[q] = "w_asleep" THEN "w_start" ELSE pc[q]]

\* read() or write() returns.
Return(p) == n' = [n EXCEPT ![p] = 0] /\ i' = [i EXCEPT ![p] = 0] /\ lock' = {}

Full == nwrite = (nread + PIPESIZE) % UINT
Empty == nread = nwrite

(***************************************************************************)
(* fork, and the life of the ends                                          *)
(***************************************************************************)

\* kfork(): filedup() of every open file.
ForkChild(p, q) ==
  /\ pc[p] = "idle" /\ killed[p] = 0
  /\ pc[q] = "unborn"
  /\ fds' = [fds EXCEPT ![q] = fds[p]]
  /\ ref' = [e \in {"r", "w"} |-> IF e \in fds[p] THEN ref[e] + 1 ELSE ref[e]]
  /\ Goto(q, "idle")
  /\ UNCHANGED <<ring, ends, lock, n, i, killed>>

MutCloseEarly(e) == TRUE
LastRef(e) == ref[e] = 1

\* fileclose() under ftable.lock: from close(), or from kexit() for a process
\* that was killed.
Fileclose(p, e) ==
  /\ pc[p] = "idle"
  /\ e \in fds[p]
  /\ fds' = [fds EXCEPT ![p] = @ \ {e}]
  /\ ref' = [ref EXCEPT ![e] = @ - 1]
  /\ IF LastRef(e) THEN Goto(p, IF e = "r" THEN "close_r" ELSE "close_w") ELSE UNCHANGED pc
  /\ UNCHANGED <<ring, ends, lock, n, i, killed>>

MutCloseSilently(p) == Goto(p, "idle")
CloseWakes(p) == IF pc[p] = "close_w" THEN WakeReaders(p, "idle") ELSE WakeWriters(p, "idle")

\* pipeclose(): one critical section of pi->lock, and the kfree() after it.
Pipeclose(p) ==
  /\ pc[p] \in {"close_r", "close_w"}
  /\ lock = {}
  /\ writeopen' = IF pc[p] = "close_w" THEN 0 ELSE writeopen
  /\ readopen' = IF pc[p] = "close_r" THEN 0 ELSE readopen
  /\ freed' = IF readopen' = 0 /\ writeopen' = 0 THEN freed + 1 ELSE freed
  /\ CloseWakes(p)
  /\ UNCHANGED <<ring, lock, ref, fds, n, i, killed>>

(***************************************************************************)
(* pipewrite                                                               *)
(***************************************************************************)

\* write(fd, addr, k).
Write(p, k) ==
  /\ pc[p] = "idle" /\ killed[p] = 0 /\ "w" \in fds[p]
  /\ n' = [n EXCEPT ![p] = k]
  /\ i' = [i EXCEPT ![p] = 0]
  /\ Goto(p, "w_start")
  /\ UNCHANGED <<ring, ends, lock, ref, fds, killed>>

\* acquire(&pi->lock): at the top, and at the end of sleep().
Acquire(p) ==
  /\ pc[p] \in {"w_start", "r_start"}
  /\ lock = {}
  /\ lock' = {p}
  /\ Goto(p, IF pc[p] = "w_start" THEN "w_loop" ELSE "r_wait")
  /\ UNCHANGED <<ring, ends, ref, fds, n, i, killed>>

\* Nobody will read, or the writer has been killed: -1.
WriteFails(p) ==
  /\ pc[p] = "w_loop" /\ i[p] < n[p]
  /\ readopen = 0 \/ killed[p] = 1
  /\ Return(p)
  /\ Goto(p, "idle")
  /\ UNCHANGED <<ring, ends, ref, fds, killed>>

\* nread and nwrite are unsigned ints.
Bump(c) == (c + 1) % UINT

MutNoFullTest == FALSE
MustWaitForRoom == Full

WriteWaits(p) ==
  /\ pc[p] = "w_loop" /\ i[p] < n[p]
  /\ readopen = 1 /\ killed[p] = 0
  /\ MustWaitForRoom
  /\ WakeReaders(p, "w_sleep")
  /\ UNCHANGED <<ring, ends, lock, ref, fds, n, i, killed>>

WriteByte(p) ==
  /\ pc[p] = "w_loop" /\ i[p] < n[p]
  /\ readopen = 1 /\ killed[p] = 0
  /\ ~ MustWaitForRoom
  /\ data' = [data EXCEPT ![nwrite % PIPESIZE] = sent]
  /\ nwrite' = Bump(nwrite)
  /\ sent' = (sent + 1) % STREAM
  /\ i' = [i EXCEPT ![p] = @ + 1]
  /\ UNCHANGED <<nread, taken, ends, lock, ref, fds, pc, n, killed>>

MutNoWakeReaders(p) == Goto(p, "idle")
WriteWakes(p) == WakeReaders(p, "idle")

\* All written, or copyin() failed.
WriteDone(p) ==
  /\ pc[p] = "w_loop"
  /\ i[p] = n[p] \/ (readopen = 1 /\ killed[p] = 0 /\ ~ Full)
  /\ Return(p)
  /\ WriteWakes(p)
  /\ UNCHANGED <<ring, ends, ref, fds, killed>>

\* sleep(), for a reader or a writer.
FallAsleep(p) ==
  /\ pc[p] \in {"w_sleep", "r_sleep"}
  /\ lock' = {}
  /\ Goto(p, IF pc[p] = "w_sleep" THEN "w_asleep" ELSE "r_asleep")
  /\ UNCHANGED <<ring, ends, ref, fds, n, i, killed>>

(***************************************************************************)
(* piperead                                                                *)
(***************************************************************************)
Read(p, k) ==
  /\ pc[p] = "idle" /\ killed[p] = 0 /\ "r" \in fds[p]
  /\ n' = [n EXCEPT ![p] = k]
  /\ i' = [i EXCEPT ![p] = 0]
  /\ Goto(p, "r_start")
  /\ UNCHANGED <<ring, ends, lock, ref, fds, killed>>

\* Empty, and there may be more: give up if killed, or sleep.
ReadWaits(p) ==
  /\ pc[p] = "r_wait"
  /\ Empty /\ writeopen = 1
  /\ \/ killed[p] = 1 /\ Return(p) /\ Goto(p, "idle")
     \/ killed[p] = 0 /\ Goto(p, "r_sleep") /\ UNCHANGED <<lock, n, i>>
  /\ UNCHANGED <<ring, ends, ref, fds, killed>>

ReadReady(p) ==
  /\ pc[p] = "r_wait"
  /\ ~ (Empty /\ writeopen = 1)
  /\ Goto(p, "r_copy")
  /\ UNCHANGED <<ring, ends, lock, ref, fds, n, i, killed>>

\* A byte leaves the ring; copyout() of it may fail, which ends the loop
\* with the byte gone.
ReadByte(p) ==
  /\ pc[p] = "r_copy" /\ i[p] < n[p]
  /\ ~ Empty
  /\ nread' = Bump(nread)
  /\ taken' = (taken + 1) % STREAM
  /\ \/ i' = [i EXCEPT ![p] = @ + 1] /\ UNCHANGED n
     \/ n' = [n EXCEPT ![p] = i[p]] /\ UNCHANGED i
  /\ UNCHANGED <<nwrite, data, sent, ends, lock, ref, fds, pc, killed>>

ReadDone(p) ==
  /\ pc[p] = "r_copy"
  /\ i[p] = n[p] \/ Empty
  /\ Return(p)
  /\ WakeWriters(p, "idle")
  /\ UNCHANGED <<ring, ends, ref, fds, killed>>

(***************************************************************************)
(* kkill(), from any process: mark p, and wake it if it sleeps.            *)
(***************************************************************************)
Kill(p) ==
  /\ pc[p] # "unborn"
  /\ killed' = [killed EXCEPT ![p] = 1]
  /\ Goto(p, IF pc[p] = "w_asleep" THEN "w_start"
             ELSE IF pc[p] = "r_asleep" THEN "r_start" ELSE pc[p])
  /\ UNCHANGED <<ring, ends, lock, ref, fds, n, i>>

Inside(p) ==
  \/ Acquire(p) \/ Pipeclose(p) \/ FallAsleep(p)
  \/ WriteFails(p) \/ WriteWaits(p) \/ WriteByte(p) \/ WriteDone(p)
  \/ ReadWaits(p) \/ ReadReady(p) \/ ReadByte(p) \/ ReadDone(p)

\* kexit() of a killed process, or the end of a program.
Closes(p) == \E e \in {"r", "w"} : Fileclose(p, e)

\* Once every process has closed both ends nothing is left to do.
Finished == (\A p \in Proc : pc[p] \in {"unborn", "idle"} /\ fds[p] = {}) /\ UNCHANGED vars

Next ==
  \/ \E p \in Proc :
       \/ Inside(p) \/ Closes(p) \/ Kill(p)
       \/ \E k \in 1 .. MaxN : Write(p, k) \/ Read(p, k)
       \/ \E q \in Proc : ForkChild(p, q)
  \/ Finished

Spec == Init /\ [][Next]_vars

\* A process inside the kernel keeps running and gets pi->lock in the end; a
\* killed process exits, which closes its ends.
Fairness ==
  \A p \in Proc : SF_vars(Inside(p)) /\ WF_vars(killed[p] = 1 /\ Closes(p))

(***************************************************************************)
(* Properties                                                              *)
(***************************************************************************)
Count == (nwrite - nread) % UINT

\* The ring holds what was written and not yet read, in order and once,
\* whatever the number of readers and writers, and through the wrap of the
\* counters and of the buffer index; and pipeclose() frees the pipe once, when
\* nobody can be using it or come to use it any more: the reference counts keep
\* it while a process is inside.
PipeInv ==
  /\ TypeOK
  /\ Count <= PIPESIZE
  /\ (sent - taken) % STREAM = Count
  /\ \A k \in 0 .. Count - 1 : data[(nread + k) % PIPESIZE] = (taken + k) % STREAM
  /\ freed <= 1
  /\ freed = 1 => \A p \in Proc : pc[p] \in {"unborn", "idle"} /\ fds[p] = {}

\* No lost wakeup ("DOC: pipe-empty", "DOC: pipewrite-full"): when nobody is in
\* a critical section, a writer sleeps only on a full pipe that may still be
\* read, and a reader only on an empty pipe that may still be written.  A
\* killed writer is the exception: pipewrite() returns -1 without a wakeup, and
\* what it had written may lie before readers that sleep.
WakeupsUnlessKilled ==
  lock = {} =>
    \A p \in Proc :
      /\ pc[p] = "r_asleep" => writeopen = 1 /\ (Empty \/ \E q \in Proc : killed[q] = 1)
      /\ pc[p] = "w_asleep" => Full /\ readopen = 1

Reading == {"r_start", "r_wait", "r_sleep", "r_asleep", "r_copy"}
Writing == {"w_start", "w_loop", "w_sleep", "w_asleep"}

\* End of file and broken pipe: once the other end is closed for good, nobody
\* stays inside read() or write().
ClosedPipeReleases ==
  \A p \in Proc :
    (\/ writeopen = 0 /\ pc[p] \in Reading
     \/ readopen = 0 /\ pc[p] \in Writing) ~> (pc[p] = "idle")
=============================================================================

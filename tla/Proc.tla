-------------------------------- MODULE Proc --------------------------------
(***************************************************************************)
(* kernel/proc.c: the process table.  fork, exit, wait, kill, sleep and    *)
(* wakeup, and the scheduler of each CPU, with the locks that order them:  *)
(* p->lock of each slot and wait_lock.                                     *)
(*                                                                         *)
(* A critical section of p->lock that is entered and left without another  *)
(* lock being taken is one action, guarded by the lock being free.  What a *)
(* thread does while it keeps its own p->lock (sleep(), yield(), kexit()   *)
(* down to the scheduler's release) takes several, and so does everything  *)
(* under wait_lock.  A timer interrupt may take the CPU away wherever no   *)
(* spinlock is held.                                                       *)
(***************************************************************************)
EXTENDS Integers

CONSTANTS
  NPROC,     \* slots of the process table
  Cpu,       \* the CPUs
  MaxPid,    \* bound on the pids handed out
  KillPids   \* the arguments user programs pass to kill()

ASSUME ProcAssumption == NPROC \in Nat \ {0} /\ MaxPid \in Nat /\ KillPids \subseteq Nat

Slot == 1 .. NPROC
None == 0
InitProc == 1

VARIABLES
  state,      \* p->state
  pid,        \* p->pid
  parent,     \* p->parent
  chan,       \* p->chan
  killed,     \* p->killed
  nextpid,    \* nextpid
  cpu,        \* c->proc
  plock,      \* the slots whose p->lock a thread keeps from step to step
  wait_lock,  \* the holder of wait_lock
  pc,         \* where the thread of each slot is
  newp,       \* np, in kfork()
  scan,       \* pp, in the loops of reparent() and kwait()
  wk,         \* p, in wakeup()'s loop
  havekids,   \* havekids, in kwait()
  named,      \* history: the slots whose present process kill() or a fault has named
  panic       \* some thread called panic()

table == <<state, pid, parent, chan, killed>>
loops == <<scan, wk, havekids>>
vars == <<state, pid, parent, chan, killed, nextpid, cpu, plock, wait_lock, pc,
          newp, scan, wk, havekids, named, panic>>

\* Labels at which no lock is held, so that a timer interrupt may come.
Open == {"user", "ret", "fork", "fork_parent", "fork_run", "exit", "wait", "kill"}
\* Labels at which the thread holds wait_lock.
Exiting == {"reparent", "reparent_wake", "exit_wake", "zombie"}
Waiting == {"wait_scan", "wait_check", "sleep1", "sleep2"}
Label == Open \cup Exiting \cup Waiting \cup {"dead"}

TypeOK ==
  /\ state \in [Slot -> {"UNUSED", "USED", "SLEEPING", "RUNNABLE", "RUNNING", "ZOMBIE"}]
  /\ pid \in [Slot -> Nat]
  /\ parent \in [Slot -> Slot \cup {None}]
  /\ chan \in [Slot -> Slot \cup {None}]
  /\ killed \in [Slot -> {0, 1}]
  /\ nextpid \in Nat
  /\ cpu \in [Cpu -> Slot \cup {None}]
  /\ plock \subseteq Slot
  /\ wait_lock \in Slot \cup {None}
  /\ pc \in [Slot -> Label]
  /\ newp \in [Slot -> Slot \cup {None}]
  /\ scan \in Slot /\ wk \in Slot /\ havekids \in {0, 1}
  /\ named \subseteq Slot
  /\ panic \in {"none", "init_exiting"}

\* After userinit(): the first process is ready, and no CPU has run it yet.
Init ==
  /\ state = [s \in Slot |-> IF s = InitProc THEN "RUNNABLE" ELSE "UNUSED"]
  /\ pid = [s \in Slot |-> IF s = InitProc THEN 1 ELSE 0]
  /\ parent = [s \in Slot |-> None]
  /\ chan = [s \in Slot |-> None]
  /\ killed = [s \in Slot |-> 0]
  /\ nextpid = 2
  /\ cpu = [c \in Cpu |-> None]
  /\ plock = {}
  /\ wait_lock = None
  /\ pc = [s \in Slot |-> IF s = InitProc THEN "user" ELSE "dead"]
  /\ newp = [s \in Slot |-> None]
  /\ scan = 1 /\ wk = 1 /\ havekids = 0
  /\ named = {}
  /\ panic = "none"

OnCpu(p) == \E c \in Cpu : cpu[c] = p

\* The thread of slot p executes, at label l, without its p->lock.
At(p, l) == OnCpu(p) /\ state[p] = "RUNNING" /\ p \notin plock /\ pc[p] = l

Goto(p, l) == pc' = [pc EXCEPT ![p] = l]

(***************************************************************************)
(* scheduler, sched, yield, and the way back into a thread                 *)
(***************************************************************************)

\* scheduler() takes p->lock of a RUNNABLE slot and switches to its thread.
Dispatch(c, p) ==
  /\ cpu[c] = None
  /\ p \notin plock
  /\ state[p] = "RUNNABLE"
  /\ state' = [state EXCEPT ![p] = "RUNNING"]
  /\ cpu' = [cpu EXCEPT ![c] = p]
  /\ plock' = plock \cup {p}
  /\ UNCHANGED <<pid, parent, chan, killed, nextpid, wait_lock, pc, newp, loops,
                 named, panic>>

\* The end of sleep(), of yield() and of forkret()'s way in: tidy up p->chan
\* and release the p->lock that the scheduler took.
Resume(p) ==
  /\ OnCpu(p) /\ state[p] = "RUNNING" /\ p \in plock
  /\ pc[p] # "sleep2"
  /\ chan' = [chan EXCEPT ![p] = None]
  /\ plock' = plock \ {p}
  /\ UNCHANGED <<state, pid, parent, killed, nextpid, cpu, wait_lock, pc, newp, loops,
                 named, panic>>

\* sched() into the scheduler, which clears c->proc and releases p->lock.
SwitchOut(c) ==
  LET p == cpu[c] IN
  /\ p # None
  /\ p \in plock /\ state[p] # "RUNNING"
  /\ cpu' = [cpu EXCEPT ![c] = None]
  /\ plock' = plock \ {p}
  /\ UNCHANGED <<table, nextpid, wait_lock, pc, newp, loops, named, panic>>

\* A timer interrupt: yield(), up to sched().  usertrap() yields only a
\* process that is not killed, kerneltrap() any.
Yield(p) ==
  /\ \E l \in Open : At(p, l)
  /\ pc[p] = "user" => killed[p] = 0
  /\ state' = [state EXCEPT ![p] = "RUNNABLE"]
  /\ plock' = plock \cup {p}
  /\ UNCHANGED <<pid, parent, chan, killed, nextpid, cpu, wait_lock, pc, newp, loops,
                 named, panic>>

(***************************************************************************)
(* usertrap                                                                *)
(***************************************************************************)

\* Which system call, or the exit of a process that has been killed.  Init
\* never calls exit() (user/init.c, while fork() and wait() succeed).
Trap(p) ==
  /\ At(p, "user")
  /\ \/ killed[p] = 1 /\ Goto(p, "exit")
     \/ /\ killed[p] = 0
        /\ \E l \in {"fork", "wait", "kill", "exit"} :
             /\ l = "exit" => p # InitProc
             /\ l = "kill" => KillPids # {}
             /\ Goto(p, l)
  /\ UNCHANGED <<table, nextpid, cpu, plock, wait_lock, newp, loops, named, panic>>

\* An exception no handler wants: setkilled().  (Init does not fault.)
Fault(p) ==
  /\ p # InitProc
  /\ At(p, "user")
  /\ killed' = [killed EXCEPT ![p] = 1]
  /\ named' = named \cup {p}
  /\ Goto(p, "ret")
  /\ UNCHANGED <<state, pid, parent, chan, nextpid, cpu, plock, wait_lock, newp,
                 loops, panic>>

\* The check before returning to user space.
UserRet(p) ==
  /\ At(p, "ret")
  /\ Goto(p, IF killed[p] = 1 THEN "exit" ELSE "user")
  /\ UNCHANGED <<table, nextpid, cpu, plock, wait_lock, newp, loops, named, panic>>

(***************************************************************************)
(* kfork                                                                   *)
(***************************************************************************)

\* allocproc() and the copying, under np->lock.  Slots change while the table
\* is searched one lock at a time, so any free slot may be the one found.
ForkAlloc(p, np) ==
  /\ At(p, "fork")
  /\ nextpid <= MaxPid
  /\ np \notin plock /\ state[np] = "UNUSED"
  /\ state' = [state EXCEPT ![np] = "USED"]
  /\ pid' = [pid EXCEPT ![np] = nextpid]
  /\ nextpid' = nextpid + 1
  /\ newp' = [newp EXCEPT ![p] = np]
  /\ pc' = [pc EXCEPT ![p] = "fork_parent", ![np] = "user"]
  /\ named' = named \ {np}
  /\ UNCHANGED <<parent, chan, killed, cpu, plock, wait_lock, loops, panic>>

MutKeepKilled(s) == UNCHANGED killed
ClearKilled(s) == killed' = [killed EXCEPT ![s] = 0]

\* freeproc(s)
Freeproc(s) ==
  /\ state' = [state EXCEPT ![s] = "UNUSED"]
  /\ pid' = [pid EXCEPT ![s] = 0]
  /\ parent' = [parent EXCEPT ![s] = None]
  /\ chan' = [chan EXCEPT ![s] = None]
  /\ ClearKilled(s)
  /\ named' = named \ {s}

\* No memory for the trapframe, the page table or the copy: the slot is freed
\* again and fork() returns -1; the pid is spent.
ForkNoMemory(p, np) ==
  /\ At(p, "fork")
  /\ nextpid <= MaxPid
  /\ np \notin plock /\ state[np] = "UNUSED"
  /\ Freeproc(np)
  /\ nextpid' = nextpid + 1
  /\ Goto(p, "ret")
  /\ UNCHANGED <<cpu, plock, wait_lock, newp, loops, panic>>

\* The search met no free slot.
ForkNoSlot(p) ==
  /\ At(p, "fork")
  /\ Goto(p, "ret")
  /\ UNCHANGED <<table, nextpid, cpu, plock, wait_lock, newp, loops, named, panic>>

ForkParent(p) ==
  /\ At(p, "fork_parent")
  /\ wait_lock = None
  /\ parent' = [parent EXCEPT ![newp[p]] = p]
  /\ Goto(p, "fork_run")
  /\ UNCHANGED <<state, pid, chan, killed, nextpid, cpu, plock, wait_lock, newp, loops,
                 named, panic>>

ForkRun(p) ==
  /\ At(p, "fork_run")
  /\ newp[p] \notin plock
  /\ state' = [state EXCEPT ![newp[p]] = "RUNNABLE"]
  /\ newp' = [newp EXCEPT ![p] = None]
  /\ Goto(p, "ret")
  /\ UNCHANGED <<pid, parent, chan, killed, nextpid, cpu, plock, wait_lock, loops,
                 named, panic>>

Fork(p) ==
  \/ \E np \in Slot : ForkAlloc(p, np) \/ ForkNoMemory(p, np)
  \/ ForkNoSlot(p)
  \/ ForkParent(p)
  \/ ForkRun(p)

(***************************************************************************)
(* kexit                                                                   *)
(***************************************************************************)

\* Up to acquire(&wait_lock); the files and the cwd it gives back are not
\* state of this module.
ExitLock(p) ==
  /\ At(p, "exit")
  /\ \/ /\ p = InitProc
        /\ panic' = "init_exiting"
        /\ UNCHANGED <<wait_lock, pc>>
     \/ /\ p # InitProc
        /\ wait_lock = None
        /\ wait_lock' = p
        /\ Goto(p, "reparent")
        /\ UNCHANGED panic
  /\ UNCHANGED <<table, nextpid, cpu, plock, newp, loops, named>>

\* The step of reparent()'s loop to the next slot, or out of it.
MutOneSlotLess(p) ==
  IF scan + 1 < NPROC THEN scan' = scan + 1 /\ Goto(p, "reparent")
                      ELSE scan' = 1 /\ Goto(p, "exit_wake")
NextSlot(p) ==
  IF scan < NPROC THEN scan' = scan + 1 /\ Goto(p, "reparent")
                  ELSE scan' = 1 /\ Goto(p, "exit_wake")

IsChild(p) == parent[scan] = p

\* One slot of reparent().
Reparent(p) ==
  /\ At(p, "reparent")
  /\ \/ /\ IsChild(p)
        /\ parent' = [parent EXCEPT ![scan] = InitProc]
        /\ Goto(p, "reparent_wake")
        /\ UNCHANGED scan
     \/ /\ ~ IsChild(p)
        /\ NextSlot(p)
        /\ UNCHANGED parent
  /\ UNCHANGED <<state, pid, chan, killed, nextpid, cpu, plock, wait_lock, newp, wk,
                 havekids, named, panic>>

WakeChan(p) == IF pc[p] = "reparent_wake" THEN InitProc ELSE parent[p]

\* One slot of wakeup(initproc) in reparent(), or of wakeup(p->parent).
Wakeup(p) ==
  /\ At(p, "reparent_wake") \/ At(p, "exit_wake")
  /\ wk # p => wk \notin plock
  /\ IF wk # p /\ state[wk] = "SLEEPING" /\ chan[wk] = WakeChan(p)
     THEN state' = [state EXCEPT ![wk] = "RUNNABLE"]
     ELSE UNCHANGED state
  /\ \/ wk < NPROC /\ wk' = wk + 1 /\ UNCHANGED <<scan, pc>>
     \/ wk = NPROC /\ wk' = 1 /\ pc[p] = "reparent_wake" /\ NextSlot(p)
     \/ wk = NPROC /\ wk' = 1 /\ pc[p] = "exit_wake" /\ Goto(p, "zombie") /\ UNCHANGED scan
  /\ UNCHANGED <<pid, parent, chan, killed, nextpid, cpu, plock, wait_lock, newp,
                 havekids, named, panic>>

\* acquire(&p->lock), ZOMBIE, release(&wait_lock); SwitchOut follows.
BecomeZombie(p) ==
  /\ At(p, "zombie")
  /\ state' = [state EXCEPT ![p] = "ZOMBIE"]
  /\ plock' = plock \cup {p}
  /\ wait_lock' = None
  /\ Goto(p, "dead")
  /\ UNCHANGED <<pid, parent, chan, killed, nextpid, cpu, newp, loops, named, panic>>

Exit(p) == ExitLock(p) \/ Reparent(p) \/ Wakeup(p) \/ BecomeZombie(p)

(***************************************************************************)
(* kwait, and sleep(p, &wait_lock)                                         *)
(***************************************************************************)

\* acquire(&wait_lock): at the top of kwait(), and at the end of sleep().
WaitLock(p) ==
  /\ At(p, "wait")
  /\ wait_lock = None
  /\ wait_lock' = p
  /\ Goto(p, "wait_scan")
  /\ UNCHANGED <<table, nextpid, cpu, plock, newp, loops, named, panic>>

WaitReturn(p) ==
  /\ wait_lock' = None
  /\ scan' = 1
  /\ havekids' = 0
  /\ Goto(p, "ret")

ChildLockFree(pp) == pp \notin plock

\* A zombie child: free its slot, or leave it if the exit status cannot be
\* copied out (init passes no address).
WaitReap(p) ==
  /\ At(p, "wait_scan")
  /\ parent[scan] = p /\ ChildLockFree(scan) /\ state[scan] = "ZOMBIE"
  /\ \/ Freeproc(scan)
     \/ p # InitProc /\ UNCHANGED <<table, named>>
  /\ WaitReturn(p)
  /\ UNCHANGED <<nextpid, cpu, plock, newp, wk, panic>>

NextChild(p) ==
  IF scan < NPROC THEN scan' = scan + 1 /\ UNCHANGED pc
                  ELSE scan' = 1 /\ Goto(p, "wait_check")

\* Any other slot of the table.
WaitScan(p) ==
  /\ At(p, "wait_scan")
  /\ parent[scan] = p => ChildLockFree(scan) /\ state[scan] # "ZOMBIE"
  /\ havekids' = IF parent[scan] = p THEN 1 ELSE havekids
  /\ NextChild(p)
  /\ UNCHANGED <<table, nextpid, cpu, plock, wait_lock, newp, wk, named, panic>>

\* No children, or killed: give up.  Otherwise sleep.
WaitCheck(p) ==
  /\ At(p, "wait_check")
  /\ \/ /\ havekids = 0 \/ killed[p] = 1
        /\ WaitReturn(p)
     \/ /\ havekids = 1 /\ killed[p] = 0
        /\ havekids' = 0
        /\ Goto(p, "sleep1")
        /\ UNCHANGED <<wait_lock, scan>>
  /\ UNCHANGED <<table, nextpid, cpu, plock, newp, wk, named, panic>>

MutReleaseFirst(p) == wait_lock' = None /\ UNCHANGED plock
AcquireFirst(p) == plock' = plock \cup {p} /\ UNCHANGED wait_lock

\* sleep(): acquire(&p->lock) while wait_lock is still held.
SleepLock(p) ==
  /\ At(p, "sleep1")
  /\ AcquireFirst(p)
  /\ Goto(p, "sleep2")
  /\ UNCHANGED <<table, nextpid, cpu, newp, loops, named, panic>>

\* release(lk), p->chan and SLEEPING, then sched(); awake again, the thread
\* goes back for wait_lock.
Sleep(p) ==
  /\ OnCpu(p) /\ pc[p] = "sleep2"
  /\ wait_lock' = None
  /\ chan' = [chan EXCEPT ![p] = p]
  /\ state' = [state EXCEPT ![p] = "SLEEPING"]
  /\ Goto(p, "wait")
  /\ UNCHANGED <<pid, parent, killed, nextpid, cpu, plock, newp, loops, named, panic>>

Wait(p) ==
  WaitLock(p) \/ WaitReap(p) \/ WaitScan(p) \/ WaitCheck(p) \/ SleepLock(p) \/ Sleep(p)

(***************************************************************************)
(* kkill                                                                   *)
(***************************************************************************)
WakeVictim(v) == IF state[v] = "SLEEPING" THEN "RUNNABLE" ELSE state[v]

\* The first slot with that pid, under its lock; -1 if there is none.
Kill(p, n) ==
  /\ At(p, "kill")
  /\ \/ /\ \E v \in Slot :
             /\ pid[v] = n /\ v \notin plock
             /\ \A w \in 1 .. v - 1 : pid[w] # n
             /\ killed' = [killed EXCEPT ![v] = 1]
             /\ state' = [state EXCEPT ![v] = WakeVictim(v)]
             /\ named' = named \cup {v}
     \/ /\ \A v \in Slot : pid[v] # n
        /\ UNCHANGED <<killed, state, named>>
  /\ Goto(p, "ret")
  /\ UNCHANGED <<pid, parent, chan, nextpid, cpu, plock, wait_lock, newp, loops, panic>>

Step(p) ==
  \/ Resume(p) \/ Yield(p) \/ Trap(p) \/ Fault(p) \/ UserRet(p)
  \/ Fork(p) \/ Exit(p) \/ Wait(p)
  \/ \E n \in KillPids : Kill(p, n)

Next ==
  /\ panic = "none"
  /\ \/ \E c \in Cpu : SwitchOut(c) \/ \E p \in Slot : Dispatch(c, p)
     \/ \E p \in Slot : Step(p)

Spec == Init /\ [][Next]_vars

(***************************************************************************)
(* Properties                                                              *)
(***************************************************************************)

\* A thread runs on one CPU at a time, and a slot is not freed while a CPU is
\* still on its kernel stack: kwait() takes the child's lock so that "the
\* child isn't still in exit() or swtch()".
OneThreadOneCpu ==
  /\ \A c, d \in Cpu : cpu[c] = cpu[d] /\ cpu[c] # None => c = d
  /\ \A c \in Cpu : cpu[c] # None =>
       \/ state[cpu[c]] = "RUNNING"
       \/ cpu[c] \in plock /\ state[cpu[c]] \notin {"UNUSED", "USED"}
  /\ \A s \in Slot : state[s] = "RUNNING" => OnCpu(s)

\* Every process but init has a live parent that can wait for it: exit() hands
\* its children to init before it becomes a zombie, and fork() in progress
\* cannot lose the race against that.
ParentsAlive ==
  \A s \in Slot :
    /\ parent[s] # None => state[parent[s]] \notin {"UNUSED", "USED", "ZOMBIE"}
    /\ s # InitProc /\ state[s] \notin {"UNUSED", "USED"} => parent[s] # None

\* No lost wakeup: outside the critical sections of wait_lock, no process
\* sleeps in wait() while a child of its is a zombie; not for a child that
\* exits between the scan and the sleep, nor for one that init inherits.
NoLostWait ==
  \A p, q \in Slot :
    wait_lock = None /\ state[p] = "SLEEPING" /\ chan[p] = p /\ parent[q] = p
      => state[q] # "ZOMBIE"

\* "Kill the process with the given pid": a process is marked killed only if
\* kill() named its pid, or it faulted, never through what an earlier user of
\* the slot met.
KillNamesVictim ==
  \A s \in Slot : state[s] # "UNUSED" /\ killed[s] = 1 => s \in named

(***************************************************************************)
(* The inductive invariant behind OneThreadOneCpu, ParentsAlive and        *)
(* NoLostWait.                                                             *)
(***************************************************************************)

\* Who holds which lock: wait_lock belongs to the running thread whose label
\* says so, and a p->lock is kept only by the thread of p, on its CPU.
LockInv ==
  /\ \A p \in Slot :
       /\ pc[p] \in Exiting \cup Waiting <=> wait_lock = p
       /\ pc[p] \in Exiting \cup Waiting =>
            OnCpu(p) /\ state[p] = "RUNNING" /\ (p \in plock <=> pc[p] = "sleep2")
       /\ p \in plock => OnCpu(p)
  /\ pc[InitProc] \notin Exiting

\* What the label of a thread says about its slot.
StateInv ==
  /\ \A s \in Slot :
       /\ state[s] = "UNUSED" => pc[s] = "dead"
       /\ state[s] = "USED" => pc[s] = "user"
       /\ pc[s] = "dead" <=> state[s] \in {"UNUSED", "ZOMBIE"}
       /\ state[s] = "SLEEPING" => chan[s] = s
       /\ pc[s] \in {"fork_parent", "fork_run"} => newp[s] # None
       /\ newp[s] # None => state[newp[s]] = "USED"
       /\ pc[s] = "fork_run" => parent[newp[s]] = s
  /\ \A s, t \in Slot : newp[s] = newp[t] /\ newp[s] # None => s = t
  /\ state[InitProc] \notin {"UNUSED", "USED", "ZOMBIE"}

\* How far reparent() has come: no child is left behind it.
ReparentInv ==
  \A p, s \in Slot :
    parent[s] = p => /\ pc[p] = "reparent" => s >= scan
                     /\ pc[p] = "reparent_wake" => s > scan
                     /\ pc[p] \notin {"exit_wake", "zombie"}

\* A zombie whose parent sleeps in wait() is one init is just inheriting, and
\* the wakeup(initproc) is on its way; a process about to sleep in wait() has
\* seen that it has no zombie child; one about to become a zombie has woken
\* its parent.
WaitInv ==
  \A p, q \in Slot : parent[q] = p =>
    /\ state[p] = "SLEEPING" /\ state[q] = "ZOMBIE" =>
         p = InitProc /\ wk = 1 /\ \E e \in Slot : pc[e] = "reparent_wake"
    /\ pc[p] = "wait_scan" /\ q < scan => state[q] # "ZOMBIE"
    /\ pc[p] \in {"wait_check", "sleep1", "sleep2"} => state[q] # "ZOMBIE"
    /\ pc[q] = "exit_wake" /\ p < wk => state[p] # "SLEEPING"
    /\ pc[q] = "zombie" => state[p] # "SLEEPING"

\* The loop variables start from the first slot each time.
LoopInv ==
  /\ wait_lock = None => scan = 1 /\ wk = 1
  /\ \A p \in Slot :
       /\ pc[p] \in {"exit_wake", "zombie", "wait_check", "sleep1", "sleep2"} => scan = 1
       /\ pc[p] \in {"reparent", "zombie"} \cup Waiting => wk = 1

\* All of it.
ProcInv ==
  /\ TypeOK /\ LockInv /\ StateInv /\ ReparentInv /\ WaitInv /\ LoopInv
  /\ OneThreadOneCpu /\ ParentsAlive
=============================================================================

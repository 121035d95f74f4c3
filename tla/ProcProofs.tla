----------------------------- MODULE ProcProofs -----------------------------
(***************************************************************************)
(* Proofs about the process table (module Proc), for any number of slots,  *)
(* CPUs and pids.                                                          *)
(*                                                                         *)
(* ProcInv is inductive as it stands: one lemma for each action, with one  *)
(* step for each of its conjuncts.  What the other conjuncts are for:      *)
(* LockInv says that at most one thread is under wait_lock, so that a step *)
(* of a thread there disturbs no other's scan; StateInv ties labels to the *)
(* states of slots, so that a zombie or a free slot takes no step;         *)
(* ReparentInv, WaitInv and LoopInv say how far the loops of reparent(),   *)
(* kwait() and wakeup() have come.                                         *)
(***************************************************************************)
EXTENDS Proc, TLAPS

\* Seconds that a prover may take over one leaf.
USE SMTT(20), ZenonT(40)

\* 1, the slot of init, is a slot, and 0 stands for no slot.
LEMMA SlotFacts == InitProc \in Slot /\ 1 \in Slot /\ None \notin Slot
BY ProcAssumption DEF Slot, None, InitProc

\* Slots are numbers from that of init to NPROC.
LEMMA SlotOrder ==
  /\ InitProc = 1 /\ NPROC \in Int
  /\ \A s \in Slot : s \in Int /\ InitProc <= s /\ s <= NPROC
BY ProcAssumption DEF Slot, InitProc

\* The loops over the table stay in it.
LEMMA NextIsSlot == \A s \in Slot : s < NPROC => s + 1 \in Slot
BY ProcAssumption DEF Slot

USE SlotFacts DEF table, loops, Open, Exiting, Waiting

\* The only change of a state is that of sleepers that are woken.
OnlyWakes ==
  \A s \in Slot : \/ state'[s] = state[s]
                  \/ state[s] = "SLEEPING" /\ state'[s] = "RUNNABLE"

\* scheduler() runs a slot no other CPU runs: a RUNNABLE thread whose lock is
\* free is on no CPU, and the thread keeps p->lock until it is back in its own code.
LEMMA DispatchKeeps ==
  ASSUME ProcInv, NEW c \in Cpu, NEW p \in Slot, Dispatch(c, p)
  PROVE  ProcInv'
<1> USE DEF Dispatch
<1>1. TypeOK'
  BY DEF ProcInv, TypeOK, Label
<1>2. LockInv'
  BY DEF ProcInv, TypeOK, LockInv, OnCpu
<1>3. StateInv'
  BY DEF ProcInv, TypeOK, StateInv
<1>4. ReparentInv'
  BY DEF ProcInv, TypeOK, ReparentInv
<1>5. WaitInv'
  BY DEF ProcInv, TypeOK, WaitInv
<1>6. LoopInv'
  BY DEF ProcInv, TypeOK, LoopInv
<1>7. OneThreadOneCpu'
  BY DEF ProcInv, TypeOK, OneThreadOneCpu, OnCpu
<1>8. ParentsAlive'
  BY DEF ProcInv, TypeOK, ParentsAlive
<1>9. QED BY <1>1, <1>2, <1>3, <1>4, <1>5, <1>6, <1>7, <1>8 DEF ProcInv

\* A thread that gives up the p->lock it came back with leaves it to nobody.
LEMMA ResumeKeeps == ASSUME ProcInv, NEW p \in Slot, Resume(p) PROVE ProcInv'
<1> USE DEF Resume
<1>1. TypeOK'
  BY DEF ProcInv, TypeOK, Label
<1>2. LockInv'
  BY DEF ProcInv, TypeOK, LockInv, OnCpu
<1>3. StateInv'
  BY DEF ProcInv, TypeOK, StateInv
<1>4. ReparentInv'
  BY DEF ProcInv, TypeOK, ReparentInv
<1>5. WaitInv'
  BY DEF ProcInv, TypeOK, WaitInv
<1>6. LoopInv'
  BY DEF ProcInv, TypeOK, LoopInv
<1>7. OneThreadOneCpu'
  BY DEF ProcInv, TypeOK, OneThreadOneCpu, OnCpu
<1>8. ParentsAlive'
  BY DEF ProcInv, TypeOK, ParentsAlive
<1>9. QED BY <1>1, <1>2, <1>3, <1>4, <1>5, <1>6, <1>7, <1>8 DEF ProcInv

\* The scheduler clears c->proc only of a thread that has left RUNNING.
LEMMA SwitchOutKeeps == ASSUME ProcInv, NEW c \in Cpu, SwitchOut(c) PROVE ProcInv'
<1> USE DEF SwitchOut
<1>1. TypeOK'
  BY DEF ProcInv, TypeOK, Label
<1>2. LockInv'
  BY DEF ProcInv, TypeOK, LockInv, OnCpu
<1>3. StateInv'
  BY DEF ProcInv, TypeOK, StateInv
<1>4. ReparentInv'
  BY DEF ProcInv, TypeOK, ReparentInv
<1>5. WaitInv'
  BY DEF ProcInv, TypeOK, WaitInv
<1>6. LoopInv'
  BY DEF ProcInv, TypeOK, LoopInv
<1>7. OneThreadOneCpu'
  BY DEF ProcInv, TypeOK, OneThreadOneCpu, OnCpu
<1>8. ParentsAlive'
  BY DEF ProcInv, TypeOK, ParentsAlive
<1>9. QED BY <1>1, <1>2, <1>3, <1>4, <1>5, <1>6, <1>7, <1>8 DEF ProcInv

\* A timer interrupt comes where the thread holds no lock, and takes p->lock.
LEMMA YieldKeeps == ASSUME ProcInv, NEW p \in Slot, Yield(p) PROVE ProcInv'
<1> USE DEF Yield, At
<1>1. TypeOK'
  BY DEF ProcInv, TypeOK, Label
<1>2. LockInv'
  BY DEF ProcInv, TypeOK, LockInv, OnCpu
<1>3. StateInv'
  BY DEF ProcInv, TypeOK, StateInv
<1>4. ReparentInv'
  BY DEF ProcInv, TypeOK, ReparentInv
<1>5. WaitInv'
  BY DEF ProcInv, TypeOK, WaitInv
<1>6. LoopInv'
  BY DEF ProcInv, TypeOK, LoopInv
<1>7. OneThreadOneCpu'
  BY DEF ProcInv, TypeOK, OneThreadOneCpu, OnCpu
<1>8. ParentsAlive'
  BY DEF ProcInv, TypeOK, ParentsAlive
<1>9. QED BY <1>1, <1>2, <1>3, <1>4, <1>5, <1>6, <1>7, <1>8 DEF ProcInv

\* The entry into a system call.
LEMMA TrapKeeps == ASSUME ProcInv, NEW p \in Slot, Trap(p) PROVE ProcInv'
<1> USE DEF Trap, At, Goto
<1>1. TypeOK'
  BY DEF ProcInv, TypeOK, Label
<1>2. LockInv'
  BY DEF ProcInv, TypeOK, LockInv, OnCpu
<1>3. StateInv'
  BY DEF ProcInv, TypeOK, StateInv
<1>4. ReparentInv'
  BY DEF ProcInv, TypeOK, ReparentInv
<1>5. WaitInv'
  BY DEF ProcInv, TypeOK, WaitInv
<1>6. LoopInv'
  BY DEF ProcInv, TypeOK, LoopInv
<1>7. OneThreadOneCpu'
  BY DEF ProcInv, TypeOK, OneThreadOneCpu, OnCpu
<1>8. ParentsAlive'
  BY DEF ProcInv, TypeOK, ParentsAlive
<1>9. QED BY <1>1, <1>2, <1>3, <1>4, <1>5, <1>6, <1>7, <1>8 DEF ProcInv

\* setkilled() on the thread itself.
LEMMA FaultKeeps == ASSUME ProcInv, NEW p \in Slot, Fault(p) PROVE ProcInv'
<1> USE DEF Fault, At, Goto
<1>1. TypeOK'
  BY DEF ProcInv, TypeOK, Label
<1>2. LockInv'
  BY DEF ProcInv, TypeOK, LockInv, OnCpu
<1>3. StateInv'
  BY DEF ProcInv, TypeOK, StateInv
<1>4. ReparentInv'
  BY DEF ProcInv, TypeOK, ReparentInv
<1>5. WaitInv'
  BY DEF ProcInv, TypeOK, WaitInv
<1>6. LoopInv'
  BY DEF ProcInv, TypeOK, LoopInv
<1>7. OneThreadOneCpu'
  BY DEF ProcInv, TypeOK, OneThreadOneCpu, OnCpu
<1>8. ParentsAlive'
  BY DEF ProcInv, TypeOK, ParentsAlive
<1>9. QED BY <1>1, <1>2, <1>3, <1>4, <1>5, <1>6, <1>7, <1>8 DEF ProcInv

\* The way back to user space, or into exit().
LEMMA UserRetKeeps == ASSUME ProcInv, NEW p \in Slot, UserRet(p) PROVE ProcInv'
<1> USE DEF UserRet, At, Goto
<1>1. TypeOK'
  BY DEF ProcInv, TypeOK, Label
<1>2. LockInv'
  BY DEF ProcInv, TypeOK, LockInv, OnCpu
<1>3. StateInv'
  BY DEF ProcInv, TypeOK, StateInv
<1>4. ReparentInv'
  BY DEF ProcInv, TypeOK, ReparentInv
<1>5. WaitInv'
  BY DEF ProcInv, TypeOK, WaitInv
<1>6. LoopInv'
  BY DEF ProcInv, TypeOK, LoopInv
<1>7. OneThreadOneCpu'
  BY DEF ProcInv, TypeOK, OneThreadOneCpu, OnCpu
<1>8. ParentsAlive'
  BY DEF ProcInv, TypeOK, ParentsAlive
<1>9. QED BY <1>1, <1>2, <1>3, <1>4, <1>5, <1>6, <1>7, <1>8 DEF ProcInv

\* allocproc() in kfork(): the slot is USED and not yet anybody's child.
LEMMA ForkAllocKeeps ==
  ASSUME ProcInv, NEW p \in Slot, NEW np \in Slot, ForkAlloc(p, np)
  PROVE  ProcInv'
<1> USE DEF ForkAlloc, At
<1>1. TypeOK'
  BY DEF ProcInv, TypeOK, Label
<1>2. LockInv'
  BY DEF ProcInv, TypeOK, LockInv, OnCpu
<1>3. StateInv'
  BY DEF ProcInv, TypeOK, StateInv
<1>4. ReparentInv'
  BY DEF ProcInv, TypeOK, ReparentInv
<1>5. WaitInv'
  BY DEF ProcInv, TypeOK, LockInv, WaitInv
<1>6. LoopInv'
  BY DEF ProcInv, TypeOK, LoopInv
<1>7. OneThreadOneCpu'
  BY DEF ProcInv, TypeOK, OneThreadOneCpu, OnCpu
<1>8. ParentsAlive'
  BY DEF ProcInv, TypeOK, ParentsAlive
<1>9. QED BY <1>1, <1>2, <1>3, <1>4, <1>5, <1>6, <1>7, <1>8 DEF ProcInv

\* kfork() that gives its slot back: nobody points to it.
LEMMA ForkNoMemoryKeeps ==
  ASSUME ProcInv, NEW p \in Slot, NEW np \in Slot, ForkNoMemory(p, np)
  PROVE  ProcInv'
<1> USE DEF ForkNoMemory, At, Goto, Freeproc, ClearKilled
<1>1. TypeOK'
  BY DEF ProcInv, TypeOK, Label
<1>2. LockInv'
  BY DEF ProcInv, TypeOK, LockInv, OnCpu
<1>3. StateInv'
  BY DEF ProcInv, TypeOK, StateInv
<1>4. ReparentInv'
  BY DEF ProcInv, TypeOK, ReparentInv
<1>5. WaitInv'
  BY DEF ProcInv, TypeOK, WaitInv
<1>6. LoopInv'
  BY DEF ProcInv, TypeOK, LoopInv
<1>7. OneThreadOneCpu'
  BY DEF ProcInv, TypeOK, OneThreadOneCpu, OnCpu
<1>8. ParentsAlive'
  BY DEF ProcInv, TypeOK, ParentsAlive
<1>9. QED BY <1>1, <1>2, <1>3, <1>4, <1>5, <1>6, <1>7, <1>8 DEF ProcInv

\* kfork() without a slot.
LEMMA ForkNoSlotKeeps == ASSUME ProcInv, NEW p \in Slot, ForkNoSlot(p) PROVE ProcInv'
<1> USE DEF ForkNoSlot, At, Goto
<1>1. TypeOK'
  BY DEF ProcInv, TypeOK, Label
<1>2. LockInv'
  BY DEF ProcInv, TypeOK, LockInv, OnCpu
<1>3. StateInv'
  BY DEF ProcInv, TypeOK, StateInv
<1>4. ReparentInv'
  BY DEF ProcInv, TypeOK, ReparentInv
<1>5. WaitInv'
  BY DEF ProcInv, TypeOK, WaitInv
<1>6. LoopInv'
  BY DEF ProcInv, TypeOK, LoopInv
<1>7. OneThreadOneCpu'
  BY DEF ProcInv, TypeOK, OneThreadOneCpu, OnCpu
<1>8. ParentsAlive'
  BY DEF ProcInv, TypeOK, ParentsAlive
<1>9. QED BY <1>1, <1>2, <1>3, <1>4, <1>5, <1>6, <1>7, <1>8 DEF ProcInv

\* kfork() sets np->parent: the parent is running, and so is not a zombie,
\* and is not in reparent(), which holds wait_lock.
LEMMA ForkParentKeeps == ASSUME ProcInv, NEW p \in Slot, ForkParent(p) PROVE ProcInv'
<1> USE DEF ForkParent, At, Goto
<1>1. TypeOK'
  BY DEF ProcInv, TypeOK, Label
<1>2. LockInv'
  BY DEF ProcInv, TypeOK, LockInv, OnCpu
<1>3. StateInv'
  BY DEF ProcInv, TypeOK, StateInv
<1>4. ReparentInv'
  BY DEF ProcInv, TypeOK, ReparentInv
<1>5. WaitInv'
  BY DEF ProcInv, TypeOK, WaitInv
<1>6. LoopInv'
  BY DEF ProcInv, TypeOK, LoopInv
<1>7. OneThreadOneCpu'
  BY DEF ProcInv, TypeOK, OneThreadOneCpu, OnCpu
<1>8. ParentsAlive'
  BY DEF ProcInv, TypeOK, ParentsAlive
<1>9. QED BY <1>1, <1>2, <1>3, <1>4, <1>5, <1>6, <1>7, <1>8 DEF ProcInv

\* kfork() makes the child runnable: its parent is set by then.
LEMMA ForkRunKeeps == ASSUME ProcInv, NEW p \in Slot, ForkRun(p) PROVE ProcInv'
<1> USE DEF ForkRun, At, Goto
<1>1. TypeOK'
  BY DEF ProcInv, TypeOK, Label
<1>2. LockInv'
  BY DEF ProcInv, TypeOK, LockInv, StateInv, OnCpu
<1>3. StateInv'
  BY DEF ProcInv, TypeOK, StateInv
<1>4. ReparentInv'
  BY DEF ProcInv, TypeOK, ReparentInv
<1>5. WaitInv'
  BY DEF ProcInv, TypeOK, WaitInv
<1>6. LoopInv'
  BY DEF ProcInv, TypeOK, LoopInv
<1>7. OneThreadOneCpu'
  BY DEF ProcInv, TypeOK, StateInv, OneThreadOneCpu, OnCpu
<1>8. ParentsAlive'
  BY DEF ProcInv, TypeOK, StateInv, ParentsAlive
<1>9. QED BY <1>1, <1>2, <1>3, <1>4, <1>5, <1>6, <1>7, <1>8 DEF ProcInv

\* kexit() takes wait_lock; the loops of reparent() start from the first slot.
LEMMA ExitLockKeeps == ASSUME ProcInv, NEW p \in Slot, ExitLock(p) PROVE ProcInv'
<1> USE DEF ExitLock, At, Goto
<1>1. TypeOK'
  BY DEF ProcInv, TypeOK, Label
<1>2. LockInv'
  BY DEF ProcInv, TypeOK, LockInv, OnCpu
<1>3. StateInv'
  BY DEF ProcInv, TypeOK, StateInv
<1>4. ReparentInv'
  BY SlotOrder DEF ProcInv, TypeOK, LockInv, ReparentInv, LoopInv
<1>5. WaitInv'
  BY DEF ProcInv, TypeOK, WaitInv
<1>6. LoopInv'
  BY DEF ProcInv, TypeOK, LoopInv
<1>7. OneThreadOneCpu'
  BY DEF ProcInv, TypeOK, OneThreadOneCpu, OnCpu
<1>8. ParentsAlive'
  BY DEF ProcInv, TypeOK, ParentsAlive
<1>9. QED BY <1>1, <1>2, <1>3, <1>4, <1>5, <1>6, <1>7, <1>8 DEF ProcInv

\* A turn of reparent(): the slots behind it are no children of the process,
\* and one that goes over to init leaves a wakeup(initproc) to come.
LEMMA ReparentKeeps == ASSUME ProcInv, NEW p \in Slot, Reparent(p) PROVE ProcInv'
<1> USE DEF Reparent, At, Goto, NextSlot, IsChild
<1>1. TypeOK'
  BY NextIsSlot, SlotOrder DEF ProcInv, TypeOK, Label
<1>2. LockInv'
  BY DEF ProcInv, TypeOK, LockInv, OnCpu
<1>3. StateInv'
  <2>1. \A s \in Slot \ {p} : pc'[s] = pc[s]
    BY DEF ProcInv, TypeOK
  <2>2. pc'[p] \in {"reparent", "reparent_wake", "exit_wake"}
    BY DEF ProcInv, TypeOK
  <2>3. \A s \in Slot : parent'[s] = parent[s] \/ (s = scan /\ parent[s] = p)
    BY DEF ProcInv, TypeOK
  <2>4. UNCHANGED <<state, chan, newp>> /\ state[p] = "RUNNING" /\ pc[p] = "reparent"
    OBVIOUS
  <2> HIDE DEF Reparent, At, Goto, NextSlot, IsChild
  <2>5. QED BY <2>1, <2>2, <2>3, <2>4 DEF ProcInv, TypeOK, StateInv
<1>4. ReparentInv'
  <2>1. CASE IsChild(p)
    <3>1. pc' = [pc EXCEPT ![p] = "reparent_wake"] /\ scan' = scan /\ pc[p] = "reparent"
      BY <2>1
    <3>2. parent' = [parent EXCEPT ![scan] = InitProc]
      BY <2>1
    <3>3. pc[InitProc] \notin Exiting /\ InitProc # p
      BY <3>1 DEF ProcInv, LockInv
    <3>4. \A s \in Slot : s >= scan /\ s # scan => s > scan
      BY SlotOrder DEF ProcInv, TypeOK
    <3> HIDE DEF Reparent, At, Goto, NextSlot, IsChild
    <3>5. QED BY <3>1, <3>2, <3>3, <3>4 DEF ProcInv, TypeOK, ReparentInv
  <2>2. CASE ~ IsChild(p) /\ scan < NPROC
    BY SlotOrder, <2>2 DEF ProcInv, TypeOK, LockInv, ReparentInv
  <2>3. CASE ~ IsChild(p) /\ scan = NPROC
    BY SlotOrder, <2>3 DEF ProcInv, TypeOK, LockInv, ReparentInv
  <2>4. scan <= NPROC /\ scan \in Int /\ NPROC \in Int
    BY SlotOrder DEF ProcInv, TypeOK
  <2>5. QED BY <2>1, <2>2, <2>3, <2>4
<1>5. WaitInv'
  BY SlotOrder DEF ProcInv, TypeOK, LockInv, WaitInv, LoopInv
<1>6. LoopInv'
  BY DEF ProcInv, TypeOK, LockInv, LoopInv
<1>7. OneThreadOneCpu'
  BY DEF ProcInv, TypeOK, OneThreadOneCpu, OnCpu
<1>8. ParentsAlive'
  BY DEF ProcInv, TypeOK, StateInv, ParentsAlive
<1>9. QED BY <1>1, <1>2, <1>3, <1>4, <1>5, <1>6, <1>7, <1>8 DEF ProcInv

\* A turn of wakeup() in kexit(): the sleepers behind it have been woken.
LEMMA WakeupKeeps == ASSUME ProcInv, NEW p \in Slot, Wakeup(p) PROVE ProcInv'
<1> USE DEF Wakeup, At, Goto, NextSlot, WakeChan
<1>1. TypeOK'
  BY NextIsSlot, SlotOrder DEF ProcInv, TypeOK, Label
<1>2. LockInv'
  BY DEF ProcInv, TypeOK, LockInv, OnCpu
<1>3. StateInv'
  <2>1. OnlyWakes
    BY DEF ProcInv, TypeOK, OnlyWakes
  <2>2. \A s \in Slot \ {p} : pc'[s] = pc[s]
    BY DEF ProcInv, TypeOK
  <2>3. pc'[p] \in {"reparent", "reparent_wake", "exit_wake", "zombie"}
    BY DEF ProcInv, TypeOK
  <2>4. UNCHANGED <<parent, chan, newp>> /\ state[p] = "RUNNING"
    OBVIOUS
  <2>5. pc[p] \in {"reparent_wake", "exit_wake"}
    OBVIOUS
  <2> HIDE DEF Wakeup, At, Goto, NextSlot, WakeChan
  <2>6. QED BY <2>1, <2>2, <2>3, <2>4, <2>5 DEF ProcInv, TypeOK, OnlyWakes, StateInv
<1>4. ReparentInv'
  BY SlotOrder DEF ProcInv, TypeOK, LockInv, ReparentInv
<1>5. WaitInv'
  BY SlotOrder DEF ProcInv, TypeOK, LockInv, StateInv, WaitInv
<1>6. LoopInv'
  BY DEF ProcInv, TypeOK, LockInv, LoopInv
<1>7. OneThreadOneCpu'
  <2>1. OnlyWakes
    BY DEF ProcInv, TypeOK, OnlyWakes
  <2>2. UNCHANGED <<cpu, plock>>
    OBVIOUS
  <2> HIDE DEF Wakeup, At, Goto, NextSlot, WakeChan
  <2>3. QED BY <2>1, <2>2 DEF ProcInv, TypeOK, OnlyWakes, OneThreadOneCpu, OnCpu
<1>8. ParentsAlive'
  <2>1. OnlyWakes
    BY DEF ProcInv, TypeOK, OnlyWakes
  <2>2. UNCHANGED parent
    OBVIOUS
  <2> HIDE DEF Wakeup, At, Goto, NextSlot, WakeChan
  <2>3. QED BY <2>1, <2>2 DEF ProcInv, TypeOK, OnlyWakes, ParentsAlive
<1>9. QED BY <1>1, <1>2, <1>3, <1>4, <1>5, <1>6, <1>7, <1>8 DEF ProcInv

\* The end of kexit(): no child is left, and the parent does not sleep.
LEMMA BecomeZombieKeeps == ASSUME ProcInv, NEW p \in Slot, BecomeZombie(p) PROVE ProcInv'
<1> USE DEF BecomeZombie, At, Goto
<1>1. TypeOK'
  BY DEF ProcInv, TypeOK, Label
<1>2. LockInv'
  BY DEF ProcInv, TypeOK, LockInv, OnCpu
<1>3. StateInv'
  BY DEF ProcInv, TypeOK, LockInv, StateInv
<1>4. ReparentInv'
  BY DEF ProcInv, TypeOK, ReparentInv
<1>5. WaitInv'
  BY DEF ProcInv, TypeOK, LockInv, WaitInv
<1>6. LoopInv'
  BY DEF ProcInv, TypeOK, LoopInv
<1>7. OneThreadOneCpu'
  BY DEF ProcInv, TypeOK, OneThreadOneCpu, OnCpu
<1>8. ParentsAlive'
  BY DEF ProcInv, TypeOK, LockInv, StateInv, ReparentInv, ParentsAlive
<1>9. QED BY <1>1, <1>2, <1>3, <1>4, <1>5, <1>6, <1>7, <1>8 DEF ProcInv

\* kwait() takes wait_lock.
LEMMA WaitLockKeeps == ASSUME ProcInv, NEW p \in Slot, WaitLock(p) PROVE ProcInv'
<1> USE DEF WaitLock, At, Goto
<1>1. TypeOK'
  BY DEF ProcInv, TypeOK, Label
<1>2. LockInv'
  BY DEF ProcInv, TypeOK, LockInv, OnCpu
<1>3. StateInv'
  BY DEF ProcInv, TypeOK, StateInv
<1>4. ReparentInv'
  BY DEF ProcInv, TypeOK, ReparentInv
<1>5. WaitInv'
  BY SlotOrder DEF ProcInv, TypeOK, LockInv, WaitInv, LoopInv
<1>6. LoopInv'
  BY DEF ProcInv, TypeOK, LoopInv
<1>7. OneThreadOneCpu'
  BY DEF ProcInv, TypeOK, OneThreadOneCpu, OnCpu
<1>8. ParentsAlive'
  BY DEF ProcInv, TypeOK, ParentsAlive
<1>9. QED BY <1>1, <1>2, <1>3, <1>4, <1>5, <1>6, <1>7, <1>8 DEF ProcInv

\* kwait() frees a zombie: no CPU is on its stack, and it has no children.
LEMMA WaitReapKeeps == ASSUME ProcInv, NEW p \in Slot, WaitReap(p) PROVE ProcInv'
<1> USE DEF WaitReap, At, Goto, Freeproc, ClearKilled, WaitReturn, ChildLockFree
<1>1. TypeOK'
  <2>1. CASE Freeproc(scan)
    BY <2>1 DEF ProcInv, TypeOK, Label
  <2>2. CASE UNCHANGED <<table, named>>
    BY <2>2 DEF ProcInv, TypeOK, Label
  <2>3. QED BY <2>1, <2>2
<1>2. LockInv'
  BY DEF ProcInv, TypeOK, LockInv, OnCpu
<1>3. StateInv'
  <2>1. CASE Freeproc(scan)
    BY <2>1 DEF ProcInv, TypeOK, StateInv
  <2>2. CASE UNCHANGED <<table, named>>
    BY <2>2 DEF ProcInv, TypeOK, StateInv
  <2>3. QED BY <2>1, <2>2
<1>4. ReparentInv'
  BY DEF ProcInv, TypeOK, LockInv, ReparentInv
<1>5. WaitInv'
  BY DEF ProcInv, TypeOK, LockInv, WaitInv
<1>6. LoopInv'
  BY DEF ProcInv, TypeOK, LoopInv
<1>7. OneThreadOneCpu'
  <2>1. CASE Freeproc(scan)
    BY <2>1 DEF ProcInv, TypeOK, OneThreadOneCpu, OnCpu
  <2>2. CASE UNCHANGED <<table, named>>
    BY <2>2 DEF ProcInv, TypeOK, OneThreadOneCpu, OnCpu
  <2>3. QED BY <2>1, <2>2
<1>8. ParentsAlive'
  <2>1. CASE Freeproc(scan)
    BY <2>1 DEF ProcInv, TypeOK, ParentsAlive
  <2>2. CASE UNCHANGED <<table, named>>
    BY <2>2 DEF ProcInv, TypeOK, ParentsAlive
  <2>3. QED BY <2>1, <2>2
<1>9. QED BY <1>1, <1>2, <1>3, <1>4, <1>5, <1>6, <1>7, <1>8 DEF ProcInv

\* A turn of kwait()'s loop: what lies behind it is no zombie child.
LEMMA WaitScanKeeps == ASSUME ProcInv, NEW p \in Slot, WaitScan(p) PROVE ProcInv'
<1> USE DEF WaitScan, At, Goto, NextChild, ChildLockFree
<1>1. TypeOK'
  BY NextIsSlot, SlotOrder DEF ProcInv, TypeOK, Label
<1>2. LockInv'
  BY DEF ProcInv, TypeOK, LockInv, OnCpu
<1>3. StateInv'
  BY DEF ProcInv, TypeOK, StateInv
<1>4. ReparentInv'
  BY DEF ProcInv, TypeOK, LockInv, ReparentInv
<1>5. WaitInv'
  <2>1. \A s \in Slot \ {p} : pc[s] \notin Waiting \cup Exiting
    BY DEF ProcInv, LockInv
  <2>2. scan \in Slot /\ scan \in Int /\ scan <= NPROC /\ NPROC \in Int
    BY SlotOrder DEF ProcInv, TypeOK
  <2>3. pc[p] = "wait_scan" /\ UNCHANGED <<state, parent, wk>>
    OBVIOUS
  <2>4. parent[scan] = p => state[scan] # "ZOMBIE"
    OBVIOUS
  <2>5. CASE scan < NPROC
    <3>1. scan' = scan + 1 /\ pc' = pc
      BY <2>5
    <3>2. \A s \in Slot : s < scan + 1 => s < scan \/ s = scan
      BY <2>2, SlotOrder
    <3> HIDE DEF WaitScan, At, Goto, NextChild, ChildLockFree
    <3>3. QED BY <2>1, <2>3, <2>4, <3>1, <3>2 DEF ProcInv, TypeOK, WaitInv
  <2>6. CASE scan = NPROC
    <3>1. scan' = 1 /\ pc' = [pc EXCEPT ![p] = "wait_check"]
      BY <2>2, <2>6
    <3>2. \A s \in Slot : s < scan \/ s = scan
      BY <2>2, <2>6, SlotOrder
    <3> HIDE DEF WaitScan, At, Goto, NextChild, ChildLockFree
    <3>3. QED BY <2>1, <2>3, <2>4, <3>1, <3>2 DEF ProcInv, TypeOK, WaitInv
  <2>7. QED BY <2>2, <2>5, <2>6
<1>6. LoopInv'
  BY DEF ProcInv, TypeOK, LockInv, LoopInv
<1>7. OneThreadOneCpu'
  BY DEF ProcInv, TypeOK, OneThreadOneCpu, OnCpu
<1>8. ParentsAlive'
  BY DEF ProcInv, TypeOK, ParentsAlive
<1>9. QED BY <1>1, <1>2, <1>3, <1>4, <1>5, <1>6, <1>7, <1>8 DEF ProcInv

\* kwait() gives up, or goes to sleep knowing that no child is a zombie.
LEMMA WaitCheckKeeps == ASSUME ProcInv, NEW p \in Slot, WaitCheck(p) PROVE ProcInv'
<1> USE DEF WaitCheck, At, Goto, WaitReturn
<1>1. TypeOK'
  <2>1. CASE WaitReturn(p)
    BY <2>1 DEF ProcInv, TypeOK, Label
  <2>2. CASE Goto(p, "sleep1") /\ havekids' = 0 /\ UNCHANGED <<wait_lock, scan>>
    BY <2>2 DEF ProcInv, TypeOK, Label
  <2>3. QED BY <2>1, <2>2
<1>2. LockInv'
  BY DEF ProcInv, TypeOK, LockInv, OnCpu
<1>3. StateInv'
  BY DEF ProcInv, TypeOK, StateInv
<1>4. ReparentInv'
  BY DEF ProcInv, TypeOK, LockInv, ReparentInv
<1>5. WaitInv'
  BY DEF ProcInv, TypeOK, LockInv, WaitInv
<1>6. LoopInv'
  BY DEF ProcInv, TypeOK, LoopInv
<1>7. OneThreadOneCpu'
  BY DEF ProcInv, TypeOK, OneThreadOneCpu, OnCpu
<1>8. ParentsAlive'
  BY DEF ProcInv, TypeOK, ParentsAlive
<1>9. QED BY <1>1, <1>2, <1>3, <1>4, <1>5, <1>6, <1>7, <1>8 DEF ProcInv

\* sleep() takes p->lock while it still has wait_lock.
LEMMA SleepLockKeeps == ASSUME ProcInv, NEW p \in Slot, SleepLock(p) PROVE ProcInv'
<1> USE DEF SleepLock, At, Goto, AcquireFirst
<1>1. TypeOK'
  BY DEF ProcInv, TypeOK, Label
<1>2. LockInv'
  BY DEF ProcInv, TypeOK, LockInv, OnCpu
<1>3. StateInv'
  BY DEF ProcInv, TypeOK, StateInv
<1>4. ReparentInv'
  BY DEF ProcInv, TypeOK, ReparentInv
<1>5. WaitInv'
  BY DEF ProcInv, TypeOK, WaitInv
<1>6. LoopInv'
  BY DEF ProcInv, TypeOK, LoopInv
<1>7. OneThreadOneCpu'
  BY DEF ProcInv, TypeOK, OneThreadOneCpu, OnCpu
<1>8. ParentsAlive'
  BY DEF ProcInv, TypeOK, ParentsAlive
<1>9. QED BY <1>1, <1>2, <1>3, <1>4, <1>5, <1>6, <1>7, <1>8 DEF ProcInv

\* sleep() gives up wait_lock and sleeps in one critical section of p->lock.
LEMMA SleepKeeps == ASSUME ProcInv, NEW p \in Slot, Sleep(p) PROVE ProcInv'
<1> USE DEF Sleep, Goto
<1>1. TypeOK'
  BY DEF ProcInv, TypeOK, Label
<1>2. LockInv'
  BY DEF ProcInv, TypeOK, LockInv, OnCpu
<1>3. StateInv'
  BY DEF ProcInv, TypeOK, StateInv
<1>4. ReparentInv'
  BY DEF ProcInv, TypeOK, ReparentInv
<1>5. WaitInv'
  BY DEF ProcInv, TypeOK, LockInv, WaitInv
<1>6. LoopInv'
  BY DEF ProcInv, TypeOK, LoopInv
<1>7. OneThreadOneCpu'
  BY DEF ProcInv, TypeOK, LockInv, OneThreadOneCpu, OnCpu
<1>8. ParentsAlive'
  BY DEF ProcInv, TypeOK, StateInv, ParentsAlive
<1>9. QED BY <1>1, <1>2, <1>3, <1>4, <1>5, <1>6, <1>7, <1>8 DEF ProcInv

\* kkill() wakes a sleeper; it changes no state otherwise.
LEMMA KillKeeps ==
  ASSUME ProcInv, NEW p \in Slot, NEW n \in KillPids, Kill(p, n)
  PROVE  ProcInv'
<1> USE DEF Kill, At, Goto, WakeVictim
<1>1. TypeOK'
  <2>1. pc' \in [Slot -> Label]
    BY DEF ProcInv, TypeOK, Label
  <2>2. CASE UNCHANGED <<killed, state, named>>
    BY <2>1, <2>2 DEF ProcInv, TypeOK, Label
  <2>3. CASE ~ UNCHANGED <<killed, state, named>>
    <3>1. PICK v \in Slot : /\ killed' = [killed EXCEPT ![v] = 1]
                            /\ state' = [state EXCEPT ![v] = WakeVictim(v)]
                            /\ named' = named \cup {v}
      BY <2>3
    <3>2. WakeVictim(v) \in {"UNUSED", "USED", "SLEEPING", "RUNNABLE", "RUNNING", "ZOMBIE"}
      BY DEF ProcInv, TypeOK, Label
    <3>3. QED BY <2>1, <3>1, <3>2 DEF ProcInv, TypeOK, Label
  <2>4. QED BY <2>2, <2>3
<1>2. LockInv'
  BY DEF ProcInv, TypeOK, LockInv, OnCpu
<1>3. StateInv'
  <2>1. OnlyWakes
    BY DEF ProcInv, TypeOK, OnlyWakes
  <2>2. pc' = [pc EXCEPT ![p] = "ret"] /\ pc[p] = "kill" /\ state[p] = "RUNNING"
    OBVIOUS
  <2>3. UNCHANGED <<parent, chan, newp>>
    OBVIOUS
  <2> HIDE DEF Kill, At, Goto, WakeVictim
  <2>4. QED BY <2>1, <2>2, <2>3 DEF ProcInv, TypeOK, OnlyWakes, StateInv
<1>4. ReparentInv'
  BY DEF ProcInv, TypeOK, ReparentInv
<1>5. WaitInv'
  BY DEF ProcInv, TypeOK, WaitInv
<1>6. LoopInv'
  BY DEF ProcInv, TypeOK, LoopInv
<1>7. OneThreadOneCpu'
  <2>1. OnlyWakes
    BY DEF ProcInv, TypeOK, OnlyWakes
  <2>2. UNCHANGED <<cpu, plock>>
    OBVIOUS
  <2> HIDE DEF Kill, At, Goto, WakeVictim
  <2>3. QED BY <2>1, <2>2 DEF ProcInv, TypeOK, OnlyWakes, OneThreadOneCpu, OnCpu
<1>8. ParentsAlive'
  <2>1. OnlyWakes
    BY DEF ProcInv, TypeOK, OnlyWakes
  <2>2. UNCHANGED parent
    OBVIOUS
  <2> HIDE DEF Kill, At, Goto, WakeVictim
  <2>3. QED BY <2>1, <2>2 DEF ProcInv, TypeOK, OnlyWakes, ParentsAlive
<1>9. QED BY <1>1, <1>2, <1>3, <1>4, <1>5, <1>6, <1>7, <1>8 DEF ProcInv

\* The table that userinit() leaves satisfies the invariant.
LEMMA InitInv == Init => ProcInv
<1> SUFFICES ASSUME Init PROVE ProcInv
  OBVIOUS
<1> USE DEF Init
<1>1. TypeOK
  BY ProcAssumption DEF TypeOK, Label
<1>2. LockInv /\ StateInv
  BY DEF LockInv, StateInv, OnCpu
<1>3. ReparentInv /\ WaitInv /\ LoopInv
  BY DEF ReparentInv, WaitInv, LoopInv
<1>4. OneThreadOneCpu /\ ParentsAlive
  BY DEF OneThreadOneCpu, ParentsAlive, OnCpu
<1>5. QED BY <1>1, <1>2, <1>3, <1>4 DEF ProcInv

\* So does any state that differs from one that does in none of the variables.
LEMMA StutterKeeps == ASSUME ProcInv, UNCHANGED vars PROVE ProcInv'
<1> USE DEF vars, ProcInv
<1>1. TypeOK'
  BY DEF TypeOK
<1>2. LockInv' /\ StateInv'
  BY DEF LockInv, StateInv, OnCpu
<1>3. ReparentInv' /\ WaitInv' /\ LoopInv'
  BY DEF ReparentInv, WaitInv, LoopInv
<1>4. OneThreadOneCpu' /\ ParentsAlive'
  BY DEF OneThreadOneCpu, ParentsAlive, OnCpu
<1>5. QED BY <1>1, <1>2, <1>3, <1>4

\* Every step of a thread: traps, fork, exit, wait and kill.
LEMMA StepKeeps == ASSUME ProcInv, NEW p \in Slot, Step(p) PROVE ProcInv'
<1>1. CASE Resume(p) \/ Yield(p) \/ Trap(p) \/ Fault(p) \/ UserRet(p)
  BY <1>1, ResumeKeeps, YieldKeeps, TrapKeeps, FaultKeeps, UserRetKeeps
<1>2. CASE Fork(p)
  BY <1>2, ForkAllocKeeps, ForkNoMemoryKeeps, ForkNoSlotKeeps, ForkParentKeeps, ForkRunKeeps
  DEF Fork
<1>3. CASE Exit(p)
  BY <1>3, ExitLockKeeps, ReparentKeeps, WakeupKeeps, BecomeZombieKeeps DEF Exit
<1>4. CASE Wait(p)
  BY <1>4, WaitLockKeeps, WaitReapKeeps, WaitScanKeeps, WaitCheckKeeps, SleepLockKeeps,
       SleepKeeps
  DEF Wait
<1>5. CASE \E n \in KillPids : Kill(p, n)
  BY <1>5, KillKeeps
<1>6. QED BY <1>1, <1>2, <1>3, <1>4, <1>5 DEF Step

\* The locking of proc.c keeps the table consistent at every step: every
\* conjunct of ProcInv, from the holders of locks to the sleepers in wait().
THEOREM ProcInvHolds == Spec => []ProcInv
<1>1. ProcInv /\ [Next]_vars => ProcInv'
  <2> SUFFICES ASSUME ProcInv, [Next]_vars PROVE ProcInv'
    OBVIOUS
  <2>1. CASE UNCHANGED vars
    BY <2>1, StutterKeeps
  <2>2. CASE \E c \in Cpu : SwitchOut(c)
    BY <2>2, SwitchOutKeeps
  <2>3. CASE \E c \in Cpu, p \in Slot : Dispatch(c, p)
    BY <2>3, DispatchKeeps
  <2>4. CASE \E p \in Slot : Step(p)
    BY <2>4, StepKeeps
  <2>5. QED BY <2>1, <2>2, <2>3, <2>4 DEF Next
<1>2. QED BY <1>1, InitInv, PTL DEF Spec

\* sleep() and wakeup() lose no wakeup of a parent in kwait(): a sleeping
\* parent of a zombie is one that reparent() is about to wake, under wait_lock.
THEOREM NoWaitIsLost == Spec => []NoLostWait
<1>1. ProcInv => NoLostWait
  BY DEF ProcInv, TypeOK, LockInv, WaitInv, NoLostWait
<1>2. QED BY <1>1, ProcInvHolds, PTL

\* Pids are handed out once, a free slot has none and is not marked killed, and
\* the mark of a process is there because kkill() or a fault put it there.
PidInv ==
  /\ \A s \in Slot :
       /\ pid[s] < nextpid
       /\ state[s] = "UNUSED" => pid[s] = 0 /\ killed[s] = 0
       /\ killed[s] = 1 => s \in named
  /\ \A s, t \in Slot : pid[s] = pid[t] /\ pid[s] # 0 => s = t

\* PidInv is inductive over the types, if no program passes kill() the pid 0
\* of a free slot: freeproc() clears p->killed, and allocproc() does not.
LEMMA PidInvNext ==
  ASSUME 0 \notin KillPids, TypeOK, PidInv, [Next]_vars
  PROVE  PidInv'
<1> USE DEF PidInv, TypeOK
<1>1. CASE UNCHANGED vars
  BY <1>1 DEF vars
<1>2. CASE \E c \in Cpu : SwitchOut(c)
  BY <1>2 DEF SwitchOut
<1>3. CASE \E c \in Cpu, p \in Slot : Dispatch(c, p)
  BY <1>3 DEF Dispatch
<1>4. ASSUME NEW p \in Slot, Step(p) PROVE PidInv'
  <2>1. CASE Resume(p)
    BY <1>4, <2>1 DEF Resume
  <2>2. CASE Yield(p)
    BY <1>4, <2>2 DEF Yield, At
  <2>3. CASE Trap(p)
    BY <1>4, <2>3 DEF Trap, At, Goto
  <2>4. CASE Fault(p)
    BY <1>4, <2>4 DEF Fault, At, Goto
  <2>5. CASE UserRet(p)
    BY <1>4, <2>5 DEF UserRet, At, Goto
  <2>6. CASE \E np \in Slot : ForkAlloc(p, np)
    BY <1>4, <2>6 DEF ForkAlloc, At
  <2>7. CASE \E np \in Slot : ForkNoMemory(p, np)
    BY <1>4, <2>7 DEF ForkNoMemory, At, Goto, Freeproc, ClearKilled
  <2>8. CASE ForkNoSlot(p)
    BY <1>4, <2>8 DEF ForkNoSlot, At, Goto
  <2>9. CASE ForkParent(p)
    BY <1>4, <2>9 DEF ForkParent, At, Goto
  <2>10. CASE ForkRun(p)
    BY <1>4, <2>10 DEF ForkRun, At, Goto
  <2>11. CASE ExitLock(p)
    BY <1>4, <2>11 DEF ExitLock, At, Goto
  <2>12. CASE Reparent(p)
    BY <1>4, <2>12 DEF Reparent, At, Goto, NextSlot, IsChild
  <2>13. CASE Wakeup(p)
    BY <1>4, <2>13 DEF Wakeup, At, Goto, NextSlot, WakeChan
  <2>14. CASE BecomeZombie(p)
    BY <1>4, <2>14 DEF BecomeZombie, At, Goto
  <2>15. CASE WaitLock(p)
    BY <1>4, <2>15 DEF WaitLock, At, Goto
  <2>16. CASE WaitReap(p)
    BY <1>4, <2>16 DEF WaitReap, At, Goto, Freeproc, ClearKilled, WaitReturn, ChildLockFree
  <2>17. CASE WaitScan(p)
    BY <1>4, <2>17 DEF WaitScan, At, Goto, NextChild, ChildLockFree
  <2>18. CASE WaitCheck(p)
    BY <1>4, <2>18 DEF WaitCheck, At, Goto, WaitReturn
  <2>19. CASE SleepLock(p)
    BY <1>4, <2>19 DEF SleepLock, At, Goto, AcquireFirst
  <2>20. CASE Sleep(p)
    BY <1>4, <2>20 DEF Sleep, Goto
  <2>21. CASE \E n \in KillPids : Kill(p, n)
    BY <1>4, <2>21 DEF Kill, At, Goto, WakeVictim
  <2> HIDE DEF PidInv, TypeOK
  <2>22. QED BY <1>4, <2>1, <2>2, <2>3, <2>4, <2>5, <2>6, <2>7, <2>8, <2>9, <2>10,
              <2>11, <2>12, <2>13, <2>14, <2>15, <2>16, <2>17, <2>18, <2>19, <2>20, <2>21
   DEF Step, Fork, Exit, Wait
<1> HIDE DEF PidInv, TypeOK
<1>5. QED BY <1>1, <1>2, <1>3, <1>4 DEF Next

\* A process dies by a kill only if kkill() was given its pid, or if it
\* faulted: the mark never passes from one user of a slot to the next.
THEOREM OnlyVictimsAreKilled == 0 \notin KillPids => (Spec => []KillNamesVictim)
<1> SUFFICES ASSUME 0 \notin KillPids PROVE Spec => []KillNamesVictim
  OBVIOUS
<1>1. Init => PidInv
  BY DEF Init, PidInv
<1>2. TypeOK /\ PidInv /\ [Next]_vars => PidInv'
  BY PidInvNext
<1>3. ProcInv => TypeOK
  BY DEF ProcInv
<1>4. PidInv => KillNamesVictim
  BY DEF PidInv, KillNamesVictim
<1>5. QED BY <1>1, <1>2, <1>3, <1>4, ProcInvHolds, PTL DEF Spec
=============================================================================

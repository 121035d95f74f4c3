----------------------------- MODULE LogProofs -----------------------------
(***************************************************************************)
(* Proofs about Log, for every set of processes, blocks and contents and   *)
(* every size of the log: its reservations keep it away from its panics,   *)
(* and it implements AtomicDisk, so that operations are atomic across      *)
(* crashes.                                                                *)
(***************************************************************************)
EXTENDS Log, FiniteSetTheorems, TLAPS

USE DEF InOp, InCommit, Label

\* Seconds that a prover may take over one leaf.
USE SMTT(20), ZenonT(40)

(***************************************************************************)
(* Types.  TypeOK is inductive together with HeldInv, which says that      *)
(* log_write() is given a buffer.                                          *)
(***************************************************************************)
(***************************************************************************)
(* TypeOK in pieces: a leaf cites the ones it needs.                       *)
(***************************************************************************)
LEMMA TypePc == TypeOK => pc \in [Proc -> Label]
BY DEF TypeOK

LEMMA TypeLh ==
  TypeOK => /\ lh \in Seq(Block) /\ Len(lh) \in Nat /\ DOMAIN lh = 1 .. Len(lh)
            /\ tail \in Nat /\ \A i \in DOMAIN lh : lh[i] \in Block
BY LogAssumption DEF TypeOK

LEMMA TypeSlots ==
  TypeOK => logdata \in [1 .. LOGBLOCKS -> Data] /\ \A i \in DOMAIN lh : i \in 1 .. LOGBLOCKS
BY LogAssumption DEF TypeOK

LEMMA TypeHeader ==
  TypeOK => header \in Seq(Block) /\ Len(header) \in Nat /\ DOMAIN header = 1 .. Len(header)
BY DEF TypeOK

LEMMA TypeBlocks ==
  TypeOK => disk \in [Block -> Data] /\ cache \in [Block -> Data] /\ pin \in [Block -> Int]
BY DEF TypeOK

LEMMA TypeHeld ==
  TypeOK => held \in [Proc -> Block \cup {NoBlock}] /\ written \in [Proc -> SUBSET Block]
BY DEF TypeOK

LEMMA TypeCounts == TypeOK => outstanding \in Int /\ committing \in {0, 1}
BY DEF TypeOK

LEMMA TailInRange ==
  ASSUME TypeOK, tail < Len(lh)
  PROVE /\ tail + 1 \in DOMAIN lh /\ tail + 1 \in 1 .. LOGBLOCKS
        /\ lh[tail + 1] \in Block /\ logdata[tail + 1] \in Data
BY LogAssumption DEF TypeOK

LEMMA BeginOpType == ASSUME TypeOK, NEW p \in Proc, BeginOp(p) PROVE TypeOK'
<1> USE DEF TypeOK, BeginOp, Goto
<1>1. written' \in [Proc -> SUBSET Block]
  BY Zenon
<1>2. pc' \in [Proc -> Label]
  BY Zenon
<1>3. outstanding' \in Int
  OBVIOUS
<1>4. UNCHANGED <<persistent, cache, pin, lh, committing, held, tail, boot, panic>>
  OBVIOUS
<1> HIDE DEF BeginOp
<1>5. QED
  BY <1>1, <1>2, <1>3, <1>4 DEF persistent

LEMMA LogWriteType ==
  ASSUME TypeOK, HeldInv, NEW p \in Proc, LogWrite(p) PROVE TypeOK'
<1> USE DEF TypeOK, LogWrite, Goto
<1>1. held[p] \in Block /\ pc[p] = "log_write"
  BY DEF HeldInv
<1>2. written' \in [Proc -> SUBSET Block]
  BY <1>1
<1>3. pc' \in [Proc -> Label]
  BY <1>1
<1>4. held' \in [Proc -> Block \cup {NoBlock}]
  BY <1>1
<1>5. pin' \in [Block -> Int]
  BY <1>1 DEF Bpin
<1>6. lh' \in Seq(Block) /\ Len(lh') <= LOGBLOCKS
  <2>1. \/ lh' = lh
        \/ lh' = Append(lh, held[p]) /\ Len(lh) < LOGBLOCKS
    BY <1>1
  <2> HIDE DEF LogWrite
  <2>2. CASE lh' = lh
    BY <2>2
  <2>3. CASE lh' = Append(lh, held[p]) /\ Len(lh) < LOGBLOCKS
    BY <1>1, <2>3, LogAssumption
  <2>4. QED
    BY <2>1, <2>2, <2>3
<1>7. panic' \in {"none", "too_big", "outside_trans", "committing"}
  BY <1>1
<1>8. UNCHANGED <<persistent, cache, outstanding, committing, tail, boot>>
  OBVIOUS
<1> HIDE DEF LogWrite
<1>9. QED
  BY <1>2, <1>3, <1>4, <1>5, <1>6, <1>7, <1>8 DEF persistent

LEMMA EndOpType == ASSUME TypeOK, NEW p \in Proc, EndOp(p) PROVE TypeOK'
<1> USE DEF TypeOK, EndOp
<1>1. pc' \in [Proc -> Label]
  BY DEF FirstCommitStep, Goto, WakeupAndGoto
<1>2. outstanding' \in Int
  OBVIOUS
<1>3. tail' \in 0 .. LOGBLOCKS
  BY LogAssumption
<1>4. committing' \in {0, 1} /\ panic' \in {"none", "too_big", "outside_trans", "committing"}
  OBVIOUS
<1>5. UNCHANGED <<persistent, cache, pin, lh, held, written, boot>>
  OBVIOUS
<1> HIDE DEF EndOp
<1>6. QED
  BY <1>1, <1>2, <1>3, <1>4, <1>5 DEF persistent

LEMMA WriteLogType == ASSUME TypeOK, NEW p \in Proc, WriteLog(p) PROVE TypeOK'
<1> USE DEF TypeOK, WriteLog
<1>1. tail + 1 \in 1 .. LOGBLOCKS /\ lh[tail + 1] \in Block
  BY TailInRange
<1>2. logdata' \in [1 .. LOGBLOCKS -> Data]
  BY <1>1
<1>3. pc' \in [Proc -> Label]
  BY Zenon DEF Goto
<1>4. tail' \in 0 .. LOGBLOCKS
  BY LogAssumption
<1>5. UNCHANGED <<disk, header, cache, pin, memory, held, written, boot, panic>>
  OBVIOUS
<1> HIDE DEF WriteLog
<1>6. QED
  BY <1>2, <1>3, <1>4, <1>5 DEF memory

LEMMA InstallType == ASSUME TypeOK, NEW p \in Proc, Install(p) PROVE TypeOK'
<1> USE DEF TypeOK, Install
<1>1. lh[tail + 1] \in Block /\ logdata[tail + 1] \in Data
  BY TailInRange
<1>2. pin' \in [Block -> Int]
  BY <1>1 DEF Bunpin
<1>3. cache' \in [Block -> Data] /\ disk' \in [Block -> Data]
  BY <1>1
<1>4. pc' \in [Proc -> Label]
  BY Zenon DEF Goto
<1>5. tail' \in 0 .. LOGBLOCKS
  BY LogAssumption
<1>6. UNCHANGED <<logdata, header, memory, held, written, boot, panic>>
  OBVIOUS
<1> HIDE DEF Install
<1>7. QED
  BY <1>2, <1>3, <1>4, <1>5, <1>6 DEF memory

LEMMA RecoverInstallType == ASSUME TypeOK, RecoverInstall PROVE TypeOK'
<1> USE DEF TypeOK, RecoverInstall
<1>1. lh[tail + 1] \in Block /\ logdata[tail + 1] \in Data
  BY TailInRange
<1>2. cache' \in [Block -> Data] /\ disk' \in [Block -> Data]
  BY <1>1
<1>3. tail' \in 0 .. LOGBLOCKS
  BY LogAssumption
<1>4. boot' \in {"install", "clear"}
  OBVIOUS
<1>5. UNCHANGED <<logdata, header, pin, memory, pc, held, written, panic>>
  OBVIOUS
<1> HIDE DEF RecoverInstall
<1>6. QED
  BY <1>2, <1>3, <1>4, <1>5 DEF memory

LEMMA TypeNext == TypeOK /\ HeldInv /\ [Next]_vars => TypeOK'
<1> SUFFICES ASSUME TypeOK, HeldInv, [Next]_vars PROVE TypeOK'
  OBVIOUS
<1> USE DEF TypeOK, persistent, memory, Goto
<1>1. ASSUME NEW p \in Proc, NEW b \in Block, NEW v \in Data, Modify(p, b, v)
      PROVE TypeOK'
  BY <1>1 DEF Modify
<1>2. ASSUME NEW p \in Proc, WriteHead(p) PROVE TypeOK'
  BY <1>2 DEF WriteHead
<1>3. ASSUME NEW p \in Proc, ClearHead(p) PROVE TypeOK'
  BY <1>3, LogAssumption DEF ClearHead
<1>4. ASSUME NEW p \in Proc, Finish(p) PROVE TypeOK'
  BY <1>4 DEF Finish, WakeBeginners, WakeupAndGoto
<1>5. ASSUME NEW b \in Block, Evict(b) PROVE TypeOK'
  BY <1>5 DEF Evict
<1>6. CASE RecoverReadHead
  BY <1>6 DEF RecoverReadHead
<1>7. CASE RecoverClear
  BY <1>7, LogAssumption DEF RecoverClear
<1>8. CASE Crash
  BY <1>8, LogAssumption DEF Crash
<1>9. CASE UNCHANGED vars
  BY <1>9 DEF vars
<1> HIDE DEF TypeOK
<1>10. QED
  BY <1>1, <1>2, <1>3, <1>4, <1>5, <1>6, <1>7, <1>8, <1>9, BeginOpType,
     LogWriteType, EndOpType, WriteLogType, InstallType, RecoverInstallType
     DEF Next, Commit, Recover

LEMMA HeldNext == TypeOK /\ HeldInv /\ [Next]_vars => HeldInv'
<1> SUFFICES ASSUME TypeOK, HeldInv, [Next]_vars PROVE HeldInv'
  OBVIOUS
<1> USE LogAssumption, TypePc, TypeHeld DEF HeldInv, Goto
<1>1. ASSUME NEW p \in Proc, BeginOp(p) PROVE HeldInv'
  BY <1>1 DEF BeginOp
<1>2. ASSUME NEW p \in Proc, NEW b \in Block, NEW v \in Data, Modify(p, b, v)
      PROVE HeldInv'
  BY <1>2 DEF Modify
<1>3. ASSUME NEW p \in Proc, LogWrite(p) PROVE HeldInv'
  <2>1. \/ UNCHANGED <<pc, held>>
        \/ /\ pc' = [pc EXCEPT ![p] = "op"]
           /\ held' = [held EXCEPT ![p] = NoBlock]
    BY <1>3 DEF LogWrite
  <2>2. QED
    BY <2>1, Zenon
<1>4. ASSUME NEW p \in Proc, EndOp(p) PROVE HeldInv'
  BY <1>4, ZenonT(40) DEF EndOp, FirstCommitStep, WakeupAndGoto
<1>5. ASSUME NEW p \in Proc, Commit(p) PROVE HeldInv'
  BY <1>5 DEF Commit, WriteLog, WriteHead, Install, ClearHead, Finish,
              WakeBeginners, WakeupAndGoto
<1>6. ASSUME NEW b \in Block, Evict(b) PROVE HeldInv'
  BY <1>6 DEF Evict
<1>7. CASE Recover
  BY <1>7 DEF Recover, RecoverReadHead, RecoverInstall, RecoverClear
<1>8. CASE Crash
  BY <1>8 DEF Crash
<1>9. CASE UNCHANGED vars
  BY <1>9 DEF vars
<1>10. QED
  BY <1>1, <1>2, <1>3, <1>4, <1>5, <1>6, <1>7, <1>8, <1>9 DEF Next

\* The type invariant of log.c's state and of the disk under it.
THEOREM TypeCorrect == Spec => [](TypeOK /\ HeldInv)
<1>1. Init => TypeOK /\ HeldInv
  BY LogAssumption DEF Init, TypeOK, HeldInv
<1>2. TypeOK /\ HeldInv /\ [Next]_vars => (TypeOK /\ HeldInv)'
  BY TypeNext, HeldNext
<1>3. QED
  BY <1>1, <1>2, PTL DEF Spec

(***************************************************************************)
(* log.outstanding and log.committing.                                     *)
(***************************************************************************)
LEMMA CountNext ==
  TypeOK /\ BootInv /\ CountInv /\ [Next]_vars => CountInv'
<1> SUFFICES ASSUME TypeOK, BootInv, CountInv, [Next]_vars PROVE CountInv'
  OBVIOUS
<1> USE LogAssumption DEF CountInv, Goto
<1>0. IsFiniteSet(Ops) /\ Cardinality(Ops) \in Nat
  BY FS_Subset, FS_CardinalityType DEF Ops
<1>1. ASSUME NEW p \in Proc, BeginOp(p), boot = "up" PROVE CountInv'
  <2>1. CASE pc'[p] = "asleep"
    <3>1. Ops' = Ops /\ Committers' = Committers
      BY <1>1, <2>1, TypePc DEF Ops, Committers, BeginOp
    <3>2. QED
      BY <1>1, <2>1, <3>1, TypePc DEF BeginOp
  <2>2. CASE pc'[p] = "op"
    <3>1. Ops' = Ops \cup {p} /\ p \notin Ops /\ Committers' = Committers
      BY <1>1, <2>2, TypePc DEF Ops, Committers, BeginOp
    <3>2. Cardinality(Ops') = Cardinality(Ops) + 1
      BY <1>0, <3>1, FS_AddElement, Zenon
    <3>3. committing = 0 /\ committing' = 0 /\ outstanding' = outstanding + 1
      BY <1>1, <2>2, TypePc, TypeCounts DEF BeginOp, MustWait
    <3>4. QED
      BY <1>1, <3>1, <3>2, <3>3 DEF BeginOp
  <2>3. QED
    BY <1>1, <2>1, <2>2, TypePc DEF BeginOp
<1>2. ASSUME NEW p \in Proc, NEW b \in Block, NEW v \in Data, Modify(p, b, v), boot = "up"
      PROVE CountInv'
  <2>1. Ops' = Ops /\ Committers' = Committers
    BY <1>2, TypePc DEF Ops, Committers, Modify
  <2>2. QED
    BY <1>2, <2>1, TypePc DEF Modify, memory
<1>3. ASSUME NEW p \in Proc, LogWrite(p), boot = "up" PROVE CountInv'
  <2>1. Ops' = Ops /\ Committers' = Committers
    BY <1>3, TypePc DEF Ops, Committers, LogWrite
  <2>2. QED
    BY <1>3, <2>1, TypePc DEF LogWrite
<1>4. ASSUME NEW p \in Proc, EndOp(p), boot = "up" PROVE CountInv'
  <2>1. p \in Ops /\ committing = 0
    BY <1>4, TypePc, TypeCounts DEF Ops, Committers, EndOp
  <2>2. Ops' = Ops \ {p}
    BY <1>4, <2>1, TypePc DEF Ops, Committers, EndOp, WakeupAndGoto, FirstCommitStep
  <2>3. Cardinality(Ops') = Cardinality(Ops) - 1
    BY <1>0, <2>1, <2>2, FS_RemoveElement, Zenon
  <2>4. outstanding' = outstanding - 1 /\ boot' = boot
    BY <1>4, TypeCounts DEF EndOp
  <2>5. CASE outstanding' = 0
    <3>1. Ops' = {}
      BY <1>0, <2>2, <2>3, <2>4, <2>5, <1>4, FS_Subset, FS_EmptySet, Zenon
    <3>2. Committers' = {p} /\ committing' = 1
      BY <1>4, <2>1, <2>5, TypePc, TypeCounts DEF Ops, Committers, EndOp, FirstCommitStep
    <3>3. QED
      BY <1>4, <2>3, <2>4, <3>1, <3>2, TypePc
  <2>6. CASE outstanding' # 0
    <3>1. Committers' = Committers /\ committing' = 0
      BY <1>4, <2>1, <2>6, TypePc, TypeCounts DEF Ops, Committers, EndOp, WakeupAndGoto
    <3>2. QED
      BY <1>4, <2>1, <2>3, <2>4, <3>1, TypePc
  <2>7. QED
    BY <2>5, <2>6
<1>5. ASSUME NEW p \in Proc, Commit(p), boot = "up" PROVE CountInv'
  <2>1. p \in Committers /\ Ops = {} /\ Committers = {p} /\ committing = 1
    BY <1>5, TypePc, TypeCounts DEF Ops, Committers, Commit, WriteLog, WriteHead, Install, ClearHead, Finish
  <2>2. CASE ~ Finish(p)
    <3>1. Ops' = Ops /\ Committers' = Committers
      BY <1>5, <2>1, <2>2, TypePc DEF Ops, Committers, Commit, WriteLog, WriteHead, Install, ClearHead
    <3>2. UNCHANGED <<boot, outstanding, committing>>
      BY <1>5, <2>2, TypeCounts DEF Commit, WriteLog, WriteHead, Install, ClearHead, memory
    <3>3. QED
      BY <3>1, <3>2
  <2>3. CASE Finish(p)
    <3>1. Ops' = Ops /\ Committers' = {} /\ committing' = 0
      BY <2>1, <2>3, TypePc, TypeCounts DEF Ops, Committers, Finish, WakeBeginners, WakeupAndGoto
    <3>2. QED
      BY <1>5, <2>1, <2>3, <3>1, TypePc DEF Finish
  <2>4. QED
    BY <2>2, <2>3
<1>6. ASSUME NEW b \in Block, Evict(b) PROVE CountInv'
  BY <1>6, TypePc, TypeCounts DEF Evict, memory, Ops, Committers
<1>7. CASE Recover
  <2> SUFFICES ASSUME boot' = "up" PROVE CountInv'
    OBVIOUS
  <2>1. boot = "clear" /\ UNCHANGED <<outstanding, committing, pc>>
    BY <1>7, TypePc, TypeCounts DEF Recover, RecoverReadHead, RecoverInstall, RecoverClear
  <2>2. Ops' = {} /\ Committers' = {}
    BY <2>1, TypePc DEF BootInv, Ops, Committers
  <2>3. outstanding' = 0 /\ committing' = 0
    BY <2>1, TypePc, TypeCounts DEF BootInv
  <2>4. Cardinality({}) = 0
    BY FS_EmptySet
  <2>5. QED
    BY <2>2, <2>3, <2>4, TypePc
<1>8. CASE Crash
  BY <1>8 DEF Crash
<1>9. CASE UNCHANGED vars
  BY <1>9, TypePc DEF vars, Ops, Committers
<1>10. QED
  BY <1>1, <1>2, <1>3, <1>4, <1>5, <1>6, <1>7, <1>8, <1>9 DEF Next

(***************************************************************************)
(* The contents of the log and of the disk.                                *)
(***************************************************************************)
LEMMA DistinctNext ==
  ASSUME TypeOK, HeldInv, BootInv, CommitInv, Distinct(lh), Distinct(header), [Next]_vars
  PROVE Distinct(lh)' /\ Distinct(header)'
<1> USE DEF Distinct
<1>1. ASSUME NEW p \in Proc, LogWrite(p) PROVE Distinct(lh)' /\ Distinct(header)'
  <2>1. lh' = lh \/ (lh' = Append(lh, held[p]) /\ held[p] \notin Logged(lh))
    BY <1>1 DEF LogWrite, Absorbs
  <2>2. held[p] \in Block /\ lh \in Seq(Block)
    BY <1>1, TypeLh, TypeHeld DEF LogWrite, HeldInv
  <2>3. CASE lh' = Append(lh, held[p]) /\ held[p] \notin Logged(lh)
    <3>1. /\ DOMAIN lh' = 1 .. Len(lh) + 1 /\ DOMAIN lh = 1 .. Len(lh) /\ Len(lh) \in Nat
          /\ \A i \in 1 .. Len(lh) : lh'[i] = lh[i]
          /\ lh'[Len(lh) + 1] = held[p]
      BY <2>2, <2>3
    <3>2. \A i \in 1 .. Len(lh) : lh[i] # held[p]
      BY <2>3, <3>1 DEF Logged
    <3>3. Distinct(lh)'
      BY <3>1, <3>2
    <3>4. QED
      BY <1>1, <3>3 DEF LogWrite, persistent
  <2>4. QED
    BY <1>1, <2>1, <2>3 DEF LogWrite, persistent
<1>2. ASSUME NEW p \in Proc, ~ LogWrite(p),
             \/ BeginOp(p) \/ EndOp(p) \/ Commit(p)
             \/ \E b \in Block, v \in Data : Modify(p, b, v)
      PROVE Distinct(lh)' /\ Distinct(header)'
  <2>1. (lh' = lh \/ lh' = <<>>) /\ (header' = header \/ header' = lh \/ header' = <<>>)
    BY <1>2, Zenon DEF BeginOp, EndOp, Commit, Modify, WriteLog, WriteHead, Install,
                ClearHead, Finish, persistent, memory
  <2>2. QED
    BY <2>1
<1>3. ASSUME NEW b \in Block, Evict(b) PROVE Distinct(lh)' /\ Distinct(header)'
  BY <1>3, Zenon DEF Evict, persistent, memory
<1>4. CASE Recover \/ Crash \/ UNCHANGED vars
  <2>1. (lh' = lh \/ lh' = header \/ lh' = <<>>) /\ (header' = header \/ header' = <<>>)
    BY <1>4 DEF Recover, RecoverReadHead, RecoverInstall, RecoverClear, Crash,
                vars, persistent, memory
  <2>2. QED
    BY <2>1
<1>5. QED
  BY <1>1, <1>2, <1>3, <1>4 DEF Next

\* install_trans() one step further: slot tail+1 has gone to its home block.
LEMMA InstallOne ==
  ASSUME TypeOK, Distinct(lh), tail < Len(lh), SlotsHold(tail, disk),
         lh' = lh, logdata' = logdata,
         disk' = [disk EXCEPT ![lh[tail + 1]] = logdata[tail + 1]]
  PROVE \A i \in DOMAIN lh : i <= tail + 1 => logdata[i] = disk'[lh[i]]
<1>1. tail + 1 \in DOMAIN lh /\ lh[tail + 1] \in Block
  BY TailInRange
<1>2. ASSUME NEW i \in DOMAIN lh, i <= tail + 1
      PROVE logdata[i] = disk'[lh[i]]
  <2>1. lh[i] \in Block /\ i \in Nat /\ tail \in Nat
    BY LogAssumption, TypeLh
  <2>2. CASE i = tail + 1
    BY <1>1, <2>2, TypeBlocks
  <2>3. CASE i # tail + 1
    <3>1. i <= tail
      BY <1>2, <2>1, <2>3
    <3>2. logdata[i] = disk[lh[i]] /\ lh[i] # lh[tail + 1]
      BY <1>1, <2>3, <3>1 DEF SlotsHold, Distinct
    <3>3. QED
      BY <2>1, <3>2, TypeBlocks
  <2>4. QED
    BY <2>2, <2>3
<1>3. QED
  BY <1>2

LEMMA BootNext ==
  ASSUME TypeOK, BootInv, Distinct(lh), [Next]_vars
  PROVE BootInv'
<1> DEFINE Quiet == /\ \A p \in Proc : pc[p] = "out" /\ held[p] = NoBlock
                    /\ outstanding = 0 /\ committing = 0
                    /\ \A b \in Block : pin[b] = 0
                    /\ cache = disk
           Progress == /\ boot = "read_head" => lh = <<>> /\ tail = 0
                       /\ boot = "install" => lh = header /\ tail < Len(lh) /\ SlotsHold(tail, disk)
                       /\ boot = "clear" => lh = header /\ tail = 0 /\ SlotsHold(Len(lh), disk)
<1>0. boot # "up" => Quiet /\ Progress
  BY Zenon DEF BootInv
<1>a. (boot' # "up" => Quiet' /\ Progress') => BootInv'
  BY Zenon DEF BootInv
<1> HIDE DEF Quiet, Progress
<1>1. CASE RecoverReadHead
  <2>1. /\ boot = "read_head" /\ lh' = header /\ header' = header /\ tail' = tail
        /\ UNCHANGED <<disk, cache, pin, outstanding, committing, pc, held, logdata>>
        /\ boot' = IF Len(header) > 0 THEN "install" ELSE "clear"
    BY <1>1, Zenon DEF RecoverReadHead, persistent
  <2>2. Quiet'
    BY <1>0, <2>1 DEF Quiet
  <2>3. tail = 0
    BY <1>0, <2>1 DEF Progress
  <2>4. Len(header) \in Nat
    BY TypeHeader
  <2>5. CASE Len(header) > 0
    <3>1. SlotsHold(tail, disk)'
      BY <2>1, <2>3, TypeHeader DEF SlotsHold
    <3>2. QED
      BY <1>a, <2>1, <2>2, <2>3, <2>5, <3>1 DEF Progress
  <2>6. CASE Len(header) = 0
    <3>1. SlotsHold(Len(lh), disk)'
      BY <2>1, <2>6, TypeHeader DEF SlotsHold
    <3>2. QED
      BY <1>a, <2>1, <2>2, <2>3, <2>6, <3>1 DEF Progress
  <2>7. Len(header) > 0 \/ Len(header) = 0
    BY <2>4
  <2>8. QED
    BY <2>5, <2>6, <2>7, Zenon
<1>2. CASE RecoverInstall
  <2>1. /\ boot = "install" /\ lh' = lh /\ header' = header
        /\ UNCHANGED <<pin, outstanding, committing, pc, held, logdata>>
        /\ disk' = [disk EXCEPT ![lh[tail + 1]] = logdata[tail + 1]]
        /\ cache' = [cache EXCEPT ![lh[tail + 1]] = logdata[tail + 1]]
        /\ IF tail + 1 < Len(lh) THEN tail' = tail + 1 /\ boot' = boot
                                 ELSE tail' = 0 /\ boot' = "clear"
    BY <1>2, Zenon DEF RecoverInstall, memory
  <2>2. lh = header /\ tail < Len(lh) /\ SlotsHold(tail, disk)
    BY <1>0, <2>1 DEF Progress
  <2>3. Quiet'
    BY <1>0, <2>1 DEF Quiet
  <2>4. \A i \in DOMAIN lh : i <= tail + 1 => logdata[i] = disk'[lh[i]]
    BY <2>1, <2>2, InstallOne
  <2>5. CASE tail + 1 < Len(lh)
    <3>1. SlotsHold(tail, disk)'
      BY <2>1, <2>4, <2>5 DEF SlotsHold
    <3>2. QED
      BY <1>a, <2>1, <2>2, <2>3, <2>5, <3>1 DEF Progress
  <2>6. CASE ~ (tail + 1 < Len(lh))
    <3>1. tail + 1 = Len(lh)
      BY <2>2, <2>6, TypeLh
    <3>2. SlotsHold(Len(lh), disk)'
      BY <2>1, <2>4, <3>1 DEF SlotsHold
    <3>3. QED
      BY <1>a, <2>1, <2>2, <2>3, <2>6, <3>2 DEF Progress
  <2>7. QED
    BY <2>5, <2>6
<1>3. CASE RecoverClear
  BY <1>3, <1>a DEF RecoverClear
<1>4. CASE Crash
  <2>1. Quiet'
    BY <1>4 DEF Crash, Quiet, persistent
  <2>2. Progress'
    BY <1>4 DEF Crash, Progress
  <2>3. QED
    BY <1>a, <2>1, <2>2
<1>5. CASE UNCHANGED vars
  BY <1>0, <1>5, <1>a DEF vars, Quiet, Progress, SlotsHold
<1>6. ASSUME boot = "up", boot' = boot PROVE BootInv'
  BY <1>6, <1>a
<1>7. ASSUME NEW p \in Proc,
             \/ BeginOp(p) \/ LogWrite(p) \/ EndOp(p) \/ Commit(p)
             \/ \E b \in Block, v \in Data : Modify(p, b, v)
      PROVE boot' = boot
  BY <1>7, Zenon DEF BeginOp, LogWrite, EndOp, Commit, Modify, WriteLog, WriteHead,
              Install, ClearHead, Finish
<1>8. ASSUME NEW b \in Block, Evict(b) PROVE boot' = boot
  BY <1>8 DEF Evict
<1>9. QED
  BY <1>1, <1>2, <1>3, <1>4, <1>5, <1>6, <1>7, <1>8 DEF Next, Recover

\* Recycling a buffer loses nothing: bget() only takes buffers whose contents
\* are on the disk.
LEMMA EvictHarmless ==
  ASSUME TypeOK, CommitInv, CleanInv, PinsMatchLog, boot = "up",
         NEW b \in Block, Evict(b)
  PROVE cache' = cache
<1>1. cache[b] = disk[b]
  <2>1. pin[b] = 0 /\ \A p \in Proc : held[p] # b
    BY DEF Evict
  <2>2. CASE b \notin Logged(lh)
    BY <2>1, <2>2 DEF CleanInv
  <2>3. CASE b \in Logged(lh)
    <3>1. PICK i \in DOMAIN lh : lh[i] = b
      BY <2>3 DEF Logged
    <3>2. PICK p \in Proc : pc[p] = "clear" \/ (pc[p] = "install" /\ ~ (i > tail))
      BY <2>1, <3>1 DEF PinsMatchLog, Uninstalled
    <3>3. i \in Nat /\ tail \in Nat /\ i <= Len(lh)
      BY LogAssumption, TypeLh
    <3>4. logdata[i] = cache[b] /\ logdata[i] = disk[b]
      BY <3>1, <3>2, <3>3 DEF CommitInv, SlotsHold
    <3>5. QED
      BY <3>4
  <2>4. QED
    BY <2>2, <2>3
<1>2. QED
  BY <1>1, TypeBlocks DEF Evict

(***************************************************************************)
(* What the log, the home blocks and the buffer cache hold at every point  *)
(* of commit() and of recovery.                                            *)
(***************************************************************************)
LEMMA CommitNext ==
  ASSUME TypeOK, HeldInv, BootInv, CountInv, CommitInv, CleanInv, PinsMatchLog,
         Distinct(lh), [Next]_vars
  PROVE CommitInv'
<1> USE LogAssumption
<1>1. ASSUME NEW p \in Proc, boot = "up", BeginOp(p) PROVE CommitInv'
  <2>1. UNCHANGED <<disk, logdata, header, cache, lh, tail>>
    BY <1>1 DEF BeginOp, persistent
  <2>2. \A q \in Proc : pc'[q] \in InCommit => pc'[q] = pc[q]
    BY <1>1, TypePc DEF BeginOp, Goto
  <2>3. QED
    BY <2>1, <2>2 DEF CommitInv, SlotsHold
<1>2. ASSUME NEW p \in Proc, boot = "up", pc[p] \in InOp PROVE \A q \in Proc : pc[q] \notin InCommit
  BY <1>2 DEF CountInv, Ops, Committers
<1>3. ASSUME NEW p \in Proc, boot = "up", NEW b \in Block, NEW v \in Data, Modify(p, b, v)
      PROVE CommitInv'
  <2>1. \A q \in Proc : pc'[q] \notin InCommit
    BY <1>2, <1>3, TypePc DEF Modify, Goto
  <2>2. QED
    BY <2>1 DEF CommitInv
<1>4. ASSUME NEW p \in Proc, boot = "up", LogWrite(p) PROVE CommitInv'
  <2>1. \A q \in Proc : pc'[q] \notin InCommit
    BY <1>2, <1>4, TypePc DEF LogWrite, Goto
  <2>2. QED
    BY <2>1 DEF CommitInv
<1>5. ASSUME NEW p \in Proc, boot = "up", EndOp(p) PROVE CommitInv'
  <2>1. lh' = lh
    BY <1>5 DEF EndOp
  <2>2. CASE pc'[p] \in InCommit
    <3>1. /\ tail' = 0
          /\ pc' = [pc EXCEPT ![p] = FirstCommitStep]
      BY <1>5, <2>2, TypePc, TypeLh DEF EndOp, WakeupAndGoto, Goto
    <3>2. \A q \in Proc : q # p => pc'[q] \notin InCommit
      BY <1>2, <1>5, <3>1, TypePc DEF EndOp
    <3>3. CASE Len(lh) > 0
      <4>1. pc'[p] = "write_log"
        BY <3>1, <3>3, TypePc DEF FirstCommitStep
      <4>2. SlotsHold(tail, cache)'
        BY <2>1, <3>1, TypePc, TypeLh, TypeBlocks DEF SlotsHold
      <4>3. QED
        BY <2>1, <3>1, <3>2, <3>3, <4>1, <4>2 DEF CommitInv
    <3>4. CASE ~ (Len(lh) > 0)
      <4>1. pc'[p] = "finish"
        BY <3>1, <3>4, TypePc DEF FirstCommitStep
      <4>2. lh = <<>>
        BY <3>4, TypeLh
      <4>3. QED
        BY <2>1, <3>2, <4>1, <4>2 DEF CommitInv
    <3>5. QED
      BY <3>3, <3>4
  <2>3. CASE pc'[p] \notin InCommit
    <3>1. \A q \in Proc : pc'[q] \notin InCommit
      BY <1>2, <1>5, <2>3, TypePc DEF EndOp, WakeupAndGoto, Goto
    <3>2. QED
      BY <3>1 DEF CommitInv
  <2>4. QED
    BY <2>2, <2>3
<1>6. ASSUME NEW p \in Proc, boot = "up", pc[p] \in InCommit
      PROVE \A q \in Proc : q # p => pc[q] \notin InCommit
  BY <1>6 DEF CountInv, Committers
<1>7. ASSUME NEW p \in Proc, boot = "up", WriteLog(p) PROVE CommitInv'
  <2>1. /\ pc[p] = "write_log" /\ tail < Len(lh) /\ SlotsHold(tail, cache)
        /\ UNCHANGED <<lh, cache>>
        /\ logdata' = [logdata EXCEPT ![tail + 1] = cache[lh[tail + 1]]]
    BY <1>7 DEF WriteLog, CommitInv, memory
  <2>2. tail + 1 \in DOMAIN lh /\ tail + 1 \in 1 .. LOGBLOCKS /\ tail \in Nat /\ Len(lh) \in Nat
    BY <2>1, TailInRange, TypePc, TypeLh
  <2>3. ASSUME NEW i \in DOMAIN lh, i <= tail + 1 PROVE logdata'[i] = cache[lh[i]]
    <3>1. i \in 1 .. LOGBLOCKS
      BY TypeSlots
    <3>2. CASE i = tail + 1
      BY <2>1, <2>2, <3>2, TypeSlots
    <3>3. CASE i # tail + 1
      <4>1. i <= tail
        BY <2>2, <2>3, <3>1, <3>3
      <4>2. logdata[i] = cache[lh[i]]
        BY <2>1, <4>1 DEF SlotsHold
      <4>3. logdata'[i] = logdata[i]
        BY <2>1, <3>1, <3>3, TypePc
      <4>4. QED
        BY <4>2, <4>3
    <3>4. QED
      BY <3>2, <3>3
  <2>4. CASE tail + 1 < Len(lh)
    <3>1. tail' = tail + 1 /\ pc' = pc
      BY <1>7, <2>4 DEF WriteLog
    <3>2. SlotsHold(tail, cache)'
      BY <2>1, <2>3, <3>1 DEF SlotsHold
    <3>3. \A q \in Proc : pc'[q] \in InCommit => pc'[q] = "write_log"
      BY <1>6, <1>7, <2>1, <3>1
    <3>4. QED
      BY <2>1, <2>4, <3>1, <3>2, <3>3 DEF CommitInv
  <2>5. CASE tail + 1 = Len(lh)
    <3>1. tail' = 0 /\ pc' = [pc EXCEPT ![p] = "write_head"]
      BY <1>7, <2>2, <2>5 DEF WriteLog, Goto
    <3>2. SlotsHold(Len(lh), cache)'
      BY <2>1, <2>3, <2>5 DEF SlotsHold
    <3>3. \A q \in Proc : pc'[q] \in InCommit => pc'[q] = "write_head"
      BY <1>6, <1>7, <2>1, <3>1, TypePc
    <3>4. Len(lh') > 0
      BY <2>1, <2>2, <2>5
    <3>5. QED
      BY <3>1, <3>2, <3>3, <3>4 DEF CommitInv
  <2>6. QED
    BY <2>1, <2>2, <2>4, <2>5
<1>8. ASSUME NEW p \in Proc, boot = "up", WriteHead(p) PROVE CommitInv'
  <2>1. /\ pc[p] = "write_head" /\ UNCHANGED <<lh, cache, disk, logdata, tail>>
        /\ header' = lh /\ pc' = [pc EXCEPT ![p] = "install"]
        /\ Len(lh) > 0 /\ tail = 0 /\ SlotsHold(Len(lh), cache)
    BY <1>8 DEF WriteHead, CommitInv, memory, Goto
  <2>2. SlotsHold(Len(lh), cache)'
    BY <2>1 DEF SlotsHold
  <2>3. SlotsHold(tail, disk)'
    BY <2>1, TypePc, TypeLh, TypeBlocks DEF SlotsHold
  <2>4. \A q \in Proc : pc'[q] \in InCommit => pc'[q] = "install"
    BY <1>6, <1>8, <2>1, TypePc
  <2>5. QED
    BY <2>1, <2>2, <2>3, <2>4 DEF CommitInv
<1>9. ASSUME NEW p \in Proc, boot = "up", Install(p) PROVE CommitInv'
  <2>1. /\ pc[p] = "install" /\ UNCHANGED <<lh, logdata, header>> /\ header = lh
        /\ tail < Len(lh) /\ SlotsHold(Len(lh), cache) /\ SlotsHold(tail, disk)
        /\ disk' = [disk EXCEPT ![lh[tail + 1]] = logdata[tail + 1]]
        /\ cache' = [cache EXCEPT ![lh[tail + 1]] = logdata[tail + 1]]
    BY <1>9 DEF Install, CommitInv, memory
  <2>2. tail + 1 \in DOMAIN lh /\ lh[tail + 1] \in Block /\ tail \in Nat /\ Len(lh) \in Nat
    BY <2>1, TailInRange, TypePc, TypeLh
  <2>3. \A i \in DOMAIN lh : i <= tail + 1 => logdata[i] = disk'[lh[i]]
    BY <2>1, InstallOne
  <2>4. cache' = cache
    <3>1. logdata[tail + 1] = cache[lh[tail + 1]]
      BY <2>1, <2>2 DEF SlotsHold
    <3>2. QED
      BY <2>1, <2>2, <3>1, TypeBlocks
  <2>5. SlotsHold(Len(lh), cache)'
    BY <2>1, <2>4 DEF SlotsHold
  <2>6. CASE tail + 1 < Len(lh)
    <3>1. tail' = tail + 1 /\ pc' = pc
      BY <1>9, <2>6 DEF Install
    <3>2. SlotsHold(tail, disk)'
      BY <2>1, <2>3, <3>1 DEF SlotsHold
    <3>3. \A q \in Proc : pc'[q] \in InCommit => pc'[q] = "install"
      BY <1>6, <1>9, <2>1, <3>1
    <3>4. QED
      BY <2>1, <2>5, <2>6, <3>1, <3>2, <3>3 DEF CommitInv
  <2>7. CASE tail + 1 = Len(lh)
    <3>1. tail' = 0 /\ pc' = [pc EXCEPT ![p] = "clear"]
      BY <1>9, <2>2, <2>7 DEF Install, Goto
    <3>2. SlotsHold(Len(lh), disk)'
      BY <2>1, <2>3, <2>7 DEF SlotsHold
    <3>3. \A q \in Proc : pc'[q] \in InCommit => pc'[q] = "clear"
      BY <1>6, <1>9, <2>1, <3>1, TypePc
    <3>4. QED
      BY <2>1, <2>5, <3>1, <3>2, <3>3 DEF CommitInv
  <2>8. QED
    BY <2>1, <2>2, <2>6, <2>7
<1>10. ASSUME NEW p \in Proc, boot = "up", ClearHead(p) PROVE CommitInv'
  <2>1. pc[p] = "clear" /\ lh' = <<>> /\ pc' = [pc EXCEPT ![p] = "finish"]
    BY <1>10 DEF ClearHead, Goto
  <2>2. \A q \in Proc : pc'[q] \in InCommit => pc'[q] = "finish"
    BY <1>6, <1>10, <2>1, TypePc
  <2>3. QED
    BY <2>1, <2>2 DEF CommitInv
<1>11. ASSUME NEW p \in Proc, boot = "up", Finish(p) PROVE CommitInv'
  <2>1. \A q \in Proc : pc'[q] \notin InCommit
    BY <1>6, <1>11, TypePc DEF Finish, WakeBeginners, WakeupAndGoto
  <2>2. QED
    BY <2>1 DEF CommitInv
<1>12. ASSUME NEW b \in Block, boot = "up", Evict(b) PROVE CommitInv'
  <2>1. cache' = cache
    BY <1>12, EvictHarmless
  <2>2. UNCHANGED <<disk, logdata, header, lh, tail, pc>>
    BY <1>12, ZenonT(40) DEF Evict, persistent, memory
  <2>3. QED
    BY <2>1, <2>2, Zenon DEF CommitInv, SlotsHold
<1>13. CASE Recover \/ Crash
  <2>1. \A q \in Proc : pc'[q] = "out"
    BY <1>13 DEF Recover, RecoverReadHead, RecoverInstall, RecoverClear, Crash, BootInv
  <2>2. QED
    BY <2>1 DEF CommitInv
<1>14. CASE UNCHANGED vars
  BY <1>14, ZenonT(40) DEF vars, CommitInv, SlotsHold
<1>15. QED
  BY <1>1, <1>3, <1>4, <1>5, <1>7, <1>8, <1>9, <1>10, <1>11, <1>12, <1>13, <1>14
     DEF Next, Commit

LEMMA HeaderNext ==
  ASSUME TypeOK, BootInv, CountInv, CommitInv, HeaderInv, [Next]_vars
  PROVE HeaderInv'
<1> USE DEF HeaderInv
<1>1. ASSUME NEW p \in Proc, boot = "up",
             \/ BeginOp(p) \/ LogWrite(p) \/ EndOp(p) \/ Finish(p) \/ WriteLog(p)
             \/ \E b \in Block, v \in Data : Modify(p, b, v)
      PROVE HeaderInv'
  <2>1. UNCHANGED <<header, boot>>
    BY <1>1, Zenon DEF BeginOp, LogWrite, EndOp, Finish, WriteLog, Modify, persistent
  <2>2. \A q \in Proc : pc[q] \in {"install", "clear"} => pc'[q] = pc[q]
    BY <1>1, TypePc, Zenon DEF BeginOp, LogWrite, EndOp, Finish, WriteLog, Modify, Goto,
                WakeBeginners, WakeupAndGoto
  <2>3. QED
    BY <2>1, <2>2
<1>2. ASSUME NEW p \in Proc, boot = "up", WriteHead(p) \/ Install(p) PROVE HeaderInv'
  <2>1. pc'[p] \in {"install", "clear"}
    BY <1>2, TypePc DEF WriteHead, Install, Goto
  <2>2. QED
    BY <2>1
<1>3. ASSUME NEW p \in Proc, boot = "up", ClearHead(p) PROVE HeaderInv'
  BY <1>3, ZenonT(40) DEF ClearHead
<1>4. ASSUME NEW b \in Block, Evict(b) PROVE HeaderInv'
  BY <1>4, ZenonT(40) DEF Evict, persistent
<1>5. CASE Recover
  <2>1. boot' = "up" => header' = <<>>
    BY <1>5 DEF Recover, RecoverReadHead, RecoverInstall, RecoverClear
  <2>2. QED
    BY <2>1, Zenon
<1>6. CASE Crash
  BY <1>6 DEF Crash
<1>7. CASE UNCHANGED vars
  BY <1>7 DEF vars
<1>8. QED
  BY <1>1, <1>2, <1>3, <1>4, <1>5, <1>6, <1>7, ZenonT(40) DEF Next, Commit

LEMMA CleanNext ==
  ASSUME TypeOK, HeldInv, BootInv, CountInv, CommitInv, CleanInv, PinsMatchLog,
         Distinct(lh), [Next]_vars
  PROVE CleanInv'
<1>1. ASSUME NEW p \in Proc, boot = "up",
             BeginOp(p) \/ EndOp(p) \/ Finish(p) \/ WriteLog(p) \/ WriteHead(p)
      PROVE CleanInv'
  <2>1. UNCHANGED <<disk, cache, lh, held, boot>>
    BY <1>1, Zenon DEF BeginOp, EndOp, Finish, WriteLog, WriteHead, persistent, memory
  <2>2. QED
    BY <2>1 DEF CleanInv, Logged
<1>2. ASSUME NEW p \in Proc, boot = "up", NEW b \in Block, NEW v \in Data, Modify(p, b, v)
      PROVE CleanInv'
  <2>1. /\ UNCHANGED <<disk, lh, boot>> /\ held' = [held EXCEPT ![p] = b]
        /\ cache' = [cache EXCEPT ![b] = v] /\ pc[p] = "op"
    BY <1>2, ZenonT(40) DEF Modify, persistent, memory
  <2>2. held[p] = NoBlock
    BY <2>1, Zenon DEF HeldInv
  <2>3. SUFFICES ASSUME NEW c \in Block, c \notin Logged(lh), \A q \in Proc : held'[q] # c
                 PROVE cache'[c] = disk'[c]
    BY <2>1 DEF CleanInv, Logged
  <2>4. c # b /\ \A q \in Proc : held[q] # c
    BY <2>1, <2>2, <2>3, LogAssumption, TypePc, TypeHeld
  <2>5. QED
    BY <1>2, <2>1, <2>3, <2>4, TypePc DEF CleanInv
<1>3. ASSUME NEW p \in Proc, boot = "up", LogWrite(p) PROVE CleanInv'
  <2>1. UNCHANGED <<disk, cache, boot>>
    BY <1>3, ZenonT(40) DEF LogWrite, persistent
  <2>2. held[p] \in Block
    BY <1>3, TypeHeld DEF LogWrite, HeldInv
  <2>3. CASE held' = held /\ lh' = lh
    BY <2>1, <2>3 DEF CleanInv, Logged
  <2>4. CASE held' = [held EXCEPT ![p] = NoBlock] /\ lh' = lh /\ held[p] \in Logged(lh)
    <3>1. \A c \in Block \ Logged(lh) : (\A q \in Proc : held'[q] # c)
                                           => \A q \in Proc : held[q] # c
      BY <2>4, TypeLh, TypeHeld
    <3>2. Logged(lh)' = Logged(lh)
      BY <2>4, Zenon DEF Logged
    <3>3. QED
      BY <1>3, <2>1, <3>1, <3>2, Zenon DEF CleanInv
  <2>5. CASE held' = [held EXCEPT ![p] = NoBlock] /\ lh' = Append(lh, held[p])
    <3>1. Logged(lh)' = Logged(lh) \cup {held[p]}
      <4>1. /\ DOMAIN lh' = 1 .. Len(lh) + 1 /\ DOMAIN lh = 1 .. Len(lh) /\ Len(lh) \in Nat
            /\ \A i \in 1 .. Len(lh) : lh'[i] = lh[i]
            /\ lh'[Len(lh) + 1] = held[p]
        BY <2>2, <2>5, TypeLh, TypeHeld
      <4>2. QED
        BY <4>1 DEF Logged
    <3>2. \A c \in Block \ Logged(lh)' : (\A q \in Proc : held'[q] # c)
                                           => \A q \in Proc : held[q] # c
      BY <2>5, <3>1, TypeLh, TypeHeld
    <3>3. QED
      BY <1>3, <2>1, <3>1, <3>2 DEF CleanInv
  <2>6. QED
    BY <1>3, <2>3, <2>4, <2>5 DEF LogWrite, Absorbs
<1>4. ASSUME NEW p \in Proc, boot = "up", Install(p) PROVE CleanInv'
  <2>1. /\ UNCHANGED <<lh, held, boot>> /\ tail < Len(lh)
        /\ disk' = [disk EXCEPT ![lh[tail + 1]] = logdata[tail + 1]]
        /\ cache' = [cache EXCEPT ![lh[tail + 1]] = logdata[tail + 1]]
    BY <1>4 DEF Install, memory
  <2>2. tail + 1 \in DOMAIN lh
    BY <2>1, TailInRange
  <2>3. lh[tail + 1] \in Logged(lh)
    BY <2>2 DEF Logged
  <2>4. \A c \in Block : c \notin Logged(lh) => cache'[c] = cache[c] /\ disk'[c] = disk[c]
    BY <2>1, <2>3, TypeLh, TypeBlocks
  <2>5. QED
    BY <1>4, <2>1, <2>4 DEF CleanInv, Logged
<1>5. ASSUME NEW p \in Proc, boot = "up", ClearHead(p) PROVE CleanInv'
  <2>1. UNCHANGED <<disk, cache, held, boot>>
    BY <1>5 DEF ClearHead
  <2>2. SlotsHold(Len(lh), cache) /\ SlotsHold(Len(lh), disk)
    BY <1>5 DEF ClearHead, CommitInv
  <2>3. \A c \in Logged(lh) : cache[c] = disk[c]
    <3>1. \A i \in DOMAIN lh : i <= Len(lh)
      BY TypeLh
    <3>2. QED
      BY <2>2, <3>1 DEF SlotsHold, Logged
  <2>4. QED
    BY <1>5, <2>1, <2>3, Zenon DEF CleanInv
<1>6. ASSUME NEW b \in Block, boot = "up", Evict(b) PROVE CleanInv'
  <2>1. cache' = cache
    BY <1>6, EvictHarmless
  <2>2. UNCHANGED <<disk, lh, held, boot>>
    BY <1>6 DEF Evict, persistent, memory
  <2>3. QED
    BY <2>1, <2>2 DEF CleanInv, Logged
<1>7. CASE Recover
  <2>1. boot' = "up" => UNCHANGED <<disk, cache>> /\ cache = disk
    BY <1>7 DEF Recover, RecoverReadHead, RecoverInstall, RecoverClear, BootInv
  <2>2. QED
    BY <2>1 DEF CleanInv
<1>8. CASE Crash
  BY <1>8, ZenonT(40) DEF Crash, CleanInv
<1>9. CASE UNCHANGED vars
  BY <1>9, Zenon DEF vars, CleanInv, Logged
<1>10. QED
  BY <1>1, <1>2, <1>3, <1>4, <1>5, <1>6, <1>7, <1>8, <1>9 DEF Next, Commit

LEMMA PinsNext ==
  ASSUME TypeOK, HeldInv, BootInv, CountInv, CommitInv, PinsMatchLog, Distinct(lh),
         [Next]_vars
  PROVE PinsMatchLog'
<1>0. ASSUME boot = "up", UNCHANGED pin,
             \A b \in Block : Uninstalled(b)' <=> Uninstalled(b)
      PROVE PinsMatchLog'
  BY <1>0 DEF PinsMatchLog
<1>1. ASSUME NEW p \in Proc, boot = "up",
             BeginOp(p) \/ \E b \in Block, v \in Data : Modify(p, b, v)
      PROVE PinsMatchLog'
  <2>1. UNCHANGED <<pin, lh, tail>>
    BY <1>1, Zenon DEF BeginOp, Modify, memory
  <2>2. \A q \in Proc, l \in {"install", "clear"} : pc'[q] = l <=> pc[q] = l
    BY <1>1, TypePc, Zenon DEF BeginOp, Modify, Goto
  <2>3. \A b \in Block : Uninstalled(b)' <=> Uninstalled(b)
    BY <2>1, <2>2 DEF Uninstalled
  <2>4. QED
    BY <1>0, <1>1, <2>1, <2>3
<1>2. ASSUME NEW p \in Proc, boot = "up", EndOp(p) PROVE PinsMatchLog'
  <2>1. UNCHANGED <<pin, lh>>
    BY <1>2 DEF EndOp
  <2>2. \A q \in Proc : pc[q] \notin {"install", "clear"}
    BY <1>2 DEF EndOp, CountInv, Ops, Committers
  <2>3. \A q \in Proc : pc'[q] \notin {"install", "clear"}
    BY <1>2, <2>2, TypePc, Zenon DEF EndOp, FirstCommitStep, Goto, WakeupAndGoto
  <2>4. \A b \in Block : Uninstalled(b)' <=> Uninstalled(b)
    BY <2>1, <2>2, <2>3 DEF Uninstalled
  <2>5. QED
    BY <1>0, <1>2, <2>1, <2>4
<1>3. ASSUME NEW p \in Proc, boot = "up", LogWrite(p) PROVE PinsMatchLog'
  <2>1. \A q \in Proc : pc[q] \notin {"install", "clear"}
    BY <1>3 DEF LogWrite, CountInv, Ops, Committers
  <2>2. \A q \in Proc : pc'[q] \notin {"install", "clear"}
    BY <1>3, <2>1, TypePc DEF LogWrite, Goto
  <2>3. held[p] \in Block
    BY <1>3, TypeHeld DEF LogWrite, HeldInv
  <2>4. CASE UNCHANGED <<lh, pin>>
    <3>1. \A b \in Block : Uninstalled(b)' <=> Uninstalled(b)
      BY <2>1, <2>2, <2>4 DEF Uninstalled
    <3>2. QED
      BY <1>0, <1>3, <2>4, <3>1
  <2>5. CASE ~ Absorbs(held[p]) /\ lh' = Append(lh, held[p]) /\ Bpin(held[p])
    <3>0. PICK c \in Block : c = held[p]
      BY <2>3
    <3>1. /\ DOMAIN lh' = 1 .. Len(lh) + 1 /\ DOMAIN lh = 1 .. Len(lh) /\ Len(lh) \in Nat
          /\ \A i \in 1 .. Len(lh) : lh'[i] = lh[i]
          /\ lh'[Len(lh) + 1] = c
      BY <2>5, <3>0, TypeLh
    <3>2. ~ Uninstalled(c)
      BY <2>5, <3>0 DEF Uninstalled, Absorbs, Logged
    <3>3. Uninstalled(c)'
      BY <2>2, <3>1 DEF Uninstalled
    <3>4. \A b \in Block \ {c} : Uninstalled(b)' <=> Uninstalled(b)
      BY <2>1, <2>2, <3>1 DEF Uninstalled
    <3>5. pin[c] = 0
      BY <1>3, <3>2 DEF PinsMatchLog
    <3>6. pin'[c] = 1 /\ \A b \in Block \ {c} : pin'[b] = pin[b]
      BY <2>5, <3>0, <3>5, TypeBlocks DEF Bpin
    <3>7. ASSUME NEW b \in Block PROVE pin'[b] = IF Uninstalled(b)' THEN 1 ELSE 0
      BY <1>3, <3>3, <3>4, <3>6 DEF PinsMatchLog
    <3>8. QED
      BY <3>7 DEF PinsMatchLog
  <2>6. QED
    BY <1>3, <2>4, <2>5, Zenon DEF LogWrite
<1>4. ASSUME NEW p \in Proc, boot = "up", pc[p] \in InCommit
      PROVE \A q \in Proc : q # p => pc[q] \notin InCommit
  BY <1>4 DEF CountInv, Committers
<1>5. ASSUME NEW p \in Proc, boot = "up", WriteLog(p) \/ Finish(p) PROVE PinsMatchLog'
  <2>1. UNCHANGED <<pin, lh>>
    BY <1>5 DEF WriteLog, Finish, memory
  <2>2. \A q \in Proc : pc[q] \notin {"install", "clear"} /\ pc'[q] \notin {"install", "clear"}
    BY <1>4, <1>5, TypePc, ZenonT(40) DEF WriteLog, Finish, Goto, WakeBeginners, WakeupAndGoto
  <2>3. \A b \in Block : Uninstalled(b)' <=> Uninstalled(b)
    BY <2>1, <2>2 DEF Uninstalled
  <2>4. QED
    BY <1>0, <1>5, <2>1, <2>3
<1>6. ASSUME NEW p \in Proc, boot = "up", WriteHead(p) PROVE PinsMatchLog'
  <2>1. UNCHANGED <<pin, lh, tail>> /\ tail = 0
    BY <1>6 DEF WriteHead, memory, CommitInv
  <2>2. \A q \in Proc : pc[q] \notin {"install", "clear"} /\ pc'[q] # "clear"
    BY <1>4, <1>6, TypePc DEF WriteHead, Goto
  <2>3. \A i \in DOMAIN lh : i > 0
    BY TypeLh
  <2>4. \A b \in Block : Uninstalled(b)' <=> Uninstalled(b)
    BY <2>1, <2>2, <2>3, Zenon DEF Uninstalled
  <2>5. QED
    BY <1>0, <1>6, <2>1, <2>4
<1>7. ASSUME NEW p \in Proc, boot = "up", Install(p) PROVE PinsMatchLog'
  <2>0. pc[p] = "install" /\ tail < Len(lh)
    BY <1>7 DEF Install
  <2>h. PICK h \in Block : h = lh[tail + 1]
    BY <2>0, TailInRange
  <2>1. lh' = lh /\ pc[p] = "install" /\ tail < Len(lh) /\ Bunpin(h)
    BY <1>7, <2>h DEF Install, memory
  <2>2. /\ tail + 1 \in DOMAIN lh /\ lh[tail + 1] = h
        /\ tail \in Nat /\ Len(lh) \in Nat
    BY <2>1, <2>h, TailInRange, TypePc, TypeLh
  <2>3. \A q \in Proc : q # p => pc[q] \notin {"install", "clear"}
    BY <1>4, <1>7, <2>1
  <2>4. \A i \in DOMAIN lh : i \in 1 .. Len(lh)
    BY TypeLh
  <2>5. \A b \in Block : Uninstalled(b) <=> \E i \in DOMAIN lh : lh[i] = b /\ i > tail
    BY <2>1, <2>3 DEF Uninstalled
  <2>6. \A b \in Block : Uninstalled(b)' <=> \E i \in DOMAIN lh : lh[i] = b /\ i > tail + 1
    <3>1. CASE tail + 1 < Len(lh)
      <4>1. tail' = tail + 1 /\ pc' = pc
        BY <1>7, <3>1 DEF Install
      <4>2. QED
        BY <2>1, <2>3, <4>1 DEF Uninstalled
    <3>2. CASE tail + 1 = Len(lh)
      <4>1. pc' = [pc EXCEPT ![p] = "clear"]
        BY <1>7, <2>2, <3>2 DEF Install, Goto
      <4>2. pc'[p] = "clear"
        BY <4>1, TypePc
      <4>3. \A b \in Block : ~ Uninstalled(b)'
        BY <4>2 DEF Uninstalled
      <4>4. ~ \E i \in DOMAIN lh : i > tail + 1
        BY <2>2, <2>4, <3>2
      <4>5. QED
        BY <4>3, <4>4
    <3>3. QED
      BY <2>1, <2>2, <3>1, <3>2
  <2>7. Uninstalled(h) /\ ~ Uninstalled(h)'
    <3>1. Uninstalled(h)
      BY <2>2, <2>5
    <3>2. ASSUME NEW i \in DOMAIN lh, lh[i] = h PROVE i = tail + 1
      BY <2>2, <3>2 DEF Distinct
    <3>3. ~ (tail + 1 > tail + 1)
      BY <2>2
    <3>4. QED
      BY <2>2, <2>6, <3>1, <3>2, <3>3
  <2>8. \A b \in Block \ {h} : Uninstalled(b)' <=> Uninstalled(b)
    <3>1. \A i \in DOMAIN lh : i > tail <=> (i = tail + 1 \/ i > tail + 1)
      BY <2>2, <2>4
    <3>2. QED
      BY <2>2, <2>5, <2>6, <3>1
  <2>9. pin[h] = 1
    BY <1>7, <2>2, <2>7 DEF PinsMatchLog
  <2>10. pin'[h] = 0 /\ \A b \in Block \ {h} : pin'[b] = pin[b]
    BY <2>1, <2>2, <2>9, TypePc, TypeBlocks DEF Bunpin
  <2>11. ASSUME NEW b \in Block PROVE pin'[b] = IF Uninstalled(b)' THEN 1 ELSE 0
    BY <1>7, <2>7, <2>8, <2>10 DEF PinsMatchLog
  <2>12. QED
    BY <2>11 DEF PinsMatchLog
<1>8. ASSUME NEW p \in Proc, boot = "up", ClearHead(p) PROVE PinsMatchLog'
  <2>1. lh' = <<>> /\ pin' = pin /\ pc[p] = "clear"
    BY <1>8 DEF ClearHead
  <2>2. \A b \in Block : ~ Uninstalled(b) /\ ~ Uninstalled(b)'
    BY <2>1 DEF Uninstalled
  <2>3. QED
    BY <1>0, <1>8, <2>1, <2>2
<1>9. ASSUME NEW b \in Block, boot = "up", Evict(b) PROVE PinsMatchLog'
  <2>1. UNCHANGED <<pin, lh, tail, pc>>
    BY <1>9 DEF Evict, memory
  <2>2. QED
    BY <1>0, <1>9, <2>1 DEF Uninstalled
<1>10. CASE Recover
  <2>1. boot' = "up" => lh' = <<>> /\ \A b \in Block : pin'[b] = 0
    BY <1>10, Zenon DEF Recover, RecoverReadHead, RecoverInstall, RecoverClear, BootInv
  <2>2. boot' = "up" => \A b \in Block : ~ Uninstalled(b)'
    BY <2>1 DEF Uninstalled
  <2>3. QED
    BY <2>1, <2>2 DEF PinsMatchLog
<1>11. CASE Crash
  BY <1>11 DEF Crash, PinsMatchLog
<1>12. CASE UNCHANGED vars
  BY <1>12, Zenon DEF vars, PinsMatchLog, Uninstalled
<1>13. QED
  BY <1>1, <1>2, <1>3, <1>5, <1>6, <1>7, <1>8, <1>9, <1>10, <1>11, <1>12
     DEF Next, Commit

(***************************************************************************)
(* The inductive invariant, and what follows from it.                      *)
(***************************************************************************)
THEOREM LogInvariant == Spec => [](TypeOK /\ LogInv)
<1>1. Init => TypeOK /\ LogInv
  <2> SUFFICES ASSUME Init PROVE TypeOK /\ LogInv
    OBVIOUS
  <2>1. TypeOK /\ HeldInv
    BY LogAssumption DEF Init, TypeOK, HeldInv
  <2>2. Distinct(lh) /\ Distinct(header)
    BY DEF Init, Distinct
  <2>3. BootInv
    BY DEF Init, BootInv
  <2>4. CommitInv
    BY DEF Init, CommitInv
  <2>5. CountInv /\ HeaderInv /\ CleanInv /\ PinsMatchLog
    BY DEF Init, CountInv, HeaderInv, CleanInv, PinsMatchLog
  <2>6. QED
    BY <2>1, <2>2, <2>3, <2>4, <2>5 DEF LogInv
<1>2. TypeOK /\ LogInv /\ [Next]_vars => (TypeOK /\ LogInv)'
  BY TypeNext, HeldNext, CountNext, DistinctNext, BootNext, CommitNext, HeaderNext,
     CleanNext, PinsNext DEF LogInv
<1>3. QED
  BY <1>1, <1>2, PTL DEF Spec

\* log.c's header comment, for any number of processes: a commit never runs
\* beside an operation or another commit.
THEOREM CommitAlone == Spec => []CommitExcludesOps
<1>1. TypeOK /\ LogInv => CommitExcludesOps
  <2> SUFFICES ASSUME TypeOK, LogInv, NEW p \in Proc, pc[p] \in InCommit
               PROVE /\ committing = 1
                     /\ outstanding = 0
                     /\ \A q \in Proc \ {p} : pc[q] \notin InOp \cup InCommit
    BY DEF CommitExcludesOps
  <2>1. boot = "up"
    BY DEF LogInv, BootInv
  <2>2. committing = 1 /\ Ops = {} /\ \A q \in Committers : q = p
    BY <2>1 DEF LogInv, CountInv, Committers
  <2>3. outstanding = 0
    BY <2>1, <2>2, FS_EmptySet DEF LogInv, CountInv
  <2>4. QED
    BY <2>2, <2>3 DEF Ops, Committers
<1>2. QED
  BY <1>1, LogInvariant, PTL

(***************************************************************************)
(* begin_op()'s reservation.                                               *)
(***************************************************************************)
LEMMA AppendLogged ==
  ASSUME NEW h \in Seq(Block), NEW b \in Block
  PROVE Logged(Append(h, b)) = Logged(h) \cup {b}
<1>1. /\ DOMAIN Append(h, b) = 1 .. Len(h) + 1 /\ DOMAIN h = 1 .. Len(h) /\ Len(h) \in Nat
      /\ \A i \in 1 .. Len(h) : Append(h, b)[i] = h[i]
      /\ Append(h, b)[Len(h) + 1] = b
  OBVIOUS
<1>2. QED
  BY <1>1 DEF Logged

LEMMA ReservedFinite ==
  ASSUME TypeOK
  PROVE /\ IsFiniteSet(Reserved) /\ Cardinality(Reserved) \in Nat
        /\ Cardinality(Reserved) <= Cardinality(Ops) * MAXOPBLOCKS
<1>1. IsFiniteSet(Ops)
  BY LogAssumption, FS_Subset DEF Ops
<1>2. IsFiniteSet(1 .. MAXOPBLOCKS) /\ Cardinality(1 .. MAXOPBLOCKS) = MAXOPBLOCKS
  BY LogAssumption, FS_Interval
<1>3. /\ IsFiniteSet(Ops \X (1 .. MAXOPBLOCKS))
      /\ Cardinality(Ops \X (1 .. MAXOPBLOCKS)) = Cardinality(Ops) * MAXOPBLOCKS
  BY <1>1, <1>2, FS_Product, ZenonT(40)
<1>4. Reserved \subseteq Ops \X (1 .. MAXOPBLOCKS)
  BY DEF Reserved
<1>5. QED
  BY <1>3, <1>4, FS_Subset, FS_CardinalityType

LEMMA ReserveNext ==
  ASSUME TypeOK, LogInv, ReserveInv, [Next]_vars
  PROVE ReserveInv'
<1> DEFINE Shares == \A p \in Proc :
             /\ IsFiniteSet(written[p]) /\ Cardinality(written[p]) <= MaxWrites
             /\ pc[p] = "log_write" => Cardinality(written[p] \cup {held[p]}) <= MaxWrites
           Room == boot = "up" => /\ Len(lh) + Cardinality(Reserved) <= LOGBLOCKS
                                  /\ \A p \in Ops : written[p] \subseteq Logged(lh)
<1>0. Shares /\ Room /\ TypeOK'
  BY TypeNext DEF ReserveInv, LogInv
<1> HIDE DEF Shares, Room
<1>a. Len(lh) \in Nat /\ Len(lh)' \in Nat
  BY <1>0, TypeLh
<1>c. boot = "up" => Len(lh) + Cardinality(Reserved) <= LOGBLOCKS
  BY <1>0, Zenon DEF Room
<1>d. /\ boot = "up" => \A p \in Ops : written[p] \subseteq Logged(lh)
      /\ \A p \in Proc :
             /\ IsFiniteSet(written[p]) /\ Cardinality(written[p]) <= MaxWrites
             /\ pc[p] = "log_write" => Cardinality(written[p] \cup {held[p]}) <= MaxWrites
  BY <1>0, Zenon DEF Room, Shares
<1>e. Shares' /\ Room' => ReserveInv'
  BY Zenon DEF Shares, Room, ReserveInv
<1>f. /\ pc \in [Proc -> Label] /\ written \in [Proc -> SUBSET Block]
      /\ held \in [Proc -> Block \cup {NoBlock}] /\ lh \in Seq(Block)
  BY TypePc, TypeLh, TypeHeld
<1>b. Cardinality(Reserved) \in Nat /\ IsFiniteSet(Reserved)
  BY ReservedFinite
<1>1. ASSUME NEW p \in Proc, boot = "up", BeginOp(p) PROVE ReserveInv'
  <2>1. UNCHANGED <<lh, held, boot>>
    BY <1>1 DEF BeginOp
  <2>2. CASE UNCHANGED <<written, outstanding>> /\ pc' = [pc EXCEPT ![p] = "asleep"]
    <3>1. Ops' = Ops
      BY <1>1, <2>2, TypePc DEF BeginOp, Ops
    <3>2. Reserved' = Reserved
      BY <2>2, <3>1 DEF Reserved
    <3>3. Room'
      BY <1>0, <2>1, <2>2, <3>1, <3>2, Zenon DEF Room, Logged
    <3>4. Shares'
      <4>1. \A q \in Proc : pc'[q] = "log_write" => pc[q] = "log_write"
        BY <1>f, <2>2
      <4>2. QED
        BY <1>d, <2>1, <2>2, <4>1, Zenon DEF Shares
    <3>5. QED
      BY <1>e, <3>3, <3>4
  <2>3. CASE /\ ~ MustWait /\ outstanding' = outstanding + 1 /\ pc' = [pc EXCEPT ![p] = "op"]
             /\ written' = [written EXCEPT ![p] = {}]
    <3>1. Cardinality(Reserved)' <= outstanding' * MAXOPBLOCKS /\ Cardinality(Reserved)' \in Nat
      <4>1. CountInv'
        BY CountNext DEF LogInv
      <4>2. outstanding' = Cardinality(Ops)'
        BY <1>1, <2>1, <4>1 DEF CountInv
      <4>3. /\ Cardinality(Reserved)' <= Cardinality(Ops)' * MAXOPBLOCKS
            /\ Cardinality(Reserved)' \in Nat
        <5>1. IsFiniteSet(Ops')
          BY LogAssumption, FS_Subset DEF Ops
        <5>2. IsFiniteSet(1 .. MAXOPBLOCKS) /\ Cardinality(1 .. MAXOPBLOCKS) = MAXOPBLOCKS
          BY LogAssumption, FS_Interval
        <5>3. /\ IsFiniteSet(Ops' \X (1 .. MAXOPBLOCKS))
              /\ Cardinality(Ops' \X (1 .. MAXOPBLOCKS)) = Cardinality(Ops') * MAXOPBLOCKS
          BY <5>1, <5>2, FS_Product, Zenon
        <5>4. Reserved' \subseteq Ops' \X (1 .. MAXOPBLOCKS)
          BY DEF Reserved
        <5>5. QED
          BY <5>3, <5>4, FS_Subset, FS_CardinalityType
      <4>4. QED
        BY <4>2, <4>3
    <3>2. Len(lh) + (outstanding + 1) * MAXOPBLOCKS <= LOGBLOCKS
      <4>1. outstanding \in Int /\ ~ MightExhaust
        BY <2>3, TypePc, TypeCounts DEF MustWait
      <4>2. QED
        BY <1>a, <4>1, LogAssumption DEF MightExhaust
    <3>3. Len(lh)' + Cardinality(Reserved)' <= LOGBLOCKS
      <4>1. outstanding' * MAXOPBLOCKS = (outstanding + 1) * MAXOPBLOCKS
        BY <2>3
      <4>2. (outstanding + 1) * MAXOPBLOCKS \in Int /\ LOGBLOCKS \in Int
        BY LogAssumption, TypeCounts
      <4>3. QED
        BY <1>a, <2>1, <3>1, <3>2, <4>1, <4>2
    <3>4. \A q \in Ops' : written'[q] \subseteq Logged(lh)'
      <4>1. \A q \in Ops' : q \in Ops \/ q = p
        BY <2>3, TypePc DEF Ops
      <4>2. QED
        <5>1. \A q \in Ops' : q # p => written'[q] = written[q]
          BY <1>f, <2>3 DEF Ops
        <5>2. written'[p] = {}
          BY <1>f, <2>3
        <5>3. QED
          BY <1>1, <1>d, <2>1, <4>1, <5>1, <5>2 DEF Logged
    <3>5. Shares'
      <4>1. IsFiniteSet({}) /\ Cardinality({}) = 0
        BY FS_EmptySet
      <4>2. QED
        <5>1. 0 <= MaxWrites
          BY LogAssumption
        <5>2. /\ \A q \in Proc : pc'[q] = "log_write" => q # p /\ pc[q] = "log_write"
              /\ \A q \in Proc : written'[q] = written[q] \/ written'[q] = {}
              /\ \A q \in Proc : q # p => written'[q] = written[q]
          BY <1>f, <2>3
        <5>3. QED
          BY <1>d, <2>1, <4>1, <5>1, <5>2 DEF Shares
    <3>6. Room'
      BY <3>3, <3>4, Zenon DEF Room
    <3>7. QED
      BY <1>e, <3>5, <3>6
  <2>4. QED
    BY <1>1, <2>2, <2>3 DEF BeginOp, Goto
<1>2. ASSUME NEW p \in Proc, boot = "up", NEW b \in Block, NEW v \in Data, Modify(p, b, v)
      PROVE ReserveInv'
  <2>1. /\ UNCHANGED <<lh, boot, written>> /\ pc' = [pc EXCEPT ![p] = "log_write"]
        /\ held' = [held EXCEPT ![p] = b] /\ pc[p] = "op"
        /\ Cardinality(written[p] \cup {b}) <= MaxWrites
    BY <1>2 DEF Modify, Goto, memory
  <2>2. Ops' = Ops
    BY <1>f, <2>1 DEF Ops
  <2>3. Reserved' = Reserved
    BY <2>1, <2>2 DEF Reserved
  <2>4. Room'
    BY <1>0, <2>1, <2>2, <2>3, Zenon DEF Room, Logged
  <2>5. Shares'
    <3>1. \A q \in Proc : pc'[q] = "log_write" =>
             (q = p /\ held'[q] = b) \/ (pc[q] = "log_write" /\ held'[q] = held[q])
      BY <1>f, <2>1
    <3>2. QED
      BY <1>d, <2>1, <3>1, Zenon DEF Shares
  <2>6. QED
    BY <1>e, <2>4, <2>5
<1>3. ASSUME NEW p \in Proc, boot = "up", LogWrite(p) PROVE ReserveInv'
  <2>1. pc[p] = "log_write" /\ held[p] \in Block /\ boot' = "up" /\ p \in Ops
    BY <1>3, TypePc, TypeHeld DEF LogWrite, LogInv, HeldInv, Ops
  <2>2. CASE UNCHANGED <<lh, pc, held, written>>
    <3>1. Ops' = Ops
      BY <2>2 DEF Ops
    <3>2. Reserved' = Reserved
      BY <2>2, <3>1 DEF Reserved
    <3>3. Shares'
      BY <1>0, <2>2, Zenon DEF Shares
    <3>4. Room'
      BY <1>0, <1>3, <2>2, <3>1, <3>2, Zenon DEF Room, Logged
    <3>5. QED
      BY <1>e, <3>3, <3>4
  <2>3. CASE /\ \/ lh' = lh /\ Absorbs(held[p])
                \/ lh' = Append(lh, held[p]) /\ ~ Absorbs(held[p])
             /\ written' = [written EXCEPT ![p] = @ \cup {held[p]}]
             /\ held' = [held EXCEPT ![p] = NoBlock] /\ pc' = [pc EXCEPT ![p] = "op"]
    <3>1. Ops' = Ops
      BY <2>1, <2>3, TypePc DEF Ops
    <3>2. Shares'
      <4>1. IsFiniteSet(written[p] \cup {held[p]})
        BY <1>d, FS_AddElement, Zenon
      <4>2. QED
        <5>1. /\ \A q \in Proc : pc'[q] = "log_write" =>
                     q # p /\ pc[q] = "log_write" /\ held'[q] = held[q]
              /\ written'[p] = written[p] \cup {held[p]}
              /\ \A q \in Proc : q # p => written'[q] = written[q]
          BY <1>f, <2>3
        <5>2. QED
          BY <1>d, <2>1, <4>1, <5>1, Zenon DEF Shares
    <3>3. Logged(lh)' = Logged(lh) \cup {held[p]}
      <4>1. CASE lh' = lh /\ Absorbs(held[p])
        BY <4>1 DEF Absorbs, Logged
      <4>2. CASE lh' = Append(lh, held[p])
        <5>1. lh \in Seq(Block)
          BY <1>f
        <5>2. QED
          BY <2>1, <4>2, <5>1, AppendLogged
      <4>3. QED
        BY <2>3, <4>1, <4>2
    <3>4. \A q \in Ops' : written'[q] \subseteq Logged(lh)'
      <4>1. \A q \in Proc : written'[q] = written[q] \cup {held[p]} \/ written'[q] = written[q]
        BY <1>f, <2>3
      <4>2. \A q \in Ops' : q \in Ops /\ q \in Proc
        BY <3>1 DEF Ops
      <4>3. QED
        BY <1>3, <1>d, <3>3, <4>1, <4>2
    <3>5. Len(lh)' + Cardinality(Reserved)' <= LOGBLOCKS
      <4> DEFINE n == Cardinality(written[p])
      <4>1. n \in Nat
        BY <1>d, FS_CardinalityType, Zenon
      <4>2. CASE held[p] \in written[p]
        <5>1. written' = written
          BY <1>f, <2>3, <4>2
        <5>2. Reserved' = Reserved
          BY <3>1, <5>1 DEF Reserved
        <5>3. held[p] \in Logged(lh)
          BY <1>d, <1>3, <2>1, <4>2, Zenon
        <5>4. lh' = lh
          BY <2>3, <5>3, Zenon DEF Absorbs
        <5>5. QED
          BY <1>3, <1>c, <5>2, <5>4, Zenon
      <4>3. CASE held[p] \notin written[p]
        <5>1. Cardinality(written[p] \cup {held[p]}) = n + 1
          BY <1>d, <4>3, FS_AddElement, Zenon
        <5>2. n + 1 <= MaxWrites
          BY <1>d, <2>1, <5>1, Zenon
        <5>3. n + 1 \in 1 .. MAXOPBLOCKS
          BY <4>1, <5>2, LogAssumption
        <5>4. <<p, n + 1>> \in Reserved
          BY <2>1, <4>1, <5>3 DEF Reserved
        <5>5. Reserved' = Reserved \ {<<p, n + 1>>}
          <6>1. Cardinality(written'[p]) = n + 1 /\ \A q \in Proc : q # p => written'[q] = written[q]
            BY <1>f, <2>3, <5>1
          <6>2. \A i \in 1 .. MAXOPBLOCKS : i > n + 1 <=> (i > n /\ i # n + 1)
            BY <4>1
          <6>3. \A q \in Ops, i \in 1 .. MAXOPBLOCKS :
                   <<q, i>> \in Reserved' <=> <<q, i>> \in Reserved \ {<<p, n + 1>>}
            <7>1. ASSUME NEW i \in 1 .. MAXOPBLOCKS
                  PROVE <<p, i>> \in Reserved' <=> <<p, i>> \in Reserved /\ i # n + 1
              BY <2>1, <3>1, <6>1, <6>2 DEF Reserved
            <7>2. ASSUME NEW q \in Ops, q # p, NEW i \in 1 .. MAXOPBLOCKS
                  PROVE <<q, i>> \in Reserved' <=> <<q, i>> \in Reserved
              <8>1. written'[q] = written[q]
                BY <6>1, <7>2 DEF Ops
              <8>2. QED
                BY <3>1, <8>1 DEF Reserved
            <7>3. QED
              BY <7>1, <7>2, Zenon
          <6>4. /\ Reserved \subseteq Ops \X (1 .. MAXOPBLOCKS)
                /\ Reserved' \subseteq Ops \X (1 .. MAXOPBLOCKS)
            BY <3>1 DEF Reserved
          <6>5. QED
            BY <6>3, <6>4
        <5>6. Cardinality(Reserved') = Cardinality(Reserved) - 1
          BY <1>b, <5>4, <5>5, FS_RemoveElement, Zenon
        <5>7. Len(lh') <= Len(lh) + 1
          BY <1>f, <2>1, <2>3
        <5>8. QED
          <6>1. Len(lh) + Cardinality(Reserved) <= LOGBLOCKS
            BY <1>3, <1>c
          <6>2. QED
            BY <1>a, <1>b, <5>6, <5>7, <6>1, LogAssumption
      <4>4. QED
        BY <4>2, <4>3
    <3>6. Room'
      BY <3>4, <3>5, Zenon DEF Room
    <3>7. QED
      BY <1>e, <3>2, <3>6
  <2>4. QED
    <3>1. \/ UNCHANGED <<lh, pc, held, written>>
          \/ /\ \/ lh' = lh /\ Absorbs(held[p])
                \/ lh' = Append(lh, held[p]) /\ ~ Absorbs(held[p])
             /\ written' = [written EXCEPT ![p] = @ \cup {held[p]}]
             /\ held' = [held EXCEPT ![p] = NoBlock] /\ pc' = [pc EXCEPT ![p] = "op"]
      BY <1>3, Zenon DEF LogWrite, Goto
    <3>2. QED
      BY <2>2, <2>3, <3>1
<1>4. ASSUME NEW p \in Proc, boot = "up", EndOp(p) PROVE ReserveInv'
  <2>1. UNCHANGED <<lh, held, boot, written>>
    BY <1>4 DEF EndOp
  <2>2. Ops' \subseteq Ops /\ \A q \in Proc : pc'[q] = "log_write" => pc[q] = "log_write"
    <3>1. \A q \in Proc : pc'[q] = pc[q] \/ pc'[q] \notin InOp
      BY <1>4, <1>f DEF EndOp, WakeupAndGoto, Goto, FirstCommitStep
    <3>2. QED
      BY <3>1 DEF Ops
  <2>3. Reserved' \subseteq Reserved
    BY <2>1, <2>2 DEF Reserved
  <2>4. Cardinality(Reserved') <= Cardinality(Reserved) /\ Cardinality(Reserved') \in Nat
    BY <1>b, <2>3, FS_Subset, FS_CardinalityType
  <2>5. Len(lh)' + Cardinality(Reserved)' <= LOGBLOCKS
    <3>1. Len(lh) + Cardinality(Reserved) <= LOGBLOCKS /\ lh' = lh
      BY <1>4, <1>c, <2>1
    <3>2. QED
      BY <1>a, <1>b, <2>4, <3>1, LogAssumption
  <2>6. Room'
    BY <1>4, <1>d, <2>1, <2>2, <2>5, Zenon DEF Room, Logged
  <2>7. Shares'
    BY <1>d, <2>1, <2>2, Zenon DEF Shares
  <2>8. QED
    BY <1>e, <2>6, <2>7
<1>5. ASSUME NEW p \in Proc, boot = "up", Commit(p) PROVE ReserveInv'
  <2>1. p \in Committers /\ UNCHANGED <<held, boot, written>> /\ (lh' = lh \/ lh' = <<>>)
    BY <1>5 DEF Commit, WriteLog, WriteHead, Install, ClearHead, Finish, memory, Committers
  <2>2. Ops = {}
    BY <1>5, <2>1 DEF LogInv, CountInv
  <2>3. \A q \in Proc : pc'[q] \notin InOp
    <3>1. \A q \in Proc : pc[q] \notin InOp
      BY <2>2 DEF Ops
    <3>2. CASE Finish(p)
      BY <3>1, <3>2, TypePc DEF Finish, WakeBeginners, WakeupAndGoto
    <3>3. CASE ~ Finish(p)
      <4>1. \/ pc' = pc
            \/ \E l \in InCommit : pc' = [pc EXCEPT ![p] = l]
        BY <1>5, <3>3 DEF Commit, WriteLog, WriteHead, Install, ClearHead, Goto
      <4>2. QED
        BY <3>1, <4>1, TypePc
    <3>4. QED
      BY <3>2, <3>3
  <2>4. Ops' = {}
    BY <2>3 DEF Ops
  <2>5. Reserved' = Reserved
    BY <2>2, <2>4 DEF Reserved
  <2>6. Len(lh)' <= Len(lh)
    BY <1>a, <2>1
  <2>7. Len(lh)' + Cardinality(Reserved)' <= LOGBLOCKS
    <3>1. Len(lh) + Cardinality(Reserved) <= LOGBLOCKS
      BY <1>5, <1>c
    <3>2. QED
      BY <1>a, <1>b, <2>5, <2>6, <3>1, LogAssumption
  <2>8. Room'
    BY <2>4, <2>7, Zenon DEF Room
  <2>9. Shares'
    <3>1. \A q \in Proc : pc'[q] # "log_write"
      BY <2>3
    <3>2. QED
      BY <1>d, <2>1, <3>1, Zenon DEF Shares
  <2>10. QED
    BY <1>e, <2>8, <2>9
<1>6. ASSUME NEW b \in Block, Evict(b) PROVE ReserveInv'
  <2>1. UNCHANGED <<lh, pc, held, boot, written>>
    BY <1>6 DEF Evict, memory
  <2>2. Ops' = Ops
    BY <2>1 DEF Ops
  <2>3. Reserved' = Reserved
    BY <2>1, <2>2 DEF Reserved
  <2>4. Shares' /\ Room'
    BY <1>0, <2>1, <2>2, <2>3, Zenon DEF Shares, Room, Logged
  <2>5. QED
    BY <1>e, <2>4
<1>7. CASE Recover
  <2>1. UNCHANGED <<pc, held, written>> /\ (boot' = "up" => lh' = <<>>) /\ \A p \in Proc : pc[p] = "out"
    BY <1>7, Zenon DEF Recover, RecoverReadHead, RecoverInstall, RecoverClear, LogInv, BootInv
  <2>2. Ops' = {}
    BY <2>1 DEF Ops
  <2>3. Reserved' = {}
    BY <2>2 DEF Reserved
  <2>4. Cardinality(Reserved') = 0
    BY <2>3, FS_EmptySet
  <2>5. boot' = "up" => Len(lh)' + Cardinality(Reserved)' <= LOGBLOCKS
    BY <2>1, <2>4, LogAssumption
  <2>6. QED
    <3>1. Room'
      BY <2>2, <2>5, Zenon DEF Room
    <3>2. Shares'
      BY <1>d, <2>1, Zenon DEF Shares
    <3>3. QED
      BY <1>e, <3>1, <3>2
<1>8. CASE Crash
  <2>1. IsFiniteSet({}) /\ Cardinality({}) = 0
    BY FS_EmptySet
  <2>2. QED
    <3>1. /\ boot' # "up"
          /\ \A p \in Proc : written'[p] = {} /\ pc'[p] # "log_write"
      BY <1>8 DEF Crash
    <3>2. 0 <= MaxWrites
      BY LogAssumption
    <3>3. Room'
      BY <3>1, Zenon DEF Room
    <3>4. Shares'
      BY <2>1, <3>1, <3>2 DEF Shares
    <3>5. QED
      BY <1>e, <3>3, <3>4
<1>9. CASE UNCHANGED vars
  <2>1. UNCHANGED <<lh, pc, held, boot, written>>
    BY <1>9 DEF vars
  <2>2. Ops' = Ops
    BY <2>1 DEF Ops
  <2>3. Reserved' = Reserved
    BY <2>1, <2>2 DEF Reserved
  <2>4. Shares' /\ Room'
    BY <1>0, <2>1, <2>2, <2>3, Zenon DEF Shares, Room, Logged
  <2>5. QED
    BY <1>e, <2>4
<1>10. QED
  BY <1>1, <1>2, <1>3, <1>4, <1>5, <1>6, <1>7, <1>8, <1>9 DEF Next

\* The whole invariant of log.c; its last part says that begin_op() keeps free
\* what the running operations may still log.
THEOREM IInvHolds == Spec => []IInv
<1>1. Init => ReserveInv
  <2>1. IsFiniteSet({}) /\ Cardinality({}) = 0
    BY FS_EmptySet
  <2>2. QED
    BY <2>1, LogAssumption DEF Init, ReserveInv
<1>2. TypeOK /\ LogInv /\ ReserveInv /\ [Next]_vars => ReserveInv'
  BY ReserveNext
<1>3. QED
  BY <1>1, <1>2, LogInvariant, PTL DEF Spec, IInv

\* begin_op() reserves MAXOPBLOCKS blocks for each operation: when every
\* operation logs fewer than that, none of log.c's panics is reached, for any
\* number of processes and blocks.
THEOREM NeverPanics == MaxWrites < MAXOPBLOCKS => (Spec => []NoPanic)
<1> SUFFICES ASSUME MaxWrites < MAXOPBLOCKS PROVE Spec => []NoPanic
  OBVIOUS
<1>1. Init => NoPanic
  BY DEF Init, NoPanic
<1>2. TypeOK /\ LogInv /\ ReserveInv /\ NoPanic /\ [Next]_vars => NoPanic'
  <2> SUFFICES ASSUME TypeOK, LogInv, ReserveInv, NoPanic, [Next]_vars PROVE NoPanic'
    OBVIOUS
  <2>1. ASSUME NEW p \in Proc, boot = "up", LogWrite(p) PROVE NoPanic'
    <3>1. p \in Ops
      BY <2>1, Zenon DEF LogWrite, Ops
    <3>2. IsFiniteSet(Ops) /\ Cardinality(Ops) \in Nat
      BY LogAssumption, FS_Subset, FS_CardinalityType DEF Ops
    <3>3. Cardinality(Ops) # 0
      BY <3>1, <3>2, FS_EmptySet
    <3>4. outstanding >= 1
      BY <2>1, <3>2, <3>3 DEF LogInv, CountInv
    <3>5. Cardinality(written[p]) \in Nat /\ Cardinality(written[p]) <= MaxWrites
      BY FS_CardinalityType, Zenon DEF ReserveInv
    <3>6. MAXOPBLOCKS \in 1 .. MAXOPBLOCKS /\ MAXOPBLOCKS > Cardinality(written[p])
      BY <3>5, LogAssumption
    <3>7. <<p, MAXOPBLOCKS>> \in Reserved
      BY <3>1, <3>6 DEF Reserved
    <3>8. Cardinality(Reserved) \in Nat /\ Cardinality(Reserved) # 0
      BY <3>7, ReservedFinite, FS_EmptySet
    <3>9. Len(lh) < LOGBLOCKS
      <4>1. Len(lh) \in Nat
        BY TypeLh
      <4>2. Len(lh) + Cardinality(Reserved) <= LOGBLOCKS
        BY <2>1 DEF ReserveInv
      <4>3. QED
        BY <3>8, <4>1, <4>2, LogAssumption
    <3>10. Len(lh) \in Nat /\ outstanding \in Int
      BY TypeLh, TypeCounts
    <3>11. ~ (Len(lh) >= LOGBLOCKS) /\ ~ (outstanding < 1)
      BY <3>4, <3>9, <3>10, LogAssumption
    <3>12. QED
      BY <2>1, <3>11, Zenon DEF LogWrite, NoPanic
  <2>2. ASSUME NEW p \in Proc, boot = "up", EndOp(p) PROVE NoPanic'
    <3>1. p \in Ops
      BY <2>2 DEF EndOp, Ops
    <3>2. committing # 1
      BY <2>2, <3>1 DEF LogInv, CountInv
    <3>3. QED
      BY <2>2, <3>2 DEF EndOp, NoPanic
  <2>3. QED
    BY <2>1, <2>2, Zenon DEF Next, NoPanic, vars, BeginOp, Modify, Commit, WriteLog, WriteHead, Install,
       ClearHead, Finish, Evict, Recover, RecoverReadHead, RecoverInstall, RecoverClear, Crash
<1>3. QED
  BY <1>1, <1>2, IInvHolds, PTL DEF Spec, IInv

(***************************************************************************)
(* Replaying a log.                                                        *)
(***************************************************************************)
LEMMA ReplayAt ==
  ASSUME NEW h \in Seq(Block), Distinct(h), NEW s, NEW d
  PROVE /\ \A i \in DOMAIN h : Replay(h, s, d)[h[i]] = s[i]
        /\ \A b \in Block : b \notin Logged(h) => Replay(h, s, d)[b] = d[b]
<1>1. ASSUME NEW i \in DOMAIN h PROVE Replay(h, s, d)[h[i]] = s[i]
  <2>1. h[i] \in Block /\ h[i] \in Logged(h)
    BY <1>1 DEF Logged
  <2>2. (CHOOSE j \in DOMAIN h : h[j] = h[i]) = i
    BY <1>1 DEF Distinct
  <2>3. QED
    BY <2>1, <2>2, Zenon DEF Replay
<1>2. QED
  BY <1>1, Zenon DEF Replay

\* A log whose slots hold f replayed over a disk that is f elsewhere gives f.
LEMMA ReplayIs ==
  ASSUME NEW h \in Seq(Block), Distinct(h), NEW s, NEW d, NEW f,
         f = [b \in Block |-> f[b]],
         \A i \in DOMAIN h : s[i] = f[h[i]],
         \A b \in Block : b \notin Logged(h) => d[b] = f[b]
  PROVE Replay(h, s, d) = f
<1>1. ASSUME NEW b \in Block PROVE Replay(h, s, d)[b] = f[b]
  <2>1. CASE b \in Logged(h)
    <3>1. PICK i \in DOMAIN h : h[i] = b
      BY <2>1 DEF Logged
    <3>2. QED
      BY <3>1, ReplayAt
  <2>2. CASE b \notin Logged(h)
    BY <1>1, <2>2, ReplayAt
  <2>3. QED
    BY <2>1, <2>2
<1>2. QED
  BY <1>1, Zenon DEF Replay

LEMMA ReplayEmpty ==
  ASSUME NEW s, NEW d \in [Block -> Data]
  PROVE Replay(<<>>, s, d) = d
BY DEF Replay, Logged

\* Copying slots to their home blocks changes nothing that recovery would.
LEMMA ReplayInstall ==
  ASSUME NEW h \in Seq(Block), NEW s, NEW d, NEW e,
         \A b \in Block : b \notin Logged(h) => e[b] = d[b]
  PROVE Replay(h, s, e) = Replay(h, s, d)
BY DEF Replay

(***************************************************************************)
(* One step of the log is one step of AtomicDisk, or none.                 *)
(***************************************************************************)
LEMMA AbstractStep ==
  ASSUME TypeOK, LogInv, [Next]_vars
  PROVE [Abstract!Next]_(Abstract!vars)
<1>1. /\ header \in Seq(Block) /\ lh \in Seq(Block) /\ Distinct(header) /\ Distinct(lh)
      /\ disk \in [Block -> Data] /\ cache \in [Block -> Data]
  BY DEF TypeOK, LogInv
<1>2. ASSUME NEW p \in Proc, boot = "up", BeginOp(p) PROVE [Abstract!Next]_(Abstract!vars)
  <2>1. UNCHANGED <<cache, boot, header, logdata, disk>>
    BY <1>2 DEF BeginOp, persistent
  <2>2. Recovered' = Recovered
    BY <2>1 DEF Recovered
  <2>3. Ops' = Ops \/ (p \notin Ops /\ Ops' = Ops \cup {p})
    BY <1>2 DEF BeginOp, Goto, Ops, TypeOK
  <2>4. QED
    BY <1>2, <2>1, <2>2, <2>3 DEF Abstract!Next, Abstract!vars, Abstract!Begin, Ops
<1>3. ASSUME NEW p \in Proc, boot = "up", NEW b \in Block, NEW v \in Data, Modify(p, b, v)
      PROVE [Abstract!Next]_(Abstract!vars)
  <2>1. UNCHANGED <<boot, header, logdata, disk>> /\ cache' = [cache EXCEPT ![b] = v]
    BY <1>3 DEF Modify, persistent
  <2>2. Recovered' = Recovered
    BY <2>1 DEF Recovered
  <2>3. Ops' = Ops /\ p \in Ops
    BY <1>3 DEF Modify, Goto, Ops, TypeOK
  <2>4. QED
    BY <1>3, <2>1, <2>2, <2>3, Zenon DEF Abstract!Next, Abstract!vars, Abstract!Write, Ops
<1>4. ASSUME NEW p \in Proc, boot = "up", LogWrite(p) PROVE [Abstract!Next]_(Abstract!vars)
  <2>1. UNCHANGED <<boot, header, logdata, disk, cache>>
    BY <1>4 DEF LogWrite, persistent
  <2>2. Recovered' = Recovered
    BY <2>1 DEF Recovered
  <2>3. pc[p] = "log_write" /\ (pc' = pc \/ pc' = [pc EXCEPT ![p] = "op"])
    BY <1>4, Zenon DEF LogWrite, Goto
  <2>4. Ops' = Ops
    BY <2>3 DEF Ops, TypeOK
  <2>5. QED
    BY <2>1, <2>2, <2>4 DEF Abstract!vars, Ops
<1>5. ASSUME NEW p \in Proc, boot = "up", EndOp(p) PROVE [Abstract!Next]_(Abstract!vars)
  <2>1. UNCHANGED <<boot, header, logdata, disk, cache>>
    BY <1>5 DEF EndOp, persistent
  <2>2. Recovered' = Recovered
    BY <2>1 DEF Recovered
  <2>3. p \in Ops /\ (Ops' = Ops \/ Ops' = Ops \ {p})
    BY <1>5 DEF EndOp, FirstCommitStep, WakeupAndGoto, Goto, Ops, TypeOK
  <2>4. QED
    BY <1>5, <2>1, <2>2, <2>3 DEF Abstract!Next, Abstract!vars, Abstract!End, Ops
<1>6. ASSUME NEW p \in Proc, boot = "up", Commit(p) PROVE [Abstract!Next]_(Abstract!vars)
  <2>1. p \in Committers /\ boot' = "up"
    BY <1>6 DEF Commit, WriteLog, WriteHead, Install, ClearHead, Finish, Committers
  <2>2. Ops = {} /\ \A q \in Committers : q = p
    BY <1>6, <2>1 DEF LogInv, CountInv
  <2>3. Ops' = {}
    <3>1. \A q \in Proc : pc[q] \notin InOp
      BY <2>2 DEF Ops
    <3>2. CASE Finish(p)
      BY <3>1, <3>2 DEF Finish, WakeBeginners, WakeupAndGoto, TypeOK, Ops
    <3>3. CASE ~ Finish(p)
      <4>1. \/ pc' = pc
            \/ \E l \in InCommit : pc' = [pc EXCEPT ![p] = l]
        BY <1>6, <3>3 DEF Commit, WriteLog, WriteHead, Install, ClearHead, Goto
      <4>2. QED
        BY <3>1, <4>1 DEF TypeOK, Ops
    <3>4. QED
      BY <3>2, <3>3
  <2>4. SUFFICES cache' = cache /\ (Recovered' = Recovered \/ Recovered' = cache)
    BY <1>6, <2>1, <2>2, <2>3 DEF Abstract!Next, Abstract!vars, Abstract!Sync, Ops
  <2>5. pc[p] \notin {"install", "clear"} => header = <<>>
    BY <1>6, <2>1, <2>2 DEF LogInv, HeaderInv, Committers
  <2>6. CASE WriteLog(p)
    <3>1. header = <<>> /\ header' = <<>> /\ disk' = disk /\ cache' = cache
      BY <2>5, <2>6 DEF WriteLog
    <3>2. QED
      BY <1>1, <3>1, ReplayEmpty DEF Recovered
  <2>7. CASE WriteHead(p)
    <3>1. header' = lh /\ UNCHANGED <<logdata, disk, cache>> /\ pc[p] = "write_head"
      BY <2>7 DEF WriteHead
    <3>2. \A i \in DOMAIN lh : logdata[i] = cache[lh[i]]
      BY <1>1, <3>1 DEF LogInv, CommitInv, SlotsHold
    <3>3. \A b \in Block : b \notin Logged(lh) => disk[b] = cache[b]
      <4>1. \A q \in Proc : held[q] = NoBlock
        BY <2>2 DEF LogInv, HeldInv, Ops
      <4>2. QED
        BY <1>6, <4>1, LogAssumption DEF LogInv, CleanInv
    <3>4. Replay(lh, logdata, disk) = cache
      BY <1>1, <3>2, <3>3, ReplayIs
    <3>5. QED
      BY <3>1, <3>4 DEF Recovered
  <2>8. CASE Install(p)
    <3>1. /\ UNCHANGED <<header, logdata>> /\ pc[p] = "install"
          /\ cache' = [cache EXCEPT ![lh[tail + 1]] = logdata[tail + 1]]
          /\ disk' = [disk EXCEPT ![lh[tail + 1]] = logdata[tail + 1]]
      BY <2>8 DEF Install
    <3>2. header = lh /\ tail < Len(lh) /\ SlotsHold(Len(lh), cache)
      BY <3>1 DEF LogInv, CommitInv
    <3>3. tail + 1 \in DOMAIN lh /\ tail + 1 <= Len(lh)
      BY <3>2, TailInRange, TypeLh
    <3>4. logdata[tail + 1] = cache[lh[tail + 1]]
      BY <3>2, <3>3 DEF SlotsHold
    <3>5. cache' = cache
      BY <1>1, <3>1, <3>4
    <3>6. Replay(header, logdata, disk') = Replay(header, logdata, disk)
      <4>1. lh[tail + 1] \in Logged(lh)
        BY <3>3 DEF Logged
      <4>2. \A b \in Block : b \notin Logged(header) => disk'[b] = disk[b]
        BY <1>1, <3>1, <3>2, <4>1
      <4>3. QED
        BY <1>1, <4>2, ReplayInstall
    <3>7. QED
      BY <3>1, <3>5, <3>6 DEF Recovered
  <2>9. CASE ClearHead(p)
    <3>1. header' = <<>> /\ UNCHANGED <<logdata, disk, cache>> /\ pc[p] = "clear"
      BY <2>9 DEF ClearHead
    <3>2. header = lh /\ \A i \in DOMAIN lh : logdata[i] = disk[lh[i]]
      BY <1>1, <3>1 DEF LogInv, CommitInv, SlotsHold
    <3>3. Replay(header, logdata, disk) = disk
      BY <1>1, <3>2, ReplayIs
    <3>4. QED
      BY <1>1, <3>1, <3>3, ReplayEmpty DEF Recovered
  <2>10. CASE Finish(p)
    BY <2>10 DEF Finish, persistent, Recovered
  <2>11. QED
    BY <1>6, <2>6, <2>7, <2>8, <2>9, <2>10 DEF Commit
<1>7. ASSUME NEW b \in Block, boot = "up", Evict(b) PROVE [Abstract!Next]_(Abstract!vars)
  <2>1. UNCHANGED <<boot, header, logdata, disk, pc>>
    BY <1>7 DEF Evict, persistent
  <2>2. cache' = cache
    BY <1>7, EvictHarmless DEF LogInv
  <2>3. QED
    BY <2>1, <2>2 DEF Abstract!vars, Recovered
<1>8. CASE Recover
  <2>1. /\ pc' = pc /\ boot # "up" /\ cache = disk /\ cache' = disk'
    BY <1>8 DEF Recover, RecoverReadHead, RecoverInstall, RecoverClear, LogInv, BootInv, persistent
  <2>2. SUFFICES Recovered' = Recovered /\ (boot' = "up" => Recovered' = cache')
    BY <2>1 DEF Abstract!vars
  <2>3. CASE RecoverReadHead
    BY <2>3 DEF RecoverReadHead, persistent, Recovered
  <2>4. CASE RecoverInstall
    <3>1. /\ UNCHANGED <<header, logdata>> /\ boot = "install" /\ boot' # "up"
          /\ disk' = [disk EXCEPT ![lh[tail + 1]] = logdata[tail + 1]]
      BY <2>4 DEF RecoverInstall
    <3>2. header = lh /\ tail < Len(lh)
      BY <3>1 DEF LogInv, BootInv
    <3>3. tail + 1 \in DOMAIN lh
      BY <3>2, TailInRange, TypeLh
    <3>4. Replay(header, logdata, disk') = Replay(header, logdata, disk)
      <4>1. lh[tail + 1] \in Logged(lh)
        BY <3>3 DEF Logged
      <4>2. \A b \in Block : b \notin Logged(header) => disk'[b] = disk[b]
        BY <1>1, <3>1, <3>2, <4>1
      <4>3. QED
        BY <1>1, <4>2, ReplayInstall
    <3>5. QED
      BY <3>1, <3>4 DEF Recovered
  <2>5. CASE RecoverClear
    <3>1. header' = <<>> /\ UNCHANGED <<logdata, disk, cache>> /\ boot = "clear"
      BY <2>5 DEF RecoverClear
    <3>2. header = lh /\ \A i \in DOMAIN lh : logdata[i] = disk[lh[i]]
      BY <1>1, <3>1 DEF LogInv, BootInv, SlotsHold
    <3>3. Replay(header, logdata, disk) = disk
      BY <1>1, <3>2, ReplayIs
    <3>4. QED
      BY <1>1, <2>1, <3>1, <3>3, ReplayEmpty DEF Recovered
  <2>6. QED
    BY <1>8, <2>3, <2>4, <2>5 DEF Recover
<1>9. CASE Crash
  <2>1. UNCHANGED <<header, logdata, disk>> /\ boot' # "up" /\ Ops' = {}
    BY <1>9 DEF Crash, persistent, Ops
  <2>2. Recovered' = Recovered
    BY <2>1 DEF Recovered
  <2>3. QED
    BY <2>1, <2>2 DEF Abstract!Next, Abstract!Crash, Ops
<1>10. CASE UNCHANGED vars
  BY <1>10 DEF vars, Abstract!vars, Recovered
<1>11. QED
  BY <1>2, <1>3, <1>4, <1>5, <1>6, <1>7, <1>8, <1>9, <1>10 DEF Next

\* The log refines AtomicDisk: an operation's writes become durable together
\* or not at all, whatever moment log.c is interrupted at, recovery included.
THEOREM LogImplementsAtomicDisk == Spec => AtomicAcrossCrashes
<1>1. Init => Abstract!Init
  <2> SUFFICES ASSUME Init PROVE Abstract!Init
    OBVIOUS
  <2>1. disk \in [Block -> Data] /\ header = <<>> /\ boot # "up" /\ \A p \in Proc : pc[p] = "out"
    BY DEF Init
  <2>2. Recovered = disk
    BY <2>1, ReplayEmpty DEF Recovered
  <2>3. QED
    BY <2>1, <2>2 DEF Abstract!Init
<1>2. TypeOK /\ LogInv /\ [Next]_vars => [Abstract!Next]_(Abstract!vars)
  BY AbstractStep
<1>3. QED
  BY <1>1, <1>2, LogInvariant, PTL DEF Spec, AtomicAcrossCrashes, Abstract!Spec

\* When the end_op() that commits returns, what every finished operation wrote
\* is what a reboot would find.
THEOREM CommitIsDurable == Spec => DurableOnReturn
<1> DEFINE Step == \A p \in Proc : (pc[p] = "finish" /\ pc'[p] = "out" /\ boot' = "up")
                       => Recovered' = cache'
<1>1. TypeOK /\ LogInv /\ [Next]_vars => [Step]_vars
  <2> SUFFICES ASSUME TypeOK, LogInv, Next, NEW p \in Proc,
                      pc[p] = "finish", pc'[p] = "out", boot' = "up"
               PROVE Recovered' = cache'
    BY Zenon
  <2>1. boot = "up" /\ p \in Committers
    BY DEF LogInv, BootInv, Committers
  <2>2. Ops = {} /\ (\A q \in Committers : q = p) /\ lh = <<>>
    BY <2>1 DEF LogInv, CountInv, CommitInv
  <2>3. header = <<>>
    BY <2>1, <2>2 DEF LogInv, HeaderInv, Committers
  <2>4. cache = disk
    <3>1. \A b \in Block : cache[b] = disk[b]
      <4>1. \A q \in Proc : held[q] = NoBlock
        BY <2>2 DEF LogInv, HeldInv, Ops
      <4>2. Logged(lh) = {}
        BY <2>2 DEF Logged
      <4>3. QED
        BY <2>1, <4>1, <4>2, LogAssumption DEF LogInv, CleanInv
    <3>2. QED
      BY <3>1, TypeBlocks
  <2>5. UNCHANGED <<header, disk, cache>>
    <3>1. \A q \in Proc : q # p => pc[q] \notin InOp /\ pc[q] \notin InCommit
      BY <2>2 DEF Ops, Committers
    <3>2. QED
      BY <2>1, <2>4, <3>1, ZenonT(40) DEF Next, BeginOp, Modify, LogWrite, EndOp, Commit, WriteLog, WriteHead,
         Install, ClearHead, Finish, Evict, Recover, RecoverReadHead, RecoverInstall,
         RecoverClear, Crash, persistent, Goto, TypeOK
  <2>6. QED
    BY <2>3, <2>4, <2>5, ReplayEmpty DEF Recovered, TypeOK
<1>2. QED
  BY <1>1, LogInvariant, PTL DEF Spec, DurableOnReturn
=============================================================================

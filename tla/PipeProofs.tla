----------------------------- MODULE PipeProofs -----------------------------
(***************************************************************************)
(* Proofs about kernel/pipe.c, for every number of processes, buffer size  *)
(* and counter width: PipeInv and WakeupsUnlessKilled of module Pipe.      *)
(*                                                                         *)
(* PipeBase is the inductive invariant.  Next to what PipeInv says of the  *)
(* ring it needs three things that the code relies on and never states:    *)
(* that the holder of pi->lock is alone inside the loops (LockInv), that   *)
(* f->ref counts the processes that hold an end, so that the one in        *)
(* pipeclose() is the last (EndsInv), and that a sleeper whose reason has  *)
(* gone is owed a wakeup by the process in the other loop (SleepInv).      *)
(***************************************************************************)
EXTENDS Pipe, Remainders, FiniteSetTheorems, TLAPS

\* Seconds that a prover may take over one leaf.
USE SMTT(20), ZenonT(40)

(***************************************************************************)
(* The inductive invariant                                                 *)
(***************************************************************************)
\* The ring holds the bytes between nread and nwrite, numbered from taken.
RingInv ==
  /\ Count <= PIPESIZE
  /\ (sent - taken) % STREAM = Count
  /\ \A k \in 0 .. Count - 1 : data[(nread + k) % PIPESIZE] = (taken + k) % STREAM

\* pi->lock has at most one holder, the process between acquire() and release().
LockInv ==
  /\ \A p \in Proc : p \in lock <=> pc[p] \in Locked
  /\ \A p, q \in lock : p = q

\* The count of an end is the number of processes that have it open, and the
\* process that closed it last is alone in pipeclose() for it; who is inside
\* read() or write() has the end open.
Holders(e) == {p \in Proc : e \in fds[p]}
EndsInv ==
  /\ \A e \in {"r", "w"} : ref[e] = Cardinality(Holders(e))
  /\ \A p \in Proc : pc[p] = "unborn" => fds[p] = {}
  /\ \A p \in Proc : pc[p] \in Reading => "r" \in fds[p]
  /\ \A p \in Proc : pc[p] \in Writing => "w" \in fds[p]
  /\ \A p, q \in Proc : pc[p] = "close_r" =>
       readopen = 1 /\ "r" \notin fds[q] /\ (pc[q] = "close_r" => q = p)
  /\ \A p, q \in Proc : pc[p] = "close_w" =>
       writeopen = 1 /\ "w" \notin fds[q] /\ (pc[q] = "close_w" => q = p)
  /\ readopen = 0 => \A q \in Proc : "r" \notin fds[q]
  /\ writeopen = 0 => \A q \in Proc : "w" \notin fds[q]
  /\ freed = IF readopen = 0 /\ writeopen = 0 THEN 1 ELSE 0

\* Between the last look at the ring and sleep() the ring does not change, and
\* a sleeper whose reason has gone is owed the wakeup at the end of the loop
\* that a process is in.
SleepInv ==
  /\ \A p \in Proc : pc[p] = "r_sleep" => Empty /\ writeopen = 1
  /\ \A p \in Proc : pc[p] = "w_sleep" => Full /\ readopen = 1
  /\ \A p \in Proc : pc[p] = "r_asleep" =>
       writeopen = 1 /\ (Empty \/ \E q \in Proc : killed[q] = 1 \/ pc[q] = "w_loop")
  /\ \A p \in Proc : pc[p] = "w_asleep" =>
       readopen = 1 /\ (Full \/ \E q \in Proc : pc[q] = "r_copy")

\* The types, of the ring and of the rest; i counts up to n.
RingType ==
  /\ nread \in 0 .. UINT - 1 /\ nwrite \in 0 .. UINT - 1
  /\ data \in [0 .. PIPESIZE - 1 -> 0 .. STREAM - 1]
  /\ taken \in 0 .. STREAM - 1 /\ sent \in 0 .. STREAM - 1

ProcType ==
  /\ readopen \in {0, 1} /\ writeopen \in {0, 1} /\ freed \in Nat
  /\ lock \subseteq Proc
  /\ ref \in [{"r", "w"} -> Nat]
  /\ fds \in [Proc -> SUBSET {"r", "w"}]
  /\ pc \in [Proc -> Label]
  /\ n \in [Proc -> 0 .. MaxN] /\ i \in [Proc -> 0 .. MaxN]
  /\ killed \in [Proc -> {0, 1}]

Progress == \A p \in Proc : i[p] <= n[p]

\* The inductive invariant.
PipeBase ==
  RingType /\ RingInv /\ ProcType /\ Progress /\ LockInv /\ EndsInv /\ SleepInv

(***************************************************************************)
(* The ring                                                                *)
(***************************************************************************)
\* The counters and their distance are numbers, and nwrite is Count after
\* nread.
LEMMA RingNumbers ==
  ASSUME RingType
  PROVE  /\ nread \in Int /\ nwrite \in Int /\ taken \in Int /\ sent \in Int
         /\ Count \in 0 .. UINT - 1
         /\ nwrite = (nread + Count) % UINT
<1>1. nread \in 0 .. UINT - 1 /\ nwrite \in 0 .. UINT - 1 /\ taken \in Int /\ sent \in Int
  BY PipeAssumption DEF RingType
<1>2. UINT \in Nat /\ UINT > 0
  BY PipeAssumption
<1>3. nwrite - nread \in Int
  BY <1>1
<1>4. Count \in 0 .. UINT - 1
  BY <1>2, <1>3, ModDef DEF Count
<1>5. (((nwrite - nread) % UINT) + nread) % UINT = ((nwrite - nread) + nread) % UINT
  BY <1>1, <1>2, <1>3, ModInner
<1>6. (nwrite - nread) + nread = nwrite /\ Count + nread = nread + Count
  BY <1>1, <1>4
<1>7. nwrite % UINT = nwrite
  BY <1>1, <1>2, ModSmall
<1>8. QED BY <1>1, <1>4, <1>5, <1>6, <1>7 DEF Count

\* The tests of pipewrite() and piperead() on the wrapped counters,
\* pi->nwrite == pi->nread + PIPESIZE and pi->nread == pi->nwrite, say that
\* the ring holds PIPESIZE bytes and none.
LEMMA FullIs ==
  ASSUME RingType
  PROVE  (Full <=> Count = PIPESIZE) /\ (Empty <=> Count = 0)
<1>0. UINT \in Nat /\ UINT > 0 /\ PIPESIZE \in 1 .. UINT - 1
  BY PipeAssumption
<1>1. nread \in 0 .. UINT - 1 /\ nwrite \in 0 .. UINT - 1
  BY DEF RingType
<1>2. Count = PIPESIZE => Full
  BY RingNumbers DEF Full
<1>3. Full => Count = PIPESIZE
  <2> SUFFICES ASSUME Full PROVE Count = PIPESIZE
    OBVIOUS
  <2>1. (((nread + PIPESIZE) % UINT) + (- nread)) % UINT = ((nread + PIPESIZE) + (- nread)) % UINT
    <3>1. nread + PIPESIZE \in Int /\ - nread \in Int
      BY <1>0, <1>1
    <3>2. QED BY <1>0, <3>1, ModInner
  <2>2. ((nread + PIPESIZE) + (- nread)) = PIPESIZE /\ nwrite + (- nread) = nwrite - nread
    BY <1>0, <1>1
  <2>3. PIPESIZE % UINT = PIPESIZE
    BY <1>0, ModSmall
  <2>4. QED BY <2>1, <2>2, <2>3 DEF Full, Count
<1>4. Empty => Count = 0
  BY <1>0, <1>1 DEF Empty, Count
<1>5. Count = 0 => Empty
  <2> SUFFICES ASSUME Count = 0 PROVE Empty
    OBVIOUS
  <2>1. nwrite = (nread + 0) % UINT
    BY RingNumbers
  <2>2. nread + 0 = nread /\ nread % UINT = nread
    BY <1>0, <1>1, ModSmall
  <2>3. QED BY <2>1, <2>2 DEF Empty
<1>6. QED BY <1>2, <1>3, <1>4, <1>5

\* pipewrite()'s data[nwrite++ % PIPESIZE] = ch on a ring that is not full:
\* it lands in a slot that holds no byte, after the newest one.
LEMMA RingPuts ==
  ASSUME RingType, RingInv, ~ Full,
         data' = [data EXCEPT ![nwrite % PIPESIZE] = sent],
         nwrite' = Bump(nwrite), sent' = (sent + 1) % STREAM, UNCHANGED <<nread, taken>>
  PROVE  RingType' /\ RingInv'
<1>a. UINT \in Nat /\ UINT > 0
  BY PipeAssumption
<1>b. STREAM \in Nat /\ STREAM > 0
  BY PipeAssumption
<1>c. PIPESIZE \in Nat /\ PIPESIZE > 0 /\ UINT % PIPESIZE = 0
  BY PipeAssumption
<1>d. PIPESIZE < UINT /\ PIPESIZE < STREAM
  BY PipeAssumption
<1>1. nread \in Int /\ nwrite \in Int /\ taken \in Int /\ sent \in Int /\ Count \in 0 .. UINT - 1
  BY RingNumbers
<1>2. Count < PIPESIZE
  BY <1>c, <1>1, FullIs DEF RingInv
<1>3. Count' = Count + 1
  <2>1. ((nwrite - nread) % UINT) + 1 < UINT
    BY <1>a, <1>c, <1>d, <1>1, <1>2 DEF Count
  <2>2. (((nwrite + 1) % UINT) - nread) % UINT = ((nwrite - nread) % UINT) + 1
    BY Zenon, <1>a, <1>1, <2>1, DistanceUp
  <2>3. QED BY <2>2 DEF Count, Bump
<1>4. (sent' - taken') % STREAM = Count'
  <2>1. ((sent - taken) % STREAM) + 1 < STREAM
    BY <1>b, <1>c, <1>d, <1>1, <1>2 DEF RingInv
  <2>2. (((sent + 1) % STREAM) - taken) % STREAM = ((sent - taken) % STREAM) + 1
    BY Zenon, <1>b, <1>1, <2>1, DistanceUp
  <2>3. QED BY <1>3, <2>2 DEF RingInv
<1>5. nwrite % PIPESIZE = (nread + Count) % PIPESIZE
  <2>1. nwrite = (nread + Count) % UINT
    BY RingNumbers
  <2>2. nread + Count \in Int
    BY <1>1
  <2>3. ((nread + Count) % UINT) % PIPESIZE = (nread + Count) % PIPESIZE
    BY Zenon, <1>a, <1>c, <2>2, WrapIndex
  <2>4. QED BY <2>1, <2>3
<1>6. sent = (taken + Count) % STREAM
  <2>1. sent \in 0 .. STREAM - 1
    BY DEF RingType
  <2>2. sent = (taken + ((sent - taken) % STREAM)) % STREAM
    BY Zenon, <1>b, <1>1, <2>1, DistanceBack
  <2>3. QED BY <2>2 DEF RingInv
<1>7. nwrite % PIPESIZE \in 0 .. PIPESIZE - 1
  BY <1>a, <1>b, <1>c, <1>d, <1>1, ModDef
<1>8. ASSUME NEW k \in 0 .. Count' - 1
      PROVE  data'[(nread + k) % PIPESIZE] = (taken + k) % STREAM
  <2>0. k \in Int /\ 0 <= k /\ k <= Count /\ nread + k \in Int /\ nread + Count \in Int
    BY <1>1, <1>3
  <2>1. CASE k = Count
    BY <1>5, <1>6, <1>7, <2>1 DEF RingType
  <2>2. CASE k # Count
    <3>1. k \in 0 .. Count - 1
      BY <1>1, <2>0, <2>2
    <3>2. 0 < (nread + Count) - (nread + k) /\ (nread + Count) - (nread + k) < PIPESIZE
      BY <1>a, <1>b, <1>c, <1>d, <1>1, <1>2, <2>0, <2>2
    <3>3. (nread + Count) % PIPESIZE # (nread + k) % PIPESIZE
      BY <1>a, <1>b, <1>c, <1>d, <2>0, <3>2, ModApart
    <3>4. (nread + k) % PIPESIZE \in 0 .. PIPESIZE - 1
      BY <1>a, <1>b, <1>c, <1>d, <2>0, ModDef
    <3>5. data'[(nread + k) % PIPESIZE] = data[(nread + k) % PIPESIZE]
      BY <1>5, <3>3, <3>4 DEF RingType
    <3>6. QED BY <3>1, <3>5 DEF RingInv
  <2>3. QED BY <2>1, <2>2
<1>9. Count' <= PIPESIZE
  BY <1>a, <1>b, <1>c, <1>d, <1>1, <1>2, <1>3
<1>10. RingType'
  <2>1. nwrite + 1 \in Int /\ sent + 1 \in Int /\ sent \in 0 .. STREAM - 1
    BY <1>1 DEF RingType
  <2>2. nwrite' \in 0 .. UINT - 1
    BY <1>a, <2>1, ModDef DEF Bump
  <2>3. sent' \in 0 .. STREAM - 1
    BY <1>b, <2>1, ModDef
  <2>4. data' \in [0 .. PIPESIZE - 1 -> 0 .. STREAM - 1]
    BY Zenon, <2>1 DEF RingType
  <2>5. QED BY Zenon, <2>2, <2>3, <2>4 DEF RingType
<1>11. QED BY Zenon, <1>4, <1>8, <1>9, <1>10 DEF RingInv

\* piperead()'s data[nread++ % PIPESIZE] on a ring that is not empty takes
\* the oldest byte.
LEMMA RingTakes ==
  ASSUME RingType, RingInv, ~ Empty,
         nread' = Bump(nread), taken' = (taken + 1) % STREAM, UNCHANGED <<nwrite, data, sent>>
  PROVE  RingType' /\ RingInv'
<1>a. UINT \in Nat /\ UINT > 0
  BY PipeAssumption
<1>b. STREAM \in Nat /\ STREAM > 0
  BY PipeAssumption
<1>c. PIPESIZE \in Nat /\ PIPESIZE > 0 /\ UINT % PIPESIZE = 0
  BY PipeAssumption
<1>1. nread \in Int /\ nwrite \in Int /\ taken \in Int /\ sent \in Int /\ Count \in 0 .. UINT - 1
  BY RingNumbers
<1>2. Count > 0
  BY <1>1, FullIs
<1>3. Count' = Count - 1
  <2>1. (nwrite - nread) % UINT > 0
    BY <1>2 DEF Count
  <2>2. (nwrite - ((nread + 1) % UINT)) % UINT = ((nwrite - nread) % UINT) - 1
    BY Zenon, <1>a, <1>1, <2>1, DistanceDown
  <2>3. QED BY <2>2 DEF Count, Bump
<1>4. (sent' - taken') % STREAM = Count'
  <2>1. (sent - taken) % STREAM > 0
    BY <1>2 DEF RingInv
  <2>2. (sent - ((taken + 1) % STREAM)) % STREAM = ((sent - taken) % STREAM) - 1
    BY Zenon, <1>b, <1>1, <2>1, DistanceDown
  <2>3. QED BY <1>3, <2>2 DEF RingInv
<1>5. ASSUME NEW k \in 0 .. Count' - 1
      PROVE  data[(nread' + k) % PIPESIZE] = (taken' + k) % STREAM
  <2>0. k \in Int /\ k + 1 \in 0 .. Count - 1
    BY <1>1, <1>3
  <2>1. (((nread + 1) % UINT) + k) % PIPESIZE = (nread + (k + 1)) % PIPESIZE
    <3>1. k \in Int /\ nread \in Int
      BY <1>1, <2>0
    <3>2. QED BY Zenon, <1>a, <1>c, <3>1, WrapNext
  <2>2. (((taken + 1) % STREAM) + k) % STREAM = (taken + (k + 1)) % STREAM
    <3>1. STREAM % STREAM = 0
      BY <1>b
    <3>2. QED BY Zenon, <1>b, <1>1, <2>0, <3>1, WrapNext
  <2>3. QED BY <2>0, <2>1, <2>2 DEF RingInv, Bump
<1>6. Count' <= PIPESIZE
  BY <1>c, <1>1, <1>3 DEF RingInv
<1>7. RingType'
  <2>1. nread + 1 \in Int /\ taken + 1 \in Int
    BY <1>1
  <2>2. nread' \in 0 .. UINT - 1
    BY <1>a, <2>1, ModDef DEF Bump
  <2>3. taken' \in 0 .. STREAM - 1
    BY <1>b, <2>1, ModDef
  <2>4. QED BY Zenon, <2>2, <2>3 DEF RingType
<1>8. QED BY Zenon, <1>4, <1>5, <1>6, <1>7 DEF RingInv

\* Steps that leave the ring alone.
LEMMA RingStays ==
  ASSUME RingType, RingInv, UNCHANGED ring
  PROVE  RingType' /\ RingInv' /\ Full' = Full /\ Empty' = Empty
<1>1. nread' = nread /\ nwrite' = nwrite /\ data' = data /\ taken' = taken /\ sent' = sent
  BY DEF ring
<1>2. Count' = Count
  BY Zenon, <1>1 DEF Count
<1>3. RingInv'
  BY Zenon, <1>1, <1>2 DEF RingInv
<1>4. RingType' /\ Full' = Full /\ Empty' = Empty
  BY Zenon, <1>1 DEF RingType, Full, Empty
<1>5. QED BY <1>3, <1>4

(***************************************************************************)
(* The ends and the sleepers                                               *)
(***************************************************************************)
\* The assumptions that do not speak of the ring.
LEMMA Sizes == MaxN \in Nat /\ IsFiniteSet(Proc) /\ 0 \in 0 .. MaxN
BY PipeAssumption

\* The holders of an end can be counted.
LEMMA HoldersFinite == \A e : IsFiniteSet(Holders(e)) /\ Cardinality(Holders(e)) \in Nat
<1> SUFFICES ASSUME NEW e PROVE IsFiniteSet(Holders(e)) /\ Cardinality(Holders(e)) \in Nat
  OBVIOUS
<1>1. Holders(e) \in SUBSET Proc
  BY DEF Holders
<1>2. IsFiniteSet(Holders(e))
  BY Zenon, <1>1, FS_Subset, Sizes
<1>3. QED BY Zenon, <1>2, FS_CardinalityType

\* Steps that open and close nothing, of processes that have the end they
\* use.
LEMMA EndsStay ==
  ASSUME EndsInv, ref' = ref, fds' = fds,
         readopen' = readopen, writeopen' = writeopen, freed' = freed,
         \A s \in Proc : pc'[s] # pc[s] =>
           /\ pc'[s] \notin {"unborn", "close_r", "close_w"}
           /\ pc'[s] \in Reading => "r" \in fds[s]
           /\ pc'[s] \in Writing => "w" \in fds[s]
  PROVE  EndsInv'
<1>1. \A e \in {"r", "w"} : ref'[e] = Cardinality(Holders(e)')
  <2>1. \A e : Holders(e)' = Holders(e)
    BY DEF Holders
  <2>2. QED BY <2>1 DEF EndsInv
<1>2. /\ \A p \in Proc : pc'[p] = "unborn" => fds'[p] = {}
      /\ \A p \in Proc : pc'[p] \in Reading => "r" \in fds'[p]
      /\ \A p \in Proc : pc'[p] \in Writing => "w" \in fds'[p]
  BY Zenon DEF EndsInv
<1>3. \A p, q \in Proc : pc'[p] = "close_r" =>
        readopen' = 1 /\ "r" \notin fds'[q] /\ (pc'[q] = "close_r" => q = p)
  BY DEF EndsInv
<1>4. \A p, q \in Proc : pc'[p] = "close_w" =>
        writeopen' = 1 /\ "w" \notin fds'[q] /\ (pc'[q] = "close_w" => q = p)
  BY DEF EndsInv
<1>5. /\ readopen' = 0 => \A q \in Proc : "r" \notin fds'[q]
      /\ writeopen' = 0 => \A q \in Proc : "w" \notin fds'[q]
      /\ freed' = IF readopen' = 0 /\ writeopen' = 0 THEN 1 ELSE 0
  BY DEF EndsInv
<1>6. QED BY Zenon, <1>1, <1>2, <1>3, <1>4, <1>5 DEF EndsInv

\* Steps that put nobody to sleep and do not leave one of the loops that end
\* in a wakeup.
LEMMA SleepStays ==
  ASSUME SleepInv, Full' = Full, Empty' = Empty,
         readopen' = readopen, writeopen' = writeopen,
         \A s \in Proc : killed[s] = 1 => killed'[s] = 1,
         \A s \in Proc : pc[s] \in {"w_loop", "r_copy"} => pc'[s] = pc[s],
         \A s \in Proc : pc'[s] \in {"r_sleep", "w_sleep"} \cup Asleep => pc'[s] = pc[s]
  PROVE  SleepInv'
<1>1. \A p \in Proc : pc'[p] = "r_sleep" => Empty' /\ writeopen' = 1
  BY DEF SleepInv
<1>2. \A p \in Proc : pc'[p] = "w_sleep" => Full' /\ readopen' = 1
  BY DEF SleepInv
<1>3. \A p \in Proc : pc'[p] = "r_asleep" =>
        writeopen' = 1 /\ (Empty' \/ \E q \in Proc : killed'[q] = 1 \/ pc'[q] = "w_loop")
  BY DEF SleepInv, Asleep
<1>4. \A p \in Proc : pc'[p] = "w_asleep" =>
        readopen' = 1 /\ (Full' \/ \E q \in Proc : pc'[q] = "r_copy")
  BY DEF SleepInv, Asleep
<1>5. QED BY Zenon, <1>1, <1>2, <1>3, <1>4 DEF SleepInv

\* Whoever is inside pi->lock is the only one.
LEMMA LockIsOne == ASSUME LockInv, NEW p \in Proc, pc[p] \in Locked
                   PROVE  \A s \in Proc : pc[s] \in Locked => s = p
BY DEF LockInv

(***************************************************************************)
(* The steps                                                               *)
(***************************************************************************)
\* kfork(): the child is a new holder of each end its parent holds, and the
\* parent's holding them shows that no pipeclose() of that end is under way.
LEMMA ForkChildKeeps ==
  ASSUME PipeBase, NEW p \in Proc, NEW q \in Proc, ForkChild(p, q)
  PROVE  PipeBase'
<1>a. UNCHANGED ring
  BY DEF ForkChild
<1>b. /\ pc[p] = "idle" /\ pc[q] = "unborn"
      /\ fds' = [fds EXCEPT ![q] = fds[p]]
      /\ ref' = [e \in {"r", "w"} |-> IF e \in fds[p] THEN ref[e] + 1 ELSE ref[e]]
      /\ pc' = [pc EXCEPT ![q] = "idle"]
      /\ readopen' = readopen /\ writeopen' = writeopen /\ freed' = freed
      /\ lock' = lock /\ n' = n /\ i' = i /\ killed' = killed
  BY DEF ForkChild, Goto, ends
<1>1. RingType' /\ RingInv' /\ Full' = Full /\ Empty' = Empty
  BY Zenon, <1>a, RingStays DEF PipeBase
<1>2. ProcType'
  <2>1. ref' \in [{"r", "w"} -> Nat]
    BY <1>b DEF PipeBase, ProcType
  <2>2. fds' \in [Proc -> SUBSET {"r", "w"}] /\ pc' \in [Proc -> Label]
    BY <1>b DEF PipeBase, ProcType, Label
  <2>3. QED BY <1>b, <2>1, <2>2 DEF PipeBase, ProcType
<1>3. Progress'
  BY <1>b DEF PipeBase, Progress
<1>4. LockInv'
  BY <1>b DEF PipeBase, ProcType, LockInv, Locked, Asleep
<1>5. EndsInv'
  <2>1. fds[q] = {}
    BY <1>b DEF PipeBase, EndsInv
  <2>2. ASSUME NEW e \in {"r", "w"} PROVE ref'[e] = Cardinality(Holders(e)')
    <3>1. ref[e] = Cardinality(Holders(e))
      BY DEF PipeBase, EndsInv
    <3>2. CASE e \in fds[p]
      <4>1. Holders(e)' = Holders(e) \cup {q} /\ q \notin Holders(e)
        BY <1>b, <2>1, <3>2 DEF PipeBase, ProcType, Holders
      <4>2. Cardinality(Holders(e) \cup {q}) = Cardinality(Holders(e)) + 1
        BY Zenon, <4>1, HoldersFinite, FS_AddElement
      <4>3. QED BY <1>b, <3>1, <3>2, <4>1, <4>2
    <3>3. CASE e \notin fds[p]
      <4>1. Holders(e)' = Holders(e)
        BY <1>b, <2>1, <3>3 DEF PipeBase, ProcType, Holders
      <4>2. QED BY <1>b, <3>1, <3>3, <4>1
    <3>4. QED BY <3>2, <3>3
  <2>3. /\ \A s \in Proc : s # q => fds'[s] = fds[s] /\ pc'[s] = pc[s]
        /\ fds'[q] = fds[p] /\ pc'[q] = "idle"
    BY <1>b DEF PipeBase, ProcType
  <2>4. /\ \A s \in Proc : pc'[s] = "unborn" => fds'[s] = {}
        /\ \A s \in Proc : pc'[s] \in Reading => "r" \in fds'[s]
        /\ \A s \in Proc : pc'[s] \in Writing => "w" \in fds'[s]
    BY <2>3 DEF PipeBase, EndsInv, Reading, Writing
  <2>5. \A s, t \in Proc : pc'[s] = "close_r" =>
          readopen' = 1 /\ "r" \notin fds'[t] /\ (pc'[t] = "close_r" => t = s)
    BY <1>b, <2>3 DEF PipeBase, EndsInv
  <2>6. \A s, t \in Proc : pc'[s] = "close_w" =>
          writeopen' = 1 /\ "w" \notin fds'[t] /\ (pc'[t] = "close_w" => t = s)
    BY <1>b, <2>3 DEF PipeBase, EndsInv
  <2>7. /\ readopen' = 0 => \A t \in Proc : "r" \notin fds'[t]
        /\ writeopen' = 0 => \A t \in Proc : "w" \notin fds'[t]
        /\ freed' = IF readopen' = 0 /\ writeopen' = 0 THEN 1 ELSE 0
    BY <1>b, <2>3 DEF PipeBase, EndsInv
  <2>8. QED BY Zenon, <2>2, <2>4, <2>5, <2>6, <2>7 DEF EndsInv
<1>6. SleepInv'
  <2>1. /\ \A s \in Proc : killed[s] = 1 => killed'[s] = 1
        /\ \A s \in Proc : pc[s] \in {"w_loop", "r_copy"} => pc'[s] = pc[s]
        /\ \A s \in Proc : pc'[s] \in {"r_sleep", "w_sleep"} \cup Asleep => pc'[s] = pc[s]
    BY <1>b DEF PipeBase, ProcType, Asleep
  <2>2. QED BY <1>1, <1>b, <2>1, SleepStays DEF PipeBase
<1>7. QED BY <1>1, <1>2, <1>3, <1>4, <1>5, <1>6 DEF PipeBase

\* fileclose(): one holder less, and when that was the last one nobody else
\* can be closing the end.
LEMMA FilecloseKeeps ==
  ASSUME PipeBase, NEW p \in Proc, NEW e \in {"r", "w"}, Fileclose(p, e)
  PROVE  PipeBase'
<1>a. UNCHANGED ring
  BY DEF Fileclose
<1>b. /\ pc[p] = "idle" /\ e \in fds[p]
      /\ fds' = [fds EXCEPT ![p] = @ \ {e}]
      /\ ref' = [ref EXCEPT ![e] = @ - 1]
      /\ pc' = IF ref[e] = 1 THEN [pc EXCEPT ![p] = IF e = "r" THEN "close_r" ELSE "close_w"] ELSE pc
      /\ readopen' = readopen /\ writeopen' = writeopen /\ freed' = freed
      /\ lock' = lock /\ n' = n /\ i' = i /\ killed' = killed
  BY DEF Fileclose, Goto, LastRef, ends
<1>h. p \in Holders(e)
  BY <1>b DEF Holders
<1>c. Cardinality(Holders(e)) \in Nat /\ Cardinality(Holders(e)) # 0
  BY Zenon, <1>h, HoldersFinite, FS_EmptySet
<1>r. ref[e] = Cardinality(Holders(e))
  BY DEF PipeBase, EndsInv
<1>1. RingType' /\ RingInv' /\ Full' = Full /\ Empty' = Empty
  BY Zenon, <1>a, RingStays DEF PipeBase
<1>2. ProcType'
  <2>1. ref[e] - 1 \in Nat
    BY <1>c, <1>r
  <2>2. ref' \in [{"r", "w"} -> Nat]
    BY <1>b, <2>1 DEF PipeBase, ProcType
  <2>3. fds' \in [Proc -> SUBSET {"r", "w"}]
    BY <1>b DEF PipeBase, ProcType
  <2>4. pc' \in [Proc -> Label]
    BY <1>b DEF PipeBase, ProcType, Label
  <2>5. QED BY <1>b, <2>2, <2>3, <2>4 DEF PipeBase, ProcType
<1>3. Progress'
  BY <1>b DEF PipeBase, Progress
<1>4. LockInv'
  BY <1>b DEF PipeBase, ProcType, LockInv, Locked, Asleep
<1>5. EndsInv'
  <2>1. Holders(e)' = Holders(e) \ {p}
    BY <1>b DEF PipeBase, ProcType, Holders
  <2>2. /\ IsFiniteSet(Holders(e) \ {p})
        /\ Cardinality(Holders(e) \ {p}) = Cardinality(Holders(e)) - 1
    BY Zenon, <1>h, HoldersFinite, FS_RemoveElement
  <2>3. ASSUME NEW f \in {"r", "w"} PROVE ref'[f] = Cardinality(Holders(f)')
    <3>1. CASE f = e
      BY <1>b, <1>r, <2>1, <2>2, <3>1 DEF PipeBase, ProcType
    <3>2. CASE f # e
      <4>1. Holders(f)' = Holders(f)
        BY <1>b, <3>2 DEF PipeBase, ProcType, Holders
      <4>2. ref'[f] = ref[f]
        BY <1>b, <3>2 DEF PipeBase, ProcType
      <4>3. QED BY <4>1, <4>2 DEF PipeBase, EndsInv
    <3>3. QED BY <3>1, <3>2
  <2>4. ref[e] = 1 => \A s \in Proc : e \notin fds'[s]
    <3> SUFFICES ASSUME ref[e] = 1 PROVE \A s \in Proc : e \notin fds'[s]
      OBVIOUS
    <3>1. Cardinality(Holders(e) \ {p}) = 0
      BY <1>r, <2>2
    <3>2. Holders(e) \ {p} = {}
      BY Zenon, <2>2, <3>1, FS_EmptySet
    <3>3. QED BY <2>1, <3>2 DEF Holders
  <2>5. /\ fds'[p] = fds[p] \ {e} /\ \A s \in Proc : s # p => fds'[s] = fds[s]
        /\ \A s \in Proc : s # p => pc'[s] = pc[s]
        /\ \/ pc'[p] = "idle"
           \/ ref[e] = 1 /\ e = "r" /\ pc'[p] = "close_r"
           \/ ref[e] = 1 /\ e = "w" /\ pc'[p] = "close_w"
    BY <1>b DEF PipeBase, ProcType
  <2>6. /\ \A s \in Proc : pc'[s] = "unborn" => fds'[s] = {}
        /\ \A s \in Proc : pc'[s] \in Reading => "r" \in fds'[s]
        /\ \A s \in Proc : pc'[s] \in Writing => "w" \in fds'[s]
    BY <2>5 DEF PipeBase, EndsInv, Reading, Writing
  <2>7. \A s, t \in Proc : pc'[s] = "close_r" =>
          readopen' = 1 /\ "r" \notin fds'[t] /\ (pc'[t] = "close_r" => t = s)
    <3>1. CASE e = "w"
      BY <1>b, <2>5, <3>1 DEF PipeBase, EndsInv
    <3>2. CASE e = "r"
      <4>1. readopen = 1 /\ \A s \in Proc : pc[s] # "close_r"
        BY <1>b, <3>2 DEF PipeBase, EndsInv, ProcType
      <4>2. QED BY <1>b, <2>4, <2>5, <3>2, <4>1
    <3>3. QED BY <3>1, <3>2
  <2>8. \A s, t \in Proc : pc'[s] = "close_w" =>
          writeopen' = 1 /\ "w" \notin fds'[t] /\ (pc'[t] = "close_w" => t = s)
    <3>1. CASE e = "r"
      BY <1>b, <2>5, <3>1 DEF PipeBase, EndsInv
    <3>2. CASE e = "w"
      <4>1. writeopen = 1 /\ \A s \in Proc : pc[s] # "close_w"
        BY <1>b, <3>2 DEF PipeBase, EndsInv, ProcType
      <4>2. QED BY <1>b, <2>4, <2>5, <3>2, <4>1
    <3>3. QED BY <3>1, <3>2
  <2>9. /\ readopen' = 0 => \A t \in Proc : "r" \notin fds'[t]
        /\ writeopen' = 0 => \A t \in Proc : "w" \notin fds'[t]
        /\ freed' = IF readopen' = 0 /\ writeopen' = 0 THEN 1 ELSE 0
    BY <1>b, <2>5 DEF PipeBase, EndsInv
  <2>10. QED BY Zenon, <2>3, <2>6, <2>7, <2>8, <2>9 DEF EndsInv
<1>6. SleepInv'
  <2>1. /\ \A s \in Proc : killed[s] = 1 => killed'[s] = 1
        /\ \A s \in Proc : pc[s] \in {"w_loop", "r_copy"} => pc'[s] = pc[s]
        /\ \A s \in Proc : pc'[s] \in {"r_sleep", "w_sleep"} \cup Asleep => pc'[s] = pc[s]
    BY <1>b DEF PipeBase, ProcType, Asleep
  <2>2. QED BY <1>1, <1>b, <2>1, SleepStays DEF PipeBase
<1>7. QED BY <1>1, <1>2, <1>3, <1>4, <1>5, <1>6 DEF PipeBase

\* pipeclose(): closes an end that was open, wakes the sleepers of the other
\* end, and frees the pipe if that was the second end.
LEMMA PipecloseKeeps ==
  ASSUME PipeBase, NEW p \in Proc, Pipeclose(p)
  PROVE  PipeBase'
<1>a. UNCHANGED ring
  BY DEF Pipeclose
<1>b. /\ lock = {} /\ lock' = lock /\ ref' = ref /\ fds' = fds /\ n' = n /\ i' = i /\ killed' = killed
  BY DEF Pipeclose, ends
<1>c. \/ /\ pc[p] = "close_r"
         /\ readopen' = 0 /\ writeopen' = writeopen
         /\ pc' = [s \in Proc |-> IF s = p THEN "idle" ELSE IF pc[s] = "w_asleep" THEN "w_start" ELSE pc[s]]
      \/ /\ pc[p] = "close_w"
         /\ writeopen' = 0 /\ readopen' = readopen
         /\ pc' = [s \in Proc |-> IF s = p THEN "idle" ELSE IF pc[s] = "r_asleep" THEN "r_start" ELSE pc[s]]
  BY DEF Pipeclose, CloseWakes, WakeReaders, WakeWriters
<1>d. freed' = IF readopen' = 0 /\ writeopen' = 0 THEN freed + 1 ELSE freed
  BY DEF Pipeclose
<1>1. RingType' /\ RingInv' /\ Full' = Full /\ Empty' = Empty
  BY Zenon, <1>a, RingStays DEF PipeBase
<1>2. ProcType'
  <2>1. pc' \in [Proc -> Label]
    BY <1>c DEF PipeBase, ProcType, Label
  <2>2. readopen' \in {0, 1} /\ writeopen' \in {0, 1} /\ freed' \in Nat
    BY <1>c, <1>d DEF PipeBase, ProcType
  <2>3. QED BY <1>b, <2>1, <2>2 DEF PipeBase, ProcType
<1>3. Progress'
  BY <1>b DEF PipeBase, Progress
<1>4. LockInv'
  <2>1. \A s \in Proc : pc'[s] \in Locked <=> pc[s] \in Locked
    BY <1>c DEF Locked
  <2>2. QED BY <1>b, <2>1 DEF PipeBase, LockInv
<1>5. EndsInv'
  <2>0. \A f \in {"r", "w"} : ref'[f] = Cardinality(Holders(f)')
    <3>1. \A f : Holders(f)' = Holders(f)
      BY <1>b DEF Holders
    <3>2. QED BY <1>b, <3>1 DEF PipeBase, EndsInv
  <2>1. /\ pc'[p] = "idle"
        /\ \A s \in Proc : s # p => \/ pc'[s] = pc[s]
                                    \/ pc[s] = "w_asleep" /\ pc'[s] = "w_start"
                                    \/ pc[s] = "r_asleep" /\ pc'[s] = "r_start"
    BY <1>c
  <2>2. /\ \A s \in Proc : pc'[s] = "unborn" => fds'[s] = {}
        /\ \A s \in Proc : pc'[s] \in Reading => "r" \in fds'[s]
        /\ \A s \in Proc : pc'[s] \in Writing => "w" \in fds'[s]
    BY <1>b, <2>1 DEF PipeBase, EndsInv, Reading, Writing
  <2>3. \A s \in Proc : pc'[s] \in {"close_r", "close_w"} => s # p /\ pc'[s] = pc[s]
    BY <2>1
  <2>4. \A s, t \in Proc : pc'[s] = "close_r" =>
          readopen' = 1 /\ "r" \notin fds'[t] /\ (pc'[t] = "close_r" => t = s)
    BY <1>b, <1>c, <2>3 DEF PipeBase, EndsInv
  <2>5. \A s, t \in Proc : pc'[s] = "close_w" =>
          writeopen' = 1 /\ "w" \notin fds'[t] /\ (pc'[t] = "close_w" => t = s)
    BY <1>b, <1>c, <2>3 DEF PipeBase, EndsInv
  <2>6. /\ readopen' = 0 => \A t \in Proc : "r" \notin fds'[t]
        /\ writeopen' = 0 => \A t \in Proc : "w" \notin fds'[t]
    BY <1>b, <1>c DEF PipeBase, EndsInv
  <2>7. freed' = IF readopen' = 0 /\ writeopen' = 0 THEN 1 ELSE 0
    <3>1. freed = 0
      BY <1>c DEF PipeBase, EndsInv
    <3>2. QED BY <1>d, <3>1
  <2>8. QED BY Zenon, <2>0, <2>2, <2>4, <2>5, <2>6, <2>7 DEF EndsInv
<1>6. SleepInv'
  <2>1. \A s \in Proc : pc[s] \notin Locked
    BY <1>b DEF PipeBase, LockInv
  <2>2. \A s \in Proc : pc'[s] \notin {"r_sleep", "w_sleep"}
    BY <1>c, <2>1 DEF Locked
  <2>3. ASSUME NEW s \in Proc, pc'[s] = "r_asleep"
        PROVE  writeopen' = 1 /\ (Empty' \/ \E t \in Proc : killed'[t] = 1 \/ pc'[t] = "w_loop")
    <3>1. pc[s] = "r_asleep" /\ writeopen' = writeopen
      BY <1>c, <2>3
    <3>2. writeopen = 1 /\ (Empty \/ \E t \in Proc : killed[t] = 1)
      BY <2>1, <3>1 DEF PipeBase, SleepInv, Locked
    <3>3. QED BY <1>1, <1>b, <3>1, <3>2
  <2>4. ASSUME NEW s \in Proc, pc'[s] = "w_asleep"
        PROVE  readopen' = 1 /\ (Full' \/ \E t \in Proc : pc'[t] = "r_copy")
    <3>1. pc[s] = "w_asleep" /\ readopen' = readopen
      BY <1>c, <2>4
    <3>2. readopen = 1 /\ Full
      BY <2>1, <3>1 DEF PipeBase, SleepInv, Locked
    <3>3. QED BY <1>1, <3>1, <3>2
  <2>5. QED BY <2>2, <2>3, <2>4 DEF SleepInv
<1>7. QED BY <1>1, <1>2, <1>3, <1>4, <1>5, <1>6 DEF PipeBase

\* write() enters pipewrite().
LEMMA WriteKeeps ==
  ASSUME PipeBase, NEW p \in Proc, NEW k \in 1 .. MaxN, Write(p, k)
  PROVE  PipeBase'
<1>a. UNCHANGED ring
  BY DEF Write
<1>b. /\ pc[p] = "idle" /\ "w" \in fds[p]
      /\ pc' = [pc EXCEPT ![p] = "w_start"]
      /\ n' = [n EXCEPT ![p] = k] /\ i' = [i EXCEPT ![p] = 0]
      /\ readopen' = readopen /\ writeopen' = writeopen /\ freed' = freed
      /\ lock' = lock /\ ref' = ref /\ fds' = fds /\ killed' = killed
  BY DEF Write, Goto, ends
<1>1. RingType' /\ RingInv' /\ Full' = Full /\ Empty' = Empty
  BY Zenon, <1>a, RingStays DEF PipeBase
<1>2. ProcType'
  BY <1>b, Sizes DEF PipeBase, ProcType, Label, Locked, Asleep
<1>3. Progress'
  BY <1>b, Sizes DEF PipeBase, ProcType, Progress
<1>4. LockInv'
  BY <1>b DEF PipeBase, ProcType, LockInv, Locked, Asleep
<1>5. EndsInv'
  <2>1. \A s \in Proc : pc'[s] # pc[s] =>
          /\ pc'[s] \notin {"unborn", "close_r", "close_w"}
          /\ pc'[s] \in Reading => "r" \in fds[s]
          /\ pc'[s] \in Writing => "w" \in fds[s]
    BY <1>b DEF PipeBase, ProcType, EndsInv, Reading, Writing
  <2>2. QED BY <1>b, <2>1, EndsStay DEF PipeBase
<1>6. SleepInv'
  <2>1. /\ \A s \in Proc : killed[s] = 1 => killed'[s] = 1
        /\ \A s \in Proc : pc[s] \in {"w_loop", "r_copy"} => pc'[s] = pc[s]
        /\ \A s \in Proc : pc'[s] \in {"r_sleep", "w_sleep"} \cup Asleep => pc'[s] = pc[s]
    BY <1>b DEF PipeBase, ProcType, Asleep
  <2>2. QED BY <1>1, <1>b, <2>1, SleepStays DEF PipeBase
<1>7. QED BY <1>1, <1>2, <1>3, <1>4, <1>5, <1>6 DEF PipeBase

\* acquire(&pi->lock).
LEMMA AcquireKeeps ==
  ASSUME PipeBase, NEW p \in Proc, Acquire(p)
  PROVE  PipeBase'
<1>a. UNCHANGED ring
  BY DEF Acquire
<1>b. /\ pc[p] \in {"w_start", "r_start"} /\ lock = {} /\ lock' = {p}
      /\ pc' = [pc EXCEPT ![p] = IF pc[p] = "w_start" THEN "w_loop" ELSE "r_wait"]
      /\ readopen' = readopen /\ writeopen' = writeopen /\ freed' = freed
      /\ ref' = ref /\ fds' = fds /\ n' = n /\ i' = i /\ killed' = killed
  BY DEF Acquire, Goto, ends
<1>1. RingType' /\ RingInv' /\ Full' = Full /\ Empty' = Empty
  BY Zenon, <1>a, RingStays DEF PipeBase
<1>2. ProcType'
  BY <1>b, Sizes DEF PipeBase, ProcType, Label, Locked, Asleep
<1>3. Progress'
  BY <1>b DEF PipeBase, Progress
<1>4. LockInv'
  BY <1>b DEF PipeBase, ProcType, LockInv, Locked, Asleep
<1>5. EndsInv'
  <2>1. \A s \in Proc : pc'[s] # pc[s] =>
          /\ pc'[s] \notin {"unborn", "close_r", "close_w"}
          /\ pc'[s] \in Reading => "r" \in fds[s]
          /\ pc'[s] \in Writing => "w" \in fds[s]
    BY <1>b DEF PipeBase, ProcType, EndsInv, Reading, Writing
  <2>2. QED BY <1>b, <2>1, EndsStay DEF PipeBase
<1>6. SleepInv'
  <2>1. /\ \A s \in Proc : killed[s] = 1 => killed'[s] = 1
        /\ \A s \in Proc : pc[s] \in {"w_loop", "r_copy"} => pc'[s] = pc[s]
        /\ \A s \in Proc : pc'[s] \in {"r_sleep", "w_sleep"} \cup Asleep => pc'[s] = pc[s]
    BY <1>b DEF PipeBase, ProcType, Asleep
  <2>2. QED BY <1>1, <1>b, <2>1, SleepStays DEF PipeBase
<1>7. QED BY <1>1, <1>2, <1>3, <1>4, <1>5, <1>6 DEF PipeBase

\* pipewrite() returns -1 without a wakeup: either its writer was killed, or
\* nobody has the read end open, so that no reader sleeps.
LEMMA WriteFailsKeeps ==
  ASSUME PipeBase, NEW p \in Proc, WriteFails(p)
  PROVE  PipeBase'
<1>a. UNCHANGED ring
  BY DEF WriteFails
<1>b. /\ pc[p] = "w_loop" /\ (readopen = 0 \/ killed[p] = 1)
      /\ pc' = [pc EXCEPT ![p] = "idle"]
      /\ n' = [n EXCEPT ![p] = 0] /\ i' = [i EXCEPT ![p] = 0] /\ lock' = {}
      /\ readopen' = readopen /\ writeopen' = writeopen /\ freed' = freed
      /\ ref' = ref /\ fds' = fds /\ killed' = killed
  BY DEF WriteFails, Return, Goto, ends
<1>1. RingType' /\ RingInv' /\ Full' = Full /\ Empty' = Empty
  BY Zenon, <1>a, RingStays DEF PipeBase
<1>2. ProcType'
  BY <1>b, Sizes DEF PipeBase, ProcType, Label, Locked, Asleep
<1>3. Progress'
  BY <1>b DEF PipeBase, ProcType, Progress
<1>4. LockInv'
  BY <1>b DEF PipeBase, ProcType, LockInv, Locked, Asleep
<1>5. EndsInv'
  <2>1. \A s \in Proc : pc'[s] # pc[s] =>
          /\ pc'[s] \notin {"unborn", "close_r", "close_w"}
          /\ pc'[s] \in Reading => "r" \in fds[s]
          /\ pc'[s] \in Writing => "w" \in fds[s]
    BY <1>b DEF PipeBase, ProcType, EndsInv, Reading, Writing
  <2>2. QED BY <1>b, <2>1, EndsStay DEF PipeBase
<1>6. SleepInv'
  <2>1. \A s \in Proc : pc[s] \in Locked => s = p
    BY <1>b, LockIsOne DEF PipeBase, Locked
  <2>2. \A s \in Proc : pc'[s] \notin {"r_sleep", "w_sleep"}
    BY <1>b, <2>1 DEF PipeBase, ProcType, Locked
  <2>3. ASSUME NEW s \in Proc, pc'[s] = "r_asleep"
        PROVE  writeopen' = 1 /\ (Empty' \/ \E t \in Proc : killed'[t] = 1 \/ pc'[t] = "w_loop")
    <3>1. pc[s] = "r_asleep"
      BY <1>b, <2>3 DEF PipeBase, ProcType
    <3>2. readopen # 0
      BY <3>1 DEF PipeBase, EndsInv, Reading
    <3>3. writeopen = 1 /\ killed[p] = 1
      BY <1>b, <3>1, <3>2 DEF PipeBase, SleepInv
    <3>4. QED BY <1>b, <3>3
  <2>4. ASSUME NEW s \in Proc, pc'[s] = "w_asleep"
        PROVE  readopen' = 1 /\ (Full' \/ \E t \in Proc : pc'[t] = "r_copy")
    <3>1. pc[s] = "w_asleep"
      BY <1>b, <2>4 DEF PipeBase, ProcType
    <3>2. readopen = 1 /\ Full
      BY <1>b, <2>1, <3>1 DEF PipeBase, SleepInv, Locked
    <3>3. QED BY <1>1, <1>b, <3>2
  <2>5. QED BY <2>2, <2>3, <2>4 DEF SleepInv
<1>7. QED BY <1>1, <1>2, <1>3, <1>4, <1>5, <1>6 DEF PipeBase

\* pipewrite() finds the ring full and wakes every reader.
LEMMA WriteWaitsKeeps ==
  ASSUME PipeBase, NEW p \in Proc, WriteWaits(p)
  PROVE  PipeBase'
<1>a. UNCHANGED ring
  BY DEF WriteWaits
<1>b. /\ pc[p] = "w_loop" /\ readopen = 1 /\ Full
      /\ pc' = [s \in Proc |-> IF s = p THEN "w_sleep" ELSE IF pc[s] = "r_asleep" THEN "r_start" ELSE pc[s]]
      /\ readopen' = readopen /\ writeopen' = writeopen /\ freed' = freed
      /\ lock' = lock /\ ref' = ref /\ fds' = fds /\ n' = n /\ i' = i /\ killed' = killed
  BY DEF WriteWaits, MustWaitForRoom, WakeReaders, ends
<1>1. RingType' /\ RingInv' /\ Full' = Full /\ Empty' = Empty
  BY Zenon, <1>a, RingStays DEF PipeBase
<1>2. ProcType'
  BY <1>b, Sizes DEF PipeBase, ProcType, Label, Locked, Asleep
<1>3. Progress'
  BY <1>b DEF PipeBase, Progress
<1>4. LockInv'
  BY <1>b DEF PipeBase, ProcType, LockInv, Locked, Asleep
<1>5. EndsInv'
  <2>1. \A s \in Proc : pc'[s] # pc[s] =>
          /\ pc'[s] \notin {"unborn", "close_r", "close_w"}
          /\ pc'[s] \in Reading => "r" \in fds[s]
          /\ pc'[s] \in Writing => "w" \in fds[s]
    BY <1>b DEF PipeBase, ProcType, EndsInv, Reading, Writing
  <2>2. QED BY <1>b, <2>1, EndsStay DEF PipeBase
<1>6. SleepInv'
  <2>1. \A s \in Proc : pc[s] \in Locked => s = p
    BY <1>b, LockIsOne DEF PipeBase, Locked
  <2>2. \A s \in Proc : pc'[s] # "r_sleep" /\ pc'[s] # "r_asleep"
    BY <1>b, <2>1 DEF Locked
  <2>3. Full' /\ readopen' = 1
    BY <1>1, <1>b
  <2>4. QED BY <2>2, <2>3 DEF SleepInv
<1>7. QED BY <1>1, <1>2, <1>3, <1>4, <1>5, <1>6 DEF PipeBase

\* pipewrite() stores a byte: no writer can be asleep on a ring that was not
\* full, and the readers asleep are owed the wakeup at the end of this loop.
LEMMA WriteByteKeeps ==
  ASSUME PipeBase, NEW p \in Proc, WriteByte(p)
  PROVE  PipeBase'
<1>b. /\ pc[p] = "w_loop" /\ i[p] < n[p] /\ readopen = 1 /\ pc' = pc
      /\ i' = [i EXCEPT ![p] = @ + 1] /\ n' = n
      /\ readopen' = readopen /\ writeopen' = writeopen /\ freed' = freed
      /\ lock' = lock /\ ref' = ref /\ fds' = fds /\ killed' = killed
  BY DEF WriteByte, MustWaitForRoom, ends
<1>a. /\ ~ Full
      /\ data' = [data EXCEPT ![nwrite % PIPESIZE] = sent]
      /\ nwrite' = Bump(nwrite) /\ sent' = (sent + 1) % STREAM
      /\ nread' = nread /\ taken' = taken
  BY DEF WriteByte, MustWaitForRoom
<1>1. RingType' /\ RingInv'
  BY Zenon, <1>a, RingPuts DEF PipeBase
<1>2. ProcType'
  <2>1. i' \in [Proc -> 0 .. MaxN]
    <3>1. i[p] \in 0 .. MaxN /\ n[p] \in 0 .. MaxN
      BY DEF PipeBase, ProcType
    <3>2. i[p] + 1 \in 0 .. MaxN
      BY <1>b, <3>1, Sizes
    <3>3. QED BY <1>b, <3>2 DEF PipeBase, ProcType
  <2>2. QED BY <1>b, <2>1 DEF PipeBase, ProcType
<1>3. Progress'
  <2>1. \A s \in Proc : i[s] \in Int /\ n[s] \in Int /\ i[s] <= n[s]
    BY Sizes DEF PipeBase, ProcType, Progress
  <2>2. QED BY <1>b, <2>1 DEF PipeBase, ProcType, Progress
<1>4. LockInv'
  BY <1>b DEF PipeBase, LockInv
<1>5. EndsInv'
  <2>1. \A s \in Proc : pc'[s] # pc[s] =>
          /\ pc'[s] \notin {"unborn", "close_r", "close_w"}
          /\ pc'[s] \in Reading => "r" \in fds[s]
          /\ pc'[s] \in Writing => "w" \in fds[s]
    BY <1>b DEF PipeBase, ProcType, EndsInv, Reading, Writing
  <2>2. QED BY <1>b, <2>1, EndsStay DEF PipeBase
<1>6. SleepInv'
  <2>1. \A s \in Proc : pc[s] \in Locked => s = p
    BY <1>b, LockIsOne DEF PipeBase, Locked
  <2>2. \A s \in Proc : pc[s] \notin {"r_sleep", "w_sleep"}
    BY <1>b, <2>1 DEF Locked
  <2>3. \A s \in Proc : pc[s] # "w_asleep"
    BY <1>a, <1>b, <2>1 DEF PipeBase, SleepInv, Locked
  <2>4. \A s \in Proc : pc[s] = "r_asleep" => writeopen = 1
    BY DEF PipeBase, SleepInv
  <2>5. QED BY <1>b, <2>2, <2>3, <2>4 DEF SleepInv
<1>7. QED BY <1>1, <1>2, <1>3, <1>4, <1>5, <1>6 DEF PipeBase

\* pipewrite() wakes the readers and returns.
LEMMA WriteDoneKeeps ==
  ASSUME PipeBase, NEW p \in Proc, WriteDone(p)
  PROVE  PipeBase'
<1>a. UNCHANGED ring
  BY DEF WriteDone
<1>b. /\ pc[p] = "w_loop"
      /\ pc' = [s \in Proc |-> IF s = p THEN "idle" ELSE IF pc[s] = "r_asleep" THEN "r_start" ELSE pc[s]]
      /\ n' = [n EXCEPT ![p] = 0] /\ i' = [i EXCEPT ![p] = 0] /\ lock' = {}
      /\ readopen' = readopen /\ writeopen' = writeopen /\ freed' = freed
      /\ ref' = ref /\ fds' = fds /\ killed' = killed
  BY DEF WriteDone, Return, WriteWakes, WakeReaders, ends
<1>1. RingType' /\ RingInv' /\ Full' = Full /\ Empty' = Empty
  BY Zenon, <1>a, RingStays DEF PipeBase
<1>2. ProcType'
  BY <1>b, Sizes DEF PipeBase, ProcType, Label, Locked, Asleep
<1>3. Progress'
  BY <1>b DEF PipeBase, ProcType, Progress
<1>4. LockInv'
  BY <1>b DEF PipeBase, ProcType, LockInv, Locked, Asleep
<1>5. EndsInv'
  <2>1. \A s \in Proc : pc'[s] # pc[s] =>
          /\ pc'[s] \notin {"unborn", "close_r", "close_w"}
          /\ pc'[s] \in Reading => "r" \in fds[s]
          /\ pc'[s] \in Writing => "w" \in fds[s]
    BY <1>b DEF PipeBase, ProcType, EndsInv, Reading, Writing
  <2>2. QED BY <1>b, <2>1, EndsStay DEF PipeBase
<1>6. SleepInv'
  <2>1. \A s \in Proc : pc[s] \in Locked => s = p
    BY <1>b, LockIsOne DEF PipeBase, Locked
  <2>2. \A s \in Proc : pc'[s] \notin {"r_sleep", "w_sleep", "r_asleep"}
    BY <1>b, <2>1 DEF Locked
  <2>3. ASSUME NEW s \in Proc, pc'[s] = "w_asleep" PROVE readopen' = 1 /\ Full'
    <3>1. pc[s] = "w_asleep"
      BY <1>b, <2>3
    <3>2. readopen = 1 /\ Full
      BY <1>b, <2>1, <3>1 DEF PipeBase, SleepInv, Locked
    <3>3. QED BY <1>1, <1>b, <3>2
  <2>4. QED BY <2>2, <2>3 DEF SleepInv
<1>7. QED BY <1>1, <1>2, <1>3, <1>4, <1>5, <1>6 DEF PipeBase

\* sleep(): what was true of the ring when pi->lock was last taken still is.
LEMMA FallAsleepKeeps ==
  ASSUME PipeBase, NEW p \in Proc, FallAsleep(p)
  PROVE  PipeBase'
<1>a. UNCHANGED ring
  BY DEF FallAsleep
<1>b. /\ pc[p] \in {"w_sleep", "r_sleep"} /\ lock' = {}
      /\ pc' = [pc EXCEPT ![p] = IF pc[p] = "w_sleep" THEN "w_asleep" ELSE "r_asleep"]
      /\ readopen' = readopen /\ writeopen' = writeopen /\ freed' = freed
      /\ ref' = ref /\ fds' = fds /\ n' = n /\ i' = i /\ killed' = killed
  BY DEF FallAsleep, Goto, ends
<1>1. RingType' /\ RingInv' /\ Full' = Full /\ Empty' = Empty
  BY Zenon, <1>a, RingStays DEF PipeBase
<1>2. ProcType'
  BY <1>b, Sizes DEF PipeBase, ProcType, Label, Locked, Asleep
<1>3. Progress'
  BY <1>b DEF PipeBase, Progress
<1>4. LockInv'
  BY <1>b DEF PipeBase, ProcType, LockInv, Locked, Asleep
<1>5. EndsInv'
  <2>1. \A s \in Proc : pc'[s] # pc[s] =>
          /\ pc'[s] \notin {"unborn", "close_r", "close_w"}
          /\ pc'[s] \in Reading => "r" \in fds[s]
          /\ pc'[s] \in Writing => "w" \in fds[s]
    BY <1>b DEF PipeBase, ProcType, EndsInv, Reading, Writing
  <2>2. QED BY <1>b, <2>1, EndsStay DEF PipeBase
<1>6. SleepInv'
  <2>1. \A s \in Proc : pc[s] \in Locked => s = p
    BY <1>b, LockIsOne DEF PipeBase, Locked
  <2>2. \A s \in Proc : pc'[s] \notin {"r_sleep", "w_sleep"}
    BY <1>b, <2>1 DEF PipeBase, ProcType, Locked
  <2>3. ASSUME NEW s \in Proc, pc'[s] = "r_asleep"
        PROVE  writeopen' = 1 /\ (Empty' \/ \E t \in Proc : killed'[t] = 1 \/ pc'[t] = "w_loop")
    <3>1. pc[s] = "r_asleep" \/ pc[s] = "r_sleep"
      BY <1>b, <2>3 DEF PipeBase, ProcType
    <3>2. writeopen = 1 /\ (Empty \/ \E t \in Proc : killed[t] = 1)
      BY <1>b, <2>1, <3>1 DEF PipeBase, SleepInv, Locked
    <3>3. QED BY <1>1, <1>b, <3>2
  <2>4. ASSUME NEW s \in Proc, pc'[s] = "w_asleep"
        PROVE  readopen' = 1 /\ (Full' \/ \E t \in Proc : pc'[t] = "r_copy")
    <3>1. pc[s] = "w_asleep" \/ pc[s] = "w_sleep"
      BY <1>b, <2>4 DEF PipeBase, ProcType
    <3>2. readopen = 1 /\ Full
      BY <1>b, <2>1, <3>1 DEF PipeBase, SleepInv, Locked
    <3>3. QED BY <1>1, <1>b, <3>2
  <2>5. QED BY <2>2, <2>3, <2>4 DEF SleepInv
<1>7. QED BY <1>1, <1>2, <1>3, <1>4, <1>5, <1>6 DEF PipeBase

\* read() enters piperead().
LEMMA ReadKeeps ==
  ASSUME PipeBase, NEW p \in Proc, NEW k \in 1 .. MaxN, Read(p, k)
  PROVE  PipeBase'
<1>a. UNCHANGED ring
  BY DEF Read
<1>b. /\ pc[p] = "idle" /\ "r" \in fds[p]
      /\ pc' = [pc EXCEPT ![p] = "r_start"]
      /\ n' = [n EXCEPT ![p] = k] /\ i' = [i EXCEPT ![p] = 0]
      /\ readopen' = readopen /\ writeopen' = writeopen /\ freed' = freed
      /\ lock' = lock /\ ref' = ref /\ fds' = fds /\ killed' = killed
  BY DEF Read, Goto, ends
<1>1. RingType' /\ RingInv' /\ Full' = Full /\ Empty' = Empty
  BY Zenon, <1>a, RingStays DEF PipeBase
<1>2. ProcType'
  BY <1>b, Sizes DEF PipeBase, ProcType, Label, Locked, Asleep
<1>3. Progress'
  BY <1>b, Sizes DEF PipeBase, ProcType, Progress
<1>4. LockInv'
  BY <1>b DEF PipeBase, ProcType, LockInv, Locked, Asleep
<1>5. EndsInv'
  <2>1. \A s \in Proc : pc'[s] # pc[s] =>
          /\ pc'[s] \notin {"unborn", "close_r", "close_w"}
          /\ pc'[s] \in Reading => "r" \in fds[s]
          /\ pc'[s] \in Writing => "w" \in fds[s]
    BY <1>b DEF PipeBase, ProcType, EndsInv, Reading, Writing
  <2>2. QED BY <1>b, <2>1, EndsStay DEF PipeBase
<1>6. SleepInv'
  <2>1. /\ \A s \in Proc : killed[s] = 1 => killed'[s] = 1
        /\ \A s \in Proc : pc[s] \in {"w_loop", "r_copy"} => pc'[s] = pc[s]
        /\ \A s \in Proc : pc'[s] \in {"r_sleep", "w_sleep"} \cup Asleep => pc'[s] = pc[s]
    BY <1>b DEF PipeBase, ProcType, Asleep
  <2>2. QED BY <1>1, <1>b, <2>1, SleepStays DEF PipeBase
<1>7. QED BY <1>1, <1>2, <1>3, <1>4, <1>5, <1>6 DEF PipeBase

\* piperead() finds the ring empty and a writer left: it gives up or goes to
\* sleep.
LEMMA ReadWaitsKeeps ==
  ASSUME PipeBase, NEW p \in Proc, ReadWaits(p)
  PROVE  PipeBase'
<1>a. UNCHANGED ring
  BY DEF ReadWaits
<1>b. /\ pc[p] = "r_wait" /\ Empty /\ writeopen = 1
      /\ \/ pc' = [pc EXCEPT ![p] = "idle"] /\ n' = [n EXCEPT ![p] = 0] /\ i' = [i EXCEPT ![p] = 0] /\ lock' = {}
         \/ pc' = [pc EXCEPT ![p] = "r_sleep"] /\ n' = n /\ i' = i /\ lock' = lock
      /\ readopen' = readopen /\ writeopen' = writeopen /\ freed' = freed
      /\ ref' = ref /\ fds' = fds /\ killed' = killed
  BY DEF ReadWaits, Return, Goto, ends
<1>1. RingType' /\ RingInv' /\ Full' = Full /\ Empty' = Empty
  BY Zenon, <1>a, RingStays DEF PipeBase
<1>2. ProcType'
  <2>1. pc' \in [Proc -> Label]
    BY <1>b DEF PipeBase, ProcType, Label, Locked
  <2>2. n' \in [Proc -> 0 .. MaxN] /\ i' \in [Proc -> 0 .. MaxN]
    <3>1. n \in [Proc -> 0 .. MaxN] /\ i \in [Proc -> 0 .. MaxN]
      BY DEF PipeBase, ProcType
    <3>2. (n' = n \/ n' = [n EXCEPT ![p] = 0]) /\ (i' = i \/ i' = [i EXCEPT ![p] = 0])
      BY Zenon, <1>b
    <3>3. QED BY Zenon, <3>1, <3>2, Sizes
  <2>3. lock' \in SUBSET Proc
    BY <1>b DEF PipeBase, ProcType
  <2>4. QED BY <1>b, <2>1, <2>2, <2>3 DEF PipeBase, ProcType
<1>3. Progress'
  <2>1. CASE n' = n /\ i' = i
    BY <2>1 DEF PipeBase, Progress
  <2>2. CASE n' = [n EXCEPT ![p] = 0] /\ i' = [i EXCEPT ![p] = 0]
    BY <2>2 DEF PipeBase, ProcType, Progress
  <2>3. QED BY <1>b, <2>1, <2>2
<1>4. LockInv'
  <2>1. \A s \in Proc : pc[s] \in Locked => s = p
    BY <1>b, LockIsOne DEF PipeBase, Locked
  <2>2. \A s \in Proc : s # p => pc'[s] = pc[s]
    BY <1>b DEF PipeBase, ProcType
  <2>3. \/ pc'[p] = "idle" /\ lock' = {}
        \/ pc'[p] = "r_sleep" /\ lock' = lock
    BY <1>b DEF PipeBase, ProcType
  <2>4. QED BY <1>b, <2>1, <2>2, <2>3 DEF PipeBase, ProcType, LockInv, Locked
<1>5. EndsInv'
  <2>1. \A s \in Proc : pc'[s] # pc[s] =>
          /\ pc'[s] \notin {"unborn", "close_r", "close_w"}
          /\ pc'[s] \in Reading => "r" \in fds[s]
          /\ pc'[s] \in Writing => "w" \in fds[s]
    BY <1>b DEF PipeBase, ProcType, EndsInv, Reading, Writing
  <2>2. QED BY <1>b, <2>1, EndsStay DEF PipeBase
<1>6. SleepInv'
  <2>1. \A s \in Proc : pc[s] \in Locked => s = p
    BY <1>b, LockIsOne DEF PipeBase, Locked
  <2>2. /\ \A s \in Proc : s # p => pc'[s] = pc[s]
        /\ pc'[p] \in {"idle", "r_sleep"}
    BY <1>b DEF PipeBase, ProcType
  <2>3. Empty' /\ writeopen' = 1
    BY <1>1, <1>b
  <2>4. ASSUME NEW s \in Proc, pc'[s] = "w_asleep" PROVE readopen' = 1 /\ Full'
    <3>1. pc[s] = "w_asleep"
      BY <2>2, <2>4
    <3>2. readopen = 1 /\ Full
      BY <1>b, <2>1, <3>1 DEF PipeBase, SleepInv, Locked
    <3>3. QED BY <1>1, <1>b, <3>2
  <2>5. \A s \in Proc : pc'[s] # "w_sleep"
    BY <2>1, <2>2 DEF Locked
  <2>6. QED BY <2>3, <2>4, <2>5 DEF SleepInv
<1>7. QED BY <1>1, <1>2, <1>3, <1>4, <1>5, <1>6 DEF PipeBase

\* piperead() goes on to copy.
LEMMA ReadReadyKeeps ==
  ASSUME PipeBase, NEW p \in Proc, ReadReady(p)
  PROVE  PipeBase'
<1>a. UNCHANGED ring
  BY DEF ReadReady
<1>b. /\ pc[p] = "r_wait"
      /\ pc' = [pc EXCEPT ![p] = "r_copy"]
      /\ readopen' = readopen /\ writeopen' = writeopen /\ freed' = freed
      /\ lock' = lock /\ ref' = ref /\ fds' = fds /\ n' = n /\ i' = i /\ killed' = killed
  BY DEF ReadReady, Goto, ends
<1>1. RingType' /\ RingInv' /\ Full' = Full /\ Empty' = Empty
  BY Zenon, <1>a, RingStays DEF PipeBase
<1>2. ProcType'
  BY <1>b, Sizes DEF PipeBase, ProcType, Label, Locked, Asleep
<1>3. Progress'
  BY <1>b DEF PipeBase, Progress
<1>4. LockInv'
  BY <1>b DEF PipeBase, ProcType, LockInv, Locked, Asleep
<1>5. EndsInv'
  <2>1. \A s \in Proc : pc'[s] # pc[s] =>
          /\ pc'[s] \notin {"unborn", "close_r", "close_w"}
          /\ pc'[s] \in Reading => "r" \in fds[s]
          /\ pc'[s] \in Writing => "w" \in fds[s]
    BY <1>b DEF PipeBase, ProcType, EndsInv, Reading, Writing
  <2>2. QED BY <1>b, <2>1, EndsStay DEF PipeBase
<1>6. SleepInv'
  <2>1. /\ \A s \in Proc : killed[s] = 1 => killed'[s] = 1
        /\ \A s \in Proc : pc[s] \in {"w_loop", "r_copy"} => pc'[s] = pc[s]
        /\ \A s \in Proc : pc'[s] \in {"r_sleep", "w_sleep"} \cup Asleep => pc'[s] = pc[s]
    BY <1>b DEF PipeBase, ProcType, Asleep
  <2>2. QED BY <1>1, <1>b, <2>1, SleepStays DEF PipeBase
<1>7. QED BY <1>1, <1>2, <1>3, <1>4, <1>5, <1>6 DEF PipeBase

\* piperead() takes a byte: a reader asleep on a ring that is not empty
\* means that a process was killed, and the writers asleep are owed the
\* wakeup at the end of this loop.
LEMMA ReadByteKeeps ==
  ASSUME PipeBase, NEW p \in Proc, ReadByte(p)
  PROVE  PipeBase'
<1>b. /\ pc[p] = "r_copy" /\ i[p] < n[p] /\ pc' = pc
      /\ \/ i' = [i EXCEPT ![p] = @ + 1] /\ n' = n
         \/ n' = [n EXCEPT ![p] = i[p]] /\ i' = i
      /\ readopen' = readopen /\ writeopen' = writeopen /\ freed' = freed
      /\ lock' = lock /\ ref' = ref /\ fds' = fds /\ killed' = killed
  BY DEF ReadByte, ends
<1>a. /\ ~ Empty
      /\ nread' = Bump(nread) /\ taken' = (taken + 1) % STREAM
      /\ nwrite' = nwrite /\ data' = data /\ sent' = sent
  BY DEF ReadByte
<1>1. RingType' /\ RingInv'
  BY Zenon, <1>a, RingTakes DEF PipeBase
<1>2. ProcType'
  <2>1. i' \in [Proc -> 0 .. MaxN] /\ n' \in [Proc -> 0 .. MaxN]
    <3>1. i[p] \in 0 .. MaxN /\ n[p] \in 0 .. MaxN
      BY DEF PipeBase, ProcType
    <3>2. i[p] + 1 \in 0 .. MaxN
      BY <1>b, <3>1, Sizes
    <3>3. n \in [Proc -> 0 .. MaxN] /\ i \in [Proc -> 0 .. MaxN]
      BY DEF PipeBase, ProcType
    <3>4. QED BY Zenon, <1>b, <3>1, <3>2, <3>3
  <2>2. QED BY <1>b, <2>1 DEF PipeBase, ProcType
<1>3. Progress'
  <2>1. \A s \in Proc : i[s] \in Int /\ n[s] \in Int /\ i[s] <= n[s]
    BY Sizes DEF PipeBase, ProcType, Progress
  <2>2. CASE i' = [i EXCEPT ![p] = @ + 1] /\ n' = n
    BY <1>b, <2>1, <2>2 DEF PipeBase, ProcType, Progress
  <2>3. CASE n' = [n EXCEPT ![p] = i[p]] /\ i' = i
    BY <2>1, <2>3 DEF PipeBase, ProcType, Progress
  <2>4. QED BY <1>b, <2>2, <2>3
<1>4. LockInv'
  BY <1>b DEF PipeBase, LockInv
<1>5. EndsInv'
  <2>1. \A s \in Proc : pc'[s] # pc[s] =>
          /\ pc'[s] \notin {"unborn", "close_r", "close_w"}
          /\ pc'[s] \in Reading => "r" \in fds[s]
          /\ pc'[s] \in Writing => "w" \in fds[s]
    BY <1>b DEF PipeBase, ProcType, EndsInv, Reading, Writing
  <2>2. QED BY <1>b, <2>1, EndsStay DEF PipeBase
<1>6. SleepInv'
  <2>1. \A s \in Proc : pc[s] \in Locked => s = p
    BY <1>b, LockIsOne DEF PipeBase, Locked
  <2>2. \A s \in Proc : pc[s] \notin {"r_sleep", "w_sleep"}
    BY <1>b, <2>1 DEF Locked
  <2>3. \A s \in Proc : pc[s] = "r_asleep" => writeopen = 1 /\ \E t \in Proc : killed[t] = 1
    BY <1>a, <1>b, <2>1 DEF PipeBase, SleepInv, Locked
  <2>4. \A s \in Proc : pc[s] = "w_asleep" => readopen = 1
    BY DEF PipeBase, SleepInv
  <2>5. QED BY <1>b, <2>2, <2>3, <2>4 DEF SleepInv
<1>7. QED BY <1>1, <1>2, <1>3, <1>4, <1>5, <1>6 DEF PipeBase

\* piperead() wakes the writers and returns.
LEMMA ReadDoneKeeps ==
  ASSUME PipeBase, NEW p \in Proc, ReadDone(p)
  PROVE  PipeBase'
<1>a. UNCHANGED ring
  BY DEF ReadDone
<1>b. /\ pc[p] = "r_copy"
      /\ pc' = [s \in Proc |-> IF s = p THEN "idle" ELSE IF pc[s] = "w_asleep" THEN "w_start" ELSE pc[s]]
      /\ n' = [n EXCEPT ![p] = 0] /\ i' = [i EXCEPT ![p] = 0] /\ lock' = {}
      /\ readopen' = readopen /\ writeopen' = writeopen /\ freed' = freed
      /\ ref' = ref /\ fds' = fds /\ killed' = killed
  BY DEF ReadDone, Return, WakeWriters, ends
<1>1. RingType' /\ RingInv' /\ Full' = Full /\ Empty' = Empty
  BY Zenon, <1>a, RingStays DEF PipeBase
<1>2. ProcType'
  BY <1>b, Sizes DEF PipeBase, ProcType, Label, Locked, Asleep
<1>3. Progress'
  BY <1>b DEF PipeBase, ProcType, Progress
<1>4. LockInv'
  BY <1>b DEF PipeBase, ProcType, LockInv, Locked, Asleep
<1>5. EndsInv'
  <2>1. \A s \in Proc : pc'[s] # pc[s] =>
          /\ pc'[s] \notin {"unborn", "close_r", "close_w"}
          /\ pc'[s] \in Reading => "r" \in fds[s]
          /\ pc'[s] \in Writing => "w" \in fds[s]
    BY <1>b DEF PipeBase, ProcType, EndsInv, Reading, Writing
  <2>2. QED BY <1>b, <2>1, EndsStay DEF PipeBase
<1>6. SleepInv'
  <2>1. \A s \in Proc : pc[s] \in Locked => s = p
    BY <1>b, LockIsOne DEF PipeBase, Locked
  <2>2. \A s \in Proc : pc'[s] \notin {"r_sleep", "w_sleep", "w_asleep"}
    BY <1>b, <2>1 DEF Locked
  <2>3. ASSUME NEW s \in Proc, pc'[s] = "r_asleep"
        PROVE  writeopen' = 1 /\ (Empty' \/ \E t \in Proc : killed'[t] = 1 \/ pc'[t] = "w_loop")
    <3>1. pc[s] = "r_asleep"
      BY <1>b, <2>3
    <3>2. writeopen = 1 /\ (Empty \/ \E t \in Proc : killed[t] = 1)
      BY <1>b, <2>1, <3>1 DEF PipeBase, SleepInv, Locked
    <3>3. QED BY <1>1, <1>b, <3>2
  <2>4. QED BY <2>2, <2>3 DEF SleepInv
<1>7. QED BY <1>1, <1>2, <1>3, <1>4, <1>5, <1>6 DEF PipeBase

\* kkill() marks a process and wakes it.
LEMMA KillKeeps ==
  ASSUME PipeBase, NEW p \in Proc, Kill(p)
  PROVE  PipeBase'
<1>a. UNCHANGED ring
  BY DEF Kill
<1>b. /\ pc[p] # "unborn"
      /\ killed' = [killed EXCEPT ![p] = 1]
      /\ pc' = [pc EXCEPT ![p] = IF pc[p] = "w_asleep" THEN "w_start"
                            ELSE IF pc[p] = "r_asleep" THEN "r_start" ELSE pc[p]]
      /\ readopen' = readopen /\ writeopen' = writeopen /\ freed' = freed
      /\ lock' = lock /\ ref' = ref /\ fds' = fds /\ n' = n /\ i' = i
  BY DEF Kill, Goto, ends
<1>1. RingType' /\ RingInv' /\ Full' = Full /\ Empty' = Empty
  BY Zenon, <1>a, RingStays DEF PipeBase
<1>2. ProcType'
  BY <1>b, Sizes DEF PipeBase, ProcType, Label, Locked, Asleep
<1>3. Progress'
  BY <1>b DEF PipeBase, Progress
<1>4. LockInv'
  BY <1>b DEF PipeBase, ProcType, LockInv, Locked, Asleep
<1>5. EndsInv'
  <2>1. \A s \in Proc : pc'[s] # pc[s] =>
          /\ pc'[s] \notin {"unborn", "close_r", "close_w"}
          /\ pc'[s] \in Reading => "r" \in fds[s]
          /\ pc'[s] \in Writing => "w" \in fds[s]
    BY <1>b DEF PipeBase, ProcType, EndsInv, Reading, Writing
  <2>2. QED BY <1>b, <2>1, EndsStay DEF PipeBase
<1>6. SleepInv'
  <2>1. /\ \A s \in Proc : killed[s] = 1 => killed'[s] = 1
        /\ \A s \in Proc : pc[s] \in {"w_loop", "r_copy"} => pc'[s] = pc[s]
        /\ \A s \in Proc : pc'[s] \in {"r_sleep", "w_sleep"} \cup Asleep => pc'[s] = pc[s]
    BY <1>b DEF PipeBase, ProcType, Asleep
  <2>2. QED BY <1>1, <1>b, <2>1, SleepStays DEF PipeBase
<1>7. QED BY <1>1, <1>2, <1>3, <1>4, <1>5, <1>6 DEF PipeBase

(***************************************************************************)
(* The theorems                                                            *)
(***************************************************************************)
\* pipealloc() and pipe() establish the invariant.
LEMMA BaseInit == Init => PipeBase
<1> SUFFICES ASSUME Init PROVE PipeBase
  OBVIOUS
<1>1. RingType
  BY PipeAssumption DEF Init, RingType
<1>2. RingInv
  <2>1. Count = 0
    BY PipeAssumption DEF Init, Count
  <2>2. (sent - taken) % STREAM = 0
    BY PipeAssumption DEF Init
  <2>3. QED BY <2>1, <2>2, PipeAssumption DEF RingInv
<1>3. ProcType /\ Progress
  BY Sizes DEF Init, ProcType, Progress, Label
<1>4. LockInv
  BY DEF Init, LockInv, Locked
<1>5. EndsInv
  <2>1. ASSUME NEW e \in {"r", "w"} PROVE ref[e] = Cardinality(Holders(e))
    <3>1. Holders(e) = {First}
      BY PipeAssumption DEF Init, Holders
    <3>2. Cardinality({First}) = 1
      BY Zenon, FS_Singleton
    <3>3. ref[e] = 1
      BY DEF Init
    <3>4. QED BY <3>1, <3>2, <3>3
  <2>2. QED BY <2>1 DEF Init, EndsInv, Reading, Writing
<1>6. SleepInv
  BY DEF Init, SleepInv
<1>7. QED BY <1>1, <1>2, <1>3, <1>4, <1>5, <1>6 DEF PipeBase

\* A step of something else keeps it.
LEMMA BaseStutter == ASSUME PipeBase, UNCHANGED vars PROVE PipeBase'
<1>1. UNCHANGED ring
  BY DEF vars, ring
<1>2. /\ readopen' = readopen /\ writeopen' = writeopen /\ freed' = freed /\ lock' = lock
      /\ ref' = ref /\ fds' = fds /\ pc' = pc /\ n' = n /\ i' = i /\ killed' = killed
  BY DEF vars
<1>3. RingType' /\ RingInv' /\ Full' = Full /\ Empty' = Empty
  BY Zenon, <1>1, RingStays DEF PipeBase
<1>4. ProcType' /\ Progress' /\ LockInv'
  BY <1>2 DEF PipeBase, ProcType, Progress, LockInv
<1>5. EndsInv'
  BY <1>2, EndsStay DEF PipeBase
<1>6. SleepInv'
  BY <1>2, <1>3, SleepStays DEF PipeBase
<1>7. QED BY <1>3, <1>4, <1>5, <1>6 DEF PipeBase

\* Every step keeps it.
LEMMA BaseNext == PipeBase /\ [Next]_vars => PipeBase'
<1> SUFFICES ASSUME PipeBase, [Next]_vars PROVE PipeBase'
  OBVIOUS
<1>1. CASE UNCHANGED vars
  BY <1>1, BaseStutter
<1>2. ASSUME NEW p \in Proc, Inside(p) PROVE PipeBase'
  BY <1>2, AcquireKeeps, PipecloseKeeps, FallAsleepKeeps, WriteFailsKeeps, WriteWaitsKeeps,
     WriteByteKeeps, WriteDoneKeeps, ReadWaitsKeeps, ReadReadyKeeps, ReadByteKeeps, ReadDoneKeeps
     DEF Inside
<1>3. ASSUME NEW p \in Proc, Closes(p) \/ Kill(p) PROVE PipeBase'
  BY <1>3, FilecloseKeeps, KillKeeps DEF Closes
<1>4. ASSUME NEW p \in Proc, NEW k \in 1 .. MaxN, Write(p, k) \/ Read(p, k) PROVE PipeBase'
  BY <1>4, WriteKeeps, ReadKeeps
<1>5. ASSUME NEW p \in Proc, NEW q \in Proc, ForkChild(p, q) PROVE PipeBase'
  BY <1>5, ForkChildKeeps
<1>6. QED BY <1>1, <1>2, <1>3, <1>4, <1>5 DEF Next, Finished

\* For any number of readers and writers, any PIPESIZE and any counter width
\* that PIPESIZE divides: the bytes in the ring are those written and not
\* yet read, in order and once, through every wrap of nread, nwrite and the
\* index; and kfree(pi) is called at most once, by pipeclose() when nobody
\* holds an end or is inside pipewrite() or piperead().
THEOREM PipeHolds == Spec => []PipeInv
<1>1. PipeBase => PipeInv
  <2> SUFFICES ASSUME PipeBase PROVE PipeInv
    OBVIOUS
  <2>1. freed <= 1
    BY DEF PipeBase, EndsInv, ProcType
  <2>2. ASSUME freed = 1, NEW p \in Proc PROVE pc[p] \in {"unborn", "idle"} /\ fds[p] = {}
    <3>1. readopen = 0 /\ writeopen = 0
      BY <2>2 DEF PipeBase, EndsInv
    <3>2. "r" \notin fds[p] /\ "w" \notin fds[p] /\ pc[p] # "close_r" /\ pc[p] # "close_w"
      BY <3>1 DEF PipeBase, EndsInv
    <3>3. pc[p] \notin Reading /\ pc[p] \notin Writing
      BY <3>2 DEF PipeBase, EndsInv
    <3>4. QED BY <3>2, <3>3 DEF PipeBase, ProcType, Label, Locked, Asleep, Reading, Writing
  <2>3. TypeOK
    BY DEF PipeBase, RingType, ProcType, TypeOK
  <2>4. QED BY <2>1, <2>2, <2>3 DEF PipeBase, RingInv, PipeInv
<1>2. QED BY <1>1, BaseInit, BaseNext, PTL DEF Spec

\* With pi->lock free, a writer is asleep in pipewrite() only while the ring
\* is full and readable, and a reader in piperead() only while the ring is
\* empty and writable, unless a process was killed: sleep() releases
\* pi->lock in one step with falling asleep, and each loop under the lock
\* ends in the wakeup the sleepers are owed.
THEOREM NoWakeupIsLost == Spec => []WakeupsUnlessKilled
<1>1. PipeBase => WakeupsUnlessKilled
  <2> SUFFICES ASSUME PipeBase, lock = {}, NEW p \in Proc
               PROVE  /\ pc[p] = "r_asleep" => writeopen = 1 /\ (Empty \/ \E q \in Proc : killed[q] = 1)
                      /\ pc[p] = "w_asleep" => Full /\ readopen = 1
    BY DEF WakeupsUnlessKilled
  <2>1. \A q \in Proc : pc[q] \notin Locked
    BY DEF PipeBase, LockInv
  <2>2. \A q \in Proc : pc[q] # "w_loop" /\ pc[q] # "r_copy"
    BY <2>1 DEF Locked
  <2>3. QED BY <2>2 DEF PipeBase, SleepInv
<1>2. QED BY <1>1, BaseInit, BaseNext, PTL DEF Spec

=============================================================================

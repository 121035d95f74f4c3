---------------------------- MODULE BcacheProofs ----------------------------
(***************************************************************************)
(* Proofs about the buffer cache (module Bcache), for any numbers of       *)
(* processes, blocks, buffers and pinned blocks.                           *)
(*                                                                         *)
(* CacheBase is inductive: one lemma for each action, with one step for    *)
(* each conjunct.  What holds it together is that a buffer somebody uses   *)
(* or the log pinned has a count above 0 (RefcntExact), so that bget()     *)
(* recycles neither; that a block has one buffer (OneBufferPerBlock), so   *)
(* that the sleep lock of the buffer is a lock on the block; and that a    *)
(* block whose newest contents the disk lacks is cached, pinned or about   *)
(* to be (NewestIsCached).  That a recycled buffer is clean follows, and   *)
(* so does what bread() returns.                                           *)
(***************************************************************************)
EXTENDS Bcache, FiniteSetTheorems, WellFoundedInduction, TLAPS

\* Seconds that a prover may take over one leaf.
USE SMTT(20), ZenonT(40)

\* The inductive invariant: CacheSound without UnusedClean, which follows.
CacheBase ==
  /\ TypeOK /\ OneBufferPerBlock /\ GetsItsBlock /\ RefcntExact /\ SleepersHaveHolder
  /\ LockedByUser /\ NewestIsCached /\ PinsFit
  /\ panic \in {"none", "no buffers"}

\* Nil, Nobody and 0 name no block, process or buffer.
LEMMA BufFacts == 0 \notin Buf /\ Nil \notin Block /\ Nobody \notin Proc
BY BcacheAssumption DEF Buf

USE BufFacts

\* The processes between bread() and brelse() on a buffer are finitely many.
LEMMA UsersFinite == \A b : IsFiniteSet(Users(b)) /\ Cardinality(Users(b)) \in Nat
<1> SUFFICES ASSUME NEW b PROVE IsFiniteSet(Users(b)) /\ Cardinality(Users(b)) \in Nat
  OBVIOUS
<1>1. Users(b) \in SUBSET Proc
  BY DEF Users
<1>2. IsFiniteSet(Users(b))
  BY <1>1, FS_Subset, BcacheAssumption
<1>3. QED BY <1>2, FS_CardinalityType

\* bget() adds its caller to the users of the buffer it returns.
LEMMA UsersAdd ==
  ASSUME TypeOK, NEW p \in Proc, NEW c \in Buf, buf[p] = 0, buf' = [buf EXCEPT ![p] = c]
  PROVE  \A b \in Buf : Cardinality(Users(b))' = Cardinality(Users(b)) + (IF b = c THEN 1 ELSE 0)
<1> SUFFICES ASSUME NEW b \in Buf
             PROVE  Cardinality(Users(b))' = Cardinality(Users(b)) + (IF b = c THEN 1 ELSE 0)
  OBVIOUS
<1>1. CASE b = c
  <2>0. \A q \in Proc : buf'[q] = b <=> buf[q] = b \/ q = p
    BY <1>1 DEF TypeOK
  <2>1. Users(b)' = Users(b) \cup {p} /\ p \notin Users(b)
    BY <2>0 DEF Users
  <2>2. Cardinality(Users(b) \cup {p}) = Cardinality(Users(b)) + 1
    BY Zenon, <2>1, FS_AddElement, UsersFinite
  <2>3. QED BY <1>1, <2>1, <2>2
<1>2. CASE b # c
  <2>1. Users(b)' = Users(b)
    BY <1>2 DEF Users, TypeOK
  <2>2. QED BY <1>2, <2>1, UsersFinite
<1>3. QED BY <1>1, <1>2

\* brelse() takes its caller from the users of the buffer.
LEMMA UsersDrop ==
  ASSUME TypeOK, NEW p \in Proc, buf[p] \in Buf, buf' = [buf EXCEPT ![p] = 0]
  PROVE  /\ Cardinality(Users(buf[p])) >= 1
         /\ \A b \in Buf : Cardinality(Users(b))' = Cardinality(Users(b)) - (IF b = buf[p] THEN 1 ELSE 0)
<1>1. p \in Users(buf[p])
  BY DEF Users
<1>2. Cardinality(Users(buf[p])) >= 1
  BY <1>1, UsersFinite, FS_EmptySet
<1> SUFFICES ASSUME NEW b \in Buf
             PROVE  Cardinality(Users(b))' = Cardinality(Users(b)) - (IF b = buf[p] THEN 1 ELSE 0)
  BY <1>2
<1>3. CASE b = buf[p]
  <2>1. Users(b)' = Users(b) \ {p}
    BY <1>3 DEF Users, TypeOK
  <2>2. Cardinality(Users(b) \ {p}) = Cardinality(Users(b)) - 1
    BY Zenon, <1>1, <1>3, FS_RemoveElement, UsersFinite
  <2>3. QED BY <1>3, <2>1, <2>2
<1>4. CASE b # buf[p]
  <2>1. Users(b)' = Users(b)
    BY <1>4 DEF Users, TypeOK
  <2>2. QED BY <1>4, <2>1, UsersFinite
<1>5. QED BY <1>3, <1>4

\* A buffer whose count is 0 is nobody's and not pinned.
LEMMA FreeBuffer ==
  ASSUME TypeOK, RefcntExact, NEW b \in Buf, refcnt[b] = 0
  PROVE  b \notin pins /\ \A p \in Proc : buf[p] # b
<1>1. Cardinality(Users(b)) + (IF b \in pins THEN 1 ELSE 0) = 0
  BY DEF RefcntExact
<1>2. Cardinality(Users(b)) = 0 /\ b \notin pins
  BY <1>1, UsersFinite
<1>3. Users(b) = {}
  BY <1>2, UsersFinite, FS_EmptySet
<1>4. QED BY <1>2, <1>3 DEF Users

\* A process past bget() has a buffer, and asked for a block.
LEMMA InUse ==
  ASSUME TypeOK, LockedByUser, NEW p \in Proc, pc[p] # "out"
  PROVE  buf[p] \in Buf /\ want[p] \in Block
<1>1. buf[p] # 0 /\ want[p] # Nil
  BY DEF LockedByUser
<1>2. buf[p] \in Buf \cup {0} /\ want[p] \in Block \cup {Nil}
  BY DEF TypeOK
<1>3. QED BY <1>1, <1>2

\* brelse()'s relinking leaves every buffer on the list, once each.
LEMMA FrontPermutes ==
  ASSUME TypeOK, NEW b \in Buf
  PROVE  /\ ToFront(b) \in [Buf -> Buf]
         /\ \A c \in Buf : \E i \in Buf : ToFront(b)[i] = c
<1> DEFINE at == CHOOSE i \in Buf : lru[i] = b
<1>1. at \in Buf /\ lru[at] = b
  BY DEF TypeOK
<1>2. lru \in [Buf -> Buf] /\ \A c \in Buf : \E i \in Buf : lru[i] = c
  BY DEF TypeOK
<1>3. ToFront(b) = [i \in Buf |-> IF i = 1 THEN b ELSE IF i <= at THEN lru[i - 1] ELSE lru[i]]
  BY DEF ToFront
<1> HIDE DEF at
<1>4. ASSUME NEW c \in Buf PROVE \E i \in Buf : ToFront(b)[i] = c
  <2>1. PICK j \in Buf : lru[j] = c
    BY <1>2
  <2>2. CASE j = at
    <3>1. 1 \in Buf /\ ToFront(b)[1] = c
      BY <1>1, <1>3, <2>1, <2>2, BcacheAssumption DEF Buf
    <3>2. QED BY <3>1
  <2>3. CASE j < at
    <3>1. j + 1 \in Buf /\ ToFront(b)[j + 1] = c
      BY <1>1, <1>3, <2>1, <2>3, BcacheAssumption DEF Buf
    <3>2. QED BY <3>1
  <2>4. CASE j > at
    <3>1. ToFront(b)[j] = c
      BY <1>1, <1>3, <2>1, <2>4, BcacheAssumption DEF Buf
    <3>2. QED BY <3>1
  <2>5. QED BY <1>1, <2>2, <2>3, <2>4 DEF Buf
<1>5. ToFront(b) \in [Buf -> Buf]
  <2>1. \A i \in Buf : i # 1 => i - 1 \in Buf
    BY BcacheAssumption DEF Buf
  <2>2. QED BY <1>2, <1>3, <2>1
<1>6. QED BY <1>4, <1>5

\* bget() giving the unreferenced buffer c to block k, whichever position of the
\* list it was found at.
Recycle(p, k, c) ==
  /\ pc[p] = "out" /\ Cached(k) = {} /\ refcnt[c] = 0
  /\ blockno' = [blockno EXCEPT ![c] = k]
  /\ valid' = [valid EXCEPT ![c] = 0]
  /\ refcnt' = [refcnt EXCEPT ![c] = 1]
  /\ data' = [data EXCEPT ![c] = "old"]
  /\ buf' = [buf EXCEPT ![p] = c]
  /\ want' = [want EXCEPT ![p] = k]
  /\ Go(p, "lock")
  /\ UNCHANGED <<lru, holder, disk, pins, panic>>

\* BgetHit keeps the base invariant.
LEMMA BgetHitKeeps ==
  ASSUME CacheBase, panic = "none", NEW p \in Proc, NEW k \in Block, BgetHit(p, k)
  PROVE  CacheBase'
<1> USE DEF BgetHit, Go, Cached
<1>1. TypeOK'
  BY DEF CacheBase, TypeOK, Label, Contents
<1>2. OneBufferPerBlock'
  BY DEF CacheBase, TypeOK, OneBufferPerBlock
<1>3. GetsItsBlock'
  BY DEF CacheBase, TypeOK, GetsItsBlock
<1>4. RefcntExact'
  <2>1. PICK c \in Buf : /\ refcnt' = [refcnt EXCEPT ![c] = @ + 1]
                         /\ buf' = [buf EXCEPT ![p] = c]
    BY Zenon
  <2>2. buf[p] = 0
    BY DEF CacheBase, LockedByUser
  <2>3. \A b \in Buf : Cardinality(Users(b))' = Cardinality(Users(b)) + (IF b = c THEN 1 ELSE 0)
    BY Zenon, <2>1, <2>2, UsersAdd DEF CacheBase
  <2> HIDE DEF BgetHit
  <2>4. pins' = pins
    BY DEF BgetHit
  <2>5. QED BY <2>1, <2>3, <2>4, UsersFinite DEF CacheBase, TypeOK, RefcntExact
<1>5. SleepersHaveHolder'
  BY DEF CacheBase, TypeOK, SleepersHaveHolder
<1>6. LockedByUser'
  BY DEF CacheBase, TypeOK, LockedByUser, Holding
<1>7. NewestIsCached'
  BY DEF CacheBase, TypeOK, NewestIsCached, Cached
<1>8. PinsFit'
  BY DEF CacheBase, PinsFit
<1>9. (panic \in {"none", "no buffers"})'
  BY DEF CacheBase, TypeOK
<1>10. QED BY <1>1, <1>2, <1>3, <1>4, <1>5, <1>6, <1>7, <1>8, <1>9 DEF CacheBase

\* Giving a free buffer to a new block keeps the base invariant.
LEMMA RecycleKeeps ==
  ASSUME CacheBase, panic = "none", NEW p \in Proc, NEW k \in Block, NEW c \in Buf, Recycle(p, k, c)
  PROVE  CacheBase'
<1> USE DEF Recycle, Go, Cached
<1>f. c \notin pins /\ \A q \in Proc : buf[q] # c
  BY FreeBuffer DEF CacheBase
<1>g. \A q \in Proc : holder[c] # q
  BY <1>f DEF CacheBase, LockedByUser
<1>o. buf[p] = 0 /\ pc[p] = "out"
  BY DEF CacheBase, LockedByUser
<1>n. \A b \in Buf : blockno[b] # k
  BY DEF CacheBase
<1>1. TypeOK'
  BY DEF CacheBase, TypeOK, Label, Contents
<1>2. OneBufferPerBlock'
  BY <1>n DEF CacheBase, TypeOK, OneBufferPerBlock
<1>3. GetsItsBlock'
  BY <1>f, <1>o DEF CacheBase, TypeOK, LockedByUser, GetsItsBlock
<1>4. RefcntExact'
  <2>1. \A b \in Buf : Cardinality(Users(b))' = Cardinality(Users(b)) + (IF b = c THEN 1 ELSE 0)
    BY Zenon, <1>o, UsersAdd DEF CacheBase
  <2>2. refcnt' = [refcnt EXCEPT ![c] = 1] /\ pins' = pins /\ refcnt[c] = 0
    OBVIOUS
  <2> HIDE DEF Recycle
  <2>3. QED BY <1>f, <2>1, <2>2, UsersFinite DEF CacheBase, TypeOK, RefcntExact
<1>5. SleepersHaveHolder'
  BY DEF CacheBase, TypeOK, SleepersHaveHolder
<1>6. LockedByUser'
  BY <1>f, <1>g, <1>o DEF CacheBase, TypeOK, LockedByUser, Holding
<1>7. NewestIsCached'
  <2>1. ASSUME NEW b \in Buf, valid'[b] = 1
        PROVE  /\ blockno'[b] # Nil /\ data'[b] # "old"
               /\ data'[b] \in {disk'[blockno'[b]], "torn"} \/ disk'[blockno'[b]] = "old"
    BY <2>1 DEF CacheBase, TypeOK, NewestIsCached
  <2>2. ASSUME NEW j \in Block, disk'[j] = "old"
        PROVE  \E b \in Buf : /\ blockno'[b] = j /\ valid'[b] = 1
                              /\ b \in pins' \/ \E q \in Proc : buf'[q] = b /\ pc'[q] = "dirty"
    <3>1. PICK b \in Buf : /\ blockno[b] = j /\ valid[b] = 1
                           /\ b \in pins \/ \E q \in Proc : buf[q] = b /\ pc[q] = "dirty"
      BY <2>2 DEF CacheBase, NewestIsCached
    <3>2. b # c
      BY <1>f, <3>1
    <3>3. b \in pins' \/ \E q \in Proc : buf'[q] = b /\ pc'[q] = "dirty"
      BY <1>o, <3>1 DEF CacheBase, TypeOK
    <3>4. QED BY <3>1, <3>2, <3>3 DEF CacheBase, TypeOK
  <2>3. QED BY <2>1, <2>2 DEF NewestIsCached
<1>8. PinsFit'
  BY DEF CacheBase, PinsFit
<1>9. (panic \in {"none", "no buffers"})'
  BY DEF CacheBase, TypeOK
<1>10. QED BY <1>1, <1>2, <1>3, <1>4, <1>5, <1>6, <1>7, <1>8, <1>9 DEF CacheBase

\* AcquireSleep keeps the base invariant.
LEMMA AcquireSleepKeeps ==
  ASSUME CacheBase, panic = "none", NEW p \in Proc, AcquireSleep(p)
  PROVE  CacheBase'
<1> USE DEF AcquireSleep, Go, cache
<1>u. buf[p] \in Buf /\ want[p] \in Block
  BY InUse DEF CacheBase, LockedByUser, Holding
<1>1. TypeOK'
  BY Zenon DEF CacheBase, TypeOK, Label, Contents
<1>2. OneBufferPerBlock'
  BY DEF CacheBase, TypeOK, OneBufferPerBlock
<1>3. GetsItsBlock'
  BY DEF CacheBase, TypeOK, GetsItsBlock
<1>4. RefcntExact'
  BY DEF CacheBase, TypeOK, RefcntExact, Users
<1>5. SleepersHaveHolder'
  BY DEF CacheBase, TypeOK, SleepersHaveHolder
<1>6. LockedByUser'
  BY DEF CacheBase, TypeOK, LockedByUser, Holding
<1>7. NewestIsCached'
  BY DEF CacheBase, TypeOK, NewestIsCached, Cached
<1>8. PinsFit'
  BY DEF CacheBase, PinsFit
<1>9. (panic \in {"none", "no buffers"})'
  BY DEF CacheBase, TypeOK
<1>10. QED BY <1>1, <1>2, <1>3, <1>4, <1>5, <1>6, <1>7, <1>8, <1>9 DEF CacheBase

\* SleepOnLock keeps the base invariant.
LEMMA SleepOnLockKeeps ==
  ASSUME CacheBase, panic = "none", NEW p \in Proc, SleepOnLock(p)
  PROVE  CacheBase'
<1> USE DEF SleepOnLock, Go, cache
<1>u. buf[p] \in Buf /\ want[p] \in Block
  BY InUse DEF CacheBase, LockedByUser, Holding
<1>1. TypeOK'
  BY DEF CacheBase, TypeOK, Label, Contents
<1>2. OneBufferPerBlock'
  BY DEF CacheBase, TypeOK, OneBufferPerBlock
<1>3. GetsItsBlock'
  BY DEF CacheBase, TypeOK, GetsItsBlock
<1>4. RefcntExact'
  BY DEF CacheBase, TypeOK, RefcntExact, Users
<1>5. SleepersHaveHolder'
  BY DEF CacheBase, TypeOK, SleepersHaveHolder
<1>6. LockedByUser'
  BY DEF CacheBase, TypeOK, LockedByUser, Holding
<1>7. NewestIsCached'
  BY DEF CacheBase, TypeOK, NewestIsCached, Cached
<1>8. PinsFit'
  BY DEF CacheBase, PinsFit
<1>9. (panic \in {"none", "no buffers"})'
  BY DEF CacheBase, TypeOK
<1>10. QED BY <1>1, <1>2, <1>3, <1>4, <1>5, <1>6, <1>7, <1>8, <1>9 DEF CacheBase

\* Kill keeps the base invariant.
LEMMA KillKeeps ==
  ASSUME CacheBase, panic = "none", NEW p \in Proc, Kill(p)
  PROVE  CacheBase'
<1> USE DEF Kill, Go, cache
<1>u. buf[p] \in Buf /\ want[p] \in Block
  BY InUse DEF CacheBase, LockedByUser, Holding
<1>1. TypeOK'
  BY DEF CacheBase, TypeOK, Label, Contents
<1>2. OneBufferPerBlock'
  BY DEF CacheBase, TypeOK, OneBufferPerBlock
<1>3. GetsItsBlock'
  BY DEF CacheBase, TypeOK, GetsItsBlock
<1>4. RefcntExact'
  BY DEF CacheBase, TypeOK, RefcntExact, Users
<1>5. SleepersHaveHolder'
  BY DEF CacheBase, TypeOK, SleepersHaveHolder
<1>6. LockedByUser'
  BY DEF CacheBase, TypeOK, LockedByUser, Holding
<1>7. NewestIsCached'
  BY DEF CacheBase, TypeOK, NewestIsCached, Cached
<1>8. PinsFit'
  BY DEF CacheBase, PinsFit
<1>9. (panic \in {"none", "no buffers"})'
  BY DEF CacheBase, TypeOK
<1>10. QED BY <1>1, <1>2, <1>3, <1>4, <1>5, <1>6, <1>7, <1>8, <1>9 DEF CacheBase

\* Bread keeps the base invariant.
LEMMA BreadKeeps ==
  ASSUME CacheBase, panic = "none", NEW p \in Proc, Bread(p)
  PROVE  CacheBase'
<1> USE DEF Bread, Fill, Go
<1>u. buf[p] \in Buf /\ want[p] \in Block
  BY InUse DEF CacheBase, LockedByUser, Holding
<1>h. holder[buf[p]] = p
  BY <1>u DEF CacheBase, LockedByUser, Holding
<1>1. TypeOK'
  <2>1. blockno[buf[p]] \in Block
    BY <1>u DEF CacheBase, GetsItsBlock
  <2>2. disk[blockno[buf[p]]] \in Contents
    BY <2>1 DEF CacheBase, TypeOK
  <2>3. data' \in [Buf -> Contents] /\ valid' \in [Buf -> {0, 1}]
    BY Zenon, <1>u, <2>2 DEF CacheBase, TypeOK
  <2>4. pc' \in [Proc -> Label]
    BY DEF CacheBase, TypeOK, Label
  <2>5. QED BY <2>3, <2>4 DEF CacheBase, TypeOK
<1>2. OneBufferPerBlock'
  BY DEF CacheBase, TypeOK, OneBufferPerBlock
<1>3. GetsItsBlock'
  BY DEF CacheBase, TypeOK, GetsItsBlock
<1>4. RefcntExact'
  BY DEF CacheBase, TypeOK, RefcntExact, Users
<1>5. SleepersHaveHolder'
  BY DEF CacheBase, TypeOK, SleepersHaveHolder
<1>6. LockedByUser'
  BY DEF CacheBase, TypeOK, LockedByUser, Holding
<1>7. NewestIsCached'
  <2>1. blockno[buf[p]] = want[p]
    BY DEF CacheBase, GetsItsBlock
  <2>2. valid[buf[p]] = 0 => disk[want[p]] # "old"
    BY <1>u, <2>1 DEF CacheBase, NewestIsCached, Cached, OneBufferPerBlock
  <2>3. ASSUME NEW b \in Buf, valid'[b] = 1
        PROVE  /\ blockno'[b] # Nil /\ data'[b] # "old"
               /\ data'[b] \in {disk'[blockno'[b]], "torn"} \/ disk'[blockno'[b]] = "old"
    BY <1>u, <2>1, <2>2, <2>3 DEF CacheBase, TypeOK, NewestIsCached
  <2>4. \A k \in Block : disk'[k] = "old" => \E b \in Buf :
          /\ blockno'[b] = k /\ valid'[b] = 1
          /\ b \in pins' \/ \E q \in Proc : buf'[q] = b /\ pc'[q] = "dirty"
    BY DEF CacheBase, TypeOK, NewestIsCached, Cached
  <2>5. QED BY <2>3, <2>4 DEF NewestIsCached, Cached
<1>8. PinsFit'
  BY DEF CacheBase, PinsFit
<1>9. (panic \in {"none", "no buffers"})'
  BY DEF CacheBase, TypeOK
<1>10. QED BY <1>1, <1>2, <1>3, <1>4, <1>5, <1>6, <1>7, <1>8, <1>9 DEF CacheBase

\* Modify keeps the base invariant.
LEMMA ModifyKeeps ==
  ASSUME CacheBase, panic = "none", NEW p \in Proc, Modify(p)
  PROVE  CacheBase'
<1> USE DEF Modify, Go, cache
<1>u. buf[p] \in Buf /\ want[p] \in Block
  BY InUse DEF CacheBase, LockedByUser, Holding
<1>h. holder[buf[p]] = p
  BY <1>u DEF CacheBase, LockedByUser, Holding
<1>1. TypeOK'
  BY Zenon DEF CacheBase, TypeOK, Label, Contents
<1>2. OneBufferPerBlock'
  BY DEF CacheBase, TypeOK, OneBufferPerBlock
<1>3. GetsItsBlock'
  BY DEF CacheBase, TypeOK, GetsItsBlock
<1>4. RefcntExact'
  BY DEF CacheBase, TypeOK, RefcntExact, Users
<1>5. SleepersHaveHolder'
  BY DEF CacheBase, TypeOK, SleepersHaveHolder
<1>6. LockedByUser'
  <2>1. ASSUME NEW q \in Proc, pc[q] = "installed" PROVE want[q] # want[p]
    <3>1. buf[q] \in Buf /\ holder[buf[q]] = q /\ blockno[buf[q]] = want[q]
      BY <2>1, InUse DEF CacheBase, LockedByUser, Holding, GetsItsBlock
    <3>2. blockno[buf[p]] = want[p]
      BY DEF CacheBase, GetsItsBlock
    <3>3. QED BY <1>u, <1>h, <2>1, <3>1, <3>2 DEF CacheBase, OneBufferPerBlock
  <2>2. \A q \in Proc : pc'[q] = "installed" => (buf[q] \in pins /\ disk'[want[q]] # "old")
    BY <2>1 DEF CacheBase, TypeOK, LockedByUser
  <2>3. /\ \A q \in Proc : (pc'[q] = "out" <=> pc[q] = "out") /\ (pc'[q] \in Holding <=> pc[q] \in Holding)
        /\ \A q \in Proc : pc'[q] \in Holding \ {"have"} => pc[q] \in Holding \ {"have"}
    BY DEF CacheBase, TypeOK, Holding
  <2>4. UNCHANGED <<buf, want, holder, valid, pins>>
    OBVIOUS
  <2> HIDE DEF Modify
  <2>5. QED BY <2>2, <2>3, <2>4 DEF CacheBase, LockedByUser, Holding
<1>7. NewestIsCached'
  BY <1>u DEF CacheBase, TypeOK, NewestIsCached, Cached, LockedByUser, Holding, GetsItsBlock
<1>8. PinsFit'
  BY DEF CacheBase, PinsFit
<1>9. (panic \in {"none", "no buffers"})'
  BY DEF CacheBase, TypeOK
<1>10. QED BY <1>1, <1>2, <1>3, <1>4, <1>5, <1>6, <1>7, <1>8, <1>9 DEF CacheBase

\* ModifyFails keeps the base invariant.
LEMMA ModifyFailsKeeps ==
  ASSUME CacheBase, panic = "none", NEW p \in Proc, ModifyFails(p)
  PROVE  CacheBase'
<1> USE DEF ModifyFails, cache
<1>u. buf[p] \in Buf /\ want[p] \in Block
  BY InUse DEF CacheBase, LockedByUser, Holding
<1>h. holder[buf[p]] = p
  BY <1>u DEF CacheBase, LockedByUser, Holding
<1>1. TypeOK'
  BY Zenon DEF CacheBase, TypeOK, Label, Contents
<1>2. OneBufferPerBlock'
  BY DEF CacheBase, TypeOK, OneBufferPerBlock
<1>3. GetsItsBlock'
  BY DEF CacheBase, TypeOK, GetsItsBlock
<1>4. RefcntExact'
  BY DEF CacheBase, TypeOK, RefcntExact, Users
<1>5. SleepersHaveHolder'
  BY DEF CacheBase, TypeOK, SleepersHaveHolder
<1>6. LockedByUser'
  BY DEF CacheBase, TypeOK, LockedByUser, Holding
<1>7. NewestIsCached'
  BY DEF CacheBase, TypeOK, NewestIsCached, Cached
<1>8. PinsFit'
  BY DEF CacheBase, PinsFit
<1>9. (panic \in {"none", "no buffers"})'
  BY DEF CacheBase, TypeOK
<1>10. QED BY <1>1, <1>2, <1>3, <1>4, <1>5, <1>6, <1>7, <1>8, <1>9 DEF CacheBase

\* LogWrite keeps the base invariant.
LEMMA LogWriteKeeps ==
  ASSUME CacheBase, panic = "none", NEW p \in Proc, LogWrite(p)
  PROVE  CacheBase'
<1> USE DEF LogWrite, Pin, Go
<1>u. buf[p] \in Buf /\ want[p] \in Block
  BY InUse DEF CacheBase, LockedByUser, Holding
<1>h. holder[buf[p]] = p
  BY <1>u DEF CacheBase, LockedByUser, Holding
<1>1. TypeOK'
  BY <1>u DEF CacheBase, TypeOK, Label, Contents
<1>2. OneBufferPerBlock'
  BY DEF CacheBase, TypeOK, OneBufferPerBlock
<1>3. GetsItsBlock'
  BY DEF CacheBase, TypeOK, GetsItsBlock
<1>4. RefcntExact'
  <2>0. \A b \in Buf : Users(b)' = Users(b)
    BY DEF Users
  <2>1. CASE UNCHANGED <<pins, refcnt>>
    BY <2>0, <2>1 DEF CacheBase, RefcntExact
  <2>2. CASE /\ buf[p] \notin pins /\ pins' = pins \cup {buf[p]}
             /\ refcnt' = [refcnt EXCEPT ![buf[p]] = @ + 1]
    BY <1>u, <2>0, <2>2, UsersFinite DEF CacheBase, TypeOK, RefcntExact
  <2>3. QED BY <2>1, <2>2
<1>5. SleepersHaveHolder'
  BY DEF CacheBase, TypeOK, SleepersHaveHolder
<1>6. LockedByUser'
  BY DEF CacheBase, TypeOK, LockedByUser, Holding
<1>7. NewestIsCached'
  BY DEF CacheBase, TypeOK, NewestIsCached, Cached
<1>8. PinsFit'
  <2>1. CASE UNCHANGED pins
    BY <2>1 DEF CacheBase, PinsFit
  <2>2. CASE buf[p] \notin pins /\ pins' = pins \cup {buf[p]}
    <3>1. IsFiniteSet(pins') /\ Cardinality(pins') = Cardinality(pins) + 1
      BY Zenon, <2>2, FS_AddElement DEF CacheBase, PinsFit
    <3>2. Cardinality(pins) < LOGBLOCKS /\ Cardinality(pins) \in Nat
      BY <2>2, FS_CardinalityType DEF CacheBase, PinsFit
    <3>3. LOGBLOCKS \in Nat
      BY BcacheAssumption
    <3>4. Cardinality(pins') <= LOGBLOCKS
      BY <3>1, <3>2, <3>3
    <3>5. QED BY <3>1, <3>4 DEF PinsFit
  <2>3. QED BY <2>1, <2>2
<1>9. (panic \in {"none", "no buffers"})'
  BY DEF CacheBase, TypeOK
<1>10. QED BY <1>1, <1>2, <1>3, <1>4, <1>5, <1>6, <1>7, <1>8, <1>9 DEF CacheBase

\* Bwrite keeps the base invariant.
LEMMA BwriteKeeps ==
  ASSUME CacheBase, panic = "none", NEW p \in Proc, Bwrite(p)
  PROVE  CacheBase'
<1> USE DEF Bwrite, Go, cache
<1>u. buf[p] \in Buf /\ want[p] \in Block
  BY InUse DEF CacheBase, LockedByUser, Holding
<1>h. holder[buf[p]] = p
  BY <1>u DEF CacheBase, LockedByUser, Holding
<1>1. TypeOK'
  BY <1>u, <1>h DEF CacheBase, TypeOK, Label, Contents
<1>2. OneBufferPerBlock'
  BY DEF CacheBase, TypeOK, OneBufferPerBlock
<1>3. GetsItsBlock'
  BY DEF CacheBase, TypeOK, GetsItsBlock
<1>4. RefcntExact'
  BY DEF CacheBase, TypeOK, RefcntExact, Users
<1>5. SleepersHaveHolder'
  BY DEF CacheBase, TypeOK, SleepersHaveHolder
<1>6. LockedByUser'
  BY <1>u DEF CacheBase, TypeOK, LockedByUser, Holding, GetsItsBlock, OneBufferPerBlock,
       NewestIsCached
<1>7. NewestIsCached'
  BY <1>u DEF CacheBase, TypeOK, NewestIsCached, Cached, LockedByUser, Holding,
       GetsItsBlock, OneBufferPerBlock
<1>8. PinsFit'
  BY DEF CacheBase, PinsFit
<1>9. (panic \in {"none", "no buffers"})'
  BY <1>h DEF CacheBase
<1>10. QED BY <1>1, <1>2, <1>3, <1>4, <1>5, <1>6, <1>7, <1>8, <1>9 DEF CacheBase

\* Bunpin keeps the base invariant.
LEMMA BunpinKeeps ==
  ASSUME CacheBase, panic = "none", NEW p \in Proc, Bunpin(p)
  PROVE  CacheBase'
<1> USE DEF Bunpin, Go
<1>u. buf[p] \in Buf /\ want[p] \in Block
  BY InUse DEF CacheBase, LockedByUser, Holding
<1>h. holder[buf[p]] = p
  BY <1>u DEF CacheBase, LockedByUser, Holding
<1>1. TypeOK'
  <2>1. refcnt[buf[p]] - 1 \in Nat
    BY <1>u, UsersFinite DEF CacheBase, TypeOK, RefcntExact, LockedByUser
  <2>2. QED BY <1>u, <2>1 DEF CacheBase, TypeOK, Label, Contents
<1>2. OneBufferPerBlock'
  BY DEF CacheBase, TypeOK, OneBufferPerBlock
<1>3. GetsItsBlock'
  BY DEF CacheBase, TypeOK, GetsItsBlock
<1>4. RefcntExact'
  <2>1. buf[p] \in pins
    BY DEF CacheBase, LockedByUser
  <2>2. \A b \in Buf : Users(b)' = Users(b)
    BY DEF Users
  <2>3. QED BY <1>u, <2>1, <2>2, UsersFinite DEF CacheBase, TypeOK, RefcntExact
<1>5. SleepersHaveHolder'
  BY DEF CacheBase, TypeOK, SleepersHaveHolder
<1>6. LockedByUser'
  BY DEF CacheBase, TypeOK, LockedByUser, Holding
<1>7. NewestIsCached'
  BY <1>u DEF CacheBase, TypeOK, NewestIsCached, Cached, LockedByUser, Holding, GetsItsBlock
<1>8. PinsFit'
  <2>1. pins' \in SUBSET pins
    OBVIOUS
  <2>2. IsFiniteSet(pins') /\ Cardinality(pins') <= Cardinality(pins)
    BY <2>1, FS_Subset DEF CacheBase, PinsFit
  <2>3. Cardinality(pins') \in Nat /\ Cardinality(pins) \in Nat
    BY <2>2, FS_CardinalityType DEF CacheBase, PinsFit
  <2>4. Cardinality(pins) \in Nat /\ Cardinality(pins) <= LOGBLOCKS
    BY FS_CardinalityType DEF CacheBase, PinsFit
  <2> HIDE DEF Bunpin
  <2>5. QED BY <2>2, <2>3, <2>4, BcacheAssumption DEF PinsFit
<1>9. (panic \in {"none", "no buffers"})'
  BY DEF CacheBase, TypeOK
<1>10. QED BY <1>1, <1>2, <1>3, <1>4, <1>5, <1>6, <1>7, <1>8, <1>9 DEF CacheBase

\* ReleaseSleep keeps the base invariant.
LEMMA ReleaseSleepKeeps ==
  ASSUME CacheBase, panic = "none", NEW p \in Proc, ReleaseSleep(p)
  PROVE  CacheBase'
<1> USE DEF ReleaseSleep, WakeLock, cache
<1>u. buf[p] \in Buf /\ want[p] \in Block
  BY InUse DEF CacheBase, LockedByUser, Holding
<1>h. holder[buf[p]] = p
  BY <1>u DEF CacheBase, LockedByUser, Holding
<1>1. TypeOK'
  BY <1>h DEF CacheBase, TypeOK, Label, Contents
<1>2. OneBufferPerBlock'
  BY DEF CacheBase, TypeOK, OneBufferPerBlock
<1>3. GetsItsBlock'
  BY DEF CacheBase, TypeOK, GetsItsBlock
<1>4. RefcntExact'
  BY DEF CacheBase, TypeOK, RefcntExact, Users
<1>5. SleepersHaveHolder'
  BY <1>u DEF CacheBase, TypeOK, SleepersHaveHolder, LockedByUser
<1>6. LockedByUser'
  BY <1>u DEF CacheBase, TypeOK, LockedByUser, Holding
<1>7. NewestIsCached'
  BY DEF CacheBase, TypeOK, NewestIsCached, Cached
<1>8. PinsFit'
  BY DEF CacheBase, PinsFit
<1>9. (panic \in {"none", "no buffers"})'
  BY <1>h DEF CacheBase
<1>10. QED BY <1>1, <1>2, <1>3, <1>4, <1>5, <1>6, <1>7, <1>8, <1>9 DEF CacheBase

\* Put keeps the base invariant.
LEMMA PutKeeps ==
  ASSUME CacheBase, panic = "none", NEW p \in Proc, Put(p)
  PROVE  CacheBase'
<1> USE DEF Put, Drop, Go
<1>u. buf[p] \in Buf /\ want[p] \in Block
  BY InUse DEF CacheBase, LockedByUser, Holding
<1>1. TypeOK'
  <2>1. refcnt[buf[p]] - 1 \in Nat
    <3>1. Cardinality(Users(buf[p])) >= 1
      BY Zenon, <1>u, UsersDrop DEF CacheBase
    <3>2. refcnt[buf[p]] = Cardinality(Users(buf[p])) + (IF buf[p] \in pins THEN 1 ELSE 0)
      BY <1>u DEF CacheBase, RefcntExact
    <3> HIDE DEF Put
    <3>3. QED BY <3>1, <3>2, UsersFinite
  <2>2. lru' \in [Buf -> Buf] /\ \A b \in Buf : \E i \in Buf : lru'[i] = b
    <3>1. lru' = ToFront(buf[p]) \/ lru' = lru
      OBVIOUS
    <3> HIDE DEF Put
    <3>2. CASE lru' = lru
      BY <3>2 DEF CacheBase, TypeOK
    <3>3. CASE lru' = ToFront(buf[p])
      BY Zenon, <1>u, <3>3, FrontPermutes DEF CacheBase
    <3>4. QED BY <3>1, <3>2, <3>3
  <2>3. QED BY <1>u, <2>1, <2>2 DEF CacheBase, TypeOK, Label, Contents
<1>2. OneBufferPerBlock'
  BY DEF CacheBase, TypeOK, OneBufferPerBlock
<1>3. GetsItsBlock'
  BY DEF CacheBase, TypeOK, GetsItsBlock
<1>4. RefcntExact'
  <2>1. \A b \in Buf : Cardinality(Users(b))' = Cardinality(Users(b)) - (IF b = buf[p] THEN 1 ELSE 0)
    BY Zenon, <1>u, UsersDrop DEF CacheBase
  <2>2. refcnt' = [refcnt EXCEPT ![buf[p]] = @ - 1] /\ pins' = pins
    OBVIOUS
  <2> HIDE DEF Put
  <2>3. QED BY <1>u, <2>1, <2>2, UsersFinite DEF CacheBase, TypeOK, RefcntExact
<1>5. SleepersHaveHolder'
  BY DEF CacheBase, TypeOK, SleepersHaveHolder
<1>6. LockedByUser'
  BY DEF CacheBase, TypeOK, LockedByUser, Holding
<1>7. NewestIsCached'
  BY DEF CacheBase, TypeOK, NewestIsCached, Cached
<1>8. PinsFit'
  BY DEF CacheBase, PinsFit
<1>9. (panic \in {"none", "no buffers"})'
  BY DEF CacheBase, TypeOK
<1>10. QED BY <1>1, <1>2, <1>3, <1>4, <1>5, <1>6, <1>7, <1>8, <1>9 DEF CacheBase

\* What LockedByUser reads.
LEMMA LockedUnchanged ==
  ASSUME LockedByUser, UNCHANGED <<valid, holder, disk, pc, want, buf, pins>>
  PROVE  LockedByUser'
BY SMT DEF LockedByUser, Holding

\* What NewestIsCached reads.
LEMMA NewestUnchanged ==
  ASSUME NewestIsCached, UNCHANGED <<blockno, valid, data, disk, pc, buf, pins>>
  PROVE  NewestIsCached'
BY SMT DEF NewestIsCached, Cached

\* The base invariant reads nothing of panic but that it is one of the two.
LEMMA BaseUnchanged ==
  ASSUME CacheBase, panic' \in {"none", "no buffers"},
         UNCHANGED <<lru, blockno, valid, refcnt, data, holder, disk, pc, want, buf, pins>>
  PROVE  CacheBase'
<1>1. TypeOK'
  BY DEF CacheBase, TypeOK
<1>2. RefcntExact'
  <2>1. \A b \in Buf : Users(b)' = Users(b)
    BY DEF Users
  <2>2. QED BY <2>1 DEF CacheBase, RefcntExact
<1>3. PinsFit' /\ OneBufferPerBlock' /\ GetsItsBlock' /\ SleepersHaveHolder'
  BY DEF CacheBase, PinsFit, OneBufferPerBlock, GetsItsBlock, SleepersHaveHolder
<1>4. LockedByUser' /\ NewestIsCached'
  BY LockedUnchanged, NewestUnchanged DEF CacheBase
<1>5. QED BY <1>1, <1>2, <1>3, <1>4 DEF CacheBase

\* What bget() does on a miss: it takes a buffer with no reference, or panics
\* because no position of the list is fit.
LEMMA MissRecycles ==
  ASSUME CacheBase, NEW p \in Proc, NEW k \in Block, BgetMiss(p, k)
  PROVE  \/ \E c \in Buf : Recycle(p, k, c)
         \/ /\ \A i \in Buf : ~ Victim(i)
            /\ panic' = "no buffers"
            /\ UNCHANGED <<cache, data, holder, disk, pc, want, buf, pins>>
<1>1. CASE \A i \in Buf : ~ Victim(i)
  BY Zenon, <1>1 DEF BgetMiss, cache
<1>2. CASE ~ \A i \in Buf : ~ Victim(i)
  <2>1. PICK i \in Buf :
          /\ Victim(i)
          /\ blockno' = [blockno EXCEPT ![lru[i]] = k]
          /\ valid' = [valid EXCEPT ![lru[i]] = 0]
          /\ refcnt' = [refcnt EXCEPT ![lru[i]] = 1]
          /\ data' = [data EXCEPT ![lru[i]] = "old"]
          /\ buf' = [buf EXCEPT ![p] = lru[i]]
    BY <1>2 DEF BgetMiss
  <2>2. lru[i] \in Buf
    BY DEF CacheBase, TypeOK
  <2>3. Recycle(p, k, lru[i])
    BY Zenon, <1>2, <2>1 DEF BgetMiss, Recycle, Victim
  <2>4. QED BY <2>2, <2>3
<1>3. QED BY <1>1, <1>2

\* BgetMiss keeps the base invariant.
LEMMA BgetMissKeeps ==
  ASSUME CacheBase, panic = "none", NEW p \in Proc, NEW k \in Block, BgetMiss(p, k)
  PROVE  CacheBase'
<1>1. CASE \E c \in Buf : Recycle(p, k, c)
  BY <1>1, RecycleKeeps
<1>2. CASE panic' = "no buffers" /\ UNCHANGED <<cache, data, holder, disk, pc, want, buf, pins>>
  BY <1>2, BaseUnchanged DEF cache
<1>3. QED BY <1>1, <1>2, MissRecycles

\* binit() establishes the base invariant.
LEMMA BaseInit == Init => CacheBase
<1> SUFFICES ASSUME Init PROVE CacheBase
  OBVIOUS
<1>1. TypeOK
  <2>1. lru \in [Buf -> Buf]
    BY BcacheAssumption DEF Init, Buf
  <2>2. ASSUME NEW b \in Buf PROVE \E i \in Buf : lru[i] = b
    <3>1. NBUF + 1 - b \in Buf /\ lru[NBUF + 1 - b] = b
      BY BcacheAssumption DEF Init, Buf
    <3>2. QED BY <3>1
  <2>3. QED BY <2>1, <2>2 DEF Init, TypeOK, Label, Contents
<1>2. RefcntExact
  <2>1. ASSUME NEW b \in Buf PROVE Cardinality(Users(b)) = 0
    <3>1. Users(b) = {}
      BY DEF Init, Users
    <3>2. QED BY <3>1, FS_EmptySet
  <2>2. QED BY <2>1 DEF Init, RefcntExact
<1>3. PinsFit
  BY FS_EmptySet, BcacheAssumption DEF Init, PinsFit
<1>4. OneBufferPerBlock /\ GetsItsBlock /\ SleepersHaveHolder
  BY DEF Init, OneBufferPerBlock, GetsItsBlock, SleepersHaveHolder
<1>5. LockedByUser /\ NewestIsCached
  BY DEF Init, LockedByUser, Holding, NewestIsCached, Cached
<1>6. QED BY <1>1, <1>2, <1>3, <1>4, <1>5 DEF Init, CacheBase

\* Every step of every process keeps the base invariant.
LEMMA BaseNext == CacheBase /\ [Next]_vars => CacheBase'
<1> SUFFICES ASSUME CacheBase, [Next]_vars PROVE CacheBase'
  OBVIOUS
<1>1. CASE UNCHANGED vars
  BY <1>1, BaseUnchanged DEF vars, CacheBase
<1>2. CASE Next
  <2>1. panic = "none"
    BY <1>2 DEF Next
  <2>2. PICK p \in Proc :
          \/ \E k \in Block : BgetHit(p, k) \/ BgetMiss(p, k)
          \/ AcquireSleep(p) \/ SleepOnLock(p) \/ Kill(p) \/ Bread(p)
          \/ Modify(p) \/ ModifyFails(p)
          \/ LogWrite(p) \/ Bwrite(p) \/ Bunpin(p)
          \/ ReleaseSleep(p) \/ Put(p)
    BY <1>2 DEF Next
  <2>3. CASE \E k \in Block : BgetHit(p, k) \/ BgetMiss(p, k)
    BY <2>1, <2>3, BgetHitKeeps, BgetMissKeeps
  <2>4. CASE AcquireSleep(p) \/ SleepOnLock(p) \/ Kill(p) \/ Bread(p)
    BY <2>1, <2>4, AcquireSleepKeeps, SleepOnLockKeeps, KillKeeps, BreadKeeps
  <2>5. CASE Modify(p) \/ ModifyFails(p) \/ LogWrite(p) \/ Bwrite(p) \/ Bunpin(p)
    BY <2>1, <2>5, ModifyKeeps, ModifyFailsKeeps, LogWriteKeeps, BwriteKeeps, BunpinKeeps
  <2>6. CASE ReleaseSleep(p) \/ Put(p)
    BY <2>1, <2>6, ReleaseSleepKeeps, PutKeeps
  <2>7. QED BY <2>2, <2>3, <2>4, <2>5, <2>6
<1>3. QED BY <1>1, <1>2

\* A buffer that bget() may recycle is clean: were its block's newest contents
\* not on the disk, the buffer would be pinned or in the hands of its writer.
LEMMA BaseIsSound == CacheBase => CacheSound
<1> SUFFICES ASSUME CacheBase PROVE UnusedClean
  BY DEF CacheBase, CacheSound
<1> SUFFICES ASSUME NEW b \in Buf, refcnt[b] = 0, valid[b] = 1
             PROVE  data[b] \in {disk[blockno[b]], "torn"}
  BY DEF UnusedClean
<1>1. b \notin pins /\ \A p \in Proc : buf[p] # b
  BY FreeBuffer DEF CacheBase
<1>2. blockno[b] \in Block
  <2>1. blockno[b] # Nil
    BY DEF CacheBase, NewestIsCached
  <2>2. QED BY <2>1 DEF CacheBase, TypeOK
<1>3. disk[blockno[b]] # "old"
  <2>1. SUFFICES ASSUME disk[blockno[b]] = "old" PROVE FALSE
    OBVIOUS
  <2>2. PICK c \in Buf : /\ blockno[c] = blockno[b]
                         /\ c \in pins \/ \E p \in Proc : buf[p] = c /\ pc[p] = "dirty"
    <3>1. \E c \in Cached(blockno[b]) :
            valid[c] = 1 /\ (c \in pins \/ \E p \in Proc : buf[p] = c /\ pc[p] = "dirty")
      BY <1>2, <2>1 DEF CacheBase, NewestIsCached
    <3>2. QED BY <3>1 DEF Cached
  <2>3. c = b
    BY <1>2, <2>2 DEF CacheBase, OneBufferPerBlock
  <2>4. QED BY <1>1, <2>2, <2>3
<1>4. QED BY <1>3 DEF CacheBase, NewestIsCached

\* The buffer cache is sound, for any number of processes, blocks and buffers:
\* one buffer to a block, exact reference counts, a sleeper's buffer never
\* recycled, no change lost to a recycled buffer, no lost wakeup, and bwrite() and
\* brelse() only ever called by the lock's holder.  The only panic is bget()'s.
THEOREM CacheIsSound == Spec => []CacheSound
BY BaseInit, BaseNext, BaseIsSound, PTL DEF Spec

\* bread() hands its caller the newest contents of the block, through evictions,
\* log pins and writes by any processes, for any number of buffers.
THEOREM NewestIsRead == Spec => []ReadsLatest
<1>1. CacheBase => ReadsLatest
  <2> SUFFICES ASSUME CacheBase, NEW p \in Proc, pc[p] = "held" PROVE data[buf[p]] # "old"
    BY DEF ReadsLatest
  <2>1. buf[p] \in Buf
    BY InUse DEF CacheBase
  <2>2. valid[buf[p]] = 1
    BY DEF CacheBase, LockedByUser, Holding
  <2>3. QED BY <2>1, <2>2 DEF CacheBase, NewestIsCached
<1>2. QED BY <1>1, BaseInit, BaseNext, PTL DEF Spec

\* A nonempty set of naturals has a least member.
LEMMA NatMinimum ==
  ASSUME NEW T, T \subseteq Nat, T # {}
  PROVE  \E x \in T : \A y \in T : x <= y
<1>1. IsWellFoundedOn(OpToRel(<, Nat), Nat)
  BY NatLessThanWellFounded
<1>2. PICK x \in T : \A y \in T : ~ (<<y, x>> \in OpToRel(<, Nat))
  BY <1>1, WFMin
<1>3. \A y \in T : ~ (y < x)
  BY Zenon, <1>2 DEF OpToRel
<1>4. QED BY <1>3

\* bget()'s backward scan finds a buffer whenever some count is 0: the last
\* position of the list with such a buffer.
LEMMA VictimExists ==
  ASSUME TypeOK, NEW c \in Buf, refcnt[c] = 0
  PROVE  \E i \in Buf : Victim(i)
<1> DEFINE T == {m \in Nat : \E i \in Buf : m = NBUF - i /\ refcnt[lru[i]] = 0}
<1>1. PICK j \in Buf : lru[j] = c
  BY DEF TypeOK
<1>2. NBUF - j \in T
  BY <1>1, BcacheAssumption DEF Buf
<1>3. PICK m \in T : \A y \in T : m <= y
  <2> HIDE DEF T
  <2>1. T \subseteq Nat
    BY DEF T
  <2>2. QED BY Zenon, <1>2, <2>1, NatMinimum
<1>4. PICK i \in Buf : m = NBUF - i /\ refcnt[lru[i]] = 0
  BY <1>3
<1>5. ASSUME NEW l \in Buf, l > i PROVE refcnt[lru[l]] # 0
  <2>1. SUFFICES ASSUME refcnt[lru[l]] = 0 PROVE FALSE
    OBVIOUS
  <2>2. NBUF - l \in T
    BY <2>1, BcacheAssumption DEF Buf
  <2>3. NBUF - i <= NBUF - l
    BY <1>3, <1>4, <2>2
  <2>4. QED BY <1>5, <2>3, BcacheAssumption DEF Buf
<1>6. QED BY <1>4, <1>5 DEF Victim

\* With a buffer for every process and every pinned block, a process that has
\* none finds one with count 0: otherwise every unpinned buffer would have a user
\* of its own among the other processes.
LEMMA FreeBufferExists ==
  ASSUME CacheBase, Cardinality(Proc) + LOGBLOCKS <= NBUF, NEW p \in Proc, pc[p] = "out"
  PROVE  \E c \in Buf : refcnt[c] = 0
<1> SUFFICES ASSUME \A c \in Buf : refcnt[c] # 0 PROVE FALSE
  OBVIOUS
<1> DEFINE Rest == Buf \ pins
           f == [b \in Rest |-> CHOOSE q \in Proc : buf[q] = b]
<1>1. ASSUME NEW b \in Rest PROVE \E q \in Proc : buf[q] = b
  <2>1. Cardinality(Users(b)) # 0
    <3>1. b \in Buf /\ b \notin pins
      OBVIOUS
    <3> HIDE DEF Rest, f
    <3>2. refcnt[b] = Cardinality(Users(b)) + 0
      BY <3>1 DEF CacheBase, RefcntExact
    <3>3. QED BY <3>1, <3>2
  <2>2. Users(b) # {}
    BY <2>1, FS_EmptySet
  <2>3. QED BY <2>2 DEF Users
<1>2. ASSUME NEW b \in Rest PROVE f[b] \in Proc \ {p} /\ buf[f[b]] = b
  <2>1. f[b] \in Proc /\ buf[f[b]] = b
    BY <1>1
  <2>2. buf[p] = 0
    BY DEF CacheBase, LockedByUser
  <2>3. QED BY <2>1, <2>2
<1>3. f \in Injection(Rest, Proc \ {p})
  <2>1. f \in [Rest -> Proc \ {p}]
    BY <1>2
  <2>2. \A b, c \in Rest : f[b] = f[c] => b = c
    BY <1>2
  <2>3. QED BY <2>1, <2>2 DEF Injection, IsInjective
<1>4. /\ IsFiniteSet(Proc \ {p}) /\ Cardinality(Proc \ {p}) = Cardinality(Proc) - 1
  BY Zenon, FS_RemoveElement, BcacheAssumption
<1>5. Cardinality(Rest) <= Cardinality(Proc \ {p})
  <2> HIDE DEF Rest, f
  <2>1. QED BY <1>3, <1>4, FS_Injection
<1>6. /\ IsFiniteSet(Buf) /\ Cardinality(Buf) = NBUF
  BY FS_Interval, BcacheAssumption DEF Buf
<1>7. Cardinality(Rest) = Cardinality(Buf) - Cardinality(Buf \cap pins)
  BY Zenon, <1>6, FS_Difference
<1>8. Buf \cap pins = pins
  BY DEF CacheBase, TypeOK
<1>9. Cardinality(pins) \in Nat /\ Cardinality(pins) <= LOGBLOCKS /\ Cardinality(Proc) \in Nat
  BY FS_CardinalityType, BcacheAssumption DEF CacheBase, PinsFit
<1>10. Cardinality(Rest) = NBUF - Cardinality(pins)
  BY <1>6, <1>7, <1>8
<1> HIDE DEF Rest, f
<1>11. QED BY <1>4, <1>5, <1>9, <1>10, BcacheAssumption

\* bget() never panics when NBUF covers one buffer per process and every block
\* the log may have pinned.
THEOREM BuffersSuffice == Cardinality(Proc) + LOGBLOCKS <= NBUF => (Spec => []CacheInv)
<1> SUFFICES ASSUME Cardinality(Proc) + LOGBLOCKS <= NBUF PROVE Spec => []CacheInv
  OBVIOUS
<1> DEFINE Calm == panic = "none"
<1>1. Init => Calm
  BY DEF Init
<1>2. CacheBase /\ CacheBase' /\ Calm /\ [Next]_vars => Calm'
  <2> SUFFICES ASSUME CacheBase, CacheBase', panic = "none", [Next]_vars PROVE panic' = "none"
    OBVIOUS
  <2>1. CASE UNCHANGED vars
    BY <2>1 DEF vars
  <2>2. ASSUME NEW p \in Proc, NEW k \in Block, BgetMiss(p, k) PROVE panic' = "none"
    <3>1. pc[p] = "out"
      BY <2>2 DEF BgetMiss
    <3>2. \E i \in Buf : Victim(i)
      BY <3>1, FreeBufferExists, VictimExists DEF CacheBase
    <3>3. QED BY <2>2, <3>2, MissRecycles DEF Recycle
  <2>3. ASSUME NEW p \in Proc, Bwrite(p) \/ ReleaseSleep(p) PROVE panic' = "none"
    BY Zenon, <2>3 DEF CacheBase, Bwrite, ReleaseSleep
  <2>4. ASSUME NEW p \in Proc, NEW k \in Block, BgetHit(p, k) PROVE panic' = "none"
    BY <2>4 DEF BgetHit
  <2>5. ASSUME NEW p \in Proc, AcquireSleep(p) \/ SleepOnLock(p) \/ Kill(p) \/ Bread(p)
        PROVE  panic' = "none"
    BY <2>5 DEF AcquireSleep, SleepOnLock, Kill, Bread
  <2>6. ASSUME NEW p \in Proc, Modify(p) \/ ModifyFails(p) \/ LogWrite(p) \/ Bunpin(p) \/ Put(p)
        PROVE  panic' = "none"
    BY <2>6 DEF Modify, ModifyFails, LogWrite, Bunpin, Put
  <2>7. QED BY <2>1, <2>2, <2>3, <2>4, <2>5, <2>6 DEF Next
<1>3. CacheSound /\ Calm => CacheInv
  BY DEF CacheInv
<1> HIDE DEF Calm
<1>4. QED BY <1>1, <1>2, <1>3, BaseInit, BaseNext, BaseIsSound, PTL DEF Spec
=============================================================================

---------------------------- MODULE VirtioProofs ----------------------------
(***************************************************************************)
(* Proofs about kernel/virtio_disk.c, for every number of processes,       *)
(* blocks and descriptors: DescriptorsOwned, TransferDone and SleepersOwed *)
(* of module VirtioDisk.                                                   *)
(*                                                                         *)
(* DiskBase is the inductive invariant.  A request that has descriptors is *)
(* Live, and Pending until virtio_disk_intr() hears of it.  What makes the *)
(* driver right is that each pending request is in exactly one place, the  *)
(* available ring, the device or the used ring (QueueInv): so neither ring *)
(* overflows, no completion is counted twice, and every sleeper has one    *)
(* coming.                                                                 *)
(***************************************************************************)
EXTENDS VirtioDisk, Remainders, FiniteSetTheorems, TLAPS

\* Seconds that a prover may take over one leaf.
USE SMTT(20), ZenonT(40)

(***************************************************************************)
(* The inductive invariant                                                 *)
(***************************************************************************)
\* The processes whose request has descriptors, and those of them that
\* virtio_disk_intr() has not heard of.
Live == {p \in Proc : pc[p] \in {"waiting", "woken"}}
Pending == {p \in Live : bdisk[req[p].b] = 1}

\* A request belongs to one process and one block, and its head descriptor says
\* so; who sleeps for a buffer has it on its way.
ReqInv ==
  /\ \A p \in Proc : IF pc[p] = "out" THEN req[p] = NoRequest ELSE req[p] \in Request
  /\ \A p, q \in Proc : pc[p] # "out" /\ pc[q] # "out" /\ req[p].b = req[q].b => p = q
  /\ \A p \in Proc : IF p \in Live THEN head[p] \in Desc ELSE head[p] = Nil
  /\ \A p \in Live : ops[head[p]] = req[p] /\ info[head[p]] = req[p].b
  /\ \A p \in Proc : pc[p] = "waiting" => bdisk[req[p].b] = 1

\* Three descriptors to a request, no two requests sharing one, and the others
\* free.
ChainInv ==
  /\ \A p \in Live :
       LET i == head[p]
           j == next[i]
           k == next[j]
       IN  j \in Desc /\ k \in Desc /\ next[k] = Nil /\ i # j /\ i # k /\ j # k
  /\ \A p, q \in Live : p # q => Chain(head[p]) \cap Chain(head[q]) = {}
  /\ \A d \in Desc : free[d] = 0 <=> \E p \in Live : d \in Chain(head[p])
  /\ Cardinality(Free) + 3 * Cardinality(Live) = NUM

\* What the available ring holds for the device, and the used ring for the
\* driver.
Avails == (avail_idx - seen) % UINT16
Useds == (dev_used - used_idx) % UINT16
AvailAt(m) == avail[(seen + m) % RING]
UsedAt(m) == used[(used_idx + m) % RING]

\* Each pending request is in one place: in the available ring, with the
\* device, or in the used ring.
QueueInv ==
  /\ Avails + Cardinality(fetched) + Useds = Cardinality(Pending)
  /\ \A m \in 0 .. Avails - 1 : \E p \in Pending : head[p] = AvailAt(m)
  /\ \A d \in fetched : \E p \in Pending : head[p] = d
  /\ \A m \in 0 .. Useds - 1 : \E p \in Pending : head[p] = UsedAt(m)
  /\ \A m, k \in 0 .. Avails - 1 : AvailAt(m) = AvailAt(k) => m = k
  /\ \A m, k \in 0 .. Useds - 1 : UsedAt(m) = UsedAt(k) => m = k
  /\ \A m \in 0 .. Avails - 1 : AvailAt(m) \notin fetched
  /\ \A m \in 0 .. Useds - 1 : UsedAt(m) \notin fetched
  /\ \A m \in 0 .. Avails - 1, k \in 0 .. Useds - 1 : AvailAt(m) # UsedAt(k)
  /\ \A p \in Pending : \/ head[p] \in fetched
                        \/ \E m \in 0 .. Avails - 1 : AvailAt(m) = head[p]
                        \/ \E m \in 0 .. Useds - 1 : UsedAt(m) = head[p]

\* What is in the used ring, or past it, has been transferred.
Transferred(r) == moved[r.b] = IF r.write = 1 THEN "write" ELSE "read"
DoneInv ==
  /\ \A m \in 0 .. Useds - 1 : status[UsedAt(m)] = 0 /\ Transferred(ops[UsedAt(m)])
  /\ \A p \in Live : bdisk[req[p].b] = 0 => Transferred(req[p])

\* Who sleeps for descriptors lacks them, and a filled used ring is announced.
SleepInv ==
  /\ used_idx # dev_used => irq = 1 \/ handler # "off"
  /\ \A p \in Proc : pc[p] = "no_desc" => Cardinality(Free) < 3

\* The inductive invariant.
DiskBase == TypeOK /\ panic = "none" /\ ReqInv /\ ChainInv /\ QueueInv /\ DoneInv /\ SleepInv

(***************************************************************************)
(* Descriptors and chains                                                  *)
(***************************************************************************)
\* The assumptions on the sizes, and why three descriptors to a request
\* leave room in the rings.
LEMMA Sizes ==
  /\ NUM \in Nat /\ RING \in Nat /\ RING > 0 /\ UINT16 \in Nat /\ UINT16 > RING /\ UINT16 % RING = 0
  /\ \A c \in Nat : 3 * c <= NUM => c <= RING
<1>1. NUM \in Nat /\ NUM >= 3 /\ RING \in Nat /\ RING >= NUM \div 3
  BY VirtioAssumption
<1>2. \A c \in Nat : 3 * c <= NUM => c <= NUM \div 3
  BY <1>1
<1>3. NUM \div 3 \in Nat /\ NUM \div 3 > 0
  BY <1>1
<1>4. RING > 0 /\ \A c \in Nat : 3 * c <= NUM => c <= RING
  BY <1>1, <1>2, <1>3
<1>5. UINT16 \in Nat /\ UINT16 > RING /\ UINT16 % RING = 0
  BY VirtioAssumption
<1>6. QED BY <1>1, <1>4, <1>5

\* No descriptor and no block is called Nil.
LEMMA Names == IsFiniteSet(Proc) /\ Nil \notin Block /\ Nil \notin Desc
<1>1. NUM \notin 0 .. NUM - 1
  BY Sizes
<1>2. QED BY <1>1, VirtioAssumption DEF Nil, Desc

\* There are NUM descriptors.
LEMMA DescFinite == IsFiniteSet(Desc) /\ Cardinality(Desc) = NUM
<1>1. 0 \in Int /\ NUM - 1 \in Int /\ NUM \in Nat
  BY Sizes
<1> DEFINE b == NUM - 1
<1>2. b \in Int /\ b - 0 + 1 = NUM /\ ~ (0 > b)
  BY VirtioAssumption
<1> HIDE DEF b
<1>3. IsFiniteSet(0 .. b) /\ Cardinality(0 .. b) = b - 0 + 1
  BY <1>1, <1>2, FS_Interval
<1>4. QED BY <1>2, <1>3 DEF Desc, b

\* The sets that are counted are finite.
LEMMA SetsFinite ==
  ASSUME TypeOK
  PROVE  /\ IsFiniteSet(Live) /\ Cardinality(Live) \in Nat
         /\ IsFiniteSet(Pending) /\ Cardinality(Pending) \in Nat
         /\ IsFiniteSet(Free) /\ Cardinality(Free) \in Nat
         /\ IsFiniteSet(fetched) /\ Cardinality(fetched) \in Nat
         /\ Cardinality(Pending) <= Cardinality(Live)
<1>1. Live \in SUBSET Proc /\ Pending \in SUBSET Live /\ Free \in SUBSET Desc /\ fetched \in SUBSET Desc
  BY DEF Live, Pending, Free, TypeOK
<1>2. IsFiniteSet(Live) /\ IsFiniteSet(Free) /\ IsFiniteSet(fetched)
  BY Zenon, <1>1, Names, DescFinite, FS_Subset
<1>3. IsFiniteSet(Pending) /\ Cardinality(Pending) <= Cardinality(Live)
  BY Zenon, <1>1, <1>2, FS_Subset
<1>4. QED BY Zenon, <1>2, <1>3, FS_CardinalityType

\* The distance between two wrapping indexes is zero when they are equal,
\* and only then: the test used_idx != used->idx of virtio_disk_intr().
LEMMA Distance ==
  ASSUME NEW t \in 0 .. UINT16 - 1, NEW h \in 0 .. UINT16 - 1
  PROVE  (t - h) % UINT16 \in 0 .. UINT16 - 1 /\ ((t - h) % UINT16 = 0 <=> t = h)
<1>1. UINT16 \in Nat /\ UINT16 > 0
  BY Sizes
<1>2. t \in Int /\ h \in Int /\ t - h \in Int
  BY <1>1
<1>3. (t - h) % UINT16 \in 0 .. UINT16 - 1
  BY <1>1, <1>2, ModDef
<1>4. t = (h + ((t - h) % UINT16)) % UINT16
  BY Zenon, <1>1, <1>2, DistanceBack
<1>5. (t - h) % UINT16 = 0 => t = h
  <2>1. h + 0 = h /\ h % UINT16 = h
    BY <1>1, <1>2, ModSmall
  <2>2. QED BY <1>4, <2>1
<1>6. t = h => (t - h) % UINT16 = 0
  <2>1. t = h => t - h = 0
    BY <1>2
  <2>2. 0 \in 0 .. UINT16 - 1
    BY <1>1
  <2>3. 0 % UINT16 = 0
    BY <1>1, <2>2, ModSmall
  <2>4. QED BY <2>1, <2>3
<1>7. QED BY <1>3, <1>5, <1>6

\* The indexes of the rings and the numbers of their entries.
LEMMA Counters ==
  ASSUME TypeOK
  PROVE  /\ avail_idx \in 0 .. UINT16 - 1 /\ seen \in 0 .. UINT16 - 1
         /\ dev_used \in 0 .. UINT16 - 1 /\ used_idx \in 0 .. UINT16 - 1
         /\ Avails \in Nat /\ Useds \in Nat
         /\ Avails = 0 <=> avail_idx = seen
         /\ Useds = 0 <=> dev_used = used_idx
<1>1. avail_idx \in 0 .. UINT16 - 1 /\ seen \in 0 .. UINT16 - 1
  BY Zenon DEF TypeOK
<1>2. dev_used \in 0 .. UINT16 - 1 /\ used_idx \in 0 .. UINT16 - 1
  BY Zenon DEF TypeOK
<1>3. Avails \in 0 .. UINT16 - 1 /\ (Avails = 0 <=> avail_idx = seen)
  BY Zenon, <1>1, Distance DEF Avails
<1>4. Useds \in 0 .. UINT16 - 1 /\ (Useds = 0 <=> dev_used = used_idx)
  BY Zenon, <1>2, Distance DEF Useds
<1>5. QED BY <1>1, <1>2, <1>3, <1>4

\* idx += 1 on a uint16.
LEMMA BumpType == ASSUME NEW x \in 0 .. UINT16 - 1 PROVE Bump(x) \in 0 .. UINT16 - 1
<1>1. UINT16 \in Nat /\ UINT16 > 0
  BY Sizes
<1>2. x + 1 \in Int
  BY <1>1
<1>3. QED BY Zenon, <1>1, <1>2, ModDef DEF Bump

\* The rings never overflow, though neither side checks: each entry stands
\* for a pending request, and a request has three of the NUM descriptors.
LEMMA RingsFit ==
  ASSUME TypeOK, ChainInv, QueueInv
  PROVE  /\ Cardinality(Live) <= RING
         /\ fetched # {} => Useds < RING
         /\ Cardinality(Free) >= 3 => Avails < RING
<1> DEFINE l == Cardinality(Live)
           n == Cardinality(Pending)
           f == Cardinality(Free)
           g == Cardinality(fetched)
<1>1. l \in Nat /\ n \in Nat /\ f \in Nat /\ g \in Nat /\ n <= l
  BY SetsFinite
<1>2. f + 3 * l = NUM /\ Avails + g + Useds = n
  BY DEF ChainInv, QueueInv
<1>3. fetched # {} => g > 0
  <2>1. fetched # {} => g # 0
    BY Zenon, SetsFinite, FS_EmptySet
  <2>2. QED BY <1>1, <2>1
<1>4. Avails \in Nat /\ Useds \in Nat
  BY Counters
<1> HIDE DEF l, n, f, g
<1>5. l <= RING /\ (f >= 3 => l + 1 <= RING)
  <2>1. 3 * l <= NUM /\ (f >= 3 => 3 * (l + 1) <= NUM)
    BY <1>1, <1>2
  <2>2. l + 1 \in Nat
    BY <1>1
  <2>3. QED BY <1>1, <2>1, <2>2, Sizes
<1>6. RING \in Nat
  BY Sizes
<1>7. (fetched # {} => Useds < RING) /\ (f >= 3 => Avails < RING)
  BY <1>1, <1>2, <1>3, <1>4, <1>5, <1>6
<1>8. QED BY <1>5, <1>7 DEF l, f

\* A set of three.
LEMMA ThreeOf ==
  ASSUME NEW i, NEW j, NEW k, i # j, i # k, j # k
  PROVE  IsFiniteSet({i, j, k}) /\ Cardinality({i, j, k}) = 3
<1>1. IsFiniteSet({i}) /\ Cardinality({i}) = 1
  BY Zenon, FS_Singleton
<1>2. IsFiniteSet({i} \cup {j}) /\ Cardinality({i} \cup {j}) = Cardinality({i}) + 1
  BY Zenon, <1>1, FS_AddElement
<1>3. k \notin {i} \cup {j}
  OBVIOUS
<1>4. /\ IsFiniteSet(({i} \cup {j}) \cup {k})
      /\ Cardinality(({i} \cup {j}) \cup {k}) = Cardinality({i} \cup {j}) + 1
  BY Zenon, <1>2, <1>3, FS_AddElement
<1>5. ({i} \cup {j}) \cup {k} = {i, j, k}
  OBVIOUS
<1>6. QED BY <1>1, <1>2, <1>4, <1>5

\* What free_chain() finds, following next from the head of a request in
\* flight.
LEMMA ChainIs ==
  ASSUME TypeOK, ReqInv, ChainInv, NEW p \in Live
  PROVE  /\ head[p] \in Desc /\ next[head[p]] \in Desc /\ next[next[head[p]]] \in Desc
         /\ Chain(head[p]) = {head[p], next[head[p]], next[next[head[p]]]}
         /\ Cardinality(Chain(head[p])) = 3
         /\ \A d \in Chain(head[p]) : d \in Desc /\ free[d] = 0
<1>1. /\ head[p] \in Desc /\ next[head[p]] \in Desc /\ next[next[head[p]]] \in Desc
      /\ head[p] # next[head[p]] /\ head[p] # next[next[head[p]]]
      /\ next[head[p]] # next[next[head[p]]]
  BY DEF ReqInv, ChainInv, Live
<1>2. next[head[p]] # Nil /\ next[next[head[p]]] # Nil
  BY <1>1, Names
<1>3. Chain(head[p]) = {head[p], next[head[p]], next[next[head[p]]]}
  BY <1>2 DEF Chain
<1>4. Cardinality(Chain(head[p])) = 3
  <2> DEFINE i == head[p]
             j == next[head[p]]
             k == next[next[head[p]]]
  <2>1. i # j /\ i # k /\ j # k /\ Chain(head[p]) = {i, j, k}
    BY <1>1, <1>3
  <2> HIDE DEF i, j, k
  <2>2. Cardinality({i, j, k}) = 3
    BY Zenon, <2>1, ThreeOf
  <2>3. QED BY <2>1, <2>2
<1>5. \A d \in Chain(head[p]) : d \in Desc
  BY <1>1, <1>3
<1>6. \A d \in Chain(head[p]) : free[d] = 0
  BY <1>5 DEF ChainInv
<1>7. QED BY <1>1, <1>3, <1>4, <1>5, <1>6

\* idx[0] tells requests apart.
LEMMA HeadsApart ==
  ASSUME TypeOK, ReqInv, ChainInv, NEW p \in Live, NEW q \in Live, head[p] = head[q]
  PROVE  p = q
<1>1. head[p] \in Chain(head[p]) /\ head[q] \in Chain(head[q])
  BY DEF Chain
<1>2. QED BY <1>1 DEF ChainInv

\* A request whose descriptors are left alone keeps its chain.
LEMMA ChainFrame ==
  ASSUME TypeOK, ReqInv, ChainInv, NEW q \in Live, head'[q] = head[q],
         \A d \in Chain(head[q]) : next'[d] = next[d]
  PROVE  /\ Chain(head[q])' = Chain(head[q])
         /\ LET i == head'[q]
                j == next'[i]
                k == next'[j]
            IN  j \in Desc /\ k \in Desc /\ next'[k] = Nil /\ i # j /\ i # k /\ j # k
<1> DEFINE i == head[q]
           j == next[i]
           k == next[j]
<1>1. i \in Desc /\ j \in Desc /\ k \in Desc /\ Chain(head[q]) = {i, j, k}
  BY ChainIs
<1>2. next[k] = Nil /\ i # j /\ i # k /\ j # k
  BY DEF ChainInv
<1>3. next'[i] = j /\ next'[j] = k /\ next'[k] = Nil
  BY <1>1, <1>2
<1>4. j # Nil /\ k # Nil
  BY <1>1, Names
<1> HIDE DEF i, j, k
<1>5. head'[q] = i
  BY DEF i
<1>6. Chain(head[q])' = {i, j, k}
  BY <1>3, <1>4, <1>5 DEF Chain
<1>7. QED BY <1>1, <1>2, <1>3, <1>5, <1>6

\* Taking three descriptors off a set of them.
LEMMA WithoutThree ==
  ASSUME NEW S, IsFiniteSet(S), NEW i \in S, NEW j \in S, NEW k \in S, i # j, i # k, j # k
  PROVE  /\ IsFiniteSet(S \ {i, j, k}) /\ Cardinality(S \ {i, j, k}) \in Nat
         /\ Cardinality(S) = Cardinality(S \ {i, j, k}) + 3
<1> DEFINE A == S \ {i}
           B == A \ {j}
           C == B \ {k}
<1>1. j \in A /\ k \in B /\ C = S \ {i, j, k}
  OBVIOUS
<1> HIDE DEF A, B, C
<1>2. IsFiniteSet(A) /\ Cardinality(A) = Cardinality(S) - 1
  BY Zenon, FS_RemoveElement DEF A
<1>3. IsFiniteSet(B) /\ Cardinality(B) = Cardinality(A) - 1
  BY Zenon, <1>1, <1>2, FS_RemoveElement DEF B
<1>4. IsFiniteSet(C) /\ Cardinality(C) = Cardinality(B) - 1
  BY Zenon, <1>1, <1>3, FS_RemoveElement DEF C
<1>5. Cardinality(S) \in Nat /\ Cardinality(C) \in Nat
  BY Zenon, <1>4, FS_CardinalityType
<1>6. Cardinality(S) = Cardinality(C) + 3
  BY <1>2, <1>3, <1>4, <1>5
<1>7. QED BY Zenon, <1>1, <1>4, <1>5, <1>6

(***************************************************************************)
(* The rings                                                               *)
(***************************************************************************)
\* idx % NUM is an entry of a ring.
LEMMA InRing == ASSUME NEW n \in Nat PROVE n % RING \in Entry
<1>1. RING \in Nat /\ RING > 0 /\ n \in Int
  BY Sizes
<1>2. n % RING \in 0 .. RING - 1
  BY <1>1, ModDef
<1>3. QED BY <1>2 DEF Entry

\* Bumping the index of who fills a ring adds one to the number of entries.
LEMMA RingPut ==
  ASSUME NEW t \in 0 .. UINT16 - 1, NEW h \in 0 .. UINT16 - 1, (t - h) % UINT16 < RING
  PROVE  (((t + 1) % UINT16) - h) % UINT16 = ((t - h) % UINT16) + 1
<1>1. RING \in Nat /\ UINT16 \in Nat /\ UINT16 > 0 /\ UINT16 > RING
  BY Sizes
<1>2. t \in Int /\ h \in Int /\ t - h \in Int
  BY <1>1
<1>3. (t - h) % UINT16 \in Int
  BY <1>1, <1>2, ModDef
<1>4. ((t - h) % UINT16) + 1 < UINT16
  BY <1>1, <1>3
<1>5. QED BY Zenon, <1>1, <1>2, <1>4, DistanceUp

\* The slot to fill is the one after the last entry.
LEMMA RingSlot ==
  ASSUME NEW t \in 0 .. UINT16 - 1, NEW h \in 0 .. UINT16 - 1
  PROVE  t % RING = (h + ((t - h) % UINT16)) % RING
<1>1. RING \in Nat /\ RING > 0 /\ UINT16 \in Nat /\ UINT16 > 0 /\ UINT16 % RING = 0
  BY Sizes
<1>2. t \in Int /\ h \in Int /\ t - h \in Int
  BY <1>1
<1>3. t = (h + ((t - h) % UINT16)) % UINT16
  BY Zenon, <1>1, <1>2, DistanceBack
<1>4. h + ((t - h) % UINT16) \in Int
  <2>1. (t - h) % UINT16 \in Int
    BY <1>1, <1>2, ModDef
  <2>2. QED BY <1>2, <2>1
<1>5. ((h + ((t - h) % UINT16)) % UINT16) % RING = (h + ((t - h) % UINT16)) % RING
  BY Zenon, <1>1, <1>4, WrapIndex
<1>6. QED BY Zenon, <1>3, <1>5

\* It is not the slot of an entry.
LEMMA SlotsApart ==
  ASSUME NEW h \in Int, NEW D \in Nat, D < RING, NEW k \in 0 .. D - 1
  PROVE  (h + k) % RING # (h + D) % RING /\ (h + k) % RING \in 0 .. RING - 1
<1> DEFINE x == h + D
           y == h + k
<1>1. RING \in Nat /\ RING > 0
  BY Sizes
<1>2. x \in Int /\ y \in Int /\ 0 < x - y /\ x - y < RING
  BY <1>1
<1> HIDE DEF x, y
<1>3. x % RING # y % RING
  BY Zenon, <1>1, <1>2, ModApart
<1>4. y % RING \in 0 .. RING - 1
  BY Zenon, <1>1, <1>2, ModDef
<1>5. QED BY Zenon, <1>3, <1>4 DEF x, y

\* Entry k after the bumped index is entry k + 1 after the old one.
LEMMA RingNext ==
  ASSUME NEW h \in Int, NEW k \in Int
  PROVE  (((h + 1) % UINT16) + k) % RING = (h + (k + 1)) % RING
<1>1. RING \in Nat /\ RING > 0 /\ UINT16 \in Nat /\ UINT16 > 0 /\ UINT16 % RING = 0
  BY Sizes
<1>2. QED BY Zenon, <1>1, WrapNext

\* Bumping the index of who empties a ring takes the first entry off and
\* leaves the others.
LEMMA RingTake ==
  ASSUME NEW t \in 0 .. UINT16 - 1, NEW h \in 0 .. UINT16 - 1, NEW D \in Nat,
         (t - h) % UINT16 = D, D > 0
  PROVE  /\ (t - ((h + 1) % UINT16)) % UINT16 = D - 1
         /\ \A k \in Int : (((h + 1) % UINT16) + k) % RING = (h + (k + 1)) % RING
<1>1. RING \in Nat /\ RING > 0 /\ UINT16 \in Nat /\ UINT16 > 0 /\ UINT16 % RING = 0
  BY Sizes
<1>2. t \in Int /\ h \in Int /\ (t - h) % UINT16 > 0
  BY <1>1
<1>3. (t - ((h + 1) % UINT16)) % UINT16 = D - 1
  BY Zenon, <1>1, <1>2, DistanceDown
<1>4. \A k \in Int : (((h + 1) % UINT16) + k) % RING = (h + (k + 1)) % RING
  BY Zenon, <1>2, RingNext
<1>5. QED BY Zenon, <1>3, <1>4

\* The device takes the first entry of the available ring.
LEMMA AvailTaken ==
  ASSUME TypeOK, seen # avail_idx, seen' = Bump(seen), avail' = avail, avail_idx' = avail_idx
  PROVE  /\ Avails \in Nat /\ Avails > 0 /\ Avails' = Avails - 1
         /\ AvailAt(0) = avail[seen % RING]
         /\ \A m \in 0 .. Avails' - 1 : m + 1 \in 0 .. Avails - 1 /\ AvailAt(m)' = AvailAt(m + 1)
<1>1. avail_idx \in 0 .. UINT16 - 1 /\ seen \in 0 .. UINT16 - 1
  BY Zenon, Counters
<1>2. Avails \in Nat /\ Avails > 0
  BY <1>1, Counters
<1>3. (avail_idx - seen) % UINT16 = Avails
  BY Zenon DEF Avails
<1>4. /\ (avail_idx - ((seen + 1) % UINT16)) % UINT16 = Avails - 1
      /\ \A k \in Int : (((seen + 1) % UINT16) + k) % RING = (seen + (k + 1)) % RING
  BY Zenon, <1>1, <1>2, <1>3, RingTake
<1>5. Avails' = Avails - 1
  BY Zenon, <1>4 DEF Avails, Bump
<1>6. \A m \in Int : AvailAt(m)' = AvailAt(m + 1)
  BY Zenon, <1>4 DEF AvailAt, Bump
<1>7. seen + 0 = seen
  BY <1>1
<1>8. AvailAt(0) = avail[seen % RING]
  BY Zenon, <1>7 DEF AvailAt
<1>9. QED BY <1>2, <1>5, <1>6, <1>8

\* The handler takes the first entry of the used ring.
LEMMA UsedTaken ==
  ASSUME TypeOK, used_idx # dev_used, used_idx' = Bump(used_idx), used' = used, dev_used' = dev_used
  PROVE  /\ Useds \in Nat /\ Useds > 0 /\ Useds' = Useds - 1
         /\ UsedAt(0) = used[used_idx % RING]
         /\ \A m \in 0 .. Useds' - 1 : m + 1 \in 0 .. Useds - 1 /\ UsedAt(m)' = UsedAt(m + 1)
<1>1. dev_used \in 0 .. UINT16 - 1 /\ used_idx \in 0 .. UINT16 - 1
  BY Zenon, Counters
<1>2. Useds \in Nat /\ Useds > 0
  BY <1>1, Counters
<1>3. (dev_used - used_idx) % UINT16 = Useds
  BY Zenon DEF Useds
<1>4. /\ (dev_used - ((used_idx + 1) % UINT16)) % UINT16 = Useds - 1
      /\ \A k \in Int : (((used_idx + 1) % UINT16) + k) % RING = (used_idx + (k + 1)) % RING
  BY Zenon, <1>1, <1>2, <1>3, RingTake
<1>5. Useds' = Useds - 1
  BY Zenon, <1>4 DEF Useds, Bump
<1>6. \A m \in Int : UsedAt(m)' = UsedAt(m + 1)
  BY Zenon, <1>4 DEF UsedAt, Bump
<1>7. used_idx + 0 = used_idx
  BY <1>1
<1>8. UsedAt(0) = used[used_idx % RING]
  BY Zenon, <1>7 DEF UsedAt
<1>9. QED BY <1>2, <1>5, <1>6, <1>8

\* virtio_disk_rw() puts its head descriptor behind the entries of the
\* available ring.
LEMMA AvailAdded ==
  ASSUME TypeOK, NEW d \in Desc, Avails < RING, avail_idx' = Bump(avail_idx), seen' = seen,
         avail' = [avail EXCEPT ![avail_idx % RING] = d]
  PROVE  /\ Avails \in Nat /\ Avails' = Avails + 1 /\ \A m \in 0 .. Avails : m = Avails => AvailAt(m)' = d
         /\ \A m \in 0 .. Avails - 1 : AvailAt(m)' = AvailAt(m)
<1>1. avail_idx \in 0 .. UINT16 - 1 /\ seen \in 0 .. UINT16 - 1
  BY Zenon, Counters
<1>2. Avails \in Nat
  BY Zenon, Counters
<1>3. (avail_idx - seen) % UINT16 = Avails
  BY Zenon DEF Avails
<1>4. (((avail_idx + 1) % UINT16) - seen) % UINT16 = Avails + 1
  BY Zenon, <1>1, <1>3, RingPut
<1>5. avail_idx % RING = (seen + Avails) % RING
  BY Zenon, <1>1, <1>3, RingSlot
<1>6. avail_idx % RING \in 0 .. RING - 1 /\ seen \in Int
  <2>1. avail_idx \in Nat /\ seen \in Int
    BY <1>1, Sizes
  <2>2. QED BY <2>1, InRing DEF Entry
<1>7. \A k \in 0 .. Avails - 1 : (seen + k) % RING # (seen + Avails) % RING /\ (seen + k) % RING \in 0 .. RING - 1
  BY Zenon, <1>2, <1>6, SlotsApart
<1>8. Avails' = Avails + 1
  BY Zenon, <1>4 DEF Avails, Bump
<1>9. DOMAIN avail = 0 .. RING - 1 /\ avail \in [0 .. RING - 1 -> Desc]
  BY Zenon DEF TypeOK, Entry
<1>10. \A m \in 0 .. Avails - 1 : AvailAt(m)' = AvailAt(m)
  BY Zenon, <1>5, <1>6, <1>7, <1>9 DEF AvailAt
<1>11. avail'[(seen + Avails) % RING] = d
  BY Zenon, <1>5, <1>6, <1>9
<1>12. \A m \in 0 .. Avails : m = Avails => AvailAt(m)' = d
  BY Zenon, <1>11 DEF AvailAt
<1>13. QED BY <1>2, <1>8, <1>10, <1>12

\* The device puts a head descriptor behind the entries of the used ring.
LEMMA UsedAdded ==
  ASSUME TypeOK, NEW d \in Desc, Useds < RING, dev_used' = Bump(dev_used), used_idx' = used_idx,
         used' = [used EXCEPT ![dev_used % RING] = d]
  PROVE  /\ Useds \in Nat /\ Useds' = Useds + 1 /\ \A m \in 0 .. Useds : m = Useds => UsedAt(m)' = d
         /\ \A m \in 0 .. Useds - 1 : UsedAt(m)' = UsedAt(m)
<1>1. dev_used \in 0 .. UINT16 - 1 /\ used_idx \in 0 .. UINT16 - 1
  BY Zenon, Counters
<1>2. Useds \in Nat
  BY Zenon, Counters
<1>3. (dev_used - used_idx) % UINT16 = Useds
  BY Zenon DEF Useds
<1>4. (((dev_used + 1) % UINT16) - used_idx) % UINT16 = Useds + 1
  BY Zenon, <1>1, <1>3, RingPut
<1>5. dev_used % RING = (used_idx + Useds) % RING
  BY Zenon, <1>1, <1>3, RingSlot
<1>6. dev_used % RING \in 0 .. RING - 1 /\ used_idx \in Int
  <2>1. dev_used \in Nat /\ used_idx \in Int
    BY <1>1, Sizes
  <2>2. QED BY <2>1, InRing DEF Entry
<1>7. \A k \in 0 .. Useds - 1 : (used_idx + k) % RING # (used_idx + Useds) % RING /\ (used_idx + k) % RING \in 0 .. RING - 1
  BY Zenon, <1>2, <1>6, SlotsApart
<1>8. Useds' = Useds + 1
  BY Zenon, <1>4 DEF Useds, Bump
<1>9. DOMAIN used = 0 .. RING - 1 /\ used \in [0 .. RING - 1 -> Desc]
  BY ZenonT(40) DEF TypeOK, Entry
<1>10. \A m \in 0 .. Useds - 1 : UsedAt(m)' = UsedAt(m)
  BY Zenon, <1>5, <1>6, <1>7, <1>9 DEF UsedAt
<1>11. used'[(used_idx + Useds) % RING] = d
  BY Zenon, <1>5, <1>6, <1>9
<1>12. \A m \in 0 .. Useds : m = Useds => UsedAt(m)' = d
  BY Zenon, <1>11 DEF UsedAt
<1>13. QED BY <1>2, <1>8, <1>10, <1>12

(***************************************************************************)
(* What a step leaves alone                                                *)
(***************************************************************************)
\* Steps that leave requests and descriptors alone.
LEMMA ReqStays ==
  ASSUME TypeOK, ReqInv, req' = req, head' = head, ops' = ops, info' = info, Live' = Live,
         \A p \in Proc : pc'[p] = "out" <=> pc[p] = "out",
         \A p \in Proc : pc'[p] = "waiting" => bdisk'[req[p].b] = 1
  PROVE  ReqInv'
BY DEF ReqInv

\* Steps that leave the chains alone.
LEMMA ChainStays ==
  ASSUME ChainInv, free' = free, next' = next, Live' = Live, \A p \in Live : head'[p] = head[p]
  PROVE  ChainInv' /\ Free' = Free
<1>1. Free' = Free
  BY DEF Free
<1>2. \A i : Chain(i)' = Chain(i)
  BY DEF Chain
<1>3. \A p \in Live' : Chain(head[p])' = Chain(head[p])
  BY DEF Chain
<1>4. \A p \in Live' :
        LET i == head'[p]
            j == next'[i]
            k == next'[j]
        IN  j \in Desc /\ k \in Desc /\ next'[k] = Nil /\ i # j /\ i # k /\ j # k
  BY DEF ChainInv
<1>5. \A p, q \in Live' : p # q => Chain(head[p])' \cap Chain(head[q])' = {}
  BY <1>3 DEF ChainInv
<1>6. \A d \in Desc : free'[d] = 0 <=> \E p \in Live' : d \in Chain(head[p])'
  BY <1>3 DEF ChainInv
<1>7. Cardinality(Free') + 3 * Cardinality(Live') = NUM
  BY <1>1 DEF ChainInv
<1>8. QED BY <1>1, <1>4, <1>5, <1>6, <1>7 DEF ChainInv

\* Steps that leave the available ring alone.
LEMMA AvailStays ==
  ASSUME avail' = avail, avail_idx' = avail_idx, seen' = seen
  PROVE  Avails' = Avails /\ \A m : AvailAt(m)' = AvailAt(m)
BY Zenon DEF Avails, AvailAt

\* Steps that leave the used ring alone.
LEMMA UsedStays ==
  ASSUME used' = used, dev_used' = dev_used, used_idx' = used_idx
  PROVE  Useds' = Useds /\ \A m : UsedAt(m)' = UsedAt(m)
BY Zenon DEF Useds, UsedAt

\* Steps that move no request between the rings and the device.
LEMMA QueueStays ==
  ASSUME QueueInv, avail' = avail, avail_idx' = avail_idx, seen' = seen, fetched' = fetched,
         used' = used, dev_used' = dev_used, used_idx' = used_idx,
         Pending' = Pending, \A p \in Pending : head'[p] = head[p]
  PROVE  QueueInv'
<1>1. Avails' = Avails /\ \A m : AvailAt(m)' = AvailAt(m)
  BY Zenon, AvailStays
<1>2. Useds' = Useds /\ \A m : UsedAt(m)' = UsedAt(m)
  BY Zenon, UsedStays
<1>3. QED BY <1>1, <1>2 DEF QueueInv

\* Steps that transfer and complete nothing.
LEMMA DoneStays ==
  ASSUME DoneInv, used' = used, dev_used' = dev_used, used_idx' = used_idx, status' = status,
         ops' = ops, bdisk' = bdisk, moved' = moved, Live' = Live, \A p \in Live : req'[p] = req[p]
  PROVE  DoneInv'
<1>1. Useds' = Useds /\ \A m : UsedAt(m)' = UsedAt(m)
  BY Zenon, UsedStays
<1>2. \A r : Transferred(r)' <=> Transferred(r)
  BY DEF Transferred
<1>3. QED BY <1>1, <1>2 DEF DoneInv, Transferred

\* Steps that start and end no request.
LEMMA LiveStays ==
  ASSUME \A p \in Proc : pc'[p] \in {"waiting", "woken"} <=> pc[p] \in {"waiting", "woken"}
  PROVE  Live' = Live
BY DEF Live

\* Steps that complete no request.
LEMMA PendingStays ==
  ASSUME Live' = Live, bdisk' = bdisk, \A p \in Live : req'[p] = req[p]
  PROVE  Pending' = Pending
BY DEF Pending

(***************************************************************************)
(* The steps                                                               *)
(***************************************************************************)
\* virtio_disk_rw() is called, for a buffer that nobody else has a request
\* for.
LEMMA CallKeeps ==
  ASSUME DiskBase, NEW p \in Proc, NEW b \in Block, NEW w \in {0, 1}, Call(p, b, w)
  PROVE  DiskBase'
<1>1. TypeOK /\ panic = "none" /\ ReqInv /\ ChainInv /\ QueueInv /\ DoneInv /\ SleepInv
  BY DEF DiskBase
<1>2. /\ pc[p] = "out" /\ \A q \in Proc : req[q].b # b
      /\ req' = [req EXCEPT ![p] = [b |-> b, write |-> w]] /\ pc' = [pc EXCEPT ![p] = "alloc"]
      /\ UNCHANGED <<free, next, ops, info, avail, avail_idx, status, used, dev_used, used_idx,
                     bdisk, irq, handler, seen, fetched, head, moved, panic>>
  BY DEF Call, driver, device
<1>3. pc \in [Proc -> {"out", "alloc", "no_desc", "waiting", "woken"}]
      /\ req \in [Proc -> Request \cup {NoRequest}]
  BY <1>1 DEF TypeOK
<1>4. [b |-> b, write |-> w] \in Request
  BY DEF Request
<1>5. TypeOK'
  BY <1>1, <1>2, <1>4 DEF TypeOK
<1>6. Live' = Live /\ p \notin Live
  BY <1>2, <1>3 DEF Live
<1>7. \A q \in Live : req'[q] = req[q]
  BY <1>2, <1>3, <1>6 DEF Live
<1>8. Pending' = Pending
  BY <1>2, <1>6, <1>7, PendingStays
<1>9. ReqInv'
  <2>1. \A q \in Proc : IF pc'[q] = "out" THEN req'[q] = NoRequest ELSE req'[q] \in Request
    BY <1>1, <1>2, <1>3, <1>4 DEF ReqInv
  <2>2. \A q, s \in Proc : pc'[q] # "out" /\ pc'[s] # "out" /\ req'[q].b = req'[s].b => q = s
    BY <1>1, <1>2, <1>3 DEF ReqInv
  <2>3. \A q \in Proc : IF q \in Live' THEN head'[q] \in Desc ELSE head'[q] = Nil
    BY <1>1, <1>2, <1>6 DEF ReqInv
  <2>4. \A q \in Live' : ops'[head'[q]] = req'[q] /\ info'[head'[q]] = req'[q].b
    BY <1>1, <1>2, <1>6, <1>7 DEF ReqInv
  <2>5. \A q \in Proc : pc'[q] = "waiting" => bdisk'[req'[q].b] = 1
    BY <1>1, <1>2, <1>3 DEF ReqInv
  <2>6. QED BY <2>1, <2>2, <2>3, <2>4, <2>5 DEF ReqInv
<1>10. ChainInv' /\ Free' = Free
  BY <1>1, <1>2, <1>6, ChainStays
<1>11. QueueInv'
  BY <1>1, <1>2, <1>8, QueueStays
<1>12. DoneInv'
  BY <1>1, <1>2, <1>6, <1>7, DoneStays
<1>13. SleepInv'
  BY <1>1, <1>2, <1>3, <1>10 DEF SleepInv
<1>14. QED BY <1>1, <1>2, <1>5, <1>9, <1>10, <1>11, <1>12, <1>13 DEF DiskBase

\* virtio_disk_rw() takes three free descriptors, which no chain and no ring
\* holds, and makes the new chain available.
LEMMA SubmitKeeps ==
  ASSUME DiskBase, NEW p \in Proc, Submit(p)
  PROVE  DiskBase'
<1>1. TypeOK /\ panic = "none" /\ ReqInv /\ ChainInv /\ QueueInv /\ DoneInv /\ SleepInv
  BY DEF DiskBase
<1> DEFINE r == req[p]
<1>2. /\ pc[p] = "alloc" /\ pc' = [pc EXCEPT ![p] = "waiting"]
      /\ bdisk' = [bdisk EXCEPT ![r.b] = 1] /\ avail_idx' = Bump(avail_idx)
      /\ UNCHANGED <<used, dev_used, used_idx, irq, handler, seen, fetched, req, moved, panic>>
  BY DEF Submit, device
<1>3. PICK i \in Desc, j \in Desc, k \in Desc :
        /\ Alloc3(i, j, k)
        /\ free' = [free EXCEPT ![i] = 0, ![j] = 0, ![k] = 0]
        /\ next' = [next EXCEPT ![i] = j, ![j] = k, ![k] = Nil]
        /\ ops' = [ops EXCEPT ![i] = r]
        /\ info' = [info EXCEPT ![i] = r.b]
        /\ status' = [status EXCEPT ![i] = 255]
        /\ avail' = [avail EXCEPT ![avail_idx % RING] = i]
        /\ head' = [head EXCEPT ![p] = i]
  BY Zenon DEF Submit
<1>4. {i, j, k} \subseteq Free /\ i # j /\ i # k /\ j # k /\ free[i] = 1 /\ free[j] = 1 /\ free[k] = 1
  <2>1. i < j /\ j < k /\ {i, j, k} \subseteq Free
    BY <1>3 DEF Alloc3
  <2>2. i \in Int /\ j \in Int /\ k \in Int
    BY DEF Desc
  <2>3. i # j /\ i # k /\ j # k
    BY <2>1, <2>2
  <2>4. QED BY <2>1, <2>3 DEF Free
<1>5. r \in Request /\ r.b \in Block /\ p \notin Live /\ head[p] = Nil
  BY <1>1, <1>2 DEF ReqInv, Request, Live
<1>6. /\ pc \in [Proc -> {"out", "alloc", "no_desc", "waiting", "woken"}]
      /\ bdisk \in [Block -> {0, 1}] /\ head \in [Proc -> Desc \cup {Nil}]
  BY <1>1 DEF TypeOK
<1>7. ops \in [Desc -> Request \cup {NoRequest}] /\ info \in [Desc -> Block \cup {Nil}]
      /\ status \in [Desc -> {0, 255}]
  BY <1>1 DEF TypeOK
<1>8. free \in [Desc -> {0, 1}] /\ next \in [Desc -> Desc \cup {Nil}]
  BY <1>1 DEF TypeOK
<1> HIDE DEF r
<1>9. free' \in [Desc -> {0, 1}] /\ \A d \in Desc : free'[d] = 0 <=> free[d] = 0 \/ d \in {i, j, k}
  <2>1. free' = [free EXCEPT ![i] = 0, ![j] = 0, ![k] = 0]
    BY <1>3
  <2>2. QED BY <1>8, <2>1
<1>10. /\ next' \in [Desc -> Desc \cup {Nil}] /\ next'[i] = j /\ next'[j] = k /\ next'[k] = Nil
       /\ \A d \in Desc : d \notin {i, j, k} => next'[d] = next[d]
  <2>1. next' = [next EXCEPT ![i] = j, ![j] = k, ![k] = Nil]
    BY <1>3
  <2>2. QED BY <1>4, <1>8, <2>1
<1>11. /\ head' \in [Proc -> Desc \cup {Nil}] /\ head'[p] = i
       /\ \A q \in Proc : q # p => head'[q] = head[q]
  <2>1. head' = [head EXCEPT ![p] = i]
    BY <1>3
  <2>2. QED BY <1>6, <2>1
<1>12. /\ pc' \in [Proc -> {"out", "alloc", "no_desc", "waiting", "woken"}] /\ pc'[p] = "waiting"
       /\ \A q \in Proc : q # p => pc'[q] = pc[q]
  BY <1>2, <1>6
<1>13. /\ bdisk' \in [Block -> {0, 1}] /\ bdisk'[r.b] = 1
       /\ \A c \in Block : c # r.b => bdisk'[c] = bdisk[c]
  <2>1. bdisk' = [bdisk EXCEPT ![r.b] = 1]
    BY <1>2
  <2>2. QED BY <1>5, <1>6, <2>1
<1>14. /\ ops' \in [Desc -> Request \cup {NoRequest}] /\ ops'[i] = r
       /\ info' \in [Desc -> Block \cup {Nil}] /\ info'[i] = r.b
       /\ status' \in [Desc -> {0, 255}]
       /\ \A d \in Desc : d # i => ops'[d] = ops[d] /\ info'[d] = info[d] /\ status'[d] = status[d]
  <2>1. ops' = [ops EXCEPT ![i] = r] /\ info' = [info EXCEPT ![i] = r.b]
        /\ status' = [status EXCEPT ![i] = 255]
    BY <1>3
  <2>2. QED BY <1>5, <1>7, <2>1
<1>15. ASSUME NEW q \in Live
      PROVE  /\ q \in Proc /\ q # p /\ head'[q] = head[q] /\ head[q] \in Desc
             /\ head[q] \notin {i, j, k}
             /\ req[q].b \in Block /\ req[q].b # r.b
             /\ Chain(head[q]) \cap {i, j, k} = {}
             /\ Chain(head[q])' = Chain(head[q])
             /\ LET a == head'[q]
                    b == next'[a]
                    c == next'[b]
                IN  b \in Desc /\ c \in Desc /\ next'[c] = Nil /\ a # b /\ a # c /\ b # c
  <2>1. q \in Proc /\ q # p /\ pc[q] # "out"
    BY <1>5 DEF Live
  <2>2. head'[q] = head[q]
    BY <1>11, <2>1
  <2>3. req[q].b \in Block /\ req[q].b # r.b
    BY <1>1, <1>2, <2>1 DEF ReqInv, Request, r
  <2>4. \A d \in Chain(head[q]) : d \in Desc /\ free[d] = 0
    BY <1>1, ChainIs
  <2>5. Chain(head[q]) \cap {i, j, k} = {}
    BY <1>4, <2>4
  <2>6. \A d \in Chain(head[q]) : next'[d] = next[d]
    BY <1>10, <2>4, <2>5
  <2>7. head[q] \in Chain(head[q])
    BY DEF Chain
  <2>8. /\ Chain(head[q])' = Chain(head[q])
        /\ LET a == head'[q]
               b == next'[a]
               c == next'[b]
           IN  b \in Desc /\ c \in Desc /\ next'[c] = Nil /\ a # b /\ a # c /\ b # c
    BY <1>1, <2>2, <2>6, ChainFrame
  <2>9. QED BY <2>1, <2>2, <2>3, <2>4, <2>5, <2>7, <2>8
<1>16. Chain(head[p])' = {i, j, k}
  BY <1>10, <1>11, Names DEF Chain
<1>17. Free' = Free \ {i, j, k}
  BY <1>9, <1>8 DEF Free
<1>18. Cardinality(Free) = Cardinality(Free') + 3 /\ Cardinality(Free') \in Nat
  <2>1. IsFiniteSet(Free) /\ i \in Free /\ j \in Free /\ k \in Free
    BY <1>1, <1>4, SetsFinite
  <2>2. /\ Cardinality(Free \ {i, j, k}) \in Nat
        /\ Cardinality(Free) = Cardinality(Free \ {i, j, k}) + 3
    BY <1>4, <2>1, WithoutThree
  <2>3. QED BY <1>17, <2>2
<1>19. /\ Avails \in Nat /\ Avails' = Avails + 1
       /\ \A m \in 0 .. Avails : m = Avails => AvailAt(m)' = i
       /\ \A m \in 0 .. Avails - 1 : AvailAt(m)' = AvailAt(m)
  <2>1. Cardinality(Free) >= 3
    BY <1>18
  <2>2. Avails < RING
    BY <1>1, <2>1, RingsFit
  <2>3. seen' = seen
    BY <1>2
  <2>4. avail_idx' = Bump(avail_idx) /\ avail' = [avail EXCEPT ![avail_idx % RING] = i]
    BY <1>2, <1>3
  <2>5. QED BY Zenon, <1>1, <2>2, <2>3, <2>4, AvailAdded
<1>20. \A m \in 0 .. Avails' - 1 : m \in 0 .. Avails /\ (m = Avails \/ m \in 0 .. Avails - 1)
  BY <1>19
<1>21. Useds' = Useds /\ \A m : UsedAt(m)' = UsedAt(m)
  BY <1>2, UsedStays
<1>22. TypeOK'
  <2>1. {avail_idx, dev_used, used_idx, seen}' \subseteq 0 .. UINT16 - 1
    <3>1. avail_idx' \in 0 .. UINT16 - 1
      BY <1>1, <1>2, Counters, BumpType
    <3>2. dev_used' \in 0 .. UINT16 - 1 /\ used_idx' \in 0 .. UINT16 - 1 /\ seen' \in 0 .. UINT16 - 1
      BY <1>1, <1>2, Counters
    <3>3. QED BY <3>1, <3>2
  <2>2. avail' \in [Entry -> Desc]
    <3>1. avail \in [Entry -> Desc] /\ avail' = [avail EXCEPT ![avail_idx % RING] = i]
      BY <1>1, <1>3 DEF TypeOK
    <3>2. QED BY Zenon, <3>1
  <2>3. /\ (used \in [Entry -> Desc])' /\ (irq \in {0, 1})' /\ (handler \in {"off", "ack", "loop"})'
        /\ (fetched \subseteq Desc)' /\ (req \in [Proc -> Request \cup {NoRequest}])'
        /\ (moved \in [Block -> {"no", "read", "write"}])' /\ (panic \in {"none", "free_desc", "status"})'
    BY <1>1, <1>2 DEF TypeOK
  <2>4. QED BY Zenon, <1>9, <1>10, <1>11, <1>12, <1>13, <1>14, <2>1, <2>2, <2>3 DEF TypeOK
<1>23. Live' = Live \cup {p}
  BY <1>12 DEF Live
<1>24. Pending' = Pending \cup {p}
  <2>1. req' = req
    BY <1>2
  <2>2. \A q \in Live : bdisk'[req[q].b] = bdisk[req[q].b]
    BY <1>13, <1>15
  <2>3. QED BY <1>23, <1>13, <2>1, <2>2 DEF Pending, r
<1>25. ReqInv'
  <2>1. req' = req
    BY <1>2
  <2>2. \A q \in Proc : IF pc'[q] = "out" THEN req'[q] = NoRequest ELSE req'[q] \in Request
    BY <1>1, <1>5, <1>12, <2>1 DEF ReqInv, r
  <2>3. \A q, s \in Proc : pc'[q] # "out" /\ pc'[s] # "out" /\ req'[q].b = req'[s].b => q = s
    <3>1. \A q \in Proc : pc'[q] # "out" => pc[q] # "out"
      BY <1>2, <1>12
    <3>2. QED BY <1>1, <2>1, <3>1 DEF ReqInv
  <2>4. \A q \in Proc : IF q \in Live' THEN head'[q] \in Desc ELSE head'[q] = Nil
    BY <1>1, <1>11, <1>23 DEF ReqInv
  <2>5. \A q \in Live' : ops'[head'[q]] = req'[q] /\ info'[head'[q]] = req'[q].b
    <3>1. \A q \in Live : ops[head[q]] = req[q] /\ info[head[q]] = req[q].b
      BY <1>1 DEF ReqInv
    <3>2. ASSUME NEW q \in Live
          PROVE  ops'[head'[q]] = req'[q] /\ info'[head'[q]] = req'[q].b
      <4>1. head'[q] = head[q] /\ head[q] \in Desc /\ head[q] # i
        BY <1>15
      <4>2. ops'[head[q]] = ops[head[q]] /\ info'[head[q]] = info[head[q]]
        BY <1>14, <4>1
      <4>3. QED BY <2>1, <3>1, <4>1, <4>2
    <3>3. QED BY <1>11, <1>14, <1>23, <2>1, <3>2 DEF r
  <2>6. \A q \in Proc : pc'[q] = "waiting" => bdisk'[req'[q].b] = 1
    <3>1. \A q \in Proc : pc[q] = "waiting" => q \in Live /\ bdisk[req[q].b] = 1
      BY <1>1 DEF ReqInv, Live
    <3>2. QED BY <1>12, <1>13, <1>15, <2>1, <3>1 DEF r
  <2>7. QED BY <2>2, <2>3, <2>4, <2>5, <2>6 DEF ReqInv
<1>26. ChainInv'
  <2>1. \A q \in Live' : LET a == head'[q]
                             b == next'[a]
                             c == next'[b]
                         IN  b \in Desc /\ c \in Desc /\ next'[c] = Nil /\ a # b /\ a # c /\ b # c
    <3>1. LET a == head'[p]
              b == next'[a]
              c == next'[b]
          IN  b \in Desc /\ c \in Desc /\ next'[c] = Nil /\ a # b /\ a # c /\ b # c
      BY <1>4, <1>10, <1>11
    <3>2. QED BY Zenon, <1>15, <1>23, <3>1
  <2>2. \A q, s \in Live' : q # s => Chain(head[q])' \cap Chain(head[s])' = {}
    <3>1. \A q, s \in Live : q # s => Chain(head[q]) \cap Chain(head[s]) = {}
      BY <1>1 DEF ChainInv
    <3>2. QED BY <1>15, <1>16, <1>23, <3>1
  <2>3. \A d \in Desc : free'[d] = 0 <=> \E q \in Live' : d \in Chain(head[q])'
    <3>1. \A d \in Desc : free[d] = 0 <=> \E q \in Live : d \in Chain(head[q])
      BY <1>1 DEF ChainInv
    <3>2. QED BY <1>9, <1>15, <1>16, <1>23, <3>1
  <2>4. Cardinality(Free') + 3 * Cardinality(Live') = NUM
    <3>1. Cardinality(Live') = Cardinality(Live) + 1
      BY ZenonT(40), <1>1, <1>5, <1>23, SetsFinite, FS_AddElement
    <3>2. Cardinality(Free) + 3 * Cardinality(Live) = NUM
      BY <1>1 DEF ChainInv
    <3>3. Cardinality(Live) \in Nat
      BY <1>1, SetsFinite
    <3>4. QED BY <1>18, <3>1, <3>2, <3>3
  <2>5. QED BY <2>1, <2>2, <2>3, <2>4 DEF ChainInv
<1>27. QueueInv'
  <2>1. fetched' = fetched /\ \A q \in Pending : q \in Live /\ head'[q] = head[q] /\ head[q] # i
    BY <1>2, <1>15 DEF Pending
  <2>2. Avails' + Cardinality(fetched') + Useds' = Cardinality(Pending')
    <3>1. p \notin Pending
      BY <1>5 DEF Pending
    <3>2. Cardinality(Pending') = Cardinality(Pending) + 1
      BY Zenon, <1>1, <1>24, <3>1, SetsFinite, FS_AddElement
    <3>3. Avails + Cardinality(fetched) + Useds = Cardinality(Pending)
      BY <1>1 DEF QueueInv
    <3>4. Cardinality(fetched) \in Nat /\ Useds \in Nat
      BY <1>1, SetsFinite, Counters
    <3>5. QED BY <1>19, <1>21, <2>1, <3>2, <3>3, <3>4
  <2>3. \A m \in 0 .. Avails - 1 : \E q \in Pending : head[q] = AvailAt(m)
    BY <1>1 DEF QueueInv
  <2>4. \A m \in 0 .. Useds - 1 : \E q \in Pending : head[q] = UsedAt(m)
    BY <1>1 DEF QueueInv
  <2>5. \A d \in fetched : \E q \in Pending : head[q] = d
    BY <1>1 DEF QueueInv
  <2>6. /\ \A m \in 0 .. Avails - 1 : AvailAt(m) # i
        /\ \A m \in 0 .. Useds - 1 : UsedAt(m) # i
        /\ i \notin fetched
    BY <2>1, <2>3, <2>4, <2>5
  <2>7. \A m \in 0 .. Avails' - 1 : \E q \in Pending' : head'[q] = AvailAt(m)'
    <3>1. \A m \in 0 .. Avails - 1 : \E q \in Pending' : head'[q] = AvailAt(m)
      BY <1>24, <2>1, <2>3
    <3>2. p \in Pending' /\ head'[p] = i
      BY <1>11, <1>24
    <3>3. QED BY <1>19, <1>20, <3>1, <3>2
  <2>8. \A d \in fetched' : \E q \in Pending' : head'[q] = d
    BY <1>24, <2>1, <2>5
  <2>9. \A m \in 0 .. Useds' - 1 : \E q \in Pending' : head'[q] = UsedAt(m)'
    BY <1>21, <1>24, <2>1, <2>4
  <2>10. \A m, n \in 0 .. Avails' - 1 : AvailAt(m)' = AvailAt(n)' => m = n
    <3>1. \A m, n \in 0 .. Avails - 1 : AvailAt(m) = AvailAt(n) => m = n
      BY <1>1 DEF QueueInv
    <3>2. QED BY <1>19, <1>20, <2>6, <3>1
  <2>11. \A m, n \in 0 .. Useds' - 1 : UsedAt(m)' = UsedAt(n)' => m = n
    BY <1>1, <1>21 DEF QueueInv
  <2>12. \A m \in 0 .. Avails' - 1 : AvailAt(m)' \notin fetched'
    <3>1. \A m \in 0 .. Avails - 1 : AvailAt(m) \notin fetched
      BY <1>1 DEF QueueInv
    <3>2. QED BY <1>19, <1>20, <2>1, <2>6, <3>1
  <2>13. \A m \in 0 .. Useds' - 1 : UsedAt(m)' \notin fetched'
    BY <1>1, <1>21, <2>1 DEF QueueInv
  <2>14. \A m \in 0 .. Avails' - 1, n \in 0 .. Useds' - 1 : AvailAt(m)' # UsedAt(n)'
    <3>1. \A m \in 0 .. Avails - 1, n \in 0 .. Useds - 1 : AvailAt(m) # UsedAt(n)
      BY <1>1 DEF QueueInv
    <3>2. QED BY <1>19, <1>20, <1>21, <2>6, <3>1
  <2>15. ASSUME NEW q \in Pending'
         PROVE  \/ head'[q] \in fetched'
                \/ \E m \in 0 .. Avails' - 1 : AvailAt(m)' = head'[q]
                \/ \E m \in 0 .. Useds' - 1 : UsedAt(m)' = head'[q]
    <3>1. (\A m \in 0 .. Avails - 1 : m \in 0 .. Avails' - 1) /\ Avails \in 0 .. Avails' - 1
          /\ Avails \in 0 .. Avails
      BY <1>19
    <3>2. CASE q = p
      <4>1. \E m \in 0 .. Avails' - 1 : m = Avails /\ m \in 0 .. Avails
        BY <3>1
      <4>2. QED BY <1>11, <1>19, <3>2, <4>1
    <3>3. CASE q # p
      <4>1. q \in Pending
        BY <1>24, <3>3
      <4>2. \/ head[q] \in fetched
            \/ \E m \in 0 .. Avails - 1 : AvailAt(m) = head[q]
            \/ \E m \in 0 .. Useds - 1 : UsedAt(m) = head[q]
        BY <1>1, <4>1 DEF QueueInv
      <4>3. QED BY <1>19, <1>21, <2>1, <3>1, <4>1, <4>2
    <3>4. QED BY <3>2, <3>3
  <2>16. QED BY Zenon, <2>2, <2>7, <2>8, <2>9, <2>10, <2>11, <2>12, <2>13, <2>14, <2>15 DEF QueueInv
<1>28. DoneInv'
  <2>1. moved' = moved /\ req' = req
    BY <1>2
  <2>2. ASSUME NEW m \in 0 .. Useds' - 1
        PROVE  status'[UsedAt(m)'] = 0 /\ Transferred(ops[UsedAt(m)])'
    <3>1. UsedAt(m)' = UsedAt(m) /\ m \in 0 .. Useds - 1
      BY <1>21
    <3>2. status[UsedAt(m)] = 0 /\ Transferred(ops[UsedAt(m)])
      BY <1>1, <3>1 DEF DoneInv
    <3>3. PICK q \in Pending : head[q] = UsedAt(m)
      BY <1>1, <3>1 DEF QueueInv
    <3>4. UsedAt(m) \in Desc /\ UsedAt(m) # i
      BY <1>15, <3>3 DEF Pending
    <3>5. QED BY <1>14, <2>1, <3>1, <3>2, <3>4 DEF Transferred
  <2>3. ASSUME NEW q \in Live', bdisk'[req'[q].b] = 0
        PROVE  Transferred(req[q])'
    <3>1. q # p
      BY <1>13, <2>1, <2>3 DEF r
    <3>2. q \in Live /\ bdisk[req[q].b] = 0
      BY <1>13, <1>15, <1>23, <2>1, <2>3, <3>1
    <3>3. Transferred(req[q])
      BY <1>1, <3>2 DEF DoneInv
    <3>4. QED BY <2>1, <3>3 DEF Transferred
  <2>4. QED BY <2>2, <2>3 DEF DoneInv
<1>29. SleepInv'
  <2>1. used_idx' # dev_used' => irq' = 1 \/ handler' # "off"
    BY <1>1, <1>2 DEF SleepInv
  <2>2. \A q \in Proc : pc'[q] = "no_desc" => pc[q] = "no_desc"
    BY <1>12
  <2>3. \A q \in Proc : pc[q] = "no_desc" => Cardinality(Free) < 3
    BY <1>1 DEF SleepInv
  <2>4. QED BY <1>18, <2>1, <2>2, <2>3 DEF SleepInv
<1>30. QED BY <1>1, <1>2, <1>22, <1>25, <1>26, <1>27, <1>28, <1>29 DEF DiskBase

\* Processes fall asleep and wake up, and that is all.
LEMMA OnlyPcMoves ==
  ASSUME DiskBase,
         UNCHANGED <<free, next, ops, info, avail, avail_idx, status, used, dev_used, used_idx,
                     bdisk, irq, handler, seen, fetched, req, head, moved, panic>>,
         pc' \in [Proc -> {"out", "alloc", "no_desc", "waiting", "woken"}],
         \A q \in Proc : pc'[q] = "out" <=> pc[q] = "out",
         \A q \in Proc : pc'[q] \in {"waiting", "woken"} <=> pc[q] \in {"waiting", "woken"},
         \A q \in Proc : pc'[q] = "waiting" => bdisk[req[q].b] = 1,
         \A q \in Proc : pc'[q] = "no_desc" => Cardinality(Free) < 3
  PROVE  DiskBase'
<1>1. TypeOK /\ panic = "none" /\ ReqInv /\ ChainInv /\ QueueInv /\ DoneInv /\ SleepInv
  BY DEF DiskBase
<1>2. TypeOK'
  BY <1>1 DEF TypeOK
<1>3. Live' = Live
  BY LiveStays
<1>4. Pending' = Pending
  BY <1>3, PendingStays
<1>5. ReqInv'
  BY <1>1, <1>3, ReqStays
<1>6. ChainInv' /\ Free' = Free
  BY <1>1, <1>3, ChainStays
<1>7. QueueInv'
  BY <1>1, <1>4, QueueStays
<1>8. DoneInv'
  BY <1>1, <1>3, DoneStays
<1>9. SleepInv'
  BY <1>1, <1>6 DEF SleepInv
<1>10. QED BY <1>1, <1>2, <1>5, <1>6, <1>7, <1>8, <1>9 DEF DiskBase

\* alloc3_desc() fails.
LEMMA NoDescriptorsKeeps ==
  ASSUME DiskBase, NEW p \in Proc, NoDescriptors(p)
  PROVE  DiskBase'
<1>1. TypeOK /\ ReqInv /\ SleepInv
  BY DEF DiskBase
<1>2. /\ UNCHANGED <<free, next, ops, info, avail, avail_idx, status, used, dev_used, used_idx,
                     bdisk, irq, handler, seen, fetched, req, head, moved, panic>>
      /\ pc[p] = "alloc" /\ Cardinality(Free) < 3
      /\ \/ pc' = [pc EXCEPT ![p] = "no_desc"]
         \/ pc' = [q \in Proc |-> IF q = p THEN "no_desc" ELSE IF pc[q] = "no_desc" THEN "alloc" ELSE pc[q]]
  BY DEF NoDescriptors, GiveBack, WakeAllocators, device
<1>3. pc \in [Proc -> {"out", "alloc", "no_desc", "waiting", "woken"}]
  BY <1>1 DEF TypeOK
<1>4. /\ pc' \in [Proc -> {"out", "alloc", "no_desc", "waiting", "woken"}]
      /\ \A q \in Proc : pc'[q] = "out" <=> pc[q] = "out"
      /\ \A q \in Proc : pc'[q] = "waiting" <=> pc[q] = "waiting"
      /\ \A q \in Proc : pc'[q] = "woken" <=> pc[q] = "woken"
  BY <1>2, <1>3
<1>5. \A q \in Proc : pc'[q] = "waiting" => bdisk[req[q].b] = 1
  BY <1>1, <1>4 DEF ReqInv
<1>6. QED BY <1>2, <1>4, <1>5, OnlyPcMoves

\* kkill() wakes a process that still waits.
LEMMA KillKeeps ==
  ASSUME DiskBase, NEW p \in Proc, Kill(p)
  PROVE  DiskBase'
<1>1. TypeOK /\ ReqInv /\ SleepInv
  BY DEF DiskBase
<1>2. /\ UNCHANGED <<free, next, ops, info, avail, avail_idx, status, used, dev_used, used_idx,
                     bdisk, irq, handler, seen, fetched, req, head, moved, panic>>
      /\ pc[p] \in {"waiting", "no_desc"}
      /\ pc' = [pc EXCEPT ![p] = IF pc[p] = "waiting" THEN "woken" ELSE "alloc"]
  BY DEF Kill, driver, device
<1>3. pc \in [Proc -> {"out", "alloc", "no_desc", "waiting", "woken"}]
  BY <1>1 DEF TypeOK
<1>4. /\ pc' \in [Proc -> {"out", "alloc", "no_desc", "waiting", "woken"}]
      /\ \A q \in Proc : pc'[q] = "out" <=> pc[q] = "out"
      /\ \A q \in Proc : pc'[q] \in {"waiting", "woken"} <=> pc[q] \in {"waiting", "woken"}
      /\ \A q \in Proc : pc'[q] = "waiting" => pc[q] = "waiting"
      /\ \A q \in Proc : pc'[q] = "no_desc" => pc[q] = "no_desc"
  BY <1>2, <1>3
<1>5. \A q \in Proc : pc'[q] = "waiting" => bdisk[req[q].b] = 1
  BY <1>1, <1>4 DEF ReqInv
<1>6. \A q \in Proc : pc'[q] = "no_desc" => Cardinality(Free) < 3
  BY <1>1, <1>4 DEF SleepInv
<1>7. QED BY <1>2, <1>4, <1>5, <1>6, OnlyPcMoves

\* virtio_disk_rw() finds b->disk still 1.
LEMMA SleepAgainKeeps ==
  ASSUME DiskBase, NEW p \in Proc, SleepAgain(p)
  PROVE  DiskBase'
<1>1. TypeOK /\ ReqInv /\ SleepInv
  BY DEF DiskBase
<1>2. /\ UNCHANGED <<free, next, ops, info, avail, avail_idx, status, used, dev_used, used_idx,
                     bdisk, irq, handler, seen, fetched, req, head, moved, panic>>
      /\ pc[p] = "woken" /\ bdisk[req[p].b] = 1
      /\ pc' = [pc EXCEPT ![p] = "waiting"]
  BY ZenonT(40) DEF SleepAgain, driver, device
<1>3. pc \in [Proc -> {"out", "alloc", "no_desc", "waiting", "woken"}]
  BY <1>1 DEF TypeOK
<1>4. /\ pc' \in [Proc -> {"out", "alloc", "no_desc", "waiting", "woken"}]
      /\ \A q \in Proc : pc'[q] = "out" <=> pc[q] = "out"
      /\ \A q \in Proc : pc'[q] \in {"waiting", "woken"} <=> pc[q] \in {"waiting", "woken"}
      /\ \A q \in Proc : pc'[q] = "waiting" => q = p \/ pc[q] = "waiting"
      /\ \A q \in Proc : pc'[q] = "no_desc" => pc[q] = "no_desc"
  BY <1>2, <1>3
<1>5. \A q \in Proc : pc'[q] = "waiting" => bdisk[req[q].b] = 1
  BY <1>1, <1>2, <1>4 DEF ReqInv
<1>6. \A q \in Proc : pc'[q] = "no_desc" => Cardinality(Free) < 3
  BY <1>1, <1>4 DEF SleepInv
<1>7. QED BY <1>2, <1>4, <1>5, <1>6, OnlyPcMoves

\* virtio_disk_rw() frees a chain that is all its own, so free_desc() does
\* not panic, and wakes everyone who sleeps for descriptors.
LEMMA ReturnKeeps ==
  ASSUME DiskBase, NEW p \in Proc, Return(p)
  PROVE  DiskBase'
<1>1. TypeOK /\ panic = "none" /\ ReqInv /\ ChainInv /\ QueueInv /\ DoneInv /\ SleepInv
  BY DEF DiskBase
<1> DEFINE chain == Chain(head[p])
<1>2. /\ pc[p] = "woken" /\ bdisk[req[p].b] = 0
      /\ UNCHANGED <<status, used, dev_used, used_idx, bdisk, irq, handler, seen, fetched>>
  BY DEF Return, device
<1>3. p \in Live /\ p \notin Pending
  BY <1>2 DEF Live, Pending
<1>4. head[p] \in chain /\ Cardinality(chain) = 3 /\ \A d \in chain : d \in Desc /\ free[d] = 0
  BY ZenonT(40), <1>1, <1>3, ChainIs DEF Chain
<1>5. chain \cap Free = {}
  BY <1>4 DEF Free
<1>6. /\ free' = [d \in Desc |-> IF d \in chain THEN 1 ELSE free[d]]
      /\ next' = [d \in Desc |-> IF d \in chain THEN Nil ELSE next[d]]
      /\ ops' = [ops EXCEPT ![head[p]] = NoRequest]
      /\ info' = [info EXCEPT ![head[p]] = Nil]
      /\ req' = [req EXCEPT ![p] = NoRequest]
      /\ head' = [head EXCEPT ![p] = Nil]
      /\ moved' = [moved EXCEPT ![req[p].b] = "no"]
      /\ pc' = [q \in Proc |-> IF q = p THEN "out" ELSE IF pc[q] = "no_desc" THEN "alloc" ELSE pc[q]]
      /\ UNCHANGED <<avail, avail_idx, panic>>
  BY ZenonT(40), <1>5 DEF Return, WakeAllocators
<1> HIDE DEF chain
<1>7. /\ pc \in [Proc -> {"out", "alloc", "no_desc", "waiting", "woken"}]
      /\ req \in [Proc -> Request \cup {NoRequest}] /\ head \in [Proc -> Desc \cup {Nil}]
  BY ZenonT(40), <1>1 DEF TypeOK
<1>8. /\ ops \in [Desc -> Request \cup {NoRequest}] /\ info \in [Desc -> Block \cup {Nil}]
      /\ moved \in [Block -> {"no", "read", "write"}]
  BY <1>1 DEF TypeOK
<1>9. free \in [Desc -> {0, 1}] /\ next \in [Desc -> Desc \cup {Nil}]
  BY <1>1 DEF TypeOK
<1>10. free' \in [Desc -> {0, 1}] /\ \A d \in Desc : free'[d] = 0 <=> free[d] = 0 /\ d \notin chain
  BY <1>6, <1>9
<1>11. next' \in [Desc -> Desc \cup {Nil}] /\ \A d \in Desc : d \notin chain => next'[d] = next[d]
  BY <1>6, <1>9
<1>12. /\ head' \in [Proc -> Desc \cup {Nil}] /\ head'[p] = Nil
       /\ req' \in [Proc -> Request \cup {NoRequest}] /\ req'[p] = NoRequest
       /\ \A q \in Proc : q # p => head'[q] = head[q] /\ req'[q] = req[q]
  BY <1>6, <1>7
<1>13. /\ pc' \in [Proc -> {"out", "alloc", "no_desc", "waiting", "woken"}]
       /\ pc'[p] = "out" /\ \A q \in Proc : pc'[q] # "no_desc"
       /\ \A q \in Proc : q # p => /\ pc'[q] = "out" <=> pc[q] = "out"
                                   /\ pc'[q] = "waiting" <=> pc[q] = "waiting"
                                   /\ pc'[q] = "woken" <=> pc[q] = "woken"
  BY <1>6, <1>7
<1>14. /\ ops' \in [Desc -> Request \cup {NoRequest}] /\ info' \in [Desc -> Block \cup {Nil}]
       /\ \A d \in Desc : d # head[p] => ops'[d] = ops[d] /\ info'[d] = info[d]
  <2>1. ops' = [ops EXCEPT ![head[p]] = NoRequest] /\ info' = [info EXCEPT ![head[p]] = Nil]
    BY <1>6
  <2>2. QED BY ZenonT(40), <1>8, <2>1
<1>15. /\ moved' \in [Block -> {"no", "read", "write"}]
       /\ \A b \in Block : b # req[p].b => moved'[b] = moved[b]
  <2>1. moved' = [moved EXCEPT ![req[p].b] = "no"]
    BY <1>6
  <2>2. QED BY ZenonT(40), <1>8, <2>1
<1>16. ASSUME NEW q \in Live, q # p
      PROVE  /\ q \in Proc /\ head'[q] = head[q] /\ req'[q] = req[q]
             /\ head[q] \in Desc /\ head[q] # head[p]
             /\ req[q].b \in Block /\ req[q].b # req[p].b
             /\ Chain(head[q]) \cap chain = {}
             /\ Chain(head[q])' = Chain(head[q])
             /\ LET a == head'[q]
                    b == next'[a]
                    c == next'[b]
                IN  b \in Desc /\ c \in Desc /\ next'[c] = Nil /\ a # b /\ a # c /\ b # c
  <2>1. q \in Proc /\ pc[q] # "out"
    BY DEF Live
  <2>2. head'[q] = head[q] /\ req'[q] = req[q]
    BY <1>12, <1>16, <2>1
  <2>3. req[q].b \in Block /\ req[q].b # req[p].b /\ head[q] \in Desc
    BY ZenonT(40), <1>1, <1>2, <1>16, <2>1 DEF ReqInv, Request
  <2>4. Chain(head[q]) \cap chain = {}
    BY ZenonT(40), <1>1, <1>3, <1>16 DEF ChainInv, chain
  <2>5. head[q] # head[p]
    BY <1>1, <1>3, <1>16, HeadsApart
  <2>6. \A d \in Chain(head[q]) : d \in Desc
    BY <1>1, ChainIs
  <2>7. \A d \in Chain(head[q]) : next'[d] = next[d]
    BY <1>11, <2>4, <2>6
  <2>8. /\ Chain(head[q])' = Chain(head[q])
        /\ LET a == head'[q]
               b == next'[a]
               c == next'[b]
           IN  b \in Desc /\ c \in Desc /\ next'[c] = Nil /\ a # b /\ a # c /\ b # c
    BY ZenonT(40), <1>1, <2>2, <2>7, ChainFrame
  <2>9. QED BY <2>1, <2>2, <2>3, <2>4, <2>5, <2>8
<1>17. Free' = Free \cup chain
  BY <1>4, <1>6, <1>9 DEF Free
<1>18. Cardinality(Free') = Cardinality(Free) + 3
  <2>1. PICK i \in Desc, j \in Desc, k \in Desc : chain = {i, j, k} /\ i # j /\ i # k /\ j # k
    <3>1. next[head[p]] \in Desc /\ next[next[head[p]]] \in Desc /\ head[p] \in Desc
          /\ chain = {head[p], next[head[p]], next[next[head[p]]]}
      BY <1>1, <1>3, ChainIs DEF chain
    <3>2. head[p] # next[head[p]] /\ head[p] # next[next[head[p]]] /\ next[head[p]] # next[next[head[p]]]
      BY <1>1, <1>3 DEF ChainInv
    <3>3. QED BY <3>1, <3>2
  <2>2. i \in Free' /\ j \in Free' /\ k \in Free' /\ Free' \ {i, j, k} = Free
    BY <1>5, <1>17, <2>1
  <2>3. IsFiniteSet(Free')
    <3>1. Free' \in SUBSET Desc
      BY DEF Free
    <3>2. QED BY Zenon, <3>1, DescFinite, FS_Subset
  <2>4. Cardinality(Free') = Cardinality(Free' \ {i, j, k}) + 3
    BY <2>1, <2>2, <2>3, WithoutThree
  <2>5. QED BY <2>2, <2>4
<1>19. Avails' = Avails /\ \A m : AvailAt(m)' = AvailAt(m)
  BY ZenonT(40), <1>2, <1>6, AvailStays
<1>20. Useds' = Useds /\ \A m : UsedAt(m)' = UsedAt(m)
  BY <1>2, UsedStays
<1>21. TypeOK'
  <2>1. /\ (avail \in [Entry -> Desc])' /\ (used \in [Entry -> Desc])'
        /\ (irq \in {0, 1})' /\ (handler \in {"off", "ack", "loop"})'
        /\ (fetched \subseteq Desc)' /\ (status \in [Desc -> {0, 255}])'
        /\ (bdisk \in [Block -> {0, 1}])' /\ (panic \in {"none", "free_desc", "status"})'
        /\ ({avail_idx, dev_used, used_idx, seen} \subseteq 0 .. UINT16 - 1)'
    BY ZenonT(40), <1>1, <1>2, <1>6 DEF TypeOK
  <2>2. QED BY Zenon, <1>10, <1>11, <1>12, <1>13, <1>14, <1>15, <2>1 DEF TypeOK
<1>22. Live' = Live \ {p}
  BY <1>13 DEF Live
<1>23. Pending' = Pending
  <2>1. bdisk' = bdisk /\ \A q \in Live \ {p} : req'[q] = req[q]
    BY ZenonT(40), <1>2, <1>16
  <2>2. QED BY <1>22, <1>3, <2>1 DEF Pending
<1>24. ReqInv'
  <2>1. \A q \in Proc : IF pc'[q] = "out" THEN req'[q] = NoRequest ELSE req'[q] \in Request
    BY <1>1, <1>12, <1>13 DEF ReqInv
  <2>2. \A q, s \in Proc : pc'[q] # "out" /\ pc'[s] # "out" /\ req'[q].b = req'[s].b => q = s
    <3>1. \A q \in Proc : pc'[q] # "out" => q # p /\ pc[q] # "out" /\ req'[q] = req[q]
      BY <1>12, <1>13
    <3>2. \A q, s \in Proc : pc[q] # "out" /\ pc[s] # "out" /\ req[q].b = req[s].b => q = s
      BY <1>1 DEF ReqInv
    <3>3. QED BY <3>1, <3>2
  <2>3. \A q \in Proc : IF q \in Live' THEN head'[q] \in Desc ELSE head'[q] = Nil
    BY <1>1, <1>12, <1>22 DEF ReqInv
  <2>4. \A q \in Live' : ops'[head'[q]] = req'[q] /\ info'[head'[q]] = req'[q].b
    <3>1. \A q \in Live : ops[head[q]] = req[q] /\ info[head[q]] = req[q].b
      BY <1>1 DEF ReqInv
    <3>2. ASSUME NEW q \in Live'
          PROVE  ops'[head'[q]] = req'[q] /\ info'[head'[q]] = req'[q].b
      <4>1. q \in Live /\ q # p
        BY <1>22
      <4>2. head'[q] = head[q] /\ req'[q] = req[q] /\ head[q] \in Desc /\ head[q] # head[p]
        BY <1>16, <4>1
      <4>3. ops'[head[q]] = ops[head[q]] /\ info'[head[q]] = info[head[q]]
        BY <1>14, <4>2
      <4>4. QED BY <3>1, <4>1, <4>2, <4>3
    <3>3. QED BY <3>2
  <2>5. \A q \in Proc : pc'[q] = "waiting" => bdisk'[req'[q].b] = 1
    <3>1. \A q \in Proc : pc'[q] = "waiting" => q # p /\ pc[q] = "waiting" /\ req'[q] = req[q]
      BY <1>12, <1>13
    <3>2. QED BY <1>1, <1>2, <3>1 DEF ReqInv
  <2>6. QED BY <2>1, <2>2, <2>3, <2>4, <2>5 DEF ReqInv
<1>25. ChainInv'
  <2>1. \A q \in Live' : LET a == head'[q]
                             b == next'[a]
                             c == next'[b]
                         IN  b \in Desc /\ c \in Desc /\ next'[c] = Nil /\ a # b /\ a # c /\ b # c
    BY ZenonT(40), <1>16, <1>22
  <2>2. \A q, s \in Live' : q # s => Chain(head[q])' \cap Chain(head[s])' = {}
    <3>1. \A q, s \in Live : q # s => Chain(head[q]) \cap Chain(head[s]) = {}
      BY <1>1 DEF ChainInv
    <3>2. \A q \in Live' : q \in Live /\ Chain(head[q])' = Chain(head[q])
      BY <1>16, <1>22
    <3>3. QED BY <3>1, <3>2
  <2>3. \A d \in Desc : free'[d] = 0 <=> \E q \in Live' : d \in Chain(head[q])'
    <3>1. \A d \in Desc : free[d] = 0 <=> \E q \in Live : d \in Chain(head[q])
      BY <1>1 DEF ChainInv
    <3>2. \A q \in Live' : Chain(head[q])' = Chain(head[q]) /\ Chain(head[q]) \cap chain = {}
      BY <1>16, <1>22
    <3>3. QED BY <1>3, <1>10, <1>22, <3>1, <3>2 DEF chain
  <2>4. Cardinality(Free') + 3 * Cardinality(Live') = NUM
    <3>1. Cardinality(Live') = Cardinality(Live) - 1
      BY Zenon, <1>1, <1>3, <1>22, SetsFinite, FS_RemoveElement
    <3>2. Cardinality(Free) + 3 * Cardinality(Live) = NUM
      BY <1>1 DEF ChainInv
    <3>3. Cardinality(Live) \in Nat /\ Cardinality(Free) \in Nat
      BY <1>1, SetsFinite
    <3>4. QED BY <1>18, <3>1, <3>2, <3>3
  <2>5. QED BY <2>1, <2>2, <2>3, <2>4 DEF ChainInv
<1>26. \A q \in Pending : q \in Live /\ q # p /\ head'[q] = head[q]
  BY <1>3, <1>16 DEF Pending
<1>27. QueueInv'
  BY <1>1, <1>2, <1>6, <1>26, <1>23, QueueStays
<1>28. DoneInv'
  <2>1. status' = status /\ bdisk' = bdisk
    BY <1>2
  <2>2. ASSUME NEW q \in Live, q # p, Transferred(req[q])
        PROVE  moved'[req[q].b] = IF req[q].write = 1 THEN "write" ELSE "read"
    BY ZenonT(40), <1>15, <1>16, <2>2 DEF Transferred
  <2>3. ASSUME NEW m \in 0 .. Useds' - 1
        PROVE  status'[UsedAt(m)'] = 0 /\ Transferred(ops[UsedAt(m)])'
    <3>1. UsedAt(m)' = UsedAt(m) /\ m \in 0 .. Useds - 1
      BY <1>20
    <3>2. status[UsedAt(m)] = 0 /\ Transferred(ops[UsedAt(m)])
      BY <1>1, <3>1 DEF DoneInv
    <3>3. PICK q \in Pending : head[q] = UsedAt(m)
      BY <1>1, <3>1 DEF QueueInv
    <3>4. q \in Live /\ q # p
      BY <1>26
    <3>5. ops[UsedAt(m)] = req[q] /\ ops'[UsedAt(m)] = req[q]
      <4>1. ops[head[q]] = req[q]
        BY <1>1, <3>4 DEF ReqInv
      <4>2. head[q] \in Desc /\ head[q] # head[p]
        BY <1>16, <3>4
      <4>3. ops'[head[q]] = ops[head[q]]
        BY <1>14, <4>2
      <4>4. QED BY <3>3, <4>1, <4>3
    <3>6. moved'[req[q].b] = IF req[q].write = 1 THEN "write" ELSE "read"
      BY ZenonT(40), <2>2, <3>2, <3>4, <3>5
    <3>7. QED BY <2>1, <3>1, <3>2, <3>5, <3>6 DEF Transferred
  <2>4. ASSUME NEW q \in Live', bdisk'[req'[q].b] = 0
        PROVE  Transferred(req[q])'
    <3>1. q \in Live /\ q # p /\ req'[q] = req[q]
      BY ZenonT(40), <1>16, <1>22
    <3>2. Transferred(req[q])
      BY ZenonT(40), <1>1, <2>1, <2>4, <3>1 DEF DoneInv
    <3>3. QED BY <2>2, <3>1, <3>2 DEF Transferred
  <2>5. QED BY ZenonT(40), <2>3, <2>4 DEF DoneInv
<1>29. SleepInv'
  <2>1. used_idx' # dev_used' => irq' = 1 \/ handler' # "off"
    BY <1>1, <1>2 DEF SleepInv
  <2>2. QED BY <1>13, <2>1 DEF SleepInv
<1>30. QED BY <1>1, <1>6, <1>21, <1>24, <1>25, <1>27, <1>28, <1>29 DEF DiskBase

\* The device takes a request from the available ring.
LEMMA FetchKeeps ==
  ASSUME DiskBase, Fetch
  PROVE  DiskBase'
<1>1. TypeOK /\ panic = "none" /\ ReqInv /\ ChainInv /\ QueueInv /\ DoneInv /\ SleepInv
  BY DEF DiskBase
<1>2. /\ seen # avail_idx /\ fetched' = fetched \cup {avail[seen % RING]} /\ seen' = Bump(seen)
      /\ UNCHANGED <<free, next, ops, info, avail, avail_idx, status, used, dev_used, used_idx,
                     bdisk, irq, handler, pc, req, head, moved, panic>>
  BY DEF Fetch, driver
<1> DEFINE x == AvailAt(0)
<1>3. /\ Avails \in Nat /\ Avails > 0 /\ Avails' = Avails - 1
      /\ x = avail[seen % RING]
      /\ \A m \in 0 .. Avails' - 1 : m + 1 \in 0 .. Avails - 1 /\ AvailAt(m)' = AvailAt(m + 1)
  BY <1>1, <1>2, AvailTaken
<1>4. Useds' = Useds /\ \A m : UsedAt(m)' = UsedAt(m)
  BY <1>2, UsedStays
<1>5. x \in Desc /\ seen' \in 0 .. UINT16 - 1 /\ fetched' = fetched \cup {x}
  <2>1. seen \in 0 .. UINT16 - 1
    BY <1>1, Counters
  <2>2. seen \in Nat
    BY <2>1, Sizes
  <2>3. seen % RING \in Entry
    BY <2>2, InRing
  <2>4. avail \in [Entry -> Desc]
    BY <1>1 DEF TypeOK
  <2>5. QED BY <1>2, <1>3, <2>1, <2>3, <2>4, BumpType
<1>6. TypeOK'
  <2>1. ({avail_idx, dev_used, used_idx, seen} \subseteq 0 .. UINT16 - 1)'
    BY <1>1, <1>2, <1>5, Counters
  <2>2. (fetched \subseteq Desc)'
    BY <1>1, <1>5 DEF TypeOK
  <2>3. QED BY Zenon, <1>1, <1>2, <2>1, <2>2 DEF TypeOK
<1>7. Live' = Live
  BY <1>2, LiveStays
<1>8. Pending' = Pending
  BY <1>2, <1>7, PendingStays
<1>9. ReqInv'
  <2>1. \A q \in Proc : pc'[q] = "waiting" => bdisk'[req[q].b] = 1
    BY <1>1, <1>2 DEF ReqInv
  <2>2. QED BY ZenonT(40), <1>1, <1>2, <1>7, <2>1, ReqStays
<1>10. ChainInv' /\ Free' = Free
  BY <1>1, <1>2, <1>7, ChainStays
<1>11. QueueInv'
  <2> HIDE DEF x
  <2>1. 0 \in 0 .. Avails - 1
    BY <1>3
  <2>2. x \notin fetched /\ (\E p \in Pending : head[p] = x)
    BY <1>1, <2>1 DEF QueueInv, x
  <2>3. Avails' + Cardinality(fetched') + Useds' = Cardinality(Pending')
    <3>1. Cardinality(fetched') = Cardinality(fetched) + 1
      BY Zenon, <1>1, <1>5, <2>2, SetsFinite, FS_AddElement
    <3>2. Avails + Cardinality(fetched) + Useds = Cardinality(Pending)
      BY <1>1 DEF QueueInv
    <3>3. Cardinality(fetched) \in Nat /\ Useds \in Nat
      BY <1>1, SetsFinite, Counters
    <3>4. QED BY <1>3, <1>4, <1>8, <3>1, <3>2, <3>3
  <2>4. \A m \in 0 .. Avails' - 1 : \E p \in Pending' : head'[p] = AvailAt(m)'
    <3>1. \A m \in 0 .. Avails - 1 : \E p \in Pending : head[p] = AvailAt(m)
      BY <1>1 DEF QueueInv
    <3>2. head' = head
      BY <1>2
    <3>3. QED BY <1>3, <1>8, <3>1, <3>2
  <2>5. \A d \in fetched' : \E p \in Pending' : head'[p] = d
    BY ZenonT(40), <1>1, <1>2, <1>5, <1>8, <2>2 DEF QueueInv
  <2>6. \A m \in 0 .. Useds' - 1 : \E p \in Pending' : head'[p] = UsedAt(m)'
    BY <1>1, <1>2, <1>4, <1>8 DEF QueueInv
  <2>7. \A m, k \in 0 .. Avails' - 1 : AvailAt(m)' = AvailAt(k)' => m = k
    <3>1. \A m, k \in 0 .. Avails - 1 : AvailAt(m) = AvailAt(k) => m = k
      BY <1>1 DEF QueueInv
    <3>2. QED BY <1>3, <3>1
  <2>8. \A m, k \in 0 .. Useds' - 1 : UsedAt(m)' = UsedAt(k)' => m = k
    BY <1>1, <1>4 DEF QueueInv
  <2>9. \A m \in 0 .. Avails' - 1 : AvailAt(m)' \notin fetched'
    <3>1. \A m \in 0 .. Avails' - 1 : AvailAt(m + 1) # x
      BY <1>1, <1>3, <2>1 DEF QueueInv, x
    <3>2. \A m \in 0 .. Avails' - 1 : AvailAt(m + 1) \notin fetched
      BY <1>1, <1>3 DEF QueueInv
    <3>3. QED BY <1>3, <1>5, <3>1, <3>2
  <2>10. \A m \in 0 .. Useds' - 1 : UsedAt(m)' \notin fetched'
    BY <1>1, <1>4, <1>5, <2>1 DEF QueueInv, x
  <2>11. \A m \in 0 .. Avails' - 1, k \in 0 .. Useds' - 1 : AvailAt(m)' # UsedAt(k)'
    <3>1. \A m \in 0 .. Avails - 1, k \in 0 .. Useds - 1 : AvailAt(m) # UsedAt(k)
      BY <1>1 DEF QueueInv
    <3>2. QED BY <1>3, <1>4, <3>1
  <2>12. ASSUME NEW p \in Pending'
         PROVE  \/ head'[p] \in fetched'
                \/ \E m \in 0 .. Avails' - 1 : AvailAt(m)' = head'[p]
                \/ \E m \in 0 .. Useds' - 1 : UsedAt(m)' = head'[p]
    <3>1. \/ head[p] \in fetched
          \/ \E m \in 0 .. Avails - 1 : AvailAt(m) = head[p]
          \/ \E m \in 0 .. Useds - 1 : UsedAt(m) = head[p]
      BY <1>1, <1>8 DEF QueueInv
    <3>2. ASSUME NEW m \in 0 .. Avails - 1, AvailAt(m) = head[p]
          PROVE  head'[p] \in fetched' \/ \E n \in 0 .. Avails' - 1 : AvailAt(n)' = head'[p]
      <4>1. CASE m = 0
        BY <1>2, <1>5, <3>2, <4>1 DEF x
      <4>2. CASE m # 0
        <5>1. m - 1 \in 0 .. Avails' - 1 /\ (m - 1) + 1 = m
          BY <1>3, <4>2
        <5>2. \A n \in 0 .. Avails' - 1 : n + 1 = m => AvailAt(n)' = AvailAt(m)
          BY <1>3
        <5>3. \E n \in 0 .. Avails' - 1 : n + 1 = m
          BY <5>1
        <5>4. QED BY <1>2, <3>2, <5>2, <5>3
      <4>3. QED BY <4>1, <4>2
    <3>3. QED BY <1>2, <1>4, <1>5, <3>1, <3>2
  <2>13. QED BY Zenon, <2>3, <2>4, <2>5, <2>6, <2>7, <2>8, <2>9, <2>10, <2>11, <2>12 DEF QueueInv
<1>12. DoneInv'
  BY <1>1, <1>2, <1>7, DoneStays
<1>13. SleepInv'
  BY <1>1, <1>2, <1>10 DEF SleepInv
<1>14. QED BY <1>1, <1>2, <1>6, <1>9, <1>10, <1>11, <1>12, <1>13 DEF DiskBase

\* The device finishes a request: the transfer is that of the block whose
\* request the chain is, and of no other.
LEMMA CompleteKeeps ==
  ASSUME DiskBase, NEW i \in Desc, Complete(i)
  PROVE  DiskBase'
<1>1. TypeOK /\ panic = "none" /\ ReqInv /\ ChainInv /\ QueueInv /\ DoneInv /\ SleepInv
  BY DEF DiskBase
<1>2. /\ i \in fetched /\ fetched' = fetched \ {i}
      /\ moved' = [moved EXCEPT ![ops[i].b] = IF ops[i].write = 1 THEN "write" ELSE "read"]
      /\ status' = [status EXCEPT ![i] = 0]
      /\ used' = [used EXCEPT ![dev_used % RING] = i]
      /\ dev_used' = Bump(dev_used) /\ irq' = 1
      /\ UNCHANGED <<free, next, ops, info, avail, avail_idx, used_idx, bdisk, handler, seen, pc,
                     req, head, panic>>
  BY DEF Complete, driver
<1>3. PICK q \in Pending : head[q] = i
  BY ZenonT(40), <1>1, <1>2 DEF QueueInv
<1>4. q \in Live /\ q \in Proc /\ pc[q] # "out" /\ bdisk[req[q].b] = 1
  BY ZenonT(40), <1>3 DEF Pending, Live
<1>5. ops[i] = req[q] /\ req[q] \in Request /\ ops[i].b \in Block
  BY <1>1, <1>3, <1>4 DEF ReqInv, Request
<1>6. Avails' = Avails /\ \A m : AvailAt(m)' = AvailAt(m)
  BY ZenonT(40), <1>2, AvailStays
<1>7. /\ Useds \in Nat /\ Useds' = Useds + 1
      /\ \A m \in 0 .. Useds : m = Useds => UsedAt(m)' = i
      /\ \A m \in 0 .. Useds - 1 : UsedAt(m)' = UsedAt(m)
  <2>1. Useds < RING
    BY <1>1, <1>2, RingsFit
  <2>2. QED BY ZenonT(40), <1>1, <1>2, <2>1, UsedAdded
<1>8. \A m \in 0 .. Useds' - 1 : m \in 0 .. Useds /\ (m = Useds \/ m \in 0 .. Useds - 1)
  BY <1>7
<1>9. TypeOK'
  <2>1. dev_used \in 0 .. UINT16 - 1
    BY <1>1, Counters
  <2>2. dev_used' \in 0 .. UINT16 - 1
    BY Zenon, <1>2, <2>1, BumpType
  <2>3. used' \in [Entry -> Desc] /\ status' \in [Desc -> {0, 255}] /\ fetched' \subseteq Desc
    BY ZenonT(40), <1>1, <1>2 DEF TypeOK
  <2>4. moved' \in [Block -> {"no", "read", "write"}]
    BY ZenonT(40), <1>1, <1>2, <1>5 DEF TypeOK
  <2>5. ({avail_idx, dev_used, used_idx, seen} \subseteq 0 .. UINT16 - 1)'
    BY <1>1, <1>2, <2>2, Counters
  <2>6. QED BY Zenon, <1>1, <1>2, <2>3, <2>4, <2>5 DEF TypeOK
<1>10. Live' = Live
  BY ZenonT(40), <1>2, LiveStays
<1>11. Pending' = Pending
  BY ZenonT(40), <1>2, <1>10, PendingStays
<1>12. ReqInv'
  <2>1. \A p \in Proc : pc'[p] = "waiting" => bdisk'[req[p].b] = 1
    BY ZenonT(40), <1>1, <1>2 DEF ReqInv
  <2>2. QED BY ZenonT(40), <1>1, <1>2, <1>10, <2>1, ReqStays
<1>13. ChainInv' /\ Free' = Free
  BY <1>1, <1>2, <1>10, ChainStays
<1>14. QueueInv'
  <2>1. Avails' + Cardinality(fetched') + Useds' = Cardinality(Pending')
    <3>1. Cardinality(fetched') = Cardinality(fetched) - 1
      BY Zenon, <1>1, <1>2, SetsFinite, FS_RemoveElement
    <3>2. Avails + Cardinality(fetched) + Useds = Cardinality(Pending)
      BY <1>1 DEF QueueInv
    <3>3. Cardinality(fetched) \in Nat /\ Avails \in Nat
      BY <1>1, SetsFinite, Counters
    <3>4. QED BY <1>6, <1>7, <1>11, <3>1, <3>2, <3>3
  <2>2. \A m \in 0 .. Avails' - 1 : \E p \in Pending' : head'[p] = AvailAt(m)'
    BY ZenonT(40), <1>1, <1>2, <1>6, <1>11 DEF QueueInv
  <2>3. \A d \in fetched' : \E p \in Pending' : head'[p] = d
    BY ZenonT(40), <1>1, <1>2, <1>11 DEF QueueInv
  <2>4. \A m \in 0 .. Useds' - 1 : \E p \in Pending' : head'[p] = UsedAt(m)'
    <3>1. \A m \in 0 .. Useds - 1 : \E p \in Pending' : head'[p] = UsedAt(m)
      BY ZenonT(40), <1>1, <1>2, <1>11 DEF QueueInv
    <3>2. q \in Pending' /\ head'[q] = i
      BY ZenonT(40), <1>2, <1>3, <1>11
    <3>3. QED BY <1>7, <1>8, <3>1, <3>2
  <2>5. \A m, k \in 0 .. Avails' - 1 : AvailAt(m)' = AvailAt(k)' => m = k
    BY ZenonT(40), <1>1, <1>6 DEF QueueInv
  <2>6. \A m \in 0 .. Useds - 1 : UsedAt(m) \notin fetched /\ UsedAt(m) # i
    BY ZenonT(40), <1>1, <1>2 DEF QueueInv
  <2>7. \A m, k \in 0 .. Useds' - 1 : UsedAt(m)' = UsedAt(k)' => m = k
    <3>1. \A m, k \in 0 .. Useds - 1 : UsedAt(m) = UsedAt(k) => m = k
      BY <1>1 DEF QueueInv
    <3>2. QED BY <1>7, <1>8, <2>6, <3>1
  <2>8. \A m \in 0 .. Avails' - 1 : AvailAt(m)' \notin fetched'
    BY ZenonT(40), <1>1, <1>2, <1>6 DEF QueueInv
  <2>9. \A m \in 0 .. Useds' - 1 : UsedAt(m)' \notin fetched'
    BY <1>2, <1>7, <1>8, <2>6
  <2>10. \A m \in 0 .. Avails' - 1, k \in 0 .. Useds' - 1 : AvailAt(m)' # UsedAt(k)'
    <3>1. \A m \in 0 .. Avails - 1 : AvailAt(m) # i
      BY <1>1, <1>2 DEF QueueInv
    <3>2. \A m \in 0 .. Avails - 1, k \in 0 .. Useds - 1 : AvailAt(m) # UsedAt(k)
      BY <1>1 DEF QueueInv
    <3>3. QED BY <1>6, <1>7, <1>8, <3>1, <3>2
  <2>11. ASSUME NEW p \in Pending'
         PROVE  \/ head'[p] \in fetched'
                \/ \E m \in 0 .. Avails' - 1 : AvailAt(m)' = head'[p]
                \/ \E m \in 0 .. Useds' - 1 : UsedAt(m)' = head'[p]
    <3>1. \/ head[p] \in fetched
          \/ \E m \in 0 .. Avails - 1 : AvailAt(m) = head[p]
          \/ \E m \in 0 .. Useds - 1 : UsedAt(m) = head[p]
      BY <1>1, <1>11 DEF QueueInv
    <3>2. CASE head[p] = i
      <4>1. Useds \in 0 .. Useds' - 1 /\ Useds \in 0 .. Useds
        BY <1>7
      <4>2. \E m \in 0 .. Useds' - 1 : m = Useds /\ m \in 0 .. Useds
        BY <4>1
      <4>3. QED BY <1>2, <1>7, <3>2, <4>2
    <3>3. CASE head[p] # i /\ head[p] \in fetched
      BY ZenonT(40), <1>2, <3>3
    <3>4. CASE \E m \in 0 .. Avails - 1 : AvailAt(m) = head[p]
      BY ZenonT(40), <1>2, <1>6, <3>4
    <3>5. CASE \E m \in 0 .. Useds - 1 : UsedAt(m) = head[p]
      <4>1. \A m \in 0 .. Useds - 1 : m \in 0 .. Useds' - 1
        BY <1>7
      <4>2. QED BY ZenonT(40), <1>2, <1>7, <3>5, <4>1
    <3>6. QED BY ZenonT(40), <3>1, <3>2, <3>3, <3>4, <3>5
  <2>12. QED BY Zenon, <2>1, <2>2, <2>3, <2>4, <2>5, <2>7, <2>8, <2>9, <2>10, <2>11 DEF QueueInv
<1>15. DoneInv'
  <2>1. ASSUME NEW p \in Live, p # q
        PROVE  req[p].b # req[q].b /\ req[p] \in Request /\ head[p] \in Desc /\ head[p] # i
    <3>1. p \in Proc /\ pc[p] # "out"
      BY DEF Live
    <3>2. req[p].b # req[q].b /\ req[p] \in Request /\ head[p] \in Desc
      BY ZenonT(40), <1>1, <1>4, <2>1, <3>1 DEF ReqInv
    <3>3. head[p] # i
      BY ZenonT(40), <1>1, <1>3, <1>4, <2>1, HeadsApart
    <3>4. QED BY <3>2, <3>3
  <2>2. ASSUME NEW p \in Live, p # q, Transferred(req[p])
        PROVE  moved'[req[p].b] = IF req[p].write = 1 THEN "write" ELSE "read"
    <3>1. req[p].b # ops[i].b /\ req[p].b \in Block
      BY <1>5, <2>1, <2>2 DEF Request
    <3>2. moved \in [Block -> {"no", "read", "write"}]
      BY <1>1 DEF TypeOK
    <3>3. moved'[req[p].b] = moved[req[p].b]
      BY ZenonT(40), <1>2, <3>1, <3>2
    <3>4. QED BY <2>2, <3>3 DEF Transferred
  <2>3. ASSUME NEW m \in 0 .. Useds' - 1
        PROVE  status'[UsedAt(m)'] = 0 /\ Transferred(ops[UsedAt(m)])'
    <3>1. CASE m = Useds
      <4>1. UsedAt(m)' = i
        BY <1>7, <1>8, <3>1
      <4>2. status'[i] = 0
        BY ZenonT(40), <1>1, <1>2 DEF TypeOK
      <4>3. moved'[ops[i].b] = IF ops[i].write = 1 THEN "write" ELSE "read"
        BY ZenonT(40), <1>1, <1>2, <1>5 DEF TypeOK
      <4>4. QED BY ZenonT(40), <1>2, <4>1, <4>2, <4>3 DEF Transferred
    <3>2. CASE m \in 0 .. Useds - 1
      <4>1. UsedAt(m)' = UsedAt(m) /\ status[UsedAt(m)] = 0 /\ Transferred(ops[UsedAt(m)])
        BY ZenonT(40), <1>1, <1>7, <3>2 DEF DoneInv
      <4>2. UsedAt(m) # i
        BY ZenonT(40), <1>1, <1>2, <3>2 DEF QueueInv
      <4>3. PICK p \in Pending : head[p] = UsedAt(m)
        BY ZenonT(40), <1>1, <3>2 DEF QueueInv
      <4>4. p \in Live /\ p # q /\ ops[UsedAt(m)] = req[p]
        BY ZenonT(40), <1>1, <1>3, <4>2, <4>3 DEF Pending, ReqInv
      <4>5. status'[UsedAt(m)] = 0
        <5>1. status \in [Desc -> {0, 255}]
          BY ZenonT(40), <1>1 DEF TypeOK
        <5>2. status' = [status EXCEPT ![i] = 0]
          BY ZenonT(40), <1>2
        <5>3. QED BY <4>1, <4>2, <5>1, <5>2
      <4>6. moved'[req[p].b] = IF req[p].write = 1 THEN "write" ELSE "read"
        BY <2>2, <4>1, <4>4
      <4>7. QED BY ZenonT(40), <1>2, <4>1, <4>4, <4>5, <4>6 DEF Transferred
    <3>3. QED BY <1>8, <3>1, <3>2
  <2>4. ASSUME NEW p \in Live', bdisk'[req'[p].b] = 0
        PROVE  Transferred(req[p])'
    <3>1. p \in Live /\ bdisk[req[p].b] = 0 /\ req' = req
      BY <1>2, <1>10, <2>4
    <3>2. p # q
      BY <1>4, <3>1
    <3>3. Transferred(req[p])
      BY <1>1, <3>1 DEF DoneInv
    <3>4. QED BY <2>2, <3>1, <3>2, <3>3 DEF Transferred
  <2>5. QED BY <2>3, <2>4 DEF DoneInv
<1>16. SleepInv'
  BY <1>1, <1>2, <1>13 DEF SleepInv
<1>17. QED BY <1>1, <1>2, <1>9, <1>12, <1>13, <1>14, <1>15, <1>16 DEF DiskBase

\* The interrupt and its handler move, and that is all.
LEMMA OnlyHandlerMoves ==
  ASSUME DiskBase,
         UNCHANGED <<free, next, ops, info, avail, avail_idx, status, used, dev_used, used_idx,
                     bdisk, seen, fetched, pc, req, head, moved, panic>>,
         irq' \in {0, 1}, handler' \in {"off", "ack", "loop"},
         used_idx # dev_used => irq' = 1 \/ handler' # "off"
  PROVE  DiskBase'
<1>1. TypeOK /\ panic = "none" /\ ReqInv /\ ChainInv /\ QueueInv /\ DoneInv /\ SleepInv
  BY DEF DiskBase
<1>2. TypeOK'
  BY ZenonT(40), <1>1 DEF TypeOK
<1>3. Live' = Live
  BY LiveStays
<1>4. Pending' = Pending
  BY <1>3, PendingStays
<1>5. ReqInv'
  <2>1. \A q \in Proc : pc'[q] = "waiting" => bdisk'[req[q].b] = 1
    BY <1>1 DEF ReqInv
  <2>2. QED BY <1>1, <1>3, <2>1, ReqStays
<1>6. ChainInv' /\ Free' = Free
  BY <1>1, <1>3, ChainStays
<1>7. QueueInv'
  BY <1>1, <1>4, QueueStays
<1>8. DoneInv'
  BY <1>1, <1>3, DoneStays
<1>9. SleepInv'
  BY <1>1, <1>6 DEF SleepInv
<1>10. QED BY <1>1, <1>2, <1>5, <1>6, <1>7, <1>8, <1>9 DEF DiskBase

\* The interrupt is taken.
LEMMA InterruptKeeps ==
  ASSUME DiskBase, Interrupt
  PROVE  DiskBase'
<1>1. TypeOK
  BY DEF DiskBase
<1>2. /\ irq' = irq /\ irq \in {0, 1} /\ handler' = "ack"
      /\ UNCHANGED <<free, next, ops, info, avail, avail_idx, status, used, dev_used, used_idx,
                     bdisk, seen, fetched, pc, req, head, moved, panic>>
  BY <1>1 DEF TypeOK, Interrupt, Then, driver, device
<1>3. QED BY <1>2, OnlyHandlerMoves

\* The handler acknowledges: what the device adds from here on raises the
\* interrupt again.
LEMMA AckKeeps ==
  ASSUME DiskBase, Ack
  PROVE  DiskBase'
<1>1. /\ irq' = 0 /\ handler' = "loop"
      /\ UNCHANGED <<free, next, ops, info, avail, avail_idx, status, used, dev_used, used_idx,
                     bdisk, seen, fetched, pc, req, head, moved, panic>>
  BY DEF Ack, Then, driver, device
<1>2. QED BY <1>1, OnlyHandlerMoves

\* The handler leaves with the used ring empty.
LEMMA LeaveKeeps ==
  ASSUME DiskBase, Leave
  PROVE  DiskBase'
<1>1. TypeOK
  BY DEF DiskBase
<1>2. /\ irq' = irq /\ irq \in {0, 1} /\ handler' = "off" /\ used_idx = dev_used
      /\ UNCHANGED <<free, next, ops, info, avail, avail_idx, status, used, dev_used, used_idx,
                     bdisk, seen, fetched, pc, req, head, moved, panic>>
  BY <1>1 DEF TypeOK, Leave, Then, driver, device
<1>3. QED BY <1>2, OnlyHandlerMoves

\* The handler completes a request: the status is 0, so it does not panic,
\* and b->disk is cleared for a block whose transfer was made.
LEMMA CollectKeeps ==
  ASSUME DiskBase, Collect
  PROVE  DiskBase'
<1>1. TypeOK /\ panic = "none" /\ ReqInv /\ ChainInv /\ QueueInv /\ DoneInv /\ SleepInv
  BY DEF DiskBase
<1> DEFINE id == UsedAt(0)
<1>2. /\ handler = "loop" /\ used_idx # dev_used
      /\ UNCHANGED <<free, next, ops, info, avail, avail_idx, status, used, dev_used, irq, handler,
                     seen, fetched, req, head, moved>>
  BY DEF Collect, driver, device
<1>3. Useds \in Nat /\ 0 \in 0 .. Useds - 1
  <2>1. Useds \in Nat /\ Useds # 0
    BY <1>1, <1>2, Counters
  <2>2. QED BY <2>1
<1>4. id = used[used_idx % RING] /\ status[id] = 0 /\ Transferred(ops[id])
  <2>1. used_idx + 0 = used_idx
    <3>1. used_idx \in 0 .. UINT16 - 1
      BY <1>1, Counters
    <3>2. QED BY <3>1
  <2>2. id = used[used_idx % RING]
    BY ZenonT(40), <2>1 DEF UsedAt
  <2>3. status[id] = 0 /\ Transferred(ops[id])
    BY <1>1, <1>3 DEF DoneInv
  <2>4. QED BY <2>2, <2>3
<1>5. /\ bdisk' = [bdisk EXCEPT ![info[id]] = 0]
      /\ pc' = [p \in Proc |-> IF pc[p] = "waiting" /\ req[p].b = info[id] THEN "woken" ELSE pc[p]]
      /\ used_idx' = Bump(used_idx) /\ panic' = panic
  <2> HIDE DEF id
  <2>1. QED BY <1>4 DEF Collect, UsedEntry, ClearDisk, WakeWaiter
<1> HIDE DEF id
<1>6. PICK q \in Pending : head[q] = id
  BY <1>1, <1>3 DEF QueueInv, id
<1>7. q \in Live /\ q \in Proc /\ pc[q] # "out" /\ bdisk[req[q].b] = 1
  BY <1>6 DEF Pending, Live
<1>8. req[q] \in Request /\ req[q].b \in Block /\ info[id] = req[q].b /\ ops[id] = req[q]
  BY <1>1, <1>6, <1>7 DEF ReqInv, Request
<1>9. ASSUME NEW p \in Live
      PROVE  /\ p \in Proc /\ req[p].b \in Block
             /\ p # q => req[p].b # req[q].b /\ head[p] # id
  <2>1. p \in Proc /\ pc[p] # "out"
    BY DEF Live
  <2>2. req[p] \in Request /\ req[p].b \in Block
    BY <1>1, <2>1 DEF ReqInv, Request
  <2>3. p # q => req[p].b # req[q].b
    BY <1>1, <1>7, <2>1 DEF ReqInv
  <2>4. p # q => head[p] # id
    BY <1>1, <1>6, <1>7, HeadsApart
  <2>5. QED BY <2>1, <2>2, <2>3, <2>4
<1>10. bdisk \in [Block -> {0, 1}] /\ bdisk' = [bdisk EXCEPT ![req[q].b] = 0]
  BY <1>1, <1>5, <1>8 DEF TypeOK
<1>11. pc \in [Proc -> {"out", "alloc", "no_desc", "waiting", "woken"}]
  BY ZenonT(40), <1>1 DEF TypeOK
<1>12. /\ pc' \in [Proc -> {"out", "alloc", "no_desc", "waiting", "woken"}]
       /\ \A p \in Proc : pc'[p] = "out" <=> pc[p] = "out"
       /\ \A p \in Proc : pc'[p] \in {"waiting", "woken"} <=> pc[p] \in {"waiting", "woken"}
       /\ \A p \in Proc : pc'[p] = "waiting" => pc[p] = "waiting" /\ req[p].b # req[q].b
       /\ \A p \in Proc : pc'[p] = "no_desc" => pc[p] = "no_desc"
  BY <1>5, <1>8, <1>11
<1>13. Avails' = Avails /\ \A m : AvailAt(m)' = AvailAt(m)
  BY <1>2, AvailStays
<1>14. /\ Useds' = Useds - 1
       /\ \A m \in 0 .. Useds' - 1 : m + 1 \in 0 .. Useds - 1 /\ UsedAt(m)' = UsedAt(m + 1)
  BY <1>1, <1>2, <1>5, UsedTaken
<1>15. TypeOK'
  <2>1. used_idx \in 0 .. UINT16 - 1
    BY <1>1, Counters
  <2>2. used_idx' \in 0 .. UINT16 - 1
    BY <1>5, <2>1, BumpType
  <2>3. bdisk' \in [Block -> {0, 1}]
    BY <1>8, <1>10
  <2>4. ({avail_idx, dev_used, used_idx, seen} \subseteq 0 .. UINT16 - 1)'
    BY <1>1, <1>2, <2>2, Counters
  <2>5. (pc \in [Proc -> {"out", "alloc", "no_desc", "waiting", "woken"}])' /\ panic' = panic
    BY <1>5, <1>12
  <2>6. QED BY Zenon, <1>1, <1>2, <2>3, <2>4, <2>5 DEF TypeOK
<1>16. Live' = Live
  <2>1. \A p \in Proc : pc'[p] \in {"waiting", "woken"} <=> pc[p] \in {"waiting", "woken"}
    BY <1>12
  <2>2. QED BY <2>1, LiveStays
<1>17. Pending' = Pending \ {q}
  <2>1. \A p \in Live : bdisk'[req[p].b] = 1 <=> bdisk[req[p].b] = 1 /\ p # q
    BY <1>8, <1>9, <1>10
  <2>2. req' = req
    BY <1>2
  <2>3. QED BY <1>16, <2>1, <2>2 DEF Pending
<1>18. ReqInv'
  <2>1. \A p \in Proc : pc'[p] = "waiting" => bdisk[req[p].b] = 1 /\ p \in Live /\ req[p].b # req[q].b
    <3>1. \A p \in Proc : pc[p] = "waiting" => bdisk[req[p].b] = 1
      BY <1>1 DEF ReqInv
    <3>2. \A p \in Proc : pc[p] = "waiting" => p \in Live
      BY DEF Live
    <3>3. \A p \in Proc : pc'[p] = "waiting" => pc[p] = "waiting" /\ req[p].b # req[q].b
      BY <1>12
    <3>4. QED BY <3>1, <3>2, <3>3
  <2>2. \A p \in Proc : pc'[p] = "waiting" => bdisk'[req[p].b] = 1
    BY ZenonT(40), <1>9, <1>10, <2>1
  <2>3. \A p \in Proc : pc'[p] = "out" <=> pc[p] = "out"
    BY <1>12
  <2>4. req' = req /\ head' = head /\ ops' = ops /\ info' = info
    BY <1>2
  <2>5. QED BY <1>1, <1>16, <2>2, <2>3, <2>4, ReqStays
<1>19. ChainInv' /\ Free' = Free
  BY <1>1, <1>2, <1>16, ChainStays
<1>20. QueueInv'
  <2>1. \A p \in Pending : p \in Live /\ (head[p] # id => p \in Pending') /\ (p \in Pending' => head[p] # id)
    BY <1>6, <1>9, <1>17 DEF Pending
  <2>2. head' = head /\ fetched' = fetched
    BY <1>2
  <2>3. Avails' + Cardinality(fetched') + Useds' = Cardinality(Pending')
    <3>1. Cardinality(Pending') = Cardinality(Pending) - 1
      BY ZenonT(40), <1>1, <1>6, <1>17, SetsFinite, FS_RemoveElement
    <3>2. Avails + Cardinality(fetched) + Useds = Cardinality(Pending)
      BY <1>1 DEF QueueInv
    <3>3. Cardinality(fetched) \in Nat /\ Avails \in Nat
      BY <1>1, SetsFinite, Counters
    <3>4. QED BY <1>13, <1>14, <1>3, <2>2, <3>1, <3>2, <3>3
  <2>4. \A m \in 0 .. Avails' - 1 : \E p \in Pending' : head'[p] = AvailAt(m)'
    <3>1. \A m \in 0 .. Avails - 1 : AvailAt(m) # id
      BY <1>1, <1>3 DEF QueueInv, id
    <3>2. \A m \in 0 .. Avails - 1 : \E p \in Pending : head[p] = AvailAt(m)
      BY <1>1 DEF QueueInv
    <3>3. QED BY <1>13, <2>1, <2>2, <3>1, <3>2
  <2>5. \A d \in fetched' : \E p \in Pending' : head'[p] = d
    <3>1. id \notin fetched
      BY <1>1, <1>3 DEF QueueInv, id
    <3>2. \A d \in fetched : \E p \in Pending : head[p] = d
      BY <1>1 DEF QueueInv
    <3>3. QED BY <2>1, <2>2, <3>1, <3>2
  <2>6. \A m, k \in 0 .. Useds - 1 : UsedAt(m) = UsedAt(k) => m = k
    BY <1>1 DEF QueueInv
  <2>7. \A m \in 0 .. Useds' - 1 : UsedAt(m + 1) # id
    <3>1. \A m \in 0 .. Useds' - 1 : m + 1 # 0
      BY <1>14, <1>3
    <3>2. QED BY <1>14, <1>3, <2>6, <3>1 DEF id
  <2>8. \A m \in 0 .. Useds' - 1 : \E p \in Pending' : head'[p] = UsedAt(m)'
    <3>1. \A m \in 0 .. Useds - 1 : \E p \in Pending : head[p] = UsedAt(m)
      BY <1>1 DEF QueueInv
    <3>2. \A m \in 0 .. Useds' - 1 : \E p \in Pending : head[p] = UsedAt(m + 1)
      BY <1>14, <3>1
    <3>3. QED BY <1>14, <2>1, <2>2, <2>7, <3>2
  <2>9. \A m, k \in 0 .. Avails' - 1 : AvailAt(m)' = AvailAt(k)' => m = k
    BY <1>1, <1>13 DEF QueueInv
  <2>10. \A m, k \in 0 .. Useds' - 1 : UsedAt(m)' = UsedAt(k)' => m = k
    BY <1>14, <2>6
  <2>11. \A m \in 0 .. Avails' - 1 : AvailAt(m)' \notin fetched'
    BY <1>1, <1>13, <2>2 DEF QueueInv
  <2>12. \A m \in 0 .. Useds' - 1 : UsedAt(m)' \notin fetched'
    <3>1. \A m \in 0 .. Useds - 1 : UsedAt(m) \notin fetched
      BY <1>1 DEF QueueInv
    <3>2. QED BY <1>14, <2>2, <3>1
  <2>13. \A m \in 0 .. Avails' - 1, k \in 0 .. Useds' - 1 : AvailAt(m)' # UsedAt(k)'
    <3>1. \A m \in 0 .. Avails - 1, k \in 0 .. Useds - 1 : AvailAt(m) # UsedAt(k)
      BY <1>1 DEF QueueInv
    <3>2. QED BY <1>13, <1>14, <3>1
  <2>14. ASSUME NEW p \in Pending'
         PROVE  \/ head'[p] \in fetched'
                \/ \E m \in 0 .. Avails' - 1 : AvailAt(m)' = head'[p]
                \/ \E m \in 0 .. Useds' - 1 : UsedAt(m)' = head'[p]
    <3>1. p \in Pending /\ head[p] # id
      BY <1>17, <2>1
    <3>2. \/ head[p] \in fetched
          \/ \E m \in 0 .. Avails - 1 : AvailAt(m) = head[p]
          \/ \E m \in 0 .. Useds - 1 : UsedAt(m) = head[p]
      BY ZenonT(40), <1>1, <3>1 DEF QueueInv
    <3>3. ASSUME NEW m \in 0 .. Useds - 1, UsedAt(m) = head[p]
          PROVE  \E n \in 0 .. Useds' - 1 : UsedAt(n)' = head'[p]
      <4>1. m # 0
        BY <3>1, <3>3 DEF id
      <4>2. m - 1 \in 0 .. Useds' - 1 /\ (m - 1) + 1 = m
        BY <1>14, <1>3, <4>1
      <4>3. \E n \in 0 .. Useds' - 1 : n + 1 = m
        BY <4>2
      <4>4. QED BY <1>14, <2>2, <3>3, <4>3
    <3>4. QED BY <1>13, <2>2, <3>2, <3>3
  <2>15. QED BY Zenon, <2>3, <2>4, <2>5, <2>8, <2>9, <2>10, <2>11, <2>12, <2>13, <2>14 DEF QueueInv
<1>21. DoneInv'
  <2>1. status' = status /\ ops' = ops /\ moved' = moved /\ req' = req
    BY <1>2
  <2>2. \A m \in 0 .. Useds' - 1 : status'[UsedAt(m)'] = 0 /\ Transferred(ops[UsedAt(m)])'
    <3>1. \A m \in 0 .. Useds - 1 : status[UsedAt(m)] = 0 /\ Transferred(ops[UsedAt(m)])
      BY <1>1 DEF DoneInv
    <3>2. QED BY <1>14, <2>1, <3>1 DEF Transferred
  <2>3. ASSUME NEW p \in Live', bdisk'[req'[p].b] = 0
        PROVE  Transferred(req[p])'
    <3>1. p \in Live
      BY <1>16
    <3>2. CASE p = q
      BY ZenonT(40), <1>8, <1>4, <2>1, <3>2 DEF Transferred
    <3>3. CASE p # q
      <4>1. bdisk[req[p].b] = 0
        BY <1>9, <1>10, <2>1, <2>3, <3>1, <3>3
      <4>2. Transferred(req[p])
        BY <1>1, <3>1, <4>1 DEF DoneInv
      <4>3. QED BY ZenonT(40), <2>1, <4>2 DEF Transferred
    <3>4. QED BY <3>2, <3>3
  <2>4. QED BY <2>2, <2>3 DEF DoneInv
<1>22. SleepInv'
  <2>1. handler' # "off"
    BY <1>2
  <2>2. \A p \in Proc : pc'[p] = "no_desc" => Cardinality(Free') < 3
    <3>1. \A p \in Proc : pc[p] = "no_desc" => Cardinality(Free) < 3
      BY <1>1 DEF SleepInv
    <3>2. \A p \in Proc : pc'[p] = "no_desc" => pc[p] = "no_desc"
      BY <1>12
    <3>3. QED BY <1>19, <3>1, <3>2
  <2>3. QED BY <2>1, <2>2 DEF SleepInv
<1>23. QED BY <1>1, <1>5, <1>15, <1>18, <1>19, <1>20, <1>21, <1>22 DEF DiskBase

(***************************************************************************)
(* The theorems                                                            *)
(***************************************************************************)
\* virtio_disk_init() establishes the invariant.
LEMMA BaseInit == Init => DiskBase
<1> SUFFICES ASSUME Init PROVE DiskBase
  OBVIOUS
<1>1. TypeOK
  <2>1. 0 \in Desc /\ 0 \in 0 .. UINT16 - 1
    BY VirtioAssumption DEF Desc
  <2>2. QED BY <2>1 DEF Init, TypeOK
<1>2. Live = {} /\ Pending = {} /\ Free = Desc
  BY DEF Init, Live, Pending, Free
<1>3. Avails = 0 /\ Useds = 0 /\ fetched = {}
  BY <1>1, Counters DEF Init
<1>4. ReqInv
  BY <1>2 DEF Init, ReqInv
<1>5. ChainInv
  <2>1. Cardinality(Live) = 0 /\ Cardinality(Free) = NUM /\ NUM \in Nat
    BY <1>2, FS_EmptySet, DescFinite, Sizes
  <2>2. Cardinality(Free) + 3 * Cardinality(Live) = NUM
    BY <2>1
  <2>3. \A d \in Desc : free[d] # 0
    BY DEF Init
  <2>4. QED BY ZenonT(40), <1>2, <2>2, <2>3 DEF ChainInv
<1>6. QueueInv
  <2>1. Cardinality(Pending) = 0 /\ Cardinality(fetched) = 0
    BY <1>2, <1>3, FS_EmptySet
  <2>2. 0 .. 0 - 1 = {}
    OBVIOUS
  <2>3. Avails + Cardinality(fetched) + Useds = Cardinality(Pending)
    BY <1>3, <2>1
  <2>4. QED BY <1>2, <1>3, <2>2, <2>3 DEF QueueInv
<1>7. DoneInv
  <2>1. 0 .. 0 - 1 = {}
    OBVIOUS
  <2>2. QED BY <1>2, <1>3, <2>1 DEF DoneInv
<1>8. SleepInv
  BY DEF Init, SleepInv
<1>9. panic = "none"
  BY DEF Init
<1>10. QED BY <1>1, <1>4, <1>5, <1>6, <1>7, <1>8, <1>9 DEF DiskBase

\* A step of something else keeps it.
LEMMA BaseStutter == ASSUME DiskBase, UNCHANGED vars PROVE DiskBase'
<1>1. UNCHANGED <<free, next, ops, info, avail, avail_idx, status, used, dev_used, used_idx,
                  bdisk, seen, fetched, pc, req, head, moved, panic, irq, handler>>
  BY DEF vars
<1>2. irq \in {0, 1} /\ handler \in {"off", "ack", "loop"}
      /\ (used_idx # dev_used => irq = 1 \/ handler # "off")
  BY DEF DiskBase, TypeOK, SleepInv
<1>3. QED BY <1>1, <1>2, OnlyHandlerMoves

\* Every step keeps it.
LEMMA BaseNext == ASSUME DiskBase, Next PROVE DiskBase'
<1>1. ASSUME NEW p \in Proc, NEW b \in Block, NEW w \in {0, 1}, Call(p, b, w) PROVE DiskBase'
  BY <1>1, CallKeeps
<1>2. ASSUME NEW p \in Proc, Rw(p) PROVE DiskBase'
  BY <1>2, SubmitKeeps, NoDescriptorsKeeps, SleepAgainKeeps, ReturnKeeps DEF Rw
<1>3. ASSUME NEW p \in Proc, Kill(p) PROVE DiskBase'
  BY <1>3, KillKeeps
<1>4. CASE Fetch
  BY <1>4, FetchKeeps
<1>5. ASSUME NEW i \in Desc, Complete(i) PROVE DiskBase'
  BY <1>5, CompleteKeeps
<1>6. CASE Intr
  BY <1>6, InterruptKeeps, AckKeeps, CollectKeeps, LeaveKeeps DEF Intr
<1>7. QED BY <1>1, <1>2, <1>3, <1>4, <1>5, <1>6 DEF Next

\* The invariant holds in every reachable state.
LEMMA BaseHolds == Spec => []DiskBase
<1>1. DiskBase /\ [Next]_vars => DiskBase'
  BY BaseNext, BaseStutter
<1>2. QED BY BaseInit, <1>1, PTL DEF Spec

\* For any number of processes and descriptors, any ring that has an entry
\* for each possible request and any index width that the ring divides:
\* every descriptor is free or in the chain of exactly one request in
\* flight, and neither panic of free_desc() and virtio_disk_intr() is
\* reached, in whatever order the device completes.
THEOREM DescriptorsAreOwned == Spec => []DescriptorsOwned
<1>1. ASSUME DiskBase PROVE DescriptorsOwned
  <2>1. TypeOK /\ panic = "none" /\ ReqInv /\ ChainInv
    BY <1>1 DEF DiskBase
  <2>2. \A p \in Proc : p \in Live <=> head[p] # Nil
    BY <2>1, Names DEF ReqInv
  <2>3. \A d \in Desc : free[d] = 0 <=> \E p \in Proc : head[p] # Nil /\ d \in Chain(head[p])
    <3>1. \A d \in Desc : free[d] = 0 <=> \E p \in Live : d \in Chain(head[p])
      BY <2>1 DEF ChainInv
    <3>2. Live \subseteq Proc
      BY DEF Live
    <3>3. QED BY <2>2, <3>1, <3>2
  <2>4. \A p, q \in Proc : p # q /\ head[p] # Nil /\ head[q] # Nil
                             => Chain(head[p]) \cap Chain(head[q]) = {}
    BY <2>1, <2>2 DEF ChainInv
  <2>5. \A p \in Proc : head[p] # Nil => Cardinality(Chain(head[p])) = 3
    BY <2>1, <2>2, ChainIs
  <2>6. QED BY <2>1, <2>3, <2>4, <2>5 DEF DescriptorsOwned
<1>2. QED BY BaseHolds, <1>1, PTL

\* virtio_disk_rw() returns only after the device made the transfer of its
\* own buffer, in the right direction: the b->disk it reads is cleared by
\* the completion of this request and of no other.
THEOREM TransfersAreDone == Spec => []TransferDone
<1>1. ASSUME DiskBase PROVE TransferDone
  <2>1. DoneInv
    BY <1>1 DEF DiskBase
  <2>2. QED BY <2>1 DEF DoneInv, Transferred, TransferDone, Live
<1>2. QED BY BaseHolds, <1>1, PTL

\* The distance between two indexes, written without a negative number.
LEMMA WrapUp ==
  ASSUME NEW t \in 0 .. UINT16 - 1, NEW h \in 0 .. UINT16 - 1
  PROVE  (t - h + UINT16) % UINT16 = (t - h) % UINT16
<1>1. UINT16 \in Nat /\ UINT16 > 0
  BY Sizes
<1> DEFINE x == t - h
<1>2. x \in Int
  BY <1>1
<1> HIDE DEF x
<1>3. (x + UINT16) % UINT16 = x % UINT16
  BY Zenon, <1>1, <1>2, ModAround
<1>4. QED BY Zenon, <1>3 DEF x

\* No sleeper is forgotten: a process asleep for descriptors lacks them, one
\* asleep for its buffer is in the available ring, with the device or in the
\* used ring, and what is in the used ring is announced by an interrupt or
\* by the running handler.
THEOREM SleepersAreOwed == Spec => []SleepersOwed
<1>1. ASSUME DiskBase PROVE SleepersOwed
  <2>1. TypeOK /\ ReqInv /\ ChainInv /\ QueueInv /\ SleepInv
    BY <1>1 DEF DiskBase
  <2>2. UINT16 \in Nat /\ UINT16 > 0 /\ RING \in Nat
    BY Sizes
  <2>3. /\ avail_idx \in 0 .. UINT16 - 1 /\ seen \in 0 .. UINT16 - 1
        /\ dev_used \in 0 .. UINT16 - 1 /\ used_idx \in 0 .. UINT16 - 1
    BY <2>1, Counters
  <2>4. (avail_idx - seen + UINT16) % UINT16 = Avails
    BY Zenon, <2>3, WrapUp DEF Avails
  <2>5. (dev_used - used_idx + UINT16) % UINT16 = Useds
    BY Zenon, <2>3, WrapUp DEF Useds
  <2>6. /\ \A m \in 0 .. Avails - 1 : m \in 0 .. RING - 1 /\ m < Avails
        /\ \A m \in 0 .. Useds - 1 : m \in 0 .. RING - 1 /\ m < Useds
    <3> DEFINE l == Cardinality(Live)
               n == Cardinality(Pending)
               g == Cardinality(fetched)
    <3>1. Avails + g + Useds = n
      BY <2>1 DEF QueueInv
    <3>2. l <= RING
      BY <2>1, RingsFit
    <3>3. n <= l /\ n \in Nat /\ l \in Nat /\ g \in Nat
      BY <2>1, SetsFinite
    <3>4. Avails \in Nat /\ Useds \in Nat
      BY <2>1, Counters
    <3> HIDE DEF l, n, g
    <3>5. Avails <= RING /\ Useds <= RING
      BY <2>2, <3>1, <3>2, <3>3, <3>4
    <3>6. QED BY <2>2, <3>4, <3>5
  <2>7. ASSUME NEW p \in Proc, pc[p] = "waiting"
        PROVE  /\ bdisk[req[p].b] = 1
               /\ \/ head[p] \in fetched
                  \/ \E n \in 0 .. RING - 1 : \/ n < Avails /\ AvailAt(n) = head[p]
                                              \/ n < Useds /\ UsedAt(n) = head[p]
    <3>1. bdisk[req[p].b] = 1
      BY <2>1, <2>7 DEF ReqInv
    <3>2. p \in Pending
      BY <2>7, <3>1 DEF Pending, Live
    <3>3. \/ head[p] \in fetched
          \/ \E m \in 0 .. Avails - 1 : AvailAt(m) = head[p]
          \/ \E m \in 0 .. Useds - 1 : UsedAt(m) = head[p]
      BY <2>1, <3>2 DEF QueueInv
    <3>4. QED BY <2>6, <3>1, <3>3
  <2>8. /\ used_idx # dev_used => irq = 1 \/ handler # "off"
        /\ \A p \in Proc : pc[p] = "no_desc" => Cardinality(Free) < 3
    BY <2>1 DEF SleepInv
  <2>9. QED BY Zenon, <2>4, <2>5, <2>7, <2>8 DEF SleepersOwed, AvailAt, UsedAt
<1>2. QED BY BaseHolds, <1>1, PTL
=============================================================================

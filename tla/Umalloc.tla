------------------------------ MODULE Umalloc -------------------------------
(***************************************************************************)
(* malloc() and free() of user/umalloc.c, one turn of a loop at a time.    *)
(*                                                                         *)
(* Addresses count units of sizeof(Header); base lies below the heap, at   *)
(* 0.  A header's fields are kept for the blocks that are free or in use   *)
(* and are 0 elsewhere.  The program that allocates may move the break     *)
(* itself with sbrk(), so the heap has gaps.                               *)
(***************************************************************************)
EXTENDS Integers, FiniteSets

CONSTANTS
  HEADER,   \* sizeof(Header), in bytes
  MINCORE,  \* the units morecore() asks for at least, 4096
  LIMIT,    \* the unit at which sbrk() fails
  Bytes     \* the sizes the program asks for

VARIABLES
  ptr, size,          \* s.ptr and s.size of the header at each address
  freep,              \* Null before the first call
  brk,                \* the break: the first unit beyond the heap
  used,               \* the blocks malloc() returned and free() did not get, with their bytes
  heap,               \* history: the units morecore() got
  pc, p, prevp, bp,   \* the call under way and its variables
  nbytes, nunits      \* malloc()'s argument, and its units with the header

vars == <<ptr, size, freep, brk, used, heap, pc, p, prevp, bp, nbytes, nunits>>
call == <<p, prevp, bp, nbytes, nunits>>

base == 0
Null == -1
Addr == 0 .. LIMIT - 1

UmallocAssumption ==
  /\ HEADER \in Nat \ {0} /\ MINCORE \in Nat \ {0} /\ LIMIT \in Nat \ {0}
  /\ Bytes \subseteq Nat

Idle == p' = Null /\ prevp' = Null /\ bp' = Null /\ nbytes' = 0 /\ nunits' = 0

Init ==
  /\ ptr = [a \in Addr |-> 0] /\ size = [a \in Addr |-> 0]
  /\ freep = Null /\ brk = 1
  /\ used = {} /\ heap = {}
  /\ pc = "idle" /\ p = Null /\ prevp = Null /\ bp = Null /\ nbytes = 0 /\ nunits = 0

(***************************************************************************)
(* free()                                                                  *)
(***************************************************************************)
\* The block goes between p and p->s.ptr, or is below or above all others.
Here == \/ bp > p /\ bp < ptr[p]
        \/ p >= ptr[p] /\ (bp > p \/ bp < ptr[p])

\* The header fields once bp is linked in, joined to the block above and to
\* the block below if they touch.
MutJoinAbove ==
  LET up == ptr[p]
  IN  IF bp + size[bp] = up
      THEN [ptr |-> [ptr EXCEPT ![bp] = ptr[up], ![p] = bp, ![up] = 0],
            size |-> [size EXCEPT ![bp] = @ + size[up], ![up] = 0]]
      ELSE [ptr |-> [ptr EXCEPT ![bp] = up, ![p] = bp], size |-> size]
Linked ==
  LET up == ptr[p]
      above == IF bp + size[bp] = up
               THEN [ptr |-> ptr[up], size |-> size[bp] + size[up], gone |-> {up}]
               ELSE [ptr |-> up, size |-> size[bp], gone |-> {}]
      below == p + size[p] = bp
      gone == above.gone \cup (IF below THEN {bp} ELSE {})
      fields == [ptr |-> [ptr EXCEPT ![bp] = above.ptr, ![p] = IF below THEN above.ptr ELSE bp],
                 size |-> [size EXCEPT ![bp] = above.size, ![p] = IF below THEN @ + above.size ELSE @]]
  IN  [f \in {"ptr", "size"} |-> [a \in Addr |-> IF a \in gone THEN 0 ELSE fields[f][a]]]

Free(a) ==
  /\ pc = "idle" /\ a \in used
  /\ pc' = "free" /\ bp' = a.addr /\ p' = freep
  /\ used' = used \ {a}
  /\ UNCHANGED <<ptr, size, freep, brk, heap, prevp, nbytes, nunits>>

\* morecore() returns freep, and malloc()'s loop goes on behind it.
FreeLoop ==
  /\ pc \in {"free", "more"}
  /\ IF ~Here THEN p' = ptr[p] /\ UNCHANGED <<ptr, size, freep, pc, prevp, bp, nbytes, nunits>>
     ELSE /\ ptr' = Linked.ptr /\ size' = Linked.size /\ freep' = p
          /\ IF pc = "free" THEN pc' = "idle" /\ Idle
             ELSE /\ pc' = "search" /\ prevp' = p /\ p' = ptr'[p] /\ bp' = Null
                  /\ UNCHANGED <<nbytes, nunits>>
  /\ UNCHANGED <<brk, used, heap>>

(***************************************************************************)
(* malloc()                                                                *)
(***************************************************************************)
Units(n) == ((n + HEADER - 1) \div HEADER) + 1

Malloc(n) ==
  /\ pc = "idle"
  /\ pc' = "search" /\ nbytes' = n /\ nunits' = Units(n)
  /\ freep' = IF freep = Null THEN base ELSE freep
  /\ prevp' = freep' /\ p' = ptr[freep']
  /\ UNCHANGED <<ptr, size, brk, used, heap, bp>>

\* The block at p is taken whole, or its tail is.
Allocate ==
  /\ LET exact == size[p] = nunits
         a == IF exact THEN p ELSE p + size[p] - nunits
     IN  /\ ptr' = IF exact THEN [ptr EXCEPT ![prevp] = ptr[p], ![p] = 0] ELSE ptr
         /\ size' = [size EXCEPT ![p] = @ - nunits, ![a] = nunits]
         /\ used' = used \cup {[addr |-> a, bytes |-> nbytes]}
  /\ freep' = prevp
  /\ pc' = "idle" /\ Idle
  /\ UNCHANGED <<brk, heap>>

\* sbrk() gives the new block to free(), or malloc() returns 0.
Morecore ==
  LET nu == IF nunits < MINCORE THEN MINCORE ELSE nunits
  IN  IF brk + nu > LIMIT
      THEN pc' = "idle" /\ Idle /\ UNCHANGED <<ptr, size, freep, brk, used, heap>>
      ELSE /\ brk' = brk + nu /\ heap' = heap \cup (brk .. brk + nu - 1)
           /\ size' = [size EXCEPT ![brk] = nu]
           /\ bp' = brk /\ p' = freep /\ pc' = "more"
           /\ UNCHANGED <<ptr, freep, used, prevp, nbytes, nunits>>

Search ==
  /\ pc = "search"
  /\ IF size[p] >= nunits THEN Allocate
     ELSE IF p # freep
          THEN prevp' = p /\ p' = ptr[p]
                 /\ UNCHANGED <<ptr, size, freep, brk, used, heap, pc, bp, nbytes, nunits>>
          ELSE Morecore

\* The program moves the break itself.
Sbrk ==
  /\ pc = "idle" /\ brk < LIMIT /\ brk' = brk + 1
  /\ UNCHANGED <<ptr, size, freep, used, heap, pc, call>>

Step == Search \/ FreeLoop

Next == Step \/ Sbrk \/ (\E n \in Bytes : Malloc(n)) \/ (\E a \in used : Free(a))

Spec == Init /\ [][Next]_vars

(***************************************************************************)
(* Properties                                                              *)
(***************************************************************************)
InUse == {u.addr : u \in used} \cup (IF pc \in {"free", "more"} THEN {bp} ELSE {})
Headers == {a \in Addr : size[a] > 0}
Listed == {base} \cup (Headers \ InUse)
Whole(a) == a .. a + size[a] - 1

\* Between any two turns of the loops: the free list is one ring in address
\* order, free blocks never touch (free() joined them), and the units got from
\* sbrk() are exactly the free blocks, the blocks in use and the one being
\* freed, none of them twice; a block in use has room for what was asked.
HeapInv ==
  /\ \A a \in Listed : IF \E b \in Listed : b > a
                       THEN ptr[a] \in Listed /\ \A b \in Listed : b > a => a < ptr[a] /\ ptr[a] <= b
                       ELSE ptr[a] = base
  /\ freep # Null => freep \in Listed
  /\ \A a \in Listed \ {base} : a + size[a] \notin Listed
  /\ \A a, b \in Headers : a < b => a + size[a] <= b
  /\ InUse \subseteq Headers
  /\ UNION {Whole(a) : a \in Headers} = heap
  /\ \A u \in used : (size[u.addr] - 1) * HEADER >= u.bytes
=============================================================================

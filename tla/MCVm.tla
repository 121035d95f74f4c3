-------------------------------- MODULE MCVm --------------------------------
(***************************************************************************)
(* Instance for TLC of the pages of processes, and of the allocator of     *)
(* user/ that divides what sbrk() gives it.  The allocator knows only that *)
(* sbrk() returns the old break or fails, so a behaviour is one of either. *)
(***************************************************************************)
EXTENDS Vm

CONSTANTS HEADER, MINCORE, LIMIT, Bytes
VARIABLES part, ptr, size, freep, brk, used, heap, pc, mp, prevp, bp, nbytes, nunits

M == INSTANCE Umalloc WITH p <- mp
malloc == <<ptr, size, freep, brk, used, heap, pc, mp, prevp, bp, nbytes, nunits>>

ASSUME M!UmallocAssumption

MCInit == part \in {"vm", "malloc"} /\ Init /\ M!Init

MCNext ==
  /\ UNCHANGED part
  /\ \/ part = "vm" /\ Next /\ UNCHANGED malloc
     \/ part = "malloc" /\ M!Next /\ UNCHANGED vars

MCSpec == MCInit /\ [][MCNext]_<<part, vars, malloc>>

\* Text, and text that is loaded into one of two pages allocated for it.
OneSegment == <<[va |-> 0, file |-> 1, end |-> 2, w |-> 0]>>
TwoSegments == <<[va |-> 0, file |-> 1, end |-> 2, w |-> 0], [va |-> 1, file |-> 0, end |-> 3, w |-> 1]>>
Programs == {OneSegment, TwoSegments}
\* Which page is used for what makes no difference, so long as each has one
\* use.
Shape(t) ==
  [nodes |-> {n \in Node : t.node[n] # 0},
   pte |-> [v \in VPage |-> [t.pte[v] EXCEPT !.pa = IF @ = 0 THEN "none" ELSE data[@]]]]

View == <<Cardinality(free), state, [p \in Proc |-> Shape(pagetable[p])],
          [p \in Proc |-> Shape(new[p])], sz, op, mem, panic, PagesOwnedOnce, part, malloc>>

\* The free list is one ring in address order of blocks that do not touch, and
\* free blocks and blocks in use are exactly what sbrk() gave.
HeapInv == M!HeapInv
=============================================================================

------------------------------- MODULE MCFiles -------------------------------
(***************************************************************************)
(* Instance of FileData for TLC.                                           *)
(***************************************************************************)
EXTENDS FileData, TLC

ASSUME FileDataAssumption

Symmetry == Permutations(Proc) \cup Permutations(Inum) \cup Permutations(FileNo)

\* Which blocks a file has, and what free blocks hold, makes no difference so
\* long as every block has one owner; of what an operation has logged, only how
\* much, and whether the indirect block is in it.
Shape(i) ==
  LET f == ip[i]
      x == f.addrs[NDIRECT]
  IN  <<f.type, f.nlink, f.size,
        [a \in 0 .. NDIRECT - 1 |-> IF f.addrs[a] = 0 THEN Zero ELSE blk[f.addrs[a]]],
        [k \in 0 .. NINDIRECT - 1 |->
           IF x = 0 \/ blk[x][k] \notin Block THEN Zero ELSE blk[blk[x][k]]],
        {a \in 0 .. NDIRECT : f.addrs[a] # 0},
        IF x = 0 THEN {} ELSE {k \in 0 .. NINDIRECT - 1 : blk[x][k] # 0},
        {p \in Proc : x \in logged[p]},
        f = dip[i]>>

View == <<[i \in Inum |-> Shape(i)], lock, file, pc, io,
          [p \in Proc |-> Cardinality(logged[p])], panic, BlocksOwnedOnce>>
=============================================================================

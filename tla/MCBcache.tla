------------------------------ MODULE MCBcache ------------------------------
EXTENDS Bcache, TLC

Symmetry == Permutations(Proc) \cup Permutations(Block)
=============================================================================

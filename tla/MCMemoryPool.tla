---------------------------- MODULE MCMemoryPool ----------------------------
(* Pools of two and four bytes; sizes that a pool has exactly, one that a  *)
(* larger pool serves, and one that none does.                             *)
EXTENDS MemoryPool, TLC

CONSTANTS t1, t2, b1, b2, b3

MCThreads == {t1, t2}
MCBlocks == {b1, b2, b3}
MCPools == {2, 4}
MCAsked == {2, 3, 4, 5}

Symmetry == Permutations(MCThreads) \cup Permutations(MCBlocks)
==============================================================================

-------------------------- MODULE MCSendBufferPool --------------------------
(* Two threads, chunks of three bytes, and more chunks than threads and     *)
(* live buffers can refer to, so that a new one can always be made.        *)
EXTENDS SendBufferPool, TLC

CONSTANTS t1, t2, c1, c2, c3, c4, c5

MCThreads == {t1, t2}
MCChunks == {c1, c2, c3, c4, c5}
MCSizes == {1, 3}

Symmetry == Permutations(MCThreads) \cup Permutations(MCChunks)
==============================================================================

----------------------------- MODULE MCRecvPath -----------------------------
(* A small RecvPath: packets of 2 to 4 bytes with a header of 2, reads of  *)
(* any length, a buffer of 3 * 4 cells and a stream that outgrows it.      *)
EXTENDS RecvPath

MCPacketSizes == {2, 3, 4}
==============================================================================

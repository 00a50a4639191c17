--------------------------- MODULE MCFileTransfer ---------------------------
(* Sizes around the chunk size of 2: nothing, less than one chunk, exactly *)
(* one, exactly two, and two and a half.                                   *)
EXTENDS FileTransfer

CONSTANTS empty, short, exact, double, long

MCFiles == {empty, short, exact, double, long}

MCSizes == (empty :> 0) @@ (short :> 1) @@ (exact :> 2) @@ (double :> 4) @@ (long :> 5)
==============================================================================

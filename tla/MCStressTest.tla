---------------------------- MODULE MCStressTest ----------------------------
(* Message counts for the run: a test of several messages, so that waits   *)
(* and echoes interleave, and the empty one, which a user may type.        *)
EXTENDS StressTest

MCCounts == {0, 1, 2}
==============================================================================

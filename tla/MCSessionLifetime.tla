-------------------------- MODULE MCSessionLifetime --------------------------
(* Three threads, one for each operation of the session, and two file      *)
(* transfers at once.                                                      *)
EXTENDS SessionLifetime

CONSTANTS i1, i2, i3

MCThreads == {i1, i2, i3}
==============================================================================

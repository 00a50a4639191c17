------------------------------ MODULE MCService ------------------------------
(* Small instances of Service: up to four sessions, places for two.        *)
EXTENDS Service

CONSTANTS s1, s2, s3, s4

MCSessions == {s1, s2, s3, s4}
MCThreeSessions == {s1, s2, s3}
==============================================================================

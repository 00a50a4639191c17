---------------------------- MODULE MCSessionSend ----------------------------
(* Small instances of SessionSend.                                          *)
EXTENDS SessionSend, TLC

CONSTANTS t1, t2, t3, b1, b2, b3

MCThreads == {t1, t2, t3}
MCTwoThreads == {t1, t2}
MCBuffers == {b1, b2, b3}

(* Two bytes per buffer, so that a write can stop inside one; b3 is empty. *)
MCSize == b1 :> 2 @@ b2 :> 2 @@ b3 :> 0
==============================================================================

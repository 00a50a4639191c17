---------------------------- MODULE FileDelivery ----------------------------
(***************************************************************************)
(* What the server makes of a file a client sends: it holds the file's     *)
(* first bytes at their places and zeros behind them, grows by whole       *)
(* chunks, and is reported once, in the step that makes it whole.  The     *)
(* promise ends (is void) when the client starts another transfer or a     *)
(* disk of either side fails.                                              *)
(***************************************************************************)
EXTENDS Naturals

CONSTANTS Files, FileSize, ChunkSize, NoFile, Zero

VARIABLES
  target,   (* the file being received                                      *)
  content,  (* its bytes on the server's disk, by offset                    *)
  told,     (* it was reported as completed                                 *)
  void      (* nothing is promised any more                                 *)

deliveryVars == <<target, content, told, void>>

Init == target = NoFile /\ content = <<>> /\ told = FALSE /\ void = FALSE

(* The first n bytes of f, in a file of its size.                          *)
FirstBytes(f, n) == [o \in 0 .. FileSize[f] - 1 |-> IF o < n THEN <<f, o>> ELSE Zero]

Begin(f) ==
  /\ target = NoFile /\ FileSize[f] > 0
  /\ target' = f /\ content' = FirstBytes(f, 0)
  /\ UNCHANGED <<told, void>>

Grow ==
  /\ target # NoFile /\ ~told
  /\ \E k \in 0 .. FileSize[target] :
       /\ content = FirstBytes(target, k * ChunkSize)
       /\ content' = FirstBytes(target, (k + 1) * ChunkSize)
       /\ told' = ((k + 1) * ChunkSize >= FileSize[target])
  /\ UNCHANGED <<target, void>>

GiveUp == void' = TRUE /\ target' = NoFile /\ content' = <<>> /\ told' = FALSE

Next == ~void /\ (Grow \/ GiveUp \/ \E f \in Files : Begin(f))

Spec == Init /\ [][Next]_deliveryVars
==============================================================================

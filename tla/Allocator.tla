----------------------------- MODULE Allocator -----------------------------
(***************************************************************************)
(* What ObjectPool relies on: the memory a thread is given has room for    *)
(* the size the thread asked for, is nobody else's, and keeps its room     *)
(* until it is given back.                                                 *)
(***************************************************************************)
EXTENDS Naturals

CONSTANTS
  Threads,
  Blocks,  (* the addresses memory can have                                 *)
  Asked    (* the sizes that are asked for                                  *)

VARIABLES
  wanted,  (* per thread: the size it asked for, 0 if it did not            *)
  room     (* the blocks that are given out, and the bytes each has         *)

allocatorVars == <<wanted, room>>

Init == wanted = [t \in Threads |-> 0] /\ room = [b \in {} |-> 0]

Ask(t, size) ==
  /\ wanted[t] = 0
  /\ wanted' = [wanted EXCEPT ![t] = size]
  /\ UNCHANGED room

Give(t, b) ==
  /\ wanted[t] # 0
  /\ b \notin DOMAIN room
  /\ DOMAIN room' = DOMAIN room \cup {b}
  /\ room'[b] >= wanted[t]
  /\ \A c \in DOMAIN room : room'[c] = room[c]
  /\ wanted' = [wanted EXCEPT ![t] = 0]

TakeBack(b) ==
  /\ b \in DOMAIN room
  /\ room' = [c \in DOMAIN room \ {b} |-> room[c]]
  /\ UNCHANGED wanted

Next ==
  \/ \E t \in Threads : (\E size \in Asked : Ask(t, size)) \/ (\E b \in Blocks : Give(t, b))
  \/ \E b \in Blocks : TakeBack(b)

Spec == Init /\ [][Next]_allocatorVars
==============================================================================

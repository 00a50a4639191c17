---------------------------- MODULE PacketStream ----------------------------
(***************************************************************************)
(* What a PacketSession promises to OnRecvPacket: the peer's stream is a   *)
(* sequence of packets, and the handler is called once for each, in order, *)
(* with exactly the packet's bytes.  A byte is its offset in the stream.   *)
(***************************************************************************)
EXTENDS Naturals

CONSTANT PacketSizes   (* the sizes a packet header may announce *)

VARIABLES
  sizeAt,     (* the size of the packet that starts at an offset      *)
  written,    (* bytes the peer has written                           *)
  delivered,  (* bytes of the packets OnRecvPacket was called for     *)
  packet      (* the bytes of the last of those packets               *)

streamVars == <<sizeAt, written, delivered, packet>>

(* The bytes of the packet of size s at offset o.                          *)
PacketBytes(o, s) == [k \in 0 .. s - 1 |-> o + k]

Init ==
  /\ sizeAt = <<>>
  /\ written = 0
  /\ delivered = 0
  /\ packet = <<>>

Write(s) ==
  /\ sizeAt' = [o \in DOMAIN sizeAt \cup {written} |->
                   IF o = written THEN s ELSE sizeAt[o]]
  /\ written' = written + s
  /\ UNCHANGED <<delivered, packet>>

Deliver ==
  /\ delivered < written
  /\ packet' = PacketBytes(delivered, sizeAt[delivered])
  /\ delivered' = delivered + sizeAt[delivered]
  /\ UNCHANGED <<sizeAt, written>>

Next == Deliver \/ \E s \in PacketSizes : Write(s)

Spec == Init /\ [][Next]_streamVars
==============================================================================

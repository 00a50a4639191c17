---------------------------- MODULE OrderedStream ----------------------------
(***************************************************************************)
(* What a connected Session promises to the code that calls Send: the      *)
(* bytes of the buffers it accepted reach the connection in the order in   *)
(* which they were accepted, none skipped and none repeated.  The stream   *)
(* may stop at any point (the connection is lost), but what was carried is *)
(* always a prefix of what was accepted.                                   *)
(***************************************************************************)
EXTENDS Naturals, Sequences, SequencesExt

CONSTANTS
  Buffers,   (* the buffers the program may hand to Send          *)
  Size       (* the number of bytes Close recorded for a buffer   *)

VARIABLES
  accepted,  (* the buffers accepted so far, oldest first         *)
  wire       (* the bytes the connection has carried              *)

streamVars == <<accepted, wire>>

(* The bytes of one buffer, and of a sequence of buffers. *)
BytesOf(b) == [k \in 1 .. Size[b] |-> <<b, k>>]

Bytes(bufs) == FlattenSeq([i \in DOMAIN bufs |-> BytesOf(bufs[i])])

Init ==
  /\ accepted = <<>>
  /\ wire = <<>>

Accept ==
  \E b \in Buffers :
    /\ accepted' = Append(accepted, b)
    /\ UNCHANGED wire

Carry ==
  LET due == Bytes(accepted)
  IN \E n \in Len(wire) + 1 .. Len(due) :
       /\ wire' = SubSeq(due, 1, n)
       /\ UNCHANGED accepted

Next == Accept \/ Carry

Spec == Init /\ [][Next]_streamVars
==============================================================================

--------------------------- MODULE RecvPathProofs ---------------------------
(***************************************************************************)
(* Proofs about the receive path, for every buffer size, every count of at *)
(* least three and every packet size up to the buffer size: the buffer     *)
(* always has room for a full read, memcpy never overlaps, and OnRecvPacket*)
(* sees the peer's packets one by one, whole and in order.                 *)
(***************************************************************************)
EXTENDS RecvPath, TLAPS

USE DEF Complete, RoomFor, Source

(* The buffer holds at least three reads.                                  *)
LEMMA CapacityBound ==
  /\ Capacity \in Nat
  /\ Capacity >= 3 * BufferSize
BY RecvAssumption DEF Capacity

(* The kinds of step.                                                      *)
LEMMA StepCases ==
  ASSUME Next
  PROVE  \/ \E s \in PacketSizes : PeerSend(s)
         \/ \E n \in 0 .. written - received : ReadSome(n)
         \/ ParseNext
         \/ FinishParse
         \/ RegisterRecv
         \/ ReadFails
         \/ Disconnect
BY DEF Next, Handler

(* The receive path starts with an empty buffer and stream.                *)
LEMMA InitRecvInv == Init => RecvInv
<1> SUFFICES ASSUME Init PROVE RecvInv
  OBVIOUS
<1>1. TypeOK
  BY RecvAssumption, CapacityBound DEF Init, TypeOK
<1>2. Framed /\ PartialPacket
  BY RecvAssumption DEF Init, Framed, PartialPacket
<1>3. KeptBytes
  BY RecvAssumption DEF Init, KeptBytes, Consumed, DataSize
<1>4. RoomToRead
  BY RecvAssumption, CapacityBound DEF Init, RoomToRead, FreeSize
<1> QED
  BY <1>1, <1>2, <1>3, <1>4 DEF RecvInv

(* A packet the peer writes extends the framed stream.                     *)
LEMMA PeerSendInv ==
  ASSUME RecvInv, NEW s \in PacketSizes, PeerSend(s)
  PROVE  RecvInv'
<1> USE DEF RecvInv, PeerSend, bufferVars
<1>0. s \in Nat \ {0} /\ s <= BufferSize
  BY RecvAssumption
<1>1. /\ DOMAIN sizeAt' = DOMAIN sizeAt \cup {written}
      /\ \A o \in DOMAIN sizeAt' :
           sizeAt'[o] = IF o = written THEN s ELSE sizeAt[o]
  OBVIOUS
<1>2. TypeOK'
  BY <1>0, <1>1 DEF TypeOK
<1>3. \A o \in DOMAIN sizeAt : o < written
  BY RecvAssumption DEF Framed, TypeOK
<1>4. Framed'
  BY <1>0, <1>1, <1>3 DEF Framed, TypeOK
<1>5. KeptBytes'
  BY <1>0 DEF KeptBytes, Consumed, DataSize, TypeOK
<1>6. PartialPacket'
  BY <1>0, <1>1 DEF PartialPacket, KeptBytes, Framed, TypeOK
<1>7. RoomToRead'
  BY DEF RoomToRead, FreeSize
<1> QED
  BY <1>2, <1>4, <1>5, <1>6, <1>7


(* A read appends the next bytes of the stream to the kept ones.           *)
LEMMA ReadSomeInv ==
  ASSUME RecvInv, NEW n \in 0 .. written - received, ReadSome(n)
  PROVE  RecvInv'
<1> USE DEF RecvInv, ReadSome, streamVars
<1>0. n \in Nat
  BY DEF TypeOK
<1>1. TypeOK'
  <2>1. buffer' \in [Cells -> Nat \cup {Unwritten}]
    BY <1>0 DEF TypeOK
  <2> QED
    BY <1>0, <2>1, CapacityBound DEF TypeOK, FreeSize
<1>2. Framed'
  BY DEF Framed
<1>3. KeptBytes'
  <2>1. Consumed = 0 /\ Consumed' = 0
    BY DEF Consumed
  <2>2. ASSUME NEW i \in readPos .. writePos' - 1 PROVE buffer'[i] = delivered + (i - readPos)
    <3>1. i \in Cells /\ i \in Nat /\ writePos' = writePos + n
      BY <1>0, CapacityBound DEF TypeOK, FreeSize, Cells
    <3>2. received = delivered + writePos - readPos
      BY <2>1 DEF KeptBytes, DataSize, TypeOK
    <3>3. CASE i \in writePos .. writePos + n - 1
      BY <3>1, <3>2, <3>3 DEF TypeOK
    <3>4. CASE i \in readPos .. writePos - 1
      <4>1. buffer'[i] = buffer[i]
        BY <1>0, <3>1, <3>4 DEF TypeOK
      <4> QED
        BY <2>1, <3>4, <4>1 DEF KeptBytes, TypeOK
    <3> QED
      BY <1>0, <3>1, <3>3, <3>4 DEF TypeOK
  <2> QED
    BY <1>0, <2>1, <2>2 DEF KeptBytes, DataSize, TypeOK
<1>4. PartialPacket' /\ RoomToRead'
  BY DEF PartialPacket, RoomToRead
<1> QED
  BY <1>1, <1>2, <1>3, <1>4

(* What the framing loop finds in the buffer.                              *)
LEMMA WholePacket ==
  ASSUME RecvInv, pc = "parse", DataSize - processLen >= HeaderSize
  PROVE  /\ delivered \in DOMAIN sizeAt
         /\ HeaderAt(readPos + processLen) = sizeAt[delivered]
         /\ sizeAt[delivered] \in Nat \ {0}
         /\ sizeAt[delivered] <= BufferSize
<1> USE DEF RecvInv, TypeOK
<1>1. delivered < received /\ received <= written
  BY RecvAssumption DEF KeptBytes, Consumed, DataSize
<1>2. delivered \in DOMAIN sizeAt
  BY <1>1 DEF Framed
<1>3. buffer[readPos + processLen] = delivered
  BY RecvAssumption DEF KeptBytes, Consumed, DataSize
<1> QED
  BY <1>2, <1>3, RecvAssumption DEF HeaderAt

(* One turn of the framing loop keeps the remaining bytes in place.        *)
LEMMA ParseNextInv ==
  ASSUME RecvInv, ParseNext
  PROVE  RecvInv'
<1> USE DEF RecvInv, bufferVars
<1> DEFINE here == readPos + processLen
           left == DataSize - processLen
           whole == left >= HeaderSize /\ Complete(left, HeaderAt(here))
<1>1. CASE whole
  <2>1. /\ delivered \in DOMAIN sizeAt
        /\ HeaderAt(here) = sizeAt[delivered]
        /\ sizeAt[delivered] \in Nat \ {0}
    BY <1>1, WholePacket DEF ParseNext
  <2>2. /\ delivered' = delivered + sizeAt[delivered]
        /\ processLen' = processLen + sizeAt[delivered]
        /\ pc = "parse" /\ pc' = "parse"
        /\ UNCHANGED <<connected, readPos, writePos, buffer, received, sizeAt, written>>
    BY <1>1, <2>1 DEF ParseNext
  <2>3. TypeOK'
    BY <2>1, <2>2 DEF TypeOK
  <2>4. Framed'
    BY <2>1, <2>2 DEF Framed
  <2>5. KeptBytes'
    BY <1>1, <2>1, <2>2 DEF KeptBytes, Consumed, DataSize, TypeOK
  <2>6. PartialPacket' /\ RoomToRead'
    BY <2>2 DEF PartialPacket, RoomToRead
  <2> QED
    BY <2>3, <2>4, <2>5, <2>6
<1>2. CASE ~whole
  <2>1. /\ pc = "parse" /\ pc' = "finish"
        /\ UNCHANGED <<connected, readPos, writePos, buffer, received, sizeAt, written,
                       delivered, processLen, packet>>
    BY <1>2 DEF ParseNext
  <2>2. TypeOK' /\ Framed' /\ RoomToRead'
    BY <2>1 DEF TypeOK, Framed, RoomToRead
  <2>3. KeptBytes'
    BY <2>1 DEF KeptBytes, Consumed, DataSize
  <2>4. received - delivered = left /\ left \in Nat
    BY <2>1 DEF KeptBytes, Consumed, DataSize, TypeOK
  <2>5. PartialPacket'
    <3>1. CASE left >= HeaderSize
      <4>1. /\ delivered \in DOMAIN sizeAt
            /\ HeaderAt(here) = sizeAt[delivered]
            /\ sizeAt[delivered] \in Nat /\ sizeAt[delivered] <= BufferSize
        BY <2>1, <3>1, WholePacket
      <4>2. left < sizeAt[delivered]
        BY <1>2, <2>4, <3>1, <4>1
      <4> QED
        BY <2>1, <2>4, <4>1, <4>2, RecvAssumption DEF PartialPacket
    <3>2. CASE left < HeaderSize
      BY <2>1, <2>4, <3>2, RecvAssumption DEF PartialPacket, TypeOK
    <3> QED
      BY <2>4, <3>1, <3>2, RecvAssumption
  <2> QED
    BY <2>2, <2>3, <2>5
<1> QED
  BY <1>1, <1>2

(* Arithmetic: a range moved to the front keeps its distances.             *)
LEMMA ShiftToZero ==
  \A r, d, w \in Nat : w = r + d =>
    \A i \in r .. w - 1 : i - r \in 0 .. d - 1 /\ r + (i - r) = i
OBVIOUS

(* Clean keeps the bytes it is given, in order, wherever it puts them.     *)
LEMMA CleanKeeps ==
  ASSUME NEW from \in Nat, NEW to \in Nat, from <= to, to <= Capacity,
         buffer \in [Cells -> Nat \cup {Unwritten}], Clean(from, to)
  PROVE  /\ buffer' \in [Cells -> Nat \cup {Unwritten}]
         /\ readPos' \in Nat
         /\ writePos' = readPos' + (to - from)
         /\ writePos' <= to
         /\ writePos' = to - from \/ Capacity - to >= BufferSize
         /\ \A k \in 0 .. to - from - 1 : buffer'[readPos' + k] = buffer[from + k]
<1> DEFINE data == to - from
<1>0. Capacity \in Nat /\ BufferSize \in Nat /\ data \in Nat
  BY CapacityBound, RecvAssumption
<1>1. CASE data = 0
  <2>1. readPos' = 0 /\ writePos' = 0 /\ ~MustMove(from, to)
    BY <1>1 DEF Clean, MustMove
  <2>2. buffer' = buffer
    BY <2>1 DEF Clean
  <2> QED
    BY <1>0, <1>1, <2>1, <2>2
<1>2. CASE data # 0 /\ MustMove(from, to)
  <2>1. readPos' = 0 /\ writePos' = data
    BY <1>2 DEF Clean
  <2>2. buffer' = [i \in Cells |-> IF i < data THEN buffer[from + i] ELSE buffer[i]]
    BY <1>2 DEF Clean
  <2>3. ASSUME NEW i \in Cells, i < data PROVE from + i \in Cells
    BY <1>0, <2>3 DEF Cells
  <2>4. buffer' \in [Cells -> Nat \cup {Unwritten}]
    BY <2>2, <2>3
  <2>5. ASSUME NEW k \in 0 .. data - 1 PROVE k \in Cells /\ k < data /\ 0 + k = k
    BY <1>0, <2>5 DEF Cells
  <2> QED
    BY <1>0, <2>1, <2>2, <2>4, <2>5
<1>3. CASE data # 0 /\ ~MustMove(from, to)
  <2>1. readPos' = from /\ writePos' = to /\ Capacity - to >= BufferSize
    BY <1>0, <1>3 DEF Clean, MustMove
  <2>2. buffer' = buffer
    BY <1>3 DEF Clean
  <2> QED
    BY <1>0, <2>1, <2>2
<1> QED
  BY <1>1, <1>2, <1>3

(* OnRead and Clean keep the bytes of the unfinished packet and make       *)
(* room for a full read.                                                   *)
LEMMA FinishParseInv ==
  ASSUME RecvInv, FinishParse
  PROVE  RecvInv'
<1> USE DEF streamVars
<1> DEFINE from == readPos + processLen
           data == writePos - from
<1>1. /\ from \in Nat /\ data \in Nat /\ writePos \in Nat /\ writePos <= Capacity
      /\ buffer \in [Cells -> Nat \cup {Unwritten}]
      /\ data = received - delivered /\ data < BufferSize
      /\ processLen <= DataSize
      /\ \A k \in 0 .. data - 1 : buffer[from + k] = delivered + k
  <2>1. pc = "finish" /\ Consumed = processLen
    BY DEF FinishParse, Consumed
  <2> QED
    BY <2>1 DEF RecvInv, KeptBytes, PartialPacket, DataSize, TypeOK
<1>2. /\ pc' = "register" /\ UNCHANGED connected
      /\ Clean(from, writePos)
      /\ UNCHANGED <<processLen, received, sizeAt, written, delivered, packet>>
  BY <1>1 DEF FinishParse, RecvInv, TypeOK, DataSize
<1>3. /\ buffer' \in [Cells -> Nat \cup {Unwritten}]
      /\ readPos' \in Nat
      /\ writePos' = readPos' + data
      /\ writePos' <= writePos
      /\ writePos' = data \/ Capacity - writePos >= BufferSize
      /\ \A k \in 0 .. data - 1 : buffer'[readPos' + k] = buffer[from + k]
  <2>1. from <= writePos
    BY <1>1
  <2> HIDE DEF from
  <2> QED
    BY <1>1, <1>2, <2>1, CleanKeeps
<1>4. TypeOK'
  BY <1>1, <1>2, <1>3, CapacityBound DEF RecvInv, TypeOK, Capacity
<1>5. Framed' /\ PartialPacket'
  BY <1>2 DEF RecvInv, Framed, PartialPacket, FinishParse
<1>6. KeptBytes'
  <2>1. Consumed' = 0 /\ DataSize' = data
    BY <1>1, <1>2, <1>3 DEF Consumed, DataSize
  <2>2. \A k \in 0 .. data - 1 : buffer'[readPos' + k] = delivered + k
    BY <1>1, <1>3
  <2>3. writePos' = readPos' + data /\ writePos' \in Nat /\ readPos' \in Nat /\ data \in Nat
    BY <1>1, <1>3
  <2>4. \A i \in readPos' .. writePos' - 1 :
          i - readPos' \in 0 .. data - 1 /\ readPos' + (i - readPos') = i
    BY <2>3, ShiftToZero
  <2>5. \A i \in readPos' .. writePos' - 1 : buffer'[i] = delivered + (i - readPos')
    BY <2>2, <2>4
  <2> QED
    BY <1>1, <1>2, <1>3, <2>1, <2>5 DEF RecvInv, TypeOK, KeptBytes
<1>7. RoomToRead'
  <2>1. Capacity - writePos' >= BufferSize
    BY <1>1, <1>3, CapacityBound, RecvAssumption
  <2> QED
    BY <2>1 DEF RoomToRead, FreeSize, Capacity
<1> QED
  BY <1>4, <1>5, <1>6, <1>7 DEF RecvInv

(* RecvInv is inductive: one case per kind of step.                        *)
LEMMA StepRecvInv == RecvInv /\ [Next]_vars => RecvInv'
<1> SUFFICES ASSUME RecvInv, [Next]_vars PROVE RecvInv'
  OBVIOUS
<1> USE DEF bufferVars, streamVars
<1>1. ASSUME NEW s \in PacketSizes, PeerSend(s) PROVE RecvInv'
  BY <1>1, PeerSendInv
<1>2. ASSUME NEW n \in 0 .. written - received, ReadSome(n) PROVE RecvInv'
  BY <1>2, ReadSomeInv
<1>3. CASE ParseNext
  BY <1>3, ParseNextInv
<1>4. CASE FinishParse
  BY <1>4, FinishParseInv
<1>5. CASE RegisterRecv
  BY <1>5 DEF RecvInv, RegisterRecv, TypeOK, Framed, KeptBytes, PartialPacket,
     RoomToRead, Consumed, DataSize, FreeSize
<1>6. CASE ReadFails
  BY <1>6 DEF RecvInv, ReadFails, TypeOK, Framed, KeptBytes, PartialPacket, RoomToRead
<1>7. CASE Disconnect
  BY <1>7 DEF RecvInv, Disconnect, TypeOK, Framed, KeptBytes, PartialPacket,
     RoomToRead, Consumed, DataSize, FreeSize
<1>8. CASE UNCHANGED vars
  BY <1>8 DEF vars, RecvInv, TypeOK, Framed, KeptBytes, PartialPacket,
     RoomToRead, Consumed, DataSize, FreeSize
<1> QED
  BY StepCases, <1>1, <1>2, <1>3, <1>4, <1>5, <1>6, <1>7, <1>8

(* The properties the runs check follow from RecvInv.                      *)
LEMMA RecvInvImplies ==
  RecvInv => RoomForFullRead /\ NoPacketLeftBehind /\ NoReadOverflow /\ MoveDisjoint
<1> SUFFICES ASSUME RecvInv
    PROVE RoomForFullRead /\ NoPacketLeftBehind /\ NoReadOverflow /\ MoveDisjoint
  OBVIOUS
<1>1. RoomForFullRead /\ NoPacketLeftBehind
  BY DEF RecvInv, RoomForFullRead, RoomToRead, NoPacketLeftBehind, PartialPacket
<1>2. NoReadOverflow
  BY DEF RecvInv, NoReadOverflow, KeptBytes, Consumed
<1>3. MoveDisjoint
  BY CapacityBound, RecvAssumption
     DEF RecvInv, MoveDisjoint, MustMove, KeptBytes, PartialPacket, Consumed, DataSize, TypeOK
<1> QED
  BY <1>1, <1>2, <1>3

(* In every reachable state the kept bytes are the next ones to dispatch   *)
(* (RecvBuffer.cpp, Session.cpp:120-139).                                  *)
THEOREM RecvInvariant == Spec => []RecvInv
BY InitRecvInv, StepRecvInv, PTL DEF Spec

(* A read always has room for BufferSize bytes, and the length check of    *)
(* the handler never fires (Session.cpp:112, 131).                         *)
THEOREM RecvSafe == Spec => [](RoomForFullRead /\ NoReadOverflow)
BY RecvInvariant, RecvInvImplies, PTL

(* No complete packet is left for the next read (Session.cpp:254-281).     *)
THEOREM NothingLeftBehind == Spec => []NoPacketLeftBehind
BY RecvInvariant, RecvInvImplies, PTL

(* Clean's memcpy copies between disjoint ranges (RecvBuffer.cpp:23).      *)
THEOREM CopyDisjoint == Spec => []MoveDisjoint
BY RecvInvariant, RecvInvImplies, PTL

(* Every step dispatches the next packet, is the peer's, or changes        *)
(* nothing the stream specification sees.                                  *)
LEMMA StepPackets == RecvInv /\ [Next]_vars => [Packets!Next]_(Packets!streamVars)
<1> SUFFICES ASSUME RecvInv, [Next]_vars PROVE [Packets!Next]_(Packets!streamVars)
  OBVIOUS
<1> USE DEF Packets!streamVars, streamVars, bufferVars
<1>1. ASSUME NEW s \in PacketSizes, PeerSend(s) PROVE Packets!Next
  BY <1>1 DEF PeerSend, Packets!Next, Packets!Write
<1>2. ASSUME NEW n \in 0 .. written - received, ReadSome(n) PROVE UNCHANGED Packets!streamVars
  BY <1>2 DEF ReadSome
<1>3. ASSUME ParseNext PROVE [Packets!Next]_(Packets!streamVars)
  <2> DEFINE here == readPos + processLen
             left == DataSize - processLen
             whole == left >= HeaderSize /\ Complete(left, HeaderAt(here))
  <2>1. CASE ~whole
    BY <1>3, <2>1 DEF ParseNext
  <2>2. CASE whole
    <3>1. /\ delivered \in DOMAIN sizeAt
          /\ HeaderAt(here) = sizeAt[delivered]
          /\ sizeAt[delivered] \in Nat \ {0}
      BY <1>3, <2>2, WholePacket DEF ParseNext
    <3>2. delivered < written
      BY <3>1 DEF RecvInv, TypeOK, Framed
    <3>3. packet' = Packets!PacketBytes(delivered, sizeAt[delivered])
      <4>1. packet' = [k \in 0 .. sizeAt[delivered] - 1 |-> buffer[here + k]]
        BY <1>3, <2>2, <3>1 DEF ParseNext
      <4>2. ASSUME NEW k \in 0 .. sizeAt[delivered] - 1
            PROVE  buffer[here + k] = delivered + k
        <5>1. pc = "parse" /\ Consumed = processLen /\ sizeAt[delivered] <= left
          BY <1>3, <2>2, <3>1 DEF ParseNext, Consumed
        <5>2. here + k \in here .. writePos - 1
          BY <3>1, <5>1 DEF RecvInv, DataSize, TypeOK
        <5> QED
          BY <3>1, <5>1, <5>2 DEF RecvInv, KeptBytes, TypeOK
      <4> QED
        BY <4>1, <4>2 DEF Packets!PacketBytes
    <3>4. Packets!Deliver
      BY <1>3, <2>2, <3>1, <3>2, <3>3 DEF ParseNext, Packets!Deliver
    <3> QED
      BY <3>4 DEF Packets!Next
  <2> QED
    BY <2>1, <2>2
<1>4. ASSUME FinishParse \/ RegisterRecv \/ ReadFails \/ Disconnect \/ UNCHANGED vars
      PROVE UNCHANGED Packets!streamVars
  BY <1>4 DEF FinishParse, RegisterRecv, ReadFails, Disconnect, vars
<1> QED
  BY StepCases, <1>1, <1>2, <1>3, <1>4

(* The receive path hands OnRecvPacket every packet of the peer's stream   *)
(* once, in order and with exactly its bytes.                              *)
THEOREM RecvImplementsPackets == Spec => PacketSpec
<1>1. Init => Packets!Init
  BY DEF Init, Packets!Init
<1> QED
  BY <1>1, RecvInvariant, StepPackets, PTL DEF Spec, PacketSpec, Packets!Spec
==============================================================================

------------------------------ MODULE RecvPath ------------------------------
(***************************************************************************)
(* The receive path of a PacketSession: RegisterRecv and its completion    *)
(* handler (Session.cpp:97), the framing loop PacketSession::OnRecv        *)
(* (Session.cpp:254) and the RecvBuffer they share.  One read is           *)
(* outstanding at a time, so only the handler touches the buffer; other    *)
(* threads may disconnect the session at any moment.                       *)
(***************************************************************************)
EXTENDS Integers

CONSTANTS
  BufferSize,   (* Session::BUFFER_SIZE, the _bufferSize of RecvBuffer      *)
  BufferCount,  (* RecvBuffer::BUFFER_COUNT                                 *)
  HeaderSize,   (* sizeof(PacketHeader)                                     *)
  PacketSizes,  (* header->size of the packets the peers build              *)
  StreamLen     (* bound: bytes the peer writes                             *)

ASSUME RecvAssumption ==
  /\ BufferSize \in Nat /\ BufferCount \in Nat /\ BufferCount >= 3
  /\ HeaderSize \in 1 .. BufferSize
  /\ PacketSizes \subseteq HeaderSize .. BufferSize
  /\ StreamLen \in Nat

VARIABLES
  connected,   (* _connected                                               *)
  readPos,     (* _readPos                                                 *)
  writePos,    (* _writePos                                                *)
  buffer,      (* _buffer: the stream offset of the byte in each cell      *)
  processLen,  (* processLen of OnRecv                                     *)
  pc,          (* where the chain of reads stands                          *)
  received,    (* bytes taken out of the socket                            *)
  sizeAt, written, delivered, packet  \* as in PacketStream

bufferVars == <<readPos, writePos, buffer>>
streamVars == <<sizeAt, written, delivered, packet>>
vars == <<connected, bufferVars, processLen, pc, received, streamVars>>

Capacity == BufferSize * BufferCount
Cells == 0 .. Capacity - 1
DataSize == writePos - readPos
FreeSize == Capacity - writePos

Unwritten == -1

TypeOK ==
  /\ connected \in BOOLEAN
  /\ readPos \in Nat /\ writePos \in Nat
  /\ readPos <= writePos /\ writePos <= Capacity
  /\ buffer \in [Cells -> Nat \cup {Unwritten}]
  /\ processLen \in Nat
  /\ pc \in {"reading", "parse", "finish", "register", "stopped"}
  /\ received \in Nat /\ written \in Nat /\ delivered \in Nat
  /\ sizeAt \in [DOMAIN sizeAt -> PacketSizes]
  /\ DOMAIN sizeAt \subseteq Nat

Init ==
  /\ connected = TRUE
  /\ readPos = 0 /\ writePos = 0
  /\ buffer = [i \in Cells |-> Unwritten]
  /\ processLen = 0
  /\ pc = "reading"
  /\ received = 0
  /\ sizeAt = <<>> /\ written = 0 /\ delivered = 0 /\ packet = <<>>

(* The peer sends one whole packet.                                        *)
PeerSend(s) ==
  /\ written + s <= StreamLen
  /\ sizeAt' = [o \in DOMAIN sizeAt \cup {written} |->
                   IF o = written THEN s ELSE sizeAt[o]]
  /\ written' = written + s
  /\ UNCHANGED <<connected, bufferVars, processLen, pc, received, delivered, packet>>

(***************************************************************************)
(* async_read_some completes with some of the bytes that have arrived; a   *)
(* read into no room completes with none.  OnWrite, then OnRecv begins.    *)
(***************************************************************************)
RoomFor(n) == n <= FreeSize

ReadSome(n) ==
  /\ pc = "reading"
  /\ RoomFor(n)
  /\ n <= written - received
  /\ n > 0 \/ FreeSize = 0
  /\ buffer' = [i \in Cells |-> IF i \in writePos .. writePos + n - 1
                                THEN received + (i - writePos) ELSE buffer[i]]
  /\ writePos' = writePos + n
  /\ received' = received + n
  /\ processLen' = 0
  /\ pc' = "parse"
  /\ UNCHANGED <<connected, readPos, streamVars>>

(* The size a header announces; a cell that starts no packet holds payload,*)
(* whose value the model does not know.                                    *)
HeaderAt(cell) ==
  IF buffer[cell] \in DOMAIN sizeAt THEN sizeAt[buffer[cell]] ELSE HeaderSize

(* One iteration of the loop of OnRecv.                                    *)
CompleteStrict(left, size) == left > size    \* mutant: an exact packet waits
CompleteAssumed(left, size) == TRUE          \* mutant: only the header is waited for
Complete(left, size) == left >= size

ParseNext ==
  LET here == readPos + processLen
      left == DataSize - processLen
      whole == left >= HeaderSize /\ Complete(left, HeaderAt(here))
  IN /\ pc = "parse"
     /\ pc' = IF whole THEN "parse" ELSE "finish"
     /\ IF whole
          THEN /\ packet' = [k \in 0 .. HeaderAt(here) - 1 |-> buffer[here + k]]
               /\ delivered' = delivered + HeaderAt(here)
               /\ processLen' = processLen + HeaderAt(here)
          ELSE UNCHANGED <<packet, delivered, processLen>>
     /\ UNCHANGED <<connected, bufferVars, received, sizeAt, written>>

(* RecvBuffer::Clean when the data lies between from and to.               *)
MoveAlways(from, to) == to - from # 0        \* mutant: the free space is not tested
MoveNever(from, to) == FALSE                 \* mutant: data is never moved
MustMove(from, to) == to - from # 0 /\ Capacity - to < BufferSize

NotCopied(from, i) == i                      \* mutant: the memcpy is missing
Source(from, i) == from + i

Clean(from, to) ==
  LET data == to - from
      moved == MustMove(from, to)
  IN /\ readPos' = IF data = 0 \/ moved THEN 0 ELSE from
     /\ writePos' = IF data = 0 \/ moved THEN data ELSE to
     /\ buffer' = [i \in Cells |-> IF moved /\ i < data THEN buffer[Source(from, i)]
                                                ELSE buffer[i]]

(* The handler's check of processLen, OnRead and Clean.                    *)
FinishParse ==
  /\ pc = "finish"
  /\ IF processLen > DataSize
       THEN /\ connected' = FALSE
            /\ pc' = "stopped"
            /\ UNCHANGED bufferVars
       ELSE /\ Clean(readPos + processLen, writePos)
            /\ pc' = "register"
            /\ UNCHANGED connected
  /\ UNCHANGED <<processLen, received, streamVars>>

RegisterRecv ==
  /\ pc = "register"
  /\ pc' = IF connected THEN "reading" ELSE "stopped"
  /\ UNCHANGED <<connected, bufferVars, processLen, received, streamVars>>

(* The read fails (the connection is lost, or Disconnect closed the        *)
(* socket) and its handler disconnects.                                    *)
ReadFails ==
  /\ pc = "reading"
  /\ connected' = FALSE
  /\ pc' = "stopped"
  /\ UNCHANGED <<bufferVars, processLen, received, streamVars>>

(* Disconnect called by another handler, or from OnRecvPacket.             *)
Disconnect ==
  /\ connected
  /\ connected' = FALSE
  /\ UNCHANGED <<bufferVars, processLen, pc, received, streamVars>>

Handler ==
  \/ \E n \in 0 .. written - received : ReadSome(n)
  \/ ParseNext
  \/ FinishParse
  \/ RegisterRecv

Next ==
  \/ \E s \in PacketSizes : PeerSend(s)
  \/ Handler
  \/ ReadFails
  \/ Disconnect

Spec == Init /\ [][Next]_vars

(* Bytes that arrived complete the read, and its handler runs to its end.  *)
FairSpec == Spec /\ WF_vars(Handler)

-----------------------------------------------------------------------------
(* The session implements the packet stream OnRecvPacket relies on: every  *)
(* packet once, in order, with exactly its bytes, whatever pieces the      *)
(* reads deliver and wherever Clean moves them.                            *)
Packets == INSTANCE PacketStream WITH
             PacketSizes <- PacketSizes, sizeAt <- sizeAt, written <- written,
             delivered <- delivered, packet <- packet

PacketSpec == Packets!Spec

(* While a read is outstanding its buffer has room for BufferSize bytes,   *)
(* so a read is never empty and the chain of reads cannot spin or stall    *)
(* (Session.cpp:105, RecvBuffer.cpp:21).                                   *)
RoomForFullRead == pc = "reading" => FreeSize >= BufferSize

(* Clean's memcpy never copies between overlapping ranges, which would be  *)
(* undefined (RecvBuffer.cpp:23).                                          *)
MoveDisjoint ==
  LET from == readPos + processLen
  IN pc = "finish" /\ MustMove(from, writePos) => writePos - from <= from

(* When the handler waits for more bytes, what it kept is less than one    *)
(* packet: no complete packet waits for the next read (Session.cpp:259).   *)
NoPacketLeftBehind ==
  pc = "reading" /\ delivered \in DOMAIN sizeAt =>
    received - delivered < sizeAt[delivered]

(* The length check of the handler never fires: "Read Overflow" is never   *)
(* the reason of a disconnect (Session.cpp:131).                           *)
NoReadOverflow == pc = "finish" => processLen <= DataSize

(* The invariant behind the properties above.  The stream is framed; the   *)
(* bytes kept in the buffer are the next bytes to dispatch, in order; when *)
(* the loop has ended they are less than one packet.                       *)
Consumed == IF pc \in {"parse", "finish"} THEN processLen ELSE 0

Framed ==
  /\ \A o \in DOMAIN sizeAt :
       o + sizeAt[o] = written \/ (o + sizeAt[o] < written /\ o + sizeAt[o] \in DOMAIN sizeAt)
  /\ delivered = written \/ delivered \in DOMAIN sizeAt

KeptBytes ==
  /\ received <= written
  /\ pc # "stopped" =>
       /\ Consumed <= DataSize
       /\ received = delivered + DataSize - Consumed
       /\ \A i \in readPos + Consumed .. writePos - 1 :
            buffer[i] = delivered + (i - readPos - Consumed)

PartialPacket ==
  pc \in {"finish", "register", "reading"} =>
    /\ received - delivered < BufferSize
    /\ delivered \in DOMAIN sizeAt => received - delivered < sizeAt[delivered]

RoomToRead == pc \in {"register", "reading"} => FreeSize >= BufferSize

RecvInv == TypeOK /\ Framed /\ KeptBytes /\ PartialPacket /\ RoomToRead

(* Every packet the peer writes is dispatched, unless the session is       *)
(* disconnected.                                                           *)
EventuallyDelivered ==
  \A n \in 1 .. StreamLen : written >= n ~> delivered >= n \/ ~connected
==============================================================================

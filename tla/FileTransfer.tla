---------------------------- MODULE FileTransfer ----------------------------
(***************************************************************************)
(* A client sends files to the server over one session: SendFile of the    *)
(* client (client.cpp:205), the FileTransferManager of both ends and the   *)
(* packet handlers of FilePacketSession (FileTransfer.cpp).  The client's  *)
(* main thread starts a transfer and sends its first chunk; every chunk    *)
(* sent starts a detached thread that sends the next one.  The manager's   *)
(* lock makes SendNextChunk one step, packet and context together.         *)
(*                                                                         *)
(* The session delivers packets whole and in order (SessionSend, RecvPath) *)
(* until it is disconnected; then packets under way are lost.              *)
(***************************************************************************)
EXTENDS Integers, Sequences, FiniteSets, SequencesExt

CONSTANTS
  Files,     (* the files the user may send                                 *)
  FileSize,  (* their sizes in bytes                                        *)
  ChunkSize, (* DEFAULT_CHUNK_SIZE, the size SendFile asks for as well      *)
  NoFile,    (* the client's main thread waits for a command                *)
  MaxSends   (* bound: how often the user sends a file                      *)

ASSUME FileAssumption ==
  /\ FileSize \in [Files -> Nat]
  /\ ChunkSize \in Nat \ {0}
  /\ NoFile \notin Files
  /\ MaxSends \in Nat

VARIABLES
  transfers,  (* _transfers of the client; the index is the connection id   *)
  main,       (* what the client's main thread does next                    *)
  file,       (* the file its SendFile is about                             *)
  chains,     (* detached threads that will call SendNextChunk              *)
  sourceFailed, (* the stream the client reads its file from has failed     *)
  connected,  (* the client's session is connected                          *)
  channel,    (* packets under way to the server                            *)
  received,   (* _transfers of the server's session                         *)
  disk,       (* the bytes of each file the server created, by offset       *)
  backup,     (* likewise for the .bak files                                *)
  diskFailed, (* history: the server could not create or write a file       *)
  sent,       (* history: the chunks the client gave to Send                *)
  notified,   (* history: files the client reported as completed            *)
  reported    (* history: files the server reported as completed            *)

clientVars == <<transfers, main, file, chains, sourceFailed>>
serverVars == <<received, disk, backup, reported, diskFailed>>
vars == <<clientVars, connected, channel, serverVars, sent, notified>>

Zero == <<>>  \* what preallocated space holds; else a byte is <<its file, its offset>>

Lower(a, b) == IF a < b THEN a ELSE b

(* The size rounded up to chunks.                                          *)
ChunksTotal(f) == (FileSize[f] + ChunkSize - 1) \div ChunkSize

Transfers == [file : Files, bytesSent : Nat, chunksSent : Nat, isCompleted : BOOLEAN]

(* redirected: filePath names another file, made when its own failed.      *)
Receptions == [file : Files, redirected : BOOLEAN, bytesReceived : Nat,
               chunksReceived : Nat, isCompleted : BOOLEAN]

Request(f) == [type |-> "request", file |-> f]

(* The first bytes of a chunk were read from the file, the rest is zeros.  *)
Chunk(f, id, from, len, isLast, read) ==
  [type |-> "chunk", file |-> f, id |-> id, from |-> from, len |-> len, isLast |-> isLast,
   read |-> read]

ChunkPackets == [type : {"chunk"}, file : Files, id : Nat, from : Nat,
                 len : 1 .. ChunkSize, isLast : BOOLEAN, read : 0 .. ChunkSize]

Packets == ChunkPackets \cup [type : {"request"}, file : Files]

ClientTypeOK ==
  /\ transfers \in Seq(Transfers)
  /\ main \in {"idle", "request", "first"}
  /\ file \in Files \cup {NoFile}
  /\ chains \in Nat /\ sourceFailed \in BOOLEAN
  /\ sent \in Seq(ChunkPackets)
  /\ notified \in Seq(Files)

ServerTypeOK ==
  /\ connected \in BOOLEAN
  /\ channel \in Seq(Packets)
  /\ received \in Seq(Receptions)
  /\ diskFailed \in BOOLEAN
  /\ DOMAIN disk \subseteq Files /\ DOMAIN backup \subseteq Files
  /\ reported \in Seq(Files)

TypeOK == ClientTypeOK /\ ServerTypeOK

Init ==
  /\ transfers = <<>> /\ received = <<>>
  /\ main = "idle" /\ file = NoFile
  /\ chains = 0 /\ sourceFailed = FALSE
  /\ connected = TRUE /\ channel = <<>>
  /\ disk = <<>> /\ backup = <<>> /\ diskFailed = FALSE
  /\ sent = <<>> /\ notified = <<>> /\ reported = <<>>

(* Session::Send: nothing reaches the channel of a disconnected session.   *)
Carried(p) == IF connected THEN Append(channel, p) ELSE channel

(***************************************************************************)
(* SendFile: StartFileSend makes the context under the lock and sends the  *)
(* request after it released it; then the first chunk goes out.            *)
(***************************************************************************)
StartFileSend(f) ==
  /\ main = "idle"
  /\ Len(transfers) < MaxSends
  /\ transfers' = Append(transfers, [file |-> f, bytesSent |-> 0, chunksSent |-> 0,
                                     isCompleted |-> FALSE])
  /\ main' = "request"
  /\ file' = f
  /\ UNCHANGED <<chains, sourceFailed, connected, channel, serverVars, sent, notified>>

SendRequest ==
  /\ main = "request"
  /\ channel' = Carried(Request(file))
  /\ main' = "first"
  /\ UNCHANGED <<transfers, file, chains, sourceFailed, connected, serverVars, sent, notified>>

(***************************************************************************)
(* SendNextChunk(session, connectionId).  The client's SendFile asks for   *)
(* connection 1 whatever it just started, and so do the threads that       *)
(* continue it.                                                            *)
(***************************************************************************)
ConnectionId == 1

WholeRest(remaining) == remaining              \* mutant: the chunk size is no limit
ChunkLength(remaining) == Lower(remaining, ChunkSize)

LastChunk(remaining) == remaining <= ChunkSize

IdFromOne(t) == t.chunksSent + 1               \* mutant: counted before it is sent
ChunkId(t) == t.chunksSent

NextChunk(t, read) ==
  LET remaining == FileSize[t.file] - t.bytesSent
  IN Chunk(t.file, ChunkId(t), t.bytesSent, ChunkLength(remaining), LastChunk(remaining), read)

CompletedNever(t) == FALSE                     \* mutant: a completed transfer goes on
Completed(t) == t.isCompleted

AlreadyCompleted(t) ==
  /\ Completed(t)
  /\ UNCHANGED <<transfers, sourceFailed, channel, sent, notified>>

NothingLeft(t) ==
  /\ ~Completed(t)
  /\ t.bytesSent = FileSize[t.file]
  /\ transfers' = [transfers EXCEPT ![ConnectionId].isCompleted = TRUE]
  /\ notified' = Append(notified, t.file)
  /\ UNCHANGED <<sourceFailed, channel, sent>>

(* The read fails: no chunk goes out, and the stream stays bad, so that    *)
(* whoever continues this transfer fails again.                            *)
ReadFails(t) ==
  /\ ~Completed(t)
  /\ t.bytesSent < FileSize[t.file]
  /\ sourceFailed' = TRUE
  /\ UNCHANGED <<transfers, channel, sent, notified>>

(* A file that shrank since StartFileSend ends early: the read sets eof,   *)
(* which is no error, and the chunk goes out with zeros for the rest.  The *)
(* stream is failed from then on.                                          *)
SendChunk(t) ==
  \E read \in 0 .. ChunkSize :
    LET p == NextChunk(t, read)
    IN /\ ~Completed(t)
       /\ t.bytesSent < FileSize[t.file]
       /\ ~sourceFailed
       /\ read <= p.len
       /\ sourceFailed' = (read < p.len)
       /\ channel' = Carried(p)
       /\ sent' = Append(sent, p)
       /\ transfers' = [transfers EXCEPT ![ConnectionId] =
                          [t EXCEPT !.bytesSent = @ + p.len,
                                    !.chunksSent = @ + 1,
                                    !.isCompleted = p.isLast]]
       /\ notified' = IF p.isLast THEN Append(notified, t.file) ELSE notified

(* A chunk that is not the last schedules the next; started is 1 when a    *)
(* detached thread makes the call, which ends with it.                     *)
ContinuesNever(p) == FALSE                     \* mutant: only the first chunk is sent
Continues(p) == ~p.isLast

SendNextChunk(started) ==
  LET t == transfers[ConnectionId]
  IN /\ AlreadyCompleted(t) \/ NothingLeft(t) \/ ReadFails(t) \/ SendChunk(t)
     /\ chains' = (chains - started) + (IF sent' # sent /\ Continues(Last(sent')) THEN 1 ELSE 0)

SendFirstChunk ==
  /\ main = "first"
  /\ SendNextChunk(0)
  /\ main' = "idle"
  /\ file' = NoFile
  /\ UNCHANGED <<connected, serverVars>>

ContinueTransfer ==
  /\ chains > 0
  /\ SendNextChunk(1)
  /\ UNCHANGED <<main, file, connected, serverVars>>

Disconnect ==
  /\ connected
  /\ connected' = FALSE
  /\ \E n \in 0 .. Len(channel) : channel' = SubSeq(channel, 1, n)
  /\ UNCHANGED <<clientVars, serverVars, sent, notified>>

(***************************************************************************)
(* FilePacketSession::OnRecvPacket on the server.                          *)
(***************************************************************************)
Receive(type) ==
  /\ channel # <<>>
  /\ Head(channel).type = type
  /\ channel' = Tail(channel)
  /\ UNCHANGED <<clientVars, connected, sent, notified>>

(* StartFileReceive renames a file of that name to .bak, preallocates the  *)
(* new one and makes its context.  Seeking to fileSize - 1 fails for an    *)
(* empty file, which is then left empty without a context.                 *)
Preallocated(f) == [o \in 0 .. FileSize[f] - 1 |-> Zero]

BackUp(f) ==
  backup' = [g \in DOMAIN backup \cup ({f} \cap DOMAIN disk) |->
               IF g \in {f} \cap DOMAIN disk THEN disk[g] ELSE backup[g]]

DiskWith(f, content) ==
  [g \in DOMAIN disk \cup {f} |-> IF g = f THEN content ELSE disk[g]]

HandleFileRequest ==
  /\ Receive("request")
  /\ LET f == Head(channel).file
     IN /\ BackUp(f)
        /\ disk' = DiskWith(f, Preallocated(f))
        /\ received' = IF FileSize[f] = 0 THEN received
                       ELSE Append(received, [file |-> f, redirected |-> FALSE,
                                              bytesReceived |-> 0, chunksReceived |-> 0,
                                              isCompleted |-> FALSE])
  /\ UNCHANGED <<reported, diskFailed>>

(* After the old file was renamed the new one cannot be created, or its    *)
(* space cannot be allocated and it is left empty.                         *)
RequestFails ==
  /\ Receive("request")
  /\ diskFailed' = TRUE
  /\ LET f == Head(channel).file
     IN /\ BackUp(f)
        /\ \E left \in SUBSET {f} :
             disk' = [g \in (DOMAIN disk \ {f}) \cup left |-> IF g = f THEN <<>> ELSE disk[g]]
  /\ UNCHANGED <<received, reported>>

(* ProcessFileChunk writes into the newest context, whatever file the      *)
(* chunk is of, at the offset that follows from its number.  It makes the  *)
(* context's file anew if that is gone, and extends it if it is too short. *)
Content(f) ==
  IF f \in DOMAIN disk /\ disk[f] # <<>> THEN disk[f] ELSE Preallocated(f)

OffsetAfterHeader(p) == p.id * ChunkSize + 1   \* mutant: off by one
Offset(p) == p.id * ChunkSize

Written(content, p) ==
  LET at == Offset(p) .. Offset(p) + p.len - 1
  IN [o \in DOMAIN content \cup at |->
        IF o \notin at THEN content[o]
        ELSE IF o - Offset(p) < p.read THEN <<p.file, p.from + (o - Offset(p))>> ELSE Zero]

ReceivedByCount(c, p) == c.chunksReceived + 2 >= ChunksTotal(c.file)  \* mutant: counted twice
AllReceived(c, p) == p.isLast \/ c.chunksReceived + 1 >= ChunksTotal(c.file)

Context(c) == received' = Front(received) \o <<c>>

CountChunk(c, p) ==
  /\ Context([c EXCEPT !.bytesReceived = @ + p.len,
                       !.chunksReceived = @ + 1,
                       !.isCompleted = @ \/ AllReceived(c, p)])
  /\ reported' = IF AllReceived(c, p) THEN Append(reported, c.file) ELSE reported

HandleFileChunk ==
  /\ Receive("chunk")
  /\ received # <<>>
  /\ LET p == Head(channel)
         c == Last(received)
     IN /\ disk' = IF c.redirected THEN disk
                   ELSE DiskWith(c.file, Written(Content(c.file), p))
        /\ CountChunk(c, p)
  /\ UNCHANGED <<backup, diskFailed>>

(* The disk refuses something.  A file that cannot be opened for update is *)
(* made anew, without the chunks it held; if that fails too, another file  *)
(* takes its place for the rest of the transfer.  Only the first n bytes   *)
(* of the chunk may be written, or none.  A write error drops the chunk,   *)
(* but one that shows at flush comes after the check: the chunk counts.    *)
DiskRefuses ==
  /\ Receive("chunk")
  /\ received # <<>>
  /\ LET p == Head(channel)
         c == Last(received)
         elsewhere == [c EXCEPT !.redirected = TRUE]
     IN \/ /\ ~c.redirected
           /\ \E n \in 0 .. p.len, held \in {Content(c.file), Preallocated(c.file)} :
                disk' = DiskWith(c.file, Written(held, [p EXCEPT !.len = n]))
           /\ CountChunk(c, p) \/ UNCHANGED <<received, reported>>
        \/ /\ UNCHANGED disk
           /\ CountChunk(elsewhere, p) \/ (Context(elsewhere) /\ UNCHANGED reported)
        \/ /\ disk' \in {disk} \cup (IF c.redirected THEN {} ELSE {DiskWith(c.file, <<>>)})
           /\ UNCHANGED <<received, reported>>
  /\ diskFailed' = TRUE
  /\ UNCHANGED backup

(* A chunk without a context is dropped.                                   *)
DropChunk ==
  /\ Receive("chunk")
  /\ received = <<>>
  /\ UNCHANGED serverVars

MainThread == SendRequest \/ SendFirstChunk

Server == HandleFileRequest \/ RequestFails \/ HandleFileChunk \/ DiskRefuses \/ DropChunk

Next ==
  \/ \E f \in Files : StartFileSend(f)
  \/ MainThread
  \/ ContinueTransfer
  \/ Server
  \/ Disconnect

Spec == Init /\ [][Next]_vars

(* The client's threads run, and the session delivers what it accepted.    *)
FairSpec ==
  /\ Spec
  /\ WF_vars(MainThread) /\ WF_vars(ContinueTransfer)
  /\ WF_vars(Server)

-----------------------------------------------------------------------------
FirstFile == transfers[1].file

(* However many threads continue the transfer, the chunks go out once each *)
(* and in order, cover the file without gap, and only the one that ends it *)
(* is marked as the last (FileTransfer.cpp:314-364).                       *)
ChunksInOrder ==
  \A i \in DOMAIN sent :
    LET from == (i - 1) * ChunkSize
        rest == FileSize[FirstFile] - from
    IN sent[i] = Chunk(FirstFile, i - 1, from, Lower(rest, ChunkSize), rest <= ChunkSize,
                       sent[i].read)

(* The client reports a transfer as completed once, after it handed every  *)
(* chunk to Send, even when two threads continue it (FileTransfer.cpp:300, *)
(* 319-330, 367-375).                                                      *)
NotifiedOnce ==
  notified # <<>> => notified = <<FirstFile>> /\ Len(sent) = ChunksTotal(FirstFile)

(* Why these hold: whoever continues finds the first transfer, whose       *)
(* context counts exactly the chunks that went out, and which is completed *)
(* together with its last chunk, or at once if its file is empty.          *)
Progress(t) ==
  /\ t.chunksSent = Len(sent)
  /\ t.bytesSent = Lower(Len(sent) * ChunkSize, FileSize[t.file])
  /\ Len(sent) * ChunkSize < FileSize[t.file] + ChunkSize
  /\ IF t.isCompleted
       THEN t.bytesSent = FileSize[t.file] /\ notified = <<t.file>>
       ELSE t.bytesSent < FileSize[t.file] + (IF sent = <<>> THEN 1 ELSE 0) /\ notified = <<>>

SenderInv ==
  /\ ClientTypeOK
  /\ transfers # <<>> => Progress(transfers[ConnectionId])
  /\ transfers = <<>> => main = "idle" /\ chains = 0 /\ sent = <<>> /\ notified = <<>>
  /\ ChunksInOrder /\ NotifiedOnce

TransferInv == SenderInv /\ TypeOK /\ (main = "request" => file \in Files)

(* Whatever requests overlap and whatever the disk refuses, the file of    *)
(* the first transfer keeps its size and holds its own bytes at their own  *)
(* places, or the zeros it was preallocated with, or it was left empty by  *)
(* a full disk (FileTransfer.cpp:104-120, 213-228).                        *)
FirstFileIntact ==
  transfers # <<>> /\ FirstFile \in DOMAIN disk =>
    /\ \/ DOMAIN disk[FirstFile] = 0 .. FileSize[FirstFile] - 1
       \/ disk[FirstFile] = <<>> /\ diskFailed
    /\ \A o \in DOMAIN disk[FirstFile] : disk[FirstFile][o] \in {Zero, <<FirstFile, o>>}

(* As long as one file is sent and no disk fails, the file on the server   *)
(* grows chunk by chunk to the whole, and is reported at that moment and   *)
(* once (FileTransfer.cpp:221-278): FileDelivery with the disk's content   *)
(* for the file of the context.                                            *)
OneTransfer == Len(transfers) <= 1 /\ ~diskFailed /\ ~sourceFailed

Whole(f) == f \in DOMAIN disk /\ disk[f] = [o \in 0 .. FileSize[f] - 1 |-> <<f, o>>]

Promised == OneTransfer /\ received # <<>>

Delivery == INSTANCE FileDelivery WITH
              Files <- Files, FileSize <- FileSize, ChunkSize <- ChunkSize,
              NoFile <- NoFile, Zero <- Zero,
              target <- IF Promised THEN received[1].file ELSE NoFile,
              content <- IF Promised THEN disk[received[1].file] ELSE <<>>,
              told <- Promised /\ reported # <<>>,
              void <- ~OneTransfer

DeliverySpec == Delivery!Spec

(* Why both hold: the packets under way are the request and the chunks     *)
(* that went out, less what the server took and a disconnect cut off; the  *)
(* server's only context counts the chunks it took, and the file holds     *)
(* them.                                                                   *)
Taken == IF received = <<>> THEN 0 ELSE received[1].chunksReceived + 1

PacketNumber(n) == IF n = 1 THEN Request(FirstFile) ELSE sent[n - 1]

UnderWay ==
  /\ \A i \in DOMAIN channel : channel[i] = PacketNumber(Taken + i)
  /\ Taken + Len(channel) <= Len(sent) + 1
  /\ connected /\ FileSize[FirstFile] > 0 => Taken + Len(channel) = Len(sent) + 1

Arrived(c) ==
  /\ Len(received) = 1 /\ c.file = FirstFile /\ ~c.redirected /\ FileSize[FirstFile] > 0
  /\ FirstFile \in DOMAIN disk
  /\ disk[FirstFile] = Delivery!FirstBytes(FirstFile, c.chunksReceived * ChunkSize)
  /\ reported # <<>> <=> c.chunksReceived * ChunkSize >= FileSize[FirstFile]

ArrivingInv ==
  /\ main = "request" => file = FirstFile
  /\ \A i \in DOMAIN sent : sent[i].read = sent[i].len
  /\ IF transfers = <<>> \/ main = "request"
       THEN sent = <<>> /\ chains = 0 /\ channel = <<>> /\ received = <<>>
       ELSE UnderWay
  /\ IF received = <<>> THEN reported = <<>> ELSE Arrived(received[1])

(* However many transfers, all chunks under way are of the first file, and *)
(* in their place.                                                         *)
InPlace(p) ==
  /\ p.file = FirstFile /\ p.from = p.id * ChunkSize
  /\ p.from + p.len <= FileSize[FirstFile]

ReceiverInv ==
  /\ transfers = <<>> => channel = <<>> /\ disk = <<>>
  /\ \A i \in DOMAIN channel : channel[i].type = "chunk" => InPlace(channel[i])
  /\ FirstFileIntact

DeliveryInv == TransferInv /\ ReceiverInv /\ (OneTransfer => ArrivingInv)

(* FileTransfer.cpp:257 checks that all chunks were received before the    *)
(* server reports a file as completed: at that moment the file is whole,   *)
(* unless a disk of either side refused something.                         *)
Reports(f) == reported' = Append(reported, f) /\ ~diskFailed' /\ ~sourceFailed

ReportedWhole == [][\A f \in Files : Reports(f) => Whole(f)']_vars

(* A file that is sent alone, over a connection that stays up and to a     *)
(* disk that does not fail, is complete on the server in the end.          *)
FileArrives ==
  \A f \in Files : file = f ~> Whole(f) \/ ~connected \/ ~OneTransfer
==============================================================================

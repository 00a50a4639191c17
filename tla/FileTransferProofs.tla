------------------------- MODULE FileTransferProofs -------------------------
(***************************************************************************)
(* The chunks of the first transfer, for any files and any chunk size and  *)
(* however many threads continue it: they go out once, in order, without a *)
(* gap, and the client reports the transfer once, after all are out.       *)
(* Then the server: whatever overlaps and whatever its disk refuses, the   *)
(* first file holds its own bytes in their places; and if nothing else is  *)
(* sent and nothing fails, the server implements FileDelivery.             *)
(***************************************************************************)
EXTENDS FileTransfer, SequenceTheorems, TLAPS

(* Offsets of chunks. *)
LEMMA NextOffset ==
  ASSUME NEW n \in Nat
  PROVE  /\ n * ChunkSize \in Nat
         /\ (n + 1) * ChunkSize = n * ChunkSize + ChunkSize
         /\ n # 0 => ChunkSize <= n * ChunkSize
BY FileAssumption

(* Where a chunk that starts at from ends, in a file of the given size.    *)
LEMMA NextEnd ==
  ASSUME NEW from \in Nat, NEW size \in Nat, NEW c \in Nat \ {0}, from < size
  PROVE  /\ from + Lower(size - from, c) = Lower(from + c, size)
         /\ from + c < size + c
         /\ size - from <= c => from + Lower(size - from, c) = size /\ size <= from + c
         /\ ~(size - from <= c) => from + Lower(size - from, c) < size
BY DEF Lower

(* A quotient is the number whose multiples enclose the dividend. *)
LEMMA Quotient ==
  ASSUME NEW n \in Nat, NEW a \in Nat, NEW c \in Nat, c > 0, n * c <= a, a < n * c + c
  PROVE  a \div c = n
OBVIOUS

(* The number of chunks, if n chunks cover the file and n - 1 do not. *)
LEMMA RoundedUp ==
  ASSUME NEW f \in Files, NEW n \in Nat,
         FileSize[f] <= n * ChunkSize, n * ChunkSize < FileSize[f] + ChunkSize
  PROVE  ChunksTotal(f) = n
<1>1. FileSize[f] \in Nat /\ ChunkSize \in Nat /\ ChunkSize > 0 /\ n * ChunkSize \in Nat
  BY FileAssumption, NextOffset
<1> DEFINE m == n * ChunkSize
           a == FileSize[f] + ChunkSize - 1
<1>2. a \in Nat /\ m <= a /\ a < m + ChunkSize
  BY <1>1
<1> HIDE DEF a
<1>3. a \div ChunkSize = n
  BY <1>1, <1>2, Quotient
<1> QED
  BY <1>3 DEF ChunksTotal, a

(* A transfer in progress: what its next chunk is, whatever of it is read. *)
LEMMA NextOfProgress ==
  ASSUME ClientTypeOK, NEW t \in Transfers, Progress(t), t.bytesSent < FileSize[t.file],
         NEW read \in 0 .. ChunkSize
  PROVE  /\ t.bytesSent = Len(sent) * ChunkSize
         /\ NextChunk(t, read) = Chunk(t.file, Len(sent), Len(sent) * ChunkSize,
                                       Lower(FileSize[t.file] - Len(sent) * ChunkSize, ChunkSize),
                                       FileSize[t.file] - Len(sent) * ChunkSize <= ChunkSize, read)
         /\ NextChunk(t, read) \in ChunkPackets
<1>1. Len(sent) \in Nat /\ FileSize[t.file] \in Nat /\ ChunkSize \in Nat \ {0}
  BY FileAssumption DEF ClientTypeOK, Transfers
<1>2. Len(sent) * ChunkSize \in Nat
  BY <1>1, NextOffset
<1>3. t.bytesSent = Len(sent) * ChunkSize
  BY <1>1, <1>2 DEF Progress, Lower
<1>4. NextChunk(t, read) = Chunk(t.file, Len(sent), Len(sent) * ChunkSize,
                                 Lower(FileSize[t.file] - Len(sent) * ChunkSize, ChunkSize),
                                 FileSize[t.file] - Len(sent) * ChunkSize <= ChunkSize, read)
  BY <1>3 DEF NextChunk, ChunkId, ChunkLength, LastChunk, Progress
<1>5. Lower(FileSize[t.file] - Len(sent) * ChunkSize, ChunkSize) \in 1 .. ChunkSize
  BY <1>1, <1>2, <1>3 DEF Lower
<1>6. t.file \in Files
  BY DEF Transfers
<1> QED
  BY <1>1, <1>2, <1>4, <1>3, <1>5, <1>6 DEF Chunk, ChunkPackets

(* The initial state. *)
LEMMA InitSenderInv == Init => SenderInv
<1> SUFFICES ASSUME Init PROVE SenderInv
  OBVIOUS
<1>1. ClientTypeOK
  <2>1. transfers = <<>> /\ sent = <<>> /\ notified = <<>>
    BY DEF Init
  <2>2. main = "idle" /\ file = NoFile /\ chains = 0 /\ sourceFailed = FALSE
    BY DEF Init
  <2>3. <<>> \in Seq(Transfers) /\ <<>> \in Seq(ChunkPackets) /\ <<>> \in Seq(Files)
    OBVIOUS
  <2>4. transfers \in Seq(Transfers) /\ sent \in Seq(ChunkPackets) /\ notified \in Seq(Files)
    BY <2>1, <2>3, Zenon
  <2>5. /\ main \in {"idle", "request", "first"} /\ file \in Files \cup {NoFile}
        /\ chains \in Nat /\ sourceFailed \in BOOLEAN
    BY <2>2
  <2> QED
    BY <2>4, <2>5 DEF ClientTypeOK
<1>2. ChunksInOrder /\ NotifiedOnce
  BY DEF Init, ChunksInOrder, NotifiedOnce
<1> QED
  BY <1>1, <1>2 DEF Init, SenderInv

(* A new transfer does not change the first one. *)
LEMMA StartFileSendInv ==
  ASSUME SenderInv, NEW f \in Files, StartFileSend(f)
  PROVE  SenderInv'
<1> DEFINE new == [file |-> f, bytesSent |-> 0, chunksSent |-> 0, isCompleted |-> FALSE]
<1>1. new \in Transfers /\ transfers' = Append(transfers, new) /\ UNCHANGED <<chains, sourceFailed, sent, notified>>
  BY DEF Transfers, StartFileSend
<1>2. ClientTypeOK'
  BY <1>1 DEF SenderInv, ClientTypeOK, StartFileSend
<1> HIDE DEF new
<1>3. transfers \in Seq(Transfers) /\ transfers' # <<>>
  BY <1>1 DEF SenderInv, ClientTypeOK
<1>4. CASE transfers = <<>>
  <2>1. sent = <<>> /\ notified = <<>> /\ sent' = <<>> /\ notified' = <<>>
    BY <1>1, <1>4 DEF SenderInv
  <2>2. transfers'[ConnectionId] = new
    BY <1>1, <1>4 DEF ConnectionId
  <2>3. FileSize[f] \in Nat /\ ChunkSize \in Nat \ {0}
    BY FileAssumption
  <2>4. Progress(transfers[ConnectionId])'
    BY <2>1, <2>2, <2>3 DEF Progress, new, Lower
  <2>5. ChunksInOrder' /\ NotifiedOnce'
    BY <2>1 DEF ChunksInOrder, NotifiedOnce
  <2> QED
    BY <1>2, <1>3, <2>4, <2>5 DEF SenderInv
<1>5. CASE transfers # <<>>
  <2>1. transfers'[1] = transfers[1]
    BY <1>1, <1>3, <1>5
  <2>2. Progress(transfers[ConnectionId])'
    BY <1>1, <1>5, <2>1 DEF SenderInv, Progress, ConnectionId
  <2>3. ChunksInOrder' /\ NotifiedOnce'
    BY <1>1, <2>1 DEF SenderInv, ChunksInOrder, NotifiedOnce, FirstFile
  <2> QED
    BY <1>2, <1>3, <2>2, <2>3 DEF SenderInv
<1> QED
  BY <1>4, <1>5

(* SendNextChunk of the first transfer, by whichever thread. *)
LEMMA SendChunkInv ==
  ASSUME SenderInv, transfers # <<>>, SendChunk(transfers[ConnectionId]),
         main' \in {"idle", "request", "first"}, file' \in Files \cup {NoFile}, chains' \in Nat
  PROVE  SenderInv'
<1> DEFINE t == transfers[ConnectionId]
           n == Len(sent)
           from == n * ChunkSize
           size == FileSize[t.file]
<1>1. /\ t \in Transfers /\ t = transfers[1] /\ 1 \in DOMAIN transfers
      /\ Progress(t) /\ ClientTypeOK /\ ChunksInOrder /\ NotifiedOnce
  BY DEF SenderInv, ClientTypeOK, ConnectionId
<1> PICK read \in 0 .. ChunkSize :
      LET p == NextChunk(t, read)
      IN /\ ~t.isCompleted /\ t.bytesSent < size
         /\ sent' = Append(sent, p) /\ sourceFailed' = (read < p.len)
         /\ transfers' = [transfers EXCEPT ![1] =
                            [t EXCEPT !.bytesSent = @ + p.len, !.chunksSent = @ + 1,
                                      !.isCompleted = p.isLast]]
         /\ notified' = IF p.isLast THEN Append(notified, t.file) ELSE notified
  BY DEF SendChunk, Completed, ConnectionId
<1> DEFINE p == NextChunk(t, read)
           u == [t EXCEPT !.bytesSent = @ + p.len, !.chunksSent = @ + 1, !.isCompleted = p.isLast]
<1>2. /\ ~t.isCompleted /\ t.bytesSent < size
      /\ sent' = Append(sent, p) /\ sourceFailed' \in BOOLEAN
      /\ transfers' = [transfers EXCEPT ![1] = u]
      /\ notified' = IF p.isLast THEN Append(notified, t.file) ELSE notified
  OBVIOUS
<1>3. /\ t.bytesSent = from /\ p \in ChunkPackets
      /\ p = Chunk(t.file, n, from, Lower(size - from, ChunkSize), size - from <= ChunkSize, read)
  <2>1. t \in Transfers /\ Progress(t) /\ ClientTypeOK /\ t.bytesSent < size
    BY <1>1, <1>2
  <2> HIDE DEF t
  <2> QED
    BY <2>1, NextOfProgress
<1>4. /\ n \in Nat /\ size \in Nat /\ ChunkSize \in Nat \ {0} /\ from \in Nat /\ t.file \in Files
      /\ (n + 1) * ChunkSize = from + ChunkSize
  <2>1. n \in Nat
    BY <1>1 DEF ClientTypeOK
  <2>2. t.file \in Files
    BY <1>1 DEF Transfers
  <2> HIDE DEF n, t
  <2> QED
    BY <2>1, <2>2, NextOffset, FileAssumption
<1>5. /\ p.len = Lower(size - from, ChunkSize) /\ p.isLast = (size - from <= ChunkSize)
      /\ p.len \in 1 .. ChunkSize
  BY <1>3 DEF Chunk, ChunkPackets
<1>0. /\ from + p.len = Lower(from + ChunkSize, size)
      /\ from + ChunkSize < size + ChunkSize
      /\ p.isLast => from + p.len = size /\ size <= from + ChunkSize
      /\ ~p.isLast => from + p.len < size
  <2> HIDE DEF p, from, size
  <2>1. from < size
    BY <1>2, <1>3
  <2>2. /\ from + Lower(size - from, ChunkSize) = Lower(from + ChunkSize, size)
        /\ from + ChunkSize < size + ChunkSize
        /\ size - from <= ChunkSize =>
             from + Lower(size - from, ChunkSize) = size /\ size <= from + ChunkSize
        /\ ~(size - from <= ChunkSize) => from + Lower(size - from, ChunkSize) < size
    BY <1>4, <2>1, NextEnd
  <2>3. p.isLast <=> size - from <= ChunkSize
    BY <1>5
  <2> QED
    BY <1>5, <2>2, <2>3
<1>6. notified = <<>>
  BY <1>1, <1>2 DEF Progress
<1>7. /\ u.file = t.file /\ u.bytesSent = from + p.len /\ u.chunksSent = n + 1
      /\ u.isCompleted = p.isLast /\ u \in Transfers
  <2>2. t.chunksSent = n /\ t.chunksSent \in Nat /\ t.bytesSent \in Nat
    BY <1>1 DEF Progress, Transfers
  <2> HIDE DEF p, from, n, size, t
  <2>1. p.isLast \in BOOLEAN /\ p.len \in Nat
    BY <1>3, FileAssumption DEF ChunkPackets
  <2>3. /\ t.bytesSent + p.len \in Nat /\ t.chunksSent + 1 \in Nat
        /\ t.bytesSent + p.len = from + p.len /\ t.chunksSent + 1 = n + 1
    <3>1. t.bytesSent = from
      BY <1>3
    <3> QED
      BY <2>1, <2>2, <3>1
  <2>4. /\ u \in Transfers /\ u.file = t.file
        /\ u.bytesSent = t.bytesSent + p.len /\ u.chunksSent = t.chunksSent + 1
        /\ u.isCompleted = p.isLast
    <3>1. t \in Transfers
      BY <1>1
    <3>2. u.file = t.file /\ u.bytesSent = t.bytesSent + p.len /\ u.chunksSent = t.chunksSent + 1
      BY <3>1 DEF Transfers
    <3>3. u.isCompleted = p.isLast
      BY <3>1 DEF Transfers
    <3>4. u \in Transfers
      BY <2>1, <2>3, <3>1 DEF Transfers
    <3> QED
      BY <3>2, <3>3, <3>4
  <2> HIDE DEF u
  <2> QED
    BY <2>3, <2>4
<1> HIDE DEF u, p
<1>8. transfers' \in Seq(Transfers) /\ transfers'[1] = u /\ transfers' # <<>>
  BY <1>1, <1>2, <1>7 DEF ClientTypeOK
<1>9. /\ sent \in Seq(ChunkPackets) /\ sent' \in Seq(ChunkPackets) /\ Len(sent') = n + 1
      /\ \A i \in 1 .. n : sent'[i] = sent[i]
      /\ sent'[n + 1] = p
  BY <1>1, <1>2, <1>3 DEF ClientTypeOK
<1>10. notified' = IF p.isLast THEN <<t.file>> ELSE <<>>
  BY <1>2, <1>6
<1>11. ClientTypeOK'
  BY <1>1, <1>2, <1>4, <1>8, <1>9, <1>10 DEF ClientTypeOK
<1>12. Progress(transfers[ConnectionId])'
  <2>3. sent' # <<>>
    BY <1>4, <1>9
  <2>0. Len(sent') = n + 1 /\ Len(sent') * ChunkSize = from + ChunkSize /\ FileSize[u.file] = size
    BY <1>4, <1>7, <1>9
  <2> HIDE DEF n, from, size, t
  <2>4. /\ u.chunksSent = Len(sent')
        /\ u.bytesSent = Lower(Len(sent') * ChunkSize, FileSize[u.file])
        /\ Len(sent') * ChunkSize < FileSize[u.file] + ChunkSize
    BY <1>7, <1>0, <2>0
  <2>5. IF u.isCompleted
          THEN u.bytesSent = FileSize[u.file] /\ notified' = <<u.file>>
          ELSE u.bytesSent < FileSize[u.file] + (IF sent' = <<>> THEN 1 ELSE 0) /\ notified' = <<>>
    <3>1. u.isCompleted = p.isLast /\ u.file = t.file /\ u.bytesSent = from + p.len
      BY <1>7
    <3>2. size \in Nat /\ FileSize[u.file] = size
      BY <1>4, <2>0
    <3>3. CASE p.isLast
      BY <1>10, <1>0, <3>1, <3>2, <3>3
    <3>4. CASE ~p.isLast
      <4>1. u.bytesSent < size + 0 /\ notified' = <<>>
        BY <1>10, <1>0, <3>1, <3>2, <3>4
      <4> QED
        BY <2>3, <3>1, <3>2, <3>4, <4>1
    <3> QED
      BY <3>3, <3>4
  <2> QED
    BY <1>8, <2>4, <2>5 DEF Progress, ConnectionId
<1>13. ChunksInOrder'
  <2>1. FirstFile = t.file /\ FirstFile' = t.file
    BY <1>1, <1>7, <1>8 DEF FirstFile
  <2>2. ASSUME NEW i \in DOMAIN sent'
        PROVE  sent'[i] = Chunk(t.file, i - 1, (i - 1) * ChunkSize,
                                Lower(size - (i - 1) * ChunkSize, ChunkSize),
                                size - (i - 1) * ChunkSize <= ChunkSize, sent'[i].read)
    <3>1. i \in 1 .. n \/ i = n + 1
      BY <1>4, <1>9
    <3>2. CASE i \in 1 .. n
      BY <1>1, <1>9, <2>1, <3>2 DEF ChunksInOrder
    <3>3. CASE i = n + 1
      <4>1. p.read = read
        BY <1>3 DEF Chunk
      <4> QED
        BY <1>3, <1>4, <1>9, <3>3, <4>1
    <3> QED
      BY <3>1, <3>2, <3>3
  <2> QED
    BY <2>1, <2>2 DEF ChunksInOrder
<1>14. NotifiedOnce'
  <2>1. FirstFile' = t.file
    BY <1>7, <1>8 DEF FirstFile
  <2>2. p.isLast => ChunksTotal(t.file) = n + 1
    <3> SUFFICES ASSUME p.isLast PROVE ChunksTotal(t.file) = n + 1
      OBVIOUS
    <3>1. size <= (n + 1) * ChunkSize /\ (n + 1) * ChunkSize < size + ChunkSize
      BY <1>4, <1>0
    <3>2. n + 1 \in Nat
      BY <1>4
    <3> QED
      BY <1>4, <3>1, <3>2, RoundedUp
  <2> QED
    BY <1>9, <1>10, <2>1, <2>2 DEF NotifiedOnce
<1> QED
  BY <1>8, <1>11, <1>12, <1>13, <1>14 DEF SenderInv

(* The transfer of an empty file is completed without a chunk. *)
LEMMA NothingLeftInv ==
  ASSUME SenderInv, transfers # <<>>, NothingLeft(transfers[ConnectionId]),
         main' \in {"idle", "request", "first"}, file' \in Files \cup {NoFile}, chains' \in Nat
  PROVE  SenderInv'
<1> DEFINE t == transfers[ConnectionId]
           u == [t EXCEPT !.isCompleted = TRUE]
<1>1. /\ t \in Transfers /\ t = transfers[1] /\ 1 \in DOMAIN transfers
      /\ Progress(t) /\ ClientTypeOK /\ ChunksInOrder /\ NotifiedOnce
  BY DEF SenderInv, ClientTypeOK, ConnectionId
<1>2. /\ ~t.isCompleted /\ t.bytesSent = FileSize[t.file]
      /\ transfers' = [transfers EXCEPT ![1] = u] /\ notified' = Append(notified, t.file)
      /\ sent' = sent /\ sourceFailed' = sourceFailed
  BY DEF NothingLeft, Completed, ConnectionId
<1>3. FileSize[t.file] \in Nat /\ t.file \in Files /\ ChunkSize \in Nat \ {0}
  BY <1>1, FileAssumption DEF Transfers
<1>4. sent = <<>> /\ notified' = <<t.file>>
  BY <1>1, <1>2, <1>3 DEF Progress
<1>5. /\ u \in Transfers /\ u.file = t.file /\ u.isCompleted
      /\ u.bytesSent = t.bytesSent /\ u.chunksSent = t.chunksSent
  BY <1>1 DEF Transfers
<1> HIDE DEF u
<1>6. transfers' \in Seq(Transfers) /\ transfers'[1] = u /\ transfers' # <<>>
  BY <1>1, <1>2, <1>5 DEF ClientTypeOK
<1>7. ClientTypeOK'
  BY <1>1, <1>2, <1>3, <1>4, <1>6 DEF ClientTypeOK
<1>8. Progress(transfers[ConnectionId])'
  BY <1>1, <1>2, <1>4, <1>5, <1>6 DEF Progress, ConnectionId
<1>9. ChunksInOrder'
  BY <1>2, <1>4 DEF ChunksInOrder
<1>10. NotifiedOnce'
  <2>1. FirstFile' = t.file
    BY <1>5, <1>6 DEF FirstFile
  <2>2. Len(sent) = 0 /\ 0 * ChunkSize = 0
    BY <1>3, <1>4
  <2>3. FileSize[t.file] = 0
    BY <1>1, <1>2, <1>3, <2>2 DEF Progress, Lower
  <2>4. ChunksTotal(t.file) = 0
    BY <1>3, <2>2, <2>3, RoundedUp
  <2> QED
    BY <1>2, <1>4, <2>1, <2>2, <2>4 DEF NotifiedOnce
<1> QED
  BY <1>6, <1>7, <1>8, <1>9, <1>10 DEF SenderInv

(* A call for a transfer that is completed changes nothing. *)
LEMMA AlreadyCompletedInv ==
  ASSUME SenderInv, transfers # <<>>, AlreadyCompleted(transfers[ConnectionId]),
         main' \in {"idle", "request", "first"}, file' \in Files \cup {NoFile}, chains' \in Nat
  PROVE  SenderInv'
<1>1. UNCHANGED <<transfers, sourceFailed, sent, notified>>
  BY DEF AlreadyCompleted
<1>2. ClientTypeOK'
  BY <1>1 DEF SenderInv, ClientTypeOK
<1> QED
  BY <1>1, <1>2 DEF SenderInv, Progress, ChunksInOrder, NotifiedOnce, FirstFile, ConnectionId

(* A read that fails changes nothing but the stream. *)
LEMMA ReadFailsInv ==
  ASSUME SenderInv, transfers # <<>>, ReadFails(transfers[ConnectionId]),
         main' \in {"idle", "request", "first"}, file' \in Files \cup {NoFile}, chains' \in Nat
  PROVE  SenderInv'
<1>1. UNCHANGED <<transfers, sent, notified>> /\ sourceFailed' = TRUE
  BY DEF ReadFails
<1>2. ClientTypeOK'
  BY <1>1 DEF SenderInv, ClientTypeOK
<1> QED
  BY <1>1, <1>2 DEF SenderInv, Progress, ChunksInOrder, NotifiedOnce, FirstFile, ConnectionId

(* SendNextChunk, which the main thread calls or a detached thread.        *)
LEMMA SendNextChunkInv ==
  ASSUME SenderInv, NEW started \in {0, 1}, started <= chains, SendNextChunk(started),
         transfers # <<>>, main' \in {"idle", "request", "first"}, file' \in Files \cup {NoFile}
  PROVE  SenderInv'
<1>1. chains' \in Nat
  BY DEF SendNextChunk, SenderInv, ClientTypeOK
<1> QED
  BY <1>1, SendChunkInv, NothingLeftInv, AlreadyCompletedInv, ReadFailsInv DEF SendNextChunk

(* The steps of the server and the connection leave the client alone.      *)
LEMMA OtherStepInv ==
  ASSUME SenderInv, UNCHANGED <<transfers, chains, sourceFailed, sent, notified>>,
         main' \in {"idle", "request", "first"}, file' \in Files \cup {NoFile},
         transfers = <<>> => main' = "idle"
  PROVE  SenderInv'
<1>1. ClientTypeOK'
  BY DEF SenderInv, ClientTypeOK
<1> QED
  BY <1>1 DEF SenderInv, Progress, ChunksInOrder, NotifiedOnce, FirstFile, ConnectionId

(* Every step. *)
LEMMA StepSenderInv == SenderInv /\ [Next]_vars => SenderInv'
<1> SUFFICES ASSUME SenderInv, [Next]_vars PROVE SenderInv'
  OBVIOUS
<1>0. /\ main \in {"idle", "request", "first"} /\ file \in Files \cup {NoFile} /\ chains \in Nat
      /\ transfers = <<>> => main = "idle" /\ chains = 0
  BY DEF SenderInv, ClientTypeOK
<1>1. CASE \E f \in Files : StartFileSend(f)
  BY <1>1, StartFileSendInv
<1>2. CASE SendRequest
  BY <1>0, <1>2, OtherStepInv DEF SendRequest
<1>3. CASE SendFirstChunk
  BY <1>0, <1>3, SendNextChunkInv DEF SendFirstChunk
<1>4. CASE ContinueTransfer
  BY <1>0, <1>4, SendNextChunkInv DEF ContinueTransfer
<1>5. CASE Server \/ Disconnect
  BY <1>0, <1>5, OtherStepInv DEF Server, HandleFileRequest, RequestFails, HandleFileChunk, DiskRefuses,
    DropChunk, Receive, Disconnect, clientVars
<1>6. CASE UNCHANGED vars
  BY <1>0, <1>6, OtherStepInv DEF vars, clientVars
<1> QED
  BY <1>1, <1>2, <1>3, <1>4, <1>5, <1>6 DEF Next, MainThread

LEMMA Appended ==
  ASSUME NEW S, NEW s \in Seq(S), NEW e \in S
  PROVE  Append(s, e) \in Seq(S)
OBVIOUS

(* The packets are typed, and so is what the server makes of them. *)
LEMMA PacketsTyped ==
  /\ \A f \in Files : Request(f) \in Packets
  /\ ChunkPackets \subseteq Packets
BY DEF Request, Packets

LEMMA InitServerTypeOK == Init => ServerTypeOK /\ main = "idle"
<1> SUFFICES ASSUME Init PROVE ServerTypeOK /\ main = "idle"
  OBVIOUS
<1>1. /\ connected = TRUE /\ diskFailed = FALSE /\ main = "idle"
      /\ channel = <<>> /\ received = <<>> /\ reported = <<>> /\ disk = <<>> /\ backup = <<>>
  BY DEF Init
<1>2. channel \in Seq(Packets) /\ received \in Seq(Receptions) /\ reported \in Seq(Files)
  <2>1. <<>> \in Seq(Packets) /\ <<>> \in Seq(Receptions) /\ <<>> \in Seq(Files)
    OBVIOUS
  <2> QED
    BY <1>1, <2>1, Zenon
<1>3. DOMAIN disk = {} /\ DOMAIN backup = {}
  <2>1. DOMAIN <<>> = {}
    OBVIOUS
  <2> QED
    BY <1>1, <2>1, Zenon
<1> QED
  BY <1>1, <1>2, <1>3 DEF ServerTypeOK

(* What Carried and SubSeq leave of the channel is typed. *)
LEMMA CarriedTyped ==
  ASSUME ServerTypeOK, NEW p \in Packets
  PROVE  Carried(p) \in Seq(Packets)
BY DEF ServerTypeOK, Carried

LEMMA SendNextChunkTyped ==
  ASSUME SenderInv, ServerTypeOK, NEW started \in {0, 1}, SendNextChunk(started), transfers # <<>>
  PROVE  channel' \in Seq(Packets)
<1> DEFINE t == transfers[ConnectionId]
<1>1. CASE channel' = channel
  BY <1>1 DEF ServerTypeOK
<1>2. CASE SendChunk(t)
  <2>1. t \in Transfers /\ Progress(t) /\ ClientTypeOK
    BY DEF SenderInv, ClientTypeOK, ConnectionId
  <2>2. PICK read \in 0 .. ChunkSize :
          t.bytesSent < FileSize[t.file] /\ channel' = Carried(NextChunk(t, read))
    BY <1>2 DEF SendChunk
  <2> HIDE DEF t
  <2>3. NextChunk(t, read) \in Packets
    BY <2>1, <2>2, NextOfProgress, PacketsTyped
  <2> QED
    BY <2>2, <2>3, CarriedTyped
<1> QED
  BY <1>1, <1>2 DEF SendNextChunk, AlreadyCompleted, NothingLeft, ReadFails

(* A chunk is counted in a context that takes the place of the newest.     *)
LEMMA ContextTyped ==
  ASSUME received \in Seq(Receptions), received # <<>>, NEW c \in Receptions, Context(c)
  PROVE  received' \in Seq(Receptions)
BY DEF Context, Front

LEMMA CountTyped ==
  ASSUME received \in Seq(Receptions), received # <<>>, reported \in Seq(Files),
         NEW c \in Receptions, NEW p \in ChunkPackets, CountChunk(c, p)
  PROVE  received' \in Seq(Receptions) /\ reported' \in Seq(Files)
<1> DEFINE r == [c EXCEPT !.bytesReceived = @ + p.len, !.chunksReceived = @ + 1,
                          !.isCompleted = @ \/ AllReceived(c, p)]
<1>1. p.len \in Nat /\ p.isLast \in BOOLEAN /\ AllReceived(c, p) \in BOOLEAN /\ c.file \in Files
  BY FileAssumption DEF ChunkPackets, AllReceived, Receptions
<1>2. /\ (c.isCompleted \/ AllReceived(c, p)) \in BOOLEAN
      /\ c.bytesReceived + p.len \in Nat /\ c.chunksReceived + 1 \in Nat
  BY <1>1 DEF Receptions
<1>3. r \in Receptions
  BY <1>2 DEF Receptions
<1>4. Context(r) /\ (reported' = reported \/ reported' = Append(reported, c.file))
  BY DEF CountChunk
<1> HIDE DEF r
<1>5. received' \in Seq(Receptions)
  BY <1>3, <1>4, ContextTyped
<1>6. Append(reported, c.file) \in Seq(Files)
  BY <1>1, Appended
<1> QED
  BY <1>4, <1>5, <1>6, Zenon

(* The server's handlers. *)
LEMMA ServerStepTyped ==
  ASSUME ServerTypeOK, Server
  PROVE  ServerTypeOK'
<1> DEFINE p == Head(channel)
<1>1. /\ channel # <<>> /\ channel' = Tail(channel) /\ UNCHANGED connected
      /\ channel \in Seq(Packets)
  BY DEF Server, HandleFileRequest, RequestFails, HandleFileChunk, DiskRefuses, DropChunk, Receive, ServerTypeOK
<1>2. p \in Packets /\ channel' \in Seq(Packets)
  BY <1>1
<1>3. p.file \in Files
  BY <1>2 DEF Packets, ChunkPackets
<1>4. CASE HandleFileRequest \/ RequestFails
  <2>1. DOMAIN backup' = DOMAIN backup \cup ({p.file} \cap DOMAIN disk)
    BY <1>4 DEF HandleFileRequest, RequestFails, BackUp
  <2>2. DOMAIN disk' \subseteq DOMAIN disk \cup {p.file}
    BY <1>4 DEF HandleFileRequest, RequestFails, DiskWith
  <2>3. received' \in Seq(Receptions)
    <3> DEFINE r == [file |-> p.file, redirected |-> FALSE, bytesReceived |-> 0,
                     chunksReceived |-> 0, isCompleted |-> FALSE]
    <3>1. r \in Receptions
      BY <1>3 DEF Receptions
    <3>2. received' = received \/ received' = Append(received, r)
      BY <1>4 DEF HandleFileRequest, RequestFails
    <3>3. received \in Seq(Receptions)
      BY DEF ServerTypeOK
    <3> HIDE DEF r
    <3>4. Append(received, r) \in Seq(Receptions)
      BY <3>1, <3>3, Appended
    <3> QED
      BY <3>2, <3>3, <3>4, Zenon
  <2>4. UNCHANGED reported /\ diskFailed' \in BOOLEAN
    BY <1>4 DEF HandleFileRequest, RequestFails, ServerTypeOK
  <2> QED
    BY <1>1, <1>2, <1>3, <2>1, <2>2, <2>3, <2>4 DEF ServerTypeOK
<1>5. CASE HandleFileChunk \/ DiskRefuses
  <2> DEFINE c == Last(received)
             other == [c EXCEPT !.redirected = TRUE]
  <2>1. received # <<>> /\ received \in Seq(Receptions) /\ p.type = "chunk"
    BY <1>5 DEF HandleFileChunk, DiskRefuses, Receive, ServerTypeOK
  <2>2. c \in Receptions /\ c.file \in Files /\ other \in Receptions /\ other.file = c.file
    <3>1. c \in Receptions
      BY <2>1 DEF Last
    <3> HIDE DEF c
    <3> QED
      BY <3>1 DEF Receptions
  <2>3. p \in ChunkPackets
    BY <1>2, <2>1 DEF Packets
  <2>4. DOMAIN disk' \subseteq DOMAIN disk \cup {c.file}
    BY <1>5 DEF HandleFileChunk, DiskRefuses, DiskWith
  <2>5. UNCHANGED backup /\ diskFailed' \in BOOLEAN
    BY <1>5 DEF HandleFileChunk, DiskRefuses, ServerTypeOK
  <2>6. \/ CountChunk(c, p) \/ CountChunk(other, p)
        \/ Context(other) /\ UNCHANGED reported
        \/ UNCHANGED <<received, reported>>
    BY <1>5 DEF HandleFileChunk, DiskRefuses
  <2>7. received' \in Seq(Receptions) /\ reported' \in Seq(Files)
    <3>1. received \in Seq(Receptions) /\ reported \in Seq(Files)
      BY DEF ServerTypeOK
    <3> HIDE DEF c, other, p
    <3> QED
      BY <2>1, <2>2, <2>3, <2>6, <3>1, CountTyped, ContextTyped
  <2>8. DOMAIN disk' \subseteq Files /\ DOMAIN backup' \subseteq Files
    BY <2>2, <2>4, <2>5 DEF ServerTypeOK
  <2>9. connected' \in BOOLEAN /\ channel' \in Seq(Packets)
    BY <1>1, <1>2 DEF ServerTypeOK
  <2> QED
    BY <2>5, <2>7, <2>8, <2>9 DEF ServerTypeOK
<1>6. CASE DropChunk
  BY <1>1, <1>2, <1>6 DEF DropChunk, serverVars, ServerTypeOK
<1> QED
  BY <1>4, <1>5, <1>6 DEF Server

(* Every step keeps the server's types; a request names its file. *)
LEMMA StepTyped ==
  TransferInv /\ [Next]_vars => ServerTypeOK' /\ (main = "request" => file \in Files)'
<1> SUFFICES ASSUME TransferInv, [Next]_vars
             PROVE  ServerTypeOK' /\ (main' = "request" => file' \in Files)
  OBVIOUS
<1>0. SenderInv /\ ServerTypeOK /\ (main = "request" => file \in Files)
      /\ (transfers = <<>> => main = "idle" /\ chains = 0)
  BY DEF TransferInv, TypeOK, SenderInv
<1>1. CASE \E f \in Files : StartFileSend(f)
  BY <1>0, <1>1 DEF StartFileSend, serverVars, ServerTypeOK
<1>2. CASE SendRequest
  <2>1. main = "request" /\ main' = "first" /\ channel' = Carried(Request(file))
        /\ UNCHANGED <<connected, serverVars>>
    BY <1>2 DEF SendRequest
  <2>2. channel' \in Seq(Packets)
    BY <1>0, <2>1, PacketsTyped, CarriedTyped
  <2> QED
    BY <1>0, <2>1, <2>2 DEF serverVars, ServerTypeOK
<1>3. CASE SendFirstChunk \/ ContinueTransfer
  <2>1. /\ \E started \in {0, 1} : SendNextChunk(started)
        /\ transfers # <<>>
        /\ UNCHANGED <<connected, serverVars>>
        /\ main' = "idle" \/ UNCHANGED <<main, file>>
    BY <1>0, <1>3 DEF SendFirstChunk, ContinueTransfer, SenderInv, ClientTypeOK
  <2>2. channel' \in Seq(Packets)
    BY <1>0, <2>1, SendNextChunkTyped
  <2> QED
    BY <1>0, <2>1, <2>2 DEF serverVars, ServerTypeOK
<1>4. CASE Server
  <2>1. UNCHANGED <<main, file>>
    BY <1>4 DEF Server, HandleFileRequest, RequestFails, HandleFileChunk, DiskRefuses, DropChunk, Receive,
      clientVars
  <2> QED
    BY <1>0, <1>4, <2>1, ServerStepTyped
<1>5. CASE Disconnect
  <2>1. /\ connected' = FALSE /\ UNCHANGED <<main, file, serverVars>>
        /\ \E n \in 0 .. Len(channel) : channel' = SubSeq(channel, 1, n)
    BY <1>5 DEF Disconnect, clientVars
  <2>2. channel' \in Seq(Packets)
    BY <1>0, <2>1 DEF ServerTypeOK
  <2> QED
    BY <1>0, <2>1, <2>2 DEF serverVars, ServerTypeOK
<1>6. CASE UNCHANGED vars
  BY <1>0, <1>6 DEF vars, clientVars, serverVars, ServerTypeOK
<1> QED
  BY <1>1, <1>2, <1>3, <1>4, <1>5, <1>6 DEF Next, MainThread

(* The inductive invariant: the context of the first transfer counts       *)
(* exactly the chunks that went out (FileTransfer.cpp:314-375), and the    *)
(* server's contexts and files are those of packets it received.           *)
THEOREM TransferInvariant == Spec => []TransferInv
<1>1. Init => TransferInv
  BY InitSenderInv, InitServerTypeOK DEF TransferInv, TypeOK, SenderInv
<1>2. TransferInv /\ [Next]_vars => TransferInv'
  <2>1. TransferInv => SenderInv
    BY DEF TransferInv
  <2> QED
    BY <2>1, StepSenderInv, StepTyped DEF TransferInv, TypeOK, SenderInv
<1> QED
  BY <1>1, <1>2, PTL DEF Spec

(* For any files, any chunk size and any number of threads that continue   *)
(* the transfer: its chunks go out once each and in order, and it is       *)
(* reported once, after the last of them (FileTransfer.cpp:300-375).       *)
THEOREM ChunksOnceInOrder == Spec => []ChunksInOrder
<1>1. TransferInv => ChunksInOrder
  BY DEF TransferInv, SenderInv
<1> QED
  BY <1>1, TransferInvariant, PTL

(* The client reports the transfer once, after every chunk went out.       *)
THEOREM NotifiedAtEnd == Spec => []NotifiedOnce
<1>1. TransferInv => NotifiedOnce
  BY DEF TransferInv, SenderInv
<1> QED
  BY <1>1, TransferInvariant, PTL

-----------------------------------------------------------------------------
(* The server's side.  First, what the client's steps give to the session: *)
(* the request, or the next chunk of the first file.                       *)
NextPacket(read) ==
  Chunk(FirstFile, Len(sent), Len(sent) * ChunkSize,
        Lower(FileSize[FirstFile] - Len(sent) * ChunkSize, ChunkSize),
        FileSize[FirstFile] - Len(sent) * ChunkSize <= ChunkSize, read)

LEMMA FirstFileTyped ==
  ASSUME SenderInv, transfers # <<>>
  PROVE  /\ FirstFile \in Files /\ FileSize[FirstFile] \in Nat
         /\ Len(sent) \in Nat /\ Len(sent) * ChunkSize < FileSize[FirstFile] + ChunkSize
         /\ transfers \in Seq(Transfers) /\ sent \in Seq(ChunkPackets)
<1>1. transfers[1] \in Transfers /\ Progress(transfers[1]) /\ sent \in Seq(ChunkPackets)
  BY DEF SenderInv, ClientTypeOK, ConnectionId
<1> QED
  BY <1>1, FileAssumption DEF FirstFile, Transfers, Progress, SenderInv, ClientTypeOK

LEMMA SendNextChunkSends ==
  ASSUME SenderInv, NEW started \in {0, 1}, SendNextChunk(started), transfers # <<>>
  PROVE  /\ transfers' # <<>> /\ FirstFile' = FirstFile /\ Len(transfers') = Len(transfers)
         /\ \/ UNCHANGED <<channel, sent>>
            \/ \E read \in 0 .. ChunkSize :
                 /\ channel' = Carried(NextPacket(read)) /\ sent' = Append(sent, NextPacket(read))
                 /\ NextPacket(read) \in ChunkPackets
                 /\ ~sourceFailed' => read = NextPacket(read).len
                 /\ Len(sent) * ChunkSize < FileSize[FirstFile]
<1> DEFINE t == transfers[ConnectionId]
<1>1. /\ t \in Transfers /\ t = transfers[1] /\ Progress(t) /\ ClientTypeOK
      /\ transfers \in Seq(Transfers) /\ 1 \in DOMAIN transfers
  BY DEF SenderInv, ClientTypeOK, ConnectionId
<1>2. CASE AlreadyCompleted(t) \/ ReadFails(t)
  BY <1>2 DEF AlreadyCompleted, ReadFails, FirstFile
<1>3. ASSUME NEW u \in Transfers, u.file = t.file, transfers' = [transfers EXCEPT ![1] = u]
      PROVE  transfers' # <<>> /\ FirstFile' = FirstFile /\ Len(transfers') = Len(transfers)
  <2>1. Len(transfers') = Len(transfers) /\ transfers' \in Seq(Transfers) /\ transfers'[1] = u
    BY <1>1, <1>3, ExceptSeq
  <2>2. Len(transfers) # 0
    BY <1>1, EmptySeq
  <2> QED
    BY <1>1, <1>3, <2>1, <2>2, EmptySeq DEF FirstFile
<1>4. CASE NothingLeft(t)
  <2> DEFINE u == [t EXCEPT !.isCompleted = TRUE]
  <2>1. u \in Transfers /\ u.file = t.file
    BY <1>1 DEF Transfers
  <2>2. transfers' = [transfers EXCEPT ![1] = u] /\ UNCHANGED <<channel, sent>>
    BY <1>4 DEF NothingLeft, ConnectionId
  <2> HIDE DEF u, t
  <2> QED
    BY <1>3, <2>1, <2>2
<1>5. CASE SendChunk(t)
  <2>0. PICK read \in 0 .. ChunkSize :
          LET p == NextChunk(t, read)
          IN /\ t.bytesSent < FileSize[t.file] /\ channel' = Carried(p) /\ sent' = Append(sent, p)
             /\ read <= p.len /\ sourceFailed' = (read < p.len)
             /\ transfers' = [transfers EXCEPT ![1] =
                                [t EXCEPT !.bytesSent = @ + p.len, !.chunksSent = @ + 1,
                                          !.isCompleted = p.isLast]]
    BY <1>5 DEF SendChunk, ConnectionId
  <2> DEFINE p == NextChunk(t, read)
             u == [t EXCEPT !.bytesSent = @ + p.len, !.chunksSent = @ + 1, !.isCompleted = p.isLast]
  <2>1. /\ t.bytesSent < FileSize[t.file] /\ channel' = Carried(p) /\ sent' = Append(sent, p)
        /\ read <= p.len /\ sourceFailed' = (read < p.len)
        /\ transfers' = [transfers EXCEPT ![1] = u]
    BY <2>0
  <2>2. t.bytesSent = Len(sent) * ChunkSize /\ p = NextPacket(read) /\ p \in ChunkPackets
    <3> HIDE DEF t
    <3> QED
      BY <1>1, <2>1, NextOfProgress DEF NextPacket, FirstFile
  <2>3. u \in Transfers /\ u.file = t.file
    <3>1. p.len \in Nat /\ p.isLast \in BOOLEAN
      BY <2>2, FileAssumption DEF ChunkPackets
    <3> HIDE DEF p
    <3>2. t.bytesSent + p.len \in Nat /\ t.chunksSent + 1 \in Nat
      BY <1>1, <3>1 DEF Transfers
    <3> HIDE DEF t
    <3> QED
      BY <1>1, <3>1, <3>2 DEF Transfers
  <2>4. Len(sent) * ChunkSize < FileSize[FirstFile]
    BY <1>1, <2>1, <2>2 DEF FirstFile
  <2>5. ~sourceFailed' => read = p.len
    <3> HIDE DEF p
    <3>1. p.len \in Nat /\ read \in Nat
      BY <2>2, FileAssumption DEF ChunkPackets
    <3>2. ~sourceFailed' => ~(read < p.len)
      BY <2>1, Zenon
    <3> QED
      BY <2>1, <3>1, <3>2
  <2> HIDE DEF u, p, t
  <2> QED
    BY <1>3, <2>1, <2>2, <2>3, <2>4, <2>5
<1> QED
  BY <1>2, <1>4, <1>5 DEF SendNextChunk

(* The next chunk is in its place in the file.                             *)
LEMMA NextPacketInPlace ==
  ASSUME SenderInv, transfers # <<>>, NEW read \in 0 .. ChunkSize,
         NextPacket(read) \in ChunkPackets,
         Len(sent) * ChunkSize < FileSize[FirstFile]
  PROVE  InPlace(NextPacket(read))
<1>1. /\ FileSize[FirstFile] \in Nat /\ Len(sent) \in Nat /\ Len(sent) * ChunkSize \in Nat
      /\ ChunkSize \in Nat
  BY FirstFileTyped, NextOffset, FileAssumption
<1>2. /\ NextPacket(read).file = FirstFile /\ NextPacket(read).id = Len(sent)
      /\ NextPacket(read).from = Len(sent) * ChunkSize
      /\ NextPacket(read).len = Lower(FileSize[FirstFile] - Len(sent) * ChunkSize, ChunkSize)
  BY DEF NextPacket, Chunk
<1>3. ASSUME NEW from \in Nat, NEW size \in Nat, from < size
      PROVE  from + Lower(size - from, ChunkSize) <= size
  BY <1>1, <1>3 DEF Lower
<1>4. NextPacket(read).from + NextPacket(read).len <= FileSize[FirstFile]
  BY <1>1, <1>2, <1>3
<1> QED
  BY <1>2, <1>4 DEF InPlace

(* What the client and a disconnect do to the channel and the first file.  *)
LEMMA OwnPacketsStay ==
  ASSUME TransferInv, ReceiverInv, transfers # <<>>, transfers' # <<>>, FirstFile' = FirstFile,
         UNCHANGED serverVars, channel' \in Seq(Packets),
         \A i \in DOMAIN channel' :
           \/ \E j \in DOMAIN channel : channel'[i] = channel[j]
           \/ channel'[i].type = "chunk" => InPlace(channel'[i])
  PROVE  ReceiverInv'
<1>1. \A i \in DOMAIN channel' : channel'[i].type = "chunk" => InPlace(channel'[i])
  BY DEF ReceiverInv
<1>2. (\A i \in DOMAIN channel : channel[i].type = "chunk" => InPlace(channel[i]))'
  BY <1>1 DEF InPlace
<1>3. FirstFileIntact'
  BY DEF FirstFileIntact, ReceiverInv, serverVars
<1> QED
  BY <1>2, <1>3 DEF ReceiverInv

LEMMA ClientStepReceiver ==
  ASSUME TransferInv, ReceiverInv,
         (\E f \in Files : StartFileSend(f)) \/ SendRequest \/ SendFirstChunk \/ ContinueTransfer
  PROVE  ReceiverInv'
<1>0. /\ SenderInv /\ ServerTypeOK /\ channel \in Seq(Packets) /\ transfers \in Seq(Transfers)
      /\ transfers = <<>> => main = "idle" /\ chains = 0
      /\ main = "request" => file \in Files
  BY DEF TransferInv, TypeOK, SenderInv, ServerTypeOK, ClientTypeOK
<1>1. ASSUME NEW f \in Files, StartFileSend(f) PROVE ReceiverInv'
  <2> DEFINE new == [file |-> f, bytesSent |-> 0, chunksSent |-> 0, isCompleted |-> FALSE]
  <2>1. /\ transfers' = Append(transfers, new) /\ new \in Transfers
        /\ UNCHANGED <<channel, received, disk, backup, reported, diskFailed>>
    BY <1>1 DEF StartFileSend, serverVars, Transfers
  <2> HIDE DEF new
  <2>2. transfers' # <<>> /\ transfers' \in Seq(Transfers)
    BY <1>0, <2>1, AppendProperties
  <2>3. CASE transfers = <<>>
    <3>1. channel' = <<>> /\ DOMAIN disk' = {}
      BY <2>1, <2>3 DEF ReceiverInv
    <3> QED
      BY <2>2, <3>1 DEF ReceiverInv, FirstFileIntact
  <2>4. CASE transfers # <<>>
    <3>1. FirstFile' = FirstFile
      BY <1>0, <2>1, <2>4 DEF FirstFile
    <3> QED
      BY <1>0, <2>1, <2>2, <2>4, <3>1, OwnPacketsStay DEF serverVars
  <2> QED
    BY <2>3, <2>4
<1>2. CASE SendRequest
  <2>1. /\ UNCHANGED <<transfers, serverVars>> /\ transfers # <<>>
        /\ channel' = Carried(Request(file)) /\ Request(file) \in Packets
        /\ Request(file).type # "chunk"
    BY <1>0, <1>2, PacketsTyped DEF SendRequest, Request
  <2>2. channel' \in Seq(Packets)
    BY <1>0, <2>1, CarriedTyped
  <2>3. \A i \in DOMAIN channel' :
          (\E j \in DOMAIN channel : channel'[i] = channel[j]) \/ channel'[i] = Request(file)
    BY <1>0, <2>1, AppendProperties DEF Carried
  <2>4. FirstFile' = FirstFile
    BY <2>1 DEF FirstFile
  <2> QED
    BY <2>1, <2>2, <2>3, <2>4, OwnPacketsStay
<1>3. CASE SendFirstChunk \/ ContinueTransfer
  <2>1. /\ \E started \in {0, 1} : SendNextChunk(started)
        /\ transfers # <<>> /\ UNCHANGED serverVars
    BY <1>0, <1>3 DEF SendFirstChunk, ContinueTransfer
  <2>2. /\ transfers' # <<>> /\ FirstFile' = FirstFile
        /\ \/ UNCHANGED <<channel, sent>>
           \/ \E read \in 0 .. ChunkSize :
                /\ channel' = Carried(NextPacket(read)) /\ NextPacket(read) \in Packets
                /\ InPlace(NextPacket(read))
    BY <1>0, <2>1, SendNextChunkSends, NextPacketInPlace, PacketsTyped
  <2>3. channel' \in Seq(Packets)
    BY <1>0, <2>2, CarriedTyped
  <2>4. \A i \in DOMAIN channel' :
          \/ \E j \in DOMAIN channel : channel'[i] = channel[j]
          \/ \E read \in 0 .. ChunkSize :
               channel'[i] = NextPacket(read) /\ InPlace(NextPacket(read))
    BY <1>0, <2>2, AppendProperties DEF Carried
  <2> QED
    BY <2>1, <2>2, <2>3, <2>4, OwnPacketsStay
<1> QED
  BY <1>1, <1>2, <1>3

LEMMA DisconnectReceiver ==
  ASSUME TransferInv, ReceiverInv, Disconnect
  PROVE  ReceiverInv'
<1>1. PICK n \in 0 .. Len(channel) : channel' = SubSeq(channel, 1, n)
  BY DEF Disconnect
<1>2. UNCHANGED <<transfers, serverVars>> /\ channel \in Seq(Packets)
  BY DEF Disconnect, clientVars, TransferInv, TypeOK, ServerTypeOK
<1>3. /\ channel' \in Seq(Packets)
      /\ \A i \in DOMAIN channel' : i \in DOMAIN channel /\ channel'[i] = channel[i]
  BY <1>1, <1>2
<1>4. CASE transfers = <<>>
  <2>1. channel' = <<>>
    BY <1>1, <1>4, SubSeqEmpty DEF ReceiverInv
  <2> QED
    BY <1>2, <1>4, <2>1 DEF ReceiverInv, FirstFileIntact, serverVars
<1>5. CASE transfers # <<>>
  BY <1>2, <1>3, <1>5, OwnPacketsStay DEF FirstFile
<1> QED
  BY <1>4, <1>5

(* What the disk holds of the first file after a chunk is written.         *)
Intact(content) ==
  /\ DOMAIN content = 0 .. FileSize[FirstFile] - 1
  /\ \A o \in DOMAIN content : content[o] \in {Zero, <<FirstFile, o>>}

LEMMA ContentIntact ==
  ASSUME FirstFileIntact, transfers # <<>>
  PROVE  Intact(Content(FirstFile))
<1>1. Intact(Preallocated(FirstFile))
  BY DEF Intact, Preallocated
<1> QED
  BY <1>1 DEF FirstFileIntact, Intact, Content

LEMMA WrittenIntact ==
  ASSUME NEW p \in ChunkPackets, InPlace(p), NEW n \in 0 .. p.len, NEW content, Intact(content),
         FileSize[FirstFile] \in Nat
  PROVE  Intact(Written(content, [p EXCEPT !.len = n]))
<1> DEFINE q == [p EXCEPT !.len = n]
           at == Offset(q) .. Offset(q) + q.len - 1
<1>1. /\ p.file = FirstFile /\ p.from = p.id * ChunkSize /\ p.from \in Nat /\ p.len \in Nat
      /\ p.from + p.len <= FileSize[FirstFile]
  BY FileAssumption DEF InPlace, ChunkPackets
<1>2. q.file = p.file /\ q.from = p.from /\ q.id = p.id /\ q.len = n
  BY DEF ChunkPackets
<1>3. /\ q.file = FirstFile /\ q.from = Offset(q) /\ q.from \in Nat /\ q.len \in Nat
      /\ q.from + q.len <= FileSize[FirstFile]
  BY <1>1, <1>2 DEF Offset
<1> HIDE DEF q
<1>4. at \subseteq 0 .. FileSize[FirstFile] - 1
  BY <1>3
<1>5. \A o \in at : q.from + (o - Offset(q)) = o
  BY <1>3
<1>6. /\ DOMAIN Written(content, q) = DOMAIN content \cup at
      /\ \A o \in DOMAIN content \cup at :
           \/ o \notin at /\ Written(content, q)[o] = content[o]
           \/ Written(content, q)[o] \in {Zero, <<q.file, q.from + (o - Offset(q))>>}
  BY DEF Written
<1> HIDE DEF at
<1>7. DOMAIN Written(content, q) = 0 .. FileSize[FirstFile] - 1
  BY <1>4, <1>6 DEF Intact
<1>8. \A o \in DOMAIN Written(content, q) : Written(content, q)[o] \in {Zero, <<FirstFile, o>>}
  BY <1>3, <1>5, <1>6 DEF Intact
<1> QED
  BY <1>7, <1>8 DEF Intact, q

(* A file is given a new content: the first file's must be intact.         *)
LEMMA DiskWithIntact ==
  ASSUME transfers # <<>>, FirstFile' = FirstFile, FirstFileIntact, diskFailed => diskFailed',
         NEW f, NEW content, disk' = DiskWith(f, content),
         f = FirstFile => Intact(content) \/ (content = <<>> /\ diskFailed')
  PROVE  FirstFileIntact'
<1>1. CASE f = FirstFile
  <2>1. disk'[FirstFile] = content
    BY <1>1 DEF DiskWith
  <2>2. content = <<>> => DOMAIN content = {}
    OBVIOUS
  <2> QED
    BY <1>1, <2>1, <2>2 DEF FirstFileIntact, Intact
<1>2. CASE f # FirstFile
  <2>1. /\ FirstFile \in DOMAIN disk' => FirstFile \in DOMAIN disk
        /\ FirstFile \in DOMAIN disk => disk'[FirstFile] = disk[FirstFile]
    BY <1>2 DEF DiskWith
  <2> QED
    BY <2>1 DEF FirstFileIntact
<1> QED
  BY <1>1, <1>2

(* The server's steps: a file of another name is not the first file.       *)
LEMMA ServerStepReceiver ==
  ASSUME TransferInv, ReceiverInv, Server
  PROVE  ReceiverInv'
<1> DEFINE p == Head(channel)
<1>1. /\ channel # <<>> /\ channel' = Tail(channel) /\ UNCHANGED transfers
      /\ channel \in Seq(Packets) /\ received \in Seq(Receptions)
  BY DEF Server, HandleFileRequest, RequestFails, HandleFileChunk, DiskRefuses, DropChunk, Receive, clientVars,
    TransferInv, TypeOK, ServerTypeOK
<1>2. /\ transfers # <<>> /\ FirstFile' = FirstFile
      /\ FirstFile \in Files /\ FileSize[FirstFile] \in Nat
  BY <1>1, FirstFileTyped DEF ReceiverInv, FirstFile, TransferInv
<1>3. /\ p \in Packets /\ p = channel[1] /\ 1 \in DOMAIN channel
      /\ \A i \in DOMAIN channel' : i + 1 \in DOMAIN channel /\ channel'[i] = channel[i + 1]
  BY <1>1
<1>4. (\A i \in DOMAIN channel : channel[i].type = "chunk" => InPlace(channel[i]))'
  <2>1. \A i \in DOMAIN channel' : channel'[i].type = "chunk" => InPlace(channel'[i])
    BY <1>3 DEF ReceiverInv
  <2> QED
    BY <1>2, <2>1 DEF InPlace
<1>5. FirstFileIntact /\ (p.type = "chunk" => InPlace(p))
  BY <1>3 DEF ReceiverInv
<1>6. FirstFileIntact'
  <2>1. CASE HandleFileRequest
    <3>1. disk' = DiskWith(p.file, Preallocated(p.file)) /\ diskFailed' = diskFailed
      BY <2>1 DEF HandleFileRequest
    <3>2. Intact(Preallocated(FirstFile))
      BY DEF Intact, Preallocated
    <3> HIDE DEF p
    <3> QED
      BY <1>2, <1>5, <3>1, <3>2, DiskWithIntact
  <2>2. CASE RequestFails
    <3>1. PICK left \in SUBSET {p.file} :
            disk' = [g \in (DOMAIN disk \ {p.file}) \cup left |->
                       IF g = p.file THEN <<>> ELSE disk[g]]
      BY <2>2 DEF RequestFails
    <3>2. diskFailed' = TRUE
      BY <2>2 DEF RequestFails
    <3>3. CASE p.file = FirstFile
      <4>1. FirstFile \in DOMAIN disk' => disk'[FirstFile] = <<>> /\ DOMAIN disk'[FirstFile] = {}
        BY <3>1, <3>3
      <4> QED
        BY <1>2, <3>2, <4>1 DEF FirstFileIntact
    <3>4. CASE p.file # FirstFile
      <4>1. /\ FirstFile \in DOMAIN disk' => FirstFile \in DOMAIN disk
            /\ FirstFile \in DOMAIN disk => disk'[FirstFile] = disk[FirstFile]
        BY <3>1, <3>4
      <4> QED
        BY <1>2, <1>5, <3>2, <4>1 DEF FirstFileIntact
    <3> QED
      BY <3>3, <3>4
  <2>3. CASE HandleFileChunk \/ DiskRefuses
    <3> DEFINE c == Last(received)
    <3>0. p.type = "chunk"
      BY <2>3 DEF HandleFileChunk, DiskRefuses, Receive
    <3>1. /\ diskFailed => diskFailed'
          /\ \/ disk' = disk
             \/ diskFailed' /\ disk' = DiskWith(c.file, <<>>)
             \/ disk' = DiskWith(c.file, Written(Content(c.file), p))
             \/ \E n \in 0 .. p.len, held \in {Content(c.file), Preallocated(c.file)} :
                  disk' = DiskWith(c.file, Written(held, [p EXCEPT !.len = n]))
      <4>1. CASE HandleFileChunk
        BY <4>1 DEF HandleFileChunk, Receive
      <4>2. CASE DiskRefuses
        <5>1. diskFailed' = TRUE
          BY <4>2 DEF DiskRefuses
        <5>2. \/ disk' = disk
              \/ disk' = DiskWith(c.file, <<>>)
              \/ \E n \in 0 .. p.len, held \in {Content(c.file), Preallocated(c.file)} :
                   disk' = DiskWith(c.file, Written(held, [p EXCEPT !.len = n]))
          BY <4>2 DEF DiskRefuses
        <5> HIDE DEF p, c
        <5> QED
          BY <5>1, <5>2
      <4> QED
        BY <2>3, <4>1, <4>2
    <3> HIDE DEF c, p
    <3>2. p \in ChunkPackets /\ InPlace(p)
      <4>1. p \in Packets /\ p.type = "chunk" /\ InPlace(p)
        BY <1>3, <1>5, <3>0
      <4>2. \A q \in [type : {"request"}, file : Files] : q.type = "request"
        OBVIOUS
      <4> QED
        BY <4>1, <4>2 DEF Packets
    <3>3. p.len \in 0 .. p.len /\ p = [p EXCEPT !.len = p.len]
      BY <3>2, FileAssumption DEF ChunkPackets
    <3>4. Intact(Content(FirstFile)) /\ Intact(Preallocated(FirstFile))
      BY <1>2, <1>5, ContentIntact DEF Intact, Preallocated
    <3>5. \A n \in 0 .. p.len :
            /\ Intact(Written(Content(FirstFile), [p EXCEPT !.len = n]))
            /\ Intact(Written(Preallocated(FirstFile), [p EXCEPT !.len = n]))
      BY <1>2, <3>2, <3>4, WrittenIntact
    <3>6. CASE disk' = disk
      BY <1>2, <1>5, <3>1, <3>6 DEF FirstFileIntact
    <3>7. CASE diskFailed' /\ disk' = DiskWith(c.file, <<>>)
      BY <1>2, <1>5, <3>7, DiskWithIntact
    <3>8. ASSUME NEW n \in 0 .. p.len, NEW held \in {Content(c.file), Preallocated(c.file)},
                 disk' = DiskWith(c.file, Written(held, [p EXCEPT !.len = n]))
          PROVE  FirstFileIntact'
      <4>1. c.file = FirstFile => Intact(Written(held, [p EXCEPT !.len = n]))
        BY <3>5, <3>8
      <4> QED
        BY <1>2, <1>5, <3>1, <3>8, <4>1, DiskWithIntact
    <3>9. CASE disk' = DiskWith(c.file, Written(Content(c.file), p))
      <4>1. c.file = FirstFile => Intact(Written(Content(c.file), p))
        BY <3>3, <3>5
      <4> QED
        BY <1>2, <1>5, <3>1, <3>9, <4>1, DiskWithIntact
    <3> QED
      BY <3>1, <3>6, <3>7, <3>8, <3>9
  <2>4. CASE DropChunk
    <3>1. disk' = disk /\ diskFailed' = diskFailed
      BY <2>4 DEF DropChunk, serverVars
    <3> QED
      BY <1>2, <1>5, <3>1 DEF FirstFileIntact
  <2> QED
    BY <2>1, <2>2, <2>3, <2>4 DEF Server
<1> QED
  BY <1>1, <1>2, <1>4, <1>6 DEF ReceiverInv

LEMMA StepReceiver == TransferInv /\ ReceiverInv /\ [Next]_vars => ReceiverInv'
<1> SUFFICES ASSUME TransferInv, ReceiverInv, [Next]_vars PROVE ReceiverInv'
  OBVIOUS
<1>1. CASE Next
  BY <1>1, ClientStepReceiver, DisconnectReceiver, ServerStepReceiver DEF Next, MainThread
<1>2. CASE UNCHANGED vars
  BY <1>2 DEF vars, clientVars, serverVars, ReceiverInv, InPlace, FirstFileIntact, FirstFile
<1> QED
  BY <1>1, <1>2

LEMMA InitReceiver == Init => ReceiverInv
<1> SUFFICES ASSUME Init PROVE ReceiverInv
  OBVIOUS
<1>1. transfers = <<>> /\ channel = <<>> /\ disk = <<>>
  BY DEF Init
<1> QED
  BY <1>1 DEF ReceiverInv, FirstFileIntact

(* Whatever requests overlap and whatever the disk refuses: a chunk is     *)
(* written to its own place, so that the first file keeps its size and     *)
(* holds its own bytes (FileTransfer.cpp:104-120, 213-228).                *)
THEOREM FirstFileStaysIntact == Spec => []FirstFileIntact
<1>1. Init => TransferInv /\ ReceiverInv
  BY InitReceiver, InitSenderInv, InitServerTypeOK DEF TransferInv, TypeOK, SenderInv
<1>2. ReceiverInv => FirstFileIntact
  BY DEF ReceiverInv
<1> QED
  BY <1>1, <1>2, StepReceiver, TransferInvariant, PTL DEF Spec

-----------------------------------------------------------------------------
(* One file is sent and nothing fails: the server makes of it what         *)
(* FileDelivery says.  First, when a number of chunks covers a file.       *)
LEMMA ProductGrows ==
  ASSUME NEW a \in Nat, NEW b \in Nat, NEW c \in Nat, a >= b
  PROVE  a * c >= b * c
<1>1. \A d \in Nat : d * c \in Nat /\ (b + d) * c = b * c + d * c /\ b * c \in Nat
  OBVIOUS
<1>2. a - b \in Nat /\ b + (a - b) = a
  OBVIOUS
<1>3. (a - b) * c \in Nat /\ a * c = b * c + (a - b) * c /\ b * c \in Nat
  BY <1>1, <1>2
<1> QED
  BY <1>3

LEMMA DivisionBound ==
  ASSUME NEW a \in Nat, NEW c \in Nat, c > 0
  PROVE  a \div c \in Nat /\ a < (a \div c) * c + c
<1>1. a \div c \in Nat
  OBVIOUS
<1>2. a < (a \div c) * c + c
  OBVIOUS
<1> QED
  BY <1>1, <1>2

LEMMA Covered ==
  ASSUME NEW f \in Files, NEW n \in Nat, n >= ChunksTotal(f)
  PROVE  n * ChunkSize >= FileSize[f]
<1> DEFINE a == FileSize[f] + ChunkSize - 1
           q == a \div ChunkSize
<1>1. FileSize[f] \in Nat /\ ChunkSize \in Nat /\ ChunkSize > 0 /\ a \in Nat
  BY FileAssumption
<1>2. q \in Nat /\ a < q * ChunkSize + ChunkSize
  <2> HIDE DEF a
  <2> QED
    BY <1>1, DivisionBound
<1>3. n >= q
  BY DEF ChunksTotal
<1> HIDE DEF q
<1>4. n * ChunkSize >= q * ChunkSize
  BY <1>1, <1>2, <1>3, ProductGrows
<1>5. q * ChunkSize \in Nat /\ n * ChunkSize \in Nat
  BY <1>1, <1>2
<1> QED
  BY <1>1, <1>2, <1>4, <1>5

(* Writing the chunk that follows n bytes. *)
LEMMA BytesGrow ==
  ASSUME NEW f \in Files, NEW p \in ChunkPackets, p.file = f, Offset(p) = p.from,
         p.from < FileSize[f], p.len = Lower(FileSize[f] - p.from, ChunkSize), p.read = p.len
  PROVE  Written(Delivery!FirstBytes(f, p.from), p) = Delivery!FirstBytes(f, p.from + ChunkSize)
<1> DEFINE n == p.from
           old == Delivery!FirstBytes(f, n)
           new == Delivery!FirstBytes(f, n + ChunkSize)
           at == n .. n + p.len - 1
<1>1. /\ FileSize[f] \in Nat /\ ChunkSize \in Nat \ {0} /\ n \in Nat /\ p.len \in Nat
  BY FileAssumption DEF ChunkPackets
<1>2. /\ DOMAIN old = 0 .. FileSize[f] - 1 /\ DOMAIN new = 0 .. FileSize[f] - 1
      /\ \A o \in DOMAIN old : old[o] = IF o < n THEN <<f, o>> ELSE Zero
      /\ \A o \in DOMAIN new : new[o] = IF o < n + ChunkSize THEN <<f, o>> ELSE Zero
  BY DEF Delivery!FirstBytes
<1>3. /\ at \subseteq 0 .. FileSize[f] - 1
      /\ \A o \in at : o < n + ChunkSize /\ n + (o - n) = o /\ o - n < p.len
      /\ \A o \in (0 .. FileSize[f] - 1) \ at : o < n \/ ~(o < n + ChunkSize)
      /\ \A o \in (0 .. FileSize[f] - 1) : o < n => o < n + ChunkSize
  BY <1>1 DEF Lower
<1>4. Written(old, p) = [o \in DOMAIN old \cup at |-> IF o \in at THEN <<f, n + (o - n)>> ELSE old[o]]
  <2>1. \A o \in at : o - Offset(p) < p.read
    BY <1>3
  <2> HIDE DEF old
  <2> QED
    BY <2>1 DEF Written
<1>5. new = [o \in 0 .. FileSize[f] - 1 |-> new[o]]
  BY DEF Delivery!FirstBytes
<1> HIDE DEF old, new, at
<1>6. DOMAIN old \cup at = 0 .. FileSize[f] - 1
  BY <1>2, <1>3
<1>7. \A o \in 0 .. FileSize[f] - 1 : (IF o \in at THEN <<f, n + (o - n)>> ELSE old[o]) = new[o]
  BY <1>2, <1>3
<1>8. Written(old, p) = new
  BY <1>4, <1>5, <1>6, <1>7
<1> QED
  BY <1>8 DEF old, new

(* The numbers of the packets: the request is the first, chunk k is k + 2. *)
LEMMA PacketNumbers ==
  ASSUME TransferInv, transfers # <<>>
  PROVE  /\ PacketNumber(1).type = "request" /\ PacketNumber(1).file = FirstFile
         /\ \A k \in 1 .. Len(sent) :
              /\ PacketNumber(k + 1) = sent[k] /\ sent[k] \in ChunkPackets
              /\ PacketNumber(k + 1).type = "chunk"
<1>1. Len(sent) \in Nat /\ sent \in Seq(ChunkPackets)
  BY FirstFileTyped DEF TransferInv
<1>2. \A k \in 1 .. Len(sent) : k + 1 # 1 /\ (k + 1) - 1 = k
  BY <1>1
<1>3. \A k \in 1 .. Len(sent) : PacketNumber(k + 1) = sent[k] /\ sent[k] \in ChunkPackets
  BY <1>1, <1>2 DEF PacketNumber
<1>4. \A k \in 1 .. Len(sent) : sent[k].type = "chunk"
  BY <1>3 DEF ChunkPackets
<1>5. PacketNumber(1).type = "request" /\ PacketNumber(1).file = FirstFile
  BY DEF PacketNumber, Request
<1> QED
  BY <1>3, <1>4, <1>5

LEMMA TakenTyped ==
  ASSUME ServerTypeOK
  PROVE  /\ Taken \in Nat /\ (Taken = 0 <=> received = <<>>)
         /\ received # <<>> => received[1] \in Receptions /\ received[1].chunksReceived = Taken - 1
<1>1. received # <<>> => received[1] \in Receptions
  BY DEF ServerTypeOK
<1> QED
  BY <1>1 DEF Taken, Receptions

(* What the server finds at the head of the channel, and what is behind.   *)
LEMMA HeadUnderWay ==
  ASSUME TransferInv, ArrivingInv, channel # <<>>
  PROVE  /\ transfers # <<>> /\ main # "request"
         /\ Head(channel) = PacketNumber(Taken + 1) /\ Taken <= Len(sent)
         /\ Len(Tail(channel)) = Len(channel) - 1
         /\ \A i \in DOMAIN Tail(channel) : Tail(channel)[i] = PacketNumber(Taken + 1 + i)
<1>1. channel \in Seq(Packets) /\ Taken \in Nat /\ Len(channel) \in Nat \ {0} /\ Len(sent) \in Nat
  BY TakenTyped, EmptySeq DEF TransferInv, TypeOK, ServerTypeOK, ClientTypeOK
<1>2. transfers # <<>> /\ main # "request" /\ UnderWay
  BY DEF ArrivingInv
<1>3. 1 \in DOMAIN channel /\ Head(channel) = channel[1]
  BY <1>1
<1>4. /\ Len(Tail(channel)) = Len(channel) - 1
      /\ \A i \in DOMAIN Tail(channel) :
           /\ i + 1 \in DOMAIN channel /\ Tail(channel)[i] = channel[i + 1]
           /\ Taken + (i + 1) = Taken + 1 + i
  BY <1>1
<1> QED
  BY <1>1, <1>2, <1>3, <1>4 DEF UnderWay

(* The chunk at the head is the next of the file, in its place.            *)
LEMMA NextArrival ==
  ASSUME TransferInv, ArrivingInv, channel # <<>>, received # <<>>
  PROVE  /\ Arrived(received[1]) /\ received[1] \in Receptions
         /\ Head(channel) \in ChunkPackets /\ Head(channel).file = FirstFile
         /\ Head(channel).from = received[1].chunksReceived * ChunkSize
         /\ Offset(Head(channel)) = Head(channel).from
         /\ Head(channel).from < FileSize[FirstFile]
         /\ Head(channel).len = Lower(FileSize[FirstFile] - Head(channel).from, ChunkSize)
         /\ Head(channel).isLast = (FileSize[FirstFile] - Head(channel).from <= ChunkSize)
         /\ Head(channel).read = Head(channel).len
<1> DEFINE c == received[1]
           k == c.chunksReceived
           p == Head(channel)
<1>1. Arrived(c) /\ c \in Receptions /\ k \in Nat /\ Taken = k + 1
  BY TakenTyped DEF ArrivingInv, TransferInv, TypeOK, Receptions, Taken
<1>2. transfers # <<>> /\ p = PacketNumber(k + 1 + 1) /\ k + 1 \in 1 .. Len(sent)
  BY <1>1, HeadUnderWay, FirstFileTyped DEF TransferInv
<1>3. p = sent[k + 1] /\ p \in ChunkPackets
  BY <1>2, PacketNumbers
<1>4. /\ FileSize[FirstFile] \in Nat /\ k * ChunkSize \in Nat /\ ChunkSize \in Nat \ {0}
      /\ sent \in Seq(ChunkPackets)
  BY <1>1, <1>2, FirstFileTyped, NextOffset, FileAssumption DEF TransferInv
<1>5. p = Chunk(FirstFile, k, k * ChunkSize, Lower(FileSize[FirstFile] - k * ChunkSize, ChunkSize),
                FileSize[FirstFile] - k * ChunkSize <= ChunkSize, p.read)
  <2>1. (k + 1) - 1 = k /\ k + 1 \in DOMAIN sent
    BY <1>1, <1>2, <1>4
  <2>2. \A i \in DOMAIN sent :
          sent[i] = Chunk(FirstFile, i - 1, (i - 1) * ChunkSize,
                          Lower(FileSize[FirstFile] - (i - 1) * ChunkSize, ChunkSize),
                          FileSize[FirstFile] - (i - 1) * ChunkSize <= ChunkSize, sent[i].read)
    BY DEF ChunksInOrder, TransferInv, SenderInv
  <2>3. sent[k + 1] = Chunk(FirstFile, (k + 1) - 1, ((k + 1) - 1) * ChunkSize,
                  Lower(FileSize[FirstFile] - ((k + 1) - 1) * ChunkSize, ChunkSize),
                  FileSize[FirstFile] - ((k + 1) - 1) * ChunkSize <= ChunkSize, sent[k + 1].read)
    BY <2>1, <2>2, Zenon
  <2> HIDE DEF p, k
  <2> QED
    BY <1>3, <2>1, <2>3, Zenon
<1>6. /\ p.file = FirstFile /\ p.id = k /\ p.from = k * ChunkSize
      /\ p.len = Lower(FileSize[FirstFile] - k * ChunkSize, ChunkSize)
      /\ p.isLast = (FileSize[FirstFile] - k * ChunkSize <= ChunkSize)
  BY <1>5 DEF Chunk
<1>7. p.len >= 1
  <2> HIDE DEF p, k
  <2>1. p \in ChunkPackets
    BY <1>3
  <2> QED
    BY <2>1, FileAssumption DEF ChunkPackets
<1>9. p.read = p.len
  BY <1>2, <1>3, <1>4 DEF ArrivingInv
<1>8. k * ChunkSize < FileSize[FirstFile]
  BY <1>4, <1>6, <1>7 DEF Lower
<1> HIDE DEF p
<1> QED
  <2>1. p.from < FileSize[FirstFile] /\ Offset(p) = p.from
    BY <1>6, <1>8 DEF Offset
  <2>2. /\ p.len = Lower(FileSize[FirstFile] - p.from, ChunkSize)
        /\ p.isLast = (FileSize[FirstFile] - p.from <= ChunkSize)
    BY <1>6, Zenon
  <2> QED
    BY <1>1, <1>3, <1>6, <1>9, <2>1, <2>2, Zenon DEF p

(* Once one of these happened, it stays so. *)
LEMMA PromiseEnds ==
  ASSUME TransferInv, [Next]_vars, OneTransfer'
  PROVE  OneTransfer
<1>0. transfers \in Seq(Transfers) /\ Len(transfers) \in Nat /\ SenderInv
  BY DEF TransferInv, TypeOK, ClientTypeOK
<1>1. CASE \E f \in Files : StartFileSend(f)
  <2>1. PICK f \in Files : StartFileSend(f)
    BY <1>1
  <2> DEFINE new == [file |-> f, bytesSent |-> 0, chunksSent |-> 0, isCompleted |-> FALSE]
  <2>2. transfers' = Append(transfers, new) /\ new \in Transfers
    BY <2>1 DEF StartFileSend, Transfers
  <2> HIDE DEF new
  <2>3. Len(transfers') = Len(transfers) + 1
    BY <1>0, <2>2, AppendProperties
  <2> QED
    BY <1>0, <2>1, <2>3 DEF StartFileSend, serverVars, OneTransfer
<1>2. CASE SendFirstChunk \/ ContinueTransfer
  <2>1. /\ transfers # <<>> /\ UNCHANGED serverVars
        /\ \E started \in {0, 1} : SendNextChunk(started)
    BY <1>0, <1>2 DEF SendFirstChunk, ContinueTransfer, SenderInv, ClientTypeOK
  <2>2. Len(transfers') = Len(transfers)
    BY <1>0, <2>1, SendNextChunkSends
  <2>3. sourceFailed => sourceFailed'
    BY <2>1 DEF SendNextChunk, AlreadyCompleted, NothingLeft, ReadFails, SendChunk
  <2> QED
    BY <2>1, <2>2, <2>3 DEF OneTransfer, serverVars
<1>3. CASE SendRequest \/ Server \/ Disconnect \/ UNCHANGED vars
  <2>1. UNCHANGED <<transfers, sourceFailed>>
    BY <1>3 DEF SendRequest, Server, HandleFileRequest, RequestFails, HandleFileChunk, DiskRefuses, DropChunk,
      Receive, Disconnect, clientVars, vars
  <2>2. diskFailed => diskFailed'
    BY <1>3 DEF SendRequest, Server, HandleFileRequest, RequestFails, HandleFileChunk, DiskRefuses, DropChunk,
      Disconnect, serverVars, vars
  <2> QED
    BY <2>1, <2>2 DEF OneTransfer
<1> QED
  BY <1>1, <1>2, <1>3 DEF Next, MainThread

(* The client's steps put the next packet behind the others.               *)
LEMMA ClientArriving ==
  ASSUME TransferInv, ArrivingInv, OneTransfer, OneTransfer',
         (\E f \in Files : StartFileSend(f)) \/ SendRequest \/ SendFirstChunk \/ ContinueTransfer
  PROVE  ArrivingInv' /\ UNCHANGED serverVars
<1>0. /\ SenderInv /\ ServerTypeOK /\ channel \in Seq(Packets) /\ transfers \in Seq(Transfers)
      /\ transfers = <<>> => main = "idle" /\ chains = 0
      /\ main = "request" => file \in Files
      /\ Len(transfers) \in Nat /\ Len(channel) \in Nat /\ Len(sent) \in Nat /\ sent \in Seq(ChunkPackets)
      /\ chains \in Nat
  BY DEF TransferInv, TypeOK, SenderInv, ServerTypeOK, ClientTypeOK
<1>1. ASSUME NEW f \in Files, StartFileSend(f) PROVE ArrivingInv' /\ UNCHANGED serverVars
  <2> DEFINE new == [file |-> f, bytesSent |-> 0, chunksSent |-> 0, isCompleted |-> FALSE]
  <2>1. /\ transfers' = Append(transfers, new) /\ new \in Transfers /\ new.file = f
        /\ main' = "request" /\ file' = f
        /\ UNCHANGED <<chains, channel, sent, received, reported, serverVars>>
    BY <1>1 DEF StartFileSend, serverVars, Transfers
  <2> HIDE DEF new
  <2>2. Len(transfers') = Len(transfers) + 1 /\ transfers'[Len(transfers) + 1] = new
    BY <1>0, <2>1, AppendProperties
  <2>3. transfers = <<>> /\ FirstFile' = f
    BY <1>0, <2>1, <2>2, EmptySeq DEF OneTransfer, FirstFile
  <2> QED
    BY <2>1, <2>3 DEF ArrivingInv
<1>2. CASE SendRequest
  <2>1. /\ UNCHANGED <<transfers, file, connected, sent, received, disk, reported, serverVars>>
        /\ transfers # <<>> /\ main = "request" /\ main' = "first"
        /\ channel' = Carried(Request(FirstFile)) /\ FirstFile' = FirstFile
    BY <1>0, <1>2 DEF SendRequest, serverVars, ArrivingInv, FirstFile
  <2>2. sent = <<>> /\ channel = <<>> /\ received = <<>> /\ reported = <<>>
    BY <2>1 DEF ArrivingInv
  <2>3. Taken' = 0 /\ Len(sent') = 0
    BY <2>1, <2>2 DEF Taken
  <2>4. channel' = IF connected THEN <<Request(FirstFile)>> ELSE <<>>
    BY <2>1, <2>2 DEF Carried
  <2>5. UnderWay'
    <3>1. CASE connected
      <4>1. DOMAIN channel' = {1} /\ Len(channel') = 1 /\ channel'[1] = Request(FirstFile)
        BY <2>4, <3>1
      <4> QED
        BY <2>1, <2>3, <4>1 DEF UnderWay, PacketNumber
    <3>2. CASE ~connected
      <4>1. DOMAIN channel' = {} /\ Len(channel') = 0
        BY <2>4, <3>2
      <4> QED
        BY <2>1, <2>3, <3>2, <4>1 DEF UnderWay
    <3> QED
      BY <3>1, <3>2
  <2> QED
    BY <2>1, <2>2, <2>5 DEF ArrivingInv
<1>3. CASE SendFirstChunk \/ ContinueTransfer
  <2>1. /\ \E started \in {0, 1} : SendNextChunk(started)
        /\ transfers # <<>> /\ main # "request" /\ main' # "request"
        /\ UNCHANGED <<connected, received, disk, reported, serverVars>>
    BY <1>0, <1>3 DEF SendFirstChunk, ContinueTransfer, serverVars, ArrivingInv
  <2>2. /\ transfers' # <<>> /\ FirstFile' = FirstFile
        /\ \/ UNCHANGED <<channel, sent>>
           \/ \E read \in 0 .. ChunkSize :
                /\ channel' = Carried(NextPacket(read)) /\ sent' = Append(sent, NextPacket(read))
                /\ NextPacket(read) \in ChunkPackets /\ NextPacket(read) \in Packets
                /\ read = NextPacket(read).len
                /\ FileSize[FirstFile] > 0
    <3>1. Len(sent) * ChunkSize < FileSize[FirstFile] => FileSize[FirstFile] > 0
      <4>1. Len(sent) * ChunkSize \in Nat
        BY <1>0, NextOffset
      <4>2. FileSize[FirstFile] \in Nat
        BY <1>0, <2>1, FirstFileTyped
      <4> QED
        BY <4>1, <4>2
    <3> QED
      BY <1>0, <2>1, <3>1, SendNextChunkSends, PacketsTyped DEF OneTransfer
  <2>3. UnderWay /\ Taken' = Taken /\ Taken \in Nat
    BY <1>0, <2>1, TakenTyped DEF ArrivingInv, Taken
  <2>4. UnderWay'
    <3>1. CASE UNCHANGED <<channel, sent>>
      BY <2>1, <2>2, <2>3, <3>1 DEF UnderWay, PacketNumber
    <3>2. ASSUME NEW read \in 0 .. ChunkSize,
                 channel' = Carried(NextPacket(read)), sent' = Append(sent, NextPacket(read)),
                 NextPacket(read) \in ChunkPackets, NextPacket(read) \in Packets,
                 FileSize[FirstFile] > 0
          PROVE  UnderWay'
      <4>1. /\ Len(sent') = Len(sent) + 1 /\ sent'[Len(sent) + 1] = NextPacket(read)
            /\ \A i \in 1 .. Len(sent) : sent'[i] = sent[i]
        BY <1>0, <3>2, AppendProperties
      <4> DEFINE After(n) == IF n = 1 THEN Request(FirstFile) ELSE sent'[n - 1]
      <4>2. \A n \in 1 .. Len(sent) + 1 : After(n) = PacketNumber(n)
        BY <1>0, <4>1 DEF PacketNumber
      <4>3. \A i \in 1 .. Len(channel) : Taken + i \in 1 .. Len(sent) + 1
        BY <1>0, <2>3 DEF UnderWay
      <4>6. \A i \in 1 .. Len(channel) : channel[i] = After(Taken + i)
        BY <1>0, <2>3, <4>2, <4>3 DEF UnderWay
      <4>7. ASSUME \A i \in 1 .. Len(channel') : channel'[i] = After(Taken + i),
                   channel' \in Seq(Packets),
                   Taken + Len(channel') <= Len(sent') + 1,
                   connected => Taken + Len(channel') = Len(sent') + 1
            PROVE  UnderWay'
        <5>1. DOMAIN channel' = 1 .. Len(channel') /\ connected' = connected
          BY <2>1, <4>7
        <5>2. \A i \in DOMAIN channel' : channel'[i] = PacketNumber(Taken + i)'
          BY <2>2, <2>3, <4>7, <5>1 DEF PacketNumber
        <5> HIDE DEF After
        <5> QED
          BY <2>3, <4>7, <5>1, <5>2 DEF UnderWay
      <4> HIDE DEF After
      <4>4. CASE ~connected
        <5>1. channel' = channel
          BY <3>2, <4>4 DEF Carried
        <5>2. Taken + Len(channel') <= Len(sent') + 1
          BY <1>0, <2>3, <4>1, <5>1 DEF UnderWay
        <5> QED
          BY <1>0, <4>4, <4>6, <4>7, <5>1, <5>2
      <4>5. CASE connected
        <5>1. /\ Len(channel') = Len(channel) + 1 /\ channel' \in Seq(Packets)
              /\ \A i \in 1 .. Len(channel) : channel'[i] = channel[i]
              /\ channel'[Len(channel) + 1] = NextPacket(read)
          BY <1>0, <3>2, <4>5, AppendProperties DEF Carried
        <5>2. Taken + Len(channel) = Len(sent) + 1
          BY <2>3, <3>2, <4>5 DEF UnderWay
        <5>3. Taken + (Len(channel) + 1) = Len(sent) + 2
          BY <1>0, <2>3, <5>2
        <5>4. After(Len(sent) + 2) = NextPacket(read)
          <6>1. Len(sent) + 2 # 1 /\ (Len(sent) + 2) - 1 = Len(sent) + 1
            BY <1>0
          <6> QED
            BY <4>1, <6>1 DEF After
        <5>5. \A i \in 1 .. Len(channel') : i \in 1 .. Len(channel) \/ i = Len(channel) + 1
          BY <1>0, <5>1
        <5>6. \A i \in 1 .. Len(channel') : channel'[i] = After(Taken + i)
          BY <4>6, <5>1, <5>3, <5>4, <5>5
        <5>7. Taken + Len(channel') = Len(sent') + 1 /\ Taken + Len(channel') <= Len(sent') + 1
          BY <1>0, <2>3, <4>1, <5>1, <5>2
        <5> QED
          BY <4>7, <5>1, <5>6, <5>7
      <4> QED
        BY <4>4, <4>5
    <3> QED
      BY <2>2, <3>1, <3>2
  <2>5. IF received' = <<>> THEN reported' = <<>> ELSE Arrived(received[1])'
    BY <2>1, <2>2 DEF ArrivingInv, Arrived
  <2>6. \A i \in DOMAIN sent' : sent'[i].read = sent'[i].len
    <3>1. \A i \in DOMAIN sent : sent[i].read = sent[i].len
      BY DEF ArrivingInv
    <3>2. ASSUME NEW read \in 0 .. ChunkSize, sent' = Append(sent, NextPacket(read)),
                 NextPacket(read) \in ChunkPackets, read = NextPacket(read).len
          PROVE  \A i \in DOMAIN sent' : sent'[i].read = sent'[i].len
      <4>1. NextPacket(read).read = read
        BY DEF NextPacket, Chunk
      <4> QED
        BY <1>0, <3>1, <3>2, <4>1, AppendProperties
    <3> QED
      BY <2>2, <3>1, <3>2
  <2> QED
    BY <2>1, <2>2, <2>4, <2>5, <2>6 DEF ArrivingInv
<1> QED
  BY <1>1, <1>2, <1>3

(* A disconnect leaves the packets that were first.                        *)
LEMMA DisconnectArriving ==
  ASSUME TransferInv, ArrivingInv, Disconnect
  PROVE  ArrivingInv' /\ UNCHANGED serverVars
<1>1. PICK n \in 0 .. Len(channel) : channel' = SubSeq(channel, 1, n)
  BY DEF Disconnect
<1>2. /\ UNCHANGED <<transfers, main, file, chains, received, disk, reported, sent, serverVars>>
      /\ connected' = FALSE /\ channel \in Seq(Packets) /\ Len(channel) \in Nat
      /\ Taken' = Taken /\ Taken \in Nat /\ FirstFile' = FirstFile /\ Len(sent) \in Nat
  BY TakenTyped DEF Disconnect, clientVars, serverVars, TransferInv, TypeOK, ServerTypeOK,
    ClientTypeOK, Taken, FirstFile
<1>3. /\ channel' \in Seq(Packets) /\ Len(channel') <= Len(channel) /\ Len(channel') \in Nat
      /\ \A i \in DOMAIN channel' : i \in DOMAIN channel /\ channel'[i] = channel[i]
  BY <1>1, <1>2
<1>4. channel = <<>> => channel' = <<>>
  BY <1>1, SubSeqEmpty
<1>5. UnderWay => UnderWay'
  BY <1>2, <1>3 DEF UnderWay, PacketNumber
<1>6. IF received' = <<>> THEN reported' = <<>> ELSE Arrived(received[1])'
  BY <1>2 DEF ArrivingInv, Arrived
<1> QED
  BY <1>2, <1>4, <1>5, <1>6 DEF ArrivingInv

(* The server takes a packet: those behind it are still the ones it lacks. *)
LEMMA PacketTaken ==
  ASSUME TransferInv, ArrivingInv, channel # <<>>, channel' = Tail(channel),
         UNCHANGED <<clientVars, connected, sent>>, Taken' = Taken + 1 \/ FileSize[FirstFile] = 0,
         Taken' \in {Taken, Taken + 1}
  PROVE  UnderWay'
<1>1. /\ transfers # <<>> /\ UnderWay /\ Taken \in Nat /\ Taken' \in Nat
      /\ channel \in Seq(Packets) /\ Len(channel) \in Nat \ {0} /\ FirstFile' = FirstFile
      /\ Len(sent) \in Nat /\ FileSize[FirstFile] \in Nat
  BY HeadUnderWay, TakenTyped, EmptySeq, FirstFileTyped DEF ArrivingInv, TransferInv, TypeOK,
    ServerTypeOK, clientVars, FirstFile
<1>2. /\ channel' \in Seq(Packets) /\ Len(channel') = Len(channel) - 1
      /\ \A i \in DOMAIN channel' : channel'[i] = PacketNumber(Taken + 1 + i)
  BY <1>1, HeadUnderWay
<1>3. CASE FileSize[FirstFile] = 0
  <2>1. Len(sent) = 0
    <3>1. Len(sent) * ChunkSize < FileSize[FirstFile] + ChunkSize
      BY <1>1 DEF TransferInv, SenderInv, Progress, FirstFile, ConnectionId
    <3>2. Len(sent) # 0 => ChunkSize <= Len(sent) * ChunkSize /\ Len(sent) * ChunkSize \in Nat
      BY <1>1, NextOffset
    <3> QED
      BY <1>1, <1>3, <3>1, <3>2, FileAssumption
  <2>2. Taken = 0 /\ Len(channel) = 1
    <3>1. Taken + Len(channel) <= Len(sent) + 1
      BY <1>1 DEF UnderWay
    <3>2. \A a \in Nat, n \in Nat \ {0} : a + n <= 0 + 1 => a = 0 /\ n = 1
      OBVIOUS
    <3> QED
      BY <1>1, <2>1, <3>1, <3>2, Zenon
  <2>3. Len(channel') = 0 /\ DOMAIN channel' = {}
    BY <1>2, <2>2
  <2> QED
    BY <1>1, <1>3, <2>1, <2>2, <2>3 DEF UnderWay, clientVars
<1>4. CASE Taken' = Taken + 1 /\ FileSize[FirstFile] # 0
  <2>1. \A i \in DOMAIN channel' : channel'[i] = PacketNumber(Taken' + i)
    BY <1>2, <1>4
  <2>2. /\ Taken' + Len(channel') = Taken + Len(channel) /\ sent' = sent /\ connected' = connected
    BY <1>1, <1>2, <1>4
  <2> QED
    BY <1>1, <2>1, <2>2 DEF UnderWay, PacketNumber
<1> QED
  BY <1>3, <1>4

(* The request creates the file, if it is not empty.                       *)
LEMMA RequestArrives ==
  ASSUME TransferInv, ArrivingInv, HandleFileRequest
  PROVE  /\ received = <<>> /\ ArrivingInv'
         /\ \/ received' = <<>>
            \/ /\ FileSize[FirstFile] > 0 /\ FirstFile \in Files /\ received'[1].file = FirstFile
               /\ received' # <<>> /\ reported' = <<>>
               /\ disk'[FirstFile] = Delivery!FirstBytes(FirstFile, 0)
<1> DEFINE f == Head(channel).file
           new == [file |-> f, redirected |-> FALSE, bytesReceived |-> 0, chunksReceived |-> 0,
                   isCompleted |-> FALSE]
<1>1. /\ channel # <<>> /\ Head(channel).type = "request" /\ channel' = Tail(channel)
      /\ UNCHANGED <<clientVars, connected, sent, reported>>
  BY DEF HandleFileRequest, Receive
<1>2. /\ Taken \in Nat /\ transfers # <<>> /\ main # "request"
      /\ Head(channel) = PacketNumber(Taken + 1) /\ Taken <= Len(sent) /\ Len(sent) \in Nat
      /\ FirstFile \in Files /\ FileSize[FirstFile] \in Nat
  BY <1>1, HeadUnderWay, TakenTyped, FirstFileTyped DEF TransferInv, TypeOK
<1>3. Taken = 0
  <2>1. Taken # 0 => Taken \in 1 .. Len(sent)
    BY <1>2
  <2>2. Taken \in 1 .. Len(sent) => PacketNumber(Taken + 1).type = "chunk"
    BY <1>2, PacketNumbers
  <2> QED
    BY <1>1, <1>2, <2>1, <2>2
<1>4. received = <<>> /\ f = FirstFile /\ reported = <<>>
  BY <1>2, <1>3, PacketNumbers, TakenTyped DEF TransferInv, TypeOK, ArrivingInv
<1>5. FirstFile' = FirstFile /\ main' # "request" /\ transfers' # <<>>
  BY <1>1, <1>2 DEF clientVars, FirstFile
<1>6. CASE FileSize[FirstFile] = 0
  <2>1. received' = <<>>
    BY <1>4, <1>6 DEF HandleFileRequest
  <2>2. Taken' = Taken
    BY <1>3, <2>1 DEF Taken
  <2>3. UnderWay'
    BY <1>1, <1>6, <2>2, PacketTaken
  <2> QED
    BY <1>1, <1>4, <1>5, <2>1, <2>3 DEF ArrivingInv
<1>7. CASE FileSize[FirstFile] # 0
  <2>1. received' = Append(received, new)
    BY <1>4, <1>7 DEF HandleFileRequest
  <2>2. new.file = FirstFile /\ new.chunksReceived = 0 /\ ~new.redirected
    BY <1>4
  <2> HIDE DEF new
  <2>3. received' = <<new>> /\ received' # <<>> /\ Len(received') = 1 /\ received'[1] = new
    BY <1>4, <2>1
  <2>4. Taken' = Taken + 1
    BY <1>3, <2>2, <2>3 DEF Taken
  <2>5. UnderWay'
    BY <1>1, <2>4, PacketTaken
  <2>6. FirstFile \in DOMAIN disk' /\ disk'[FirstFile] = Preallocated(FirstFile)
    BY <1>4 DEF HandleFileRequest, DiskWith
  <2>7. Preallocated(FirstFile) = Delivery!FirstBytes(FirstFile, 0)
    <3>1. \A o \in 0 .. FileSize[FirstFile] - 1 : ~(o < 0)
      BY <1>2
    <3> QED
      BY <3>1 DEF Preallocated, Delivery!FirstBytes
  <2>8. 0 * ChunkSize = 0 /\ FileSize[FirstFile] > 0 /\ ~(0 * ChunkSize >= FileSize[FirstFile])
    BY <1>2, <1>7, FileAssumption
  <2>9. Arrived(received[1])'
    <3>1. /\ received'[1].file = FirstFile /\ received'[1].chunksReceived = 0
          /\ ~received'[1].redirected /\ reported' = <<>>
      BY <1>1, <1>4, <2>2, <2>3
    <3>2. disk'[FirstFile] = Delivery!FirstBytes(FirstFile, received'[1].chunksReceived * ChunkSize)
      BY <2>6, <2>7, <2>8, <3>1
    <3>3. reported' # <<>> <=> received'[1].chunksReceived * ChunkSize >= FileSize[FirstFile]
      BY <2>8, <3>1
    <3> QED
      BY <1>5, <2>3, <2>6, <2>8, <3>1, <3>2, <3>3 DEF Arrived
  <2> QED
    BY <1>1, <1>2, <1>4, <1>5, <2>2, <2>3, <2>5, <2>6, <2>7, <2>8, <2>9 DEF ArrivingInv
<1> QED
  BY <1>6, <1>7

(* A chunk adds its bytes, and the one that fills the file is reported.    *)
LEMMA ChunkArrives ==
  ASSUME TransferInv, ArrivingInv, HandleFileChunk
  PROVE  /\ ArrivingInv' /\ received # <<>> /\ received' # <<>>
         /\ received'[1].file = received[1].file
         /\ received'[1].chunksReceived = received[1].chunksReceived + 1
         /\ reported = <<>>
<1> DEFINE p == Head(channel)
           c == received[1]
           k == c.chunksReceived
           d == [c EXCEPT !.bytesReceived = @ + p.len, !.chunksReceived = @ + 1,
                          !.isCompleted = @ \/ AllReceived(c, p)]
<1>1. /\ channel # <<>> /\ received # <<>> /\ channel' = Tail(channel)
      /\ UNCHANGED <<clientVars, connected, sent>>
  BY DEF HandleFileChunk, Receive
<1>2. /\ Arrived(c) /\ c \in Receptions /\ p \in ChunkPackets /\ p.file = FirstFile
      /\ p.from = k * ChunkSize /\ Offset(p) = p.from /\ p.from < FileSize[FirstFile]
      /\ p.len = Lower(FileSize[FirstFile] - p.from, ChunkSize)
      /\ p.isLast = (FileSize[FirstFile] - p.from <= ChunkSize) /\ p.read = p.len
  BY <1>1, NextArrival
<1>3. /\ transfers # <<>> /\ main # "request" /\ FirstFile \in Files
      /\ FileSize[FirstFile] \in Nat /\ ChunkSize \in Nat \ {0} /\ k \in Nat /\ k * ChunkSize \in Nat
      /\ (k + 1) * ChunkSize = k * ChunkSize + ChunkSize
  BY <1>1, <1>2, HeadUnderWay, FirstFileTyped, NextOffset, FileAssumption DEF TransferInv, Receptions
<1>4. Last(received) = c /\ received \in Seq(Receptions) /\ Len(received) = 1
  BY <1>1, <1>2 DEF Last, Arrived, TransferInv, TypeOK, ServerTypeOK
<1>5. /\ received' = Front(received) \o <<d>>
      /\ disk' = DiskWith(c.file, Written(Content(c.file), p))
      /\ reported' = IF AllReceived(c, p) THEN Append(reported, c.file) ELSE reported
  BY <1>2, <1>4 DEF HandleFileChunk, CountChunk, Context, Arrived
<1>6. d.file = c.file /\ d.chunksReceived = k + 1 /\ d.redirected = c.redirected
  BY <1>2 DEF Receptions
<1> HIDE DEF d
<1>7. received' = <<d>> /\ received' # <<>> /\ Len(received') = 1 /\ received'[1] = d
  <2>1. Front(received) = <<>>
    BY <1>4, SubSeqEmpty DEF Front
  <2> QED
    BY <1>5, <2>1
<1>8. disk'[FirstFile] = Delivery!FirstBytes(FirstFile, (k + 1) * ChunkSize) /\ FirstFile \in DOMAIN disk'
  <2>1. disk[FirstFile] = Delivery!FirstBytes(FirstFile, p.from)
    BY <1>2 DEF Arrived
  <2>2. disk[FirstFile] # <<>>
    <3>1. 0 \in DOMAIN disk[FirstFile]
      BY <1>2, <1>3, <2>1 DEF Delivery!FirstBytes
    <3>2. DOMAIN <<>> = {}
      OBVIOUS
    <3> QED
      BY <3>1, <3>2
  <2>3. Content(FirstFile) = Delivery!FirstBytes(FirstFile, p.from)
    BY <1>2, <2>1, <2>2 DEF Content, Arrived
  <2>4. Written(Content(FirstFile), p) = Delivery!FirstBytes(FirstFile, p.from + ChunkSize)
    <3> HIDE DEF p
    <3> QED
      BY <1>2, <1>3, <2>3, BytesGrow
  <2>5. disk'[FirstFile] = Written(Content(FirstFile), p) /\ FirstFile \in DOMAIN disk'
    BY <1>2, <1>5 DEF Arrived, DiskWith
  <2>6. p.from + ChunkSize = (k + 1) * ChunkSize
    BY <1>2, <1>3
  <2> QED
    BY <2>4, <2>5, <2>6
<1>9. AllReceived(c, p) <=> (k + 1) * ChunkSize >= FileSize[FirstFile]
  <2>1. p.isLast <=> (k + 1) * ChunkSize >= FileSize[FirstFile]
    <3>1. FileSize[FirstFile] - p.from <= ChunkSize <=> (k + 1) * ChunkSize >= FileSize[FirstFile]
      <4> HIDE DEF p, k
      <4> QED
        BY <1>2, <1>3
    <3> QED
      BY <1>2, <3>1, Zenon
  <2>2. k + 1 >= ChunksTotal(FirstFile) => (k + 1) * ChunkSize >= FileSize[FirstFile]
    BY <1>3, Covered
  <2>3. c.file = FirstFile
    BY <1>2 DEF Arrived
  <2> QED
    BY <2>1, <2>2, <2>3 DEF AllReceived
<1>10. reported = <<>>
  <2>1. ~(k * ChunkSize >= FileSize[FirstFile])
    BY <1>2, <1>3
  <2> QED
    BY <1>2, <2>1 DEF Arrived
<1>11. reported' # <<>> <=> (k + 1) * ChunkSize >= FileSize[FirstFile]
  <2>1. Append(<<>>, c.file) # <<>>
    OBVIOUS
  <2> QED
    BY <1>5, <1>9, <1>10, <2>1
<1>12. FirstFile' = FirstFile /\ main' # "request" /\ transfers' # <<>>
  BY <1>1, <1>3 DEF clientVars, FirstFile
<1>13. Arrived(received[1])'
  BY <1>2, <1>6, <1>7, <1>8, <1>11, <1>12 DEF Arrived
<1>14. UnderWay'
  <2>1. Taken' = Taken + 1 /\ Taken' \in {Taken, Taken + 1}
    BY <1>1, <1>3, <1>6, <1>7 DEF Taken
  <2> QED
    BY <1>1, <2>1, PacketTaken
<1> QED
  BY <1>1, <1>6, <1>7, <1>10, <1>12, <1>13, <1>14 DEF ArrivingInv

(* Every step of one transfer keeps its packets in place.                  *)
LEMMA StepArriving ==
  ASSUME TransferInv, OneTransfer, ArrivingInv, [Next]_vars, OneTransfer'
  PROVE  ArrivingInv'
<1>1. CASE ~Server /\ Next
  <2>1. CASE Disconnect
    BY <2>1, DisconnectArriving
  <2>2. CASE ~Disconnect
    BY <1>1, <2>2, ClientArriving DEF Next, MainThread
  <2> QED
    BY <2>1, <2>2
<1>2. CASE HandleFileRequest
  BY <1>2, RequestArrives
<1>3. CASE RequestFails \/ DiskRefuses
  BY <1>3 DEF RequestFails, DiskRefuses, OneTransfer
<1>4. CASE HandleFileChunk
  BY <1>4, ChunkArrives
<1>5. CASE DropChunk
  <2>1. channel # <<>> /\ Head(channel).type = "chunk" /\ received = <<>>
    BY <1>5 DEF DropChunk, Receive
  <2>2. Taken = 0 /\ Head(channel) = PacketNumber(1)
    BY <2>1, HeadUnderWay DEF Taken
  <2> QED
    BY <2>1, <2>2 DEF PacketNumber, Request
<1>6. CASE UNCHANGED vars
  <2>1. UNCHANGED <<transfers, main, file, chains, channel, connected, received, disk, reported, sent>>
    BY <1>6 DEF vars, clientVars, serverVars
  <2> QED
    BY <2>1 DEF ArrivingInv, UnderWay, PacketNumber, Taken, Arrived, FirstFile
<1> QED
  BY <1>1, <1>2, <1>3, <1>4, <1>5, <1>6 DEF Next, Server

LEMMA InitArriving == Init => ArrivingInv
<1> SUFFICES ASSUME Init PROVE ArrivingInv
  OBVIOUS
<1>1. transfers = <<>> /\ main = "idle" /\ sent = <<>> /\ chains = 0 /\ channel = <<>> /\ received = <<>>
      /\ reported = <<>>
  BY DEF Init
<1> QED
  BY <1>1 DEF ArrivingInv

(* Both ends of every transfer: what the client sent, and what of it is    *)
(* under way, counted and on the disk (FileTransfer.cpp:40-278, 300-375).  *)
THEOREM DeliveryInvariant == Spec => []DeliveryInv
<1> DEFINE Arriving == OneTransfer => ArrivingInv
<1>1. Init => ReceiverInv /\ Arriving
  BY InitReceiver, InitArriving
<1>2. TransferInv /\ ReceiverInv /\ [Next]_vars => ReceiverInv'
  BY StepReceiver
<1>3. TransferInv /\ Arriving /\ [Next]_vars => Arriving'
  BY PromiseEnds, StepArriving
<1>4. TransferInv /\ ReceiverInv /\ Arriving => DeliveryInv
  BY DEF DeliveryInv
<1> HIDE DEF Arriving
<1> QED
  BY <1>1, <1>2, <1>3, <1>4, TransferInvariant, PTL DEF Spec

(* Where the promise holds, the server's steps are those of FileDelivery.  *)
LEMMA StepKeepsPromise ==
  ASSUME DeliveryInv, [Next]_vars, OneTransfer, OneTransfer'
  PROVE  [Delivery!Next]_(Delivery!deliveryVars)
<1> USE DEF Delivery!deliveryVars
<1>1. TransferInv /\ ArrivingInv
  BY DEF DeliveryInv
<1>2. CASE UNCHANGED serverVars
  BY <1>2 DEF serverVars, Promised
<1>3. CASE HandleFileRequest
  <2>1. received = <<>>
    BY <1>1, <1>3, RequestArrives
  <2>2. CASE received' = <<>>
    BY <2>1, <2>2 DEF Promised
  <2>3. CASE received' # <<>>
    <3>1. /\ FileSize[FirstFile] > 0 /\ FirstFile \in Files /\ received'[1].file = FirstFile
          /\ reported' = <<>> /\ disk'[FirstFile] = Delivery!FirstBytes(FirstFile, 0)
      BY <1>1, <1>3, <2>3, RequestArrives
    <3>2. Delivery!Begin(FirstFile)
      BY <2>1, <2>3, <3>1 DEF Promised, Delivery!Begin
    <3> QED
      BY <3>1, <3>2 DEF Delivery!Next
  <2> QED
    BY <2>2, <2>3
<1>4. CASE HandleFileChunk
  <2> DEFINE k == received[1].chunksReceived
  <2>1. /\ received # <<>> /\ received' # <<>> /\ received'[1].file = received[1].file
        /\ received'[1].chunksReceived = k + 1 /\ reported = <<>> /\ ArrivingInv'
    BY <1>1, <1>4, ChunkArrives
  <2>2. Arrived(received[1]) /\ Arrived(received[1])'
    BY <1>1, <2>1 DEF ArrivingInv
  <2>3. /\ received[1].file = FirstFile /\ received'[1].file = FirstFile /\ FirstFile \in Files
        /\ k \in Nat /\ FileSize[FirstFile] \in Nat /\ FirstFile' = FirstFile
        /\ disk[FirstFile] = Delivery!FirstBytes(FirstFile, k * ChunkSize)
        /\ disk'[FirstFile] = Delivery!FirstBytes(FirstFile, (k + 1) * ChunkSize)
        /\ ~(k * ChunkSize >= FileSize[FirstFile])
        /\ reported' # <<>> <=> (k + 1) * ChunkSize >= FileSize[FirstFile]
    <3>1. received[1] \in Receptions /\ transfers # <<>> /\ FirstFile' = FirstFile
      BY <1>1, <1>4, <2>1, NextArrival, HeadUnderWay DEF HandleFileChunk, Receive, clientVars, FirstFile
    <3>2. k \in Nat /\ k + 1 \in Nat
      BY <3>1 DEF Receptions
    <3>3. FirstFile \in Files /\ FileSize[FirstFile] \in Nat
      BY <1>1, <3>1, FirstFileTyped DEF TransferInv, TypeOK
    <3>4. /\ received[1].file = FirstFile
          /\ disk[FirstFile] = Delivery!FirstBytes(FirstFile, k * ChunkSize)
          /\ ~(k * ChunkSize >= FileSize[FirstFile])
      BY <2>1, <2>2 DEF Arrived
    <3>5. /\ disk'[FirstFile] = Delivery!FirstBytes(FirstFile, received'[1].chunksReceived * ChunkSize)
          /\ reported' # <<>> <=> received'[1].chunksReceived * ChunkSize >= FileSize[FirstFile]
      BY <2>2, <3>1 DEF Arrived
    <3> QED
      BY <2>1, <3>1, <3>2, <3>3, <3>4, <3>5
  <2>4. k \in 0 .. FileSize[FirstFile]
    <3>1. k * ChunkSize >= k * 1 /\ k * ChunkSize \in Nat /\ k * 1 = k
      BY <2>3, FileAssumption
    <3> HIDE DEF k
    <3> QED
      BY <2>3, <3>1
  <2>5. FirstFile # NoFile
    BY <2>3, FileAssumption
  <2> HIDE DEF k
  <2>6. Delivery!Grow
    BY <2>1, <2>3, <2>4, <2>5 DEF Promised, Delivery!Grow
  <2> QED
    BY <2>6 DEF Delivery!Next
<1>5. CASE DropChunk \/ RequestFails \/ DiskRefuses
  BY <1>5 DEF DropChunk, RequestFails, DiskRefuses, OneTransfer, Promised, serverVars
<1>6. UNCHANGED serverVars \/ Server
  <2>1. CASE ~Server /\ Next
    <3>1. CASE Disconnect
      BY <3>1 DEF Disconnect
    <3>2. CASE ~Disconnect
      BY <1>1, <2>1, <3>2, ClientArriving DEF Next, MainThread
    <3> QED
      BY <3>1, <3>2
  <2> QED
    BY <2>1 DEF vars
<1> QED
  BY <1>2, <1>3, <1>4, <1>5, <1>6 DEF Server

(* A second transfer or a failed disk ends the promise for good.           *)
LEMMA StepDelivery ==
  ASSUME DeliveryInv, [Next]_vars
  PROVE  [Delivery!Next]_(Delivery!deliveryVars)
<1>1. OneTransfer' => OneTransfer
  BY PromiseEnds DEF DeliveryInv
<1>2. CASE ~OneTransfer
  BY <1>1, <1>2 DEF Promised, Delivery!deliveryVars
<1>3. CASE OneTransfer /\ ~OneTransfer'
  BY <1>3 DEF Promised, Delivery!Next, Delivery!GiveUp
<1> QED
  BY <1>1, <1>2, <1>3, StepKeepsPromise

(* The server's side implements what a delivery promises, for any files,   *)
(* chunk size and number of threads: one file sent alone to a disk that    *)
(* works grows by whole chunks in their places, never shows other bytes,   *)
(* and is reported in the step that makes it whole                         *)
(* (FileTransfer.cpp:40-278).                                              *)
THEOREM ServerImplementsDelivery == Spec => DeliverySpec
<1>1. Init => Delivery!Init
  <2> SUFFICES ASSUME Init PROVE Delivery!Init
    OBVIOUS
  <2>1. OneTransfer /\ ~Promised
    BY DEF Init, OneTransfer, Promised
  <2> QED
    BY <2>1 DEF Delivery!Init
<1>2. DeliveryInv /\ [Next]_vars => [Delivery!Next]_(Delivery!deliveryVars)
  BY StepDelivery
<1> QED
  BY <1>1, <1>2, DeliveryInvariant, PTL DEF Spec, DeliverySpec, Delivery!Spec
==============================================================================

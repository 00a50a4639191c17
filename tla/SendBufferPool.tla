--------------------------- MODULE SendBufferPool ---------------------------
(***************************************************************************)
(* SendBufferManager, SendBufferChunk and SendBuffer (SendBuffer.cpp).     *)
(* Each thread carves its SendBuffers out of a chunk of its own            *)
(* (LSendBufferChunk).  A SendBuffer keeps its chunk alive until the last  *)
(* session has transmitted it, long after the thread moved on to another   *)
(* chunk, so no chunk may be reused while one of its buffers lives.        *)
(***************************************************************************)
EXTENDS Naturals, Sequences, FiniteSets, SequencesExt

CONSTANTS
  Threads,    (* threads that build packets                                 *)
  Chunks,     (* the addresses a SendBufferChunk can have                   *)
  ChunkSize,  (* SEND_BUFFER_CHUNK_SIZE                                     *)
  Sizes,      (* sizes the program opens buffers with                       *)
  MaxLive,    (* bound: SendBuffers alive at once                           *)
  NoChunk     (* a null LSendBufferChunk                                    *)

ASSUME PoolAssumption ==
  /\ ChunkSize \in Nat
  /\ Sizes \subseteq 1 .. ChunkSize
  /\ MaxLive \in Nat
  /\ NoChunk \notin Chunks

VARIABLES
  local,     (* LSendBufferChunk of each thread                            *)
  open,      (* _open of each chunk                                        *)
  usedSize,  (* _usedSize of each chunk                                    *)
  pool,      (* _sendBufferChunks                                          *)
  live       (* the SendBuffers somebody holds                             *)

vars == <<local, open, usedSize, pool, live>>

(* size is what Open was asked for while the buffer is open and what Close *)
(* recorded afterwards.                                                    *)
SendBuffers == [chunk : Chunks, from : Nat, size : Nat, open : BOOLEAN]

TypeOK ==
  /\ local \in [Threads -> Chunks \cup {NoChunk}]
  /\ open \in [Chunks -> BOOLEAN]
  /\ usedSize \in [Chunks -> Nat]
  /\ pool \in Seq(Chunks)
  /\ live \subseteq SendBuffers

Init ==
  /\ local = [t \in Threads |-> NoChunk]
  /\ open = [c \in Chunks |-> FALSE]
  /\ usedSize = [c \in Chunks |-> 0]
  /\ pool = <<>>
  /\ live = {}

HasAnyRoom(c, size) == c # NoChunk /\ usedSize[c] < ChunkSize  \* mutant: < instead of the size
HasRoom(c, size) == c # NoChunk /\ ChunkSize - usedSize[c] >= size

(* ObjectPool hands out memory no shared_ptr refers to any more.           *)
UnreferencedByBuffers(c) == \A b \in live : b.chunk # c  \* mutant: a thread's chunk is not kept

Unreferenced(c) ==
  /\ \A t \in Threads : local[t] # c
  /\ c \notin Range(pool)
  /\ \A b \in live : b.chunk # c

(* Push ignores the thread's own chunk.                                    *)
PushAny(t, c) == Append(pool, c)             \* mutant: without the test
Push(t, c) == IF local[t] = c THEN pool ELSE Append(pool, c)

(* Pop: the newest chunk of the pool, or a new one.                        *)
Popped(p) == IF p # <<>> THEN {Last(p)} ELSE {c \in Chunks : Unreferenced(c)}

Rest(p) == IF p # <<>> THEN Front(p) ELSE p

(* Open: the thread's chunk serves the buffer if it has room; otherwise    *)
(* the thread pushes it, pops another and resets that one.                 *)
Serve(t, c, from, size) ==
  /\ local' = [local EXCEPT ![t] = c]
  /\ usedSize' = [usedSize EXCEPT ![c] = from]
  /\ open' = [open EXCEPT ![c] = TRUE]
  /\ live' = live \cup {[chunk |-> c, from |-> from, size |-> size, open |-> TRUE]}

OpenHere(t, size) ==
  /\ HasRoom(local[t], size)
  /\ ~open[local[t]]
  /\ Serve(t, local[t], usedSize[local[t]], size)
  /\ UNCHANGED pool

OpenElsewhere(t, size) ==
  LET pushed == IF local[t] = NoChunk THEN pool ELSE Push(t, local[t])
  IN /\ ~HasRoom(local[t], size)
     /\ local[t] # NoChunk => ~open[local[t]]
     /\ \E c \in Popped(pushed) : Serve(t, c, 0, size)
     /\ pool' = Rest(pushed)

Open(t, size) ==
  /\ Cardinality(live) < MaxLive
  /\ OpenHere(t, size) \/ OpenElsewhere(t, size)

(* Close, by the thread that opened the buffer and filled n bytes of it.   *)
Close(b, n) ==
  /\ b.open
  /\ live' = (live \ {b}) \cup {[b EXCEPT !.size = n, !.open = FALSE]}
  /\ open' = [open EXCEPT ![b.chunk] = FALSE]
  /\ usedSize' = [usedSize EXCEPT ![b.chunk] = @ + n]
  /\ UNCHANGED <<local, pool>>

(* The last reference to a buffer goes: it was transmitted, or dropped.    *)
Drop(b) ==
  /\ ~b.open
  /\ live' = live \ {b}
  /\ UNCHANGED <<local, open, usedSize, pool>>

(* A thread ends (each file chunk is sent by a thread of its own), and     *)
(* another starts with a null LSendBufferChunk.                            *)
ThreadExit(t) ==
  /\ local[t] # NoChunk
  /\ ~open[local[t]]
  /\ local' = [local EXCEPT ![t] = NoChunk]
  /\ UNCHANGED <<open, usedSize, pool, live>>

Next ==
  \/ \E t \in Threads, size \in Sizes : Open(t, size)
  \/ \E b \in live : (\E n \in 1 .. b.size : Close(b, n)) \/ Drop(b)
  \/ \E t \in Threads : ThreadExit(t)

Spec == Init /\ [][Next]_vars

-----------------------------------------------------------------------------
(* No two live SendBuffers share a byte of a chunk, however long a session *)
(* holds them: a packet waiting to be transmitted is never overwritten by  *)
(* the next one (SendBuffer.cpp:43, 71-78, 105).                           *)
LiveDisjoint ==
  \A a, b \in live :
    a # b /\ a.chunk = b.chunk =>
      a.from + a.size <= b.from \/ b.from + b.size <= a.from

(* A buffer stays inside its chunk (SendBuffer.cpp:33, 37).                *)
LiveInChunk == \A b \in live : b.from + b.size <= ChunkSize

(* Two threads never carve buffers out of the same chunk, which they use   *)
(* without a lock (SendBuffer.cpp:61-81).                                  *)
ChunkNotShared ==
  \A t, u \in Threads : local[t] = local[u] /\ local[t] # NoChunk => t = u

(* Behind them: a chunk's buffers lie below _usedSize, except the open one *)
(* that starts there, and the pool never holds a chunk.                    *)
Carved ==
  /\ \A b \in live :
       IF b.open THEN /\ open[b.chunk]
                      /\ b.from = usedSize[b.chunk]
                      /\ b.from + b.size <= ChunkSize
                 ELSE b.from + b.size <= usedSize[b.chunk]
  /\ \A c \in Chunks : usedSize[c] <= ChunkSize
  /\ \A a, b \in live : a.open /\ b.open /\ a.chunk = b.chunk => a = b

PoolInv ==
  /\ TypeOK /\ Carved /\ LiveDisjoint /\ ChunkNotShared
  /\ pool = <<>>
==============================================================================

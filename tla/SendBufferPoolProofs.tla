------------------------ MODULE SendBufferPoolProofs ------------------------
(***************************************************************************)
(* Proofs about the send buffers, for any threads, chunk size and buffer   *)
(* sizes: live buffers never overlap, and a chunk belongs to one thread.   *)
(***************************************************************************)
EXTENDS SendBufferPool, TLAPS

(* The kinds of step, one case each.                                       *)
LEMMA StepCases ==
  ASSUME Next
  PROVE  \/ \E t \in Threads, size \in Sizes : OpenHere(t, size)
         \/ \E t \in Threads, size \in Sizes : OpenElsewhere(t, size)
         \/ \E b \in live : \E n \in 1 .. b.size : Close(b, n)
         \/ \E b \in live : Drop(b)
         \/ \E t \in Threads : ThreadExit(t)
BY DEF Next, Open

(* There is no chunk and no buffer in the beginning.                       *)
LEMMA InitPoolInv == Init => PoolInv
<1> SUFFICES ASSUME Init PROVE PoolInv
  OBVIOUS
<1>1. TypeOK
  BY DEF Init, TypeOK
<1>2. Carved /\ LiveDisjoint /\ ChunkNotShared
  BY PoolAssumption DEF Init, Carved, LiveDisjoint, ChunkNotShared
<1> QED
  BY <1>1, <1>2 DEF PoolInv, Init

(* Serving a buffer at the end of a chunk that is closed, and whose other  *)
(* buffers lie below that end, keeps the buffers apart.                    *)
LEMMA ServeKeeps ==
  ASSUME PoolInv, NEW t \in Threads, NEW c \in Chunks, NEW from \in Nat,
         NEW size \in Sizes, Serve(t, c, from, size), pool' = pool,
         from + size <= ChunkSize,
         \A b \in live : b.chunk = c => ~b.open /\ b.from + b.size <= from,
         \A u \in Threads : local[u] = c => u = t
  PROVE  PoolInv'
<1> DEFINE new == [chunk |-> c, from |-> from, size |-> size, open |-> TRUE]
<1>0. size \in Nat /\ new \in SendBuffers /\ c # NoChunk
  BY PoolAssumption DEF SendBuffers
<1>1. /\ live' = live \cup {new}
      /\ local' = [local EXCEPT ![t] = c]
      /\ usedSize' = [usedSize EXCEPT ![c] = from]
      /\ open' = [open EXCEPT ![c] = TRUE]
  BY DEF Serve
<1>2. TypeOK'
  BY <1>0, <1>1 DEF PoolInv, TypeOK
<1>3. Carved'
  <2>1. ASSUME NEW b \in live'
        PROVE  IF b.open THEN /\ open'[b.chunk]
                              /\ b.from = usedSize'[b.chunk]
                              /\ b.from + b.size <= ChunkSize
                         ELSE b.from + b.size <= usedSize'[b.chunk]
    <3>1. CASE b = new
      BY <1>0, <1>1, <3>1 DEF PoolInv, TypeOK
    <3>2. CASE b \in live /\ b.chunk = c
      BY <1>1, <3>2 DEF PoolInv, TypeOK
    <3>3. CASE b \in live /\ b.chunk # c
      BY <1>1, <3>3 DEF PoolInv, TypeOK, Carved, SendBuffers
    <3> QED
      BY <1>1, <2>1, <3>1, <3>2, <3>3
  <2>2. \A d \in Chunks : usedSize'[d] <= ChunkSize
    BY <1>0, <1>1, PoolAssumption DEF PoolInv, TypeOK, Carved
  <2>3. \A a, b \in live' : a.open /\ b.open /\ a.chunk = b.chunk => a = b
    <3>1. \A a, b \in live : a.open /\ b.open /\ a.chunk = b.chunk => a = b
      BY DEF PoolInv, Carved
    <3>2. \A b \in live : b.open => b.chunk # new.chunk
      OBVIOUS
    <3> QED
      BY <1>1, <3>1, <3>2
  <2> QED
    BY <2>1, <2>2, <2>3 DEF Carved
<1>4. LiveDisjoint'
  <2>1. \A b \in live : b.chunk = new.chunk => b.from + b.size <= new.from
    OBVIOUS
  <2>2. \A a, b \in live : a # b /\ a.chunk = b.chunk =>
          a.from + a.size <= b.from \/ b.from + b.size <= a.from
    BY DEF PoolInv, LiveDisjoint
  <2> HIDE DEF new
  <2> QED
    BY <1>1, <2>1, <2>2 DEF LiveDisjoint
<1>5. ChunkNotShared'
  BY <1>1 DEF PoolInv, ChunkNotShared, TypeOK
<1> QED
  BY <1>2, <1>3, <1>4, <1>5 DEF PoolInv

(* A buffer carved out of the thread's own chunk.                          *)
LEMMA OpenHereInv ==
  ASSUME PoolInv, NEW t \in Threads, NEW size \in Sizes, OpenHere(t, size)
  PROVE  PoolInv'
<1> DEFINE c == local[t]
<1>1. /\ c \in Chunks /\ usedSize[c] \in Nat /\ size \in Nat
      /\ Serve(t, c, usedSize[c], size) /\ pool' = pool /\ ~open[c]
      /\ usedSize[c] + size <= ChunkSize
  BY PoolAssumption DEF OpenHere, HasRoom, PoolInv, TypeOK
<1>2. \A b \in live : b.chunk = c => ~b.open /\ b.from + b.size <= usedSize[c]
  BY <1>1 DEF PoolInv, Carved, TypeOK, SendBuffers
<1>3. \A u \in Threads : local[u] = c => u = t
  BY <1>1, PoolAssumption DEF PoolInv, ChunkNotShared
<1> HIDE DEF c
<1> QED
  BY <1>1, <1>2, <1>3, ServeKeeps

(* A buffer at the beginning of a chunk nobody refers to.                  *)
LEMMA OpenElsewhereInv ==
  ASSUME PoolInv, NEW t \in Threads, NEW size \in Sizes, OpenElsewhere(t, size)
  PROVE  PoolInv'
<1>1. pool = <<>>
  BY DEF PoolInv
<1>2. PICK c \in Chunks : Unreferenced(c) /\ Serve(t, c, 0, size)
  BY <1>1 DEF OpenElsewhere, Push, Popped
<1>3. pool' = pool
  BY <1>1 DEF OpenElsewhere, Push, Rest
<1>4. \A b \in live : b.chunk # c
  BY <1>2 DEF Unreferenced
<1>5. \A u \in Threads : local[u] # c
  BY <1>2 DEF Unreferenced
<1>6. 0 + size <= ChunkSize
  BY PoolAssumption
<1> QED
  BY <1>2, <1>3, <1>4, <1>5, <1>6, ServeKeeps

(* Closing a buffer keeps the bytes it filled below _usedSize.             *)
LEMMA CloseInv ==
  ASSUME PoolInv, NEW b \in live, NEW n \in 1 .. b.size, Close(b, n)
  PROVE  PoolInv'
<1> DEFINE closed == [b EXCEPT !.size = n, !.open = FALSE]
<1>0. /\ b \in SendBuffers /\ n \in Nat /\ n <= b.size /\ b.open
      /\ closed \in SendBuffers /\ closed.chunk = b.chunk /\ closed.from = b.from
      /\ closed.size = n /\ ~closed.open
  <2>1. b \in SendBuffers /\ b.open
    BY DEF Close, PoolInv, TypeOK
  <2>2. n \in Nat /\ n <= b.size
    BY <2>1 DEF SendBuffers
  <2> QED
    BY <2>1, <2>2 DEF SendBuffers
<1>1. /\ live' = (live \ {b}) \cup {closed}
      /\ open' = [open EXCEPT ![b.chunk] = FALSE]
      /\ usedSize' = [usedSize EXCEPT ![b.chunk] = @ + n]
      /\ local' = local /\ pool' = pool
  BY DEF Close
<1>2. /\ b.from = usedSize[b.chunk] /\ b.from + b.size <= ChunkSize
      /\ b.chunk \in Chunks /\ b.from \in Nat /\ b.size \in Nat
  BY <1>0 DEF PoolInv, Carved, SendBuffers
<1> HIDE DEF closed
<1>3. TypeOK'
  BY <1>0, <1>1, <1>2 DEF PoolInv, TypeOK
<1>4. \A a \in live \ {b} : a \in SendBuffers /\ (a.chunk = b.chunk => ~a.open)
  BY <1>0 DEF PoolInv, Carved, TypeOK
<1>5. Carved'
  <2>1. ASSUME NEW a \in live'
        PROVE  IF a.open THEN /\ open'[a.chunk]
                              /\ a.from = usedSize'[a.chunk]
                              /\ a.from + a.size <= ChunkSize
                         ELSE a.from + a.size <= usedSize'[a.chunk]
    <3>1. CASE a = closed
      BY <1>0, <1>1, <1>2, <3>1 DEF PoolInv, TypeOK
    <3>2. CASE a \in live \ {b} /\ a.chunk = b.chunk
      <4>1. a.from + a.size <= usedSize[b.chunk] /\ ~a.open /\ a.from + a.size \in Nat
        BY <1>4, <3>2 DEF PoolInv, Carved, SendBuffers
      <4>2. usedSize'[b.chunk] = usedSize[b.chunk] + n /\ usedSize[b.chunk] \in Nat
        BY <1>1, <1>2 DEF PoolInv, TypeOK
      <4> QED
        BY <1>0, <3>2, <4>1, <4>2
    <3>3. CASE a \in live \ {b} /\ a.chunk # b.chunk
      BY <1>1, <1>4, <3>3 DEF PoolInv, TypeOK, Carved, SendBuffers
    <3> QED
      BY <1>1, <2>1, <3>1, <3>2, <3>3
  <2>2. \A d \in Chunks : usedSize'[d] <= ChunkSize
    BY <1>0, <1>1, <1>2, PoolAssumption DEF PoolInv, TypeOK, Carved
  <2>3. \A a, d \in live' : a.open /\ d.open /\ a.chunk = d.chunk => a = d
    BY <1>0, <1>1 DEF PoolInv, Carved
  <2> QED
    BY <2>1, <2>2, <2>3 DEF Carved
<1>6. LiveDisjoint'
  <2>1. ASSUME NEW a \in live \ {b}, a.chunk = b.chunk
        PROVE  a.from + a.size <= b.from \/ b.from + n <= a.from
    <3>1. a.from + a.size <= b.from \/ b.from + b.size <= a.from
      BY <2>1 DEF PoolInv, LiveDisjoint
    <3>2. a.from \in Nat /\ a.size \in Nat
      BY <1>4, <2>1 DEF SendBuffers
    <3> QED
      BY <1>0, <1>2, <3>1, <3>2
  <2> QED
    BY <1>0, <1>1, <2>1 DEF PoolInv, LiveDisjoint
<1>7. ChunkNotShared'
  BY <1>1 DEF PoolInv, ChunkNotShared
<1> QED
  BY <1>1, <1>3, <1>5, <1>6, <1>7 DEF PoolInv

(* PoolInv is inductive.                                                   *)
LEMMA StepPoolInv == PoolInv /\ [Next]_vars => PoolInv'
<1> SUFFICES ASSUME PoolInv, [Next]_vars PROVE PoolInv'
  OBVIOUS
<1>1. ASSUME NEW t \in Threads, NEW size \in Sizes, OpenHere(t, size) PROVE PoolInv'
  BY <1>1, OpenHereInv
<1>2. ASSUME NEW t \in Threads, NEW size \in Sizes, OpenElsewhere(t, size) PROVE PoolInv'
  BY <1>2, OpenElsewhereInv
<1>3. ASSUME NEW b \in live, NEW n \in 1 .. b.size, Close(b, n) PROVE PoolInv'
  BY <1>3, CloseInv
<1>4. ASSUME NEW b \in live, Drop(b) PROVE PoolInv'
  BY <1>4 DEF Drop, PoolInv, TypeOK, Carved, LiveDisjoint, ChunkNotShared
<1>5. ASSUME NEW t \in Threads, ThreadExit(t) PROVE PoolInv'
  BY <1>5 DEF ThreadExit, PoolInv, TypeOK, Carved, LiveDisjoint, ChunkNotShared
<1>6. CASE UNCHANGED vars
  BY <1>6 DEF vars, PoolInv, TypeOK, Carved, LiveDisjoint, ChunkNotShared
<1> QED
  BY StepCases, <1>1, <1>2, <1>3, <1>4, <1>5, <1>6

(* The inductive invariant: buffers lie below their chunk's used size, the *)
(* open one at it, and the pool of recycled chunks stays empty             *)
(* (SendBuffer.cpp:24-110).                                                *)
THEOREM PoolInvariant == Spec => []PoolInv
BY InitPoolInv, StepPoolInv, PTL DEF Spec

(* No two threads carve buffers out of one chunk (SendBuffer.cpp:61-81).   *)
THEOREM ChunkOfOneThread == Spec => []ChunkNotShared
<1>1. PoolInv => ChunkNotShared
  BY DEF PoolInv
<1> QED
  BY <1>1, PoolInvariant, PTL

(* The send buffers somebody holds never overlap and stay inside their     *)
(* chunk (SendBuffer.cpp:33-43, 71-78).                                    *)
THEOREM BuffersDisjoint == Spec => [](LiveDisjoint /\ LiveInChunk)
<1>1. PoolInv => LiveDisjoint
  BY DEF PoolInv
<1>2. PoolInv => LiveInChunk
  <2> SUFFICES ASSUME PoolInv, NEW b \in live PROVE b.from + b.size <= ChunkSize
    BY DEF LiveInChunk
  <2>1. /\ b.chunk \in Chunks /\ usedSize[b.chunk] \in Nat
        /\ b.from \in Nat /\ b.size \in Nat
    BY DEF PoolInv, TypeOK, SendBuffers
  <2> QED
    BY <2>1, PoolAssumption DEF PoolInv, Carved
<1> QED
  BY <1>1, <1>2, PoolInvariant, PTL
==============================================================================

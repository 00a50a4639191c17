----------------------------- MODULE MemoryPool -----------------------------
(***************************************************************************)
(* MemoryPoolManager and its MemoryPools (MemoryPool.cpp), the memory      *)
(* behind every SendBuffer and SendBufferChunk.  There is a pool for each  *)
(* of a fixed set of sizes.  A request takes a block of the smallest pool  *)
(* that fits, or comes from malloc; the size that was asked for is written *)
(* in front of the block, and Release decides by it where the block goes.  *)
(* Each pool has a lock; the header is written and read outside of it.     *)
(***************************************************************************)
EXTENDS Naturals, Sequences, FiniteSets, SequencesExt

CONSTANTS
  Threads,
  Blocks,   (* the addresses malloc can return                              *)
  Pools,    (* the sizes of the pools                                       *)
  Asked,    (* the sizes the program allocates                              *)
  NoBlock   (* a thread that asked and has no block yet, or works on none   *)

ASSUME MemoryAssumption ==
  /\ Pools \subseteq Nat \ {0} /\ Asked \subseteq Nat \ {0}
  /\ IsFiniteSet(Pools)
  /\ NoBlock \notin Blocks

VARIABLES
  malloced,   (* the blocks malloc gave out and nobody freed                *)
  capacity,   (* the bytes malloc was asked for, without the header         *)
  allocSize,  (* the header of each block                                   *)
  queue,      (* _queue of each pool                                        *)
  held,       (* the blocks the program holds                               *)
  call        (* per thread: the call it is in                              *)

vars == <<malloced, capacity, allocSize, queue, held, call>>

(* In "pop" and "attach" size is the size asked for, in "push" the pool.   *)
Calls == [at : {"idle", "pop", "attach", "push"}, block : Blocks \cup {NoBlock}, size : Nat]

Idle == [at |-> "idle", block |-> NoBlock, size |-> 0]

TypeOK ==
  /\ malloced \subseteq Blocks /\ held \subseteq Blocks
  /\ capacity \in [Blocks -> Nat] /\ allocSize \in [Blocks -> Nat]
  /\ queue \in [Pools -> Seq(Blocks)]
  /\ call \in [Threads -> Calls]

Init ==
  /\ malloced = {} /\ held = {}
  /\ capacity = [b \in Blocks |-> 0] /\ allocSize = [b \in Blocks |-> 0]
  /\ queue = [p \in Pools |-> <<>>]
  /\ call = [t \in Threads |-> Idle]

Enter(t, at, b, size) == call' = [call EXCEPT ![t] = [at |-> at, block |-> b, size |-> size]]

(***************************************************************************)
(* Allocate(size).                                                         *)
(***************************************************************************)
Allocate(t, size) ==
  /\ call[t] = Idle
  /\ Enter(t, "pop", NoBlock, size)
  /\ UNCHANGED <<malloced, capacity, allocSize, queue, held>>

(* _pools.lower_bound(size).                                               *)
AnyPool(size) == Pools                         \* mutant: the first pool there is
Fitting(size) == {p \in Pools : p >= size}

PoolFor(size) ==
  {p \in Fitting(size) : \A q \in Fitting(size) : p <= q}

(* malloc returns memory that is not in use; without any the thread stops  *)
(* here (the code does not test for a null pointer).                       *)
Malloc(t, size, bytes) ==
  \E b \in Blocks \ malloced :
    /\ malloced' = malloced \cup {b}
    /\ capacity' = [capacity EXCEPT ![b] = bytes]
    /\ Enter(t, "attach", b, size)
    /\ UNCHANGED <<allocSize, queue, held>>

AllocateDirectly(t) ==
  /\ call[t].at = "pop"
  /\ Fitting(call[t].size) = {}
  /\ Malloc(t, call[t].size, call[t].size)

(* MemoryPool::Pop, under the pool's lock.                                 *)
Shared(q) == q                                 \* mutant: without pop_back
Shorter(q) == Front(q)

Pop(t) ==
  /\ call[t].at = "pop"
  /\ \E p \in PoolFor(call[t].size) :
       IF queue[p] = <<>>
         THEN Malloc(t, call[t].size, p)
         ELSE /\ Enter(t, "attach", Last(queue[p]), call[t].size)
              /\ queue' = [queue EXCEPT ![p] = Shorter(queue[p])]
              /\ UNCHANGED <<malloced, capacity, allocSize, held>>

AttachHeader(t) ==
  /\ call[t].at = "attach"
  /\ allocSize' = [allocSize EXCEPT ![call[t].block] = call[t].size]
  /\ held' = held \cup {call[t].block}
  /\ call' = [call EXCEPT ![t] = Idle]
  /\ UNCHANGED <<malloced, capacity, queue>>

(***************************************************************************)
(* Release(ptr).                                                           *)
(***************************************************************************)
(* A size no pool has exactly is freed, one a pool served included.        *)
Free(t, b) ==
  /\ call[t] = Idle
  /\ allocSize[b] \notin Pools
  /\ held' = held \ {b}
  /\ malloced' = malloced \ {b}
  /\ UNCHANGED <<capacity, allocSize, queue, call>>

(* MemoryPool::Push: the header first, then the queue under the lock.      *)
BeginPush(t, b) ==
  /\ call[t] = Idle
  /\ allocSize[b] \in Pools
  /\ held' = held \ {b}
  /\ allocSize' = [allocSize EXCEPT ![b] = 0]
  /\ Enter(t, "push", b, allocSize[b])
  /\ UNCHANGED <<malloced, capacity, queue>>

Push(t) ==
  /\ call[t].at = "push"
  /\ queue' = [queue EXCEPT ![call[t].size] = Append(@, call[t].block)]
  /\ call' = [call EXCEPT ![t] = Idle]
  /\ UNCHANGED <<malloced, capacity, allocSize, held>>

Next ==
  \E t \in Threads :
    \/ \E size \in Asked : Allocate(t, size)
    \/ AllocateDirectly(t) \/ Pop(t) \/ AttachHeader(t)
    \/ \E b \in held : Free(t, b) \/ BeginPush(t, b)
    \/ Push(t)

Spec == Init /\ [][Next]_vars

-----------------------------------------------------------------------------
(* The managers of memory give what the program relies on: room for the    *)
(* size that was asked for, in memory nobody else holds, whatever threads  *)
(* allocate and release at the same time (MemoryPool.cpp:59-92).           *)
Memory == INSTANCE Allocator WITH
            wanted <- [t \in Threads |->
                         IF call[t].at \in {"pop", "attach"} THEN call[t].size ELSE 0],
            room <- [b \in held |-> capacity[b]]

AllocatorSpec == Memory!Spec

(* Every block malloc gave out has exactly one place: the program, one     *)
(* position of one queue, or one thread that moves it.  So none is given   *)
(* out twice and none is lost.                                             *)
Moves(t) == call[t].at \in {"attach", "push"}

OnePlace ==
  /\ held \subseteq malloced
  /\ \A t \in Threads : Moves(t) => call[t].block \in malloced \ held
  /\ \A p \in Pools : \A i \in DOMAIN queue[p] : queue[p][i] \in malloced \ held
  /\ \A t, u \in Threads : Moves(t) /\ Moves(u) /\ call[t].block = call[u].block => t = u
  /\ \A p, q \in Pools : \A i \in DOMAIN queue[p], j \in DOMAIN queue[q] :
       queue[p][i] = queue[q][j] => p = q /\ i = j
  /\ \A t \in Threads, p \in Pools : \A i \in DOMAIN queue[p] :
       Moves(t) => queue[p][i] # call[t].block

NoneLost ==
  \A b \in malloced :
    \/ b \in held
    \/ \E t \in Threads : Moves(t) /\ call[t].block = b
    \/ \E p \in Pools : \E i \in DOMAIN queue[p] : queue[p][i] = b

(* A block is as large as the header says, and as the pool that has it.    *)
EnoughRoom ==
  /\ \A b \in held : allocSize[b] # 0 /\ capacity[b] >= allocSize[b]
  /\ \A p \in Pools : \A i \in DOMAIN queue[p] : capacity[queue[p][i]] >= p
  /\ \A t \in Threads : Moves(t) => capacity[call[t].block] >= call[t].size

CallsOK ==
  \A t \in Threads :
    /\ call[t].at \in {"pop", "attach"} => call[t].size \in Asked
    /\ call[t].at = "push" => call[t].size \in Pools
    /\ call[t].at = "idle" => call[t] = Idle

MemoryInv == TypeOK /\ CallsOK /\ OnePlace /\ NoneLost /\ EnoughRoom
==============================================================================

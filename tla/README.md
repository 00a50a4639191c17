# Verification of multipurpose-server

TLA+ models of the networking library `ServerCoreLibrary`, and of the server and
the client built on it, with TLC configurations that check the models on small
instances and TLAPS proofs that hold for every value of the constants.

The code is asynchronous C++ on asio: the server runs one `io_context` on a pool
of threads, every completion handler may run on any of them, and nothing uses a
strand. Its correctness rests on a few atomics, one mutex per session, one lock
per service, and on who owns which object when. The repository has no
documentation and no automated tests; what it promises is in its comments. Those
comments are what the `violation` runs quote.

Contents: [system](#1-the-system), [models](#2-the-models),
[checks](#3-what-is-model-checked), [proofs](#4-what-is-proved),
[findings](#5-findings), [limits](#6-what-is-not-modelled), [plan](#7-plan).

## 1. The system

Paths are relative to `src/`; library files are in `src/ServerCoreLibrary/`.

| Component | State | Operations | Hard behaviour |
|---|---|---|---|
| Session, send path (`Session.cpp`) | `_connected`, `_sendLock`, `_sendQueue`, `_sendRegistered`, the socket | `Send`, `RegisterSend`, `ProcessSend`, `HandleError`, `Disconnect` | any thread calls `Send` while the write handler finishes a transmission and a third thread disconnects; a mutex locked twice; partial writes; ignored errors |
| PacketSession and RecvBuffer, receive path (`Session.cpp`, `RecvBuffer.cpp`) | `_recvBuffer` with read and write position, the outstanding read | `RegisterRecv` and its handler, `OnRecv`, `OnWrite`, `OnRead`, `Clean` | packets cut anywhere by reads; moving the unfinished packet; boundary of the buffer; disconnects in between |
| SendBufferManager, SendBufferChunk, SendBuffer (`SendBuffer.cpp`, `CoreTLS.cpp`) | a chunk per thread, its `_usedSize` and `_open`, the recycle queue, reference counts | `Open`, `Close`, `Push`, `Pop`, `Reset`, release of a buffer, end of a thread | a chunk reused while a session still holds one of its buffers; chunks that move between threads |
| ServerService, Service (`Service.cpp`) | `_sessions`, `_sessionCount`, the outstanding accept | `StartAccept`, accept handler, `AddSession`, `ReleaseSession`, `CloseService` | counts read without the lock; two handlers that disconnect one session; shutdown |
| FileTransferManager, FilePacketSession (`FileTransfer.cpp`), `SendFile` (`client.cpp`) | transfer contexts, files on disk, detached threads | `StartFileSend`, `SendNextChunk`, `StartFileReceive`, `ProcessFileChunk`, packet handlers | several threads continue one transfer; overlapping transfers; disk errors; sizes at the chunk boundary |
| Stress test (`client.cpp`, `server.cpp`) | flags, counters and configuration at both ends, a timer | `RequestStressTest`, packet handlers, timer handler | main thread against io thread; timer waits that outlive a test; empty tests; unsigned subtraction |
| Session lifetime, ClientService, ThreadManager, CoreGlobal, both `main`s (`Session.cpp`, `Service.cpp`, `ThreadManager.cpp`, `CoreGlobal.cpp`, `server.cpp`, `client.cpp`) | the references to a session, `_sessions`, threads, the objects `main` and the globals own | `Start`, `Connect`, `ProcessConnect`, every handler, `Launch`, `Join`, the destructors | a read completes after the session was released; quit at any moment; detached threads outlive `main`; a handler that hangs |
| MemoryPool, ObjectPool (`MemoryPool.cpp`, `MemoryPool.h`) | a free list per size, a header in front of each block | `Allocate`, `Release`, `Pop`, `Push` | several threads at one pool; the header outside the lock; sizes at and between the pools' |
| Chat, Listener, AsioCore, AsioEvent, SocketUtils, NetAddress | none that matters, or dead code | | |

**How they interact.** `ServerService` accepts a socket into a fresh session and
calls `ProcessConnect`, which sets `_connected`, adds the session to the service
and starts the chain of reads. Each read runs `PacketSession::OnRecv`, which
cuts the stream into packets and calls `OnRecvPacket` of the program's session
class: chat, the stress test, or the file transfer. That handler builds its
answers in buffers of `SendBufferManager` and gives them to `Send`. `Disconnect`
closes the socket and releases the session from the service. So the layers stand
on two promises, which are specifications of their own here: `OrderedStream`
(what `Send` accepted is carried in order, whole and once) and `PacketStream`
(`OnRecvPacket` sees every packet once, in order, with its bytes). `FileTransfer`
and `StressTest` use a channel that keeps them. Below, every buffer and chunk comes
from the memory pools, whose promise is `Allocator`; above, what a client may
expect of a file it sends is `FileDelivery`. `main` starts the service and the
threads and takes everything down again, in an order that matters.

What makes each component correct:

- *Send path*: one write outstanding at a time; no queued buffer without someone
  who will transmit it; the connection carries buffers in the order of acceptance.
- *Receive path*: every packet once and in order; none complete left waiting;
  always room for the next read; moves within bounds and between disjoint ranges.
- *Send buffers*: no two live buffers share memory; no chunk serves two threads.
- *Service*: the count equals the set; never above the maximum; nobody refused
  who was accepted; nobody missed at shutdown; the accept chain does not break.
- *File transfer*: chunks in order and once; bytes at their places; reported once
  and when it is whole; a file that is sent arrives.
- *Session lifetime*: an object lives as long as somebody may use it; who goes is
  disconnected first; what is disconnected is reclaimed; a process that quits ends.
- *Memory pools*: a block is in one place, and large enough for what it is given for.
- *Stress test*: exact results; no underflow; no stale timer; a test ends.

`PROJECT.json` lists the hazards line by line with the property that covers each.

## 2. The models

Names of variables, actions and constants are those of the code where TLA+
allows it. `PROJECT.json` maps each definition to its lines. Definitions marked
`mutant` are deliberately wrong variants of the definition below them; nothing
refers to them, and each must make the property it belongs to fail.

### SessionSend, with OrderedStream
A thread takes one step per access to shared state: reading `_connected`, the
critical section of `_sendLock`, starting a write, closing the socket. `pc`
tells where each thread stands, `batch` what it carries. `Send` is `Send`,
`PushBuffer`, `RegisterSend`, `DrainQueue`, `StartWrite`; the write handler is
`WriteHandler`, `ProcessSend`, `RegisterSendLocked`, `Relock`, or `HandleError`.
The socket is external: `Transmit` completes a write with the number of bytes it
carried, `FailWrite` with an error, after which the connection may be down or alive,
`PeerCloses` takes it down. `HandleError` acts on three errors and ignores the others
(`Session.cpp:247-250`); `errorIgnored` records that it did, because `_sendRegistered`
then stays set and, if the connection is alive, nobody sends any more.

`Relock` is the line where `RegisterSend` locks a `std::mutex` that its own
thread holds since `ProcessSend`. This is undefined; the model lets the thread
hang or the process end, which is what implementations do. Two operators keep apart
who has the flag from who will use it: a `Registrant` is a thread for which
`_sendRegistered` is on, a `Sender` one that will start the next write. A thread at the
second lock, or hung there, is the first and not the second; `Relocking` names it. One liberty: the
branch of `RegisterSend` for an empty queue clears `_sendRegistered` after
releasing the lock, the model within the same step. `DrainFindsWork`, a part of
the invariant `SendInv`, shows that the branch is unreachable, so the two agree.

`OrderedStream` says what the layer above may rely on; `StreamSpec` is its
specification over `accepted` and `wire`, checked as a property of `SessionSend` for
writes that transmit all they are given. What is left of it when they do not is
`WireInOrder`: bytes may be missing, but none comes twice and none overtakes another.
`StreamInv` says why: the accepted buffers are those whose write is over, then those of
the one write or batch under way, then the queue.

### RecvPath, with PacketStream
The chain read → `OnRecv` → `Clean` → next read is sequential, so a program
counter for the chain is enough; `Disconnect` by others and failing reads
interleave with it. A byte is its offset in the peer's stream, so the contents
of the buffer show whether the right bytes are at the right place. `ReadSome`
completes with any number of the bytes that have arrived; `ParseNext` is one turn
of the loop in `OnRecv`; `FinishParse` is the length check, `OnRead` and `Clean`.
`PacketSizes` lies between the header size and `BufferSize`: these are the sizes
the program's peers build.

### SendBufferPool
`Open` is one step, because a chunk belongs to one thread (that it does is
`ChunkNotShared`). A chunk is the identity of its memory. `Unreferenced` is what
`ObjectPool::MakeShared` promises: memory to which no `shared_ptr` is left. A
buffer keeps its chunk alive until `Drop`, and threads end and restart with a null
`LSendBufferChunk`, as the detached threads of file transfers do.

### Service
The accept chain is one token that moves `start → accepting → check → connect →
add → start`; the counts it tests are read in steps of their own, as the code
reads them without the lock. Each accepted session has a read and a write
handler that may both call `Disconnect`; the exchange of `_connected` and the
release are two steps. `CloseService` is `main`'s shutdown after the threads were
joined, hence its guard `NoHandlerRuns`. It starts the loop over the set:
`CloseSession` is the `Disconnect` of one session, `NextSession` the iterator that moves
on, `ClearSessions` what follows the loop. `Disconnect` would release the session, out of
the set under the iterator, if it could still lock its `weak_ptr` to the service
(`ServiceHeld`). In the destructor nobody holds the service any more.

### SessionLifetime
One session, in the server or in the client (`role`), from `Start` to the end of the
process. `step` tells for each operation, the accept or connect, the read, the write and
the client's timer of the stress test, whether it is outstanding or where its handler is; `runs` which thread runs
it. Who keeps the session is not a variable but read off the state (`Owners`): the
accept handler's capture, the service's set, the write handler's `self`, a detached
thread, and in the client `main`, which keeps it to its end. The read handler and
the connect handler capture `this` only, so they are not owners. `phase` is how far
`main` is: `SendFile` sends the request and `FirstChunk` the first chunk, in two steps;
`Quit` stops the context, `Join` waits for the threads, and then the
locals and globals go in reverse order (`DestroyService`, `DropSession`,
`DestroyContext`, `DeleteGlobals`). `Needs` says what each handler step reaches. A
step that reaches an object that is gone is undefined behaviour: it is recorded in
`misuse` and the execution ends there. `Sends` is all of `Send` in one step; its
interleavings are the matter of `SessionSend`. In the client `io_context::run`
returns when nothing is outstanding (`OutOfWork`); in the server the acceptor and
the other sessions keep it busy.

### MemoryPool, with Allocator
`Allocate` and `Release`, step by step: `Pop` and `Push` under the lock of their pool,
`AttachHeader` and the first half of `MemoryPool::Push` (`BeginPush`) outside of it. A
block is an address; `capacity` is what `malloc` was asked for and `allocSize` the
header. `Fitting` and `PoolFor` are `lower_bound`, the test in `Release` is `find`: a
block goes back to a pool only if its size is exactly one of a pool, else it is
freed, even if a pool served it (finding 7). `AllocatorSpec` is `Allocator` over the
requests under way and the blocks handed out: memory that is given is held by
nobody else and has room for the size asked for.

### FileTransfer, with FileDelivery
The sender's manager, the receiver's manager, the channel between them and the
server's disk. `SendNextChunk` holds the manager's lock from beginning to end and
is one step. `StartFileSend` and the request it sends are two, because the lock
is released in between. A byte on disk is a file and an offset, or `Zero` where
space was preallocated. The disks may fail at both ends: the client's read of its
file (`ReadFails`, after which the stream stays bad), which may also have shrunk, so that
a read ends early and the chunk goes out with zeros in its rest (`FileTransfer.cpp:344`);
the server's new file, which is then missing or empty (`RequestFails`); and a chunk
(`DiskRefuses`). There the server makes the file anew, without the chunks it held, or
takes another file for the rest of the transfer (`redirected`), or writes a part of the
chunk; the chunk is dropped, or counts in spite of it. `DropChunk` is a chunk no request
announced.

`FileDelivery` is what the server owes a client that sends one file while no disk
fails: the file grows by whole chunks from its start, with zeros behind, and is
reported in the step that makes it whole, once. The refinement mapping takes the
content of the file of the first reception, and gives up the promise (`void`) as
soon as a second transfer starts or a disk fails.

### StressTest
The client's main thread (`RequestStressTest`, `SendStart`, and in between `StoreConfig`
with a step for each store that its io thread may see: count, sequence number and
echoes), its
io thread (handlers), its timer, and the server's session. `crashed` records the
division by the message count of `client.cpp:137` when that is zero; `overlapped`
records that the user asked for a test before the last one was answered.

## 3. What is model-checked

| Run | Instance | Shows |
|---|---|---|
| `SendPath` | 3 threads, 3 buffers (two of 2 bytes, one empty), fair | `OneWriteOutstanding`, `NoLostWakeup`, the inductive `StreamInv`, of which `SendInv` is a part, `StreamSpec` (refinement), `SentUnlessRelocked` |
| `Recv` | buffer of 3 × 4 cells, header 2, packets of 2 to 4, 13 bytes, fair | `RoomForFullRead`, `MoveDisjoint`, `NoPacketLeftBehind`, the inductive `RecvInv`, `PacketSpec` (refinement), `EventuallyDelivered` |
| `PoolReuse` | 2 threads, 5 chunks of 3 bytes, 3 live buffers of 1 or 3 | `LiveDisjoint`, `ChunkNotShared`, the inductive `PoolInv` |
| `Memory` | 2 threads, 3 blocks, pools of 2 and 4, sizes 2 to 5 | the inductive `MemoryInv`, `AllocatorSpec` (refinement) |
| `Lifetime` | both roles, 3 io threads, 2 detached threads, fair | the inductive `LifetimeInv`, `DestroyedDisconnected`, `ReadHandlerOwned`, `OnlyDetachedLate`, `Reclaimed`, `QuitEnds` |
| `Service` | 4 sessions, room for 2, one client waiting at a time, fair | `CountMatches`, `NeverRefused`, `MembersAreLive`, the inductive `ServiceInv`, `PlaceReturned`, `AcceptsWhileFree` |
| `FileTransfers` | files of 0, 1, 2, 4 and 5 bytes, chunks of 2, up to 2 sends, fair | the inductive `DeliveryInv`, of which `TransferInv` is a part, `ChunksInOrder`, `NotifiedOnce`, `FirstFileIntact`, `DeliverySpec` (refinement), `FileArrives` |
| `Stress` | tests of 0, 1 or 2 messages, up to 3 requests, fair | the inductive `TurnInv`, of which `StressInv` is a part, `LostIsNatural`, `ResultExact`, `NoDivisionByZero`, `TimerQuiet`, `TestEnds` |
| `SendRelock`, `SendShortWrite`, `ServiceFull`, `FileOverlap` | as above, or smaller | findings 1, 2, 4 and 5 of section 5 |

**Bounds, and why they are enough.**

- *SendPath*: three threads are a sender, the handler of a finished write and
  one that disconnects. Three buffers let one be in transmission while two are
  queued. The empty buffer is what completes a write with zero bytes.
  Writes transmit all they are given here, as `StreamSpec` needs; that `StreamInv` holds
  for short ones too is a theorem.
- *Recv*: the stream (13) is longer than the buffer (12), so the positions reach
  the end and `Clean` must move. Packets are the header alone, one with payload and
  one of the full `BufferSize`. Reads cut at every byte.
- *PoolReuse*: when a thread needs a new chunk, two live buffers and two threads
  refer to at most four, so with five `Open` can always succeed. Sizes 1 and 3 fill a chunk exactly, leave a rest,
  and exceed the rest.
- *Memory*: two pools with a size below, at, between and above their sizes; three
  blocks let one be held, one queued and one on its way, and let two threads take
  from one queue.
- *Lifetime*: three io threads, one for each operation of the session (the fourth of the
  server would find nothing to do); two detached threads are the chains that two sent
  files leave behind.
- *Service*: two places and four sessions are the smallest instance in which a
  place released twice would let a third session in. `MaxBacklog` bounds clients
  waiting at once; `AcceptsWhileFree` asks about one at a time anyway.
- *FileTransfers*: the sizes are nothing, less than a chunk, one chunk exactly,
  two exactly, and two with a rest. Two sends allow one during the first; each
  further send only adds another thread that continues transfer 1, for which the
  proofs of section 4 stand.
- *Stress*: two messages need one wait of the timer, one message none, and zero is
  what a user may type. Three requests allow two overlaps.

**Deadlock** is checked in `PoolReuse` only. Elsewhere the system may stop:
connections are lost, processes end, the bound on what users do is used up. In
`Memory` it stops when `malloc` has no block left: the code does not test for a null
pointer, and what it does with one is outside the model.

**Fairness, and why the code justifies it.** Threads keep running, and the
`io_context` hands each completed operation to one of them; so every thread step
and handler is weakly fair. `SessionSend` also assumes that every operation on a
socket completes, with success or an error. `Service` assumes that an accept
completes when a client waits; nothing makes clients come, sessions fail or
accepts fail. `FileTransfer` and `StressTest` assume that the session delivers
while it is connected, which is what `SentUnlessRelocked` and `EventuallyDelivered`
say of the layer below (with the exceptions of finding 1 and of an ignored write error). `SessionLifetime`
assumes that threads run their handlers, that the operations outstanding on a socket
complete once it was closed, and that `main` goes on unless it waits for a command;
a peer may stay silent for ever. `main` is never
obliged to stop the service, but ends the loop of `CloseService` once it began, peers never to send, users never to ask, and
connections never to fail.

**Conditions written into properties.** `NoLostWakeup` and `SentUnlessRelocked` name
their exceptions, the second lock of `_sendLock`, which `SendRelock` shows separately,
and a write error that `HandleError` ignored: what they say is that nothing else strands
a buffer of a connected session. `AcceptsWhileFree` is
about executions in which the service always has a free place; `ServiceFull`
shows the others. `DeliverySpec` and `FileArrives` are about a file that is sent
alone with disks that work, `FileOverlap` shows what overlapping does.
`ReadHandlerOwned` names its exception, a `Disconnect` by the write handler.
`Reclaimed` and `QuitEnds` exclude a write handler that hangs in the second lock of
`_sendLock` (finding 1), for which `Join` waits for ever, and executions that ended
in undefined behaviour. `ResultExact`,
`NoDivisionByZero`, `TimerQuiet` and `TestEnds` are about users who wait for the
answer of one test before they ask for the next, and `TurnInv` has a part for them;
`LostIsNatural` and the rest of `TurnInv`, which is `StressInv`, hold without that.

## 4. What is proved

TLAPS checks the following theorems for all values of the constants that satisfy
the named assumptions.

| Theorem | Module | Says |
|---|---|---|
| `TypeCorrect`, `SendInvariant` | `SessionSendProofs` | the types; the inductive `SendInv` |
| `OneWriterAtATime` | `SessionSendProofs` | two writes never overlap; a thread that drains finds work |
| `NoWakeupLost` | `SessionSendProofs` | a queue of a connected session has someone who returns for it, except after the second lock or an ignored error |
| `StreamInvariant`, `NothingOvertakes` | `SessionSendProofs` | the inductive `StreamInv`; however short writes are, no byte is carried twice or overtakes another |
| `WholeWritesImplementStream` | `SessionSendProofs` | `Spec /\ []BatchesFit => StreamSpec` if writes transmit all they are given: the session implements the ordered stream |
| `RecvInvariant`, `RecvSafe` | `RecvPathProofs` | the inductive `RecvInv`; room to read, and no overflow |
| `NothingLeftBehind`, `CopyDisjoint` | `RecvPathProofs` | nothing complete left behind; disjoint moves |
| `RecvImplementsPackets` | `RecvPathProofs` | `Spec => PacketSpec`: the receive path implements the packet stream |
| `PoolInvariant`, `ChunkOfOneThread` | `SendBufferPoolProofs` | the inductive `PoolInv`; no chunk serves two threads |
| `BuffersDisjoint` | `SendBufferPoolProofs` | live buffers never overlap and stay in their chunk |
| `MemoryInvariant` | `MemoryPoolProofs` | the inductive `MemoryInv`: a block has one place and the room promised |
| `PoolsAllocate` | `MemoryPoolProofs` | `Spec => AllocatorSpec`: the pools implement the allocator |
| `LifetimeInvariant` | `SessionLifetimeProofs` | the inductive `LifetimeInv` |
| `NeverDestroyedConnected` | `SessionLifetimeProofs` | the last reference goes after the disconnect |
| `ReadFindsSession` | `SessionLifetimeProofs` | only the write handler's disconnect can leave a read without its session |
| `OnlyDetachedTooLate` | `SessionLifetimeProofs` | only detached threads use service, context or globals after their end |
| `ServiceInvariant`, `ServiceSafe` | `ServiceProofs` | the inductive `ServiceInv`; the count and the maximum |
| `AcceptedIsServed`, `SetIsLive` | `ServiceProofs` | no refusal; no lost session, and an iterator of `CloseService` that stays valid |
| `StressInvariant`, `ResultsSane` | `StressTestProofs` | the inductive `StressInv`; the lost count never underflows, a start gets at most one result |
| `TurnInvariant` | `StressTestProofs` | the inductive `TurnInv` |
| `ResultsExact`, `NeverCrashes`, `TimerQuietBetween` | `StressTestProofs` | of a user who waits: results are exact, nothing is divided by zero, no timer outlives its test |
| `TransferInvariant` | `FileTransferProofs` | the inductive `TransferInv` |
| `ChunksOnceInOrder`, `NotifiedAtEnd` | `FileTransferProofs` | a transfer's chunks go out once and in order; it is reported once, after the last |
| `FirstFileStaysIntact` | `FileTransferProofs` | whatever overlaps or fails, the first file holds its own bytes in their places |
| `DeliveryInvariant` | `FileTransferProofs` | the inductive `DeliveryInv` |
| `ServerImplementsDelivery` | `FileTransferProofs` | `Spec => DeliverySpec`: the server implements the delivery of a file |

**Assumptions.** `SendAssumption`: sizes are naturals, a write takes at least one
buffer. `RecvAssumption`: the buffer is at least three times the largest packet
(`BUFFER_COUNT` is 10), a packet is at least its header and at most `BufferSize`.
`PoolAssumption`: buffers are asked for with at least one byte and at most a
chunk. `ServiceAssumption`: the maximum is a natural. `StressAssumption`: message
counts are naturals. `FileAssumption`: sizes are naturals and a chunk has at least
one byte. `MemoryAssumption`: the pools are finitely many, and the sizes of pools and
requests are positive. `LifetimeAssumption`: there is an io thread, and finitely many. Nothing is assumed about the
number of threads, buffers, chunks, blocks or sessions; other sets may be infinite unless a
cardinality is part of the statement.

**The arguments.**

- *Send path.* `SendInv` says who owns `_sendRegistered`: the flag is on exactly
  as long as one thread between turning it on and starting the write, or one
  outstanding write, or one thread running that write's handler, is responsible.
  `OneWriteOutstanding` alone is not inductive: a push could add a second sender
  unless every sender and every write implies the flag (`OwnerRegistered`).
  `NoLostWakeup` needs the converse (`RegisteredHasOwner`): while a session is connected
  and no error was ignored, the flag has a `Registrant`, a write or a thread about to
  disconnect. A `Registrant` that is no `Sender` is at the second lock. `DrainFindsWork`
  needs that only the sender empties the queue.
- *The ordered stream.* `StreamInv` splits `accepted` into the buffers that were
  carried, of which `wire` holds a subsequence of the bytes, and those that remain.
  `StepRemaining` says that a step keeps the split, adds a buffer at its end, or is
  `Transmit` and moves one write's buffers across; after an error has stopped all
  writing (`Stopped`) nothing moves any more. The bytes of a batch are a fold, so this
  needs `Bytes(s \o t) = Bytes(s) \o Bytes(t)` (`BytesConcat`), which is proved by
  induction on the length. The induction theorems of the library take an operator,
  which the provers cannot instantiate; the lemma `Induction` takes a set instead and
  follows from the least-element principle `WFMin`. With whole writes the subsequence
  is all of it: `PushBuffer` is `Accept`, a `Transmit` of at least a byte is `Carry`, all
  else stutters. `BatchesFit` says that no batch has more buffers than one write takes;
  finding 2 shows what happens without these two conditions, which the code relies on.
- *Receive path.* `RecvInv` ties four quantities: what was dispatched, what is kept
  in the buffer, what was received and what the peer wrote. `KeptBytes` says that
  the bytes kept are the next bytes of the stream in order, which `Clean` must
  preserve; `PartialPacket` says they are less than a packet when the loop ended,
  from which room and disjointness follow by arithmetic with `BUFFER_COUNT >= 3`.
  For the refinement, a turn of the loop is `Deliver`, a packet of the peer is
  `Write`, and all else is a stutter.
- *Send buffers.* `Carved`: a chunk's closed buffers lie below `_usedSize` and the
  open one starts there. The recycle queue stays empty (finding 3), so a reset
  chunk is one nobody refers to; this is why `LiveDisjoint` survives `Reset`.
- *Service.* `PlaceReserved`: while the accept chain holds a session, the count is
  below the maximum, as only the chain adds and releases only subtract.
  `ReleasedOnce`: the exchange of `_connected` lets one handler release, and the
  session is in the set until it does.
- *Memory pools.* `OnePlace` says that held blocks, the positions of all queues and
  the blocks threads move are pairwise different, `NoneLost` that there are no others,
  `EnoughRoom` that each is as large as its header and its pool say. They need each
  other: `Pop` takes a block out of a queue whose room the next `AttachHeader` relies
  on, and between the two only `call` knows it. For the refinement, `Allocate` is
  `Ask`, `AttachHeader` is `Give`, `Free` and `BeginPush` are `TakeBack`, the rest
  stutters.
- *Session lifetime.* `Threaded`: a handler runs on one thread. `Connecting` and
  `Serving`: a connected session is in the set or being added to it, and has a read
  outstanding, so the set owns it. `Releasing`: whoever won the exchange of `_connected`,
  and only that handler, takes it out of the set. `TakenDown`: after `Join` no thread
  runs a handler, so the destructors meet nobody but detached threads; that `Join`
  waits for every thread is what the mutant `JoinedOne` breaks.
- *Stress test.* `StressInv`: messages are numbered from 1 on their way to the server,
  and the set of those seen lies in `1 .. lastSeq` (`SeenBelowLast`), so it has at most
  `lastSeq` elements. That holds across overlapping tests because a start packet
  resets both together. `TurnInv` adds, for a user who waits, where his one test is:
  between two tests, being prepared, starting, running or being answered (`Turn`). In
  each of them it says which packets are under way in each direction, what both ends
  have counted, and that at most one wait of the timer is pending (`OneWait`); the
  results are exact because the server has counted every message when the end packet,
  which follows all of them in the channel, arrives.
- *File transfer.* `TransferInv`: the context counts exactly the chunks that went out,
  its bytes are that number of chunks or the whole file (`Progress`), and it is
  completed together with its last chunk. Whichever thread calls `SendNextChunk` next
  then sends the one chunk that is due. That the number of chunks equals the rounded-up
  quotient in the request is the lemma `RoundedUp`. On the server, `ReceiverInv` holds
  whatever overlaps: every chunk in the channel is one of the first file and carries its
  own offset (`InPlace`), so the first file can only be written with its own bytes.
  `DeliveryInv` adds, for one transfer with disks that work, where every chunk is
  (`ArrivingInv`): the packets in the channel are the consecutive ones after those
  taken (`UnderWay`), and the file is as long as the server has counted and reported
  if and only if it is whole (`Arrived`). For the refinement, the request starts the
  file, a chunk is `Grow`, the last one also reports, a second transfer or a failed disk
  makes it `void`.

**Only model-checked.** All liveness, which is beyond this prover: `SentUnlessRelocked`,
`EventuallyDelivered`, `Reclaimed`, `QuitEnds`, `PlaceReturned`, `AcceptsWhileFree`,
`FileArrives` and `TestEnds`. Every other property of a passing run is stated by a
theorem, in itself or as a part of an invariant.

## 5. Findings

1. **`_sendLock` is locked twice** (`SendRelock`). `ProcessSend` (`Session.cpp:232-236`)
   calls `RegisterSend` with the lock held, and `RegisterSend` locks it again
   (159). As soon as something is queued during a write, the thread hangs or the
   process ends.
2. **Short writes lose bytes** (`SendShortWrite`). `async_write_some` may transmit
   less than it was given; `ProcessSend` looks at the number of bytes only to test
   for zero.
3. **Chunks are never recycled** (no run; `PoolInv` states `pool = <<>>`). `Push` ignores
   the thread's own chunk (`SendBuffer.cpp:105`), the only one it is given, although the
   comment at 73 speaks of pushing it to the recycle queue. Safe, but the queue is dead.
4. **A full service never accepts again** (`ServiceFull`). `StartAccept` returns when
   the service is full, and no release restarts it.
5. **Overlapping transfers corrupt files** (`FileOverlap`). Chunks go to the newest
   context, and that one is reported complete on the sender's last chunk.
6. **The second file is never sent** (no run; `ChunksInOrder` says that every chunk is one
   of the first transfer). `SendFile` asks for the chunks of connection 1 whatever
   connection it started (`client.cpp:234`), and returns true.
7. **Blocks of a size between the pools' are freed** (no run; the guard of `Free`).
   `Allocate` writes the size that was asked for into the header, not the pool's, and
   `Release` looks for a pool of exactly that size (`MemoryPool.cpp:75`, `83-88`). Such a
   block leaves its pool for good; nothing is lost (`NoneLost`), nothing is reused.
8. **A read can complete on a destroyed session** (no run; the exception in
   `ReadHandlerOwned`). When the write handler disconnects, the set and the write
   handler drop the last references while the read's handler, aborted by the close, is
   still queued; it then uses its raw `this` (`Session.cpp:118`, `144`).
9. **Detached threads outlive what they use** (no run; the exception in
   `OnlyDetachedLate`). A transfer under way when the user quits goes on in a thread
   nobody joins (`FileTransfer.cpp:378-381`), on globals that are deleted.

One more of the send path, without a run: a write error other than the three of
`Session.cpp:241-243`, on a connection that stays alive, leaves `_sendRegistered` set with
nobody who sends (`errorIgnored`, the exception in `NoLostWakeup`); every later `Send`
only queues.

Two more of the stress test, without a run. One of no messages never ends: the end is
only looked for when an echo arrives (`client.cpp:145`), so every later request is
refused. And a request made while a test runs, before its flag is up, can store a
count of zero under it, after which the next echo divides by zero
(`client.cpp:137`); hence the condition in `NoDivisionByZero`.

## 6. What is not modelled

- *Hostile or malformed peers.* Headers smaller than a header, larger than
  `BufferSize`, or zero. `PacketSizes` excludes them as the program's peers do.
- *Memory order.* Atomics are sequentially consistent in the code, and here.
- *Failure of allocations.* `malloc`'s null pointer is not tested by the code.
- *Several server sessions on one disk.* Two clients that send files of one name at a
  time rename and write the same path; `FileTransfer` has one session.
- *Contents*: names, text, latencies and logs.
- *asio* is third-party: the actions `Transmit`, `FailWrite`, `PeerCloses`, `PeerSend`,
  `Accepted`, `ClientConnects` and `TimerExpires` state what the models use of it.
- *Dead code*: `Listener` (its body is commented out), `Broadcast`, `PushGlobal`,
  `CancelTransfer`, which nothing calls, and
  the classes of `AsioCore` and `AsioEvent`.
- *Chat* has no state.

## 7. Plan

Done, each with its proofs: `OrderedStream` and `SessionSend`, `PacketStream` and
`RecvPath`, `SendBufferPool`, `Service`, `FileTransfer` with `FileDelivery`,
`StressTest`, `SessionLifetime`, `Allocator` and `MemoryPool`.

Every safety property and every refinement is proved. Left:

1. Two server sessions that share a directory, each with its own manager.
2. A send path whose writes end short, composed with the receive path of the peer: what
   a parser makes of a stream that lost bytes in its middle.

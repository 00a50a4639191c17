----------------------------- MODULE SessionSend -----------------------------
(***************************************************************************)
(* The send path of one connected Session: Send, RegisterSend, ProcessSend *)
(* and HandleError (Session.cpp), with Disconnect, which any handler of    *)
(* the session may run at the same time on another thread of the           *)
(* io_context.  A thread takes one step per access to shared state: an     *)
(* atomic, a critical section of _sendLock, or a call into the socket.     *)
(***************************************************************************)
EXTENDS Naturals, Sequences, FiniteSets, SequencesExt

CONSTANTS
  Threads,     (* threads that run handlers, timers or user commands        *)
  Buffers,     (* the SendBuffers the program hands to Send, each once      *)
  Size,        (* WriteSize of a buffer, in bytes                           *)
  MaxIov,      (* buffers of a sequence one async_write_some transmits      *)
  ShortWrites, (* may a write transmit fewer bytes than it was given?       *)
  NoThread     (* nobody holds _sendLock                                    *)

ASSUME SendAssumption ==
  /\ Size \in [Buffers -> Nat]
  /\ MaxIov \in Nat \ {0}
  /\ ShortWrites \in BOOLEAN
  /\ NoThread \notin Threads

VARIABLES
  connected,   (* _connected                                                *)
  lockHolder,  (* owner of _sendLock between steps, or NoThread             *)
  queue,       (* _sendQueue                                                *)
  registered,  (* _sendRegistered                                           *)
  socketOpen,  (* the socket has not been closed                            *)
  link,        (* "down" once the connection failed or the peer closed it   *)
  reading,     (* an async_read_some is outstanding                         *)
  writes,      (* async_write_some operations whose handler has not run     *)
  pc,          (* what each thread does next                                *)
  batch,       (* per thread: the buffer(s) of the call it executes         *)
  running,     (* the process has not been terminated                       *)
  fresh,       (* buffers not handed to Send yet                            *)
  accepted,    (* history: buffers in the order Send pushed them            *)
  wire,        (* history: bytes the connection carried                     *)
  errorIgnored (* history: HandleError returned without doing anything      *)

sessionVars == <<connected, socketOpen, link, reading, running>>
queueVars == <<lockHolder, queue, registered>>
history == <<fresh, accepted, wire, errorIgnored>>
vars == <<sessionVars, queueVars, writes, pc, batch, history>>

Errors == {"aborted", "other"}  \* "aborted": the three HandleError acts on

Writes == [bufs : Seq(Buffers), status : {"pending", "sent", "nothing"} \cup Errors]

Steps == {"idle", "push", "register", "drain", "write", "sent",
          "reregister", "relock", "hung", "disconnect", "close"}

BytesOf(b) == [k \in 1 .. Size[b] |-> <<b, k>>]

Bytes(bufs) == FlattenSeq([i \in DOMAIN bufs |-> BytesOf(bufs[i])])

TypeOK ==
  /\ connected \in BOOLEAN /\ socketOpen \in BOOLEAN /\ reading \in BOOLEAN
  /\ running \in BOOLEAN /\ registered \in BOOLEAN
  /\ link \in {"up", "down"}
  /\ lockHolder \in Threads \cup {NoThread}
  /\ queue \in Seq(Buffers)
  /\ writes \subseteq Writes
  /\ pc \in [Threads -> Steps]
  /\ batch \in [Threads -> Seq(Buffers)]
  /\ fresh \subseteq Buffers
  /\ accepted \in Seq(Buffers)
  /\ errorIgnored \in BOOLEAN

Init ==
  /\ connected = TRUE /\ socketOpen = TRUE /\ link = "up" /\ reading = TRUE
  /\ running = TRUE
  /\ lockHolder = NoThread /\ queue = <<>> /\ registered = FALSE
  /\ writes = {}
  /\ pc = [t \in Threads |-> "idle"]
  /\ batch = [t \in Threads |-> <<>>]
  /\ fresh = Buffers /\ accepted = <<>> /\ wire = <<>> /\ errorIgnored = FALSE

LockFree == lockHolder = NoThread

At(t, step) == running /\ pc[t] = step

Goto(t, step) == pc' = [pc EXCEPT ![t] = step]

(***************************************************************************)
(* Send.  A call on a disconnected session drops the buffer.               *)
(***************************************************************************)
Send(t, b) ==
  /\ At(t, "idle")
  /\ b \in fresh
  /\ fresh' = fresh \ {b}
  /\ batch' = [batch EXCEPT ![t] = <<b>>]
  /\ Goto(t, IF connected THEN "push" ELSE "idle")
  /\ UNCHANGED <<sessionVars, queueVars, writes, accepted, wire, errorIgnored>>

(* Push under _sendLock; the thread that turns _sendRegistered on sends.   *)
RegistersAlways == TRUE                \* mutant: the exchange's result is ignored
RegistersIfEmpty == queue = <<>>       \* mutant: the queue is tested, not the flag
FirstToRegister == ~registered

PushBuffer(t) ==
  /\ At(t, "push")
  /\ LockFree
  /\ queue' = queue \o batch[t]
  /\ accepted' = accepted \o batch[t]
  /\ registered' = TRUE
  /\ Goto(t, IF FirstToRegister THEN "register" ELSE "idle")
  /\ UNCHANGED <<sessionVars, lockHolder, writes, batch, fresh, wire, errorIgnored>>

(***************************************************************************)
(* RegisterSend, called by Send without the lock.                          *)
(***************************************************************************)
RegisterSend(t) ==
  /\ At(t, "register")
  /\ Goto(t, IF connected THEN "drain" ELSE "idle")
  /\ UNCHANGED <<sessionVars, queueVars, writes, batch, history>>

(* The whole queue becomes one batch.  The code clears _sendRegistered on  *)
(* an empty queue after it has released the lock; DrainFindsWork says that *)
(* branch is never taken, so taking both in one step hides nothing.        *)
DrainedBackwards == Reverse(queue)     \* mutant: the queue is taken from its back
Drained == queue

DrainQueue(t) ==
  /\ At(t, "drain")
  /\ LockFree
  /\ batch' = [batch EXCEPT ![t] = Drained]
  /\ queue' = <<>>
  /\ registered' = (queue # <<>>)
  /\ Goto(t, IF queue = <<>> THEN "idle" ELSE "write")
  /\ UNCHANGED <<sessionVars, lockHolder, writes, history>>

StartWrite(t) ==
  /\ At(t, "write")
  /\ writes' = writes \cup {[bufs |-> batch[t], status |-> "pending"]}
  /\ Goto(t, "idle")
  /\ UNCHANGED <<sessionVars, queueVars, batch, history>>

(***************************************************************************)
(* The socket: one outstanding write transmits or fails.  asio hands at    *)
(* most MaxIov buffers of the sequence to one operation and reports how    *)
(* many bytes were transmitted; an all-empty sequence completes with 0.    *)
(***************************************************************************)
Transmit(w) ==
  LET given == Bytes(SubSeq(w.bufs, 1, IF Len(w.bufs) < MaxIov THEN Len(w.bufs) ELSE MaxIov))
      least == IF ShortWrites /\ given # <<>> THEN 1 ELSE Len(given)
  IN /\ running /\ socketOpen
     /\ w.status = "pending"
     /\ \E n \in least .. Len(given) :
          /\ writes' = (writes \ {w}) \cup
                        {[w EXCEPT !.status = IF n = 0 THEN "nothing" ELSE "sent"]}
          /\ wire' = wire \o SubSeq(given, 1, n)
     /\ UNCHANGED <<sessionVars, queueVars, pc, batch, fresh, accepted, errorIgnored>>

(* A write that fails may leave the connection alive: the read outstanding *)
(* then does not notice.                                                   *)
FailWrite(w) ==
  /\ running
  /\ w.status = "pending"
  /\ \E e \in Errors : writes' = (writes \ {w}) \cup {[w EXCEPT !.status = e]}
  /\ link' \in IF socketOpen THEN {link, "down"} ELSE {link}
  /\ UNCHANGED <<connected, socketOpen, reading, running, queueVars, pc, batch, history>>

PeerCloses ==
  /\ running
  /\ link' = "down"
  /\ UNCHANGED <<connected, socketOpen, reading, running, queueVars, writes, pc, batch, history>>

(***************************************************************************)
(* The write handler: ProcessSend on success, HandleError otherwise.       *)
(***************************************************************************)
WriteHandler(t, w) ==
  /\ At(t, "idle")
  /\ w.status \in {"sent", "nothing"}
  /\ writes' = writes \ {w}
  /\ Goto(t, CASE ~connected -> "idle"
               [] connected /\ w.status = "nothing" -> "disconnect"
               [] OTHER -> "sent")
  /\ UNCHANGED <<sessionVars, queueVars, batch, history>>

HandleError(t, w) ==
  /\ At(t, "idle")
  /\ w.status \in Errors
  /\ writes' = writes \ {w}
  /\ Goto(t, IF w.status = "aborted" THEN "disconnect" ELSE "idle")
  /\ errorIgnored' = (errorIgnored \/ w.status # "aborted")
  /\ UNCHANGED <<sessionVars, queueVars, batch, fresh, accepted, wire>>

(* ProcessSend under _sendLock: nothing queued ends the transmission,      *)
(* otherwise RegisterSend is called with the lock still held.              *)
NeverCleared == TRUE                   \* mutant: an empty queue keeps the flag
StillRegistered == queue # <<>>

HolderAfter(t) == IF queue = <<>> THEN NoThread ELSE t

ProcessSend(t) ==
  /\ At(t, "sent")
  /\ LockFree
  /\ registered' = StillRegistered
  /\ lockHolder' = HolderAfter(t)
  /\ Goto(t, IF queue = <<>> THEN "idle" ELSE "reregister")
  /\ UNCHANGED <<sessionVars, queue, writes, batch, history>>

RegisterSendLocked(t) ==
  /\ At(t, "reregister")
  /\ lockHolder' = IF connected THEN t ELSE NoThread
  /\ Goto(t, IF connected THEN "relock" ELSE "idle")
  /\ UNCHANGED <<sessionVars, queue, registered, writes, batch, history>>

(* RegisterSend locks _sendLock, a std::mutex its own thread already owns: *)
(* undefined behaviour.  The thread waits for itself, or the library       *)
(* throws system_error, which no handler catches, and the process ends.    *)
Relock(t) ==
  /\ At(t, "relock")
  /\ \/ Goto(t, "hung") /\ UNCHANGED running
     \/ running' = FALSE /\ UNCHANGED pc
  /\ UNCHANGED <<connected, socketOpen, link, reading, queueVars, writes, batch, history>>

(***************************************************************************)
(* Disconnect: the thread whose exchange finds TRUE closes the socket.     *)
(* The read handler calls it on any error; so may ProcessSend and          *)
(* HandleError above.                                                      *)
(***************************************************************************)
ReadFails(t) ==
  /\ At(t, "idle")
  /\ reading
  /\ link = "down" \/ ~socketOpen
  /\ reading' = FALSE
  /\ Goto(t, "disconnect")
  /\ UNCHANGED <<connected, socketOpen, link, running, queueVars, writes, batch, history>>

Disconnect(t) ==
  /\ At(t, "disconnect")
  /\ connected' = FALSE
  /\ Goto(t, IF connected THEN "close" ELSE "idle")
  /\ UNCHANGED <<socketOpen, link, reading, running, queueVars, writes, batch, history>>

CloseSocket(t) ==
  /\ At(t, "close")
  /\ socketOpen' = FALSE
  /\ Goto(t, "idle")
  /\ UNCHANGED <<connected, link, reading, running, queueVars, writes, batch, history>>

ThreadStep(t) ==
  \/ PushBuffer(t) \/ RegisterSend(t) \/ DrainQueue(t) \/ StartWrite(t)
  \/ ProcessSend(t) \/ RegisterSendLocked(t) \/ Relock(t)
  \/ Disconnect(t) \/ CloseSocket(t)

RunHandler(t) ==
  \/ ReadFails(t)
  \/ \E w \in writes : WriteHandler(t, w) \/ HandleError(t, w)

Socket == \E w \in writes : Transmit(w) \/ FailWrite(w)

Next ==
  \/ \E t \in Threads, b \in Buffers : Send(t, b)
  \/ \E t \in Threads : ThreadStep(t) \/ RunHandler(t)
  \/ Socket
  \/ PeerCloses

Spec == Init /\ [][Next]_vars

(* Threads keep running, the io_context hands every completed operation to *)
(* one of them, and every operation on a socket completes.                 *)
Fairness ==
  /\ \A t \in Threads : WF_vars(ThreadStep(t))
  /\ WF_vars(\E t \in Threads : RunHandler(t))
  /\ WF_vars(Socket)

FairSpec == Spec /\ Fairness

-----------------------------------------------------------------------------
(* The thread that comes back to the queue and starts the next write.      *)
Sender(t) == pc[t] \in {"register", "drain", "write", "sent"}

(* ProcessSend found more to send: a thread is about to lock _sendLock a   *)
(* second time, waits for itself, or has ended the process (Session.cpp:   *)
(* 236, 159).  None of them will transmit.                                 *)
Relocking == ~running \/ \E t \in Threads : pc[t] \in {"reregister", "relock", "hung"}

(* Threads for which _sendRegistered is on: they turned it on, or run the  *)
(* handler of the write that held it.                                      *)
Registrant(t) == Sender(t) \/ pc[t] \in {"reregister", "relock", "hung"}

(* At most one write is outstanding, and while one is, no thread is on its *)
(* way to start another: the socket never sees two overlapping writes,     *)
(* whatever threads call Send (Session.cpp:36, 232-236).                   *)
OneWriteOutstanding ==
  /\ \A t, u \in Threads : Registrant(t) /\ Registrant(u) => t = u
  /\ \A w, v \in writes : w = v
  /\ \A t \in Threads : Registrant(t) => writes = {}

(* A thread about to drain the queue finds something in it, so the branch  *)
(* of RegisterSend that clears _sendRegistered without the lock            *)
(* (Session.cpp:172-175), and could lose a concurrent push, never runs.    *)
DrainFindsWork ==
  \A t \in Threads : pc[t] \in {"register", "drain"} => queue # <<>>

(* While the session is connected, a queued buffer has a thread that will  *)
(* transmit it, a write whose handler looks at the queue, or a thread      *)
(* about to disconnect: no wake-up is lost between Send and ProcessSend    *)
(* (Session.cpp:33-37, 232-236).  Only two things leave the queue without  *)
(* anybody: ProcessSend's second lock, and a write error that HandleError  *)
(* ignores (247-250).                                                      *)
NoLostWakeup ==
  queue # <<>> /\ connected =>
    \/ writes # {}
    \/ \E t \in Threads : Sender(t) \/ pc[t] = "disconnect"
    \/ Relocking
    \/ errorIgnored

(* The invariant that makes the three above inductive: who holds the lock, *)
(* who owns _sendRegistered, and why a session without an owner is dead.   *)
LockOwner ==
  \A t \in Threads : pc[t] \in {"reregister", "relock", "hung"} <=> lockHolder = t

OwnerRegistered ==
  /\ \A t \in Threads : Registrant(t) => registered
  /\ writes # {} => registered
  /\ queue # <<>> => registered

RegisteredHasOwner ==
  registered /\ connected /\ ~errorIgnored =>
    \/ writes # {}
    \/ \E t \in Threads : Registrant(t) \/ pc[t] = "disconnect"

PushHasOne ==
  \A t \in Threads : pc[t] = "push" => Len(batch[t]) = 1

DeadConnection ==
  /\ ~socketOpen => ~connected
  /\ \A t \in Threads : pc[t] = "close" => ~connected

SendInv ==
  /\ TypeOK /\ LockOwner /\ OwnerRegistered /\ RegisteredHasOwner
  /\ OneWriteOutstanding /\ DrainFindsWork /\ PushHasOne /\ DeadConnection

(* However writes end, the connection carries bytes of accepted buffers in *)
(* the order of acceptance and none of them twice: a write that is short   *)
(* loses bytes, but nothing that follows overtakes (Session.cpp:33-37,     *)
(* 161-182, 229-251).                                                      *)
InOrderOf(part, whole) ==
  \E at \in [DOMAIN part -> DOMAIN whole] :
    /\ \A i, j \in DOMAIN part : i < j => at[i] < at[j]
    /\ \A i \in DOMAIN part : part[i] = whole[at[i]]

WireInOrder == InOrderOf(wire, Bytes(accepted))

(* Why it holds: the accepted buffers are those whose write is over, then  *)
(* those of the write to come, then the queue; after an error nobody       *)
(* writes again.                                                           *)
Stopped ==
  /\ registered
  /\ \A t \in Threads : ~Registrant(t)
  /\ \A w \in writes : w.status \in Errors

Remaining(bufs) ==
  ~Stopped =>
    /\ \A t \in Threads : pc[t] = "write" => bufs = batch[t] \o queue
    /\ \A w \in writes : w.status = "pending" => bufs = w.bufs \o queue
    /\ (\A t \in Threads : pc[t] # "write") /\ (\A w \in writes : w.status # "pending")
         => bufs = queue

CarriedUpTo(n) ==
  /\ InOrderOf(wire, Bytes(SubSeq(accepted, 1, n)))
  /\ Remaining(SubSeq(accepted, n + 1, Len(accepted)))

StreamInv ==
  /\ SendInv
  /\ wire \in Seq(Buffers \X Nat)
  /\ \E n \in 0 .. Len(accepted) : CarriedUpTo(n)

(* The session implements the ordered stream its callers rely on: whatever *)
(* threads call Send, each write carries the next accepted buffers, whole. *)
Stream == INSTANCE OrderedStream WITH
            Buffers <- Buffers, Size <- Size, accepted <- accepted, wire <- wire

StreamSpec == Stream!Spec

(* What the connection carried is a prefix of what Send accepted: the      *)
(* state form of the same promise, for writes that may be short.           *)
WireIsPrefix == IsPrefix(wire, Bytes(accepted))

(* Every buffer Send accepts reaches the connection, unless the session is *)
(* disconnected, a thread locked _sendLock twice (Session.cpp:236) or a    *)
(* write error was ignored (247-250): nothing else can strand a buffer.    *)
Relocked == ~running \/ \E t \in Threads : pc[t] = "hung"

SentUnlessRelocked ==
  \A b \in Buffers :
    b \in Range(accepted) ~> \/ Range(BytesOf(b)) \subseteq Range(wire)
                             \/ ~connected
                             \/ Relocked
                             \/ errorIgnored

(* Session.cpp:35 registers a send only if none is in progress, because    *)
(* ProcessSend registers the next: what was queued is taken up in the end. *)
(* An ignored write error is left aside, so what refutes this is the code  *)
(* that registers the next send.                                           *)
QueueServed == queue # <<>> ~> queue = <<>> \/ ~connected \/ errorIgnored
==============================================================================

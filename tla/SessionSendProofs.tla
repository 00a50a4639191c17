-------------------------- MODULE SessionSendProofs --------------------------
(***************************************************************************)
(* Proofs about the send path of a Session, for any number of threads and  *)
(* buffers, any buffer sizes, any write batch limit and with short writes: *)
(* type correctness, the single outstanding write, and no lost wake-up.    *)
(* Then the bytes the connection carries: what FlattenSeq computes, by     *)
(* induction; that short writes lose bytes but never reorder them; and     *)
(* that the session implements OrderedStream when writes are whole.        *)
(***************************************************************************)
EXTENDS SessionSend, SequenceTheorems, WellFoundedInduction, TLAPS

(* Next, one named case per action.                                        *)
LEMMA StepCases ==
  ASSUME Next
  PROVE  \/ \E t \in Threads, b \in Buffers : Send(t, b)
         \/ \E t \in Threads : PushBuffer(t)
         \/ \E t \in Threads : RegisterSend(t)
         \/ \E t \in Threads : DrainQueue(t)
         \/ \E t \in Threads : StartWrite(t)
         \/ \E w \in writes : Transmit(w)
         \/ \E w \in writes : FailWrite(w)
         \/ PeerCloses
         \/ \E t \in Threads, w \in writes : WriteHandler(t, w)
         \/ \E t \in Threads, w \in writes : HandleError(t, w)
         \/ \E t \in Threads : ProcessSend(t)
         \/ \E t \in Threads : RegisterSendLocked(t)
         \/ \E t \in Threads : Relock(t)
         \/ \E t \in Threads : ReadFails(t)
         \/ \E t \in Threads : Disconnect(t)
         \/ \E t \in Threads : CloseSocket(t)
BY DEF Next, ThreadStep, RunHandler, Socket

(* The type invariant, in the parts the provers can take one at a time.    *)
FlagsOK ==
  /\ connected \in BOOLEAN /\ socketOpen \in BOOLEAN /\ reading \in BOOLEAN
  /\ running \in BOOLEAN /\ registered \in BOOLEAN
  /\ link \in {"up", "down"}
  /\ lockHolder \in Threads \cup {NoThread}
  /\ errorIgnored \in BOOLEAN

ControlOK == pc \in [Threads -> Steps]

QueueOK ==
  /\ queue \in Seq(Buffers) /\ accepted \in Seq(Buffers)
  /\ batch \in [Threads -> Seq(Buffers)]
  /\ fresh \subseteq Buffers

WritesOK == writes \subseteq Writes

(* The type invariant, in the parts its proof treats one by one.           *)
LEMMA TypeParts == TypeOK <=> FlagsOK /\ ControlOK /\ QueueOK /\ WritesOK
BY DEF TypeOK, FlagsOK, ControlOK, QueueOK, WritesOK

(* The initial state has the types.                                        *)
LEMMA TypeInit == Init => TypeOK
<1> SUFFICES ASSUME Init PROVE TypeOK
  OBVIOUS
<1>1. FlagsOK
  BY DEF Init, FlagsOK
<1>2. ControlOK
  BY DEF Init, ControlOK, Steps
<1>3. QueueOK
  BY DEF Init, QueueOK
<1>4. WritesOK
  BY DEF Init, WritesOK
<1> QED
  BY <1>1, <1>2, <1>3, <1>4, TypeParts

(* Every action keeps the types.                                           *)
LEMMA TypeStep == TypeOK /\ [Next]_vars => TypeOK'
<1> SUFFICES ASSUME TypeOK, [Next]_vars PROVE TypeOK'
  OBVIOUS
<1>0. FlagsOK /\ ControlOK /\ QueueOK /\ WritesOK
  BY TypeParts
<1> USE DEF At, Goto, sessionVars, queueVars, history, FirstToRegister, Drained,
        StillRegistered, HolderAfter
<1>1. ASSUME NEW t \in Threads, NEW b \in Buffers, Send(t, b) PROVE TypeOK'
  <2>1. ControlOK'
    BY <1>0, <1>1 DEF ControlOK, Steps, Send
  <2>2. QueueOK'
    BY <1>0, <1>1 DEF QueueOK, Send
  <2>3. FlagsOK' /\ WritesOK'
    BY <1>0, <1>1 DEF FlagsOK, WritesOK, Send
  <2> QED
    BY <2>1, <2>2, <2>3 DEF TypeOK, FlagsOK, ControlOK, QueueOK, WritesOK
<1>2. ASSUME NEW t \in Threads, PushBuffer(t) PROVE TypeOK'
  <2>1. FlagsOK'
    BY <1>0, <1>2 DEF FlagsOK, PushBuffer
  <2>2. ControlOK'
    BY <1>0, <1>2 DEF ControlOK, Steps, PushBuffer
  <2>3. QueueOK'
    BY <1>0, <1>2 DEF QueueOK, PushBuffer
  <2>4. WritesOK'
    BY <1>0, <1>2 DEF WritesOK, PushBuffer
  <2> QED
    BY <2>1, <2>2, <2>3, <2>4 DEF TypeOK, FlagsOK, ControlOK, QueueOK, WritesOK
<1>3. ASSUME NEW t \in Threads, RegisterSend(t) PROVE TypeOK'
  <2>1. ControlOK'
    BY <1>0, <1>3 DEF ControlOK, Steps, RegisterSend
  <2>2. FlagsOK' /\ QueueOK' /\ WritesOK'
    BY <1>0, <1>3 DEF FlagsOK, QueueOK, WritesOK, RegisterSend
  <2> QED
    BY <2>1, <2>2 DEF TypeOK, FlagsOK, ControlOK, QueueOK, WritesOK
<1>4. ASSUME NEW t \in Threads, DrainQueue(t) PROVE TypeOK'
  <2>1. FlagsOK'
    BY <1>0, <1>4 DEF FlagsOK, DrainQueue
  <2>2. ControlOK'
    BY <1>0, <1>4 DEF ControlOK, Steps, DrainQueue
  <2>3. QueueOK'
    BY <1>0, <1>4 DEF QueueOK, DrainQueue
  <2>4. WritesOK'
    BY <1>0, <1>4 DEF WritesOK, DrainQueue
  <2> QED
    BY <2>1, <2>2, <2>3, <2>4 DEF TypeOK, FlagsOK, ControlOK, QueueOK, WritesOK
<1>5. ASSUME NEW t \in Threads, StartWrite(t) PROVE TypeOK'
  <2>1. ControlOK'
    BY <1>0, <1>5 DEF ControlOK, Steps, StartWrite
  <2>2. WritesOK'
    BY <1>0, <1>5 DEF WritesOK, StartWrite, Writes, QueueOK
  <2>3. FlagsOK' /\ QueueOK'
    BY <1>0, <1>5 DEF FlagsOK, QueueOK, StartWrite
  <2> QED
    BY <2>1, <2>2, <2>3 DEF TypeOK, FlagsOK, ControlOK, QueueOK, WritesOK
<1>6. ASSUME NEW w \in writes, Transmit(w) PROVE TypeOK'
  <2>1. WritesOK'
    <3>1. w \in Writes
      BY <1>0 DEF WritesOK
    <3>2. PICK s \in {"nothing", "sent"} :
             writes' = (writes \ {w}) \cup {[w EXCEPT !.status = s]}
      BY <1>6 DEF Transmit
    <3>3. [w EXCEPT !.status = s] \in Writes
      BY <3>1 DEF Writes
    <3> QED
      BY <1>0, <3>2, <3>3 DEF WritesOK
  <2>2. FlagsOK' /\ ControlOK' /\ QueueOK'
    BY <1>0, <1>6 DEF FlagsOK, ControlOK, QueueOK, Transmit
  <2> QED
    BY <2>1, <2>2 DEF TypeOK, FlagsOK, ControlOK, QueueOK, WritesOK
<1>7. ASSUME NEW w \in writes, FailWrite(w) PROVE TypeOK'
  <2>1. FlagsOK'
    BY <1>0, <1>7 DEF FlagsOK, FailWrite
  <2>2. WritesOK'
    BY <1>0, <1>7 DEF WritesOK, FailWrite, Writes, Errors
  <2>3. ControlOK' /\ QueueOK'
    BY <1>0, <1>7 DEF ControlOK, QueueOK, FailWrite
  <2> QED
    BY <2>1, <2>2, <2>3 DEF TypeOK, FlagsOK, ControlOK, QueueOK, WritesOK
<1>8. ASSUME PeerCloses PROVE TypeOK'
  <2>1. FlagsOK'
    BY <1>0, <1>8 DEF FlagsOK, PeerCloses
  <2>2. ControlOK' /\ QueueOK' /\ WritesOK'
    BY <1>0, <1>8 DEF ControlOK, QueueOK, WritesOK, PeerCloses
  <2> QED
    BY <2>1, <2>2 DEF TypeOK, FlagsOK, ControlOK, QueueOK, WritesOK
<1>9. ASSUME NEW t \in Threads, NEW w \in writes, WriteHandler(t, w)
     PROVE TypeOK'
  <2>1. ControlOK'
    BY <1>0, <1>9 DEF ControlOK, Steps, WriteHandler
  <2>2. WritesOK'
    BY <1>0, <1>9 DEF WritesOK, WriteHandler, Writes
  <2>3. FlagsOK' /\ QueueOK'
    BY <1>0, <1>9 DEF FlagsOK, QueueOK, WriteHandler
  <2> QED
    BY <2>1, <2>2, <2>3 DEF TypeOK, FlagsOK, ControlOK, QueueOK, WritesOK
<1>10. ASSUME NEW t \in Threads, NEW w \in writes, HandleError(t, w)
     PROVE TypeOK'
  <2>1. ControlOK'
    BY <1>0, <1>10 DEF ControlOK, Steps, HandleError
  <2>2. WritesOK'
    BY <1>0, <1>10 DEF WritesOK, HandleError, Writes
  <2>3. FlagsOK' /\ QueueOK'
    BY <1>0, <1>10 DEF FlagsOK, QueueOK, HandleError
  <2> QED
    BY <2>1, <2>2, <2>3 DEF TypeOK, FlagsOK, ControlOK, QueueOK, WritesOK
<1>11. ASSUME NEW t \in Threads, ProcessSend(t) PROVE TypeOK'
  <2>1. FlagsOK'
    BY <1>0, <1>11 DEF FlagsOK, ProcessSend
  <2>2. ControlOK'
    BY <1>0, <1>11 DEF ControlOK, Steps, ProcessSend
  <2>3. QueueOK' /\ WritesOK'
    BY <1>0, <1>11 DEF QueueOK, WritesOK, ProcessSend
  <2> QED
    BY <2>1, <2>2, <2>3 DEF TypeOK, FlagsOK, ControlOK, QueueOK, WritesOK
<1>12. ASSUME NEW t \in Threads, RegisterSendLocked(t) PROVE TypeOK'
  <2>1. FlagsOK'
    BY <1>0, <1>12 DEF FlagsOK, RegisterSendLocked
  <2>2. ControlOK'
    BY <1>0, <1>12 DEF ControlOK, Steps, RegisterSendLocked
  <2>3. QueueOK' /\ WritesOK'
    BY <1>0, <1>12 DEF QueueOK, WritesOK, RegisterSendLocked
  <2> QED
    BY <2>1, <2>2, <2>3 DEF TypeOK, FlagsOK, ControlOK, QueueOK, WritesOK
<1>13. ASSUME NEW t \in Threads, Relock(t) PROVE TypeOK'
  <2>1. FlagsOK'
    BY <1>0, <1>13 DEF FlagsOK, Relock
  <2>2. ControlOK'
    BY <1>0, <1>13 DEF ControlOK, Steps, Relock
  <2>3. QueueOK' /\ WritesOK'
    BY <1>0, <1>13 DEF QueueOK, WritesOK, Relock
  <2> QED
    BY <2>1, <2>2, <2>3 DEF TypeOK, FlagsOK, ControlOK, QueueOK, WritesOK
<1>14. ASSUME NEW t \in Threads, ReadFails(t) PROVE TypeOK'
  <2>1. FlagsOK'
    BY <1>0, <1>14 DEF FlagsOK, ReadFails
  <2>2. ControlOK'
    BY <1>0, <1>14 DEF ControlOK, Steps, ReadFails
  <2>3. QueueOK' /\ WritesOK'
    BY <1>0, <1>14 DEF QueueOK, WritesOK, ReadFails
  <2> QED
    BY <2>1, <2>2, <2>3 DEF TypeOK, FlagsOK, ControlOK, QueueOK, WritesOK
<1>15. ASSUME NEW t \in Threads, Disconnect(t) PROVE TypeOK'
  <2>1. FlagsOK'
    BY <1>0, <1>15 DEF FlagsOK, Disconnect
  <2>2. ControlOK'
    BY <1>0, <1>15 DEF ControlOK, Steps, Disconnect
  <2>3. QueueOK' /\ WritesOK'
    BY <1>0, <1>15 DEF QueueOK, WritesOK, Disconnect
  <2> QED
    BY <2>1, <2>2, <2>3 DEF TypeOK, FlagsOK, ControlOK, QueueOK, WritesOK
<1>16. ASSUME NEW t \in Threads, CloseSocket(t) PROVE TypeOK'
  <2>1. FlagsOK'
    BY <1>0, <1>16 DEF FlagsOK, CloseSocket
  <2>2. ControlOK'
    BY <1>0, <1>16 DEF ControlOK, Steps, CloseSocket
  <2>3. QueueOK' /\ WritesOK'
    BY <1>0, <1>16 DEF QueueOK, WritesOK, CloseSocket
  <2> QED
    BY <2>1, <2>2, <2>3 DEF TypeOK, FlagsOK, ControlOK, QueueOK, WritesOK
<1>17. CASE UNCHANGED vars
  BY <1>17 DEF vars, TypeOK
<1> QED
  BY StepCases, <1>1, <1>2, <1>3, <1>4, <1>5, <1>6, <1>7, <1>8, <1>9, <1>10,
     <1>11, <1>12, <1>13, <1>14, <1>15, <1>16, <1>17

(* The session's variables always have the types the model declares.       *)
THEOREM TypeCorrect == Spec => []TypeOK
<1>1. Init => TypeOK
  BY TypeInit
<1>2. TypeOK /\ [Next]_vars => TypeOK'
  BY TypeStep
<1> QED
  BY <1>1, <1>2, PTL DEF Spec

(* A new session has no sender and no queue.                               *)
LEMMA InitSendInv == Init => SendInv
<1> SUFFICES ASSUME Init PROVE SendInv
  OBVIOUS
<1>1. TypeOK
  BY TypeInit
<1>2. LockOwner /\ OwnerRegistered /\ RegisteredHasOwner /\ OneWriteOutstanding
      /\ DrainFindsWork /\ PushHasOne /\ DeadConnection
  BY SendAssumption DEF Init, LockOwner, OwnerRegistered, RegisteredHasOwner,
     OneWriteOutstanding, DrainFindsWork, PushHasOne, DeadConnection, Registrant, Sender
<1> QED
  BY <1>1, <1>2 DEF SendInv

(* SendInv is inductive: one case per action, and under it one step per    *)
(* conjunct the action can disturb.                                        *)
LEMMA StepSendInv == SendInv /\ [Next]_vars => SendInv'
<1> SUFFICES ASSUME SendInv, [Next]_vars PROVE SendInv'
  OBVIOUS
<1>0. TypeOK' /\ FlagsOK /\ ControlOK /\ QueueOK /\ WritesOK
  BY TypeStep, TypeParts DEF SendInv
<1> USE SendAssumption DEF At, Goto, sessionVars, queueVars, history, FirstToRegister,
        Drained, StillRegistered, HolderAfter
<1>1. ASSUME NEW t \in Threads, NEW b \in Buffers, Send(t, b) PROVE SendInv'
  <2>1. LockOwner'
    BY <1>0, <1>1 DEF SendInv, LockOwner, Send
  <2>2. OwnerRegistered' /\ OneWriteOutstanding'
    BY <1>0, <1>1 DEF SendInv, OwnerRegistered, OneWriteOutstanding, Send,
       ControlOK, Registrant, Sender
  <2>3. RegisteredHasOwner'
    BY <1>0, <1>1 DEF SendInv, RegisteredHasOwner, Send, ControlOK, Registrant, Sender
  <2>4. DrainFindsWork'
    BY <1>0, <1>1 DEF SendInv, DrainFindsWork, Send
  <2>5. PushHasOne'
    BY <1>0, <1>1 DEF SendInv, PushHasOne, Send, ControlOK, QueueOK
  <2>6. DeadConnection'
    BY <1>0, <1>1 DEF SendInv, DeadConnection, Send
  <2> QED
    BY <1>0, <2>1, <2>2, <2>3, <2>4, <2>5, <2>6 DEF SendInv
<1>2. ASSUME NEW t \in Threads, PushBuffer(t) PROVE SendInv'
  <2>1. LockOwner'
    BY <1>0, <1>2 DEF SendInv, LockOwner, PushBuffer
  <2>2. OwnerRegistered' /\ OneWriteOutstanding'
    BY <1>0, <1>2 DEF SendInv, OwnerRegistered, OneWriteOutstanding,
       PushBuffer, ControlOK, Registrant, Sender
  <2>3. RegisteredHasOwner'
    BY <1>0, <1>2 DEF SendInv, RegisteredHasOwner, PushBuffer, ControlOK,
       Registrant, Sender
  <2>4. DrainFindsWork'
    <3>1. queue' # <<>>
      <4> DEFINE b == batch[t]
      <4>1. queue \in Seq(Buffers) /\ b \in Seq(Buffers) /\ Len(b) = 1 /\ queue' = queue \o b
        BY <1>0, <1>2 DEF SendInv, PushBuffer, PushHasOne, QueueOK
      <4> HIDE DEF b
      <4>2. Len(queue \o b) = Len(queue) + Len(b)
        BY <4>1, ConcatProperties
      <4>3. Len(queue') = Len(queue) + 1 /\ Len(queue) \in Nat
        BY <4>1, <4>2, LenProperties
      <4>4. Len(queue') # 0 /\ Len(<<>>) = 0
        BY <4>3
      <4> QED
        BY <4>4, Zenon
    <3> QED
      BY <3>1 DEF DrainFindsWork
  <2>5. PushHasOne'
    BY <1>0, <1>2 DEF SendInv, PushHasOne, PushBuffer
  <2>6. DeadConnection'
    BY <1>0, <1>2 DEF SendInv, DeadConnection, PushBuffer
  <2> QED
    BY <1>0, <2>1, <2>2, <2>3, <2>4, <2>5, <2>6 DEF SendInv
<1>3. ASSUME NEW t \in Threads, RegisterSend(t) PROVE SendInv'
  <2>1. LockOwner'
    BY <1>0, <1>3 DEF SendInv, LockOwner, RegisterSend
  <2>2. OwnerRegistered' /\ OneWriteOutstanding'
    BY <1>0, <1>3 DEF SendInv, OwnerRegistered, OneWriteOutstanding,
       RegisterSend, ControlOK, Registrant, Sender
  <2>3. RegisteredHasOwner'
    BY <1>0, <1>3 DEF SendInv, RegisteredHasOwner, RegisterSend, ControlOK,
       Registrant, Sender
  <2>4. DrainFindsWork'
    BY <1>0, <1>3 DEF SendInv, DrainFindsWork, RegisterSend
  <2>5. PushHasOne'
    BY <1>0, <1>3 DEF SendInv, PushHasOne, RegisterSend
  <2>6. DeadConnection'
    BY <1>0, <1>3 DEF SendInv, DeadConnection, RegisterSend
  <2> QED
    BY <1>0, <2>1, <2>2, <2>3, <2>4, <2>5, <2>6 DEF SendInv
<1>4. ASSUME NEW t \in Threads, DrainQueue(t) PROVE SendInv'
  <2>1. LockOwner'
    BY <1>0, <1>4 DEF SendInv, LockOwner, DrainQueue
  <2>2. OwnerRegistered' /\ OneWriteOutstanding'
    BY <1>0, <1>4 DEF SendInv, OwnerRegistered, OneWriteOutstanding,
       DrainQueue, ControlOK, Registrant, Sender
  <2>3. RegisteredHasOwner'
    BY <1>0, <1>4 DEF SendInv, RegisteredHasOwner, DrainQueue, ControlOK,
       Registrant, Sender
  <2>4. DrainFindsWork'
    BY <1>0, <1>4 DEF SendInv, DrainFindsWork, DrainQueue, ControlOK, Registrant, Sender,
       OneWriteOutstanding
  <2>5. PushHasOne'
    BY <1>0, <1>4 DEF SendInv, PushHasOne, DrainQueue
  <2>6. DeadConnection'
    BY <1>0, <1>4 DEF SendInv, DeadConnection, DrainQueue
  <2> QED
    BY <1>0, <2>1, <2>2, <2>3, <2>4, <2>5, <2>6 DEF SendInv
<1>5. ASSUME NEW t \in Threads, StartWrite(t) PROVE SendInv'
  <2>1. LockOwner'
    BY <1>0, <1>5 DEF SendInv, LockOwner, StartWrite
  <2>2. OwnerRegistered' /\ OneWriteOutstanding'
    BY <1>0, <1>5 DEF SendInv, OwnerRegistered, OneWriteOutstanding,
       StartWrite, ControlOK, Registrant, Sender
  <2>3. RegisteredHasOwner'
    BY <1>0, <1>5 DEF SendInv, RegisteredHasOwner, StartWrite
  <2>4. DrainFindsWork'
    BY <1>0, <1>5 DEF SendInv, DrainFindsWork, StartWrite
  <2>5. PushHasOne'
    BY <1>0, <1>5 DEF SendInv, PushHasOne, StartWrite
  <2>6. DeadConnection'
    BY <1>0, <1>5 DEF SendInv, DeadConnection, StartWrite, ControlOK,
       WritesOK, Writes, Errors
  <2> QED
    BY <1>0, <2>1, <2>2, <2>3, <2>4, <2>5, <2>6 DEF SendInv
<1>6. ASSUME NEW w \in writes, Transmit(w) PROVE SendInv'
  <2>1. LockOwner'
    BY <1>0, <1>6 DEF SendInv, LockOwner, Transmit
  <2>2. OwnerRegistered' /\ OneWriteOutstanding'
    BY <1>0, <1>6 DEF SendInv, OwnerRegistered, OneWriteOutstanding, Transmit,
       ControlOK, Registrant, Sender
  <2>3. RegisteredHasOwner'
    BY <1>0, <1>6 DEF SendInv, RegisteredHasOwner, Transmit
  <2>4. DrainFindsWork'
    BY <1>0, <1>6 DEF SendInv, DrainFindsWork, Transmit
  <2>5. PushHasOne'
    BY <1>0, <1>6 DEF SendInv, PushHasOne, Transmit
  <2>6. DeadConnection'
    BY <1>0, <1>6 DEF SendInv, DeadConnection, Transmit, ControlOK, WritesOK,
       Writes, Errors
  <2> QED
    BY <1>0, <2>1, <2>2, <2>3, <2>4, <2>5, <2>6 DEF SendInv
<1>7. ASSUME NEW w \in writes, FailWrite(w) PROVE SendInv'
  <2>1. LockOwner'
    BY <1>0, <1>7 DEF SendInv, LockOwner, FailWrite
  <2>2. OwnerRegistered' /\ OneWriteOutstanding'
    BY <1>0, <1>7 DEF SendInv, OwnerRegistered, OneWriteOutstanding,
       FailWrite, ControlOK, Registrant, Sender
  <2>3. RegisteredHasOwner'
    BY <1>0, <1>7 DEF SendInv, RegisteredHasOwner, FailWrite
  <2>4. DrainFindsWork'
    BY <1>0, <1>7 DEF SendInv, DrainFindsWork, FailWrite
  <2>5. PushHasOne'
    BY <1>0, <1>7 DEF SendInv, PushHasOne, FailWrite
  <2>6. DeadConnection'
    BY <1>0, <1>7 DEF SendInv, DeadConnection, FailWrite
  <2> QED
    BY <1>0, <2>1, <2>2, <2>3, <2>4, <2>5, <2>6 DEF SendInv
<1>8. ASSUME PeerCloses PROVE SendInv'
  <2>1. LockOwner'
    BY <1>0, <1>8 DEF SendInv, LockOwner, PeerCloses
  <2>2. OwnerRegistered' /\ OneWriteOutstanding'
    BY <1>0, <1>8 DEF SendInv, OwnerRegistered, OneWriteOutstanding,
       PeerCloses, ControlOK, Registrant, Sender
  <2>3. RegisteredHasOwner'
    BY <1>0, <1>8 DEF SendInv, RegisteredHasOwner, PeerCloses, Registrant, Sender
  <2>4. DrainFindsWork'
    BY <1>0, <1>8 DEF SendInv, DrainFindsWork, PeerCloses
  <2>5. PushHasOne'
    BY <1>0, <1>8 DEF SendInv, PushHasOne, PeerCloses
  <2>6. DeadConnection'
    BY <1>0, <1>8 DEF SendInv, DeadConnection, PeerCloses
  <2> QED
    BY <1>0, <2>1, <2>2, <2>3, <2>4, <2>5, <2>6 DEF SendInv
<1>9. ASSUME NEW t \in Threads, NEW w \in writes, WriteHandler(t, w)
     PROVE SendInv'
  <2>1. LockOwner'
    BY <1>0, <1>9 DEF SendInv, LockOwner, WriteHandler
  <2>2. OwnerRegistered' /\ OneWriteOutstanding'
    BY <1>0, <1>9 DEF SendInv, OwnerRegistered, OneWriteOutstanding,
       WriteHandler, ControlOK, Registrant, Sender
  <2>3. RegisteredHasOwner'
    BY <1>0, <1>9 DEF SendInv, RegisteredHasOwner, WriteHandler, ControlOK,
       Registrant, Sender
  <2>4. DrainFindsWork'
    BY <1>0, <1>9 DEF SendInv, DrainFindsWork, WriteHandler
  <2>5. PushHasOne'
    BY <1>0, <1>9 DEF SendInv, PushHasOne, WriteHandler
  <2>6. DeadConnection'
    BY <1>0, <1>9 DEF SendInv, DeadConnection, WriteHandler
  <2> QED
    BY <1>0, <2>1, <2>2, <2>3, <2>4, <2>5, <2>6 DEF SendInv
<1>10. ASSUME NEW t \in Threads, NEW w \in writes, HandleError(t, w)
     PROVE SendInv'
  <2>1. LockOwner'
    BY <1>0, <1>10 DEF SendInv, LockOwner, HandleError
  <2>2. OwnerRegistered' /\ OneWriteOutstanding'
    BY <1>0, <1>10 DEF SendInv, OwnerRegistered, OneWriteOutstanding,
       HandleError, ControlOK, Registrant, Sender
  <2>3. RegisteredHasOwner'
    BY <1>0, <1>10 DEF SendInv, RegisteredHasOwner, HandleError, ControlOK,
       DeadConnection
  <2>4. DrainFindsWork'
    BY <1>0, <1>10 DEF SendInv, DrainFindsWork, HandleError
  <2>5. PushHasOne'
    BY <1>0, <1>10 DEF SendInv, PushHasOne, HandleError
  <2>6. DeadConnection'
    BY <1>0, <1>10 DEF SendInv, DeadConnection, HandleError
  <2> QED
    BY <1>0, <2>1, <2>2, <2>3, <2>4, <2>5, <2>6 DEF SendInv
<1>11. ASSUME NEW t \in Threads, ProcessSend(t) PROVE SendInv'
  <2>1. LockOwner'
    BY <1>0, <1>11 DEF SendInv, LockOwner, ProcessSend, ControlOK, LockFree
  <2>2. OwnerRegistered' /\ OneWriteOutstanding'
    BY <1>0, <1>11 DEF SendInv, OwnerRegistered, OneWriteOutstanding,
       ProcessSend, ControlOK, Registrant, Sender
  <2>3. RegisteredHasOwner'
    BY <1>0, <1>11 DEF SendInv, RegisteredHasOwner, ProcessSend, ControlOK,
       Registrant, Sender
  <2>4. DrainFindsWork'
    BY <1>0, <1>11 DEF SendInv, DrainFindsWork, ProcessSend
  <2>5. PushHasOne'
    BY <1>0, <1>11 DEF SendInv, PushHasOne, ProcessSend
  <2>6. DeadConnection'
    BY <1>0, <1>11 DEF SendInv, DeadConnection, ProcessSend
  <2> QED
    BY <1>0, <2>1, <2>2, <2>3, <2>4, <2>5, <2>6 DEF SendInv
<1>12. ASSUME NEW t \in Threads, RegisterSendLocked(t) PROVE SendInv'
  <2>1. LockOwner'
    BY <1>0, <1>12 DEF SendInv, LockOwner, RegisterSendLocked, ControlOK
  <2>2. OwnerRegistered' /\ OneWriteOutstanding'
    BY <1>0, <1>12 DEF SendInv, OwnerRegistered, OneWriteOutstanding,
       RegisterSendLocked, ControlOK, Registrant, Sender
  <2>3. RegisteredHasOwner'
    BY <1>0, <1>12 DEF SendInv, RegisteredHasOwner, RegisterSendLocked,
       ControlOK, Registrant, Sender
  <2>4. DrainFindsWork'
    BY <1>0, <1>12 DEF SendInv, DrainFindsWork, RegisterSendLocked
  <2>5. PushHasOne'
    BY <1>0, <1>12 DEF SendInv, PushHasOne, RegisterSendLocked
  <2>6. DeadConnection'
    BY <1>0, <1>12 DEF SendInv, DeadConnection, RegisterSendLocked
  <2> QED
    BY <1>0, <2>1, <2>2, <2>3, <2>4, <2>5, <2>6 DEF SendInv
<1>13. ASSUME NEW t \in Threads, Relock(t) PROVE SendInv'
  <2>1. LockOwner'
    BY <1>0, <1>13 DEF SendInv, LockOwner, Relock, ControlOK
  <2>2. OwnerRegistered' /\ OneWriteOutstanding'
    BY <1>0, <1>13 DEF SendInv, OwnerRegistered, OneWriteOutstanding, Relock,
       ControlOK, Registrant, Sender
  <2>3. RegisteredHasOwner'
    BY <1>0, <1>13 DEF SendInv, RegisteredHasOwner, Relock, ControlOK, Registrant, Sender
  <2>4. DrainFindsWork'
    BY <1>0, <1>13 DEF SendInv, DrainFindsWork, Relock, ControlOK
  <2>5. PushHasOne'
    BY <1>0, <1>13 DEF SendInv, PushHasOne, Relock, ControlOK
  <2>6. DeadConnection'
    BY <1>0, <1>13 DEF SendInv, DeadConnection, Relock, ControlOK
  <2> QED
    BY <1>0, <2>1, <2>2, <2>3, <2>4, <2>5, <2>6 DEF SendInv
<1>14. ASSUME NEW t \in Threads, ReadFails(t) PROVE SendInv'
  <2>1. LockOwner'
    BY <1>0, <1>14 DEF SendInv, LockOwner, ReadFails
  <2>2. OwnerRegistered' /\ OneWriteOutstanding'
    BY <1>0, <1>14 DEF SendInv, OwnerRegistered, OneWriteOutstanding,
       ReadFails, ControlOK, Registrant, Sender
  <2>3. RegisteredHasOwner'
    BY <1>0, <1>14 DEF SendInv, RegisteredHasOwner, ReadFails, ControlOK
  <2>4. DrainFindsWork'
    BY <1>0, <1>14 DEF SendInv, DrainFindsWork, ReadFails
  <2>5. PushHasOne'
    BY <1>0, <1>14 DEF SendInv, PushHasOne, ReadFails
  <2>6. DeadConnection'
    BY <1>0, <1>14 DEF SendInv, DeadConnection, ReadFails
  <2> QED
    BY <1>0, <2>1, <2>2, <2>3, <2>4, <2>5, <2>6 DEF SendInv
<1>15. ASSUME NEW t \in Threads, Disconnect(t) PROVE SendInv'
  <2>1. LockOwner'
    BY <1>0, <1>15 DEF SendInv, LockOwner, Disconnect
  <2>2. OwnerRegistered' /\ OneWriteOutstanding'
    BY <1>0, <1>15 DEF SendInv, OwnerRegistered, OneWriteOutstanding,
       Disconnect, ControlOK, Registrant, Sender
  <2>3. RegisteredHasOwner'
    BY <1>0, <1>15 DEF SendInv, RegisteredHasOwner, Disconnect
  <2>4. DrainFindsWork'
    BY <1>0, <1>15 DEF SendInv, DrainFindsWork, Disconnect
  <2>5. PushHasOne'
    BY <1>0, <1>15 DEF SendInv, PushHasOne, Disconnect
  <2>6. DeadConnection'
    BY <1>0, <1>15 DEF SendInv, DeadConnection, Disconnect
  <2> QED
    BY <1>0, <2>1, <2>2, <2>3, <2>4, <2>5, <2>6 DEF SendInv
<1>16. ASSUME NEW t \in Threads, CloseSocket(t) PROVE SendInv'
  <2>1. LockOwner'
    BY <1>0, <1>16 DEF SendInv, LockOwner, CloseSocket
  <2>2. OwnerRegistered' /\ OneWriteOutstanding'
    BY <1>0, <1>16 DEF SendInv, OwnerRegistered, OneWriteOutstanding,
       CloseSocket, ControlOK, Registrant, Sender
  <2>3. RegisteredHasOwner'
    BY <1>0, <1>16 DEF SendInv, RegisteredHasOwner, CloseSocket, ControlOK,
       Registrant, Sender
  <2>4. DrainFindsWork'
    BY <1>0, <1>16 DEF SendInv, DrainFindsWork, CloseSocket
  <2>5. PushHasOne'
    BY <1>0, <1>16 DEF SendInv, PushHasOne, CloseSocket
  <2>6. DeadConnection'
    BY <1>0, <1>16 DEF SendInv, DeadConnection, CloseSocket
  <2> QED
    BY <1>0, <2>1, <2>2, <2>3, <2>4, <2>5, <2>6 DEF SendInv
<1>17. CASE UNCHANGED vars
  BY <1>0, <1>17 DEF vars, SendInv, LockOwner, OwnerRegistered,
     RegisteredHasOwner, OneWriteOutstanding, DrainFindsWork, PushHasOne,
     DeadConnection, Registrant, Sender
<1> QED
  BY StepCases, <1>1, <1>2, <1>3, <1>4, <1>5, <1>6, <1>7, <1>8, <1>9, <1>10,
     <1>11, <1>12, <1>13, <1>14, <1>15, <1>16, <1>17

(* The inductive invariant behind the send path: who holds _sendLock, who  *)
(* owns a set _sendRegistered, and that a dead connection is noticed       *)
(* (Session.cpp:23-251).                                                   *)
THEOREM SendInvariant == Spec => []SendInv
BY InitSendInv, StepSendInv, PTL DEF Spec

(* The socket never sees two overlapping writes (Session.cpp:35-37, 182).  *)
THEOREM OneWriterAtATime == Spec => []OneWriteOutstanding
<1>1. SendInv => OneWriteOutstanding
  BY DEF SendInv
<1> QED
  BY <1>1, SendInvariant, PTL

(* A queued buffer of a connected session has a thread that will transmit  *)
(* it, a write whose handler looks at the queue, or a thread about to      *)
(* disconnect, unless ProcessSend is locking _sendLock a second time or a  *)
(* write error was ignored (Session.cpp:33-37, 232-236, 247-250).          *)
THEOREM NoWakeupLost == Spec => []NoLostWakeup
<1>1. SendInv => NoLostWakeup
  <2> SUFFICES ASSUME SendInv, queue # <<>>, connected, writes = {}, ~Relocking, ~errorIgnored
               PROVE  \E t \in Threads : Sender(t) \/ pc[t] = "disconnect"
    BY DEF NoLostWakeup
  <2>1. registered
    BY DEF SendInv, OwnerRegistered
  <2>2. PICK t \in Threads : Registrant(t) \/ pc[t] = "disconnect"
    BY <2>1 DEF SendInv, RegisteredHasOwner
  <2> QED
    BY <2>2 DEF Registrant, Relocking
<1> QED
  BY <1>1, SendInvariant, PTL

-----------------------------------------------------------------------------
(* Induction on the naturals, with the property given as a set: the least  *)
(* number outside of it would have a predecessor inside.                   *)
LEMMA Induction ==
  ASSUME NEW S, 0 \in S, \A n \in Nat : n \in S => n + 1 \in S
  PROVE  \A n \in Nat : n \in S
<1> DEFINE R == {ss \in Nat \X Nat : ss[1] < ss[2]}
           T == Nat \ S
<1>1. SUFFICES ASSUME T # {} PROVE FALSE
  OBVIOUS
<1>2. IsWellFoundedOn(R, Nat)
  BY NatLessThanWellFounded DEF OpToRel
<1> HIDE DEF R
<1>3. PICK x \in T : \A y \in T : <<y, x>> \notin R
  BY <1>1, <1>2, WFMin
<1>4. x \in Nat /\ x - 1 \in Nat /\ (x - 1) + 1 = x
  OBVIOUS
<1>5. x - 1 \in T
  BY <1>4
<1>6. <<x - 1, x>> \in R
  BY <1>4 DEF R
<1> QED
  BY <1>3, <1>5, <1>6

(* FlattenSeq of a sequence that is not empty: the sequences joined so far.*)
Joins(s, f) ==
  f = [i \in 1 .. Len(s) |-> IF i = 1 THEN s[i] ELSE f[i - 1] \o s[i]]

(* FlattenSeq is the last of such joins.                                   *)
LEMMA Flattened ==
  ASSUME NEW s, Len(s) # 0, NEW f, Joins(s, f)
  PROVE  \E g : Joins(s, g) /\ FlattenSeq(s) = g[Len(s)]
<1> DEFINE J(g) == [i \in 1 .. Len(s) |-> IF i = 1 THEN s[i] ELSE g[i - 1] \o s[i]]
           c == CHOOSE g : g = J(g)
<1>1. f = J(f)
  BY DEF Joins
<1>2. c = J(c)
  BY <1>1
<1>3. FlattenSeq(s) = c[Len(s)]
  BY DEF FlattenSeq
<1> QED
  BY <1>2, <1>3 DEF Joins

(* There is only one such function.                                        *)
LEMMA JoinsUnique ==
  ASSUME NEW s, Len(s) \in Nat, NEW f, Joins(s, f), NEW g, Joins(s, g)
  PROVE  \A i \in 1 .. Len(s) : f[i] = g[i]
<1> DEFINE S == {k \in Nat : k \in 1 .. Len(s) => f[k] = g[k]}
<1>1. \A k \in 1 .. Len(s) : /\ f[k] = IF k = 1 THEN s[k] ELSE f[k - 1] \o s[k]
                             /\ g[k] = IF k = 1 THEN s[k] ELSE g[k - 1] \o s[k]
  BY DEF Joins
<1>2. 0 \in S
  OBVIOUS
<1>3. ASSUME NEW k \in Nat, k \in S PROVE k + 1 \in S
  <2>1. SUFFICES ASSUME k + 1 \in 1 .. Len(s) PROVE f[k + 1] = g[k + 1]
    OBVIOUS
  <2>2. CASE k = 0
    BY <1>1, <2>1, <2>2
  <2>3. CASE k # 0
    <3>1. f[k] = g[k] /\ (k + 1) - 1 = k /\ k + 1 # 1
      BY <1>3, <2>1, <2>3
    <3> QED
      BY <1>1, <2>1, <3>1
  <2> QED
    BY <2>2, <2>3
<1> HIDE DEF S
<1>4. \A k \in Nat : k \in S
  BY <1>2, <1>3, Induction
<1> QED
  BY <1>4 DEF S

(* Joins of sequences over E are sequences over E.                         *)
LEMMA JoinsTyped ==
  ASSUME NEW E, NEW s \in Seq(Seq(E)), NEW f, Joins(s, f)
  PROVE  \A i \in 1 .. Len(s) : f[i] \in Seq(E)
<1> DEFINE S == {k \in Nat : k \in 1 .. Len(s) => f[k] \in Seq(E)}
<1>1. \A k \in 1 .. Len(s) : f[k] = (IF k = 1 THEN s[k] ELSE f[k - 1] \o s[k]) /\ s[k] \in Seq(E)
  <2>1. \A k \in 1 .. Len(s) : f[k] = (IF k = 1 THEN s[k] ELSE f[k - 1] \o s[k])
    BY Zenon DEF Joins
  <2>2. \A k \in 1 .. Len(s) : s[k] \in Seq(E)
    BY ElementOfSeq
  <2> QED
    BY <2>1, <2>2
<1>2. 0 \in S
  OBVIOUS
<1>3. ASSUME NEW k \in Nat, k \in S PROVE k + 1 \in S
  <2>1. SUFFICES ASSUME k + 1 \in 1 .. Len(s) PROVE f[k + 1] \in Seq(E)
    OBVIOUS
  <2>2. CASE k = 0
    BY <1>1, <2>1, <2>2
  <2>3. CASE k # 0
    <3>1. f[k] \in Seq(E) /\ (k + 1) - 1 = k /\ k + 1 # 1
      BY <1>3, <2>1, <2>3
    <3>2. f[k + 1] = f[k] \o s[k + 1] /\ s[k + 1] \in Seq(E)
      BY <1>1, <2>1, <3>1
    <3> QED
      BY <3>1, <3>2, ConcatProperties
  <2> QED
    BY <2>2, <2>3
<1> HIDE DEF S
<1>4. \A k \in Nat : k \in S
  BY <1>2, <1>3, Induction
<1> QED
  BY <1>4 DEF S

(* One more sequence is one more join.                                     *)
LEMMA JoinsAppend ==
  ASSUME NEW E, NEW s \in Seq(Seq(E)), NEW x \in Seq(E), NEW f, s # <<>>, Joins(s, f)
  PROVE  \E g : Joins(Append(s, x), g) /\ g[Len(s) + 1] = f[Len(s)] \o x
<1> DEFINE n == Len(s)
           a == Append(s, x)
           g == [i \in 1 .. n + 1 |-> IF i <= n THEN f[i] ELSE f[n] \o x]
<1>1. n \in Nat \ {0} /\ Len(a) = n + 1 /\ (\A i \in 1 .. n : a[i] = s[i]) /\ a[n + 1] = x
  BY EmptySeq, AppendProperties
<1> HIDE DEF n, a
<1>2. \A i \in 1 .. n : f[i] = IF i = 1 THEN s[i] ELSE f[i - 1] \o s[i]
  BY DEF Joins, n
<1>3. ASSUME NEW i \in 1 .. n + 1 PROVE g[i] = IF i = 1 THEN a[i] ELSE g[i - 1] \o a[i]
  <2>1. CASE i <= n
    <3>1. i \in 1 .. n /\ g[i] = f[i] /\ a[i] = s[i]
      BY <1>1, <2>1
    <3>2. i # 1 => g[i - 1] = f[i - 1]
      BY <1>1, <2>1
    <3> QED
      BY <1>2, <3>1, <3>2
  <2>2. CASE i = n + 1
    BY <1>1, <2>2
  <2> QED
    BY <1>1, <2>1, <2>2
<1>4. Joins(a, g)
  <2>1. g = [i \in 1 .. n + 1 |-> g[i]]
    OBVIOUS
  <2> HIDE DEF g
  <2>2. g = [i \in 1 .. n + 1 |-> IF i = 1 THEN a[i] ELSE g[i - 1] \o a[i]]
    BY <1>3, <2>1
  <2> QED
    BY <1>1, <2>2 DEF Joins
<1>5. g[n + 1] = f[n] \o x
  BY <1>1
<1> QED
  BY <1>4, <1>5 DEF n, a

(* Every sequence that is not empty has its joins.                         *)
LEMMA JoinsExist ==
  ASSUME NEW E
  PROVE  \A s \in Seq(Seq(E)) : s # <<>> => \E f : Joins(s, f)
<1> DEFINE S == {n \in Nat : \A s \in Seq(Seq(E)) : Len(s) = n /\ s # <<>> => \E f : Joins(s, f)}
<1>1. 0 \in S
  BY EmptySeq
<1>2. ASSUME NEW n \in Nat, n \in S PROVE n + 1 \in S
  <2>1. SUFFICES ASSUME NEW s \in Seq(Seq(E)), Len(s) = n + 1, s # <<>> PROVE \E f : Joins(s, f)
    OBVIOUS
  <2>2. PICK r \in Seq(Seq(E)), x \in Seq(E) : s = Append(r, x)
    BY <2>1, SequenceEmptyOrAppend
  <2>3. Len(r) = n
    BY <2>1, <2>2, AppendProperties
  <2>4. CASE r = <<>>
    <3>1. Len(s) = 1
      BY <2>1, <2>3, <2>4
    <3>2. s = [i \in 1 .. Len(s) |-> s[i]]
      BY LenProperties
    <3>3. Joins(s, s)
      BY <3>1, <3>2 DEF Joins
    <3> QED
      BY <3>3
  <2>5. CASE r # <<>>
    <3>1. PICK f : Joins(r, f)
      BY <1>2, <2>3, <2>5
    <3> QED
      BY <2>2, <2>5, <3>1, JoinsAppend
  <2> QED
    BY <2>4, <2>5
<1> HIDE DEF S
<1>3. \A n \in Nat : n \in S
  BY <1>1, <1>2, Induction
<1> QED
  BY <1>3, LenProperties DEF S

(* FlattenSeq: the empty sequence, types, one more, and concatenation.     *)
LEMMA FlattenEmpty == FlattenSeq(<<>>) = <<>>
BY DEF FlattenSeq

LEMMA FlattenTyped ==
  ASSUME NEW E, NEW s \in Seq(Seq(E))
  PROVE  FlattenSeq(s) \in Seq(E)
<1>1. CASE s = <<>>
  BY <1>1, FlattenEmpty, EmptySeq
<1>2. CASE s # <<>>
  <2>1. Len(s) \in 1 .. Len(s)
    BY <1>2, EmptySeq
  <2>2. PICK f : Joins(s, f)
    BY <1>2, JoinsExist
  <2>3. PICK g : Joins(s, g) /\ FlattenSeq(s) = g[Len(s)]
    BY <2>1, <2>2, Flattened
  <2> QED
    BY <2>1, <2>3, JoinsTyped
<1> QED
  BY <1>1, <1>2

LEMMA FlattenAppend ==
  ASSUME NEW E, NEW s \in Seq(Seq(E)), NEW x \in Seq(E)
  PROVE  FlattenSeq(Append(s, x)) = FlattenSeq(s) \o x
<1> DEFINE a == Append(s, x)
<1>1. /\ a \in Seq(Seq(E)) /\ a # <<>> /\ Len(a) = Len(s) + 1 /\ a[Len(s) + 1] = x
      /\ Len(s) \in Nat /\ Len(a) # 0
  BY AppendProperties, LenProperties
<1> HIDE DEF a
<1>2. PICK f : Joins(a, f)
  BY <1>1, JoinsExist
<1>3. PICK g : Joins(a, g) /\ FlattenSeq(a) = g[Len(s) + 1]
  BY <1>1, <1>2, Flattened
<1>4. CASE s = <<>>
  <2>1. Len(s) = 0
    BY <1>4
  <2>2. g[1] = x
    BY <1>1, <1>3, <2>1 DEF Joins
  <2> QED
    BY <1>3, <1>4, <2>1, <2>2, FlattenEmpty, ConcatEmptySeq DEF a
<1>5. CASE s # <<>>
  <2>1. PICK e : Joins(s, e)
    BY <1>5, JoinsExist
  <2>2. PICK h : Joins(s, h) /\ FlattenSeq(s) = h[Len(s)]
    BY <1>5, <2>1, EmptySeq, Flattened
  <2>3. PICK k : Joins(a, k) /\ k[Len(s) + 1] = h[Len(s)] \o x
    <3>1. \E k : Joins(Append(s, x), k) /\ k[Len(s) + 1] = h[Len(s)] \o x
      BY <1>5, <2>2, JoinsAppend
    <3> QED
      BY <3>1 DEF a
  <2>4. k[Len(s) + 1] = g[Len(s) + 1]
    <3>1. \A i \in 1 .. Len(a) : k[i] = g[i]
      BY <1>1, <1>3, <2>3, JoinsUnique
    <3> QED
      BY <1>1, <3>1
  <2> QED
    BY <1>3, <2>2, <2>3, <2>4 DEF a
<1> QED
  BY <1>4, <1>5

LEMMA FlattenConcat ==
  ASSUME NEW E, NEW s \in Seq(Seq(E))
  PROVE  \A t \in Seq(Seq(E)) : FlattenSeq(s \o t) = FlattenSeq(s) \o FlattenSeq(t)
<1> DEFINE S == {n \in Nat : \A t \in Seq(Seq(E)) :
                   Len(t) = n => FlattenSeq(s \o t) = FlattenSeq(s) \o FlattenSeq(t)}
<1>0. FlattenSeq(s) \in Seq(E)
  BY FlattenTyped
<1>1. 0 \in S
  <2>1. SUFFICES ASSUME NEW t \in Seq(Seq(E)), Len(t) = 0
                 PROVE  FlattenSeq(s \o t) = FlattenSeq(s) \o FlattenSeq(t)
    OBVIOUS
  <2>2. t = <<>>
    BY <2>1, EmptySeq
  <2> QED
    BY <1>0, <2>2, FlattenEmpty, ConcatEmptySeq
<1>2. ASSUME NEW n \in Nat, n \in S PROVE n + 1 \in S
  <2>1. SUFFICES ASSUME NEW t \in Seq(Seq(E)), Len(t) = n + 1
                 PROVE  FlattenSeq(s \o t) = FlattenSeq(s) \o FlattenSeq(t)
    OBVIOUS
  <2>2. t # <<>>
    BY <2>1
  <2>3. PICK r \in Seq(Seq(E)), x \in Seq(E) : t = Append(r, x)
    BY <2>2, SequenceEmptyOrAppend
  <2>4. Len(r) = n
    BY <2>1, <2>3, AppendProperties
  <2>5. FlattenSeq(s \o r) = FlattenSeq(s) \o FlattenSeq(r)
    BY <1>2, <2>4
  <2>6. s \o t = Append(s \o r, x) /\ s \o r \in Seq(Seq(E))
    <3>1. t = r \o <<x>> /\ Append(s \o r, x) = (s \o r) \o <<x>> /\ s \o r \in Seq(Seq(E))
      BY <2>3, AppendIsConcat, ConcatProperties
    <3>2. <<x>> \in Seq(Seq(E))
      OBVIOUS
    <3> QED
      BY <3>1, <3>2, ConcatAssociative
  <2>7. FlattenSeq(t) = FlattenSeq(r) \o x /\ FlattenSeq(s \o t) = FlattenSeq(s \o r) \o x
    BY <2>3, <2>6, FlattenAppend
  <2>8. FlattenSeq(r) \in Seq(E)
    BY FlattenTyped
  <2> QED
    <3>1. (FlattenSeq(s) \o FlattenSeq(r)) \o x = FlattenSeq(s) \o (FlattenSeq(r) \o x)
      <4> DEFINE y == FlattenSeq(s)
                 z == FlattenSeq(r)
      <4>1. y \in Seq(E) /\ z \in Seq(E) /\ x \in Seq(E)
        BY <1>0, <2>8
      <4> HIDE DEF y, z
      <4>2. (y \o z) \o x = y \o (z \o x)
        BY ONLY <4>1, ConcatAssociative, SMTT(30)
      <4> QED
        BY <4>2 DEF y, z
    <3> QED
      BY <2>5, <2>7, <3>1, Zenon
<1> HIDE DEF S
<1>3. \A n \in Nat : n \in S
  BY <1>1, <1>2, Induction
<1> QED
  BY <1>3, LenProperties DEF S

(* The bytes of a sequence of buffers.                                     *)
ByteSet == Buffers \X Nat

(* The bytes of buffers: their types, and those of a concatenation.        *)
LEMMA BytesOfTyped ==
  ASSUME NEW s \in Seq(Buffers)
  PROVE  [i \in DOMAIN s |-> BytesOf(s[i])] \in Seq(Seq(ByteSet))
<1>1. ASSUME NEW b \in Buffers PROVE BytesOf(b) \in Seq(ByteSet)
  <2>1. Size[b] \in Nat
    BY SendAssumption
  <2> QED
    BY <2>1 DEF BytesOf, ByteSet
<1>2. DOMAIN s = 1 .. Len(s) /\ Len(s) \in Nat /\ \A i \in 1 .. Len(s) : s[i] \in Buffers
  BY LenProperties
<1> QED
  BY <1>1, <1>2

LEMMA BytesTyped ==
  ASSUME NEW s \in Seq(Buffers)
  PROVE  Bytes(s) \in Seq(ByteSet)
BY BytesOfTyped, FlattenTyped DEF Bytes

LEMMA BytesConcat ==
  ASSUME NEW s \in Seq(Buffers), NEW t \in Seq(Buffers)
  PROVE  Bytes(s \o t) = Bytes(s) \o Bytes(t)
<1> DEFINE F(r) == [i \in DOMAIN r |-> BytesOf(r[i])]
<1>1. F(s) \in Seq(Seq(ByteSet)) /\ F(t) \in Seq(Seq(ByteSet))
  BY BytesOfTyped
<1>2. F(s \o t) = F(s) \o F(t)
  <2>1. s \o t \in Seq(Buffers) /\ Len(s) \in Nat /\ Len(t) \in Nat
    BY ConcatProperties
  <2>2. F(s \o t) \in Seq(Seq(ByteSet))
    BY <2>1, BytesOfTyped
  <2>3. Len(F(s)) = Len(s) /\ Len(F(t)) = Len(t) /\ Len(F(s \o t)) = Len(s) + Len(t)
    <3>1. ASSUME NEW r \in Seq(Buffers) PROVE Len(F(r)) = Len(r)
      <4>1. DOMAIN r = 1 .. Len(r) /\ Len(r) \in Nat
        BY LenProperties
      <4> QED
        BY <4>1
    <3>2. Len(s \o t) = Len(s) + Len(t)
      BY ConcatProperties
    <3> HIDE DEF F
    <3> QED
      BY <2>1, <3>1, <3>2
  <2>4. F(s) \o F(t) \in Seq(Seq(ByteSet)) /\ Len(F(s) \o F(t)) = Len(s) + Len(t)
    <3> HIDE DEF F
    <3>1. F(s) \o F(t) \in Seq(Seq(ByteSet)) /\ Len(F(s) \o F(t)) = Len(F(s)) + Len(F(t))
      BY <1>1, ConcatProperties
    <3> QED
      BY <2>3, <3>1
  <2>5. ASSUME NEW i \in 1 .. Len(s) + Len(t) PROVE F(s \o t)[i] = (F(s) \o F(t))[i]
    <3>1. (s \o t)[i] = (IF i <= Len(s) THEN s[i] ELSE t[i - Len(s)])
      BY ConcatProperties
    <3>2. (F(s) \o F(t))[i] = (IF i <= Len(s) THEN F(s)[i] ELSE F(t)[i - Len(s)])
      <4> HIDE DEF F
      <4> QED
        BY <1>1, <2>3, ConcatProperties
    <3>3. F(s \o t)[i] = BytesOf((s \o t)[i])
      BY <2>1, ConcatProperties
    <3>4. i <= Len(s) => F(s)[i] = BytesOf(s[i])
      BY <2>1
    <3>5. ~(i <= Len(s)) => F(t)[i - Len(s)] = BytesOf(t[i - Len(s)])
      BY <2>1
    <3> QED
      BY <3>1, <3>2, <3>3, <3>4, <3>5
  <2> HIDE DEF F
  <2> QED
    BY <2>2, <2>3, <2>4, <2>5, SeqEqual
<1>3. FlattenSeq(F(s) \o F(t)) = FlattenSeq(F(s)) \o FlattenSeq(F(t))
  BY <1>1, FlattenConcat
<1> QED
  BY <1>2, <1>3 DEF Bytes

-----------------------------------------------------------------------------
(* What each step does to the buffers that are still to be written.        *)
LEMMA AfterStop ==
  ASSUME SendInv, Stopped, [Next]_vars
  PROVE  Stopped' /\ UNCHANGED wire
<1> USE DEF Stopped, Registrant, Sender
<1>0. /\ SendInv /\ pc \in [Threads -> Steps] /\ registered
      /\ \A t \in Threads : pc[t] \notin {"register", "drain", "write", "sent", "reregister", "relock", "hung"}
      /\ \A w \in writes : w.status \in {"aborted", "other"}
  BY DEF SendInv, TypeOK, Errors
<1> USE DEF Errors
<1>1. CASE Next
  <2>1. ASSUME NEW t \in Threads, NEW b \in Buffers, Send(t, b) PROVE Stopped' /\ UNCHANGED wire
    BY <1>0, <2>1 DEF Send, At, Goto, queueVars
  <2>2. ASSUME NEW t \in Threads, PushBuffer(t) PROVE Stopped' /\ UNCHANGED wire
    BY <1>0, <2>2 DEF PushBuffer, At, Goto, FirstToRegister
  <2>3. ASSUME NEW t \in Threads,
               RegisterSend(t) \/ DrainQueue(t) \/ StartWrite(t) \/ ProcessSend(t)
                 \/ RegisterSendLocked(t) \/ Relock(t)
        PROVE FALSE
    BY <1>0, <2>3 DEF RegisterSend, DrainQueue, StartWrite, ProcessSend, RegisterSendLocked,
      Relock, At
  <2>4. ASSUME NEW w \in writes, Transmit(w) PROVE FALSE
    BY <1>0, <2>4 DEF Transmit
  <2>5. ASSUME NEW w \in writes, FailWrite(w) PROVE FALSE
    BY <1>0, <2>5 DEF FailWrite
  <2>6. ASSUME NEW t \in Threads, NEW w \in writes, WriteHandler(t, w) PROVE FALSE
    BY <1>0, <2>6 DEF WriteHandler
  <2>7. ASSUME NEW t \in Threads, NEW w \in writes, HandleError(t, w)
        PROVE Stopped' /\ UNCHANGED wire
    BY <1>0, <2>7 DEF HandleError, Goto, queueVars, history
  <2>8. ASSUME NEW t \in Threads, ReadFails(t) \/ Disconnect(t) \/ CloseSocket(t)
        PROVE Stopped' /\ UNCHANGED wire
    BY <1>0, <2>8 DEF ReadFails, Disconnect, CloseSocket, Goto, queueVars, history
  <2>9. CASE PeerCloses
    BY <1>0, <2>9 DEF PeerCloses, queueVars, history
  <2> QED
    BY <1>1, StepCases, <2>1, <2>2, <2>3, <2>4, <2>5, <2>6, <2>7, <2>8, <2>9
<1>2. CASE UNCHANGED vars
  BY <1>0, <1>2 DEF vars, queueVars, history
<1> QED
  BY <1>1, <1>2

(* Only a push accepts, and it accepts what its thread carries.            *)
LEMMA AcceptedGrows ==
  ASSUME [Next]_vars
  PROVE  UNCHANGED accepted \/ \E t \in Threads : accepted' = accepted \o batch[t]
<1>1. CASE Next
  BY <1>1, StepCases DEF Send, PushBuffer, RegisterSend, DrainQueue, StartWrite, Transmit, FailWrite,
    PeerCloses, WriteHandler, HandleError, ProcessSend, RegisterSendLocked, Relock, ReadFails,
    Disconnect, CloseSocket, history
<1> QED
  BY <1>1 DEF vars, history

(* A step that keeps the queue, whoever writes and the writes under way.   *)
LEMMA RemainingStays ==
  ASSUME NEW r, Remaining(r), ~Stopped, queue' = queue,
         \A t \in Threads : pc'[t] = "write" => pc[t] = "write" /\ batch'[t] = batch[t],
         \A t \in Threads : pc[t] = "write" => pc'[t] = "write",
         \A w \in writes' : w.status = "pending" => w \in writes,
         \A w \in writes : w.status = "pending" => w \in writes'
  PROVE  Remaining(r)'
BY DEF Remaining

(* Steps that move no buffer between a queue, a thread and a write.        *)
LEMMA RemainingQuiet ==
  ASSUME SendInv, NEW r, Remaining(r), ~Stopped,
         \/ \E t \in Threads, b \in Buffers : Send(t, b)
         \/ \E t \in Threads : \/ RegisterSend(t) \/ ProcessSend(t) \/ RegisterSendLocked(t)
                               \/ Relock(t) \/ ReadFails(t) \/ Disconnect(t) \/ CloseSocket(t)
         \/ \E t \in Threads, w \in writes : WriteHandler(t, w) \/ HandleError(t, w)
         \/ PeerCloses \/ UNCHANGED vars
  PROVE  Remaining(r)' /\ UNCHANGED <<accepted, wire>>
<1>0. pc \in [Threads -> Steps] /\ batch \in [Threads -> Seq(Buffers)]
  BY DEF SendInv, TypeOK
<1> DEFINE Quiet ==
      /\ queue' = queue /\ UNCHANGED <<accepted, wire>>
      /\ \A t \in Threads : pc'[t] = "write" => pc[t] = "write" /\ batch'[t] = batch[t]
      /\ \A t \in Threads : pc[t] = "write" => pc'[t] = "write"
      /\ \A w \in writes' : w.status = "pending" => w \in writes
      /\ \A w \in writes : w.status = "pending" => w \in writes'
<1> USE <1>0 DEF At, Goto, queueVars, history
<1>1. ASSUME NEW t \in Threads, NEW b \in Buffers, Send(t, b) PROVE Quiet
  BY <1>1 DEF Send
<1>2. ASSUME NEW t \in Threads, RegisterSend(t) \/ ProcessSend(t) PROVE Quiet
  BY <1>2 DEF RegisterSend, ProcessSend
<1>3. ASSUME NEW t \in Threads, RegisterSendLocked(t) \/ Relock(t) PROVE Quiet
  BY <1>3 DEF RegisterSendLocked, Relock
<1>4. ASSUME NEW t \in Threads, ReadFails(t) \/ Disconnect(t) \/ CloseSocket(t) PROVE Quiet
  BY <1>4 DEF ReadFails, Disconnect, CloseSocket
<1>5. ASSUME NEW t \in Threads, NEW w \in writes, WriteHandler(t, w) \/ HandleError(t, w)
      PROVE Quiet
  BY <1>5 DEF WriteHandler, HandleError, Errors
<1>6. ASSUME PeerCloses PROVE Quiet
  BY <1>6 DEF PeerCloses
<1>7. ASSUME UNCHANGED vars PROVE Quiet
  BY <1>7 DEF vars
<1> HIDE DEF Quiet
<1>8. Quiet
  BY <1>1, <1>2, <1>3, <1>4, <1>5, <1>6, <1>7
<1> QED
  BY <1>8, RemainingStays DEF Quiet

(* A push puts its buffer behind what remains.                             *)
LEMMA RemainingPushed ==
  ASSUME SendInv, NEW r \in Seq(Buffers), Remaining(r), ~Stopped, NEW t \in Threads, PushBuffer(t),
         NEW q, q = r \o batch[t]
  PROVE  Remaining(q)'
<1>0. /\ pc \in [Threads -> Steps] /\ batch[t] \in Seq(Buffers) /\ queue \in Seq(Buffers)
      /\ batch \in [Threads -> Seq(Buffers)]
      /\ \A w \in writes : w.bufs \in Seq(Buffers)
  BY DEF SendInv, TypeOK, Writes
<1>1. queue' = queue \o batch[t] /\ batch' = batch /\ writes' = writes
  BY DEF PushBuffer
<1>2. \A u \in Threads : pc'[u] = "write" <=> pc[u] = "write"
  BY <1>0 DEF PushBuffer, At, Goto
<1>3. \A s \in Seq(Buffers) : (s \o queue) \o batch[t] = s \o (queue \o batch[t])
  BY <1>0, ConcatAssociative
<1>4. \A u \in Threads : pc'[u] = "write" => q = batch'[u] \o queue'
  BY <1>0, <1>1, <1>2, <1>3 DEF Remaining
<1>5. \A w \in writes' : w.status = "pending" => q = w.bufs \o queue'
  BY <1>0, <1>1, <1>3 DEF Remaining
<1>6. (\A u \in Threads : pc'[u] # "write") /\ (\A w \in writes' : w.status # "pending")
        => q = queue'
  BY <1>1, <1>2 DEF Remaining
<1> QED
  BY <1>1, <1>4, <1>5, <1>6 DEF Remaining

(* Draining the queue and starting a write keep the order.                 *)
LEMMA RemainingDrained ==
  ASSUME SendInv, NEW r, Remaining(r), ~Stopped, NEW t \in Threads,
         DrainQueue(t) \/ StartWrite(t)
  PROVE  Remaining(r)' /\ UNCHANGED <<accepted, wire>>
<1>0. /\ pc \in [Threads -> Steps] /\ queue \in Seq(Buffers)
      /\ batch \in [Threads -> Seq(Buffers)]
  BY DEF SendInv, TypeOK
<1>1. writes = {} /\ \A u \in Threads : pc[u] = "write" => u = t
  BY DEF SendInv, OneWriteOutstanding, Registrant, Sender, DrainQueue, StartWrite, At
<1>2. CASE DrainQueue(t)
  <2>1. queue # <<>> /\ pc[t] = "drain"
    BY <1>2 DEF DrainQueue, SendInv, DrainFindsWork, At
  <2>2. r = queue
    BY <1>1, <2>1 DEF Remaining
  <2>3. /\ pc' = [pc EXCEPT ![t] = "write"] /\ batch' = [batch EXCEPT ![t] = queue]
        /\ queue' = <<>> /\ writes' = {} /\ UNCHANGED <<accepted, wire>>
    BY <1>1, <1>2, <2>1 DEF DrainQueue, Goto, Drained, history
  <2>4. \A u \in Threads : pc'[u] = "write" => u = t
    BY <1>0, <1>1, <2>3
  <2>5. queue \o <<>> = queue /\ batch'[t] = queue /\ pc'[t] = "write"
    BY <1>0, <2>3, ConcatEmptySeq
  <2> QED
    BY <2>2, <2>3, <2>4, <2>5 DEF Remaining
<1>3. CASE StartWrite(t)
  <2>1. /\ pc[t] = "write" /\ pc' = [pc EXCEPT ![t] = "idle"] /\ queue' = queue
        /\ writes' = {[bufs |-> batch[t], status |-> "pending"]} /\ UNCHANGED <<accepted, wire>>
    BY <1>1, <1>3 DEF StartWrite, At, Goto, queueVars, history
  <2>2. r = batch[t] \o queue
    BY <2>1 DEF Remaining
  <2>3. \A u \in Threads : pc'[u] # "write"
    BY <1>0, <1>1, <2>1
  <2>4. \A w \in writes' : w.bufs = batch[t]
    BY <2>1
  <2>5. [bufs |-> batch[t], status |-> "pending"] \in writes'
    BY <2>1
  <2> QED
    BY <2>1, <2>2, <2>3, <2>4, <2>5 DEF Remaining
<1> QED
  BY <1>2, <1>3

(* A write that fails ends all writing.                                    *)
LEMMA RemainingFailed ==
  ASSUME SendInv, NEW r, NEW w \in writes, FailWrite(w)
  PROVE  Remaining(r)' /\ UNCHANGED <<accepted, wire>>
<1>1. writes = {w} /\ registered /\ \A t \in Threads : ~Registrant(t)
  BY DEF SendInv, OneWriteOutstanding, OwnerRegistered
<1>2. \A v \in writes' : v.status \in Errors
  BY <1>1 DEF FailWrite, SendInv, TypeOK, Writes
<1>3. UNCHANGED <<pc, registered, accepted, wire>>
  BY DEF FailWrite, queueVars, history
<1> QED
  BY <1>1, <1>2, <1>3 DEF Remaining, Stopped, Registrant, Sender

(* A write that ends leaves the queue.                                     *)
LEMMA RemainingTransmitted ==
  ASSUME SendInv, NEW r, Remaining(r), NEW w \in writes, Transmit(w), NEW q, q = queue
  PROVE  r = w.bufs \o q /\ Remaining(q)' /\ w.bufs \in Seq(Buffers) /\ accepted' = accepted
<1>1. writes = {w} /\ w.status = "pending" /\ (\A t \in Threads : ~Registrant(t)) /\ w \in Writes
  BY DEF Transmit, SendInv, OneWriteOutstanding, TypeOK
<1>2. ~Stopped
  BY <1>1 DEF Stopped, Errors
<1>3. PICK s \in {"nothing", "sent"} : writes' = (writes \ {w}) \cup {[w EXCEPT !.status = s]}
  BY DEF Transmit
<1>4. writes' = {[w EXCEPT !.status = s]} /\ [w EXCEPT !.status = s].status = s
  BY <1>1, <1>3 DEF Writes
<1>5. UNCHANGED <<queue, pc, accepted>>
  BY DEF Transmit, queueVars
<1>6. Remaining(q)'
  <2>1. \A t \in Threads : pc'[t] # "write"
    BY <1>1, <1>5 DEF Registrant, Sender
  <2>2. \A v \in writes' : v.status # "pending"
    BY <1>4
  <2> QED
    BY <1>5, <2>1, <2>2 DEF Remaining
<1> QED
  BY <1>1, <1>2, <1>5, <1>6 DEF Remaining, Writes

(* A step accepts a buffer, or transmits what remains at its front, or     *)
(* does nothing of the kind.                                               *)
LEMMA StepRemaining ==
  ASSUME SendInv, [Next]_vars, NEW d \in Seq(Buffers), NEW r \in Seq(Buffers), accepted = d \o r,
         Remaining(r)
  PROVE  \/ /\ wire' = wire
            /\ \E q \in Seq(Buffers) : accepted' = d \o q /\ Remaining(q)'
         \/ \E w \in writes, q \in Seq(Buffers) :
              /\ Transmit(w) /\ w.bufs \in Seq(Buffers) /\ r = w.bufs \o q
              /\ accepted' = accepted /\ Remaining(q)'
<1> DEFINE Goal == \/ /\ wire' = wire
                      /\ \E q \in Seq(Buffers) : accepted' = d \o q /\ Remaining(q)'
                   \/ \E w \in writes, q \in Seq(Buffers) :
                        /\ Transmit(w) /\ w.bufs \in Seq(Buffers) /\ r = w.bufs \o q
                        /\ accepted' = accepted /\ Remaining(q)'
<1>0. \A t \in Threads : batch[t] \in Seq(Buffers)
  BY DEF SendInv, TypeOK
<1>1. ASSUME NEW t \in Threads
      PROVE  r \o batch[t] \in Seq(Buffers) /\ (d \o r) \o batch[t] = d \o (r \o batch[t])
  <2> DEFINE b == batch[t]
  <2>1. b \in Seq(Buffers)
    BY <1>0
  <2> HIDE DEF b
  <2>2. r \o b \in Seq(Buffers)
    BY <2>1, ConcatProperties
  <2>3. (d \o r) \o b = d \o (r \o b)
    BY <2>1, ConcatAssociative
  <2> QED
    BY <2>2, <2>3 DEF b
<1>2. ASSUME Stopped PROVE Goal
  <2>1. Stopped' /\ wire' = wire
    BY <1>2, AfterStop
  <2>2. \A q : Remaining(q)'
    BY <2>1 DEF Remaining
  <2> QED
    BY <1>1, <2>1, <2>2, AcceptedGrows
<1>3. ASSUME ~Stopped, NEW t \in Threads, PushBuffer(t) PROVE Goal
  <2>1. wire' = wire /\ accepted' = d \o (r \o batch[t])
    BY <1>1, <1>3 DEF PushBuffer
  <2> QED
    BY <1>1, <1>3, <2>1, RemainingPushed
<1>4. ASSUME Remaining(r)' /\ UNCHANGED <<accepted, wire>> PROVE Goal
  BY <1>4
<1>5. ASSUME NEW w \in writes, Transmit(w) PROVE Goal
  <2>1. PICK q \in Seq(Buffers) : q = queue
    BY DEF SendInv, TypeOK
  <2> QED
    BY <1>5, <2>1, RemainingTransmitted
<1> HIDE DEF Goal
<1>6. Goal
  <2>1. CASE \E t \in Threads : DrainQueue(t) \/ StartWrite(t)
    BY <1>2, <1>4, <2>1, RemainingDrained
  <2>2. CASE \E w \in writes : FailWrite(w)
    BY <1>4, <2>2, RemainingFailed
  <2> QED
    BY <1>2, <1>3, <1>4, <1>5, <2>1, <2>2, StepCases, RemainingQuiet
<1> QED
  BY <1>6 DEF Goal

-----------------------------------------------------------------------------
(* Splitting a sequence, and putting it together.                          *)
LEMMA SplitAt ==
  ASSUME NEW E, NEW a \in Seq(E), NEW n \in 0 .. Len(a)
  PROVE  /\ SubSeq(a, 1, n) \in Seq(E) /\ SubSeq(a, n + 1, Len(a)) \in Seq(E)
         /\ a = SubSeq(a, 1, n) \o SubSeq(a, n + 1, Len(a)) /\ Len(SubSeq(a, 1, n)) = n
<1>1. Len(a) \in Nat /\ \A i \in 1 .. Len(a) : a[i] \in E
  BY LenProperties, ElementOfSeq
<1>2. SubSeq(a, 1, n) \in Seq(E) /\ Len(SubSeq(a, 1, n)) = n
  BY <1>1, SubSeqProperties
<1>3. SubSeq(a, n + 1, Len(a)) \in Seq(E)
  BY <1>1, SubSeqProperties
<1>4. SubSeq(a, 1, n) \o SubSeq(a, n + 1, Len(a)) = SubSeq(a, 1, Len(a))
  <2>1. 1 \in 1 .. Len(a) + 1 /\ n \in (1 - 1) .. Len(a) /\ Len(a) \in n .. Len(a)
    BY <1>1
  <2> QED
    BY <2>1, ConcatAdjacentSubSeq
<1> QED
  BY <1>2, <1>3, <1>4, SubSeqFull

(* The two parts of a concatenation.                                       *)
LEMMA SplitBack ==
  ASSUME NEW E, NEW d \in Seq(E), NEW r \in Seq(E)
  PROVE  /\ d \o r \in Seq(E) /\ Len(d) \in 0 .. Len(d \o r) /\ Len(d \o r) = Len(d) + Len(r)
         /\ SubSeq(d \o r, 1, Len(d)) = d
         /\ SubSeq(d \o r, Len(d) + 1, Len(d \o r)) = r
<1> DEFINE a == d \o r
<1>1. /\ a \in Seq(E) /\ Len(a) = Len(d) + Len(r) /\ Len(d) \in Nat /\ Len(r) \in Nat
      /\ \A i \in 1 .. Len(d) + Len(r) : a[i] = IF i <= Len(d) THEN d[i] ELSE r[i - Len(d)]
  BY ConcatProperties, LenProperties
<1> HIDE DEF a
<1>2. /\ SubSeq(a, 1, Len(d)) \in Seq(E) /\ Len(SubSeq(a, 1, Len(d))) = Len(d)
      /\ SubSeq(a, Len(d) + 1, Len(a)) \in Seq(E)
  BY <1>1, SplitAt
<1>3. Len(SubSeq(a, Len(d) + 1, Len(a))) = Len(r)
  BY <1>1
<1>4. \A i \in 1 .. Len(d) : SubSeq(a, 1, Len(d))[i] = d[i]
  BY <1>1
<1>5. ASSUME NEW i \in 1 .. Len(r) PROVE SubSeq(a, Len(d) + 1, Len(a))[i] = r[i]
  <2>1. /\ Len(d) + i \in 1 .. Len(d) + Len(r) /\ ~(Len(d) + i <= Len(d))
        /\ (Len(d) + i) - Len(d) = i /\ (Len(d) + 1) + i - 1 = Len(d) + i
    BY <1>1
  <2>2. a[Len(d) + i] = r[i]
    BY <1>1, <2>1
  <2>3. SubSeq(a, Len(d) + 1, Len(a))[i] = a[Len(d) + i]
    BY <1>1, <2>1
  <2> QED
    BY <2>2, <2>3
<1>6. SubSeq(a, 1, Len(d)) = d
  BY <1>2, <1>4, SeqEqual
<1>7. SubSeq(a, Len(d) + 1, Len(a)) = r
  BY <1>2, <1>3, <1>5, SeqEqual
<1> QED
  BY <1>1, <1>6, <1>7 DEF a

(* Order survives what comes behind.                                       *)
LEMMA InOrderMore ==
  ASSUME NEW E, NEW p \in Seq(E), NEW w \in Seq(E), NEW v \in Seq(E), InOrderOf(p, w)
  PROVE  InOrderOf(p, w \o v)
<1>1. PICK at \in [DOMAIN p -> DOMAIN w] :
        /\ \A i, j \in DOMAIN p : i < j => at[i] < at[j]
        /\ \A i \in DOMAIN p : p[i] = w[at[i]]
  BY DEF InOrderOf
<1>2. /\ DOMAIN w = 1 .. Len(w) /\ DOMAIN (w \o v) = 1 .. Len(w) + Len(v)
      /\ Len(w) \in Nat /\ Len(v) \in Nat
      /\ \A i \in 1 .. Len(w) : (w \o v)[i] = w[i]
  BY ConcatProperties, LenProperties
<1>3. at \in [DOMAIN p -> DOMAIN (w \o v)]
  BY <1>1, <1>2
<1>4. \A i \in DOMAIN p : p[i] = (w \o v)[at[i]]
  BY <1>1, <1>2
<1> QED
  BY <1>1, <1>3, <1>4 DEF InOrderOf

(* Nor does it matter where the next transmission stops.                   *)
LEMMA InOrderNext ==
  ASSUME NEW E, NEW p \in Seq(E), NEW w \in Seq(E), NEW v \in Seq(E), NEW n \in 0 .. Len(v),
         InOrderOf(p, w)
  PROVE  InOrderOf(p \o SubSeq(v, 1, n), w \o v)
<1> DEFINE x == SubSeq(v, 1, n)
           q == p \o x
           u == w \o v
           k == Len(p)
           m == Len(w)
<1>1. PICK at \in [DOMAIN p -> DOMAIN w] :
        /\ \A i, j \in DOMAIN p : i < j => at[i] < at[j]
        /\ \A i \in DOMAIN p : p[i] = w[at[i]]
  BY DEF InOrderOf
<1>2. /\ k \in Nat /\ m \in Nat /\ Len(v) \in Nat /\ n \in Nat /\ n <= Len(v)
      /\ DOMAIN p = 1 .. k /\ DOMAIN w = 1 .. m
  BY LenProperties
<1>3. x \in Seq(E) /\ Len(x) = n /\ \A i \in 1 .. n : x[i] = v[i]
  BY <1>2, SplitAt
<1> HIDE DEF x
<1>4. DOMAIN q = 1 .. k + n /\ \A i \in 1 .. k + n : q[i] = IF i <= k THEN p[i] ELSE x[i - k]
  <2>1. /\ q \in Seq(E) /\ Len(q) = k + n
        /\ \A i \in 1 .. k + n : q[i] = IF i <= k THEN p[i] ELSE x[i - k]
    BY <1>3, ConcatProperties
  <2> HIDE DEF q, k
  <2> QED
    BY <2>1, LenProperties
<1>5. DOMAIN u = 1 .. m + Len(v) /\ \A i \in 1 .. m + Len(v) : u[i] = IF i <= m THEN w[i] ELSE v[i - m]
  BY <1>2, ConcatProperties, LenProperties
<1> HIDE DEF q, u, k, m
<1> DEFINE to == [i \in 1 .. k + n |-> IF i <= k THEN at[i] ELSE m + (i - k)]
<1>6. \A i \in 1 .. k : at[i] \in 1 .. m
  BY <1>1, <1>2
<1>7. to \in [DOMAIN q -> DOMAIN u]
  BY <1>2, <1>4, <1>5, <1>6
<1>8. ASSUME NEW i \in 1 .. k + n, NEW j \in 1 .. k + n, i < j PROVE to[i] < to[j]
  <2>1. CASE j <= k
    <3>1. i \in 1 .. k /\ j \in 1 .. k /\ to[i] = at[i] /\ to[j] = at[j]
      BY <1>2, <1>8, <2>1
    <3> HIDE DEF to
    <3> QED
      BY <1>1, <1>2, <1>8, <3>1
  <2>2. CASE i <= k /\ ~(j <= k)
    BY <1>2, <1>6, <1>8, <2>2
  <2>3. CASE ~(i <= k) /\ ~(j <= k)
    BY <1>2, <1>8, <2>3
  <2> QED
    BY <1>2, <1>8, <2>1, <2>2, <2>3
<1>9. ASSUME NEW i \in 1 .. k + n PROVE q[i] = u[to[i]]
  <2>1. CASE i <= k
    <3>1. i \in 1 .. k /\ q[i] = p[i] /\ p[i] = w[at[i]] /\ to[i] = at[i]
      <4>1. i \in 1 .. k /\ to[i] = at[i]
        BY <1>2, <2>1
      <4>2. q[i] = p[i]
        BY <1>4, <2>1
      <4> HIDE DEF to
      <4> QED
        BY <1>1, <1>2, <4>1, <4>2
    <3>2. at[i] \in 1 .. m + Len(v) /\ at[i] <= m
      BY <1>2, <1>6, <3>1
    <3> QED
      BY <1>5, <3>1, <3>2
  <2>2. CASE ~(i <= k)
    <3>1. i - k \in 1 .. n /\ to[i] = m + (i - k) /\ m + (i - k) \in 1 .. m + Len(v)
      BY <1>2, <2>2
    <3>2. ~(m + (i - k) <= m) /\ (m + (i - k)) - m = i - k
      BY <1>2, <3>1
    <3>3. q[i] = x[i - k] /\ x[i - k] = v[i - k]
      BY <1>3, <1>4, <2>2, <3>1
    <3> QED
      BY <1>5, <3>1, <3>2, <3>3
  <2> QED
    BY <2>1, <2>2
<1> HIDE DEF to
<1>10. InOrderOf(q, u)
  BY <1>4, <1>7, <1>8, <1>9 DEF InOrderOf
<1> QED
  BY <1>10 DEF q, u, x

(* What a write transmits is the front of its buffers' bytes.              *)
LEMMA TransmitsFront ==
  ASSUME NEW w \in writes, w.bufs \in Seq(Buffers), Transmit(w)
  PROVE  \E n \in 0 .. Len(Bytes(w.bufs)) :
           /\ wire' = wire \o SubSeq(Bytes(w.bufs), 1, n)
           /\ ~ShortWrites /\ Len(w.bufs) <= MaxIov => n = Len(Bytes(w.bufs))
<1> DEFINE m == IF Len(w.bufs) < MaxIov THEN Len(w.bufs) ELSE MaxIov
           f == SubSeq(w.bufs, 1, m)
           g == SubSeq(w.bufs, m + 1, Len(w.bufs))
<1>1. m \in 0 .. Len(w.bufs) /\ (Len(w.bufs) <= MaxIov => m = Len(w.bufs))
  BY SendAssumption, LenProperties
<1>2. f \in Seq(Buffers) /\ g \in Seq(Buffers) /\ w.bufs = f \o g
  BY <1>1, SplitAt
<1>3. m = Len(w.bufs) => f = w.bufs
  BY SubSeqFull
<1> HIDE DEF m, g
<1>4. PICK n \in (IF ShortWrites /\ Bytes(f) # <<>> THEN 1 ELSE Len(Bytes(f))) .. Len(Bytes(f)) :
        wire' = wire \o SubSeq(Bytes(f), 1, n)
  BY DEF Transmit, m
<1> HIDE DEF f
<1>5. /\ Bytes(f) \in Seq(ByteSet) /\ Bytes(g) \in Seq(ByteSet) /\ Len(Bytes(f)) \in Nat
      /\ Len(Bytes(g)) \in Nat /\ Bytes(w.bufs) = Bytes(f) \o Bytes(g)
  BY <1>2, BytesTyped, BytesConcat, LenProperties
<1>6. n \in 0 .. Len(Bytes(f)) /\ (~ShortWrites => n = Len(Bytes(f)))
  BY <1>4, <1>5
<1>7. SubSeq(Bytes(w.bufs), 1, n) = SubSeq(Bytes(f), 1, n)
  <2>1. CASE n = 0
    BY <2>1, SubSeqEmpty
  <2>2. CASE n # 0
    <3>1. 1 \in 1 .. Len(Bytes(f)) /\ n \in 1 .. Len(Bytes(f))
      BY <1>5, <1>6, <2>2
    <3> QED
      BY <1>5, <3>1, SubSeqOfConcat1
  <2> QED
    BY <2>1, <2>2
<1>8. n \in 0 .. Len(Bytes(w.bufs))
  BY <1>5, <1>6, ConcatProperties
<1>9. ~ShortWrites /\ Len(w.bufs) <= MaxIov => n = Len(Bytes(w.bufs))
  BY <1>1, <1>3, <1>6
<1> QED
  BY <1>4, <1>7, <1>8, <1>9

-----------------------------------------------------------------------------
(* The accepted buffers, as those carried and those that remain.           *)
LEMMA CarriedSplit ==
  ASSUME accepted \in Seq(Buffers), NEW n \in 0 .. Len(accepted), CarriedUpTo(n)
  PROVE  \E d, r \in Seq(Buffers) :
           accepted = d \o r /\ InOrderOf(wire, Bytes(d)) /\ Remaining(r)
BY SplitAt DEF CarriedUpTo

(* The same backwards.                                                     *)
LEMMA CarriedJoin ==
  ASSUME NEW d \in Seq(Buffers), NEW r \in Seq(Buffers), accepted' = d \o r,
         InOrderOf(wire', Bytes(d)), Remaining(r)'
  PROVE  \E n \in 0 .. Len(accepted') : CarriedUpTo(n)'
<1>1. /\ Len(d) \in 0 .. Len(accepted') /\ SubSeq(accepted', 1, Len(d)) = d
      /\ SubSeq(accepted', Len(d) + 1, Len(accepted')) = r
  BY SplitBack
<1>2. CarriedUpTo(Len(d))'
  BY <1>1 DEF CarriedUpTo, Remaining
<1> QED
  BY <1>1, <1>2

(* Concatenation is associative.                                          *)
LEMMA Regroup ==
  ASSUME NEW E, NEW x \in Seq(E), NEW y \in Seq(E), NEW z \in Seq(E)
  PROVE  x \o y \in Seq(E) /\ x \o (y \o z) = (x \o y) \o z
BY ConcatProperties, ConcatAssociative

(* Every step keeps the invariant, and it holds initially.                 *)
LEMMA StepStreamInv == StreamInv /\ [Next]_vars => StreamInv'
<1> SUFFICES ASSUME StreamInv, [Next]_vars PROVE StreamInv'
  OBVIOUS
<1>0. \A x, y, z \in Seq(Buffers) : x \o y \in Seq(Buffers) /\ x \o (y \o z) = (x \o y) \o z
  BY Regroup
<1>1. SendInv /\ SendInv' /\ wire \in Seq(ByteSet) /\ accepted \in Seq(Buffers)
  BY StepSendInv DEF StreamInv, ByteSet, SendInv, TypeOK
<1>2. PICK d \in Seq(Buffers), r \in Seq(Buffers) :
        accepted = d \o r /\ InOrderOf(wire, Bytes(d)) /\ Remaining(r)
  BY <1>1, CarriedSplit DEF StreamInv
<1>3. Bytes(d) \in Seq(ByteSet)
  BY BytesTyped
<1>4. ASSUME wire' = wire, NEW q \in Seq(Buffers), accepted' = d \o q, Remaining(q)'
      PROVE  StreamInv'
  <2>1. \E n \in 0 .. Len(accepted') : CarriedUpTo(n)'
    BY <1>2, <1>4, CarriedJoin
  <2> QED
    BY <1>1, <1>4, <2>1 DEF StreamInv, ByteSet
<1>5. ASSUME NEW w \in writes, NEW q \in Seq(Buffers), Transmit(w), w.bufs \in Seq(Buffers),
             r = w.bufs \o q, accepted' = accepted, Remaining(q)'
      PROVE  StreamInv'
  <2>1. PICK n \in 0 .. Len(Bytes(w.bufs)) : wire' = wire \o SubSeq(Bytes(w.bufs), 1, n)
    BY <1>5, TransmitsFront
  <2>2. /\ Bytes(w.bufs) \in Seq(ByteSet) /\ SubSeq(Bytes(w.bufs), 1, n) \in Seq(ByteSet)
        /\ wire' \in Seq(ByteSet)
    <3>1. Bytes(w.bufs) \in Seq(ByteSet)
      BY <1>5, BytesTyped
    <3>2. SubSeq(Bytes(w.bufs), 1, n) \in Seq(ByteSet)
      BY <3>1, SplitAt
    <3> QED
      BY <1>1, <2>1, <3>1, <3>2, ConcatProperties
  <2>3. d \o w.bufs \in Seq(Buffers) /\ accepted' = (d \o w.bufs) \o q
    <3>1. \A x \in Seq(Buffers) : d \o x \in Seq(Buffers) /\ d \o (x \o q) = (d \o x) \o q
      BY <1>0
    <3>2. accepted' = d \o (w.bufs \o q)
      BY <1>2, <1>5
    <3> QED
      BY <1>5, <3>1, <3>2
  <2>4. InOrderOf(wire', Bytes(d \o w.bufs))
    <3>1. Bytes(d \o w.bufs) = Bytes(d) \o Bytes(w.bufs)
      BY <1>5, BytesConcat
    <3>2. InOrderOf(wire \o SubSeq(Bytes(w.bufs), 1, n), Bytes(d) \o Bytes(w.bufs))
      BY <1>1, <1>2, <1>3, <2>2, InOrderNext
    <3> QED
      BY <2>1, <3>1, <3>2
  <2>5. \E n2 \in 0 .. Len(accepted') : CarriedUpTo(n2)'
    BY <1>5, <2>3, <2>4, CarriedJoin
  <2> QED
    BY <1>1, <2>2, <2>5 DEF StreamInv, ByteSet
<1> QED
  BY <1>1, <1>2, <1>4, <1>5, StepRemaining

LEMMA InitStreamInv == Init => StreamInv
<1> SUFFICES ASSUME Init PROVE StreamInv
  OBVIOUS
<1>1. /\ accepted = <<>> /\ wire = <<>> /\ queue = <<>> /\ writes = {} /\ accepted \in Seq(Buffers)
      /\ \A t \in Threads : pc[t] = "idle"
  BY DEF Init
<1>2. SubSeq(accepted, 1, 0) = <<>> /\ SubSeq(accepted, 0 + 1, Len(accepted)) = <<>>
  BY <1>1, SubSeqEmpty
<1>3. InOrderOf(wire, Bytes(<<>>))
  <2>1. DOMAIN wire = {}
    BY <1>1
  <2>2. [i \in DOMAIN wire |-> i] \in [DOMAIN wire -> DOMAIN Bytes(<<>>)]
    BY <2>1
  <2> QED
    BY <2>1, <2>2 DEF InOrderOf
<1>4. Remaining(<<>>)
  BY <1>1 DEF Remaining
<1>5. CarriedUpTo(0)
  BY <1>2, <1>3, <1>4 DEF CarriedUpTo
<1>6. 0 \in 0 .. Len(accepted)
  BY <1>1
<1>7. wire \in Seq(Buffers \X Nat)
  BY <1>1
<1> QED
  BY <1>5, <1>6, <1>7, InitSendInv DEF StreamInv

(* The buffers that remain to be written are those of the write under way  *)
(* or of the thread about to write, then the queue, until an error ends    *)
(* all writing (Session.cpp:33-37, 161-182, 229-251).                      *)
THEOREM StreamInvariant == Spec => []StreamInv
BY InitStreamInv, StepStreamInv, PTL DEF Spec

(* However short writes are and however many buffers one takes: accepted   *)
(* bytes may be lost, but none is carried twice or overtakes another.      *)
THEOREM NothingOvertakes == Spec => []WireInOrder
<1>1. StreamInv => WireInOrder
  <2> SUFFICES ASSUME StreamInv PROVE WireInOrder
    OBVIOUS
  <2>1. wire \in Seq(ByteSet) /\ accepted \in Seq(Buffers)
    BY DEF StreamInv, ByteSet, SendInv, TypeOK
  <2>2. PICK d \in Seq(Buffers), r \in Seq(Buffers) : accepted = d \o r /\ InOrderOf(wire, Bytes(d))
    BY <2>1, CarriedSplit DEF StreamInv
  <2>3. Bytes(d) \in Seq(ByteSet) /\ Bytes(r) \in Seq(ByteSet) /\ Bytes(accepted) = Bytes(d) \o Bytes(r)
    BY <2>2, BytesTyped, BytesConcat
  <2> QED
    BY <2>1, <2>2, <2>3, InOrderMore DEF WireInOrder
<1> QED
  BY <1>1, StreamInvariant, PTL

-----------------------------------------------------------------------------
(* Writes that transmit all they are given, and take every buffer: what    *)
(* the connection carried is then the accepted buffers before those that   *)
(* remain, whole.                                                          *)
BatchesFit == \A w \in writes : Len(w.bufs) <= MaxIov

WholeInv ==
  /\ SendInv
  /\ \E d, r \in Seq(Buffers) : accepted = d \o r /\ wire = Bytes(d) /\ Remaining(r)

(* OrderedStream's bytes are those of this module.                         *)
LEMMA SameBytes == \A s : Stream!Bytes(s) = Bytes(s)
BY DEF Stream!Bytes, Bytes, Stream!BytesOf, BytesOf, Stream!FlattenSeq, FlattenSeq

(* Initially nothing was accepted and nothing carried.                     *)
LEMMA InitWholeInv == Init => WholeInv
<1> SUFFICES ASSUME Init PROVE WholeInv
  OBVIOUS
<1>1. /\ accepted = <<>> /\ wire = <<>> /\ queue = <<>> /\ writes = {}
      /\ \A t \in Threads : pc[t] = "idle"
  BY DEF Init
<1>2. Bytes(<<>>) = <<>>
  BY FlattenEmpty DEF Bytes
<1>3. <<>> \in Seq(Buffers) /\ <<>> \o <<>> = <<>>
  BY EmptySeq
<1>4. Remaining(<<>>)
  BY <1>1 DEF Remaining
<1> QED
  BY <1>1, <1>2, <1>3, <1>4, InitSendInv DEF WholeInv

(* Send accepts one buffer at a time.                                      *)
LEMMA AcceptsOne ==
  ASSUME SendInv, [Next]_vars
  PROVE  UNCHANGED accepted \/ \E b \in Buffers : accepted' = Append(accepted, b)
<1>1. ASSUME NEW t \in Threads, PushBuffer(t)
      PROVE  \E b \in Buffers : accepted' = Append(accepted, b)
  <2> DEFINE s == batch[t]
  <2>1. s \in Seq(Buffers) /\ Len(s) = 1 /\ accepted' = accepted \o s /\ accepted \in Seq(Buffers)
    BY <1>1 DEF SendInv, TypeOK, PushHasOne, PushBuffer, At
  <2> HIDE DEF s
  <2>2. s[1] \in Buffers /\ s = <<s[1]>>
    <3>1. s[1] \in Buffers
      <4>1. 1 \in 1 .. Len(s)
        BY <2>1
      <4> QED
        BY <2>1, <4>1, ElementOfSeq
    <3>2. <<s[1]>> \in Seq(Buffers) /\ Len(<<s[1]>>) = 1 /\ <<s[1]>>[1] = s[1]
      BY <3>1
    <3>3. \A i \in 1 .. Len(s) : s[i] = <<s[1]>>[i]
      BY <2>1, <3>2
    <3>4. s = <<s[1]>>
      BY <2>1, <3>2, <3>3, SeqEqual
    <3> QED
      BY <3>1, <3>4
  <2>3. Append(accepted, s[1]) = accepted \o <<s[1]>>
    BY <2>1, <2>2, AppendIsConcat
  <2> QED
    BY <2>1, <2>2, <2>3
<1>2. CASE Next
  BY <1>1, <1>2, StepCases DEF Send, RegisterSend, DrainQueue, StartWrite, Transmit, FailWrite,
    PeerCloses, WriteHandler, HandleError, ProcessSend, RegisterSendLocked, Relock, ReadFails,
    Disconnect, CloseSocket, history
<1> QED
  BY <1>2 DEF vars, history

(* A longer prefix of the accepted bytes is a step of the stream.          *)
LEMMA CarriesMore ==
  ASSUME NEW d \in Seq(Buffers), NEW b \in Seq(Buffers), NEW q \in Seq(Buffers),
         d \o b \in Seq(Buffers), accepted = (d \o b) \o q, wire = Bytes(d), wire' = Bytes(d \o b),
         UNCHANGED accepted
  PROVE  [Stream!Next]_<<accepted, wire>>
<1> DEFINE u == Bytes(d)
           v == Bytes(b)
           x == Bytes(q)
<1>1. u \in Seq(ByteSet) /\ v \in Seq(ByteSet) /\ x \in Seq(ByteSet)
  BY BytesTyped
<1>2. wire = u /\ wire' = u \o v /\ Bytes(accepted) = (u \o v) \o x
  BY BytesConcat
<1> HIDE DEF u, v, x
<1>3. /\ Len(u \o v) = Len(u) + Len(v) /\ Len(u) \in Nat /\ Len(v) \in Nat /\ u \o v \in Seq(ByteSet)
      /\ (v = <<>> => u \o v = u) /\ (Len(v) = 0 => v = <<>>)
  BY <1>1, ConcatProperties, LenProperties, EmptySeq, ConcatEmptySeq
<1>4. /\ SubSeq(Bytes(accepted), 1, Len(u \o v)) = u \o v
      /\ Len(u \o v) \in 0 .. Len(Bytes(accepted))
  <2> DEFINE y == u \o v
  <2>1. y \in Seq(ByteSet) /\ x \in Seq(ByteSet) /\ Bytes(accepted) = y \o x
    BY <1>1, <1>2, <1>3
  <2> HIDE DEF y
  <2>2. SubSeq(y \o x, 1, Len(y)) = y /\ Len(y) \in 0 .. Len(y \o x)
    BY <2>1, SplitBack
  <2> QED
    BY <2>1, <2>2 DEF y
<1>5. CASE Len(v) = 0
  BY <1>2, <1>3, <1>5
<1>6. CASE Len(v) # 0
  <2>1. Len(u \o v) \in Len(wire) + 1 .. Len(Bytes(accepted))
    <3>1. Len(Bytes(accepted)) \in Nat
      <4>1. Bytes(accepted) \in Seq(ByteSet)
        BY <1>1, <1>2, <1>3, ConcatProperties
      <4> QED
        BY <4>1, LenProperties
    <3> QED
      BY <1>2, <1>3, <1>4, <1>6, <3>1
  <2>2. wire' = SubSeq(Stream!Bytes(accepted), 1, Len(u \o v))
    BY <1>2, <1>4, SameBytes
  <2>3. Stream!Carry
    BY <2>1, <2>2, SameBytes DEF Stream!Carry
  <2> QED
    BY <2>3 DEF Stream!Next
<1> QED
  BY <1>5, <1>6

(* A step keeps that, and is a step of the stream or leaves it alone.      *)
LEMMA StepWhole ==
  ASSUME WholeInv, ~ShortWrites, BatchesFit, [Next]_vars
  PROVE  WholeInv' /\ [Stream!Next]_<<accepted, wire>>
<1>0. \A x, y, z \in Seq(Buffers) : x \o y \in Seq(Buffers) /\ x \o (y \o z) = (x \o y) \o z
  BY Regroup
<1>1. SendInv /\ SendInv'
  BY StepSendInv DEF WholeInv
<1>2. PICK d \in Seq(Buffers), r \in Seq(Buffers) :
        accepted = d \o r /\ wire = Bytes(d) /\ Remaining(r)
  BY DEF WholeInv
<1>3. ASSUME wire' = wire, NEW q \in Seq(Buffers), accepted' = d \o q, Remaining(q)'
      PROVE  WholeInv'
  BY <1>1, <1>2, <1>3 DEF WholeInv
<1>4. ASSUME NEW w \in writes, NEW q \in Seq(Buffers), Transmit(w), w.bufs \in Seq(Buffers),
             r = w.bufs \o q, accepted' = accepted, Remaining(q)'
      PROVE  /\ d \o w.bufs \in Seq(Buffers) /\ accepted' = (d \o w.bufs) \o q
             /\ wire' = Bytes(d \o w.bufs)
  <2>1. /\ d \o w.bufs \in Seq(Buffers) /\ d \o (w.bufs \o q) = (d \o w.bufs) \o q
    <3>1. \A x \in Seq(Buffers) : d \o x \in Seq(Buffers) /\ d \o (x \o q) = (d \o x) \o q
      BY <1>0
    <3> QED
      BY <1>4, <3>1
  <2>2. accepted' = d \o (w.bufs \o q)
    BY <1>2, <1>4
  <2>3. PICK n \in 0 .. Len(Bytes(w.bufs)) :
          wire' = wire \o SubSeq(Bytes(w.bufs), 1, n) /\ n = Len(Bytes(w.bufs))
    BY <1>4, TransmitsFront DEF BatchesFit
  <2>4. SubSeq(Bytes(w.bufs), 1, n) = Bytes(w.bufs)
    <3>1. Bytes(w.bufs) \in Seq(ByteSet)
      BY <1>4, BytesTyped
    <3> QED
      BY <2>3, <3>1, SubSeqFull
  <2>5. wire' = Bytes(d) \o Bytes(w.bufs)
    BY <1>2, <2>3, <2>4
  <2>6. Bytes(d \o w.bufs) = Bytes(d) \o Bytes(w.bufs)
    BY <1>4, BytesConcat
  <2> QED
    BY <2>1, <2>2, <2>5, <2>6
<1>5. ASSUME wire' = wire PROVE [Stream!Next]_<<accepted, wire>>
  BY <1>1, <1>5, AcceptsOne DEF Stream!Next, Stream!Accept
<1>6. ASSUME NEW w \in writes, NEW q \in Seq(Buffers), Transmit(w), w.bufs \in Seq(Buffers),
             r = w.bufs \o q, accepted' = accepted, Remaining(q)'
      PROVE  WholeInv' /\ [Stream!Next]_<<accepted, wire>>
  <2>1. /\ d \o w.bufs \in Seq(Buffers) /\ accepted' = (d \o w.bufs) \o q
        /\ wire' = Bytes(d \o w.bufs)
    BY <1>4, <1>6
  <2>2. WholeInv'
    BY <1>1, <1>6, <2>1 DEF WholeInv
  <2>3. [Stream!Next]_<<accepted, wire>>
    <3>1. accepted = (d \o w.bufs) \o q
      BY <1>6, <2>1
    <3> QED
      BY <1>2, <1>6, <2>1, <3>1, CarriesMore
  <2> QED
    BY <2>2, <2>3
<1>7. \/ wire' = wire /\ \E q \in Seq(Buffers) : accepted' = d \o q /\ Remaining(q)'
      \/ \E w \in writes, q \in Seq(Buffers) :
           /\ Transmit(w) /\ w.bufs \in Seq(Buffers) /\ r = w.bufs \o q
           /\ accepted' = accepted /\ Remaining(q)'
  BY <1>1, <1>2, StepRemaining, ZenonT(60)
<1> QED
  BY <1>3, <1>5, <1>6, <1>7

(* With writes that transmit all they are given, up to MaxIov buffers, the *)
(* session is the ordered stream that Send's callers rely on, whatever     *)
(* threads, buffers and sizes there are (Session.cpp:26-38, 161-182,       *)
(* 229-251).                                                               *)
THEOREM WholeWritesImplementStream ==
  ASSUME ~ShortWrites
  PROVE  Spec /\ []BatchesFit => StreamSpec
<1>1. Init => Stream!Init
  BY DEF Init, Stream!Init
<1>2. WholeInv /\ BatchesFit /\ [Next]_vars => WholeInv' /\ [Stream!Next]_<<accepted, wire>>
  BY StepWhole
<1> QED
  BY <1>1, <1>2, InitWholeInv, PTL DEF Spec, StreamSpec, Stream!Spec, Stream!streamVars
==============================================================================

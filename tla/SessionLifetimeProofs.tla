----------------------- MODULE SessionLifetimeProofs -----------------------
(***************************************************************************)
(* The life of a session, for any number of io threads and of detached     *)
(* threads: when its last reference goes it is disconnected, a read        *)
(* handler finds its session unless the write handler disconnected it, and *)
(* main destroys nothing a handler still uses.                             *)
(***************************************************************************)
EXTENDS SessionLifetime, TLAPS

(* TypeOK in parts: the Boolean variables and the others.                  *)
FlagsOK ==
  connected \in BOOLEAN /\ member \in BOOLEAN /\ registered \in BOOLEAN /\ queued \in BOOLEAN

DataOK ==
  /\ role \in {"server", "client"} /\ phase \in Phases
  /\ runs \in [IoThreads -> {"unborn", "loop", "ended"} \cup Ops]
  /\ step \in [Ops -> Steps]
  /\ closer \in {"nobody", "service"} \cup Ops
  /\ detached \in 0 .. MaxDetached
  /\ misuse \subseteq (Ops \cup {"detached"}) \X {"session", "service", "context", "globals"}

LEMMA TypeParts == TypeOK <=> FlagsOK /\ DataOK
BY Zenon DEF TypeOK, FlagsOK, DataOK

LEMMA TypePartsAfter == TypeOK' <=> FlagsOK' /\ DataOK'
BY TypeParts, PTL

(* What the invariant says of the session and its operations, without the  *)
(* threads that run them.                                                  *)
SessionOK == HandlersOK /\ Connecting /\ Serving /\ Releasing

(* The initial state. *)
LEMMA InitLifetimeInv == Init => LifetimeInv
<1> SUFFICES ASSUME Init PROVE LifetimeInv
  OBVIOUS
<1> USE DEF Init, Ops
<1>1. FlagsOK
  BY Zenon DEF FlagsOK
<1>2. DataOK
  BY LifetimeAssumption DEF DataOK, Phases, Steps
<1>3. Threaded
  BY DEF Threaded
<1>4. HandlersOK /\ Connecting /\ Serving /\ Releasing
  BY DEF HandlersOK, Connecting, Serving, Releasing
<1>5. TakenDown /\ OnlyDetachedLate
  BY DEF TakenDown, OnlyDetachedLate
<1> QED
  BY <1>1, <1>2, <1>3, <1>4, <1>5, TypeParts DEF LifetimeInv

(* A thread that runs a handler: no other runs the same operation, main    *)
(* has not joined, and service, io_context and globals exist.              *)
LEMMA RunningHandler ==
  ASSUME LifetimeInv, NEW t \in IoThreads, runs[t] \in Ops
  PROVE  /\ step[runs[t]] \notin {"none", "pending"}
         /\ \A u \in IoThreads : runs[u] = runs[t] => u = t
         /\ phase \in {"launch", "serving", "sending", "stopped"}
         /\ ServiceExists /\ ContextExists /\ GlobalsExist
<1>1. /\ step[runs[t]] \notin {"none", "pending"}
      /\ \A u \in IoThreads : runs[u] = runs[t] => u = t
  BY DEF LifetimeInv, Threaded
<1>2. phase # "start"
  BY <1>1 DEF LifetimeInv, TakenDown
<1>3. phase \in {"start", "launch", "serving", "sending", "stopped"}
  BY DEF LifetimeInv, TakenDown, Ops
<1> QED
  BY <1>1, <1>2, <1>3 DEF ServiceExists, ContextExists, GlobalsExist

(* An object missed by a handler can only be the session. *)
LEMMA HandlerMisuse ==
  ASSUME LifetimeInv, misuse = {}, NEW t \in IoThreads, runs[t] \in Ops, NEW needs,
         needs \subseteq {"session", "service", "context", "globals"},
         Misused(runs[t], needs)
  PROVE  LifetimeInv'
<1>1. /\ misuse' = misuse \cup ({runs[t]} \X Missing(needs))
      /\ UNCHANGED <<role, phase, runs, step, connected, closer, member, registered, queued, detached>>
  BY DEF Misused, sessionVars, sendVars
<1>2. Missing(needs) \subseteq {"session"}
  BY RunningHandler DEF Missing, Exists
<1>3. misuse' \subseteq Ops \X {"session"}
  BY <1>1, <1>2
<1>4. OnlyDetachedLate'
  BY <1>3 DEF OnlyDetachedLate
<1>5. TypeOK'
  <2>1. misuse' \subseteq (Ops \cup {"detached"}) \X {"session", "service", "context", "globals"}
    BY <1>3
  <2>2. FlagsOK /\ DataOK
    BY TypeParts DEF LifetimeInv
  <2>3. FlagsOK'
    BY <1>1, <2>2, Zenon DEF FlagsOK
  <2>4. DataOK'
    BY <1>1, <2>1, <2>2 DEF DataOK
  <2> QED
    BY <2>3, <2>4, TypePartsAfter
<1>6. /\ Threaded' /\ HandlersOK' /\ Connecting' /\ Serving' /\ Releasing' /\ TakenDown'
  BY <1>1 DEF LifetimeInv, Threaded, HandlersOK, Connecting, Serving, Releasing, TakenDown,
     ServiceExists
<1> QED
  BY <1>4, <1>5, <1>6 DEF LifetimeInv
(* Threads and the operations they run: if no operation gets or loses its  *)
(* handler.                                                                *)
LEMMA ThreadsKeep ==
  ASSUME Threaded, UNCHANGED <<role, runs>>,
         \A o \in Ops : step'[o] \in {"none", "pending"} <=> step[o] \in {"none", "pending"}
  PROVE  Threaded'
BY DEF Threaded

(* If thread t takes a pending operation. *)
LEMMA ThreadTakes ==
  ASSUME LifetimeInv, NEW t \in IoThreads, NEW o \in Ops, UNCHANGED role,
         runs[t] = "loop", runs' = [runs EXCEPT ![t] = o],
         step[o] \in {"none", "pending"}, step'[o] \notin {"none", "pending"},
         \A p \in Ops \ {o} : step'[p] = step[p]
  PROVE  Threaded'
<1>1. Threaded /\ runs \in [IoThreads -> {"unborn", "loop", "ended"} \cup Ops]
  BY DEF LifetimeInv, TypeOK
<1>2. \A u \in IoThreads : runs[u] # o
  BY <1>1 DEF Threaded
<1>3. "loop" \notin Ops /\ "unborn" \notin Ops
  BY DEF Ops
<1> QED
  BY <1>1, <1>2, <1>3 DEF Threaded

(* If thread t ends the handler it runs. *)
LEMMA ThreadLeaves ==
  ASSUME LifetimeInv, NEW t \in IoThreads, NEW o \in Ops, UNCHANGED role,
         runs[t] = o, runs' = [runs EXCEPT ![t] = "loop"],
         step'[o] \in {"none", "pending"},
         \A p \in Ops \ {o} :
           step'[p] \in {"none", "pending"} <=> step[p] \in {"none", "pending"}
  PROVE  Threaded'
<1>1. Threaded /\ runs \in [IoThreads -> {"unborn", "loop", "ended"} \cup Ops]
  BY DEF LifetimeInv, TypeOK
<1>2. "loop" \notin Ops /\ "unborn" \notin Ops
  BY DEF Ops
<1>3. \A u \in IoThreads : runs'[u] = IF u = t THEN "loop" ELSE runs[u]
  BY <1>1
<1>4. \A u \in IoThreads : runs[u] = o => u = t
  BY <1>1 DEF Threaded
<1>5. \A u \in IoThreads : runs'[u] \in Ops =>
        /\ step'[runs'[u]] \notin {"none", "pending"}
        /\ \A v \in IoThreads : runs'[v] = runs'[u] => v = u
  BY <1>1, <1>2, <1>3, <1>4 DEF Threaded
<1>6. \A p \in Ops : step'[p] \notin {"none", "pending"} => \E u \in IoThreads : runs'[u] = p
  BY <1>1, <1>3, <1>4 DEF Threaded
<1>7. role' = "client" =>
        \A u, v \in IoThreads : runs'[u] # "unborn" /\ runs'[v] # "unborn" => u = v
  BY <1>1, <1>2, <1>3 DEF Threaded
<1> QED
  BY <1>5, <1>6, <1>7 DEF Threaded

(* What Send does to the operations, called with those of ops.             *)
LEMMA SendsEffect ==
  ASSUME LifetimeInv, NEW ops \in [Ops -> Steps], ops["write"] = step["write"], Sends(ops)
  PROVE  /\ step' \in [Ops -> Steps]
         /\ registered' \in BOOLEAN /\ queued' \in BOOLEAN
         /\ step'["connect"] = ops["connect"] /\ step'["read"] = ops["read"]
         /\ step'["timer"] = ops["timer"]
         /\ \/ step'["write"] = step["write"]
            \/ step["write"] = "none" /\ step'["write"] = "pending"
         /\ step'["write"] # "none" => registered'
         /\ ~registered' => ~registered /\ ~connected
         /\ ~connected => (registered' <=> registered)
<1>1. FlagsOK /\ (step["write"] # "none" => registered)
  BY TypeParts DEF LifetimeInv, HandlersOK
<1>2. registered' \in BOOLEAN /\ queued' \in BOOLEAN
  BY <1>1, Zenon DEF Sends, FlagsOK
<1>3. (registered' <=> registered \/ connected)
  BY DEF Sends
<1>4. /\ "pending" \in Steps /\ "write" \in Ops /\ "read" \in Ops
      /\ "connect" \in Ops /\ "timer" \in Ops
  BY DEF Steps, Ops
<1>5. CASE connected /\ ~registered
  <2>1. step' = [ops EXCEPT !["write"] = "pending"]
    BY <1>5 DEF Sends
  <2> QED
    BY <1>1, <1>2, <1>3, <1>4, <1>5, <2>1
<1>6. CASE ~(connected /\ ~registered)
  <2>1. step' = ops
    BY <1>6 DEF Sends
  <2> QED
    BY <1>1, <1>2, <1>3, <1>6, <2>1
<1> QED
  BY <1>5, <1>6

(* A handler runs before main joins: what is left to show of its steps.    *)
LEMMA HandlerDone ==
  ASSUME LifetimeInv, NEW t \in IoThreads, runs[t] \in Ops,
         UNCHANGED <<role, phase, detached, misuse>>,
         closer' = closer \/ closer' \in Ops,
         TypeOK', Threaded', SessionOK'
  PROVE  LifetimeInv'
<1>1. phase' \in {"launch", "serving", "sending", "stopped"} /\ ServiceExists /\ ServiceExists'
  BY RunningHandler DEF ServiceExists
<1>2. closer' # "service"
  BY <1>1 DEF LifetimeInv, TakenDown, Ops
<1>3. TakenDown' /\ OnlyDetachedLate'
  BY <1>1, <1>2 DEF TakenDown, OnlyDetachedLate, LifetimeInv
<1> QED
  BY <1>3 DEF LifetimeInv, SessionOK

(* ProcessConnect stores _connected. *)
LEMMA StoreConnectedInv ==
  ASSUME LifetimeInv, NEW t \in IoThreads, runs[t] \in Ops,
         UNCHANGED <<role, phase, detached, misuse>>, StoreConnected(t)
  PROVE  LifetimeInv'
<1>0. FlagsOK /\ DataOK /\ SessionOK /\ Threaded
  BY TypeParts DEF LifetimeInv, SessionOK
<1>1. /\ step["connect"] = "store" /\ step' = [step EXCEPT !["connect"] = "add"]
      /\ connected' = TRUE /\ UNCHANGED <<runs, closer, member, registered, queued>>
  BY DEF StoreConnected, At, Goto, sendVars
<1>2. FlagsOK'
  BY <1>0, <1>1, Zenon DEF FlagsOK
<1>3. DataOK'
  BY <1>0, <1>1 DEF DataOK, Ops, Steps
<1>4. Threaded'
  BY <1>0, <1>1, ThreadsKeep DEF DataOK, Ops
<1>5. HandlersOK' /\ Connecting'
  BY <1>0, <1>1 DEF SessionOK, HandlersOK, Connecting, DataOK, Ops
<1>6. Serving' /\ Releasing'
  BY <1>0, <1>1 DEF SessionOK, HandlersOK, Connecting, Serving, Releasing, DataOK, Ops
<1> QED
  BY <1>1, <1>2, <1>3, <1>4, <1>5, <1>6, TypePartsAfter, HandlerDone DEF SessionOK

(* While a connect is under way only the session's own thread could have   *)
(* sent, disconnected or released anything.                                *)
LEMMA ConnectAlone ==
  ASSUME LifetimeInv, NEW t \in IoThreads, runs[t] = "connect"
  PROVE  /\ step["read"] = "none" /\ step["write"] \in {"none", "pending"}
         /\ step["connect"] \in {"store", "add", "register"}
<1>0. FlagsOK /\ DataOK /\ SessionOK /\ Threaded
  BY TypeParts DEF LifetimeInv, SessionOK
<1>1. step["connect"] \notin {"none", "pending"}
  BY <1>0 DEF Threaded, Ops
<1>2. step["read"] = "none" /\ step["connect"] \in {"store", "add", "register"}
  BY <1>0, <1>1 DEF SessionOK, HandlersOK, Connecting
<1>3. step["write"] \in {"none", "pending"}
  <2>1. CASE role = "server"
    BY <1>0, <1>1, <2>1 DEF SessionOK, HandlersOK
  <2>2. CASE role = "client"
    BY <1>0, <2>2 DEF Threaded, Ops
  <2> QED
    BY <1>0, <2>1, <2>2 DEF DataOK
<1> QED
  BY <1>1, <1>2, <1>3

(* AddSession. *)
LEMMA AddSessionInv ==
  ASSUME LifetimeInv, NEW t \in IoThreads, runs[t] \in Ops,
         UNCHANGED <<role, phase, detached, misuse>>, AddSession(t)
  PROVE  LifetimeInv'
<1>0. FlagsOK /\ DataOK /\ SessionOK /\ Threaded
  BY TypeParts DEF LifetimeInv, SessionOK
<1>1. /\ step["connect"] = "add" /\ step' = [step EXCEPT !["connect"] = "register"]
      /\ member' = TRUE /\ UNCHANGED <<runs, connected, closer, registered, queued>>
  BY DEF AddSession, At, Goto, sendVars, Added
<1>2. FlagsOK'
  BY <1>0, <1>1, Zenon DEF FlagsOK
<1>3. DataOK'
  BY <1>0, <1>1 DEF DataOK, Ops, Steps
<1>4. Threaded'
  BY <1>0, <1>1, ThreadsKeep DEF DataOK, Ops
<1>5. HandlersOK' /\ Connecting'
  BY <1>0, <1>1 DEF SessionOK, HandlersOK, Connecting, DataOK, Ops
<1>6. Serving' /\ Releasing'
  BY <1>0, <1>1 DEF SessionOK, HandlersOK, Connecting, Serving, Releasing, DataOK, Ops
<1> QED
  BY <1>1, <1>2, <1>3, <1>4, <1>5, <1>6, TypePartsAfter, HandlerDone DEF SessionOK

(* RegisterRecv, at the end of ProcessConnect or of a read handler.        *)
LEMMA RegisterRecvInv ==
  ASSUME LifetimeInv, NEW t \in IoThreads, runs[t] \in Ops, NEW o \in Ops,
         UNCHANGED <<role, phase, detached, misuse>>, RegisterRecv(t, o)
  PROVE  LifetimeInv'
<1>0. FlagsOK /\ DataOK /\ SessionOK /\ Threaded
  BY TypeParts DEF LifetimeInv, SessionOK
<1>1. /\ runs[t] = o /\ step[o] = "register" /\ runs' = [runs EXCEPT ![t] = "loop"]
      /\ step' = [p \in Ops |-> IF p = "read" /\ connected THEN "pending"
                                ELSE IF p = o THEN "none" ELSE step[p]]
      /\ UNCHANGED <<connected, closer, member, registered, queued>>
  BY DEF RegisterRecv, At, sessionVars, sendVars
<1>2. o \in {"connect", "read"}
  BY <1>0, <1>1 DEF SessionOK, HandlersOK, Ops
<1>3. o = "connect" => step["read"] = "none"
  BY <1>0, <1>1 DEF SessionOK, Connecting
<1>4. /\ step'["write"] = step["write"]
      /\ step'["timer"] = step["timer"]
      /\ step'["connect"] = IF o = "connect" THEN "none" ELSE step["connect"]
      /\ step'["read"] = IF connected THEN "pending" ELSE "none"
  BY <1>1, <1>2, <1>3 DEF Ops
<1>5. FlagsOK'
  BY <1>0, <1>1, Zenon DEF FlagsOK
<1>6. DataOK'
  BY <1>0, <1>1 DEF DataOK, Ops, Steps
<1>7. Threaded'
  BY <1>1, <1>2, <1>3, <1>4, ThreadLeaves DEF Ops
<1>8. HandlersOK' /\ Connecting'
  BY <1>0, <1>1, <1>2, <1>3, <1>4 DEF SessionOK, HandlersOK, Connecting
<1>9. Serving'
  BY <1>0, <1>1, <1>2, <1>3, <1>4 DEF SessionOK, Connecting, Serving
<1>10. Releasing'
  BY <1>0, <1>1, <1>2, <1>3, <1>4 DEF SessionOK, Connecting, Serving, Releasing, Ops
<1> QED
  BY <1>1, <1>5, <1>6, <1>7, <1>8, <1>9, <1>10, TypePartsAfter, HandlerDone DEF SessionOK

(* The client has one thread: while it runs a handler no other is running. *)
LEMMA ClientAlone ==
  ASSUME LifetimeInv, role = "client", NEW t \in IoThreads, runs[t] \in Ops,
         NEW o \in Ops \ {runs[t]}
  PROVE  step[o] \in {"none", "pending"}
<1>1. Threaded
  BY DEF LifetimeInv
<1>2. SUFFICES ASSUME step[o] \notin {"none", "pending"} PROVE FALSE
  OBVIOUS
<1>3. PICK u \in IoThreads : runs[u] = o
  BY <1>1, <1>2 DEF Threaded
<1>4. runs[t] # "unborn" /\ runs[u] # "unborn"
  BY <1>3 DEF Ops
<1> QED
  BY <1>1, <1>3, <1>4 DEF Threaded

(* The read handler dispatches packets, which may send.                    *)
LEMMA ReceiveInv ==
  ASSUME LifetimeInv, NEW t \in IoThreads, runs[t] \in Ops,
         UNCHANGED <<role, phase, detached, misuse>>, Receive(t)
  PROVE  LifetimeInv'
<1>0. FlagsOK /\ DataOK /\ SessionOK /\ Threaded
  BY TypeParts DEF LifetimeInv, SessionOK
<1>1. step["read"] = "receive" /\ UNCHANGED <<runs, connected, closer, member>>
  BY DEF Receive, At, ReceivesOnly, Goto, sessionVars
<1>2. step["connect"] = "none"
  BY <1>0, <1>1 DEF SessionOK, Connecting
<1>3. /\ step' \in [Ops -> Steps] /\ registered' \in BOOLEAN /\ queued' \in BOOLEAN
      /\ step'["connect"] = "none" /\ step'["read"] \in {"register", "disconnect"}
      /\ \/ step'["timer"] = step["timer"]
         \/ role = "client" /\ step'["timer"] = "pending"
      /\ \/ step'["write"] = step["write"]
         \/ step["write"] = "none" /\ step'["write"] = "pending"
      /\ step'["write"] # "none" => registered'
  <2>1. CASE \E s \in {"register", "disconnect"} : Goto("read", s) /\ UNCHANGED sendVars
    <3>1. registered' \in BOOLEAN /\ queued' \in BOOLEAN
      BY <1>0, <2>1, Zenon DEF sendVars, FlagsOK
    <3> QED
      BY <1>0, <1>2, <2>1, <3>1 DEF Goto, sendVars, DataOK, Ops, Steps, SessionOK, HandlersOK
  <2>2. CASE \E ops \in Timed([step EXCEPT !["read"] = "register"]) : Sends(ops)
    <3>0. PICK ops \in Timed([step EXCEPT !["read"] = "register"]) : Sends(ops)
      BY <2>2
    <3>1. /\ ops \in [Ops -> Steps] /\ ops["write"] = step["write"]
          /\ ops["read"] = "register" /\ ops["connect"] = "none"
          /\ \/ ops["timer"] = step["timer"]
             \/ role = "client" /\ ops["timer"] = "pending"
      BY <1>0, <1>2 DEF DataOK, Ops, Steps, Timed
    <3> QED
      BY <3>0, <3>1, SendsEffect
  <2> QED
    BY <2>1, <2>2 DEF Receive, ReceivesOnly
<1>4. FlagsOK'
  BY <1>0, <1>1, <1>3, Zenon DEF FlagsOK
<1>5. DataOK'
  BY <1>0, <1>1, <1>3 DEF DataOK
<1>6. Threaded'
  <2>1. role = "client" => step["timer"] \in {"none", "pending"}
    BY ClientAlone DEF Receive, At, ReceivesOnly, Ops
  <2> QED
    BY <1>0, <1>1, <1>2, <1>3, <2>1, ThreadsKeep DEF Ops
<1>7. HandlersOK' /\ Connecting'
  BY <1>0, <1>1, <1>2, <1>3 DEF SessionOK, HandlersOK, Connecting
<1>8. Serving'
  BY <1>0, <1>1, <1>2, <1>3 DEF SessionOK, Connecting, Serving
<1>9. Releasing'
  BY <1>0, <1>1, <1>2, <1>3 DEF SessionOK, Connecting, Serving, Releasing, Ops
<1> QED
  BY <1>1, <1>4, <1>5, <1>6, <1>7, <1>8, <1>9, TypePartsAfter, HandlerDone DEF SessionOK

(* The timer's handler sends a message of the stress test.                 *)
LEMMA SendStressTestDataInv ==
  ASSUME LifetimeInv, NEW t \in IoThreads, runs[t] \in Ops,
         UNCHANGED <<role, phase, detached, misuse>>, SendStressTestData(t)
  PROVE  LifetimeInv'
<1>0. FlagsOK /\ DataOK /\ SessionOK /\ Threaded
  BY TypeParts DEF LifetimeInv, SessionOK
<1>1. /\ runs[t] = "timer" /\ step["timer"] = "send" /\ runs' = [runs EXCEPT ![t] = "loop"]
      /\ UNCHANGED <<connected, closer, member>>
  BY DEF SendStressTestData, At, sessionVars
<1>2. PICK ops \in Timed([step EXCEPT !["timer"] = "none"]) : Sends(ops)
  BY DEF SendStressTestData
<1>3. /\ ops \in [Ops -> Steps] /\ ops["write"] = step["write"]
      /\ ops["read"] = step["read"] /\ ops["connect"] = step["connect"]
      /\ ops["timer"] \in {"none", "pending"}
  BY <1>0 DEF DataOK, Ops, Steps, Timed
<1>4. /\ step' \in [Ops -> Steps] /\ registered' \in BOOLEAN /\ queued' \in BOOLEAN
      /\ step'["connect"] = step["connect"] /\ step'["read"] = step["read"]
      /\ step'["timer"] \in {"none", "pending"}
      /\ \/ step'["write"] = step["write"]
         \/ step["write"] = "none" /\ step'["write"] = "pending"
      /\ step'["write"] # "none" => registered'
      /\ ~connected => (registered' <=> registered)
  BY <1>2, <1>3, SendsEffect
<1>5. FlagsOK'
  BY <1>0, <1>1, <1>4, Zenon DEF FlagsOK
<1>6. DataOK'
  BY <1>0, <1>1, <1>4 DEF DataOK
<1>7. Threaded'
  BY <1>1, <1>4, ThreadLeaves DEF Ops
<1>8. HandlersOK' /\ Connecting'
  BY <1>0, <1>1, <1>4 DEF SessionOK, HandlersOK, Connecting
<1>9. Serving'
  BY <1>0, <1>1, <1>4 DEF SessionOK, Serving
<1>10. Releasing'
  BY <1>0, <1>1, <1>4 DEF SessionOK, Releasing, Ops
<1> QED
  BY <1>1, <1>5, <1>6, <1>7, <1>8, <1>9, <1>10, TypePartsAfter, HandlerDone DEF SessionOK
(* ProcessSend ends the write handler, or locks _sendLock twice.           *)
LEMMA ProcessSendInv ==
  ASSUME LifetimeInv, NEW t \in IoThreads, runs[t] \in Ops,
         UNCHANGED <<role, phase, detached, misuse>>, ProcessSend(t)
  PROVE  LifetimeInv'
<1>0. FlagsOK /\ DataOK /\ SessionOK /\ Threaded
  BY TypeParts DEF LifetimeInv, SessionOK
<1>1. /\ runs[t] = "write" /\ step["write"] = "sent"
      /\ registered' = (registered /\ (queued \/ ~connected))
      /\ UNCHANGED <<connected, closer, member, queued>>
  BY DEF ProcessSend, At, sessionVars
<1>2. \/ step' = [step EXCEPT !["write"] = "hung"] /\ runs' = runs /\ connected /\ queued
      \/ step' = [step EXCEPT !["write"] = "none"] /\ runs' = [runs EXCEPT ![t] = "loop"]
  BY DEF ProcessSend, Goto, Leave
<1>3. /\ step'["connect"] = step["connect"] /\ step'["read"] = step["read"]
      /\ step'["timer"] = step["timer"]
      /\ step'["write"] \in {"none", "hung"}
      /\ step'["write"] = "hung" => registered'
  BY <1>0, <1>1, <1>2 DEF DataOK, Ops, SessionOK, HandlersOK
<1>4. FlagsOK'
  BY <1>0, <1>1, Zenon DEF FlagsOK
<1>5. DataOK'
  BY <1>0, <1>1, <1>2 DEF DataOK, Ops, Steps
<1>6. Threaded'
  <2>1. CASE step' = [step EXCEPT !["write"] = "hung"] /\ runs' = runs
    BY <1>0, <1>1, <2>1, ThreadsKeep DEF DataOK, Ops
  <2>2. CASE step' = [step EXCEPT !["write"] = "none"] /\ runs' = [runs EXCEPT ![t] = "loop"]
    BY <1>0, <1>1, <2>2, ThreadLeaves DEF DataOK, Ops
  <2> QED
    BY <1>2, <2>1, <2>2
<1>7. HandlersOK' /\ Connecting'
  BY <1>0, <1>1, <1>3 DEF SessionOK, HandlersOK, Connecting
<1>8. Serving' /\ Releasing'
  BY <1>0, <1>1, <1>3 DEF SessionOK, Serving, Releasing, Ops
<1> QED
  BY <1>1, <1>4, <1>5, <1>6, <1>7, <1>8, TypePartsAfter, HandlerDone DEF SessionOK

(* Disconnect by a handler that finds the session disconnected.            *)
LEMMA DisconnectNotFirstInv ==
  ASSUME LifetimeInv, NEW t \in IoThreads, runs[t] \in Ops, NEW o \in Ops,
         UNCHANGED <<role, phase, detached, misuse>>, DisconnectNotFirst(t, o)
  PROVE  LifetimeInv'
<1>0. FlagsOK /\ DataOK /\ SessionOK /\ Threaded
  BY TypeParts DEF LifetimeInv, SessionOK
<1>1. /\ runs[t] = o /\ step[o] = "disconnect" /\ ~connected
      /\ step' = [step EXCEPT ![o] = "none"] /\ runs' = [runs EXCEPT ![t] = "loop"]
      /\ UNCHANGED <<connected, closer, member, registered, queued>>
  BY DEF DisconnectNotFirst, At, Leave, sessionVars, sendVars
<1>2. /\ o \in {"read", "write"} /\ step'[o] = "none"
      /\ \A p \in Ops \ {o} : step'[p] = step[p]
  BY <1>0, <1>1 DEF SessionOK, HandlersOK, DataOK, Ops
<1>3. FlagsOK'
  BY <1>0, <1>1, Zenon DEF FlagsOK
<1>4. DataOK'
  BY <1>0, <1>1 DEF DataOK, Ops, Steps
<1>5. Threaded'
  <2>1. step'[o] \in {"none", "pending"}
    BY <1>2
  <2>2. \A p \in Ops \ {o} :
          step'[p] \in {"none", "pending"} <=> step[p] \in {"none", "pending"}
    BY <1>2
  <2>3. runs[t] = o /\ runs' = [runs EXCEPT ![t] = "loop"] /\ UNCHANGED role
    BY <1>1
  <2> QED
    BY <2>1, <2>2, <2>3, ThreadLeaves
<1>6. HandlersOK' /\ Connecting'
  BY <1>0, <1>1, <1>2 DEF SessionOK, HandlersOK, Connecting, Ops
<1>7. Serving' /\ Releasing'
  BY <1>0, <1>1, <1>2 DEF SessionOK, Connecting, Serving, Releasing, Ops
<1> QED
  BY <1>1, <1>3, <1>4, <1>5, <1>6, <1>7, TypePartsAfter, HandlerDone DEF SessionOK

(* Disconnect by the handler that is first, which will release.            *)
LEMMA DisconnectInv ==
  ASSUME LifetimeInv, NEW t \in IoThreads, runs[t] \in Ops, NEW o \in Ops,
         UNCHANGED <<role, phase, detached, misuse>>, Disconnect(t, o)
  PROVE  LifetimeInv'
<1>0. FlagsOK /\ DataOK /\ SessionOK /\ Threaded
  BY TypeParts DEF LifetimeInv, SessionOK
<1>1. /\ runs[t] = o /\ step[o] = "disconnect" /\ connected /\ closer' = o
      /\ connected' = FALSE /\ step' = [step EXCEPT ![o] = "release"]
      /\ UNCHANGED <<runs, member, registered, queued>>
  BY DEF Disconnect, At, Goto, sendVars
<1>2. /\ o \in {"read", "write"} /\ step'[o] = "release"
      /\ \A p \in Ops \ {o} : step'[p] = step[p]
  BY <1>0, <1>1 DEF SessionOK, HandlersOK, DataOK, Ops, Steps
<1>3. step["connect"] \notin {"store", "add", "register"}
  <2>1. ASSUME step["connect"] \in {"store", "add", "register"} PROVE FALSE
    <3>1. PICK u \in IoThreads : runs[u] = "connect"
      BY <1>0, <2>1 DEF Threaded, Ops
    <3> QED
      BY <1>1, <1>2, <3>1, ConnectAlone
  <2> QED
    BY <2>1
<1>4. step["connect"] = "none" /\ member
  BY <1>0, <1>1, <1>3 DEF SessionOK, HandlersOK, Connecting, Serving
<1>5. FlagsOK'
  BY <1>0, <1>1, Zenon DEF FlagsOK
<1>6. DataOK'
  BY <1>0, <1>1 DEF DataOK, Ops, Steps
<1>7. Threaded'
  BY <1>0, <1>1, <1>2, ThreadsKeep
<1>8. HandlersOK' /\ Connecting'
  BY <1>0, <1>1, <1>2, <1>4 DEF SessionOK, HandlersOK, Connecting, Ops
<1>9. Serving' /\ Releasing'
  BY <1>0, <1>1, <1>2, <1>4 DEF SessionOK, Connecting, Serving, Releasing, Ops
<1> QED
  BY <1>1, <1>5, <1>6, <1>7, <1>8, <1>9, TypePartsAfter, HandlerDone DEF SessionOK

(* ReleaseSession by the handler that disconnected. *)
LEMMA ReleaseSessionInv ==
  ASSUME LifetimeInv, NEW t \in IoThreads, runs[t] \in Ops, NEW o \in Ops,
         UNCHANGED <<role, phase, detached, misuse>>, ReleaseSession(t, o)
  PROVE  LifetimeInv'
<1>0. FlagsOK /\ DataOK /\ SessionOK /\ Threaded
  BY TypeParts DEF LifetimeInv, SessionOK
<1>1. /\ runs[t] = o /\ step[o] = "release" /\ member' = FALSE
      /\ step' = [step EXCEPT ![o] = "none"] /\ runs' = [runs EXCEPT ![t] = "loop"]
      /\ UNCHANGED <<connected, closer, registered, queued>>
  BY DEF ReleaseSession, At, Leave, sendVars, Erased
<1>2. /\ o \in {"read", "write"} /\ step'[o] = "none"
      /\ \A p \in Ops \ {o} : step'[p] = step[p]
  BY <1>0, <1>1 DEF SessionOK, HandlersOK, DataOK, Ops
<1>3. closer = o /\ ~connected
  BY <1>0, <1>1, <1>2 DEF SessionOK, Serving, Releasing
<1>4. \A p \in Ops : step'[p] # "release"
  BY <1>0, <1>2, <1>3 DEF SessionOK, Releasing
<1>5. FlagsOK'
  BY <1>0, <1>1, Zenon DEF FlagsOK
<1>6. DataOK'
  BY <1>0, <1>1 DEF DataOK, Ops, Steps
<1>7. Threaded'
  <2>1. step'[o] \in {"none", "pending"}
    BY <1>2
  <2>2. \A p \in Ops \ {o} :
          step'[p] \in {"none", "pending"} <=> step[p] \in {"none", "pending"}
    BY <1>2
  <2>3. runs[t] = o /\ runs' = [runs EXCEPT ![t] = "loop"] /\ UNCHANGED role
    BY <1>1
  <2> QED
    BY <2>1, <2>2, <2>3, ThreadLeaves
<1>8. HandlersOK' /\ Connecting'
  BY <1>0, <1>1, <1>2, <1>3 DEF SessionOK, HandlersOK, Connecting, Ops
<1>9. Serving' /\ Releasing'
  BY <1>0, <1>1, <1>2, <1>3, <1>4 DEF SessionOK, Connecting, Serving, Releasing, Ops
<1> QED
  BY <1>1, <1>5, <1>6, <1>7, <1>8, <1>9, TypePartsAfter, HandlerDone DEF SessionOK

(* Any step of a handler. *)
LEMMA HandlerInv ==
  ASSUME LifetimeInv, Running, NEW t \in IoThreads, Handler(t)
  PROVE  LifetimeInv'
<1> DEFINE needs == Needs(step[runs[t]])
<1>1. runs[t] \in Ops /\ misuse = {}
  BY DEF Handler, Running
<1>2. needs \subseteq {"session", "service", "context", "globals"}
  BY DEF Needs
<1>3. CASE Misused(runs[t], needs)
  BY <1>1, <1>2, <1>3, HandlerMisuse
<1>4. CASE HandlerStep(t) /\ UNCHANGED <<role, phase, detached, misuse>>
  BY <1>1, <1>4, StoreConnectedInv, AddSessionInv, RegisterRecvInv, ReceiveInv, SendStressTestDataInv,
     ProcessSendInv, DisconnectNotFirstInv, DisconnectInv, ReleaseSessionInv DEF HandlerStep
<1> QED
  BY <1>3, <1>4 DEF Handler
(* ioc.run() takes a completed operation. *)
LEMMA DispatchInv ==
  ASSUME LifetimeInv, NEW t \in IoThreads, NEW o \in Ops, Dispatch(t, o)
  PROVE  LifetimeInv'
<1>0. FlagsOK /\ DataOK /\ SessionOK /\ TakenDown /\ OnlyDetachedLate
  BY TypeParts DEF LifetimeInv, SessionOK
<1>1. /\ runs[t] = "loop" /\ NotStopped /\ step[o] = "pending"
      /\ runs' = [runs EXCEPT ![t] = o]
      /\ UNCHANGED <<role, phase, connected, closer, member, registered, queued, detached, misuse>>
  BY DEF Dispatch, Looping, sessionVars, sendVars
<1>2. PICK s \in Outcomes(o) : step' = [step EXCEPT ![o] = s]
  BY DEF Dispatch
<1>3. /\ s \in {"store", "receive", "sent", "send", "disconnect"}
      /\ o = "connect" => s = "store"
      /\ o = "read" => s \in {"receive", "disconnect"}
      /\ o = "write" => s \in {"sent", "disconnect"}
      /\ o = "timer" => s = "send"
  BY DEF Outcomes, Ops
<1>4. step'[o] = s /\ \A p \in Ops \ {o} : step'[p] = step[p]
  BY <1>0, <1>2 DEF DataOK
<1>5. FlagsOK'
  BY <1>0, <1>1, Zenon DEF FlagsOK
<1>6. DataOK'
  BY <1>0, <1>1, <1>2, <1>3 DEF DataOK, Steps
<1>7. Threaded'
  BY <1>1, <1>3, <1>4, ThreadTakes
<1>8. HandlersOK' /\ Connecting'
  BY <1>0, <1>1, <1>3, <1>4 DEF SessionOK, HandlersOK, Connecting, Ops
<1>9. Serving' /\ Releasing'
  BY <1>0, <1>1, <1>3, <1>4 DEF SessionOK, Connecting, Serving, Releasing, Ops
<1>10. TakenDown' /\ OnlyDetachedLate'
  BY <1>0, <1>1 DEF TakenDown, OnlyDetachedLate, ServiceExists, NotStopped
<1> QED
  BY <1>5, <1>6, <1>7, <1>8, <1>9, <1>10, TypePartsAfter DEF LifetimeInv

(* A handler that does nothing. *)
LEMMA IgnoredInv ==
  ASSUME LifetimeInv, NEW t \in IoThreads, NEW o \in Ops, Ignored(t, o)
  PROVE  LifetimeInv'
<1>0. FlagsOK /\ DataOK /\ SessionOK /\ Threaded /\ TakenDown /\ OnlyDetachedLate
  BY TypeParts DEF LifetimeInv, SessionOK
<1>1. /\ NotStopped /\ step[o] = "pending" /\ o # "read"
      /\ step' = [step EXCEPT ![o] = "none"]
      /\ UNCHANGED <<role, phase, runs, connected, closer, member, registered, queued, detached, misuse>>
  BY DEF Ignored, Looping, sessionVars, sendVars
<1>2. step'[o] = "none" /\ \A p \in Ops \ {o} : step'[p] = step[p]
  BY <1>0, <1>1 DEF DataOK
<1>3. FlagsOK'
  BY <1>0, <1>1, Zenon DEF FlagsOK
<1>4. DataOK'
  BY <1>0, <1>1 DEF DataOK, Steps
<1>5. Threaded'
  BY <1>0, <1>1, <1>2, ThreadsKeep
<1>6. HandlersOK' /\ Connecting'
  BY <1>0, <1>1, <1>2 DEF SessionOK, HandlersOK, Connecting, Ops
<1>7. Serving' /\ Releasing'
  BY <1>0, <1>1, <1>2 DEF SessionOK, Connecting, Serving, Releasing, Ops
<1>8. TakenDown' /\ OnlyDetachedLate'
  BY <1>0, <1>1 DEF TakenDown, OnlyDetachedLate, ServiceExists, NotStopped
<1> QED
  BY <1>3, <1>4, <1>5, <1>6, <1>7, <1>8, TypePartsAfter DEF LifetimeInv

(* Threads start and end. *)
LEMMA ThreadInv ==
  ASSUME LifetimeInv, NEW t \in IoThreads, Launch(t) \/ RunReturns(t)
  PROVE  LifetimeInv'
<1>0. FlagsOK /\ DataOK /\ SessionOK /\ Threaded /\ TakenDown /\ OnlyDetachedLate
  BY TypeParts DEF LifetimeInv, SessionOK
<1>1. /\ phase \in {"launch", "serving", "sending", "stopped"}
      /\ \/ runs[t] = "unborn" /\ ~AllLaunched /\ runs' = [runs EXCEPT ![t] = "loop"]
         \/ runs[t] = "loop" /\ runs' = [runs EXCEPT ![t] = "ended"]
      /\ UNCHANGED <<role, phase, step, connected, closer, member, registered, queued, detached, misuse>>
  BY DEF Launch, RunReturns, Stopped, NotStopped, sessionVars, sendVars
<1>2. FlagsOK'
  BY <1>0, <1>1, Zenon DEF FlagsOK
<1>3. DataOK'
  BY <1>0, <1>1 DEF DataOK
<1>4. /\ "loop" \notin Ops /\ "ended" \notin Ops /\ "unborn" \notin Ops
  BY DEF Ops
<1>5. /\ runs[t] \notin Ops
      /\ runs[t] # "unborn" \/ ~AllLaunched
  BY <1>1, <1>4
<1>6. Threaded'
  <2>0. runs \in [IoThreads -> {"unborn", "loop", "ended"} \cup Ops]
    BY <1>0 DEF DataOK
  <2>1. runs'[t] \notin Ops /\ \A u \in IoThreads \ {t} : runs'[u] = runs[u]
    BY <1>1, <1>4, <2>0
  <2>2. \A u \in IoThreads : runs'[u] \in Ops => runs[u] = runs'[u]
    BY <2>1
  <2>3. \A o \in Ops : \A u \in IoThreads : runs[u] = o => runs'[u] = o
    BY <1>5, <2>1
  <2>4. role = "client" =>
          \A u, v \in IoThreads : runs'[u] # "unborn" /\ runs'[v] # "unborn" => u = v
    <3>1. CASE runs[t] # "unborn"
      BY <1>0, <2>1, <3>1 DEF Threaded
    <3>2. CASE ~AllLaunched
      BY <2>1, <3>2 DEF AllLaunched
    <3> QED
      BY <1>5, <3>1, <3>2
  <2> QED
    BY <1>0, <1>1, <2>2, <2>3, <2>4 DEF Threaded
<1>7. HandlersOK' /\ Connecting' /\ Serving' /\ Releasing'
  BY <1>0, <1>1 DEF SessionOK, HandlersOK, Connecting, Serving, Releasing
<1>8. TakenDown' /\ OnlyDetachedLate'
  BY <1>0, <1>1 DEF TakenDown, OnlyDetachedLate, ServiceExists
<1> QED
  BY <1>2, <1>3, <1>6, <1>7, <1>8, TypePartsAfter DEF LifetimeInv

(* The first accept or connect begins. *)
LEMMA StartInv ==
  ASSUME LifetimeInv, Start
  PROVE  LifetimeInv'
<1>0. FlagsOK /\ DataOK /\ SessionOK /\ Threaded /\ TakenDown /\ OnlyDetachedLate
  BY TypeParts DEF LifetimeInv, SessionOK
<1>1. /\ phase = "start" /\ phase' = "launch" /\ step' = [step EXCEPT !["connect"] = "pending"]
      /\ UNCHANGED <<role, runs, connected, closer, member, registered, queued, detached, misuse>>
  BY DEF Start, sessionVars, sendVars
<1>2. /\ ~registered /\ ~connected /\ ~member /\ closer = "nobody"
      /\ \A o \in Ops : step[o] = "none"
  BY <1>0, <1>1 DEF TakenDown
<1>3. /\ step'["connect"] = "pending" /\ step'["read"] = "none" /\ step'["write"] = "none"
      /\ step'["timer"] = "none"
  BY <1>0, <1>1, <1>2 DEF DataOK, Ops
<1>4. FlagsOK'
  BY <1>0, <1>1, Zenon DEF FlagsOK
<1>5. DataOK'
  BY <1>0, <1>1 DEF DataOK, Steps, Phases
<1>6. Threaded'
  BY <1>0, <1>1, <1>2, <1>3, ThreadsKeep DEF Ops
<1>7. HandlersOK' /\ Connecting'
  BY <1>0, <1>1, <1>2, <1>3 DEF SessionOK, HandlersOK, Connecting
<1>8. Serving' /\ Releasing'
  BY <1>0, <1>1, <1>2, <1>3 DEF SessionOK, Serving, Releasing, Ops
<1>9. TakenDown' /\ OnlyDetachedLate'
  BY <1>0, <1>1, <1>2 DEF TakenDown, OnlyDetachedLate
<1> QED
  BY <1>4, <1>5, <1>6, <1>7, <1>8, <1>9, TypePartsAfter DEF LifetimeInv

(* What the client's threads other than the io thread send.                *)
LEMMA SenderInv ==
  ASSUME LifetimeInv, Sends(step) \/ NothingSent, role = "client",
         UNCHANGED <<role, runs, connected, closer, member, misuse>>,
         phase' = phase \/ {phase, phase'} \subseteq {"serving", "sending"},
         detached' \in 0 .. MaxDetached
  PROVE  LifetimeInv'
<1>0. FlagsOK /\ DataOK /\ SessionOK /\ Threaded /\ TakenDown /\ OnlyDetachedLate
  BY TypeParts DEF LifetimeInv, SessionOK
<1>1. /\ step' \in [Ops -> Steps] /\ registered' \in BOOLEAN /\ queued' \in BOOLEAN
      /\ step'["connect"] = step["connect"] /\ step'["read"] = step["read"]
      /\ step'["timer"] = step["timer"]
      /\ \/ step'["write"] = step["write"]
         \/ step["write"] = "none" /\ step'["write"] = "pending"
      /\ step'["write"] # "none" => registered'
      /\ ~connected => (registered' <=> registered)
  <2>1. CASE Sends(step)
    BY <1>0, <2>1, SendsEffect DEF DataOK
  <2>2. CASE NothingSent
    <3>1. step' = step /\ registered' = registered /\ queued' = queued
      BY <2>2 DEF NothingSent, sendVars
    <3>2. registered' \in BOOLEAN /\ queued' \in BOOLEAN /\ (step["write"] # "none" => registered)
      BY <1>0, <3>1, Zenon DEF FlagsOK, SessionOK, HandlersOK
    <3> QED
      BY <1>0, <3>1, <3>2 DEF DataOK
  <2> QED
    BY <2>1, <2>2
<1>2. FlagsOK'
  BY <1>0, <1>1, Zenon DEF FlagsOK
<1>3. DataOK'
  BY <1>0, <1>1 DEF DataOK, Phases
<1>4. Threaded'
  BY <1>0, <1>1, ThreadsKeep DEF Ops
<1>5. HandlersOK' /\ Connecting'
  BY <1>0, <1>1 DEF SessionOK, HandlersOK, Connecting
<1>6. Serving' /\ Releasing'
  BY <1>0, <1>1 DEF SessionOK, Serving, Releasing, Ops
<1>7. TakenDown' /\ OnlyDetachedLate'
  BY <1>0, <1>1 DEF TakenDown, OnlyDetachedLate, ServiceExists, Ops
<1> QED
  BY <1>2, <1>3, <1>4, <1>5, <1>6, <1>7, TypePartsAfter DEF LifetimeInv

(* Detached threads exist in the client only, once it serves commands.     *)
LEMMA ClientStepInv ==
  ASSUME LifetimeInv, SendCommand \/ SendFile \/ FirstChunk \/ NextChunk \/ LastChunk
  PROVE  LifetimeInv'
<1>0. DataOK /\ HandlersOK /\ TakenDown
  BY TypeParts DEF LifetimeInv
<1>1. detached \in Nat /\ MaxDetached \in Nat /\ detached <= MaxDetached
  BY <1>0, LifetimeAssumption DEF DataOK
<1>2. /\ Sends(step) \/ NothingSent
      /\ UNCHANGED <<role, runs, connected, closer, member, misuse>>
      /\ phase' = phase \/ {phase, phase'} \subseteq {"serving", "sending"}
      /\ detached' \in 0 .. MaxDetached
  BY <1>1 DEF SendCommand, SendFile, FirstChunk, NextChunk, LastChunk, Commands, sessionVars
<1>3. detached > 0 \/ phase = "sending" \/ (phase = "serving" /\ role = "client")
  BY DEF SendCommand, SendFile, FirstChunk, NextChunk, LastChunk, Commands
<1>4. role = "client"
  BY <1>0, <1>1, <1>3 DEF DataOK, HandlersOK, TakenDown
<1> QED
  BY <1>2, <1>4, SenderInv
(* The last thing a detached thread may do: use what main destroyed.       *)
LEMMA DetachedMisusesInv ==
  ASSUME LifetimeInv, misuse = {}, DetachedMisuses
  PROVE  LifetimeInv'
<1>0. FlagsOK /\ DataOK /\ SessionOK /\ Threaded /\ TakenDown
  BY TypeParts DEF LifetimeInv, SessionOK
<1> DEFINE needs == {"globals"} \cup (IF LastReference THEN {"context"} ELSE {})
<1>1. /\ misuse' = misuse \cup ({"detached"} \X Missing(needs))
      /\ UNCHANGED <<role, phase, runs, step, connected, closer, member, registered, queued, detached>>
  BY DEF DetachedMisuses, Misused, sessionVars, sendVars
<1>2. Missing(needs) \subseteq {"context", "globals"}
  BY DEF Missing
<1> HIDE DEF needs
<1>3. misuse' \subseteq {"detached"} \X {"context", "globals"}
  BY <1>1, <1>2
<1>4. OnlyDetachedLate'
  BY <1>3 DEF OnlyDetachedLate
<1>5. FlagsOK'
  BY <1>0, <1>1, Zenon DEF FlagsOK
<1>6. DataOK'
  <2>1. misuse' \subseteq (Ops \cup {"detached"}) \X {"session", "service", "context", "globals"}
    BY <1>3
  <2> QED
    BY <1>0, <1>1, <2>1 DEF DataOK
<1>7. /\ Threaded' /\ HandlersOK' /\ Connecting' /\ Serving' /\ Releasing' /\ TakenDown'
  BY <1>0, <1>1 DEF Threaded, SessionOK, HandlersOK, Connecting, Serving, Releasing, TakenDown,
     ServiceExists
<1> QED
  BY <1>4, <1>5, <1>6, <1>7, TypePartsAfter DEF LifetimeInv

(* main's steps that only move on: the thread that serves, ioc.stop, Join, *)
(* and what comes after the destruction of the service.                    *)
LEMMA MainMovesInv ==
  ASSUME LifetimeInv,
         Launched \/ Quit \/ Join \/ DropSession \/ DeleteGlobals \/ Exit
  PROVE  LifetimeInv'
<1>0. FlagsOK /\ DataOK /\ SessionOK /\ Threaded /\ TakenDown /\ OnlyDetachedLate
  BY TypeParts DEF LifetimeInv, SessionOK
<1>1. /\ \/ phase = "launch" /\ phase' = "serving"
         \/ phase = "serving" /\ phase' = "stopped"
         \/ phase = "stopped" /\ phase' = "joined" /\ Joined
         \/ phase = "serviceGone" /\ phase' = "released"
         \/ phase = "contextGone" /\ phase' = "globalsGone"
         \/ phase = "globalsGone" /\ phase' = "exited"
      /\ UNCHANGED <<role, runs, step, connected, closer, member, registered, queued, detached, misuse>>
  BY DEF Launched, Quit, Join, DropSession, DeleteGlobals, Exit, Moves, sessionVars, sendVars
<1>2. FlagsOK'
  BY <1>0, <1>1, Zenon DEF FlagsOK
<1>3. DataOK'
  BY <1>0, <1>1 DEF DataOK, Phases
<1>4. Threaded' /\ HandlersOK' /\ Connecting' /\ Serving' /\ Releasing'
  BY <1>0, <1>1 DEF Threaded, SessionOK, HandlersOK, Connecting, Serving, Releasing
<1>5. TakenDown' /\ OnlyDetachedLate'
  BY <1>0, <1>1 DEF TakenDown, OnlyDetachedLate, ServiceExists, Joined
<1> QED
  BY <1>2, <1>3, <1>4, <1>5, TypePartsAfter DEF LifetimeInv

(* Once main has joined, every operation is pending or none.               *)
LEMMA JoinedQuiet ==
  ASSUME LifetimeInv, phase \notin {"start", "launch", "serving", "sending", "stopped"}
  PROVE  \A o \in Ops : step[o] \in {"none", "pending"}
BY DEF LifetimeInv, TakenDown, Threaded, Ops

(* The service's destructor disconnects a session that is connected. *)
LEMMA DestroyServiceInv ==
  ASSUME LifetimeInv, DestroyService
  PROVE  LifetimeInv'
<1>0. FlagsOK /\ DataOK /\ SessionOK /\ Threaded /\ TakenDown /\ OnlyDetachedLate
  BY TypeParts DEF LifetimeInv, SessionOK
<1>1. /\ phase = "joined" /\ phase' = "serviceGone" /\ member' = FALSE
      /\ connected' = (connected /\ ~(member /\ connected))
      /\ closer' = IF member /\ connected THEN "service" ELSE closer
      /\ UNCHANGED <<role, runs, step, registered, queued, detached, misuse>>
  BY DEF DestroyService, Moves, Disconnects, sendVars
<1>2. \A o \in Ops : step[o] \in {"none", "pending"}
  BY <1>1, JoinedQuiet
<1>3. connected => member
  BY <1>0, <1>2 DEF SessionOK, Serving, Ops
<1>4. ~connected' /\ (connected => closer' = "service") /\ (~connected => closer' = closer)
  BY <1>1, <1>3
<1>5. FlagsOK'
  BY <1>0, <1>1, Zenon DEF FlagsOK
<1>6. DataOK'
  BY <1>0, <1>1 DEF DataOK, Phases
<1>7. Threaded' /\ HandlersOK'
  BY <1>0, <1>1 DEF Threaded, SessionOK, HandlersOK
<1>8. Connecting' /\ Serving' /\ Releasing'
  BY <1>0, <1>1, <1>2, <1>4 DEF SessionOK, Connecting, Serving, Releasing, Ops
<1>9. TakenDown' /\ OnlyDetachedLate'
  BY <1>0, <1>1, <1>4 DEF TakenDown, OnlyDetachedLate, ServiceExists
<1> QED
  BY <1>5, <1>6, <1>7, <1>8, <1>9, TypePartsAfter DEF LifetimeInv

(* The io_context destroys the operations that were pending. *)
LEMMA DestroyContextInv ==
  ASSUME LifetimeInv, DestroyContext
  PROVE  LifetimeInv'
<1>0. FlagsOK /\ DataOK /\ SessionOK /\ Threaded /\ TakenDown /\ OnlyDetachedLate
  BY TypeParts DEF LifetimeInv, SessionOK
<1>1. /\ phase \in {"released", "serviceGone"} /\ phase' = "contextGone"
      /\ step' = [o \in Ops |-> "none"]
      /\ UNCHANGED <<role, runs, connected, closer, member, registered, queued, detached, misuse>>
  BY DEF DestroyContext, Moves, sessionVars, sendVars
<1>2. /\ \A o \in Ops : step'[o] = "none"
      /\ \A t \in IoThreads : runs[t] \notin Ops
      /\ ~connected /\ ~member
  BY <1>0, <1>1 DEF TakenDown, ServiceExists, Ops
<1>3. FlagsOK'
  BY <1>0, <1>1, Zenon DEF FlagsOK
<1>4. DataOK'
  BY <1>0, <1>1 DEF DataOK, Phases, Steps
<1>5. Threaded'
  BY <1>0, <1>1, <1>2 DEF Threaded
<1>6. HandlersOK' /\ Connecting' /\ Serving' /\ Releasing'
  BY <1>0, <1>1, <1>2 DEF SessionOK, HandlersOK, Connecting, Serving, Releasing, Ops
<1>7. TakenDown' /\ OnlyDetachedLate'
  BY <1>0, <1>1, <1>2 DEF TakenDown, OnlyDetachedLate, ServiceExists
<1> QED
  BY <1>3, <1>4, <1>5, <1>6, <1>7, TypePartsAfter DEF LifetimeInv

(* Every step. *)
LEMMA StepLifetimeInv == LifetimeInv /\ [Next]_vars => LifetimeInv'
<1> SUFFICES ASSUME LifetimeInv, [Next]_vars PROVE LifetimeInv'
  OBVIOUS
<1>1. ASSUME NEW t \in IoThreads, Running, Handler(t) PROVE LifetimeInv'
  BY <1>1, HandlerInv
<1>2. ASSUME NEW t \in IoThreads, Launch(t) \/ RunReturns(t) PROVE LifetimeInv'
  BY <1>2, ThreadInv
<1>3. ASSUME NEW t \in IoThreads, NEW o \in Ops, Dispatch(t, o) \/ Ignored(t, o) PROVE LifetimeInv'
  BY <1>3, DispatchInv, IgnoredInv
<1>4. CASE Start
  BY <1>4, StartInv
<1>5. CASE Launched \/ Quit \/ Join \/ DropSession \/ DeleteGlobals \/ Exit
  BY <1>5, MainMovesInv
<1>6. CASE DestroyService \/ DestroyContext
  BY <1>6, DestroyServiceInv, DestroyContextInv
<1>7. CASE SendCommand \/ SendFile \/ FirstChunk \/ NextChunk \/ LastChunk
  BY <1>7, ClientStepInv
<1>8. CASE Running /\ DetachedMisuses
  BY <1>8, DetachedMisusesInv DEF Running
<1>9. CASE UNCHANGED vars
  <2>1. UNCHANGED <<role, phase, runs, step, connected, closer, member, registered, queued,
                    detached, misuse>>
    BY <1>9 DEF vars, sessionVars, sendVars
  <2>2. FlagsOK /\ DataOK
    BY TypeParts DEF LifetimeInv
  <2>3. FlagsOK'
    BY <2>1, <2>2, Zenon DEF FlagsOK
  <2>4. DataOK'
    BY <2>1, <2>2 DEF DataOK
  <2> QED
    BY <2>1, <2>3, <2>4, TypePartsAfter DEF LifetimeInv, Threaded, HandlersOK, Connecting,
      Serving, Releasing, TakenDown, OnlyDetachedLate, ServiceExists
<1> QED
  BY <1>1, <1>2, <1>3, <1>4, <1>5, <1>6, <1>7, <1>8, <1>9 DEF Next, StartUp, TakeDown

(* The inductive invariant: which operations may be under way, who closed  *)
(* and who will release the session, and how far main is (Session.cpp,     *)
(* Service.cpp:18-58, client.cpp:448-478, server.cpp:519-523).             *)
THEOREM LifetimeInvariant == Spec => []LifetimeInv
BY InitLifetimeInv, StepLifetimeInv, PTL DEF Spec

(* Whoever drops the last reference to a session, it was disconnected      *)
(* before (Session.cpp:13-16).                                             *)
THEOREM NeverDestroyedConnected == Spec => []DestroyedDisconnected
<1>1. LifetimeInv => DestroyedDisconnected
  <2> SUFFICES ASSUME LifetimeInv, connected PROVE Alive
    BY DEF DestroyedDisconnected
  <2>1. member \/ step["connect"] = "add"
    BY DEF LifetimeInv, Serving
  <2>2. ServiceExists
    BY DEF LifetimeInv, TakenDown
  <2>3. role \in {"server", "client"}
    BY DEF LifetimeInv, TypeOK
  <2>4. "set" \in Owners \/ "accept" \in Owners \/ "main" \in Owners
    BY <2>1, <2>2, <2>3 DEF Owners, Kept
  <2> QED
    BY <2>4 DEF Alive
<1> QED
  BY <1>1, LifetimeInvariant, PTL

(* A read handler the io_context may run finds its session alive, unless   *)
(* the write handler disconnected it (Session.cpp:116-146).                *)
THEOREM ReadFindsSession == Spec => []ReadHandlerOwned
<1>1. LifetimeInv => ReadHandlerOwned
  <2> SUFFICES ASSUME LifetimeInv, ServiceExists, step["read"] # "none", ~Alive, closer # "write"
               PROVE  FALSE
    BY DEF ReadHandlerOwned
  <2>1. ~member
    BY DEF Alive, Owners
  <2>2. step["connect"] = "none"
    BY DEF LifetimeInv, Connecting
  <2>3. ~connected
    BY <2>1, <2>2 DEF LifetimeInv, Serving
  <2>4. closer # "nobody" /\ closer # "service"
    BY <2>3 DEF LifetimeInv, Serving, TakenDown
  <2>5. closer = "read" /\ step["read"] = "release"
    BY <2>4 DEF LifetimeInv, Releasing
  <2>6. member
    BY <2>5 DEF LifetimeInv, Releasing, Ops
  <2> QED
    BY <2>1, <2>6
<1> QED
  BY <1>1, LifetimeInvariant, PTL

(* Only a detached thread uses the globals or the io_context after main    *)
(* destroyed them, and nobody the service (client.cpp:474-478).            *)
THEOREM OnlyDetachedTooLate == Spec => []OnlyDetachedLate
<1>1. LifetimeInv => OnlyDetachedLate
  BY DEF LifetimeInv
<1> QED
  BY <1>1, LifetimeInvariant, PTL
==============================================================================

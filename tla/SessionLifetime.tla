-------------------------- MODULE SessionLifetime --------------------------
(***************************************************************************)
(* One session in the process that runs it, from main's service->Start()   *)
(* to the end of the process: who keeps the object alive, which handlers   *)
(* reach it, and the order in which main takes everything down.            *)
(*                                                                         *)
(* In the server the session belongs to the accept operation, then to the  *)
(* service's set; in the client main keeps it.  A write operation holds it *)
(* by shared_from_this, a thread that continues a file transfer holds it,  *)
(* but a read (and the client's connect and timer) only captures this.     *)
(* Using an object that is gone is undefined behaviour: the model records  *)
(* it in misuse and stops there.                                           *)
(***************************************************************************)
EXTENDS Naturals, FiniteSets

CONSTANTS
  IoThreads,    (* threads the server launches to run the io_context        *)
  MaxDetached   (* bound: file transfers under way at once in the client    *)

ASSUME LifetimeAssumption ==
  IsFiniteSet(IoThreads) /\ IoThreads # {} /\ MaxDetached \in Nat

VARIABLES
  role,        (* the process: "server" or "client"                         *)
  phase,       (* how far main is                                           *)
  runs,        (* per thread: its place in ioc.run() or the operation whose *)
               (* handler it runs                                           *)
  step,        (* per operation: none, pending, or where its handler is     *)
  connected,   (* _connected                                                *)
  closer,      (* history: whose Disconnect closed the socket               *)
  member,      (* the session is in _sessions                               *)
  registered,  (* _sendRegistered                                           *)
  queued,      (* _sendQueue holds a buffer                                 *)
  detached,    (* detached threads of FileTransfer.cpp:378                  *)
  misuse       (* who used which object after it was destroyed              *)

sessionVars == <<connected, closer, member>>
sendVars == <<registered, queued>>
vars == <<role, phase, runs, step, sessionVars, sendVars, detached, misuse>>

(* "connect" is the server's accept as well, "timer" the wait of a stress  *)
(* test in the client.                                                     *)
Ops == {"connect", "read", "write", "timer"}

Phases == {"start", "launch", "serving", "sending", "stopped", "joined", "serviceGone",
           "released", "contextGone", "globalsGone", "exited"}

Steps == {"none", "pending", "store", "add", "receive", "register", "sent", "send",
          "disconnect", "release", "hung"}

TypeOK ==
  /\ role \in {"server", "client"} /\ phase \in Phases
  /\ runs \in [IoThreads -> {"unborn", "loop", "ended"} \cup Ops]
  /\ step \in [Ops -> Steps]
  /\ connected \in BOOLEAN /\ member \in BOOLEAN
  /\ closer \in {"nobody", "service"} \cup Ops
  /\ registered \in BOOLEAN /\ queued \in BOOLEAN
  /\ detached \in 0 .. MaxDetached
  /\ misuse \subseteq (Ops \cup {"detached"}) \X {"session", "service", "context", "globals"}

Init ==
  /\ role \in {"server", "client"} /\ phase = "start"
  /\ runs = [t \in IoThreads |-> "unborn"]
  /\ step = [o \in Ops |-> "none"]
  /\ connected = FALSE /\ closer = "nobody" /\ member = FALSE
  /\ registered = FALSE /\ queued = FALSE
  /\ detached = 0 /\ misuse = {}

(* The objects, and the strong references to the session.                  *)
ServiceExists == phase \in {"start", "launch", "serving", "sending", "stopped", "joined"}

ContextExists == ServiceExists \/ phase \in {"serviceGone", "released"}

GlobalsExist == ContextExists \/ phase = "contextGone"

Kept == role = "client" /\ (ServiceExists \/ phase = "serviceGone")

Owners ==
  {w \in {"main", "accept", "set", "write", "detached"} :
     \/ w = "main" /\ Kept
     \/ w = "accept" /\ role = "server" /\ step["connect"] # "none"
     \/ w = "set" /\ member
     \/ w = "write" /\ step["write"] # "none"
     \/ w = "detached" /\ detached > 0}

Alive == Owners # {}

Exists(object) ==
  CASE object = "session" -> Alive
    [] object = "service" -> ServiceExists
    [] object = "context" -> ContextExists
    [] object = "globals" -> GlobalsExist

Missing(needs) == {object \in needs : ~Exists(object)}

Running == misuse = {} /\ phase # "exited"

Misused(who, needs) ==
  /\ Missing(needs) # {}
  /\ misuse' = misuse \cup ({who} \X Missing(needs))
  /\ UNCHANGED <<role, phase, runs, step, sessionVars, sendVars, detached>>

(***************************************************************************)
(* main, up to the loop that reads commands.                               *)
(***************************************************************************)
(* ServerService::Start accepts, ClientService::Start connects.            *)
Start ==
  /\ phase = "start"
  /\ phase' = "launch"
  /\ step' = [step EXCEPT !["connect"] = "pending"]
  /\ UNCHANGED <<role, runs, sessionVars, sendVars, detached, misuse>>

(* Four threads in the server, one in the client.                          *)
AllLaunched ==
  IF role = "server" THEN \A t \in IoThreads : runs[t] # "unborn"
                     ELSE \E t \in IoThreads : runs[t] # "unborn"

Launch(t) ==
  /\ phase = "launch" /\ ~AllLaunched
  /\ runs[t] = "unborn"
  /\ runs' = [runs EXCEPT ![t] = "loop"]
  /\ UNCHANGED <<role, phase, step, sessionVars, sendVars, detached, misuse>>

Launched ==
  /\ phase = "launch" /\ AllLaunched
  /\ phase' = "serving"
  /\ UNCHANGED <<role, runs, step, sessionVars, sendVars, detached, misuse>>

(***************************************************************************)
(* ioc.run(): a thread takes a completed operation and runs its handler,   *)
(* until the context is stopped or, in the client, nothing is outstanding  *)
(* (the server has its other sessions).                                    *)
(***************************************************************************)
NotStopped == phase \in {"launch", "serving", "sending"}

Looping(t) == runs[t] = "loop" /\ NotStopped

Outcomes(o) ==
  CASE o = "connect" -> {"store"}
    [] o = "read" -> {"receive", "disconnect"}
    [] o = "write" -> {"sent", "disconnect"}
    [] o = "timer" -> {"send"}

Dispatch(t, o) ==
  /\ Looping(t) /\ step[o] = "pending"
  /\ runs' = [runs EXCEPT ![t] = o]
  /\ \E s \in Outcomes(o) : step' = [step EXCEPT ![o] = s]
  /\ UNCHANGED <<role, phase, sessionVars, sendVars, detached, misuse>>

(* Handlers that do nothing: a refused or failed connection, whose         *)
(* Disconnect finds the session not connected, a write error that          *)
(* HandleError ignores, and a timer cancelled or whose test is over.       *)
Ignored(t, o) ==
  /\ Looping(t) /\ step[o] = "pending" /\ o # "read"
  /\ step' = [step EXCEPT ![o] = "none"]
  /\ UNCHANGED <<role, phase, runs, sessionVars, sendVars, detached, misuse>>

OutOfWork == role = "client" /\ \A o \in Ops : step[o] = "none"

NeverStopped == FALSE                          \* mutant: without ioc.stop()
Stopped == phase = "stopped"

RunReturns(t) ==
  /\ runs[t] = "loop"
  /\ Stopped \/ (OutOfWork /\ NotStopped)
  /\ runs' = [runs EXCEPT ![t] = "ended"]
  /\ UNCHANGED <<role, phase, step, sessionVars, sendVars, detached, misuse>>

(***************************************************************************)
(* The handlers' steps.                                                    *)
(***************************************************************************)
At(t, o, s) == runs[t] = o /\ step[o] = s

Goto(o, s) == step' = [step EXCEPT ![o] = s] /\ UNCHANGED runs

Leave(t, o) ==
  /\ step' = [step EXCEPT ![o] = "none"]
  /\ runs' = [runs EXCEPT ![t] = "loop"]

(* ProcessConnect: _connected, AddSession, then RegisterRecv.              *)
StoreConnected(t) ==
  /\ At(t, "connect", "store")
  /\ connected' = TRUE
  /\ Goto("connect", "add")
  /\ UNCHANGED <<closer, member, sendVars>>

AddedNowhere == FALSE                          \* mutant: only the count changes
Added == TRUE

AddSession(t) ==
  /\ At(t, "connect", "add")
  /\ member' = Added
  /\ Goto("connect", "register")
  /\ UNCHANGED <<connected, closer, sendVars>>

RegisterRecv(t, o) ==
  /\ At(t, o, "register")
  /\ runs' = [runs EXCEPT ![t] = "loop"]
  /\ step' = [p \in Ops |-> IF p = "read" /\ connected THEN "pending"
                            ELSE IF p = o THEN "none" ELSE step[p]]
  /\ UNCHANGED <<sessionVars, sendVars>>

(* Send, in one step (SessionSend has its interleavings): the first caller *)
(* starts a write, the others queue.  _sendLock is never released once a   *)
(* write handler locked it twice.                                          *)
Sends(ops) ==
  /\ connected => step["write"] # "hung"
  /\ queued' = (queued \/ (connected /\ registered))
  /\ registered' = (registered \/ connected)
  /\ step' = IF connected /\ ~registered THEN [ops EXCEPT !["write"] = "pending"] ELSE ops

ReceivesOnly(t) == Goto("read", "register") /\ UNCHANGED sendVars

(* SendStressTestData sends a message and may set the timer (again).       *)
Timed(ops) ==
  {ops} \cup (IF role = "client" THEN {[ops EXCEPT !["timer"] = "pending"]} ELSE {})

Receive(t) ==
  /\ At(t, "read", "receive")
  /\ \/ ReceivesOnly(t)
     \/ /\ \E ops \in Timed([step EXCEPT !["read"] = "register"]) : Sends(ops)
        /\ UNCHANGED runs
     \/ Goto("read", "disconnect") /\ UNCHANGED sendVars
  /\ UNCHANGED sessionVars

SendStressTestData(t) ==
  /\ At(t, "timer", "send")
  /\ \E ops \in Timed([step EXCEPT !["timer"] = "none"]) : Sends(ops)
  /\ runs' = [runs EXCEPT ![t] = "loop"]
  /\ UNCHANGED sessionVars

ProcessSend(t) ==
  /\ At(t, "write", "sent")
  /\ IF connected /\ queued THEN Goto("write", "hung") ELSE Leave(t, "write")
  /\ registered' = (registered /\ (queued \/ ~connected))
  /\ UNCHANGED <<sessionVars, queued>>

DisconnectNotFirst(t, o) ==
  /\ At(t, o, "disconnect") /\ ~connected
  /\ Leave(t, o)
  /\ UNCHANGED <<sessionVars, sendVars>>

Disconnect(t, o) ==
  /\ At(t, o, "disconnect") /\ connected
  /\ connected' = FALSE /\ closer' = o
  /\ Goto(o, "release")
  /\ UNCHANGED <<member, sendVars>>

NotErased == member                            \* mutant: only the count changes
Erased == FALSE

ReleaseSession(t, o) ==
  /\ At(t, o, "release")
  /\ member' = Erased
  /\ Leave(t, o)
  /\ UNCHANGED <<connected, closer, sendVars>>

(* What the code of a step reaches beside the session.                     *)
Needs(s) ==
  {"session"} \cup (CASE s = "add" -> {"service"}
                      [] s = "register" -> {"context"}
                      [] s \in {"receive", "send"} -> {"context", "globals"}
                      [] OTHER -> {})

HandlerStep(t) ==
  \/ StoreConnected(t) \/ AddSession(t)
  \/ Receive(t) \/ SendStressTestData(t) \/ ProcessSend(t)
  \/ \E o \in Ops : \/ RegisterRecv(t, o)
                    \/ DisconnectNotFirst(t, o) \/ Disconnect(t, o) \/ ReleaseSession(t, o)

Handler(t) ==
  /\ runs[t] \in Ops
  /\ step[runs[t]] # "hung"
  /\ LET needs == Needs(step[runs[t]])
     IN \/ Misused(runs[t], needs)
        \/ /\ Missing(needs) = {}
           /\ HandlerStep(t)
           /\ UNCHANGED <<role, phase, detached, misuse>>

(***************************************************************************)
(* The client's commands and the detached threads of its file transfers.   *)
(***************************************************************************)
Commands == phase = "serving" /\ role = "client"

SendCommand ==
  /\ Commands
  /\ Sends(step)
  /\ UNCHANGED <<role, phase, runs, sessionVars, detached, misuse>>

(* SendFile sends the request, then the first chunk.  A chunk that is not  *)
(* the last starts a thread; one that cannot be read is not sent.          *)
SendFile ==
  /\ Commands
  /\ phase' = "sending"
  /\ Sends(step)
  /\ UNCHANGED <<role, runs, sessionVars, detached, misuse>>

NothingSent == UNCHANGED <<step, sendVars>>

FirstChunk ==
  /\ phase = "sending"
  /\ phase' = "serving"
  /\ \/ Sends(step) /\ detached' \in {detached, detached + 1} \cap (0 .. MaxDetached)
     \/ NothingSent /\ UNCHANGED detached
  /\ UNCHANGED <<role, runs, sessionVars, misuse>>

(* SendNextChunk: each thread sends a chunk and starts the next thread, or *)
(* ends, and drops its reference to the session.                           *)
NextChunk ==
  /\ detached > 0
  /\ GlobalsExist
  /\ Sends(step)
  /\ UNCHANGED <<role, phase, runs, sessionVars, detached, misuse>>

LastReference == Owners = {"detached"} /\ detached = 1

LastChunk ==
  /\ detached > 0
  /\ GlobalsExist
  /\ LastReference => ContextExists
  /\ detached' = detached - 1
  /\ Sends(step) \/ NothingSent
  /\ UNCHANGED <<role, phase, runs, sessionVars, misuse>>

DetachedMisuses ==
  /\ detached > 0
  /\ Misused("detached", {"globals"} \cup (IF LastReference THEN {"context"} ELSE {}))

(***************************************************************************)
(* main's way out: ioc.stop, Join, and the destructors of its locals and   *)
(* of the globals in reverse order.                                        *)
(***************************************************************************)
Moves(from, to) == phase = from /\ phase' = to

Quit ==
  /\ Moves("serving", "stopped")
  /\ UNCHANGED <<role, runs, step, sessionVars, sendVars, detached, misuse>>

JoinedOne == \E t \in IoThreads : runs[t] = "ended"  \* mutant: waits for one thread
Joined == \A t \in IoThreads : runs[t] \in {"ended", "unborn"}

Join ==
  /\ Moves("stopped", "joined")
  /\ Joined
  /\ UNCHANGED <<role, runs, step, sessionVars, sendVars, detached, misuse>>

(* CloseService disconnects the session if it is in the set; its weak_ptr  *)
(* to the service has expired, so it does not release itself.              *)
ClearedOnly == FALSE                           \* mutant: the set is only cleared
Disconnects == member /\ connected

DestroyService ==
  /\ Moves("joined", "serviceGone")
  /\ connected' = (connected /\ ~Disconnects)
  /\ closer' = IF Disconnects THEN "service" ELSE closer
  /\ member' = FALSE
  /\ UNCHANGED <<role, runs, step, sendVars, detached, misuse>>

DropSession ==
  /\ role = "client"
  /\ Moves("serviceGone", "released")
  /\ UNCHANGED <<role, runs, step, sessionVars, sendVars, detached, misuse>>

(* The operations that were still pending go, and what they captured.      *)
DestroyContext ==
  /\ Moves(IF role = "client" THEN "released" ELSE "serviceGone", "contextGone")
  /\ step' = [o \in Ops |-> "none"]
  /\ UNCHANGED <<role, runs, sessionVars, sendVars, detached, misuse>>

DeleteGlobals ==
  /\ Moves("contextGone", "globalsGone")
  /\ UNCHANGED <<role, runs, step, sessionVars, sendVars, detached, misuse>>

(* The process ends, and the detached threads with it.                     *)
Exit ==
  /\ Moves("globalsGone", "exited")
  /\ UNCHANGED <<role, runs, step, sessionVars, sendVars, detached, misuse>>

StartUp == Start \/ Launched \/ \E t \in IoThreads : Launch(t)

TakeDown == Join \/ DestroyService \/ DropSession \/ DestroyContext \/ DeleteGlobals \/ Exit

Next ==
  /\ Running
  /\ \/ StartUp \/ Quit \/ TakeDown
     \/ SendCommand \/ SendFile \/ FirstChunk
     \/ NextChunk \/ LastChunk \/ DetachedMisuses
     \/ \E t \in IoThreads : RunReturns(t) \/ Handler(t)
     \/ \E t \in IoThreads, o \in Ops : Dispatch(t, o) \/ Ignored(t, o)

Spec == Init /\ [][Next]_vars

(* Threads run their handlers, operations on a closed socket complete, and *)
(* main goes on unless it waits for a command.  The peer may stay silent.  *)
Aborts ==
  /\ Running /\ closer # "nobody"
  /\ \E t \in IoThreads, o \in Ops : Dispatch(t, o) \/ Ignored(t, o)

FairSpec ==
  /\ Spec
  /\ \A t \in IoThreads : WF_vars(Running /\ (Handler(t) \/ RunReturns(t)))
  /\ WF_vars(Aborts)
  /\ WF_vars(Running /\ (StartUp \/ TakeDown))

-----------------------------------------------------------------------------
(* When the last reference to the session goes, whoever drops it, the      *)
(* session was disconnected before: the destructor's own Disconnect        *)
(* (Session.cpp:15) never gets to GetSessionRef, which would throw.        *)
DestroyedDisconnected == connected => Alive

(* The read handler captures a raw this (Session.cpp:118).  As long as the *)
(* io_context may run it, it finds its session alive, unless the write     *)
(* handler disconnected the session: only then may the set's reference go  *)
(* before the read is finished.                                            *)
ReadHandlerOwned ==
  ServiceExists /\ step["read"] # "none" /\ ~Alive => closer = "write"

(* main destroys nothing a handler still uses: service, io_context and     *)
(* globals are only ever used too late by a detached thread, which Join    *)
(* does not wait for (FileTransfer.cpp:378, client.cpp:474).               *)
OnlyDetachedLate ==
  \A m \in misuse : m[2] # "session" => m[1] = "detached"

(* Why these hold: one thread runs each handler, and the client has only   *)
(* one thread.  A connected session is in the set, except while            *)
(* ProcessConnect adds it, and has a read outstanding; nothing is sent     *)
(* before, except by the client's commands.  Who closes it releases it.    *)
(* No handler runs when main destroys the service.                         *)
Threaded ==
  /\ \A t \in IoThreads : runs[t] \in Ops =>
       /\ step[runs[t]] \notin {"none", "pending"}
       /\ \A u \in IoThreads : runs[u] = runs[t] => u = t
  /\ \A o \in Ops : step[o] \notin {"none", "pending"} => \E t \in IoThreads : runs[t] = o
  /\ role = "client" =>
       \A t, u \in IoThreads : runs[t] # "unborn" /\ runs[u] # "unborn" => t = u

HandlersOK ==
  /\ step["connect"] \in {"none", "pending", "store", "add", "register"}
  /\ step["read"] \in {"none", "pending", "receive", "register", "disconnect", "release"}
  /\ step["write"] \in {"none", "pending", "sent", "disconnect", "release", "hung"}
  /\ step["timer"] \in {"none", "pending", "send"}
  /\ step["write"] # "none" => registered
  /\ role = "server" =>
       detached = 0 /\ step["timer"] = "none" /\ (step["connect"] # "none" => ~registered)

Connecting ==
  /\ step["connect"] # "none" => step["read"] = "none"
  /\ step["connect"] \in {"pending", "store"} => ~connected /\ closer = "nobody"
  /\ step["connect"] \in {"add", "register"} => connected
  /\ step["connect"] = "register" => member

Serving ==
  /\ connected => closer = "nobody"
  /\ connected => member \/ step["connect"] = "add"
  /\ connected => step["read"] \notin {"none", "release"} \/ step["connect"] \in {"add", "register"}
  /\ step["read"] # "none" /\ closer = "nobody" => connected

Releasing ==
  /\ member => connected \/ step["read"] = "release" \/ step["write"] = "release"
  /\ \A o \in Ops : step[o] = "release" => closer = o /\ member
  /\ closer = "read" => step["read"] \in {"none", "release"}
  /\ closer \in {"nobody", "read", "write", "service"}

TakenDown ==
  /\ phase = "start" =>
       /\ ~registered /\ ~connected /\ ~member /\ closer = "nobody"
       /\ \A o \in Ops : step[o] = "none"
  /\ phase \notin {"start", "launch", "serving", "sending", "stopped"} =>
       \A t \in IoThreads : runs[t] \in {"ended", "unborn"}
  /\ phase = "sending" => role = "client"
  /\ closer = "service" => ~ServiceExists
  /\ ~ServiceExists => ~connected /\ ~member

LifetimeInv ==
  /\ TypeOK /\ Threaded /\ HandlersOK /\ Connecting /\ Serving /\ Releasing /\ TakenDown
  /\ OnlyDetachedLate

(* A disconnected session of the server is destroyed in the end, whichever *)
(* handler disconnected it, unless a write handler locked _sendLock twice. *)
Hangs == step["write"] = "hung"

Reclaimed ==
  role = "server" /\ closer # "nobody" ~> ~Alive \/ Hangs \/ misuse # {}

(* A process whose user quits ends, whatever its handlers were doing,      *)
(* unless one of them hangs: Join waits for that one forever.              *)
QuitEnds == phase = "stopped" ~> phase = "exited" \/ Hangs \/ misuse # {}
==============================================================================

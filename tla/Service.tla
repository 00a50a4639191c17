------------------------------ MODULE Service ------------------------------
(***************************************************************************)
(* ServerService and the sessions it accepts (Service.cpp): the chain of   *)
(* async_accept operations started by StartAccept, ProcessConnect of an    *)
(* accepted session (Session.cpp:193), AddSession and ReleaseSession under *)
(* the service's lock, and Disconnect (Session.cpp:71), which the read and *)
(* the write handler of a session may call at the same time on two threads *)
(* of the io_context.  main stops the io_context, joins its threads and    *)
(* then destroys the service, which runs CloseService.                     *)
(***************************************************************************)
EXTENDS Integers, FiniteSets

CONSTANTS
  Sessions,    (* the sessions the factory can make, each used once         *)
  MaxSessions, (* _maxSessionCount                                          *)
  MaxBacklog,  (* bound: clients that wait at the same time                 *)
  NoSession    (* no accept operation is outstanding                        *)

ASSUME ServiceAssumption ==
  /\ MaxSessions \in Nat /\ MaxBacklog \in Nat
  /\ NoSession \notin Sessions

Handlers == {"read", "write"}  \* the operations of a session that may disconnect it

VARIABLES
  accept,      (* where the accept chain stands                             *)
  session,     (* the session of the outstanding accept                     *)
  backlog,     (* clients that wait to be accepted                          *)
  unused,      (* sessions the factory has not made yet                     *)
  connected,   (* sessions whose _connected is TRUE                         *)
  handler,     (* per session and handler: what it is about to do           *)
  members,     (* _sessions                                                 *)
  sessionCount,(* _sessionCount                                             *)
  running,     (* the io_context runs, and main holds the service           *)
  unvisited    (* sessions that CloseService has still to disconnect, with  *)
               (* the one its iterator stands on                            *)

acceptVars == <<accept, session, backlog, unused>>
memberVars == <<members, sessionCount>>
closeVars == <<running, unvisited>>
vars == <<acceptVars, connected, handler, memberVars, closeVars>>

TypeOK ==
  /\ accept \in {"start", "accepting", "check", "connect", "add", "ended"}
  /\ session \in Sessions \cup {NoSession}
  /\ backlog \in Nat
  /\ unused \subseteq Sessions
  /\ connected \subseteq Sessions
  /\ handler \in [Sessions \X Handlers -> {"none", "armed", "disconnect", "release", "done"}]
  /\ members \subseteq Sessions
  /\ sessionCount \in Int
  /\ running \in BOOLEAN
  /\ unvisited \subseteq Sessions

Init ==
  /\ accept = "start" /\ session = NoSession
  /\ backlog = 0
  /\ unused = Sessions
  /\ connected = {}
  /\ handler = [p \in Sessions \X Handlers |-> "none"]
  /\ members = {} /\ sessionCount = 0
  /\ running = TRUE /\ unvisited = {}

ClientConnects ==
  /\ running
  /\ backlog < MaxBacklog
  /\ backlog' = backlog + 1
  /\ UNCHANGED <<accept, session, unused, connected, handler, memberVars, closeVars>>

(***************************************************************************)
(* The accept chain.  Only it adds sessions; the counts it tests are read  *)
(* without the lock, so a release may come between a test and its use.     *)
(***************************************************************************)
FullBeyond == sessionCount > MaxSessions        \* mutant: off by one
Full == sessionCount >= MaxSessions

StartAccept ==
  /\ running
  /\ accept = "start"
  /\ IF Full
       THEN accept' = "ended" /\ UNCHANGED <<session, unused>>
       ELSE /\ session' \in unused
            /\ unused' = unused \ {session'}
            /\ accept' = "accepting"
  /\ UNCHANGED <<backlog, connected, handler, memberVars, closeVars>>

Accepted ==
  /\ running
  /\ accept = "accepting"
  /\ backlog > 0
  /\ backlog' = backlog - 1
  /\ accept' = "check"
  /\ UNCHANGED <<session, unused, connected, handler, memberVars, closeVars>>

(* The accept fails: the handler only starts the next one.                 *)
AcceptFails ==
  /\ running
  /\ accept = "accepting"
  /\ accept' = "start"
  /\ session' = NoSession
  /\ UNCHANGED <<backlog, unused, connected, handler, memberVars, closeVars>>

(* The handler refuses the connection if the service is full by now: the   *)
(* Disconnect of a session that never was connected does nothing, and the  *)
(* socket goes with the session.                                           *)
CheckCapacity ==
  /\ running
  /\ accept = "check"
  /\ IF sessionCount < MaxSessions
       THEN accept' = "connect" /\ UNCHANGED session
       ELSE accept' = "start" /\ session' = NoSession
  /\ UNCHANGED <<backlog, unused, connected, handler, memberVars, closeVars>>

(* ProcessConnect: _connected, then AddSession; OnConnected and            *)
(* RegisterRecv then arm the session's handlers.                           *)
ProcessConnect ==
  /\ running
  /\ accept = "connect"
  /\ connected' = connected \cup {session}
  /\ accept' = "add"
  /\ UNCHANGED <<session, backlog, unused, handler, memberVars, closeVars>>

NextAcceptForgotten == "ended"                  \* mutant: the handler just returns
NextAccept == "start"

AddSession ==
  /\ running
  /\ accept = "add"
  /\ members' = members \cup {session}
  /\ sessionCount' = sessionCount + 1
  /\ handler' = [p \in Sessions \X Handlers |->
                   IF p[1] = session THEN "armed" ELSE handler[p]]
  /\ accept' = NextAccept
  /\ session' = NoSession
  /\ UNCHANGED <<backlog, unused, connected, closeVars>>

(***************************************************************************)
(* Disconnect by handler h of session s.  The handler's operation fails,   *)
(* or another thread closed the socket; the exchange of _connected lets    *)
(* one caller through, which releases the session.                         *)
(***************************************************************************)
OperationFails(s, h) ==
  /\ running
  /\ handler[<<s, h>>] = "armed"
  /\ handler' = [handler EXCEPT ![<<s, h>>] = "disconnect"]
  /\ UNCHANGED <<acceptVars, connected, memberVars, closeVars>>

EveryCaller(s) == TRUE                          \* mutant: no exchange
FirstCaller(s) == s \in connected

Disconnect(s, h) ==
  /\ running
  /\ handler[<<s, h>>] = "disconnect"
  /\ connected' = connected \ {s}
  /\ handler' = [handler EXCEPT ![<<s, h>>] = IF FirstCaller(s) THEN "release" ELSE "done"]
  /\ UNCHANGED <<acceptVars, memberVars, closeVars>>

WithoutErase(s) == members                      \* mutant: only the count is updated
Without(s) == members \ {s}

ReleaseSession(s, h) ==
  /\ running
  /\ handler[<<s, h>>] = "release"
  /\ members' = Without(s)
  /\ sessionCount' = sessionCount - 1
  /\ handler' = [handler EXCEPT ![<<s, h>>] = "done"]
  /\ UNCHANGED <<acceptVars, connected, closeVars>>

(***************************************************************************)
(* main: ioc.stop lets the handlers that run finish, Join waits for them,  *)
(* and the service's destructor runs CloseService: its loop disconnects    *)
(* one session after the other, then the set is cleared.  A session that   *)
(* could still lock its weak_ptr to the service would release itself, out  *)
(* of the set the loop iterates over; in the destructor nobody holds the   *)
(* service any more.                                                       *)
(***************************************************************************)
NoHandlerRuns ==
  /\ accept \in {"accepting", "ended"}
  /\ \A p \in Sessions \X Handlers : handler[p] \notin {"disconnect", "release"}

CloseService ==
  /\ running
  /\ NoHandlerRuns
  /\ running' = FALSE
  /\ unvisited' = members
  /\ UNCHANGED <<acceptVars, connected, handler, memberVars>>

HeldByMain == TRUE                  \* mutant: called while main holds the service
ServiceHeld == running

CloseSession(s) ==
  /\ ~running
  /\ s \in unvisited /\ unvisited \subseteq connected
  /\ connected' = connected \ {s}
  /\ IF ServiceHeld
       THEN members' = Without(s) /\ sessionCount' = sessionCount - 1
       ELSE UNCHANGED memberVars
  /\ UNCHANGED <<acceptVars, handler, closeVars>>

NextSession(s) ==
  /\ ~running
  /\ s \in unvisited \ connected
  /\ unvisited' = unvisited \ {s}
  /\ UNCHANGED <<acceptVars, connected, handler, memberVars, running>>

ClearSessions ==
  /\ ~running
  /\ unvisited = {} /\ members # {}
  /\ members' = {}
  /\ UNCHANGED <<acceptVars, connected, handler, sessionCount, closeVars>>

Closing == ClearSessions \/ \E s \in Sessions : CloseSession(s) \/ NextSession(s)

AcceptChain ==
  StartAccept \/ Accepted \/ CheckCapacity \/ ProcessConnect \/ AddSession

Next ==
  \/ ClientConnects
  \/ AcceptChain
  \/ AcceptFails
  \/ \E s \in Sessions, h \in Handlers :
       OperationFails(s, h) \/ Disconnect(s, h) \/ ReleaseSession(s, h)
  \/ CloseService \/ Closing

Spec == Init /\ [][Next]_vars

(* The io_context completes an accept when a client waits and runs the     *)
(* handlers to their end; main need not stop it, but ends what it began.   *)
FairSpec ==
  /\ Spec
  /\ WF_vars(AcceptChain) /\ WF_vars(Closing)
  /\ \A s \in Sessions, h \in Handlers : WF_vars(Disconnect(s, h) \/ ReleaseSession(s, h))

-----------------------------------------------------------------------------
(* _sessionCount is the number of sessions in _sessions, whatever handlers *)
(* disconnect the same session at once (Session.cpp:73, Service.cpp:46-58).*)
CountMatches == running => sessionCount = Cardinality(members)

(* The service never holds more sessions than allowed, although it reads   *)
(* the count without the lock (Service.cpp:125, 138).                      *)
WithinMax == Cardinality(members) <= MaxSessions

(* A client that was accepted is never turned away: the handler's refusal  *)
(* (Service.cpp:143-147) is never reached, because StartAccept looked      *)
(* first and only releases can come in between.                            *)
NeverRefused == running /\ accept = "check" => sessionCount < MaxSessions

(* Every session in the set is connected or about to leave it, and every   *)
(* connected session is in the set or being added: no dead session keeps   *)
(* its place (Session.cpp:195-198, 73-82), and CloseService misses none.   *)
(* The session its iterator stands on stays in the set until the iterator  *)
(* has moved on (Service.cpp:26-29).                                       *)
Releasing(s) == \E h \in Handlers : handler[<<s, h>>] = "release"

MembersAreLive ==
  /\ running => \A s \in members : s \in connected \/ Releasing(s)
  /\ \A s \in connected : s \in members \/ (accept = "add" /\ s = session)
  /\ unvisited \subseteq members
  /\ ~running => connected \subseteq unvisited

(* Why these hold: a session in the accept chain has a place reserved and  *)
(* no handler yet, and only one handler releases a session.                *)
PlaceReserved ==
  running /\ accept \in {"accepting", "check", "connect", "add"} =>
    /\ sessionCount < MaxSessions
    /\ session \in Sessions
    /\ session \notin members /\ session \notin unused
    /\ accept = "add" => session \in connected

HandlersOfAccepted ==
  \A s \in Sessions, h \in Handlers :
    handler[<<s, h>>] # "none" => s \notin unused /\ s # session

ReleasedOnce ==
  \A s \in Sessions, h, k \in Handlers :
    running /\ handler[<<s, h>>] = "release" =>
      /\ s \in members /\ s \notin connected
      /\ handler[<<s, k>>] = "release" => k = h

ServiceInv ==
  /\ TypeOK /\ IsFiniteSet(members) /\ unused \cap members = {}
  /\ running => unvisited = {}
  /\ CountMatches /\ WithinMax /\ MembersAreLive
  /\ PlaceReserved /\ HandlersOfAccepted /\ ReleasedOnce

(* A session whose handlers failed gives its place back.                   *)
PlaceReturned ==
  \A s \in Sessions : s \in members /\ s \notin connected ~> s \notin members

(* As long as the service has a free place, a client that waits for one is *)
(* accepted: no failed accept, refusal or disconnect breaks the chain of   *)
(* accepts (Service.cpp:133-150).                                          *)
Waits == backlog > 0 /\ running /\ unused # {}

AcceptsWhileFree ==
  [](sessionCount < MaxSessions) => (Waits ~> ~Waits)

(* Service.cpp:150 waits for the next connection whenever one was handled, *)
(* and Service.cpp:145 only refuses connections beyond the maximum: a      *)
(* client that waits while there is a free place is accepted.              *)
FreePlaceIsTaken ==
  Waits /\ sessionCount < MaxSessions ~>
    ~Waits \/ sessionCount >= MaxSessions
==============================================================================

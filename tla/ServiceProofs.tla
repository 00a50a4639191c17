---------------------------- MODULE ServiceProofs ----------------------------
(***************************************************************************)
(* Proofs about the session bookkeeping of ServerService, for any number   *)
(* of sessions and any maximum: the count is the size of the set, the set  *)
(* never outgrows the maximum, no accepted client is turned away, and no   *)
(* connected session is missing from the set.                              *)
(***************************************************************************)
EXTENDS Service, FiniteSetTheorems, TLAPS

(* The actions of Next, one case each.                                     *)
LEMMA StepCases ==
  ASSUME Next
  PROVE  \/ ClientConnects \/ StartAccept \/ Accepted \/ AcceptFails
         \/ CheckCapacity \/ ProcessConnect \/ AddSession
         \/ CloseService \/ Closing
         \/ \E s \in Sessions, h \in Handlers : OperationFails(s, h)
         \/ \E s \in Sessions, h \in Handlers : Disconnect(s, h)
         \/ \E s \in Sessions, h \in Handlers : ReleaseSession(s, h)
BY DEF Next, AcceptChain

(* The service starts without sessions.                                    *)
LEMMA InitServiceInv == Init => ServiceInv
<1> SUFFICES ASSUME Init PROVE ServiceInv
  OBVIOUS
<1>1. TypeOK
  BY DEF Init, TypeOK
<1>2. IsFiniteSet(members) /\ Cardinality(members) = 0
  BY FS_EmptySet DEF Init
<1>3. CountMatches /\ WithinMax
  BY <1>2, ServiceAssumption DEF Init, CountMatches, WithinMax
<1>4. MembersAreLive /\ PlaceReserved /\ HandlersOfAccepted /\ ReleasedOnce
  BY DEF Init, MembersAreLive, PlaceReserved, HandlersOfAccepted, ReleasedOnce
<1> QED
  BY <1>1, <1>2, <1>3, <1>4 DEF ServiceInv, Init

(* A step that leaves the set, the count and the handlers alone.           *)
LEMMA AcceptStepInv ==
  ASSUME ServiceInv,
         ClientConnects \/ StartAccept \/ Accepted \/ AcceptFails \/ CheckCapacity \/ ProcessConnect
  PROVE  ServiceInv'
<1> USE DEF ClientConnects, StartAccept, Accepted, AcceptFails, CheckCapacity,
            ProcessConnect, Full, memberVars, closeVars
<1>1. UNCHANGED <<members, sessionCount, handler, running, unvisited>> /\ running
  OBVIOUS
<1>2. TypeOK'
  <2>1. backlog' \in Nat
    BY DEF ServiceInv, TypeOK
  <2>2. /\ accept' \in {"start", "accepting", "check", "connect", "add", "ended"}
        /\ session' \in Sessions \cup {NoSession}
        /\ unused' \subseteq Sessions
    BY DEF ServiceInv, TypeOK
  <2>3. connected' \subseteq Sessions
    BY <1>1 DEF ServiceInv, TypeOK, PlaceReserved
  <2> QED
    BY <1>1, <2>1, <2>2, <2>3 DEF ServiceInv, TypeOK
<1>3. IsFiniteSet(members)' /\ CountMatches' /\ WithinMax'
  BY <1>1 DEF ServiceInv, CountMatches, WithinMax
<1>4. unused' \cap members' = {}
  BY <1>1 DEF ServiceInv
<1>5. MembersAreLive'
  BY <1>1 DEF ServiceInv, MembersAreLive, Releasing
<1>6. PlaceReserved'
  BY <1>1, ServiceAssumption DEF ServiceInv, PlaceReserved, TypeOK
<1>7. HandlersOfAccepted'
  BY <1>1, ServiceAssumption DEF ServiceInv, HandlersOfAccepted, TypeOK
<1>8. ReleasedOnce'
  BY <1>1 DEF ServiceInv, ReleasedOnce, PlaceReserved, HandlersOfAccepted
<1> QED
  BY <1>2, <1>3, <1>4, <1>5, <1>6, <1>7, <1>8 DEF ServiceInv

(* AddSession takes the place the accept chain reserved.                   *)
LEMMA AddSessionInv ==
  ASSUME ServiceInv, AddSession
  PROVE  ServiceInv'
<1> USE DEF AddSession, NextAccept, closeVars
<1>1. session \in Sessions /\ session \notin members /\ session \notin unused
      /\ sessionCount < MaxSessions /\ session # NoSession
  BY ServiceAssumption DEF ServiceInv, PlaceReserved
<1>2. TypeOK'
  BY <1>1 DEF ServiceInv, TypeOK
<1>3. /\ IsFiniteSet(members)'
      /\ Cardinality(members') = Cardinality(members) + 1
  BY <1>1, FS_AddElement DEF ServiceInv
<1>4. sessionCount = Cardinality(members)
  BY DEF ServiceInv, CountMatches
<1>5. CountMatches' /\ WithinMax'
  BY <1>1, <1>3, <1>4, ServiceAssumption DEF ServiceInv, CountMatches, WithinMax, TypeOK
<1>6. unused' \cap members' = {}
  BY <1>1 DEF ServiceInv
<1>7. \A s \in Sessions, h \in Handlers :
        handler'[<<s, h>>] = IF s = session THEN "armed" ELSE handler[<<s, h>>]
  BY DEF ServiceInv, TypeOK
<1>8. session \in connected
  BY DEF ServiceInv, PlaceReserved
<1>9. MembersAreLive'
  BY <1>1, <1>7, <1>8 DEF ServiceInv, MembersAreLive, Releasing, TypeOK
<1>10. PlaceReserved'
  BY DEF PlaceReserved
<1>11. HandlersOfAccepted'
  BY <1>1, <1>7, ServiceAssumption DEF ServiceInv, HandlersOfAccepted, TypeOK
<1>12. ReleasedOnce'
  BY <1>1, <1>7 DEF ServiceInv, ReleasedOnce, TypeOK
<1> QED
  BY <1>2, <1>3, <1>5, <1>6, <1>9, <1>10, <1>11, <1>12 DEF ServiceInv

(* A handler that is about to disconnect changes no bookkeeping.           *)
LEMMA OperationFailsInv ==
  ASSUME ServiceInv, NEW s \in Sessions, NEW h \in Handlers, OperationFails(s, h)
  PROVE  ServiceInv'
<1> USE DEF OperationFails, acceptVars, memberVars, closeVars
<1>1. \A r \in Sessions, k \in Handlers :
        handler'[<<r, k>>] = IF r = s /\ k = h THEN "disconnect" ELSE handler[<<r, k>>]
  BY DEF ServiceInv, TypeOK
<1>2. TypeOK'
  BY DEF ServiceInv, TypeOK
<1>3. IsFiniteSet(members)' /\ CountMatches' /\ WithinMax' /\ unused' \cap members' = {}
  BY DEF ServiceInv, CountMatches, WithinMax
<1>4. MembersAreLive'
  BY <1>1 DEF ServiceInv, MembersAreLive, Releasing, TypeOK
<1>5. PlaceReserved'
  BY DEF ServiceInv, PlaceReserved
<1>6. HandlersOfAccepted' /\ ReleasedOnce'
  BY <1>1 DEF ServiceInv, HandlersOfAccepted, ReleasedOnce, TypeOK
<1> QED
  BY <1>2, <1>3, <1>4, <1>5, <1>6 DEF ServiceInv

(* The exchange of _connected lets one handler go on to release.           *)
LEMMA DisconnectInv ==
  ASSUME ServiceInv, NEW s \in Sessions, NEW h \in Handlers, Disconnect(s, h)
  PROVE  ServiceInv'
<1> USE DEF Disconnect, FirstCaller, acceptVars, memberVars, closeVars
<1>1. \A r \in Sessions, k \in Handlers :
        handler'[<<r, k>>] = IF r = s /\ k = h
                               THEN IF s \in connected THEN "release" ELSE "done"
                               ELSE handler[<<r, k>>]
  BY DEF ServiceInv, TypeOK
<1>2. s # session /\ s \notin unused
  BY DEF ServiceInv, HandlersOfAccepted
<1>3. TypeOK'
  BY DEF ServiceInv, TypeOK
<1>4. IsFiniteSet(members)' /\ CountMatches' /\ WithinMax' /\ unused' \cap members' = {}
  BY DEF ServiceInv, CountMatches, WithinMax
<1>5. s \in connected => s \in members
  BY <1>2 DEF ServiceInv, MembersAreLive
<1>6. MembersAreLive'
  <2>1. ASSUME NEW r \in members' PROVE r \in connected' \/ Releasing(r)'
    <3>1. CASE r \in connected
      BY <1>1, <3>1 DEF Releasing
    <3>2. CASE r \notin connected
      <4>1. PICK k \in Handlers : handler[<<r, k>>] = "release"
        BY <2>1, <3>2 DEF ServiceInv, MembersAreLive, Releasing
      <4>2. r \in Sessions
        BY <2>1 DEF ServiceInv, TypeOK
      <4>3. handler'[<<r, k>>] = "release"
        BY <1>1, <4>1, <4>2
      <4> QED
        BY <4>3 DEF Releasing
    <3> QED
      BY <3>1, <3>2
  <2>2. \A r \in connected' : r \in members' \/ (accept' = "add" /\ r = session')
    BY DEF ServiceInv, MembersAreLive
  <2> QED
    BY <2>1, <2>2 DEF ServiceInv, MembersAreLive
<1>7. PlaceReserved'
  BY <1>2 DEF ServiceInv, PlaceReserved
<1>8. HandlersOfAccepted'
  BY <1>1, <1>2 DEF ServiceInv, HandlersOfAccepted
<1>9. ReleasedOnce'
  <2>1. ASSUME NEW r \in Sessions, NEW k \in Handlers, NEW l \in Handlers,
               handler'[<<r, k>>] = "release"
        PROVE  /\ r \in members' /\ r \notin connected'
               /\ handler'[<<r, l>>] = "release" => l = k
    <3>1. CASE r = s /\ s \in connected
      <4>1. \A j \in Handlers : handler[<<s, j>>] # "release"
        BY <3>1 DEF ServiceInv, ReleasedOnce
      <4> QED
        BY <1>1, <1>5, <2>1, <3>1, <4>1
    <3>2. CASE ~(r = s /\ s \in connected)
      <4>1. handler[<<r, k>>] = "release"
        BY <1>1, <2>1, <3>2
      <4>2. handler'[<<r, l>>] = "release" => handler[<<r, l>>] = "release"
        BY <1>1, <3>2
      <4> QED
        BY <4>1, <4>2 DEF ServiceInv, ReleasedOnce
    <3> QED
      BY <3>1, <3>2
  <2> QED
    BY <2>1 DEF ReleasedOnce
<1> QED
  BY <1>3, <1>4, <1>6, <1>7, <1>8, <1>9 DEF ServiceInv

(* ReleaseSession takes out a session that is still in the set.            *)
LEMMA ReleaseSessionInv ==
  ASSUME ServiceInv, NEW s \in Sessions, NEW h \in Handlers, ReleaseSession(s, h)
  PROVE  ServiceInv'
<1> USE DEF ReleaseSession, Without, acceptVars, closeVars
<1>1. \A r \in Sessions, k \in Handlers :
        handler'[<<r, k>>] = IF r = s /\ k = h THEN "done" ELSE handler[<<r, k>>]
  BY DEF ServiceInv, TypeOK
<1>2. s \in members /\ s \notin connected
      /\ \A k \in Handlers : handler[<<s, k>>] = "release" => k = h
  BY DEF ServiceInv, ReleasedOnce
<1>3. TypeOK'
  BY DEF ServiceInv, TypeOK
<1>4. /\ IsFiniteSet(members)'
      /\ Cardinality(members') = Cardinality(members) - 1
      /\ Cardinality(members) \in Nat
  BY <1>2, FS_RemoveElement, FS_CardinalityType DEF ServiceInv
<1>5. CountMatches' /\ WithinMax' /\ unused' \cap members' = {}
  BY <1>4, ServiceAssumption DEF ServiceInv, CountMatches, WithinMax
<1>6. MembersAreLive'
  <2>1. ASSUME NEW r \in members' PROVE r \in connected' \/ Releasing(r)'
    <3>1. r # s /\ r \in Sessions /\ (r \in connected \/ Releasing(r))
      BY <2>1 DEF ServiceInv, MembersAreLive, TypeOK
    <3> QED
      BY <1>1, <3>1 DEF Releasing
  <2>2. \A r \in connected' : r \in members' \/ (accept' = "add" /\ r = session')
    BY <1>2 DEF ServiceInv, MembersAreLive
  <2> QED
    BY <2>1, <2>2 DEF ServiceInv, MembersAreLive
<1>7. PlaceReserved'
  BY ServiceAssumption DEF ServiceInv, PlaceReserved, TypeOK
<1>8. HandlersOfAccepted'
  BY <1>1 DEF ServiceInv, HandlersOfAccepted
<1>9. ReleasedOnce'
  BY <1>1, <1>2 DEF ServiceInv, ReleasedOnce
<1> QED
  BY <1>3, <1>4, <1>5, <1>6, <1>7, <1>8, <1>9 DEF ServiceInv

(* CloseService starts its loop over the whole set.                        *)
LEMMA CloseServiceInv ==
  ASSUME ServiceInv, CloseService
  PROVE  ServiceInv'
<1> USE DEF CloseService, acceptVars, memberVars
<1>1. TypeOK'
  BY DEF ServiceInv, TypeOK
<1>2. IsFiniteSet(members)' /\ CountMatches' /\ WithinMax' /\ unused' \cap members' = {}
  BY DEF ServiceInv, CountMatches, WithinMax
<1>3. connected \subseteq members
  BY DEF ServiceInv, MembersAreLive, NoHandlerRuns
<1>4. MembersAreLive' /\ PlaceReserved' /\ ReleasedOnce'
  BY <1>3 DEF MembersAreLive, PlaceReserved, ReleasedOnce
<1>5. HandlersOfAccepted'
  BY DEF ServiceInv, HandlersOfAccepted
<1> QED
  BY <1>1, <1>2, <1>4, <1>5 DEF ServiceInv

(* The steps of CloseService: no session can release itself any more, and  *)
(* the set stays whole until the loop has ended.                           *)
LEMMA ClosingInv ==
  ASSUME ServiceInv, Closing
  PROVE  ServiceInv'
<1>1. /\ ~running /\ running' = running /\ UNCHANGED <<accept, session, backlog, unused, handler>>
      /\ sessionCount' = sessionCount
      /\ \/ members' = members
         \/ members' = {} /\ unvisited = {} /\ unvisited' = {} /\ connected' = connected
      /\ connected' \subseteq connected /\ unvisited' \subseteq unvisited
      /\ \A r \in unvisited : r \in unvisited' \/ r \notin connected'
  BY DEF Closing, CloseSession, NextSession, ClearSessions, ServiceHeld, acceptVars, memberVars, closeVars
<1>2. TypeOK'
  BY <1>1 DEF ServiceInv, TypeOK
<1>3. IsFiniteSet(members)'
  BY <1>1, FS_EmptySet DEF ServiceInv
<1>4. CountMatches' /\ unused' \cap members' = {} /\ (running' => unvisited' = {})
  BY <1>1 DEF ServiceInv, CountMatches
<1>5. WithinMax'
  BY <1>1, FS_EmptySet, ServiceAssumption DEF ServiceInv, WithinMax
<1>6. MembersAreLive'
  BY <1>1 DEF ServiceInv, MembersAreLive
<1>7. PlaceReserved' /\ ReleasedOnce' /\ HandlersOfAccepted'
  BY <1>1 DEF ServiceInv, PlaceReserved, ReleasedOnce, HandlersOfAccepted
<1> QED
  BY <1>2, <1>3, <1>4, <1>5, <1>6, <1>7 DEF ServiceInv

(* ServiceInv is inductive: one case per action.                           *)
LEMMA StepServiceInv == ServiceInv /\ [Next]_vars => ServiceInv'
<1> SUFFICES ASSUME ServiceInv, [Next]_vars PROVE ServiceInv'
  OBVIOUS
<1>1. CASE ClientConnects \/ StartAccept \/ Accepted \/ AcceptFails
           \/ CheckCapacity \/ ProcessConnect
  BY <1>1, AcceptStepInv
<1>2. CASE AddSession
  BY <1>2, AddSessionInv
<1>3. ASSUME NEW s \in Sessions, NEW h \in Handlers, OperationFails(s, h) PROVE ServiceInv'
  BY <1>3, OperationFailsInv
<1>4. ASSUME NEW s \in Sessions, NEW h \in Handlers, Disconnect(s, h) PROVE ServiceInv'
  BY <1>4, DisconnectInv
<1>5. ASSUME NEW s \in Sessions, NEW h \in Handlers, ReleaseSession(s, h) PROVE ServiceInv'
  BY <1>5, ReleaseSessionInv
<1>6. CASE CloseService
  BY <1>6, CloseServiceInv
<1>8. CASE Closing
  BY <1>8, ClosingInv
<1>7. CASE UNCHANGED vars
  BY <1>7 DEF vars, acceptVars, memberVars, closeVars, ServiceInv, TypeOK, CountMatches, WithinMax,
     MembersAreLive, PlaceReserved, HandlersOfAccepted, ReleasedOnce, Releasing
<1> QED
  BY StepCases, <1>1, <1>2, <1>3, <1>4, <1>5, <1>6, <1>7, <1>8

(* The inductive invariant: the accept chain has a place reserved for its  *)
(* session, and one handler releases a session (Service.cpp:46-151).       *)
THEOREM ServiceInvariant == Spec => []ServiceInv
BY InitServiceInv, StepServiceInv, PTL DEF Spec

(* The session count is the size of the set and stays within the maximum   *)
(* (Service.cpp:46-58, 125, 138).                                          *)
THEOREM ServiceSafe == Spec => [](CountMatches /\ WithinMax)
<1>1. ServiceInv => CountMatches /\ WithinMax
  BY DEF ServiceInv
<1> QED
  BY <1>1, ServiceInvariant, PTL

(* No accepted client is refused (Service.cpp:138-147).                    *)
THEOREM AcceptedIsServed == Spec => []NeverRefused
<1>1. ServiceInv => NeverRefused
  BY DEF ServiceInv, PlaceReserved, NeverRefused
<1> QED
  BY <1>1, ServiceInvariant, PTL

(* The set holds exactly the sessions that are connected or being added or *)
(* released, and the loop of CloseService takes none out of the set before *)
(* it visited it (Service.cpp:23-58).                                      *)
THEOREM SetIsLive == Spec => []MembersAreLive
<1>1. ServiceInv => MembersAreLive
  BY DEF ServiceInv
<1> QED
  BY <1>1, ServiceInvariant, PTL
==============================================================================

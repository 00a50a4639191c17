----------------------------- MODULE StressTest -----------------------------
(***************************************************************************)
(* The stress test of the client and the server: RequestStressTest on the  *)
(* client's main thread, the packet handlers and the timer of              *)
(* ClientSession on its one io thread (client.cpp), and the handlers of    *)
(* GameSession (server.cpp).  The session between them delivers packets    *)
(* whole and in order until it is disconnected.                            *)
(***************************************************************************)
EXTENDS Integers, Sequences, FiniteSets, SequencesExt

CONSTANTS
  Counts,      (* message counts the user asks for                          *)
  MaxRequests  (* bound: how often the user asks                            *)

ASSUME StressAssumption ==
  /\ Counts \subseteq Nat
  /\ MaxRequests \in Nat

VARIABLES
  (* the client *)
  active,       (* _stressTestActive                                        *)
  count,        (* _stressTestConfig.messageCount                           *)
  currentSeq,   (* _stressTestCurrentSeq                                    *)
  echoes,       (* _stressTestReceivedCount                                 *)
  main,         (* what RequestStressTest does next on the main thread      *)
  asked,        (* the message count it was asked for                       *)
  waiting,      (* an async_wait of _stressTestTimer is pending             *)
  expired,      (* waits that expired and whose handlers have not run       *)
  crashed,      (* the process died of a division by zero                   *)
  (* the server's session *)
  srvActive,    (* _stressTestActive                                        *)
  srvCount,     (* _stressTestConfig.messageCount                           *)
  seen,         (* _receivedMessages                                        *)
  lastSeq,      (* _lastReceivedSeq                                         *)
  (* between them *)
  connected,
  toServer, toClient,  (* packets under way                                 *)
  requests,     (* history: how often the user asked                        *)
  overlapped,   (* history: the user asked while a test was unanswered      *)
  starts,       (* history: start packets the server handled                *)
  results       (* history: results the server sent                         *)

testVars == <<active, count, currentSeq, echoes>>
mainVars == <<main, asked>>
timerVars == <<waiting, expired>>
clientVars == <<testVars, mainVars, timerVars, crashed>>
serverVars == <<srvActive, srvCount, seen, lastSeq>>
userVars == <<requests, overlapped>>
vars == <<clientVars, serverVars, connected, toServer, toClient, userVars, starts, results>>

Result == [total : Nat, received : Nat, lost : Int]

TypeOK ==
  /\ active \in BOOLEAN /\ srvActive \in BOOLEAN
  /\ connected \in BOOLEAN /\ waiting \in BOOLEAN /\ crashed \in BOOLEAN
  /\ overlapped \in BOOLEAN
  /\ main \in {"idle", "store", "seq", "echoes", "send"} /\ {requests, starts} \subseteq Nat
  /\ {count, srvCount, asked} \subseteq Counts \cup {0}
  /\ currentSeq \in Nat /\ echoes \in Nat /\ expired \in Nat
  /\ seen \subseteq Nat \ {0} /\ lastSeq \in Nat
  /\ results \in Seq(Result)

Init ==
  /\ active = FALSE /\ count = 0 /\ currentSeq = 0 /\ echoes = 0
  /\ main = "idle" /\ asked = 0
  /\ waiting = FALSE /\ expired = 0
  /\ crashed = FALSE
  /\ srvActive = FALSE /\ srvCount = 0 /\ seen = {} /\ lastSeq = 0
  /\ connected = TRUE /\ toServer = <<>> /\ toClient = <<>>
  /\ requests = 0 /\ overlapped = FALSE /\ starts = 0 /\ results = <<>>

(* Session::Send; the packet goes nowhere once the session is disconnected. *)
ToServer(packets) == toServer' = IF connected THEN toServer \o packets ELSE toServer

Handle(type) ==
  /\ ~crashed
  /\ toClient # <<>>
  /\ Head(toClient).type = type
  /\ toClient' = Tail(toClient)

(***************************************************************************)
(* RequestStressTest.  The main thread looks at the flag, stores the       *)
(* configuration variable by variable and sends the start packet without a *)
(* lock, while the io thread runs.                                         *)
(***************************************************************************)
Answered == requests = Len(results) /\ ~active

RequestStressTest(n) ==
  /\ ~crashed
  /\ main = "idle"
  /\ requests < MaxRequests
  /\ ~active
  /\ main' = "store" /\ asked' = n
  /\ requests' = requests + 1
  /\ overlapped' = (overlapped \/ ~Answered)
  /\ UNCHANGED <<testVars, timerVars, crashed, serverVars, connected, toServer, toClient,
                 starts, results>>

Stores(now, next) ==
  /\ ~crashed
  /\ main = now /\ main' = next
  /\ UNCHANGED <<active, asked, timerVars, crashed, serverVars, connected, toServer, toClient,
                 userVars, starts, results>>

StoreCount == Stores("store", "seq") /\ count' = asked /\ UNCHANGED <<currentSeq, echoes>>

ResetSeq == Stores("seq", "echoes") /\ currentSeq' = 0 /\ UNCHANGED <<count, echoes>>

ResetEchoes == Stores("echoes", "send") /\ echoes' = 0 /\ UNCHANGED <<count, currentSeq>>

StoreConfig == StoreCount \/ ResetSeq \/ ResetEchoes

SendStart ==
  /\ ~crashed
  /\ main = "send"
  /\ ToServer(<<[type |-> "start", count |-> asked]>>)
  /\ main' = "idle"
  /\ UNCHANGED <<testVars, asked, timerVars, crashed, serverVars, connected, toClient,
                 userVars, starts, results>>

(***************************************************************************)
(* SendStressTestData after from messages: it sends the next and waits on  *)
(* the timer for the one after it, which replaces a wait that is pending.  *)
(***************************************************************************)
SeqFromZero(from) == from                       \* mutant: seq++ for ++seq
NextSeq(from) == from + 1

AlwaysAgain(from) == TRUE                       \* mutant: waits after the last message, too
Again(from) == from + 1 < count

AlwaysMore(from) == TRUE                        \* mutant: the count is not looked at
More(from) == from < count

SendStressTestData(from) ==
  IF More(from)
    THEN /\ ToServer(<<[type |-> "data", seq |-> NextSeq(from)]>>)
         /\ currentSeq' = from + 1
         /\ waiting' = (waiting \/ Again(from))
    ELSE currentSeq' = from /\ UNCHANGED <<toServer, waiting>>

OnStart ==
  /\ Handle("start")
  /\ active' = TRUE
  /\ SendStressTestData(0)
  /\ UNCHANGED <<count, echoes, mainVars, expired, crashed, serverVars, connected,
                 userVars, starts, results>>

TimerExpires ==
  /\ ~crashed
  /\ waiting
  /\ waiting' = FALSE
  /\ expired' = expired + 1
  /\ UNCHANGED <<testVars, mainVars, crashed, serverVars, connected, toServer, toClient,
                 userVars, starts, results>>

TimerHandler ==
  /\ ~crashed
  /\ expired > 0
  /\ expired' = expired - 1
  /\ IF active THEN SendStressTestData(currentSeq)
               ELSE UNCHANGED <<currentSeq, toServer, waiting>>
  /\ UNCHANGED <<active, count, echoes, mainVars, crashed, serverVars, connected, toClient,
                 userVars, starts, results>>

(* An echo.  The progress is computed with a division by the count; at the *)
(* last one EndStressTest tells the server, and the test stays active      *)
(* until the result arrives.                                               *)
EndsEarly(n) == n + 1 >= count                  \* mutant: one echo before the last
Ends(n) == n >= count

OnEcho ==
  /\ Handle("data")
  /\ IF ~active
       THEN UNCHANGED <<echoes, crashed, toServer>>
       ELSE /\ echoes' = echoes + 1
            /\ crashed' = (count = 0)
            /\ IF count > 0 /\ Ends(echoes + 1) THEN ToServer(<<[type |-> "end"]>>)
                                                ELSE UNCHANGED toServer
  /\ UNCHANGED <<active, count, currentSeq, mainVars, timerVars, serverVars, connected,
                 userVars, starts, results>>

StillActive == active                           \* mutant: the result does not end the test
ActiveAfterResult == FALSE

OnResult ==
  /\ Handle("result")
  /\ active' = ActiveAfterResult
  /\ UNCHANGED <<count, currentSeq, echoes, mainVars, timerVars, crashed, serverVars,
                 connected, toServer, userVars, starts, results>>

(***************************************************************************)
(* GameSession::OnRecvPacket.                                              *)
(***************************************************************************)
ServerHandle(type) ==
  /\ toServer # <<>>
  /\ Head(toServer).type = type
  /\ toServer' = Tail(toServer)
  /\ UNCHANGED <<clientVars, connected, userVars>>

ToClient(packets) == toClient' = IF connected THEN toClient \o packets ELSE toClient

SrvStart ==
  /\ ServerHandle("start")
  /\ srvActive' = TRUE
  /\ srvCount' = Head(toServer).count
  /\ seen' = {} /\ lastSeq' = 0
  /\ starts' = starts + 1
  /\ ToClient(<<[type |-> "start"]>>)
  /\ UNCHANGED results

SrvData ==
  /\ ServerHandle("data")
  /\ LET seq == Head(toServer).seq
     IN IF srvActive
          THEN /\ seen' = seen \cup {seq}
               /\ lastSeq' = IF seq > lastSeq THEN seq ELSE lastSeq
               /\ ToClient(<<[type |-> "data", seq |-> seq]>>)
          ELSE UNCHANGED <<seen, lastSeq, toClient>>
  /\ UNCHANGED <<srvActive, srvCount, starts, results>>

(* SendStressTestResult, then the test is over.                            *)
ResultOf ==
  [total |-> srvCount, received |-> Cardinality(seen), lost |-> lastSeq - Cardinality(seen)]

SrvStaysActive == TRUE                          \* mutant: the flag is not cleared
SrvActiveAfterEnd == FALSE

SrvEnd ==
  /\ ServerHandle("end")
  /\ IF srvActive
       THEN /\ results' = Append(results, ResultOf)
            /\ ToClient(<<[type |-> "result"]>>)
            /\ srvActive' = SrvActiveAfterEnd
       ELSE UNCHANGED <<results, toClient, srvActive>>
  /\ UNCHANGED <<srvCount, seen, lastSeq, starts>>

(* The connection fails; packets under way are lost.  The server's session *)
(* notices in OnDisconnected, the client's does nothing.                   *)
Disconnect ==
  /\ connected
  /\ connected' = FALSE
  /\ \E n \in 0 .. Len(toServer) : toServer' = SubSeq(toServer, 1, n)
  /\ \E n \in 0 .. Len(toClient) : toClient' = SubSeq(toClient, 1, n)
  /\ UNCHANGED <<clientVars, serverVars, userVars, starts, results>>

OnDisconnected ==
  /\ ~connected
  /\ srvActive
  /\ srvActive' = FALSE
  /\ UNCHANGED <<clientVars, srvCount, seen, lastSeq, connected, toServer, toClient,
                 userVars, starts, results>>

MainThread == StoreConfig \/ SendStart

IoThread == OnStart \/ OnEcho \/ OnResult \/ TimerHandler

Server == SrvStart \/ SrvData \/ SrvEnd

Next ==
  \/ \E n \in Counts : RequestStressTest(n)
  \/ MainThread \/ IoThread \/ TimerExpires
  \/ Server
  \/ Disconnect \/ OnDisconnected

Spec == Init /\ [][Next]_vars

(* The client's threads run, timers expire, packets are delivered.         *)
FairSpec ==
  /\ Spec
  /\ WF_vars(MainThread) /\ WF_vars(IoThread) /\ WF_vars(TimerExpires)
  /\ WF_vars(Server)

-----------------------------------------------------------------------------
(* The number of lost messages, a uint32_t, never underflows: however      *)
(* tests overlap, the server has seen no more messages than the highest    *)
(* sequence number (server.cpp:223-224, 305).                              *)
LostIsNatural == \A i \in DOMAIN results : results[i].lost >= 0

(* The server answers each start packet with at most one result, although  *)
(* the client may send several end packets (server.cpp:260-268).           *)
ResultPerStart == Len(results) + (IF srvActive THEN 1 ELSE 0) <= starts

(* Why both hold: the packets under way to the server are well formed, the *)
(* messages are numbered from 1, and lastSeq is at least the highest seen. *)
ServerPackets ==
  [type : {"start"}, count : Counts \cup {0}]
    \cup [type : {"data"}, seq : Nat \ {0}]
    \cup [type : {"end"}]

SeenBelowLast == seen \subseteq 1 .. lastSeq

StressInv ==
  /\ TypeOK /\ toServer \in Seq(ServerPackets)
  /\ SeenBelowLast /\ LostIsNatural /\ ResultPerStart

ExactSoFar ==
  \A i \in DOMAIN results : results[i].received = results[i].total /\ results[i].lost = 0

(* If the user waits for each result, the result is exact: the session     *)
(* loses nothing, so all messages were received and none was lost          *)
(* (server.cpp:303-305, client.cpp:146).                                   *)
ResultExact == ~overlapped => ExactSoFar

(* The progress of client.cpp:137 is never divided by a count of zero: a   *)
(* test of no messages gets no echo, if the user waits for each result.    *)
NoDivisionByZero == ~overlapped => ~crashed

(* If the user waits for each result, no wait of the timer is left over    *)
(* when a test is over: none sends a message of the next test before its   *)
(* start was acknowledged (client.cpp:346-353, 165).                       *)
TimerQuiet == ~overlapped /\ ~active => ~waiting /\ expired = 0

(* Why these three hold: where the one test of a user who waits can be.    *)
(* The numbers run from the echoes the client counted over those under way *)
(* to it, the messages the server saw and those under way to the server,   *)
(* to the last one sent; what a disconnect cuts off comes no more.         *)
Data(i, j) == [n \in 1 .. j - i |-> [type |-> "data", seq |-> i + n]]

Between ==
  /\ main = "idle" /\ ~active /\ requests = Len(results)
  /\ ~srvActive /\ toServer = <<>> /\ toClient = <<>>

Preparing ==
  /\ main # "idle" /\ ~active /\ requests = Len(results) + 1
  /\ main # "store" => count = asked
  /\ main \notin {"store", "seq"} => currentSeq = 0
  /\ main = "send" => echoes = 0
  /\ ~srvActive /\ toServer = <<>> /\ toClient = <<>>

Fresh == srvCount = count /\ seen = {} /\ lastSeq = 0 /\ (connected => srvActive)

Starting ==
  /\ main = "idle" /\ ~active /\ requests = Len(results) + 1
  /\ currentSeq = 0 /\ echoes = 0
  /\ \/ toServer = <<[type |-> "start", count |-> count]>> /\ toClient = <<>>
     \/ toServer = <<>> /\ toClient = <<[type |-> "start"]>> /\ Fresh
     \/ toServer = <<>> /\ toClient = <<>> /\ ~connected

DataUnderWay ==
  \E i \in lastSeq .. currentSeq : \E j \in i .. currentSeq :
    /\ toServer = Data(i, j)
    /\ srvActive => i = lastSeq
    /\ connected => j = currentSeq /\ ~(0 < count /\ echoes = count)

Running ==
  /\ main = "idle" /\ active /\ requests = Len(results) + 1
  /\ srvCount = count /\ seen = 1 .. lastSeq /\ (connected => srvActive)
  /\ echoes <= lastSeq /\ lastSeq <= currentSeq /\ currentSeq <= count
  /\ \E j \in echoes .. lastSeq : toClient = Data(echoes, j) /\ (connected => j = lastSeq)
  /\ \/ DataUnderWay
     \/ toServer = <<[type |-> "end"]>> /\ echoes = count

Answering ==
  /\ main = "idle" /\ active /\ requests = Len(results)
  /\ ~srvActive /\ toServer = <<>> /\ currentSeq = count
  /\ \/ toClient = <<[type |-> "result"]>>
     \/ toClient = <<>> /\ ~connected

(* The timer runs for the next message only, while there is one.           *)
OneWait ==
  waiting \/ expired > 0 =>
    active /\ currentSeq < count /\ expired = (IF waiting THEN 0 ELSE 1)

Turn ==
  /\ Between \/ Preparing \/ Starting \/ Running \/ Answering
  /\ OneWait /\ ~crashed /\ ExactSoFar

TurnInv == StressInv /\ (~overlapped => Turn)

(* client.cpp:145: once all messages were received, the test ends.  A test *)
(* of at least one message, asked for in its turn, is answered.            *)
TestEnds ==
  main = "send" /\ asked > 0 ~>
    (~active /\ requests = Len(results)) \/ ~connected \/ overlapped
==============================================================================

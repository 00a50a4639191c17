-------------------------- MODULE StressTestProofs --------------------------
(***************************************************************************)
(* The result of a stress test, for any counts and any overlap of tests:   *)
(* the number of lost messages does not underflow, and the server answers  *)
(* a start packet at most once.  Then a user who waits for each result:    *)
(* the results are exact, nothing divides by zero, and between two tests   *)
(* the timer stands still.                                                 *)
(***************************************************************************)
EXTENDS StressTest, FiniteSetTheorems, SequenceTheorems, TLAPS

(* Next, one disjunct per action. *)
LEMMA StepCases ==
  ASSUME Next
  PROVE  \/ \E n \in Counts : RequestStressTest(n)
         \/ StoreConfig \/ SendStart
         \/ OnStart \/ OnEcho \/ OnResult \/ TimerHandler \/ TimerExpires
         \/ SrvStart \/ SrvData \/ SrvEnd
         \/ Disconnect \/ OnDisconnected
BY DEF Next, MainThread, IoThread, Server

(* A set of numbers from 1 to n has at most n elements. *)
LEMMA CardinalityBelow ==
  ASSUME NEW n \in Nat, NEW S \in SUBSET (1 .. n)
  PROVE  Cardinality(S) \in Nat /\ Cardinality(S) <= n
<1>1. IsFiniteSet(1 .. n) /\ Cardinality(1 .. n) = n
  BY FS_Interval
<1>2. IsFiniteSet(S) /\ Cardinality(S) <= Cardinality(1 .. n)
  BY <1>1, FS_Subset
<1> QED
  BY <1>1, <1>2, FS_CardinalityType

(* StressInv in parts: the Boolean variables, the numbers of the client,   *)
(* those of the server, and what is under way.                             *)
FlagsOK ==
  /\ active \in BOOLEAN /\ waiting \in BOOLEAN /\ crashed \in BOOLEAN
  /\ srvActive \in BOOLEAN /\ connected \in BOOLEAN /\ overlapped \in BOOLEAN

ClientOK ==
  /\ main \in {"idle", "store", "seq", "echoes", "send"}
  /\ count \in Counts \cup {0} /\ asked \in Counts \cup {0}
  /\ currentSeq \in Nat /\ echoes \in Nat /\ expired \in Nat /\ requests \in Nat

ServerOK ==
  /\ srvCount \in Counts \cup {0} /\ lastSeq \in Nat
  /\ seen \subseteq 1 .. lastSeq
  /\ starts \in Nat
  /\ results \in Seq(Result)

ChannelOK == toServer \in Seq(ServerPackets)

LEMMA Parts ==
  StressInv <=> /\ FlagsOK /\ ClientOK /\ ServerOK /\ ChannelOK
                /\ LostIsNatural /\ ResultPerStart
<1>1. seen \subseteq 1 .. lastSeq /\ lastSeq \in Nat => seen \subseteq Nat \ {0}
  OBVIOUS
<1>2. /\ {count, srvCount, asked} \subseteq Counts \cup {0} <=>
           count \in Counts \cup {0} /\ srvCount \in Counts \cup {0} /\ asked \in Counts \cup {0}
      /\ {requests, starts} \subseteq Nat <=> requests \in Nat /\ starts \in Nat
  OBVIOUS
<1> QED
  BY <1>1, <1>2, Zenon DEF StressInv, TypeOK, SeenBelowLast, FlagsOK, ClientOK, ServerOK, ChannelOK

(* The same of the next state.                                             *)
LEMMA PartsAfter ==
  StressInv' <=> /\ FlagsOK' /\ ClientOK' /\ ServerOK' /\ ChannelOK'
                 /\ LostIsNatural' /\ ResultPerStart'
BY Parts, PTL

(* The initial state. *)
LEMMA InitStressInv == Init => StressInv
<1> SUFFICES ASSUME Init PROVE StressInv
  OBVIOUS
<1>1. FlagsOK
  BY DEF Init, FlagsOK
<1>2. ClientOK
  BY DEF Init, ClientOK
<1>3. ServerOK /\ ChannelOK
  BY DEF Init, ServerOK, ChannelOK
<1>4. LostIsNatural
  BY DEF Init, LostIsNatural
<1>5. ResultPerStart
  BY DEF Init, ResultPerStart
<1> QED
  BY <1>1, <1>2, <1>3, <1>4, <1>5, Parts

(* Sending a well-formed packet keeps the channel to the server so. *)
LEMMA ToServerKeeps ==
  ASSUME ChannelOK, NEW p \in ServerPackets, ToServer(<<p>>)
  PROVE  ChannelOK'
<1>1. <<p>> \in Seq(ServerPackets)
  OBVIOUS
<1> QED
  BY <1>1 DEF ToServer, ChannelOK

(* So does the next message of a test. *)
LEMMA SendDataKeeps ==
  ASSUME FlagsOK, ChannelOK, NEW from \in Nat, SendStressTestData(from)
  PROVE  ChannelOK' /\ currentSeq' \in Nat /\ waiting' \in BOOLEAN
<1>1. [type |-> "data", seq |-> NextSeq(from)] \in ServerPackets
  BY DEF ServerPackets, NextSeq
<1>2. ChannelOK'
  <2>1. CASE More(from)
    BY <1>1, <2>1, ToServerKeeps DEF SendStressTestData
  <2>2. CASE ~More(from)
    BY <2>2 DEF SendStressTestData, ChannelOK
  <2> QED
    BY <2>1, <2>2
<1>3. currentSeq' \in Nat
  BY DEF SendStressTestData
<1>4. waiting' \in BOOLEAN
  BY Zenon DEF SendStressTestData, FlagsOK
<1> QED
  BY <1>2, <1>3, <1>4

(* The client's steps leave the server alone. *)
LEMMA ClientStepInv ==
  ASSUME StressInv,
         \/ \E n \in Counts : RequestStressTest(n)
         \/ StoreConfig \/ SendStart
         \/ OnStart \/ OnEcho \/ OnResult \/ TimerHandler \/ TimerExpires
  PROVE  StressInv'
<1> USE DEF clientVars, testVars, mainVars, timerVars, serverVars, userVars
<1>0. FlagsOK /\ ClientOK /\ ServerOK /\ ChannelOK /\ LostIsNatural /\ ResultPerStart
  BY Parts
<1>1. UNCHANGED <<srvActive, srvCount, seen, lastSeq, connected, starts, results>>
  BY DEF RequestStressTest, StoreConfig, StoreCount, ResetSeq, ResetEchoes, Stores,
         SendStart, OnStart, OnEcho, OnResult, TimerHandler,
         TimerExpires
<1>2. ServerOK' /\ LostIsNatural' /\ ResultPerStart'
  BY <1>0, <1>1 DEF ServerOK, LostIsNatural, ResultPerStart
<1>3. FlagsOK' /\ ClientOK' /\ ChannelOK'
  <2>1. CASE \E n \in Counts : RequestStressTest(n)
    <3>1. FlagsOK'
      BY <1>0, <2>1, Zenon DEF RequestStressTest, FlagsOK
    <3> QED
      BY <1>0, <2>1, <3>1 DEF RequestStressTest, ClientOK, ChannelOK
  <2>2. CASE StoreConfig
    <3>1. FlagsOK'
      BY <1>0, <2>2, Zenon DEF StoreConfig, StoreCount, ResetSeq, ResetEchoes, Stores, FlagsOK
    <3> QED
      BY <1>0, <2>2, <3>1 DEF StoreConfig, StoreCount, ResetSeq, ResetEchoes, Stores, ClientOK, ChannelOK
  <2>3. CASE SendStart
    <3>1. [type |-> "start", count |-> asked] \in ServerPackets
      BY <1>0 DEF ServerPackets, ClientOK
    <3>2. ChannelOK'
      BY <1>0, <2>3, <3>1, ToServerKeeps DEF SendStart
    <3>3. FlagsOK'
      BY <1>0, <2>3, Zenon DEF SendStart, FlagsOK
    <3> QED
      BY <1>0, <2>3, <3>2, <3>3 DEF SendStart, ClientOK
  <2>4. CASE OnStart
    <3>1. ChannelOK' /\ currentSeq' \in Nat /\ waiting' \in BOOLEAN
      BY <1>0, <2>4, SendDataKeeps DEF OnStart
    <3>2. FlagsOK'
      BY <1>0, <2>4, <3>1, Zenon DEF OnStart, FlagsOK
    <3> QED
      BY <1>0, <2>4, <3>1, <3>2 DEF OnStart, ClientOK
  <2>5. CASE OnEcho
    <3>1. [type |-> "end"] \in ServerPackets
      BY DEF ServerPackets
    <3>2. ToServer(<<[type |-> "end"]>>) \/ UNCHANGED toServer
      BY <2>5 DEF OnEcho
    <3>3. ChannelOK'
      BY <1>0, <3>1, <3>2, ToServerKeeps DEF ChannelOK
    <3>4. crashed' \in BOOLEAN
      BY <1>0, <2>5, Zenon DEF OnEcho, FlagsOK
    <3>5. FlagsOK'
      BY <1>0, <2>5, <3>4, Zenon DEF OnEcho, FlagsOK
    <3> QED
      BY <1>0, <2>5, <3>3, <3>5 DEF OnEcho, ClientOK
  <2>6. CASE OnResult
    <3>1. FlagsOK'
      BY <1>0, <2>6, Zenon DEF OnResult, FlagsOK, ActiveAfterResult
    <3> QED
      BY <1>0, <2>6, <3>1 DEF OnResult, ClientOK, ChannelOK
  <2>7. CASE TimerHandler
    <3>1. ChannelOK' /\ currentSeq' \in Nat /\ waiting' \in BOOLEAN
      <4>1. CASE active
        BY <1>0, <2>7, <4>1, SendDataKeeps DEF TimerHandler, ClientOK
      <4>2. CASE ~active
        BY <1>0, <2>7, <4>2 DEF TimerHandler, FlagsOK, ClientOK, ChannelOK
      <4> QED
        BY <4>1, <4>2
    <3>2. FlagsOK'
      BY <1>0, <2>7, <3>1, Zenon DEF TimerHandler, FlagsOK
    <3> QED
      BY <1>0, <2>7, <3>1, <3>2 DEF TimerHandler, ClientOK
  <2>8. CASE TimerExpires
    <3>1. FlagsOK'
      BY <1>0, <2>8, Zenon DEF TimerExpires, FlagsOK
    <3> QED
      BY <1>0, <2>8, <3>1 DEF TimerExpires, ClientOK, ChannelOK
  <2> QED
    BY <2>1, <2>2, <2>3, <2>4, <2>5, <2>6, <2>7, <2>8
<1> QED
  BY <1>2, <1>3, PartsAfter

(* A handler of the server consumes a packet and leaves the client alone. *)
LEMMA ServerHandleKeeps ==
  ASSUME StressInv, NEW type, ServerHandle(type), srvActive' \in BOOLEAN
  PROVE  /\ FlagsOK' /\ ClientOK' /\ ChannelOK'
         /\ Head(toServer) \in ServerPackets /\ Head(toServer).type = type
<1> USE DEF clientVars, testVars, mainVars, timerVars, userVars
<1>1. FlagsOK /\ ClientOK /\ ChannelOK
  BY Parts
<1>2. ChannelOK' /\ Head(toServer) \in ServerPackets /\ Head(toServer).type = type
  BY <1>1 DEF ServerHandle, ChannelOK
<1>3. ClientOK'
  BY <1>1 DEF ServerHandle, ClientOK
<1>4. FlagsOK'
  BY <1>1, Zenon DEF ServerHandle, FlagsOK
<1> QED
  BY <1>2, <1>3, <1>4

(* A start packet begins a test afresh and allows one more result. *)
LEMMA SrvStartInv ==
  ASSUME StressInv, SrvStart
  PROVE  StressInv'
<1>0. ServerOK /\ LostIsNatural /\ ResultPerStart /\ FlagsOK
  BY Parts
<1>1. /\ FlagsOK' /\ ClientOK' /\ ChannelOK'
      /\ Head(toServer) \in ServerPackets /\ Head(toServer).type = "start"
  BY ServerHandleKeeps DEF SrvStart
<1>2. Head(toServer).count \in Counts \cup {0}
  BY <1>1 DEF ServerPackets
<1>3. ServerOK'
  BY <1>0, <1>2 DEF SrvStart, ServerOK
<1>4. LostIsNatural'
  BY <1>0 DEF SrvStart, LostIsNatural
<1>5. ResultPerStart'
  <2>1. Len(results) \in Nat /\ starts \in Nat /\ Len(results) <= starts
    BY <1>0 DEF ResultPerStart, ServerOK
  <2>2. results' = results /\ starts' = starts + 1
    BY DEF SrvStart
  <2> QED
    BY <2>1, <2>2 DEF ResultPerStart
<1> QED
  BY <1>1, <1>3, <1>4, <1>5, PartsAfter

(* A message raises lastSeq to at least its number. *)
LEMMA SrvDataInv ==
  ASSUME StressInv, SrvData
  PROVE  StressInv'
<1>0. ServerOK /\ LostIsNatural /\ ResultPerStart /\ FlagsOK
  BY Parts
<1>1. /\ FlagsOK' /\ ClientOK' /\ ChannelOK'
      /\ Head(toServer) \in ServerPackets /\ Head(toServer).type = "data"
  <2>1. srvActive' \in BOOLEAN
    BY <1>0, Zenon DEF SrvData, FlagsOK
  <2> QED
    BY <2>1, ServerHandleKeeps DEF SrvData
<1>2. Head(toServer).seq \in Nat \ {0}
  BY <1>1 DEF ServerPackets
<1>3. lastSeq' \in Nat /\ seen' \subseteq 1 .. lastSeq'
  <2>1. CASE srvActive
    <3> DEFINE seq == Head(toServer).seq
    <3>1. seen' = seen \cup {seq} /\ lastSeq' = IF seq > lastSeq THEN seq ELSE lastSeq
      BY <2>1 DEF SrvData
    <3>2. seq \in Nat \ {0} /\ lastSeq \in Nat /\ seen \subseteq 1 .. lastSeq
      BY <1>0, <1>2 DEF ServerOK
    <3> HIDE DEF seq
    <3> QED
      BY <3>1, <3>2
  <2>2. CASE ~srvActive
    BY <1>0, <2>2 DEF SrvData, ServerOK
  <2> QED
    BY <2>1, <2>2
<1>4. ServerOK'
  BY <1>0, <1>3 DEF SrvData, ServerOK
<1>5. LostIsNatural' /\ ResultPerStart'
  BY <1>0 DEF SrvData, LostIsNatural, ResultPerStart
<1> QED
  BY <1>1, <1>4, <1>5, PartsAfter

(* An end packet turns the active test into a result. *)
LEMMA SrvEndInv ==
  ASSUME StressInv, SrvEnd
  PROVE  StressInv'
<1>0. ServerOK /\ LostIsNatural /\ ResultPerStart /\ FlagsOK
  BY Parts
<1>1. FlagsOK' /\ ClientOK' /\ ChannelOK'
  <2>1. srvActive' \in BOOLEAN
    BY <1>0, Zenon DEF SrvEnd, FlagsOK, SrvActiveAfterEnd
  <2> QED
    BY <2>1, ServerHandleKeeps DEF SrvEnd
<1>2. Cardinality(seen) \in Nat /\ Cardinality(seen) <= lastSeq
  BY <1>0, CardinalityBelow DEF ServerOK
<1>3. ResultOf \in Result /\ ResultOf.lost >= 0
  <2>1. srvCount \in Nat /\ lastSeq - Cardinality(seen) \in Nat
    BY <1>0, <1>2, StressAssumption DEF ServerOK
  <2> QED
    BY <1>2, <2>1 DEF ResultOf, Result
<1>4. CASE srvActive
  <2>1. results' = Append(results, ResultOf) /\ srvActive' = FALSE /\ starts' = starts
    BY <1>4 DEF SrvEnd, SrvActiveAfterEnd
  <2>2. /\ results' \in Seq(Result) /\ Len(results') = Len(results) + 1
        /\ \A i \in DOMAIN results' : results'[i].lost >= 0
    <3> HIDE DEF ResultOf
    <3> QED
      BY <1>0, <1>3, <2>1 DEF ServerOK, LostIsNatural
  <2>3. ServerOK'
    BY <1>0, <2>1, <2>2 DEF ServerOK, SrvEnd
  <2>4. ResultPerStart'
    <3>1. Len(results) \in Nat /\ starts \in Nat /\ Len(results) + 1 <= starts
      BY <1>0, <1>4 DEF ResultPerStart, ServerOK
    <3> QED
      BY <2>1, <2>2, <3>1 DEF ResultPerStart
  <2>5. LostIsNatural'
    BY <2>2 DEF LostIsNatural
  <2> QED
    BY <1>1, <2>3, <2>4, <2>5, PartsAfter
<1>5. CASE ~srvActive
  <2>1. ServerOK' /\ LostIsNatural' /\ ResultPerStart'
    BY <1>0, <1>5 DEF ServerOK, SrvEnd, LostIsNatural, ResultPerStart
  <2> QED
    BY <1>1, <2>1, PartsAfter
<1> QED
  BY <1>4, <1>5

(* The end of the connection loses packets and ends the server's test. *)
LEMMA DisconnectInv ==
  ASSUME StressInv, Disconnect \/ OnDisconnected
  PROVE  StressInv'
<1> USE DEF clientVars, testVars, mainVars, timerVars, serverVars, userVars
<1>0. FlagsOK /\ ClientOK /\ ServerOK /\ ChannelOK /\ LostIsNatural /\ ResultPerStart
  BY Parts
<1>1. FlagsOK'
  BY <1>0, Zenon DEF Disconnect, OnDisconnected, FlagsOK
<1>2. ClientOK' /\ ServerOK' /\ LostIsNatural'
  BY <1>0 DEF Disconnect, OnDisconnected, ClientOK, ServerOK, LostIsNatural
<1>3. ChannelOK'
  <2>1. CASE Disconnect
    <3>1. PICK n \in 0 .. Len(toServer) : toServer' = SubSeq(toServer, 1, n)
      BY <2>1 DEF Disconnect
    <3>2. toServer \in Seq(ServerPackets)
      BY <1>0 DEF ChannelOK
    <3>3. \A i \in 1 .. n : toServer[i] \in ServerPackets
      BY <3>2
    <3>4. SubSeq(toServer, 1, n) \in Seq(ServerPackets)
      BY <3>2, <3>3
    <3> QED
      BY <3>1, <3>4 DEF ChannelOK
  <2>2. CASE OnDisconnected
    BY <1>0, <2>2 DEF OnDisconnected, ChannelOK
  <2> QED
    BY <2>1, <2>2
<1>4. ResultPerStart'
  <2>1. Len(results) \in Nat /\ starts \in Nat
    BY <1>0 DEF ServerOK
  <2>2. results' = results /\ starts' = starts /\ (srvActive' = srvActive \/ srvActive' = FALSE)
    BY DEF Disconnect, OnDisconnected
  <2> QED
    BY <1>0, <2>1, <2>2 DEF ResultPerStart
<1> QED
  BY <1>1, <1>2, <1>3, <1>4, PartsAfter

(* Every step. *)
LEMMA StepStressInv == StressInv /\ [Next]_vars => StressInv'
<1> SUFFICES ASSUME StressInv, [Next]_vars PROVE StressInv'
  OBVIOUS
<1>1. CASE \/ \E n \in Counts : RequestStressTest(n)
           \/ StoreConfig \/ SendStart
           \/ OnStart \/ OnEcho \/ OnResult \/ TimerHandler \/ TimerExpires
  BY <1>1, ClientStepInv
<1>2. CASE SrvStart
  BY <1>2, SrvStartInv
<1>3. CASE SrvData
  BY <1>3, SrvDataInv
<1>4. CASE SrvEnd
  BY <1>4, SrvEndInv
<1>5. CASE Disconnect \/ OnDisconnected
  BY <1>5, DisconnectInv
<1>6. CASE UNCHANGED vars
  BY <1>6 DEF vars, clientVars, testVars, mainVars, timerVars, serverVars, userVars,
    StressInv, TypeOK, SeenBelowLast, LostIsNatural, ResultPerStart
<1> QED
  BY <1>1, <1>2, <1>3, <1>4, <1>5, <1>6, StepCases

(* The inductive invariant: the server has seen messages up to its last    *)
(* sequence number only, and owes at most one result for each start        *)
(* (server.cpp:173-269).                                                   *)
THEOREM StressInvariant == Spec => []StressInv
BY InitStressInv, StepStressInv, PTL DEF Spec

(* Whatever counts the user asks for and however tests overlap, the lost   *)
(* count the server computes with unsigned numbers never underflows, and   *)
(* each start packet gets at most one result (server.cpp:257-268, 305).    *)
THEOREM ResultsSane == Spec => [](LostIsNatural /\ ResultPerStart)
<1>1. StressInv => LostIsNatural /\ ResultPerStart
  BY DEF StressInv
<1> QED
  BY <1>1, StressInvariant, PTL
-----------------------------------------------------------------------------
(* A user who waits for each result.  First, the packets of the messages   *)
(* from i + 1 to j, as a sequence.                                         *)
DataPackets == [type : {"data"}, seq : Nat]

LEMMA DataSequence ==
  ASSUME NEW i \in Nat, NEW j \in Nat, i <= j
  PROVE  /\ Data(i, j) \in Seq(DataPackets)
         /\ Len(Data(i, j)) = j - i
         /\ \A n \in 1 .. j - i : Data(i, j)[n] = [type |-> "data", seq |-> i + n]
<1>1. \A n \in 1 .. j - i : [type |-> "data", seq |-> i + n] \in DataPackets
  BY DEF DataPackets
<1>2. j - i \in Nat
  OBVIOUS
<1>3. Data(i, j) \in [1 .. j - i -> DataPackets]
  BY <1>1 DEF Data
<1>4. Data(i, j) \in Seq(DataPackets) /\ Len(Data(i, j)) = j - i
  BY <1>2, <1>3
<1> QED
  BY <1>4 DEF Data

LEMMA DataEqual ==
  ASSUME NEW i \in Nat, NEW j \in Nat, i <= j,
         NEW s \in Seq(DataPackets), Len(s) = j - i,
         \A n \in 1 .. j - i : s[n] = [type |-> "data", seq |-> i + n]
  PROVE  s = Data(i, j)
<1>1. Data(i, j) \in Seq(DataPackets) /\ Len(s) = Len(Data(i, j))
  BY DataSequence
<1>2. \A n \in 1 .. Len(s) : s[n] = Data(i, j)[n]
  BY DataSequence
<1> QED
  BY <1>1, <1>2, SeqEqual

LEMMA DataEmpty ==
  ASSUME NEW i \in Nat
  PROVE  Data(i, i) = <<>>
<1>1. Len(Data(i, i)) = 0 /\ Data(i, i) \in Seq(DataPackets)
  BY DataSequence
<1> QED
  BY <1>1, EmptySeq

LEMMA DataFirst ==
  ASSUME NEW i \in Nat, NEW j \in Nat, i <= j, Data(i, j) # <<>>
  PROVE  /\ i < j /\ i + 1 <= j
         /\ Head(Data(i, j)) = [type |-> "data", seq |-> i + 1]
         /\ Tail(Data(i, j)) = Data(i + 1, j)
<1> DEFINE s == Data(i, j)
<1>1. i < j /\ i + 1 <= j /\ i + 1 \in Nat
  BY DataEmpty
<1>2. /\ s \in Seq(DataPackets) /\ Len(s) = j - i
      /\ \A n \in 1 .. j - i : s[n] = [type |-> "data", seq |-> i + n]
  BY DataSequence
<1>3. s # <<>>
  OBVIOUS
<1> HIDE DEF s
<1>4. Head(s) = [type |-> "data", seq |-> i + 1]
  <2>1. 1 \in 1 .. j - i
    BY <1>1
  <2>2. Head(s) = s[1]
    BY <1>2, <1>3
  <2> QED
    BY <1>2, <2>1, <2>2
<1>5. /\ Tail(s) \in Seq(DataPackets) /\ Len(Tail(s)) = j - (i + 1)
      /\ \A n \in 1 .. j - (i + 1) : Tail(s)[n] = s[n + 1]
  BY <1>1, <1>2, <1>3, HeadTailProperties
<1>6. \A n \in 1 .. j - (i + 1) : n + 1 \in 1 .. j - i /\ i + (n + 1) = (i + 1) + n
  BY <1>1
<1>7. \A n \in 1 .. j - (i + 1) : Tail(s)[n] = [type |-> "data", seq |-> (i + 1) + n]
  BY <1>2, <1>5, <1>6
<1>8. Tail(s) = Data(i + 1, j)
  BY <1>1, <1>5, <1>7, DataEqual
<1> QED
  BY <1>1, <1>4, <1>8 DEF s

LEMMA DataNext ==
  ASSUME NEW i \in Nat, NEW j \in Nat, i <= j
  PROVE  Data(i, j) \o <<[type |-> "data", seq |-> j + 1]>> = Data(i, j + 1)
<1> DEFINE s == Data(i, j)
           e == [type |-> "data", seq |-> j + 1]
           u == s \o <<e>>
<1>1. /\ s \in Seq(DataPackets) /\ Len(s) = j - i
      /\ \A n \in 1 .. j - i : s[n] = [type |-> "data", seq |-> i + n]
  BY DataSequence
<1>2. e \in DataPackets
  BY DEF DataPackets
<1> HIDE DEF s
<1>3. /\ <<e>> \in Seq(DataPackets) /\ Len(<<e>>) = 1 /\ <<e>>[1] = e
  BY <1>2
<1> HIDE DEF e
<1>4. /\ u \in Seq(DataPackets) /\ Len(u) = (j + 1) - i
      /\ \A n \in 1 .. (j + 1) - i : u[n] = IF n <= j - i THEN s[n] ELSE <<e>>[n - (j - i)]
  BY <1>1, <1>3, ConcatProperties
<1>5. \A n \in 1 .. (j + 1) - i : u[n] = [type |-> "data", seq |-> i + n]
  <2> SUFFICES ASSUME NEW n \in 1 .. (j + 1) - i
               PROVE  u[n] = [type |-> "data", seq |-> i + n]
    OBVIOUS
  <2> HIDE DEF u
  <2>1. CASE n <= j - i
    BY <1>1, <1>4, <2>1
  <2>2. CASE n = (j + 1) - i
    <3>1. n - (j - i) = 1 /\ i + n = j + 1 /\ ~(n <= j - i)
      BY <2>2
    <3> QED
      BY <1>3, <1>4, <3>1 DEF e
  <2> QED
    BY <2>1, <2>2
<1> HIDE DEF u
<1>6. u = Data(i, j + 1)
  BY <1>4, <1>5, DataEqual
<1> QED
  BY <1>6 DEF u, s, e

LEMMA DataPrefix ==
  ASSUME NEW i \in Nat, NEW j \in Nat, i <= j, NEW n \in 0 .. Len(Data(i, j))
  PROVE  SubSeq(Data(i, j), 1, n) = Data(i, i + n) /\ i + n \in i .. j
<1> DEFINE s == Data(i, j)
           u == SubSeq(s, 1, n)
<1>1. /\ s \in Seq(DataPackets) /\ Len(s) = j - i
      /\ \A m \in 1 .. j - i : s[m] = [type |-> "data", seq |-> i + m]
  BY DataSequence
<1>2. n \in 0 .. j - i
  BY <1>1
<1> HIDE DEF s
<1>3. \A m \in 1 .. n : s[m] \in DataPackets
  BY <1>1, <1>2
<1>4. /\ u \in Seq(DataPackets) /\ Len(u) = (i + n) - i
      /\ \A m \in 1 .. (i + n) - i : u[m] = s[m]
  BY <1>2, <1>3, SubSeqProperties
<1> HIDE DEF u
<1>5. \A m \in 1 .. (i + n) - i : u[m] = [type |-> "data", seq |-> i + m]
  <2>1. \A k \in 0 .. j - i : \A m \in 1 .. (i + k) - i : m \in 1 .. j - i
    OBVIOUS
  <2>2. \A m \in 1 .. (i + n) - i : m \in 1 .. j - i
    BY <1>2, <2>1
  <2> QED
    BY <1>1, <1>4, <2>2
<1>6. i + n \in Nat /\ i <= i + n /\ i + n <= j
  <2>1. \A m \in 0 .. j - i : i + m \in Nat /\ i <= i + m /\ i + m <= j
    OBVIOUS
  <2> QED
    BY <1>2, <2>1
<1>7. u = Data(i, i + n)
  BY <1>4, <1>5, <1>6, DataEqual
<1> QED
  BY <1>6, <1>7 DEF u, s

(* What the types say of the numbers.                                      *)
LEMMA Numbers ==
  ASSUME StressInv
  PROVE  /\ echoes \in Nat /\ currentSeq \in Nat /\ lastSeq \in Nat /\ expired \in Nat
         /\ count \in Nat /\ srvCount \in Nat /\ requests \in Nat /\ Len(results) \in Nat
         /\ results \in Seq(Result)
<1>0. ClientOK /\ ServerOK
  BY Parts
<1>1. count \in Nat /\ srvCount \in Nat
  BY <1>0, StressAssumption DEF ClientOK, ServerOK
<1>2. results \in Seq(Result) /\ Len(results) \in Nat /\ lastSeq \in Nat
  BY <1>0 DEF ServerOK
<1>3. echoes \in Nat /\ currentSeq \in Nat /\ expired \in Nat /\ requests \in Nat
  BY <1>0 DEF ClientOK
<1> QED
  BY <1>1, <1>2, <1>3

(* The first packet under way to the client tells where its test is.       *)
LEMMA AtClient ==
  ASSUME StressInv, Turn, toClient # <<>>
  PROVE  /\ Head(toClient).type = "start" =>
              Starting /\ toServer = <<>> /\ Tail(toClient) = <<>> /\ Fresh
         /\ Head(toClient).type = "data" =>
              /\ Running /\ echoes + 1 <= lastSeq
              /\ \E j \in echoes + 1 .. lastSeq :
                   Tail(toClient) = Data(echoes + 1, j) /\ (connected => j = lastSeq)
         /\ Head(toClient).type = "result" => Answering /\ Tail(toClient) = <<>>
<1>1. CASE Between \/ Preparing
  BY <1>1 DEF Between, Preparing
<1>2. CASE Starting
  <2>1. /\ toServer = <<>> /\ toClient = <<[type |-> "start"]>> /\ Fresh
    BY <1>2 DEF Starting
  <2>2. Head(toClient).type = "start" /\ Tail(toClient) = <<>>
    BY <2>1
  <2> QED
    BY <1>2, <2>1, <2>2
<1>3. CASE Running
  <2>1. PICK j \in echoes .. lastSeq : toClient = Data(echoes, j) /\ (connected => j = lastSeq)
    BY <1>3 DEF Running
  <2>2. echoes \in Nat /\ lastSeq \in Nat /\ j \in Nat /\ echoes <= j /\ j <= lastSeq
    BY <2>1, Numbers
  <2>3. /\ echoes + 1 <= j /\ Head(toClient) = [type |-> "data", seq |-> echoes + 1]
        /\ Tail(toClient) = Data(echoes + 1, j)
    BY <2>1, <2>2, DataFirst
  <2>4. Head(toClient).type = "data"
    BY <2>3
  <2>5. j \in echoes + 1 .. lastSeq /\ echoes + 1 <= lastSeq
    BY <2>2, <2>3
  <2> QED
    BY <1>3, <2>1, <2>3, <2>4, <2>5
<1>4. CASE Answering
  <2>1. toClient = <<[type |-> "result"]>>
    BY <1>4 DEF Answering
  <2>2. Head(toClient).type = "result" /\ Tail(toClient) = <<>>
    BY <2>1
  <2> QED
    BY <1>4, <2>2
<1> QED
  BY <1>1, <1>2, <1>3, <1>4 DEF Turn

(* So does the first packet under way to the server.                       *)
LEMMA AtServer ==
  ASSUME StressInv, Turn, toServer # <<>>
  PROVE  /\ Head(toServer).type = "start" =>
              Starting /\ Head(toServer).count = count /\ Tail(toServer) = <<>> /\ toClient = <<>>
         /\ Head(toServer).type = "data" =>
              /\ Running
              /\ \E i \in lastSeq .. currentSeq : \E j \in i + 1 .. currentSeq :
                   /\ Head(toServer).seq = i + 1 /\ Tail(toServer) = Data(i + 1, j)
                   /\ srvActive => i = lastSeq
                   /\ connected => j = currentSeq /\ ~(0 < count /\ echoes = count)
         /\ Head(toServer).type = "end" => Running /\ Tail(toServer) = <<>> /\ echoes = count
<1>1. CASE Between \/ Preparing \/ Answering
  BY <1>1 DEF Between, Preparing, Answering
<1>2. CASE Starting
  <2>1. toServer = <<[type |-> "start", count |-> count]>> /\ toClient = <<>>
    BY <1>2 DEF Starting
  <2>2. Head(toServer).type = "start" /\ Head(toServer).count = count /\ Tail(toServer) = <<>>
    BY <2>1
  <2> QED
    BY <1>2, <2>1, <2>2
<1>3. CASE Running /\ DataUnderWay
  <2>0. PICK i \in lastSeq .. currentSeq : \E j \in i .. currentSeq :
          /\ toServer = Data(i, j)
          /\ srvActive => i = lastSeq
          /\ connected => j = currentSeq /\ ~(0 < count /\ echoes = count)
    BY <1>3 DEF DataUnderWay
  <2>1. PICK j \in i .. currentSeq :
          /\ toServer = Data(i, j)
          /\ srvActive => i = lastSeq
          /\ connected => j = currentSeq /\ ~(0 < count /\ echoes = count)
    BY <2>0
  <2>2. i \in Nat /\ j \in Nat /\ i <= j /\ j <= currentSeq /\ currentSeq \in Nat
    BY <2>1, Numbers
  <2>3. /\ i + 1 <= j /\ Head(toServer) = [type |-> "data", seq |-> i + 1]
        /\ Tail(toServer) = Data(i + 1, j)
    BY <2>1, <2>2, DataFirst
  <2>4. Head(toServer).type = "data" /\ Head(toServer).seq = i + 1
    BY <2>3
  <2>5. j \in i + 1 .. currentSeq
    BY <2>2, <2>3
  <2> QED
    BY <1>3, <2>1, <2>3, <2>4, <2>5
<1>4. CASE Running /\ toServer = <<[type |-> "end"]>> /\ echoes = count
  <2>1. Head(toServer).type = "end" /\ Tail(toServer) = <<>>
    BY <1>4
  <2> QED
    BY <1>4, <2>1
<1> QED
  BY <1>1, <1>2, <1>3, <1>4 DEF Turn, Running

(* The user asks again only between two tests.                             *)
LEMMA RequestTurn ==
  ASSUME StressInv, Turn, NEW n \in Counts, RequestStressTest(n), Answered
  PROVE  Turn'
<1> USE DEF testVars, timerVars, serverVars
<1>1. Between
  BY Numbers DEF RequestStressTest, Answered, Turn, Preparing, Starting, Running, Answering
<1>2. Preparing'
  BY <1>1 DEF Between, Preparing, RequestStressTest
<1>3. OneWait' /\ ~crashed' /\ ExactSoFar'
  BY DEF RequestStressTest, Turn, OneWait, ExactSoFar
<1> QED
  BY <1>2, <1>3 DEF Turn

LEMMA MainTurn ==
  ASSUME StressInv, Turn, StoreConfig \/ SendStart
  PROVE  Turn'
<1> USE DEF testVars, timerVars, serverVars, userVars
<1>1. Preparing
  BY DEF StoreConfig, StoreCount, ResetSeq, ResetEchoes, Stores,
         SendStart, Turn, Between, Starting, Running, Answering
<1>2. ~crashed' /\ ExactSoFar'
  BY DEF StoreConfig, StoreCount, ResetSeq, ResetEchoes, Stores,
         SendStart, Turn, ExactSoFar
<1>3. OneWait'
  BY <1>1 DEF StoreConfig, StoreCount, ResetSeq, ResetEchoes, Stores,
         SendStart, Turn, OneWait, Preparing
<1>4. CASE StoreConfig
  <2>1. Preparing'
    BY <1>1, <1>4 DEF StoreConfig, StoreCount, ResetSeq, ResetEchoes, Stores, Preparing
  <2> QED
    BY <1>2, <1>3, <2>1 DEF Turn
<1>5. CASE SendStart
  <2>1. toServer' = IF connected THEN <<[type |-> "start", count |-> count]>> ELSE <<>>
    BY <1>1, <1>5 DEF SendStart, ToServer, Preparing
  <2>2. Starting'
    BY <1>1, <1>5, <2>1 DEF SendStart, Preparing, Starting
  <2> QED
    BY <1>2, <1>3, <2>2 DEF Turn
<1> QED
  BY <1>4, <1>5

(* What the next message of the test does to a channel that is empty, or   *)
(* holds the messages before it.                                           *)
LEMMA NextMessage ==
  ASSUME StressInv, SendStressTestData(currentSeq), currentSeq < count,
         NEW i \in Nat, NEW j \in Nat, i <= j, toServer = Data(i, j),
         connected => j = currentSeq
  PROVE  /\ currentSeq' = currentSeq + 1 /\ (waiting' <=> waiting \/ currentSeq + 1 < count)
         /\ toServer' = IF connected THEN Data(i, j + 1) ELSE Data(i, j)
<1>1. /\ ToServer(<<[type |-> "data", seq |-> currentSeq + 1]>>)
      /\ currentSeq' = currentSeq + 1 /\ (waiting' <=> waiting \/ currentSeq + 1 < count)
  BY DEF SendStressTestData, More, NextSeq, Again
<1>2. Data(i, j) \o <<[type |-> "data", seq |-> j + 1]>> = Data(i, j + 1)
  BY DataNext
<1> QED
  BY <1>1, <1>2 DEF ToServer

(* The acknowledged start sends the first message, if there is one.        *)
LEMMA StartTurn ==
  ASSUME StressInv, Turn, OnStart
  PROVE  Turn'
<1> USE DEF mainVars, serverVars, userVars
<1>1. Starting /\ toServer = <<>> /\ toClient' = <<>> /\ Fresh
  BY AtClient DEF OnStart, Handle
<1>2. /\ active' = TRUE /\ SendStressTestData(currentSeq)
      /\ UNCHANGED <<count, echoes, main, expired, srvActive, srvCount, seen, lastSeq, connected,
                     requests, crashed, results>>
      /\ currentSeq = 0 /\ echoes = 0 /\ lastSeq = 0 /\ main = "idle"
  BY <1>1 DEF OnStart, Starting, Fresh
<1>3. ~waiting /\ expired = 0
  BY <1>1, Numbers DEF Turn, OneWait, Starting
<1>4. Data(0, 0) = <<>> /\ count \in Nat
  BY DataEmpty, Numbers
<1>5. /\ currentSeq' = (IF 0 < count THEN 1 ELSE 0)
      /\ waiting' <=> 1 < count
      /\ toServer' = IF connected /\ 0 < count THEN Data(0, 1) ELSE Data(0, 0)
  <2>1. CASE 0 < count
    <3>1. /\ currentSeq' = currentSeq + 1 /\ (waiting' <=> waiting \/ currentSeq + 1 < count)
          /\ toServer' = IF connected THEN Data(0, 0 + 1) ELSE Data(0, 0)
      BY <1>1, <1>2, <1>4, <2>1, NextMessage
    <3> QED
      BY <1>2, <1>3, <2>1, <3>1
  <2>2. CASE ~(0 < count)
    BY <1>1, <1>2, <1>3, <1>4, <2>2 DEF SendStressTestData, More
  <2> QED
    BY <2>1, <2>2
<1>6. OneWait' /\ ~crashed' /\ ExactSoFar'
  <2>1. ~crashed' /\ ExactSoFar'
    BY <1>2 DEF Turn, ExactSoFar
  <2>2. OneWait'
    BY <1>2, <1>3, <1>4, <1>5 DEF OneWait
  <2> QED
    BY <2>1, <2>2
<1>7. DataUnderWay'
  <2>1. \E j \in 0 .. currentSeq' :
          toServer' = Data(0, j) /\ (connected' => j = currentSeq' /\ ~(0 < count' /\ echoes' = count'))
    BY <1>2, <1>4, <1>5
  <2>2. 0 \in lastSeq' .. currentSeq'
    BY <1>2, <1>4, <1>5
  <2> QED
    BY <1>2, <2>1, <2>2 DEF DataUnderWay
<1>8. Running'
  <2>1. seen' = 1 .. lastSeq'
    BY <1>1, <1>2 DEF Fresh
  <2>2. \E j \in echoes' .. lastSeq' : toClient' = Data(echoes', j) /\ (connected' => j = lastSeq')
    BY <1>1, <1>2, <1>4
  <2>3. echoes' <= lastSeq' /\ lastSeq' <= currentSeq' /\ currentSeq' <= count'
    BY <1>2, <1>4, <1>5
  <2>4. requests' = Len(results') + 1 /\ main' = "idle" /\ srvCount' = count' /\ (connected' => srvActive')
    BY <1>1, <1>2 DEF Starting, Fresh
  <2> QED
    BY <1>2, <1>7, <2>1, <2>2, <2>3, <2>4 DEF Running
<1> QED
  BY <1>6, <1>8 DEF Turn

(* An echo: the last one sends the end packet, behind no other packet.     *)
LEMMA EchoTurn ==
  ASSUME StressInv, Turn, OnEcho
  PROVE  Turn'
<1> USE DEF mainVars, timerVars, serverVars, userVars
<1>1. Running /\ echoes + 1 <= lastSeq
  BY AtClient DEF OnEcho, Handle
<1>2. PICK j \in echoes + 1 .. lastSeq :
        toClient' = Data(echoes + 1, j) /\ (connected => j = lastSeq)
  BY AtClient DEF OnEcho, Handle
<1>3. /\ echoes' = echoes + 1 /\ (crashed' <=> count = 0)
      /\ IF count > 0 /\ echoes + 1 >= count THEN ToServer(<<[type |-> "end"]>>) ELSE UNCHANGED toServer
      /\ UNCHANGED <<active, count, currentSeq, main, waiting, expired, srvActive, srvCount, seen,
                     lastSeq, connected, requests, results>>
  BY <1>1 DEF OnEcho, Running, Ends
<1>4. /\ echoes \in Nat /\ lastSeq \in Nat /\ currentSeq \in Nat /\ count \in Nat
      /\ lastSeq <= currentSeq /\ currentSeq <= count /\ echoes + 1 <= count
  BY <1>1, Numbers DEF Running
<1>5. OneWait' /\ ~crashed' /\ ExactSoFar'
  <2>1. ~crashed'
    BY <1>3, <1>4
  <2> QED
    BY <1>3, <2>1 DEF Turn, OneWait, ExactSoFar
<1>6. DataUnderWay
  BY <1>1, <1>4 DEF Running
<1>7. PICK i \in lastSeq .. currentSeq : \E k \in i .. currentSeq :
        /\ toServer = Data(i, k)
        /\ srvActive => i = lastSeq
        /\ connected => k = currentSeq /\ ~(0 < count /\ echoes = count)
  BY <1>6 DEF DataUnderWay
<1>8. DataUnderWay' \/ (toServer' = <<[type |-> "end"]>> /\ echoes' = count')
  <2>1. CASE connected /\ echoes + 1 = count
    <3>1. lastSeq = count /\ currentSeq = count
      BY <1>4, <2>1, <1>1
    <3>2. toServer = Data(count, count)
      BY <1>4, <1>7, <3>1
    <3>3. toServer = <<>>
      BY <1>4, <3>2, DataEmpty
    <3>4. count > 0 /\ echoes + 1 >= count
      BY <1>4, <2>1
    <3>5. toServer' = <<[type |-> "end"]>>
      BY <1>3, <2>1, <3>3, <3>4 DEF ToServer
    <3> QED
      BY <1>3, <2>1, <3>5
  <2>2. CASE ~(connected /\ echoes + 1 = count)
    <3>1. toServer' = toServer
      BY <1>3, <1>4, <2>2 DEF ToServer
    <3>2. connected => ~(0 < count' /\ echoes' = count')
      BY <1>3, <2>2
    <3> QED
      BY <1>3, <1>7, <3>1, <3>2 DEF DataUnderWay
  <2> QED
    BY <2>1, <2>2
<1>9. Running'
  <2>1. echoes' <= lastSeq' /\ lastSeq' <= currentSeq' /\ currentSeq' <= count'
    BY <1>1, <1>3, <1>4
  <2>2. \E k \in echoes' .. lastSeq' : toClient' = Data(echoes', k) /\ (connected' => k = lastSeq')
    BY <1>2, <1>3
  <2> QED
    BY <1>1, <1>3, <1>8, <2>1, <2>2 DEF Running
<1> QED
  BY <1>5, <1>9 DEF Turn

(* The result ends the test.                                               *)
LEMMA ResultTurn ==
  ASSUME StressInv, Turn, OnResult
  PROVE  Turn'
<1> USE DEF mainVars, timerVars, serverVars, userVars
<1>1. Answering /\ toClient' = <<>>
  BY AtClient DEF OnResult, Handle
<1>2. Between'
  BY <1>1 DEF OnResult, ActiveAfterResult, Answering, Between
<1>3. OneWait' /\ ~crashed' /\ ExactSoFar'
  <2>1. currentSeq = count /\ count \in Nat /\ ~(currentSeq < count)
    BY <1>1, Numbers DEF Answering
  <2> QED
    BY <2>1 DEF OnResult, Turn, OneWait, ExactSoFar
<1> QED
  BY <1>2, <1>3 DEF Turn

(* The timer expires while the test runs, and sends the next message.      *)
LEMMA TimerExpiresTurn ==
  ASSUME StressInv, Turn, TimerExpires
  PROVE  Turn'
<1> USE DEF testVars, mainVars, serverVars, userVars
<1>1. OneWait' /\ ~crashed' /\ ExactSoFar'
  BY Numbers DEF TimerExpires, Turn, OneWait, ExactSoFar
<1> QED
  BY <1>1 DEF TimerExpires, Turn, Between, Preparing, Starting, Running, Answering, Fresh, DataUnderWay

LEMMA TimerTurn ==
  ASSUME StressInv, Turn, TimerHandler
  PROVE  Turn'
<1> USE DEF mainVars, serverVars, userVars
<1>1. active /\ currentSeq < count /\ ~waiting /\ expired = 1
  BY Numbers DEF TimerHandler, Turn, OneWait
<1>2. /\ echoes \in Nat /\ lastSeq \in Nat /\ currentSeq \in Nat /\ count \in Nat
  BY Numbers
<1>3. Running
  BY <1>1, <1>2 DEF Turn, Between, Preparing, Starting, Answering
<1>4. /\ SendStressTestData(currentSeq) /\ expired' = 0
      /\ UNCHANGED <<active, count, echoes, main, crashed, srvActive, srvCount, seen, lastSeq,
                     connected, toClient, requests, results>>
  BY <1>1 DEF TimerHandler
<1>5. echoes <= lastSeq /\ lastSeq <= currentSeq /\ DataUnderWay
  BY <1>1, <1>2, <1>3 DEF Running
<1>6. PICK i \in lastSeq .. currentSeq : \E k \in i .. currentSeq :
        /\ toServer = Data(i, k)
        /\ srvActive => i = lastSeq
        /\ connected => k = currentSeq /\ ~(0 < count /\ echoes = count)
  BY <1>5 DEF DataUnderWay
<1>7. PICK k \in i .. currentSeq :
        /\ toServer = Data(i, k)
        /\ srvActive => i = lastSeq
        /\ connected => k = currentSeq /\ ~(0 < count /\ echoes = count)
  BY <1>6
<1>8. i \in Nat /\ k \in Nat /\ i <= k /\ k <= currentSeq
  BY <1>2, <1>6, <1>7
<1>9. /\ currentSeq' = currentSeq + 1 /\ (waiting' <=> currentSeq + 1 < count)
      /\ toServer' = IF connected THEN Data(i, k + 1) ELSE Data(i, k)
  BY <1>1, <1>4, <1>7, <1>8, NextMessage
<1>10. OneWait' /\ ~crashed' /\ ExactSoFar'
  <2>1. OneWait'
    BY <1>1, <1>4, <1>9 DEF OneWait
  <2> QED
    BY <1>4, <2>1 DEF Turn, ExactSoFar
<1>11. DataUnderWay'
  <2>1. i \in lastSeq' .. currentSeq' /\ (srvActive' => i = lastSeq')
    BY <1>2, <1>4, <1>7, <1>9
  <2>2. CASE connected
    <3>1. /\ toServer' = Data(i, k + 1) /\ k + 1 \in i .. currentSeq' /\ k + 1 = currentSeq'
          /\ ~(0 < count' /\ echoes' = count')
      BY <1>4, <1>7, <1>8, <1>9, <2>2, <1>2
    <3> QED
      BY <2>1, <3>1 DEF DataUnderWay
  <2>3. CASE ~connected
    <3>1. toServer' = Data(i, k) /\ k \in i .. currentSeq' /\ ~connected'
      BY <1>2, <1>4, <1>8, <1>9, <2>3
    <3> QED
      BY <2>1, <3>1 DEF DataUnderWay
  <2> QED
    BY <2>2, <2>3
<1>12. Running'
  <2>1. lastSeq' <= currentSeq' /\ currentSeq' <= count'
    BY <1>1, <1>2, <1>4, <1>5, <1>9
  <2> QED
    BY <1>3, <1>4, <1>11, <2>1 DEF Running
<1> QED
  BY <1>10, <1>12 DEF Turn

(* The server acknowledges the start.                                      *)
LEMMA SrvStartTurn ==
  ASSUME StressInv, Turn, SrvStart
  PROVE  Turn'
<1> USE DEF clientVars, testVars, mainVars, timerVars, userVars
<1>1. Starting /\ Head(toServer).count = count /\ toServer' = <<>> /\ toClient = <<>>
  BY AtServer DEF SrvStart, ServerHandle
<1>2. Fresh'
  BY <1>1 DEF SrvStart, ServerHandle, Fresh
<1>3. toClient' = IF connected THEN <<[type |-> "start"]>> ELSE <<>>
  BY <1>1 DEF SrvStart, ToClient
<1>4. Starting'
  BY <1>1, <1>2, <1>3 DEF SrvStart, ServerHandle, Starting
<1>5. OneWait' /\ ~crashed' /\ ExactSoFar'
  BY DEF SrvStart, ServerHandle, Turn, OneWait, ExactSoFar
<1> QED
  BY <1>4, <1>5 DEF Turn

(* It counts the next message and echoes it behind the echoes under way.   *)
LEMMA SrvDataTurn ==
  ASSUME StressInv, Turn, SrvData
  PROVE  Turn'
<1> USE DEF clientVars, testVars, mainVars, timerVars, userVars
<1>1. Running
  BY AtServer DEF SrvData, ServerHandle
<1>2. PICK i \in lastSeq .. currentSeq : \E k \in i + 1 .. currentSeq :
        /\ Head(toServer).seq = i + 1 /\ toServer' = Data(i + 1, k)
        /\ srvActive => i = lastSeq
        /\ connected => k = currentSeq /\ ~(0 < count /\ echoes = count)
  BY AtServer DEF SrvData, ServerHandle
<1>3. PICK k \in i + 1 .. currentSeq :
        /\ Head(toServer).seq = i + 1 /\ toServer' = Data(i + 1, k)
        /\ srvActive => i = lastSeq
        /\ connected => k = currentSeq /\ ~(0 < count /\ echoes = count)
  BY <1>2
<1>4. PICK j \in echoes .. lastSeq : toClient = Data(echoes, j) /\ (connected => j = lastSeq)
  BY <1>1 DEF Running
<1>5. /\ echoes \in Nat /\ lastSeq \in Nat /\ currentSeq \in Nat /\ count \in Nat
      /\ j \in Nat /\ echoes <= j /\ j <= lastSeq /\ lastSeq <= i
      /\ i \in Nat /\ k \in Nat /\ i + 1 <= k /\ k <= currentSeq
  BY <1>2, <1>3, <1>4, Numbers
<1>6. UNCHANGED <<active, count, currentSeq, echoes, main, waiting, expired, crashed, connected,
                  requests, srvActive, srvCount, results>>
  BY DEF SrvData, ServerHandle
<1>7. OneWait' /\ ~crashed' /\ ExactSoFar'
  BY <1>6 DEF Turn, OneWait, ExactSoFar
<1>8. CASE srvActive
  <2>1. i = lastSeq
    BY <1>3, <1>8
  <2>2. /\ seen' = seen \cup {lastSeq + 1} /\ lastSeq' = lastSeq + 1
        /\ ToClient(<<[type |-> "data", seq |-> lastSeq + 1]>>)
    BY <1>3, <1>5, <1>8, <2>1 DEF SrvData
  <2>3. seen' = 1 .. lastSeq'
    BY <1>1, <1>5, <2>2 DEF Running
  <2>4. Data(echoes, j) \o <<[type |-> "data", seq |-> j + 1]>> = Data(echoes, j + 1)
    BY <1>5, DataNext
  <2>5. \E n \in echoes' .. lastSeq' : toClient' = Data(echoes', n) /\ (connected' => n = lastSeq')
    <3>1. CASE connected
      <4>1. toClient' = Data(echoes, lastSeq + 1)
        BY <1>4, <2>2, <2>4, <3>1 DEF ToClient
      <4> QED
        BY <1>5, <1>6, <2>2, <4>1
    <3>2. CASE ~connected
      <4>1. toClient' = Data(echoes, j) /\ j \in echoes .. lastSeq'
        BY <1>4, <1>5, <2>2, <3>2 DEF ToClient
      <4> QED
        BY <1>6, <3>2, <4>1
    <3> QED
      BY <3>1, <3>2
  <2>6. DataUnderWay'
    <3>1. lastSeq' \in lastSeq' .. currentSeq' /\ k \in lastSeq' .. currentSeq'
      BY <1>5, <1>6, <2>1, <2>2
    <3>2. toServer' = Data(lastSeq', k)
      BY <1>3, <2>1, <2>2
    <3> QED
      BY <1>3, <1>6, <3>1, <3>2 DEF DataUnderWay
  <2>7. echoes' <= lastSeq' /\ lastSeq' <= currentSeq'
    BY <1>5, <1>6, <2>1, <2>2
  <2>8. Running'
    BY <1>1, <1>6, <2>3, <2>5, <2>6, <2>7 DEF Running
  <2> QED
    BY <1>7, <2>8 DEF Turn
<1>9. CASE ~srvActive
  <2>1. UNCHANGED <<seen, lastSeq, toClient>>
    BY <1>9 DEF SrvData
  <2>2. DataUnderWay'
    <3>1. i + 1 \in lastSeq' .. currentSeq' /\ k \in i + 1 .. currentSeq' /\ ~srvActive'
      BY <1>5, <1>6, <1>9, <2>1
    <3> QED
      BY <1>3, <1>6, <3>1 DEF DataUnderWay
  <2>3. Running'
    BY <1>1, <1>6, <2>1, <2>2 DEF Running
  <2> QED
    BY <1>7, <2>3 DEF Turn
<1> QED
  BY <1>8, <1>9

(* The end packet finds all messages seen, so the result is exact.         *)
LEMMA SrvEndTurn ==
  ASSUME StressInv, Turn, SrvEnd
  PROVE  Turn'
<1> USE DEF clientVars, testVars, mainVars, timerVars, userVars
<1>1. Running /\ toServer' = <<>> /\ echoes = count
  BY AtServer DEF SrvEnd, ServerHandle
<1>2. PICK j \in echoes .. lastSeq : toClient = Data(echoes, j) /\ (connected => j = lastSeq)
  BY <1>1 DEF Running
<1>3. /\ count \in Nat /\ lastSeq = count /\ currentSeq = count /\ j = count
      /\ toClient = Data(count, count)
  BY <1>1, <1>2, Numbers DEF Running
<1>4. toClient = <<>>
  BY <1>3, DataEmpty
<1>5. UNCHANGED <<active, count, currentSeq, echoes, main, waiting, expired, crashed, connected,
                  requests, srvCount, seen, lastSeq>>
  BY DEF SrvEnd, ServerHandle
<1>6. OneWait' /\ ~crashed'
  BY <1>5 DEF Turn, OneWait
<1>7. CASE srvActive
  <2>1. /\ results' = Append(results, ResultOf) /\ srvActive' = FALSE
        /\ toClient' = IF connected THEN <<[type |-> "result"]>> ELSE <<>>
    BY <1>4, <1>7 DEF SrvEnd, ToClient, SrvActiveAfterEnd
  <2>2. ResultOf.received = ResultOf.total /\ ResultOf.lost = 0
    <3>1. seen = 1 .. count /\ srvCount = count
      BY <1>1, <1>3 DEF Running
    <3>2. Cardinality(1 .. count) = count
      BY <1>3, FS_Interval
    <3> QED
      BY <1>3, <3>1, <3>2 DEF ResultOf
  <2>3. ResultOf \in Result
    <3>1. Cardinality(seen) \in Nat /\ srvCount \in Nat /\ lastSeq \in Nat
      BY Numbers, CardinalityBelow, Parts DEF ServerOK
    <3> QED
      BY <3>1 DEF ResultOf, Result
  <2> HIDE DEF ResultOf
  <2>4. /\ results \in Seq(Result) /\ Len(results') = Len(results) + 1
        /\ \A n \in 1 .. Len(results) : results'[n] = results[n]
        /\ results'[Len(results) + 1] = ResultOf /\ results' \in Seq(Result)
    BY <2>1, <2>3, Numbers, AppendProperties
  <2>5. ExactSoFar'
    <3> SUFFICES ASSUME NEW n \in 1 .. Len(results) + 1
                 PROVE  results'[n].received = results'[n].total /\ results'[n].lost = 0
      BY <2>4 DEF ExactSoFar
    <3>1. CASE n \in 1 .. Len(results)
      BY <2>4, <3>1 DEF Turn, ExactSoFar
    <3>2. CASE n = Len(results) + 1
      BY <2>2, <2>4, <3>2
    <3> QED
      BY <2>4, <3>1, <3>2, LenProperties
  <2>6. Answering'
    BY <1>1, <1>3, <1>5, <2>1, <2>4 DEF Running, Answering
  <2> QED
    BY <1>6, <2>5, <2>6 DEF Turn
<1>8. CASE ~srvActive
  <2>1. UNCHANGED <<results, toClient, srvActive>>
    BY <1>8 DEF SrvEnd
  <2>2. DataUnderWay'
    <3>1. lastSeq' \in lastSeq' .. currentSeq' /\ toServer' = Data(lastSeq', lastSeq')
      BY <1>1, <1>3, <1>5, DataEmpty
    <3>2. ~srvActive' /\ ~connected'
      BY <1>1, <1>5, <1>8, <2>1 DEF Running
    <3> QED
      BY <1>3, <1>5, <3>1, <3>2 DEF DataUnderWay
  <2>3. Running' /\ ExactSoFar'
    BY <1>1, <1>5, <2>1, <2>2 DEF Running, Turn, ExactSoFar
  <2> QED
    BY <1>6, <2>3 DEF Turn
<1> QED
  BY <1>7, <1>8

(* What a disconnect leaves of a channel.                                  *)
LEMMA PrefixOfNone ==
  ASSUME NEW n \in 0 .. Len(<<>>)
  PROVE  SubSeq(<<>>, 1, n) = <<>>
BY SubSeqEmpty

LEMMA PrefixOfOne ==
  ASSUME NEW p, NEW n \in 0 .. Len(<<p>>)
  PROVE  SubSeq(<<p>>, 1, n) = <<>> \/ SubSeq(<<p>>, 1, n) = <<p>>
<1>1. <<p>> \in Seq({p}) /\ Len(<<p>>) = 1
  OBVIOUS
<1>2. CASE n = 0
  BY <1>2, SubSeqEmpty
<1>3. CASE n = 1
  BY <1>1, <1>3, SubSeqFull
<1> QED
  BY <1>1, <1>2, <1>3

LEMMA DisconnectTurn ==
  ASSUME StressInv, Turn, Disconnect
  PROVE  Turn'
<1> USE DEF clientVars, testVars, mainVars, timerVars, serverVars, userVars
<1>1. PICK n \in 0 .. Len(toServer) : toServer' = SubSeq(toServer, 1, n)
  BY DEF Disconnect
<1>2. PICK m \in 0 .. Len(toClient) : toClient' = SubSeq(toClient, 1, m)
  BY DEF Disconnect
<1>3. /\ UNCHANGED <<active, count, currentSeq, echoes, main, asked, waiting, expired, crashed,
                     requests, srvActive, srvCount, seen, lastSeq, results>>
      /\ ~connected'
  BY DEF Disconnect
<1>4. OneWait' /\ ~crashed' /\ ExactSoFar'
  BY <1>3 DEF Turn, OneWait, ExactSoFar
<1>5. toServer = <<>> => toServer' = <<>>
  BY <1>1, PrefixOfNone
<1>6. toClient = <<>> => toClient' = <<>>
  BY <1>2, PrefixOfNone
<1>7. CASE Between \/ Preparing
  BY <1>3, <1>4, <1>5, <1>6, <1>7 DEF Turn, Between, Preparing
<1>8. CASE Starting
  <2>1. CASE toServer = <<[type |-> "start", count |-> count]>> /\ toClient = <<>>
    <3>1. toServer' = <<>> \/ toServer' = toServer
      BY <1>1, <2>1, PrefixOfOne
    <3>2. Starting'
      BY <1>3, <1>6, <1>8, <2>1, <3>1 DEF Starting
    <3> QED
      BY <1>4, <3>2 DEF Turn
  <2>2. CASE toServer = <<>> /\ toClient = <<[type |-> "start"]>> /\ Fresh
    <3>1. toClient' = <<>> \/ toClient' = toClient
      BY <1>2, <2>2, PrefixOfOne
    <3>2. Starting'
      BY <1>3, <1>5, <1>8, <2>2, <3>1 DEF Starting, Fresh
    <3> QED
      BY <1>4, <3>2 DEF Turn
  <2>3. CASE toServer = <<>> /\ toClient = <<>>
    BY <1>3, <1>4, <1>5, <1>6, <1>8, <2>3 DEF Turn, Starting
  <2> QED
    BY <1>8, <2>1, <2>2, <2>3 DEF Starting
<1>9. CASE Running
  <2>1. PICK j \in echoes .. lastSeq : toClient = Data(echoes, j) /\ (connected => j = lastSeq)
    BY <1>9 DEF Running
  <2>2. /\ echoes \in Nat /\ lastSeq \in Nat /\ currentSeq \in Nat /\ j \in Nat
        /\ echoes <= j /\ j <= lastSeq /\ lastSeq <= currentSeq
    BY <1>9, <2>1, Numbers DEF Running
  <2>3. toClient' = Data(echoes, echoes + m) /\ echoes + m \in echoes .. j
    BY <1>2, <2>1, <2>2, DataPrefix
  <2>4. \E k \in echoes' .. lastSeq' : toClient' = Data(echoes', k) /\ (connected' => k = lastSeq')
    <3>1. echoes + m \in echoes .. lastSeq
      BY <2>2, <2>3
    <3> QED
      BY <1>3, <2>3, <3>1
  <2>5. DataUnderWay' \/ (toServer' = <<[type |-> "end"]>> /\ echoes' = count')
    <3>1. CASE DataUnderWay
      <4>1. PICK i \in lastSeq .. currentSeq : \E k \in i .. currentSeq :
              toServer = Data(i, k) /\ (srvActive => i = lastSeq)
        BY <3>1 DEF DataUnderWay
      <4>2. PICK k \in i .. currentSeq : toServer = Data(i, k) /\ (srvActive => i = lastSeq)
        BY <4>1
      <4>3. i \in Nat /\ k \in Nat /\ i <= k /\ k <= currentSeq
        BY <2>2, <4>1, <4>2
      <4>4. toServer' = Data(i, i + n) /\ i + n \in i .. k
        BY <1>1, <4>2, <4>3, DataPrefix
      <4>5. i + n \in i .. currentSeq
        BY <2>2, <4>3, <4>4
      <4> QED
        BY <1>3, <4>1, <4>2, <4>4, <4>5 DEF DataUnderWay
    <3>2. CASE toServer = <<[type |-> "end"]>> /\ echoes = count
      <4>1. toServer' = <<>> \/ toServer' = toServer
        BY <1>1, <3>2, PrefixOfOne
      <4>2. CASE toServer' = <<>>
        <5>1. toServer' = Data(lastSeq, lastSeq) /\ lastSeq \in lastSeq .. currentSeq
          BY <2>2, <4>2, DataEmpty
        <5>2. lastSeq \in lastSeq .. lastSeq
          BY <2>2
        <5> QED
          BY <1>3, <5>1, <5>2 DEF DataUnderWay
      <4>3. CASE toServer' = toServer
        BY <1>3, <3>2, <4>3
      <4> QED
        BY <4>1, <4>2, <4>3
    <3> QED
      BY <1>9, <3>1, <3>2 DEF Running
  <2>6. Running'
    BY <1>3, <1>9, <2>4, <2>5 DEF Running
  <2> QED
    BY <1>4, <2>6 DEF Turn
<1>10. CASE Answering
  <2>1. toClient' = <<>> \/ toClient' = toClient
    BY <1>2, <1>6, <1>10, PrefixOfOne DEF Answering
  <2>2. Answering'
    BY <1>3, <1>5, <1>10, <2>1 DEF Answering
  <2> QED
    BY <1>4, <2>2 DEF Turn
<1> QED
  BY <1>7, <1>8, <1>9, <1>10 DEF Turn

(* The server's session ends its test when it notices.                     *)
LEMMA OnDisconnectedTurn ==
  ASSUME StressInv, Turn, OnDisconnected
  PROVE  Turn'
<1> USE DEF clientVars, testVars, mainVars, timerVars, serverVars, userVars
<1>1. /\ UNCHANGED <<active, count, currentSeq, echoes, main, asked, waiting, expired, crashed,
                     connected, toServer, toClient, requests, srvCount, seen, lastSeq, results>>
      /\ ~connected /\ srvActive /\ ~srvActive'
  BY DEF OnDisconnected
<1>2. OneWait' /\ ~crashed' /\ ExactSoFar'
  BY <1>1 DEF Turn, OneWait, ExactSoFar
<1>3. CASE Starting
  <2>1. Starting'
    BY <1>1, <1>3 DEF Starting, Fresh
  <2> QED
    BY <1>2, <2>1 DEF Turn
<1>4. CASE Running
  <2>1. DataUnderWay => DataUnderWay'
    BY <1>1 DEF DataUnderWay
  <2>2. Running'
    BY <1>1, <1>4, <2>1 DEF Running
  <2> QED
    BY <1>2, <2>2 DEF Turn
<1> QED
  BY <1>1, <1>3, <1>4 DEF Turn, Between, Preparing, Answering

(* Every step of a user who waits.                                         *)
LEMMA StepTurn ==
  ASSUME StressInv, Turn, Next, ~overlapped'
  PROVE  Turn'
<1>1. CASE \E n \in Counts : RequestStressTest(n)
  BY <1>1, RequestTurn DEF RequestStressTest
<1>2. CASE StoreConfig \/ SendStart
  BY <1>2, MainTurn
<1>3. CASE OnStart \/ OnEcho \/ OnResult \/ TimerHandler \/ TimerExpires
  BY <1>3, StartTurn, EchoTurn, ResultTurn, TimerTurn, TimerExpiresTurn
<1>4. CASE SrvStart \/ SrvData \/ SrvEnd
  BY <1>4, SrvStartTurn, SrvDataTurn, SrvEndTurn
<1>5. CASE Disconnect \/ OnDisconnected
  BY <1>5, DisconnectTurn, OnDisconnectedTurn
<1> QED
  BY <1>1, <1>2, <1>3, <1>4, <1>5, StepCases

(* A user who did not wait once is never taken for one who does.           *)
LEMMA OverlappedStays == Next /\ ~overlapped' => ~overlapped
<1> SUFFICES ASSUME Next, overlapped PROVE overlapped'
  OBVIOUS
<1>1. CASE \E n \in Counts : RequestStressTest(n)
  BY <1>1 DEF RequestStressTest
<1>2. CASE UNCHANGED userVars
  BY <1>2 DEF userVars
<1> QED
  BY <1>1, <1>2, StepCases DEF StoreConfig, StoreCount, ResetSeq, ResetEchoes, Stores,
         SendStart, OnStart, OnEcho, OnResult, TimerHandler,
    TimerExpires, SrvStart, SrvData, SrvEnd, ServerHandle, Disconnect, OnDisconnected

(* The inductive invariant of a user who waits: where his one test is, and *)
(* what is under way for it (client.cpp:113-165, server.cpp:188-269).      *)
THEOREM TurnInvariant == Spec => []TurnInv
<1>1. Init => TurnInv
  <2> SUFFICES ASSUME Init PROVE TurnInv
    OBVIOUS
  <2>1. Between
    BY DEF Init, Between
  <2>2. OneWait /\ ~crashed /\ ExactSoFar
    BY DEF Init, OneWait, ExactSoFar
  <2> QED
    BY <2>1, <2>2, InitStressInv DEF TurnInv, Turn
<1>2. TurnInv /\ [Next]_vars => TurnInv'
  <2> SUFFICES ASSUME TurnInv, [Next]_vars PROVE TurnInv'
    OBVIOUS
  <2>1. StressInv'
    BY StepStressInv DEF TurnInv
  <2>2. CASE Next
    <3>1. ~overlapped' => Turn'
      BY <2>2, StepTurn, OverlappedStays DEF TurnInv
    <3> QED
      BY <2>1, <3>1 DEF TurnInv
  <2>3. CASE UNCHANGED vars
    <3>1. UNCHANGED <<active, count, currentSeq, echoes, main, asked, waiting, expired, crashed,
                      srvActive, srvCount, seen, lastSeq, connected, toServer, toClient,
                      requests, overlapped, results>>
      BY <2>3 DEF vars, clientVars, testVars, mainVars, timerVars, serverVars, userVars
    <3>2. Turn <=> Turn'
      BY <3>1 DEF Turn, Between, Preparing, Starting, Fresh, Running, DataUnderWay, Answering,
        OneWait, ExactSoFar
    <3> QED
      BY <2>1, <3>1, <3>2 DEF TurnInv
  <2> QED
    BY <2>2, <2>3
<1> QED
  BY <1>1, <1>2, PTL DEF Spec

(* For any counts and any number of tests of a user who waits for each     *)
(* result: every result is exact, also of a test that a disconnect hits    *)
(* (server.cpp:303-305).                                                   *)
THEOREM ResultsExact == Spec => []ResultExact
<1>1. TurnInv => ResultExact
  BY DEF TurnInv, Turn, ResultExact
<1> QED
  BY <1>1, TurnInvariant, PTL

(* The progress is never divided by zero (client.cpp:137).                 *)
THEOREM NeverCrashes == Spec => []NoDivisionByZero
<1>1. TurnInv => NoDivisionByZero
  BY DEF TurnInv, Turn, NoDivisionByZero
<1> QED
  BY <1>1, TurnInvariant, PTL

(* The timer is quiet between two tests (client.cpp:346-353).              *)
THEOREM TimerQuietBetween == Spec => []TimerQuiet
<1>1. TurnInv => TimerQuiet
  BY Numbers DEF TurnInv, Turn, OneWait, TimerQuiet
<1> QED
  BY <1>1, TurnInvariant, PTL
==============================================================================

-------------------------- MODULE MemoryPoolProofs --------------------------
(***************************************************************************)
(* The memory pools, for any threads, blocks, pool sizes and requests:     *)
(* every block has one place, is as large as its header and its pool say,  *)
(* and the pools implement the allocator.                                  *)
(***************************************************************************)
EXTENDS MemoryPool, TLAPS

(* The initial state. *)
LEMMA InitMemoryInv == Init => MemoryInv
<1> SUFFICES ASSUME Init PROVE MemoryInv
  OBVIOUS
<1>1. TypeOK
  <2>1. Idle \in Calls
    BY DEF Idle, Calls
  <2>2. <<>> \in Seq(Blocks)
    OBVIOUS
  <2> QED
    BY <2>1, <2>2 DEF Init, TypeOK
<1>2. CallsOK
  BY DEF Init, CallsOK, Idle
<1>3. OnePlace /\ NoneLost
  BY DEF Init, OnePlace, NoneLost, Moves, Idle
<1>4. EnoughRoom
  BY DEF Init, EnoughRoom, Moves, Idle
<1> QED
  BY <1>1, <1>2, <1>3, <1>4 DEF MemoryInv

(* A thread enters a call, or ends one. *)
LEMMA EnterEffect ==
  ASSUME TypeOK, NEW t \in Threads, NEW c \in Calls, call' = [call EXCEPT ![t] = c]
  PROVE  /\ call' \in [Threads -> Calls]
         /\ call'[t] = c
         /\ \A u \in Threads \ {t} : call'[u] = call[u]
BY DEF TypeOK

(* A thread asks for memory. *)
LEMMA AllocateInv ==
  ASSUME MemoryInv, NEW t \in Threads, NEW size \in Asked, Allocate(t, size)
  PROVE  MemoryInv'
<1> DEFINE c == [at |-> "pop", block |-> NoBlock, size |-> size]
<1>1. c \in Calls /\ c.at = "pop" /\ c.size = size
  BY MemoryAssumption DEF Calls
<1>2. call' = [call EXCEPT ![t] = c]
  BY DEF Allocate, Enter
<1>3. /\ call[t] = Idle /\ UNCHANGED <<malloced, capacity, allocSize, queue, held>>
  BY DEF Allocate
<1> HIDE DEF c
<1>4. /\ call' \in [Threads -> Calls] /\ call'[t] = c
      /\ \A u \in Threads \ {t} : call'[u] = call[u]
  BY <1>1, <1>2, EnterEffect DEF MemoryInv
<1>5. ~Moves(t) /\ ~Moves(t)' /\ \A u \in Threads \ {t} : Moves(u)' = Moves(u)
  BY <1>1, <1>3, <1>4 DEF Moves, Idle
<1>6. TypeOK'
  BY <1>3, <1>4 DEF MemoryInv, TypeOK
<1>7. CallsOK'
  BY <1>1, <1>4 DEF MemoryInv, CallsOK
<1>8. OnePlace'
  BY <1>3, <1>4, <1>5 DEF MemoryInv, OnePlace
<1>9. NoneLost'
  BY <1>3, <1>4, <1>5 DEF MemoryInv, NoneLost
<1>10. EnoughRoom'
  BY <1>3, <1>4, <1>5 DEF MemoryInv, EnoughRoom
<1> QED
  BY <1>6, <1>7, <1>8, <1>9, <1>10 DEF MemoryInv

(* malloc gives a block that had no place before. *)
LEMMA MallocInv ==
  ASSUME MemoryInv, NEW t \in Threads, call[t].at = "pop", NEW bytes \in Nat,
         bytes >= call[t].size, Malloc(t, call[t].size, bytes)
  PROVE  MemoryInv'
<1>1. PICK b \in Blocks \ malloced :
        /\ malloced' = malloced \cup {b}
        /\ capacity' = [capacity EXCEPT ![b] = bytes]
        /\ Enter(t, "attach", b, call[t].size)
        /\ UNCHANGED <<allocSize, queue, held>>
  BY DEF Malloc
<1> DEFINE c == [at |-> "attach", block |-> b, size |-> call[t].size]
<1>2. /\ TypeOK /\ CallsOK /\ OnePlace /\ NoneLost /\ EnoughRoom
      /\ call[t] \in Calls /\ call[t].size \in Nat /\ call[t].size \in Asked
  BY DEF MemoryInv, TypeOK, CallsOK, Calls
<1>3. c \in Calls /\ c.at = "attach" /\ c.size = call[t].size /\ c.block = b
  BY <1>2 DEF Calls
<1>4. call' = [call EXCEPT ![t] = c]
  BY <1>1 DEF Enter
<1> HIDE DEF c
<1>5. /\ call' \in [Threads -> Calls] /\ call'[t] = c
      /\ \A u \in Threads \ {t} : call'[u] = call[u]
  BY <1>2, <1>3, <1>4, EnterEffect
<1>6. ~Moves(t) /\ Moves(t)' /\ \A u \in Threads \ {t} : Moves(u)' = Moves(u)
  BY <1>3, <1>5 DEF Moves
<1>7. /\ capacity' \in [Blocks -> Nat] /\ capacity'[b] = bytes
      /\ \A d \in malloced : capacity'[d] = capacity[d]
  BY <1>1, <1>2 DEF TypeOK
<1>8. TypeOK'
  BY <1>1, <1>2, <1>5, <1>7 DEF TypeOK
<1>9. CallsOK'
  BY <1>2, <1>3, <1>5 DEF CallsOK
<1>10. OnePlace'
  <2>1. /\ held' \subseteq malloced'
        /\ \A u \in Threads : Moves(u)' => call'[u].block \in malloced' \ held'
        /\ \A p \in Pools : \A i \in DOMAIN queue[p] : queue[p][i] \in malloced' \ held'
    BY <1>1, <1>2, <1>3, <1>5, <1>6 DEF OnePlace
  <2>2. \A u, v \in Threads : Moves(u)' /\ Moves(v)' /\ call'[u].block = call'[v].block => u = v
    BY <1>1, <1>2, <1>3, <1>5, <1>6 DEF OnePlace
  <2>3. \A u \in Threads, p \in Pools : \A i \in DOMAIN queue[p] :
          Moves(u)' => queue[p][i] # call'[u].block
    BY <1>1, <1>2, <1>3, <1>5, <1>6 DEF OnePlace
  <2> QED
    BY <1>1, <1>2, <2>1, <2>2, <2>3 DEF OnePlace
<1>11. NoneLost'
  BY <1>1, <1>2, <1>3, <1>5, <1>6 DEF NoneLost
<1>12. EnoughRoom'
  <2>1. \A u \in Threads : Moves(u)' => capacity'[call'[u].block] >= call'[u].size
    BY <1>2, <1>3, <1>5, <1>6, <1>7 DEF OnePlace, EnoughRoom
  <2>2. \A d \in held : allocSize[d] # 0 /\ capacity'[d] >= allocSize[d]
    BY <1>2, <1>7 DEF OnePlace, EnoughRoom
  <2>3. \A p \in Pools : \A i \in DOMAIN queue[p] : capacity'[queue[p][i]] >= p
    BY <1>2, <1>7 DEF OnePlace, EnoughRoom
  <2> QED
    BY <1>1, <2>1, <2>2, <2>3 DEF EnoughRoom
<1> QED
  BY <1>8, <1>9, <1>10, <1>11, <1>12 DEF MemoryInv

(* The ends of a queue. *)
LEMMA FrontAndLast ==
  ASSUME NEW s \in Seq(Blocks), s # <<>>
  PROVE  /\ Front(s) \in Seq(Blocks) /\ DOMAIN s = DOMAIN Front(s) \cup {Len(s)}
         /\ Len(s) \in Nat /\ Len(s) \notin DOMAIN Front(s) /\ Last(s) = s[Len(s)] /\ Last(s) \in Blocks
         /\ \A i \in DOMAIN Front(s) : Front(s)[i] = s[i]
<1>1. Len(s) \in Nat \ {0} /\ DOMAIN s = 1..Len(s) /\ s[Len(s)] \in Blocks
  OBVIOUS
<1>2. Front(s) = SubSeq(s, 1, Len(s) - 1)
  BY DEF Front
<1>3. \A i \in 1..(Len(s) - 1) : s[i] \in Blocks
  BY <1>1
<1>4. Front(s) \in Seq(Blocks) /\ Len(Front(s)) = Len(s) - 1
  BY <1>1, <1>2, <1>3
<1>5. DOMAIN Front(s) = 1..(Len(s) - 1)
  BY <1>1, <1>4
<1>6. \A i \in 1..(Len(s) - 1) : Front(s)[i] = s[i]
  BY <1>1, <1>2
<1>7. Last(s) = s[Len(s)]
  BY DEF Last
<1>8. 1..Len(s) = 1..(Len(s) - 1) \cup {Len(s)} /\ Len(s) \notin 1..(Len(s) - 1)
  BY <1>1
<1> QED
  BY <1>1, <1>4, <1>5, <1>6, <1>7, <1>8

LEMMA Appended ==
  ASSUME NEW s \in Seq(Blocks), NEW b \in Blocks
  PROVE  /\ Append(s, b) \in Seq(Blocks)
         /\ DOMAIN Append(s, b) = DOMAIN s \cup {Len(s) + 1} /\ Len(s) + 1 \notin DOMAIN s
         /\ Append(s, b)[Len(s) + 1] = b
         /\ \A i \in DOMAIN s : Append(s, b)[i] = s[i]
OBVIOUS

(* Pop takes the newest block of the pool. *)
LEMMA PopInv ==
  ASSUME MemoryInv, NEW t \in Threads, call[t].at = "pop",
         NEW p \in Pools, p >= call[t].size, queue[p] # <<>>,
         Enter(t, "attach", Last(queue[p]), call[t].size),
         queue' = [queue EXCEPT ![p] = Front(queue[p])],
         UNCHANGED <<malloced, capacity, allocSize, held>>
  PROVE  MemoryInv'
<1> DEFINE s == queue[p]
           b == Last(s)
           c == [at |-> "attach", block |-> b, size |-> call[t].size]
<1>1. /\ TypeOK /\ CallsOK /\ OnePlace /\ NoneLost /\ EnoughRoom
      /\ call[t] \in Calls /\ call[t].size \in Nat /\ call[t].size \in Asked
      /\ s \in Seq(Blocks)
  BY DEF MemoryInv, TypeOK, CallsOK, Calls
<1>2. /\ Front(s) \in Seq(Blocks) /\ DOMAIN s = DOMAIN Front(s) \cup {Len(s)}
      /\ Len(s) \in Nat /\ Len(s) \notin DOMAIN Front(s) /\ b = s[Len(s)] /\ b \in Blocks
      /\ \A i \in DOMAIN Front(s) : Front(s)[i] = s[i]
  BY <1>1, FrontAndLast
<1>3. c \in Calls /\ c.at = "attach" /\ c.size = call[t].size /\ c.block = b
  BY <1>1, <1>2 DEF Calls
<1>4. call' = [call EXCEPT ![t] = c]
  BY DEF Enter
<1>5. /\ queue' \in [Pools -> Seq(Blocks)]
      /\ queue'[p] = Front(s) /\ \A q \in Pools \ {p} : queue'[q] = queue[q]
  BY <1>1, <1>2 DEF TypeOK
<1>6. \A q \in Pools : \A i \in DOMAIN queue'[q] :
        i \in DOMAIN queue[q] /\ queue'[q][i] = queue[q][i] /\ (q = p => i # Len(s))
  BY <1>2, <1>5
<1>7. b \in malloced \ held /\ capacity[b] >= p
  BY <1>1, <1>2 DEF OnePlace, EnoughRoom
<1>8. \A q \in Pools : \A i \in DOMAIN queue'[q] : queue'[q][i] # b
  BY <1>1, <1>2, <1>6 DEF OnePlace
<1>9. \A u \in Threads : Moves(u) => call[u].block # b
  BY <1>1, <1>2 DEF OnePlace
<1>10. \A q \in Pools : \A i \in DOMAIN queue[q] :
         queue[q][i] = b \/ (i \in DOMAIN queue'[q] /\ queue'[q][i] = queue[q][i])
  BY <1>2, <1>5
<1> HIDE DEF c, b, s
<1>11. /\ call' \in [Threads -> Calls] /\ call'[t] = c
       /\ \A u \in Threads \ {t} : call'[u] = call[u]
  BY <1>1, <1>3, <1>4, EnterEffect
<1>12. ~Moves(t) /\ Moves(t)' /\ \A u \in Threads \ {t} : Moves(u)' = Moves(u)
  BY <1>3, <1>11 DEF Moves
<1>13. TypeOK'
  BY <1>1, <1>5, <1>11 DEF TypeOK
<1>14. CallsOK'
  BY <1>1, <1>3, <1>11 DEF CallsOK
<1>15. OnePlace'
  <2>1. /\ held' \subseteq malloced'
        /\ \A u \in Threads : Moves(u)' => call'[u].block \in malloced' \ held'
        /\ \A q \in Pools : \A i \in DOMAIN queue'[q] : queue'[q][i] \in malloced' \ held'
    BY <1>1, <1>3, <1>6, <1>7, <1>11, <1>12 DEF OnePlace
  <2>2. \A u, v \in Threads : Moves(u)' /\ Moves(v)' /\ call'[u].block = call'[v].block => u = v
    BY <1>1, <1>3, <1>9, <1>11, <1>12 DEF OnePlace
  <2>3. \A u \in Threads, q \in Pools : \A i \in DOMAIN queue'[q] :
          Moves(u)' => queue'[q][i] # call'[u].block
    BY <1>1, <1>3, <1>6, <1>8, <1>11, <1>12 DEF OnePlace
  <2>4. \A q, r \in Pools : \A i \in DOMAIN queue'[q], j \in DOMAIN queue'[r] :
          queue'[q][i] = queue'[r][j] => q = r /\ i = j
    BY <1>1, <1>6 DEF OnePlace
  <2> QED
    BY <2>1, <2>2, <2>3, <2>4 DEF OnePlace
<1>16. NoneLost'
  <2> SUFFICES ASSUME NEW d \in malloced
               PROVE  \/ d \in held
                      \/ \E u \in Threads : Moves(u)' /\ call'[u].block = d
                      \/ \E q \in Pools : \E i \in DOMAIN queue'[q] : queue'[q][i] = d
    BY DEF NoneLost
  <2>1. CASE d = b
    BY <1>3, <1>11, <1>12, <2>1
  <2>2. CASE d # b
    <3>1. CASE \E q \in Pools : \E i \in DOMAIN queue[q] : queue[q][i] = d
      BY <1>10, <2>2, <3>1
    <3>2. CASE \E u \in Threads : Moves(u) /\ call[u].block = d
      BY <1>11, <1>12, <3>2
    <3> QED
      BY <1>1, <3>1, <3>2 DEF NoneLost
  <2> QED
    BY <2>1, <2>2
<1>17. EnoughRoom'
  <2>1. \A u \in Threads : Moves(u)' => capacity[call'[u].block] >= call'[u].size
    <3>1. capacity[b] \in Nat /\ p \in Nat
      BY <1>1, <1>7, MemoryAssumption DEF TypeOK
    <3>2. capacity[b] >= call[t].size
      BY <1>1, <1>7, <3>1
    <3> QED
      BY <1>1, <1>3, <1>11, <1>12, <3>2 DEF EnoughRoom
  <2>2. \A q \in Pools : \A i \in DOMAIN queue'[q] : capacity[queue'[q][i]] >= q
    BY <1>1, <1>6 DEF EnoughRoom
  <2> QED
    BY <1>1, <2>1, <2>2 DEF EnoughRoom
<1> QED
  BY <1>13, <1>14, <1>15, <1>16, <1>17 DEF MemoryInv

(* The header is written and the block given to the program. *)
LEMMA AttachHeaderInv ==
  ASSUME MemoryInv, NEW t \in Threads, AttachHeader(t)
  PROVE  MemoryInv'
<1> DEFINE b == call[t].block
<1>1. /\ TypeOK /\ CallsOK /\ OnePlace /\ NoneLost /\ EnoughRoom
      /\ call[t].at = "attach" /\ call[t].size \in Asked
      /\ allocSize' = [allocSize EXCEPT ![b] = call[t].size] /\ held' = held \cup {b}
      /\ call' = [call EXCEPT ![t] = Idle] /\ UNCHANGED <<malloced, capacity, queue>>
  BY DEF MemoryInv, CallsOK, AttachHeader
<1>2. Moves(t) /\ b \in malloced \ held /\ capacity[b] >= call[t].size /\ b \in Blocks
      /\ call[t].size \in Nat \ {0}
  BY <1>1, MemoryAssumption DEF Moves, OnePlace, EnoughRoom, TypeOK
<1>3. Idle \in Calls /\ Idle.at = "idle"
  BY DEF Calls, Idle
<1>4. /\ call' \in [Threads -> Calls] /\ call'[t] = Idle
      /\ \A u \in Threads \ {t} : call'[u] = call[u]
  BY <1>1, <1>3, EnterEffect
<1>5. ~Moves(t)' /\ \A u \in Threads \ {t} : Moves(u)' = Moves(u)
  BY <1>3, <1>4 DEF Moves
<1>6. allocSize' \in [Blocks -> Nat] /\ allocSize'[b] = call[t].size
      /\ \A d \in Blocks \ {b} : allocSize'[d] = allocSize[d]
  BY <1>1, <1>2 DEF TypeOK
<1>7. TypeOK'
  BY <1>1, <1>2, <1>4, <1>6 DEF TypeOK
<1>8. CallsOK'
  BY <1>1, <1>3, <1>4 DEF CallsOK
<1>9. OnePlace'
  BY <1>1, <1>2, <1>4, <1>5 DEF OnePlace
<1>10. NoneLost'
  BY <1>1, <1>4, <1>5 DEF NoneLost
<1>11. EnoughRoom'
  <2>1. held' \subseteq Blocks
    BY <1>7 DEF TypeOK
  <2> QED
    BY <1>1, <1>2, <1>4, <1>5, <1>6, <2>1 DEF EnoughRoom
<1> QED
  BY <1>7, <1>8, <1>9, <1>10, <1>11 DEF MemoryInv

(* A block that no pool takes back is freed. *)
LEMMA FreeInv ==
  ASSUME MemoryInv, NEW t \in Threads, NEW b \in held, Free(t, b)
  PROVE  MemoryInv'
<1>1. /\ TypeOK /\ CallsOK /\ OnePlace /\ NoneLost /\ EnoughRoom
      /\ held' = held \ {b} /\ malloced' = malloced \ {b}
      /\ UNCHANGED <<capacity, allocSize, queue, call>>
  BY DEF MemoryInv, Free
<1>2. \A u \in Threads : Moves(u)' = Moves(u)
  BY <1>1 DEF Moves
<1>3. TypeOK' /\ CallsOK'
  BY <1>1 DEF TypeOK, CallsOK
<1>4. OnePlace'
  BY <1>1, <1>2 DEF OnePlace
<1>5. NoneLost' /\ EnoughRoom'
  BY <1>1, <1>2 DEF NoneLost, EnoughRoom
<1> QED
  BY <1>3, <1>4, <1>5 DEF MemoryInv

(* A block on its way back to its pool. *)
LEMMA BeginPushInv ==
  ASSUME MemoryInv, NEW t \in Threads, NEW b \in held, BeginPush(t, b)
  PROVE  MemoryInv'
<1> DEFINE c == [at |-> "push", block |-> b, size |-> allocSize[b]]
<1>1. /\ TypeOK /\ CallsOK /\ OnePlace /\ NoneLost /\ EnoughRoom
      /\ call[t] = Idle /\ allocSize[b] \in Pools /\ held' = held \ {b}
      /\ allocSize' = [allocSize EXCEPT ![b] = 0] /\ call' = [call EXCEPT ![t] = c]
      /\ UNCHANGED <<malloced, capacity, queue>>
  BY DEF MemoryInv, BeginPush, Enter
<1>2. b \in Blocks /\ b \in malloced /\ allocSize[b] \in Nat /\ capacity[b] >= allocSize[b]
  BY <1>1 DEF TypeOK, OnePlace, EnoughRoom
<1>3. c \in Calls /\ c.at = "push" /\ c.size = allocSize[b] /\ c.block = b
  BY <1>2 DEF Calls
<1> HIDE DEF c
<1>4. /\ call' \in [Threads -> Calls] /\ call'[t] = c
      /\ \A u \in Threads \ {t} : call'[u] = call[u]
  BY <1>1, <1>3, EnterEffect
<1>5. ~Moves(t) /\ Moves(t)' /\ \A u \in Threads \ {t} : Moves(u)' = Moves(u)
  BY <1>1, <1>3, <1>4 DEF Moves, Idle
<1>6. allocSize' \in [Blocks -> Nat] /\ \A d \in Blocks \ {b} : allocSize'[d] = allocSize[d]
  BY <1>1, <1>2 DEF TypeOK
<1>7. TypeOK'
  BY <1>1, <1>4, <1>6 DEF TypeOK
<1>8. CallsOK'
  BY <1>1, <1>3, <1>4 DEF CallsOK
<1>9. OnePlace'
  BY <1>1, <1>2, <1>3, <1>4, <1>5 DEF OnePlace
<1>10. NoneLost'
  BY <1>1, <1>3, <1>4, <1>5 DEF NoneLost
<1>11. EnoughRoom'
  <2>1. held \subseteq Blocks
    BY <1>1 DEF TypeOK
  <2> QED
    BY <1>1, <1>2, <1>3, <1>4, <1>5, <1>6, <2>1 DEF EnoughRoom
<1> QED
  BY <1>7, <1>8, <1>9, <1>10, <1>11 DEF MemoryInv

(* The pool takes the block. *)
LEMMA PushInv ==
  ASSUME MemoryInv, NEW t \in Threads, Push(t)
  PROVE  MemoryInv'
<1> DEFINE b == call[t].block
           p == call[t].size
           s == queue[p]
<1>1. /\ TypeOK /\ CallsOK /\ OnePlace /\ NoneLost /\ EnoughRoom
      /\ call[t].at = "push" /\ p \in Pools /\ s \in Seq(Blocks)
      /\ call' = [call EXCEPT ![t] = Idle] /\ UNCHANGED <<malloced, capacity, allocSize, held>>
  BY DEF MemoryInv, CallsOK, TypeOK, Push
<1>2. Moves(t) /\ b \in malloced \ held /\ capacity[b] >= p /\ b \in Blocks
  BY <1>1 DEF Moves, OnePlace, EnoughRoom, TypeOK
<1>3. /\ Append(s, b) \in Seq(Blocks)
      /\ DOMAIN Append(s, b) = DOMAIN s \cup {Len(s) + 1} /\ Len(s) + 1 \notin DOMAIN s
      /\ Append(s, b)[Len(s) + 1] = b
      /\ \A i \in DOMAIN s : Append(s, b)[i] = s[i]
  BY <1>1, <1>2, Appended
<1>4. /\ queue' \in [Pools -> Seq(Blocks)]
      /\ queue'[p] = Append(s, b) /\ \A q \in Pools \ {p} : queue'[q] = queue[q]
  BY <1>1, <1>3 DEF TypeOK, Push
<1>5. Idle \in Calls /\ Idle.at = "idle"
  BY DEF Calls, Idle
<1>6. /\ call' \in [Threads -> Calls] /\ call'[t] = Idle
      /\ \A u \in Threads \ {t} : call'[u] = call[u]
  BY <1>1, <1>5, EnterEffect
<1>7. ~Moves(t)' /\ \A u \in Threads \ {t} : Moves(u)' = Moves(u)
  BY <1>5, <1>6 DEF Moves
<1>8. \A q \in Pools : \A i \in DOMAIN queue'[q] :
        \/ i \in DOMAIN queue[q] /\ queue'[q][i] = queue[q][i]
        \/ q = p /\ i = Len(s) + 1 /\ queue'[q][i] = b
  BY <1>3, <1>4
<1>9. \A q \in Pools : \A i \in DOMAIN queue[q] :
        i \in DOMAIN queue'[q] /\ queue'[q][i] = queue[q][i]
  BY <1>3, <1>4
<1>10. \A q \in Pools : \A i \in DOMAIN queue[q] : queue[q][i] # b
  BY <1>1, <1>2 DEF OnePlace
<1>11. Len(s) + 1 \in DOMAIN queue'[p] /\ queue'[p][Len(s) + 1] = b
  BY <1>3, <1>4
<1> HIDE DEF b, p, s
<1>12. b = call[t].block /\ p = call[t].size
  BY DEF b, p
<1>13. TypeOK'
  BY <1>1, <1>4, <1>6 DEF TypeOK
<1>14. CallsOK'
  BY <1>1, <1>5, <1>6 DEF CallsOK
<1>15. OnePlace'
  <2>1. /\ held' \subseteq malloced'
        /\ \A u \in Threads : Moves(u)' => call'[u].block \in malloced' \ held'
        /\ \A q \in Pools : \A i \in DOMAIN queue'[q] : queue'[q][i] \in malloced' \ held'
    BY <1>1, <1>2, <1>6, <1>7, <1>8 DEF OnePlace
  <2>2. \A u, v \in Threads : Moves(u)' /\ Moves(v)' /\ call'[u].block = call'[v].block => u = v
    BY <1>1, <1>6, <1>7 DEF OnePlace
  <2>3. \A u \in Threads, q \in Pools : \A i \in DOMAIN queue'[q] :
          Moves(u)' => queue'[q][i] # call'[u].block
    BY <1>1, <1>2, <1>6, <1>7, <1>8, <1>12 DEF OnePlace
  <2>4. \A q, r \in Pools : \A i \in DOMAIN queue'[q], j \in DOMAIN queue'[r] :
          queue'[q][i] = queue'[r][j] => q = r /\ i = j
    BY <1>1, <1>8, <1>10 DEF OnePlace
  <2> QED
    BY <2>1, <2>2, <2>3, <2>4 DEF OnePlace
<1>16. NoneLost'
  <2> SUFFICES ASSUME NEW d \in malloced
               PROVE  \/ d \in held
                      \/ \E u \in Threads : Moves(u)' /\ call'[u].block = d
                      \/ \E q \in Pools : \E i \in DOMAIN queue'[q] : queue'[q][i] = d
    BY <1>1 DEF NoneLost
  <2>1. CASE d = b
    BY <1>1, <1>11, <2>1
  <2>2. CASE d # b
    <3>1. CASE \E q \in Pools : \E i \in DOMAIN queue[q] : queue[q][i] = d
      BY <1>9, <3>1
    <3>2. CASE \E u \in Threads : Moves(u) /\ call[u].block = d
      BY <1>6, <1>7, <1>12, <2>2, <3>2
    <3> QED
      BY <1>1, <3>1, <3>2 DEF NoneLost
  <2> QED
    BY <2>1, <2>2
<1>17. EnoughRoom'
  <2>1. \A q \in Pools : \A i \in DOMAIN queue'[q] : capacity[queue'[q][i]] >= q
    BY <1>1, <1>2, <1>8 DEF EnoughRoom
  <2>2. \A u \in Threads : Moves(u)' => capacity[call'[u].block] >= call'[u].size
    BY <1>1, <1>6, <1>7 DEF EnoughRoom
  <2> QED
    BY <1>1, <2>1, <2>2 DEF EnoughRoom
<1> QED
  BY <1>13, <1>14, <1>15, <1>16, <1>17 DEF MemoryInv

-----------------------------------------------------------------------------
(* Every step keeps the invariant. *)
LEMMA StepMemoryInv == MemoryInv /\ [Next]_vars => MemoryInv'
<1> SUFFICES ASSUME MemoryInv, [Next]_vars PROVE MemoryInv'
  OBVIOUS
<1>1. ASSUME NEW t \in Threads, NEW size \in Asked, Allocate(t, size) PROVE MemoryInv'
  BY <1>1, AllocateInv
<1>2. ASSUME NEW t \in Threads, AllocateDirectly(t) PROVE MemoryInv'
  <2>1. call[t].size \in Nat
    BY DEF MemoryInv, TypeOK, Calls
  <2>2. call[t].at = "pop" /\ Malloc(t, call[t].size, call[t].size)
    BY <1>2 DEF AllocateDirectly
  <2> QED
    BY <2>1, <2>2, MallocInv
<1>3. ASSUME NEW t \in Threads, Pop(t) PROVE MemoryInv'
  <2>1. PICK p \in PoolFor(call[t].size) :
          IF queue[p] = <<>>
            THEN Malloc(t, call[t].size, p)
            ELSE /\ Enter(t, "attach", Last(queue[p]), call[t].size)
                 /\ queue' = [queue EXCEPT ![p] = Shorter(queue[p])]
                 /\ UNCHANGED <<malloced, capacity, allocSize, held>>
    BY <1>3 DEF Pop
  <2>2. call[t].at = "pop" /\ p \in Pools /\ p \in Nat /\ p >= call[t].size
    BY <1>3, MemoryAssumption DEF Pop, PoolFor, Fitting
  <2>3. CASE queue[p] = <<>>
    BY <2>1, <2>2, <2>3, MallocInv
  <2>4. CASE queue[p] # <<>>
    BY <2>1, <2>2, <2>4, PopInv DEF Shorter
  <2> QED
    BY <2>3, <2>4
<1>4. ASSUME NEW t \in Threads, AttachHeader(t) PROVE MemoryInv'
  BY <1>4, AttachHeaderInv
<1>5. ASSUME NEW t \in Threads, NEW b \in held, Free(t, b) PROVE MemoryInv'
  BY <1>5, FreeInv
<1>6. ASSUME NEW t \in Threads, NEW b \in held, BeginPush(t, b) PROVE MemoryInv'
  BY <1>6, BeginPushInv
<1>7. ASSUME NEW t \in Threads, Push(t) PROVE MemoryInv'
  BY <1>7, PushInv
<1>8. CASE UNCHANGED vars
  BY <1>8 DEF vars, MemoryInv, TypeOK, CallsOK, OnePlace, NoneLost, EnoughRoom, Moves
<1> QED
  BY <1>1, <1>2, <1>3, <1>4, <1>5, <1>6, <1>7, <1>8 DEF Next

(***************************************************************************)
(* Every block malloc gave out is in one place only, held, queued or       *)
(* moved, and has the room its header or its pool promises.                *)
(***************************************************************************)
THEOREM MemoryInvariant == Spec => []MemoryInv
BY InitMemoryInv, StepMemoryInv, PTL DEF Spec

-----------------------------------------------------------------------------
(* What the allocator sees of a state. *)
Wanted == [t \in Threads |-> IF call[t].at \in {"pop", "attach"} THEN call[t].size ELSE 0]
Room == [b \in held |-> capacity[b]]

LEMMA InitAllocator == Init => Memory!Init
BY DEF Init, Idle, Memory!Init

(* A thread whose call changes from one to another the allocator cannot    *)
(* tell apart.                                                             *)
LEMMA SameWanted ==
  ASSUME TypeOK, NEW t \in Threads, NEW c \in Calls, call' = [call EXCEPT ![t] = c],
         (IF c.at \in {"pop", "attach"} THEN c.size ELSE 0) = Wanted[t]
  PROVE  Wanted' = Wanted
<1>1. call'[t] = c /\ \A u \in Threads \ {t} : call'[u] = call[u]
  BY EnterEffect
<1>2. ASSUME NEW u \in Threads PROVE Wanted'[u] = Wanted[u]
  BY <1>1 DEF Wanted
<1> QED
  BY <1>2 DEF Wanted

LEMMA NewWanted ==
  ASSUME TypeOK, NEW t \in Threads, NEW c \in Calls, call' = [call EXCEPT ![t] = c],
         NEW w, w = IF c.at \in {"pop", "attach"} THEN c.size ELSE 0
  PROVE  Wanted' = [Wanted EXCEPT ![t] = w]
<1>1. call'[t] = c /\ \A u \in Threads \ {t} : call'[u] = call[u]
  BY EnterEffect
<1>2. ASSUME NEW u \in Threads PROVE Wanted'[u] = [Wanted EXCEPT ![t] = w][u]
  BY <1>1 DEF Wanted
<1> QED
  BY <1>2 DEF Wanted

LEMMA AllocateAsks ==
  ASSUME MemoryInv, NEW t \in Threads, NEW size \in Asked, Allocate(t, size)
  PROVE  Memory!Ask(t, size)
<1> DEFINE c == [at |-> "pop", block |-> NoBlock, size |-> size]
<1>1. c \in Calls /\ c.at = "pop" /\ c.size = size
  BY MemoryAssumption DEF Calls
<1>2. call' = [call EXCEPT ![t] = c] /\ call[t] = Idle /\ UNCHANGED <<capacity, held>>
  BY DEF Allocate, Enter
<1> HIDE DEF c
<1>3. Wanted' = [Wanted EXCEPT ![t] = size]
  BY <1>1, <1>2, NewWanted DEF MemoryInv
<1>4. Wanted[t] = 0
  BY <1>2 DEF Wanted, Idle
<1>5. Room' = Room
  BY <1>2 DEF Room
<1> QED
  BY <1>3, <1>4, <1>5 DEF Memory!Ask, Wanted, Room

(* malloc's block is not given out yet. *)
LEMMA MallocStutters ==
  ASSUME MemoryInv, NEW t \in Threads, call[t].at = "pop", NEW bytes \in Nat,
         Malloc(t, call[t].size, bytes)
  PROVE  Wanted' = Wanted /\ Room' = Room
<1>1. PICK b \in Blocks \ malloced :
        /\ capacity' = [capacity EXCEPT ![b] = bytes]
        /\ Enter(t, "attach", b, call[t].size) /\ UNCHANGED held
  BY DEF Malloc
<1> DEFINE c == [at |-> "attach", block |-> b, size |-> call[t].size]
<1>2. c \in Calls /\ c.at = "attach" /\ c.size = call[t].size
  BY DEF MemoryInv, TypeOK, Calls
<1>3. call' = [call EXCEPT ![t] = c]
  BY <1>1 DEF Enter
<1> HIDE DEF c
<1>4. Wanted[t] = call[t].size
  BY DEF Wanted
<1>5. Wanted' = Wanted
  BY <1>2, <1>3, <1>4, SameWanted DEF MemoryInv
<1>6. \A d \in held : capacity'[d] = capacity[d]
  BY <1>1 DEF MemoryInv, TypeOK, OnePlace
<1>7. Room' = Room
  BY <1>1, <1>6 DEF Room
<1> QED
  BY <1>5, <1>7

LEMMA PopStutters ==
  ASSUME MemoryInv, NEW t \in Threads, Pop(t)
  PROVE  Wanted' = Wanted /\ Room' = Room
<1>1. PICK p \in PoolFor(call[t].size) :
        IF queue[p] = <<>>
          THEN Malloc(t, call[t].size, p)
          ELSE Enter(t, "attach", Last(queue[p]), call[t].size) /\ UNCHANGED <<capacity, held>>
  BY DEF Pop
<1>2. call[t].at = "pop" /\ p \in Pools /\ p \in Nat /\ queue[p] \in Seq(Blocks)
  BY MemoryAssumption DEF Pop, PoolFor, Fitting, MemoryInv, TypeOK
<1>3. CASE queue[p] = <<>>
  BY <1>1, <1>2, <1>3, MallocStutters
<1>4. CASE queue[p] # <<>>
  <2> DEFINE c == [at |-> "attach", block |-> Last(queue[p]), size |-> call[t].size]
  <2>1. Last(queue[p]) \in Blocks
    BY <1>2, <1>4, FrontAndLast
  <2>2. c \in Calls /\ c.at = "attach" /\ c.size = call[t].size
    BY <2>1 DEF MemoryInv, TypeOK, Calls
  <2>3. call' = [call EXCEPT ![t] = c] /\ UNCHANGED <<capacity, held>>
    BY <1>1, <1>4 DEF Enter
  <2> HIDE DEF c
  <2>4. Wanted[t] = call[t].size
    BY <1>2 DEF Wanted
  <2>5. Wanted' = Wanted
    BY <2>2, <2>3, <2>4, SameWanted DEF MemoryInv
  <2> QED
    BY <2>3, <2>5 DEF Room
<1> QED
  BY <1>3, <1>4

LEMMA AttachHeaderGives ==
  ASSUME MemoryInv, NEW t \in Threads, AttachHeader(t)
  PROVE  \E b \in Blocks : Memory!Give(t, b)
<1>0. PICK b \in Blocks : b = call[t].block
  BY DEF AttachHeader, MemoryInv, TypeOK, OnePlace, Moves
<1>1. /\ call[t].at = "attach" /\ call[t].size \in Asked
      /\ held' = held \cup {b} /\ call' = [call EXCEPT ![t] = Idle] /\ UNCHANGED capacity
  BY <1>0 DEF MemoryInv, CallsOK, AttachHeader
<1>2. b \in Blocks /\ b \notin held /\ capacity[b] >= call[t].size
  BY <1>0, <1>1 DEF MemoryInv, TypeOK, OnePlace, EnoughRoom, Moves
<1>3. call[t].size # 0
  BY <1>1, MemoryAssumption
<1>4. Idle \in Calls /\ Idle.at = "idle"
  BY DEF Idle, Calls
<1>5. Wanted' = [Wanted EXCEPT ![t] = 0]
  BY <1>1, <1>4, NewWanted DEF MemoryInv
<1>6. Wanted[t] = call[t].size
  BY <1>1 DEF Wanted
<1>7. Room' = [d \in held \cup {b} |-> capacity[d]]
  BY <1>1 DEF Room
<1>8. DOMAIN Room = held /\ \A d \in held : Room[d] = capacity[d]
  BY DEF Room
<1>9. /\ DOMAIN Room' = DOMAIN Room \cup {b} /\ Room'[b] >= Wanted[t]
      /\ \A d \in DOMAIN Room : Room'[d] = Room[d]
  BY <1>2, <1>6, <1>7, <1>8
<1>10. Wanted[t] # 0 /\ b \notin DOMAIN Room
  BY <1>2, <1>3, <1>6, <1>8
<1> QED
  BY <1>2, <1>5, <1>9, <1>10 DEF Memory!Give, Wanted, Room

(* Release takes the block back before anybody else can be given it. *)
LEMMA ReleaseTakesBack ==
  ASSUME MemoryInv, NEW t \in Threads, NEW b \in held, Free(t, b) \/ BeginPush(t, b)
  PROVE  b \in Blocks /\ Memory!TakeBack(b)
<1>1. held' = held \ {b} /\ UNCHANGED capacity /\ b \in Blocks /\ TypeOK
  BY DEF Free, BeginPush, MemoryInv, TypeOK
<1>2. Wanted' = Wanted
  <2>1. CASE Free(t, b)
    BY <2>1 DEF Free, Wanted
  <2>2. CASE BeginPush(t, b)
    <3> DEFINE c == [at |-> "push", block |-> b, size |-> allocSize[b]]
    <3>1. c \in Calls /\ c.at = "push"
      BY <1>1 DEF Calls, TypeOK
    <3>2. call' = [call EXCEPT ![t] = c] /\ Wanted[t] = 0
      BY <2>2 DEF BeginPush, Enter, Wanted, Idle
    <3> HIDE DEF c
    <3> QED
      BY <1>1, <3>1, <3>2, SameWanted
  <2> QED
    BY <2>1, <2>2
<1>3. Room' = [d \in DOMAIN Room \ {b} |-> Room[d]]
  BY <1>1 DEF Room
<1>4. b \in DOMAIN Room
  BY DEF Room
<1> QED
  BY <1>1, <1>2, <1>3, <1>4 DEF Memory!TakeBack, Wanted, Room

LEMMA PushStutters ==
  ASSUME MemoryInv, NEW t \in Threads, Push(t)
  PROVE  Wanted' = Wanted /\ Room' = Room
<1>1. call' = [call EXCEPT ![t] = Idle] /\ UNCHANGED <<capacity, held>> /\ Wanted[t] = 0
  BY DEF Push, Wanted
<1>2. Idle \in Calls /\ Idle.at = "idle"
  BY DEF Idle, Calls
<1>3. Wanted' = Wanted
  BY <1>1, <1>2, SameWanted DEF MemoryInv
<1> QED
  BY <1>1, <1>3 DEF Room

LEMMA StepAllocator == MemoryInv /\ [Next]_vars => [Memory!Next]_(Memory!allocatorVars)
<1> SUFFICES ASSUME MemoryInv, [Next]_vars
             PROVE  Memory!Next \/ (Wanted' = Wanted /\ Room' = Room)
  BY DEF Memory!allocatorVars, Wanted, Room
<1>1. ASSUME NEW t \in Threads, NEW size \in Asked, Allocate(t, size) PROVE Memory!Next
  BY <1>1, AllocateAsks DEF Memory!Next
<1>2. ASSUME NEW t \in Threads, AllocateDirectly(t) PROVE Wanted' = Wanted /\ Room' = Room
  <2>1. call[t].size \in Nat
    BY DEF MemoryInv, TypeOK, Calls
  <2> QED
    BY <1>2, <2>1, MallocStutters DEF AllocateDirectly
<1>3. ASSUME NEW t \in Threads, Pop(t) PROVE Wanted' = Wanted /\ Room' = Room
  BY <1>3, PopStutters
<1>4. ASSUME NEW t \in Threads, AttachHeader(t) PROVE Memory!Next
  BY <1>4, AttachHeaderGives DEF Memory!Next
<1>5. ASSUME NEW t \in Threads, NEW b \in held, Free(t, b) \/ BeginPush(t, b) PROVE Memory!Next
  <2>1. b \in Blocks /\ Memory!TakeBack(b)
    BY <1>5, ReleaseTakesBack
  <2> QED
    BY <2>1 DEF Memory!Next
<1>6. ASSUME NEW t \in Threads, Push(t) PROVE Wanted' = Wanted /\ Room' = Room
  BY <1>6, PushStutters
<1>7. CASE UNCHANGED vars
  BY <1>7 DEF vars, Wanted, Room
<1> QED
  BY <1>1, <1>2, <1>3, <1>4, <1>5, <1>6, <1>7 DEF Next

(***************************************************************************)
(* The pools are an allocator: whatever threads allocate and release, a    *)
(* thread is given a block that nobody holds and that has room for the     *)
(* size it asked for.                                                      *)
(***************************************************************************)
THEOREM PoolsAllocate == Spec => AllocatorSpec
<1>1. MemoryInv /\ [Next]_vars => [Memory!Next]_(Memory!allocatorVars)
  BY StepAllocator
<1> QED
  BY InitAllocator, MemoryInvariant, <1>1, PTL DEF Spec, AllocatorSpec, Memory!Spec
==============================================================================

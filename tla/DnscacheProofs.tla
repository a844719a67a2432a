--------------------------- MODULE DnscacheProofs ---------------------------
(***************************************************************************)
(* Proofs about the two pools of clients, for every size of the pools, any *)
(* number of interfaces and any timeout.                                   *)
(***************************************************************************)
EXTENDS Dnscache, FiniteSetTheorems, TLAPS

\* The part of the invariant that is about datagram clients, ...
UdpInv ==
    /\ uon \in [U -> {0, 1}] /\ uq \in [U -> {0, 1}] /\ uopen \in [U -> Int]
    /\ urank \in [U -> U] /\ uactive \in Int
    /\ \A j \in U : uopen[j] = uon[j] /\ (uon[j] = 1 => uq[j] = 1)
    /\ uactive = Cardinality({j \in U : uon[j] = 1})

\* ... about connections: the first conjuncts are types, ...
TcpTypes ==
    /\ ton \in [T -> {0, 1}] /\ tq \in [T -> {0, 1}] /\ topen \in [T -> Int]
    /\ trank \in [T -> T] /\ tactive \in Int
    /\ tstate \in [T -> {-1, 0, 1, 2, 3}]
    /\ tbuf \in [T -> {0, 1}] /\ tsock \in [T -> {0, 1}] /\ timer \in [T -> 0 .. Timeout]
    /\ leaked = 0

TcpSlot(j) ==
    /\ tsock[j] = ton[j]
    /\ tbuf[j] = (IF ton[j] = 1 /\ tstate[j] \in {-1, 3} THEN 1 ELSE 0)
    /\ topen[j] = (IF ton[j] = 1 /\ tstate[j] = 0 THEN 1 ELSE 0)
    /\ ton[j] = 1 /\ tstate[j] = 0 => tq[j] = 1

TcpInv ==
    /\ TcpTypes
    /\ \A j \in T : TcpSlot(j)
    /\ tactive = Cardinality({j \in T : ton[j] = 1})

\* ... and about the turn of the loop: what has still to be looked at belongs
\* to the part that runs.
LoopInv ==
    /\ pc \in {"build", "udp", "tcp", "new"} /\ todo \subseteq Int
    /\ pc = "udp" => todo \subseteq U
    /\ pc = "tcp" => todo \subseteq T
    /\ upolled \in [U -> {"none", "query"}] /\ tpolled \in [T -> {"none", "query", "client"}]
    /\ FreshIo

Inv == UdpInv /\ TcpInv /\ LoopInv
-----------------------------------------------------------------------------
(* Pools.                                                                  *)

LEMMA PoolSizes ==
    /\ IsFiniteSet(U) /\ Cardinality(U) = MAXUDP /\ MAXUDP \in U
    /\ IsFiniteSet(T) /\ Cardinality(T) = MAXTCP /\ MAXTCP \in T
<1>1. IsFiniteSet(1 .. MAXUDP) /\ Cardinality(1 .. MAXUDP) = MAXUDP
  BY FS_Interval, PoolsAssumption
<1>2. IsFiniteSet(1 .. MAXTCP) /\ Cardinality(1 .. MAXTCP) = MAXTCP
  BY FS_Interval, PoolsAssumption
<1> QED BY <1>1, <1>2, PoolsAssumption DEF U, T

\* The counters of the pools after one slot was given a new value.
LEMMA UdpCounted ==
  ASSUME uon \in [U -> {0, 1}], NEW j \in U, NEW v \in {0, 1}, uon' = [uon EXCEPT ![j] = v]
  PROVE  /\ Cardinality({i \in U : uon'[i] = 1}) = Cardinality({i \in U : uon[i] = 1}) - uon[j] + v
         /\ Cardinality({i \in U : uon[i] = 1}) \in Int
<1> DEFINE A == {i \in U : uon[i] = 1}
           B == {i \in U : uon'[i] = 1}
<1>1. IsFiniteSet(A) /\ Cardinality(A) \in Nat
  BY PoolSizes, FS_Subset, FS_CardinalityType
<1>2. CASE v = 1
  <2>1. B = A \cup {j} BY <1>2
  <2>2. Cardinality(B) = IF j \in A THEN Cardinality(A) ELSE Cardinality(A) + 1
    BY <1>1, <2>1, FS_AddElement
  <2> QED BY <1>1, <1>2, <2>2
<1>3. CASE v = 0
  <2>1. B = A \ {j} BY <1>3
  <2>2. Cardinality(B) = IF j \in A THEN Cardinality(A) - 1 ELSE Cardinality(A)
    BY <1>1, <2>1, FS_RemoveElement
  <2> QED BY <1>1, <1>3, <2>2
<1> QED BY <1>1, <1>2, <1>3

LEMMA TcpCounted ==
  ASSUME ton \in [T -> {0, 1}], NEW j \in T, NEW v \in {0, 1}, ton' = [ton EXCEPT ![j] = v]
  PROVE  /\ Cardinality({i \in T : ton'[i] = 1}) = Cardinality({i \in T : ton[i] = 1}) - ton[j] + v
         /\ Cardinality({i \in T : ton[i] = 1}) \in Int
<1> DEFINE A == {i \in T : ton[i] = 1}
           B == {i \in T : ton'[i] = 1}
<1>1. IsFiniteSet(A) /\ Cardinality(A) \in Nat
  BY PoolSizes, FS_Subset, FS_CardinalityType
<1>2. CASE v = 1
  <2>1. B = A \cup {j} BY <1>2
  <2>2. Cardinality(B) = IF j \in A THEN Cardinality(A) ELSE Cardinality(A) + 1
    BY <1>1, <2>1, FS_AddElement
  <2> QED BY <1>1, <1>2, <2>2
<1>3. CASE v = 0
  <2>1. B = A \ {j} BY <1>3
  <2>2. Cardinality(B) = IF j \in A THEN Cardinality(A) - 1 ELSE Cardinality(A)
    BY <1>1, <2>1, FS_RemoveElement
  <2> QED BY <1>1, <1>3, <2>2
<1> QED BY <1>1, <1>2, <1>3

LEMMA OneLower ==
  ASSUME NEW n \in Nat, NEW a \in 1 .. n, NEW b \in 1 .. n, a > b
  PROVE  a - 1 \in 1 .. n
OBVIOUS

\* Taking a slot leaves the ranks in the pool.
LEMMA TakenType ==
  ASSUME NEW n \in Nat \ {0}, Cardinality(1 .. n) = n, NEW rank \in [1 .. n -> 1 .. n], NEW j \in 1 .. n
  PROVE  Taken(rank, j) \in [1 .. n -> 1 .. n]
<1> SUFFICES ASSUME NEW i \in 1 .. n
             PROVE  (IF i = j THEN n ELSE IF rank[i] > rank[j] THEN rank[i] - 1 ELSE rank[i]) \in 1 .. n
  BY DEF Taken
<1>1. rank[i] \in 1 .. n /\ rank[j] \in 1 .. n OBVIOUS
<1>2. CASE i = j BY <1>2
<1>3. CASE i # j /\ rank[i] > rank[j]
  <2>1. rank[i] - 1 \in 1 .. n BY <1>1, <1>3, OneLower
  <2> QED BY <1>3, <2>1
<1>4. CASE i # j /\ ~(rank[i] > rank[j]) BY <1>1, <1>4
<1> QED BY <1>2, <1>3, <1>4

LEMMA InitInv == Init => Inv
<1> SUFFICES ASSUME Init PROVE Inv OBVIOUS
<1>1. {j \in U : uon[j] = 1} = {} /\ {j \in T : ton[j] = 1} = {}
  BY DEF Init
<1>2. UdpInv
  BY <1>1, FS_EmptySet DEF Init, UdpInv
<1>3. TcpInv
  BY <1>1, FS_EmptySet, PoolsAssumption DEF Init, TcpInv, TcpTypes, TcpSlot
<1>4. LoopInv
  BY DEF Init, LoopInv, FreshIo
<1> QED BY <1>2, <1>3, <1>4 DEF Inv
-----------------------------------------------------------------------------
(* Datagram clients.                                                       *)

LEMMA UdpKept == UdpInv /\ UNCHANGED udp => UdpInv'
BY DEF UdpInv, udp

LEMMA UdpEndsKeeps ==
  ASSUME UdpInv, NEW j \in U, UdpEnds(j)
  PROVE  UdpInv'
<1>1. uon' = [uon EXCEPT ![j] = 0] /\ uactive' = uactive - 1 /\ uon[j] = 1
      /\ uopen' = [uopen EXCEPT ![j] = @ - 1] /\ uq' = [uq EXCEPT ![j] = 0] /\ urank' = urank
  BY DEF UdpEnds, EndUdp
<1>2. uactive' = Cardinality({i \in U : uon'[i] = 1}) /\ uactive' \in Int
  <2>1. uon \in [U -> {0, 1}] /\ uactive = Cardinality({i \in U : uon[i] = 1}) /\ uon[j] \in Int
    BY DEF UdpInv
  <2>2. uon' = [uon EXCEPT ![j] = 0]
    BY <1>1
  <2>3. /\ Cardinality({i \in U : uon'[i] = 1}) = Cardinality({i \in U : uon[i] = 1}) - uon[j] + 0
        /\ Cardinality({i \in U : uon[i] = 1}) \in Int
    BY <2>1, <2>2, UdpCounted
  <2> QED BY <1>1, <2>1, <2>2, <2>3
<1> QED BY <1>1, <1>2 DEF UdpInv

LEMMA UdpNewKeeps ==
  ASSUME UdpInv, NEW j \in U, NEW on \in {0, 1}, NEW q \in {0, 1}, on = 1 => q = 1, u_new(j, on, q)
  PROVE  UdpInv'
<1>1. uon' = [uon EXCEPT ![j] = on] /\ uactive' = uactive - uon[j] + on
      /\ uopen' = [uopen EXCEPT ![j] = @ - uon[j] + on] /\ uq' = [uq EXCEPT ![j] = q]
      /\ urank' = Taken(urank, j)
  BY DEF u_new
<1>2. uactive' = Cardinality({i \in U : uon'[i] = 1}) /\ uactive' \in Int
  <2>1. uon \in [U -> {0, 1}] /\ uactive = Cardinality({i \in U : uon[i] = 1}) /\ uon[j] \in Int
    BY DEF UdpInv
  <2>2. uon' = [uon EXCEPT ![j] = on]
    BY <1>1
  <2>3. /\ Cardinality({i \in U : uon'[i] = 1}) = Cardinality({i \in U : uon[i] = 1}) - uon[j] + on
        /\ Cardinality({i \in U : uon[i] = 1}) \in Int
    BY <2>1, <2>2, UdpCounted
  <2> QED BY <1>1, <2>1, <2>2, <2>3
<1>3. urank' \in [U -> U]
  BY <1>1, PoolSizes, PoolsAssumption, TakenType DEF UdpInv, U
<1>4. uopen' \in [U -> Int] /\ uq' \in [U -> {0, 1}] /\ uon' \in [U -> {0, 1}]
  BY <1>1 DEF UdpInv
<1>5. ASSUME NEW i \in U PROVE uopen'[i] = uon'[i] /\ (uon'[i] = 1 => uq'[i] = 1)
  BY <1>1 DEF UdpInv
<1> QED BY <1>2, <1>3, <1>4, <1>5 DEF UdpInv
-----------------------------------------------------------------------------
(* Connections.                                                            *)

LEMMA TcpKept == TcpInv /\ UNCHANGED tcp => TcpInv'
BY DEF TcpInv, TcpTypes, TcpSlot, tcp

\* A step that changes the slot of one connection and leaves it open or closed
\* as it was.
LEMMA SlotKeeps ==
  ASSUME TcpInv, NEW j \in T, TcpTypes', TcpSlot(j)', ton' = ton, tactive' = tactive,
         \A i \in T \ {j} : /\ topen'[i] = topen[i] /\ tstate'[i] = tstate[i]
                            /\ tq'[i] = tq[i] /\ tbuf'[i] = tbuf[i] /\ tsock'[i] = tsock[i]
  PROVE  TcpInv'
<1>1. ASSUME NEW i \in T PROVE TcpSlot(i)'
  BY DEF TcpSlot, TcpInv
<1> QED BY <1>1 DEF TcpInv

LEMMA CloseKeeps ==
  ASSUME TcpInv, NEW j \in T, NEW logged \in {0, 1}, Close(j, logged), ton[j] = 1,
         logged = (IF tstate[j] = 0 THEN 1 ELSE 0), trank' = trank, timer' \in [T -> 0 .. Timeout],
         tq' \in [T -> {0, 1}], \A i \in T \ {j} : tq'[i] = tq[i]
  PROVE  TcpInv'
<1>1. /\ tbuf' = [tbuf EXCEPT ![j] = 0] /\ tsock' = [tsock EXCEPT ![j] = 0]
      /\ ton' = [ton EXCEPT ![j] = 0] /\ tactive' = tactive - 1
      /\ topen' = [topen EXCEPT ![j] = @ - logged]
      /\ tstate' = tstate /\ leaked' = leaked
  BY DEF Close
<1>2. tactive' = Cardinality({i \in T : ton'[i] = 1}) /\ tactive' \in Int
  <2>1. ton \in [T -> {0, 1}] /\ tactive = Cardinality({i \in T : ton[i] = 1}) /\ ton[j] \in Int
    BY DEF TcpInv, TcpTypes
  <2>2. ton' = [ton EXCEPT ![j] = 0]
    BY <1>1
  <2>3. /\ Cardinality({i \in T : ton'[i] = 1}) = Cardinality({i \in T : ton[i] = 1}) - ton[j] + 0
        /\ Cardinality({i \in T : ton[i] = 1}) \in Int
    BY <2>1, <2>2, TcpCounted
  <2> QED BY <1>1, <2>1, <2>2, <2>3
<1>3. TcpTypes'
  BY <1>1, <1>2 DEF TcpInv, TcpTypes
<1>4. ASSUME NEW i \in T PROVE TcpSlot(i)'
  BY <1>1 DEF TcpInv, TcpTypes, TcpSlot
<1> QED BY <1>2, <1>3, <1>4 DEF TcpInv

\* Events renew the timeout and nothing else.
LEMMA TimerType ==
  ASSUME TcpInv, NEW j \in T, Event(j) \/ NoEvent
  PROVE  timer' \in [T -> 0 .. Timeout]
BY PoolsAssumption DEF TcpInv, TcpTypes, Event, NoEvent

LEMMA RespondKeeps ==
  ASSUME TcpInv, NEW j \in T, NEW logged \in {0, 1}, Respond(j, logged), ton[j] = 1,
         logged = (IF tstate[j] = 0 THEN 1 ELSE 0), trank' = trank, timer' \in [T -> 0 .. Timeout],
         tq' = [tq EXCEPT ![j] = 0]
  PROVE  TcpInv'
<1>1. /\ topen' = [topen EXCEPT ![j] = @ - logged]
      /\ tbuf' = [tbuf EXCEPT ![j] = 1]
      /\ tstate' = [tstate EXCEPT ![j] = -1]
      /\ ton' = ton /\ tactive' = tactive /\ tsock' = tsock /\ leaked' = leaked
  BY DEF Respond
<1>2. TcpTypes'
  BY <1>1 DEF TcpInv, TcpTypes
<1>3. TcpSlot(j)'
  BY <1>1 DEF TcpInv, TcpTypes, TcpSlot
<1> QED BY <1>1, <1>2, <1>3, SlotKeeps DEF TcpInv, TcpTypes

LEMMA QueryingKeeps ==
  ASSUME TcpInv, NEW j \in T, TcpWaits(j) \/ TcpAnswered(j) \/ TcpDropped(j)
  PROVE  TcpInv'
<1>1. ton[j] = 1 /\ tstate[j] = 0 /\ trank' = trank /\ timer' \in [T -> 0 .. Timeout]
  BY TimerType DEF TcpWaits, TcpAnswered, TcpDropped, Querying
<1>2. CASE TcpWaits(j)
  BY <1>1, <1>2 DEF TcpWaits, TcpInv, TcpTypes, TcpSlot
<1>3. CASE TcpAnswered(j)
  BY <1>1, <1>3, RespondKeeps DEF TcpAnswered
<1>4. CASE TcpDropped(j)
  <2>1. tq' \in [T -> {0, 1}] /\ \A i \in T \ {j} : tq'[i] = tq[i]
    BY <1>4 DEF TcpDropped, TcpInv, TcpTypes
  <2> QED BY <1>1, <1>4, <2>1, CloseKeeps DEF TcpDropped
<1> QED BY <1>2, <1>3, <1>4

LEMMA Ready ==
  ASSUME TcpInv, NEW j \in T, NEW states, t_rw(j, states)
  PROVE  /\ ton[j] = 1 /\ tstate[j] \in states /\ trank' = trank
         /\ timer' \in [T -> 0 .. Timeout] /\ UNCHANGED udp
BY TimerType DEF t_rw

LEMMA PartlyKeeps ==
  ASSUME TcpInv, NEW j \in T, Partly(j)
  PROVE  TcpInv'
<1>1. trank' = trank /\ timer' \in [T -> 0 .. Timeout]
  BY Ready DEF Partly
<1> QED BY <1>1 DEF Partly, TcpInv, TcpTypes, TcpSlot

LEMMA WrittenKeeps ==
  ASSUME TcpInv, NEW j \in T, Written(j)
  PROVE  TcpInv'
<1>1. ton[j] = 1 /\ trank' = trank /\ timer' \in [T -> 0 .. Timeout] /\ tstate[j] = -1
  BY Ready DEF Written
<1>2. TcpTypes'
  BY <1>1 DEF Written, TcpInv, TcpTypes
<1>3. TcpSlot(j)'
  BY <1>1 DEF Written, TcpInv, TcpTypes, TcpSlot
<1> QED BY <1>2, <1>3, SlotKeeps DEF Written, TcpInv, TcpTypes

LEMMA LengthKeeps ==
  ASSUME TcpInv, NEW j \in T, Length1(j) \/ Length2(j)
  PROVE  TcpInv'
<1>1. ton[j] = 1 /\ trank' = trank /\ timer' \in [T -> 0 .. Timeout] /\ tstate[j] \in {1, 2}
  BY Ready DEF Length1, Length2
<1>2. tbuf[j] = 0
  BY <1>1 DEF TcpInv, TcpSlot
<1>3. TcpTypes'
  BY <1>1, <1>2 DEF Length1, Length2, TcpInv, TcpTypes
<1>4. TcpSlot(j)'
  BY <1>1, <1>2 DEF Length1, Length2, TcpInv, TcpTypes, TcpSlot
<1> QED BY <1>3, <1>4, SlotKeeps DEF Length1, Length2, TcpInv, TcpTypes

LEMMA HangupKeeps ==
  ASSUME TcpInv, NEW j \in T, Hangup(j) \/ DroppedAtOnce(j)
  PROVE  TcpInv'
<1>1. /\ ton[j] = 1 /\ tstate[j] # 0 /\ trank' = trank /\ timer' \in [T -> 0 .. Timeout]
      /\ Close(j, 0)
  BY Ready DEF Hangup, DroppedAtOnce
<1>2. tq' \in [T -> {0, 1}] /\ \A i \in T \ {j} : tq'[i] = tq[i]
  BY DEF Hangup, DroppedAtOnce, TcpInv, TcpTypes
<1> QED BY <1>1, <1>2, CloseKeeps

LEMMA AskedKeeps ==
  ASSUME TcpInv, NEW j \in T, Asked(j) \/ AnsweredAtOnce(j)
  PROVE  TcpInv'
<1>1. ton[j] = 1 /\ tstate[j] = 3 /\ trank' = trank /\ timer' \in [T -> 0 .. Timeout]
  BY Ready DEF Asked, AnsweredAtOnce
<1>2. CASE Asked(j)
  <2>1. TcpTypes'
    BY <1>1, <1>2 DEF Asked, TcpInv, TcpTypes
  <2>2. TcpSlot(j)'
    BY <1>1, <1>2 DEF Asked, TcpInv, TcpTypes, TcpSlot
  <2> QED BY <1>2, <2>1, <2>2, SlotKeeps DEF Asked, TcpInv, TcpTypes
<1>3. CASE AnsweredAtOnce(j)
  <2>1. Respond(j, 0) /\ tq' = [tq EXCEPT ![j] = 0] /\ 0 = (IF tstate[j] = 0 THEN 1 ELSE 0)
    BY <1>1, <1>3 DEF AnsweredAtOnce
  <2> QED BY <1>1, <2>1, RespondKeeps
<1> QED BY <1>2, <1>3

LEMMA TcpNewKeeps ==
  ASSUME TcpInv, NEW j \in T, NEW on \in {0, 1}, t_new(j, on),
         timer' \in [T -> 0 .. Timeout], tstate' = IF on = 1 THEN [tstate EXCEPT ![j] = 1] ELSE tstate
  PROVE  TcpInv'
<1>1. /\ trank' = Taken(trank, j) /\ topen' = [topen EXCEPT ![j] = @ - Evicted(j)]
      /\ tbuf' = [tbuf EXCEPT ![j] = IF ton[j] = 1 THEN 0 ELSE @]
      /\ ton' = [ton EXCEPT ![j] = on] /\ tactive' = tactive - ton[j] + on
      /\ tsock' = [tsock EXCEPT ![j] = on] /\ leaked' = leaked + on * (tsock[j] - ton[j])
      /\ tq' = tq
  BY DEF t_new
<1>2. tactive' = Cardinality({i \in T : ton'[i] = 1}) /\ tactive' \in Int
  <2>1. ton \in [T -> {0, 1}] /\ tactive = Cardinality({i \in T : ton[i] = 1}) /\ ton[j] \in Int
    BY DEF TcpInv, TcpTypes
  <2>2. ton' = [ton EXCEPT ![j] = on]
    BY <1>1
  <2>3. /\ Cardinality({i \in T : ton'[i] = 1}) = Cardinality({i \in T : ton[i] = 1}) - ton[j] + on
        /\ Cardinality({i \in T : ton[i] = 1}) \in Int
    BY <2>1, <2>2, TcpCounted
  <2> QED BY <1>1, <2>1, <2>2, <2>3
<1>3. trank' \in [T -> T]
  BY <1>1, PoolSizes, PoolsAssumption, TakenType DEF TcpInv, TcpTypes, T
<1>4. tbuf'[j] = 0 /\ topen'[j] = 0
  BY <1>1 DEF TcpInv, TcpTypes, TcpSlot, Evicted
<1>5. leaked' = 0
  BY <1>1 DEF TcpInv, TcpTypes, TcpSlot
<1>6. Evicted(j) \in Int
  BY DEF Evicted
<1>7. TcpTypes'
  <2>1. /\ ton' \in [T -> {0, 1}] /\ tq' \in [T -> {0, 1}] /\ tsock' \in [T -> {0, 1}]
        /\ tstate' \in [T -> {-1, 0, 1, 2, 3}]
    BY <1>1 DEF TcpInv, TcpTypes
  <2>2. tbuf' \in [T -> {0, 1}] /\ topen' \in [T -> Int]
    BY <1>1, <1>6 DEF TcpInv, TcpTypes
  <2> QED BY <1>2, <1>3, <1>5, <2>1, <2>2 DEF TcpTypes
<1>8. ASSUME NEW i \in T \ {j} PROVE TcpSlot(i)'
  BY <1>1 DEF TcpInv, TcpTypes, TcpSlot
<1>9. TcpSlot(j)'
  BY <1>1, <1>4 DEF TcpInv, TcpTypes, TcpSlot
<1> QED BY <1>2, <1>7, <1>8, <1>9 DEF TcpInv

LEMMA TickKeeps == TcpInv /\ Tick => TcpInv'
<1> SUFFICES ASSUME TcpInv, Tick PROVE TcpInv' OBVIOUS
<1>1. timer' \in [T -> 0 .. Timeout]
  BY PoolsAssumption DEF Tick, TcpInv, TcpTypes
<1> QED BY <1>1 DEF Tick, TcpInv, TcpTypes, TcpSlot
-----------------------------------------------------------------------------
(* The turn of the loop.                                                   *)

LEMMA LoopKept == LoopInv /\ UNCHANGED <<uon, ton, tstate, loop>> => LoopInv'
BY DEF LoopInv, FreshIo, Waits, loop

LEMMA BuildKeeps ==
  ASSUME UdpInv, TcpInv, LoopInv, Build
  PROVE  LoopInv'
<1>1. pc' = "udp" /\ todo' = U /\ UNCHANGED <<udp, tcp>>
      /\ upolled' = [j \in U |-> IF uon[j] = 1 THEN "query" ELSE "none"]
      /\ tpolled' = [j \in T |-> Waits(j)]
  BY DEF Build, Enter, After
<1>2. \A j \in T : Waits(j) \in {"none", "query", "client"} /\ Waits(j)' = Waits(j)
  BY <1>1 DEF Waits, tcp
<1>3. U \subseteq Int
  BY DEF U
<1>4. upolled' \in [U -> {"none", "query"}] /\ tpolled' \in [T -> {"none", "query", "client"}]
  BY <1>1, <1>2
<1>5. FreshIo'
  BY <1>1, <1>2 DEF FreshIo, udp
<1> QED BY <1>1, <1>3, <1>4, <1>5 DEF LoopInv

LEMMA PartDoneKeeps ==
  ASSUME LoopInv, PartDone
  PROVE  LoopInv'
<1>1. pc \in {"udp", "tcp", "new"} /\ pc' = After(pc) /\ Enter(After(pc))
      /\ UNCHANGED <<udp, tcp, upolled, tpolled>>
  BY DEF PartDone, LoopInv, Enter
<1>2. CASE pc = "udp"
  <2>1. pc' = "tcp" /\ todo' = T
    BY <1>1, <1>2 DEF After, Enter
  <2>2. T \subseteq Int
    BY DEF T
  <2>3. FreshIo'
    BY <1>1, <1>2, <2>1 DEF FreshIo, LoopInv, Waits, tcp
  <2> QED BY <1>1, <2>1, <2>2, <2>3 DEF LoopInv
<1>3. CASE pc = "tcp"
  <2>1. pc' = "new" /\ todo' = 1 .. 2 * Interfaces
    BY <1>1, <1>3 DEF After, Enter
  <2>2. todo' \subseteq Int
    BY <2>1, PoolsAssumption
  <2> QED BY <1>1, <2>1, <2>2 DEF LoopInv, FreshIo
<1>4. CASE pc = "new"
  <2>1. pc' = "build" /\ todo' = {}
    BY <1>1, <1>4 DEF After, Enter
  <2> QED BY <1>1, <2>1 DEF LoopInv, FreshIo
<1> QED BY <1>1, <1>2, <1>3, <1>4

\* One item is dealt with and the others are as they were.
LEMMA StepKeeps ==
  ASSUME LoopInv, NEW part, NEW j, Step(part, j),
         part = "udp" => UNCHANGED <<ton, tstate>> /\ \A i \in U \ {j} : uon'[i] = uon[i],
         part = "tcp" => \A i \in T \ {j} : Waits(i)' = Waits(i)
  PROVE  LoopInv'
<1>1. pc = part /\ todo' = todo \ {j} /\ UNCHANGED <<pc, upolled, tpolled>>
  BY DEF Step
<1>2. FreshIo'
  BY <1>1 DEF LoopInv, FreshIo, Waits
<1> QED BY <1>1, <1>2 DEF LoopInv

LEMMA SkipKeeps == LoopInv /\ Skip => LoopInv'
<1> SUFFICES ASSUME LoopInv, Skip PROVE LoopInv' OBVIOUS
<1>1. PICK part \in {"udp", "tcp", "new"}, j \in Int : Step(part, j)
  BY DEF Skip, U, T
<1>2. UNCHANGED <<uon, ton, tstate>> /\ \A i : Waits(i)' = Waits(i)
  BY DEF Skip, Waits, udp, tcp
<1> QED BY <1>1, <1>2, StepKeeps

LEMMA ServeUdpKeeps ==
  ASSUME UdpInv, TcpInv, LoopInv, NEW j \in U, ServeUdp(j)
  PROVE  Inv'
<1>1. CASE UdpWaits(j)
  <2>1. UNCHANGED <<udp, tcp>> /\ Step("udp", j)
    BY <1>1 DEF UdpWaits
  <2>2. LoopInv'
    BY <2>1, StepKeeps DEF udp, tcp
  <2> QED BY <2>1, <2>2, UdpKept, TcpKept DEF Inv
<1>2. CASE UdpEnds(j)
  <2>1. UNCHANGED tcp /\ Step("udp", j) /\ \A i \in U \ {j} : uon'[i] = uon[i]
    BY <1>2 DEF UdpEnds, EndUdp, UdpInv
  <2>2. LoopInv'
    BY <2>1, StepKeeps DEF tcp
  <2> QED BY <1>2, <2>1, <2>2, UdpEndsKeeps, TcpKept DEF Inv
<1> QED BY <1>1, <1>2 DEF ServeUdp

\* The other connections wait for what they waited for.
LEMMA ServeTcpLoop ==
  ASSUME TcpInv, LoopInv, NEW j \in T, ServeTcp(j)
  PROVE  LoopInv' /\ UNCHANGED udp
<1>1. Step("tcp", j) /\ UNCHANGED udp
  BY DEF ServeTcp, TcpWaits, TcpEnds, TcpAnswered, TcpDropped, Partly, Written, Length1, Length2,
         Hangup, Asked, AnsweredAtOnce, DroppedAtOnce, Querying, t_rw
<1>2. \A i \in T \ {j} : ton'[i] = ton[i] /\ tstate'[i] = tstate[i]
  BY DEF ServeTcp, TcpWaits, TcpEnds, TcpAnswered, TcpDropped, Partly, Written, Length1, Length2,
         Hangup, Asked, AnsweredAtOnce, DroppedAtOnce, Close, Respond, TcpInv, TcpTypes
<1>3. \A i \in T \ {j} : Waits(i)' = Waits(i)
  BY <1>2 DEF Waits
<1> QED BY <1>1, <1>3, StepKeeps

LEMMA ServeTcpKeeps ==
  ASSUME UdpInv, TcpInv, LoopInv, NEW j \in T, ServeTcp(j)
  PROVE  Inv'
<1>1. TcpInv'
  BY QueryingKeeps, PartlyKeeps, WrittenKeeps, LengthKeeps, HangupKeeps, AskedKeeps DEF ServeTcp, TcpEnds
<1> QED BY <1>1, ServeTcpLoop, UdpKept DEF Inv

LEMMA TcpIdleKeeps ==
  ASSUME UdpInv, TcpInv, LoopInv, NEW j \in T, TcpIdle(j)
  PROVE  Inv'
<1>1. UNCHANGED <<udp, tcp>> /\ Step("tcp", j)
  BY DEF TcpIdle
<1>2. \A i : Waits(i)' = Waits(i)
  BY <1>1 DEF Waits, tcp
<1>3. LoopInv'
  BY <1>1, <1>2, StepKeeps
<1> QED BY <1>1, <1>3, UdpKept, TcpKept DEF Inv

LEMMA NewKeeps ==
  ASSUME UdpInv, TcpInv, LoopInv, New
  PROVE  Inv'
<1>1. PICK i \in todo : Step("new", i)
  BY DEF New, UdpRefused, UdpAtOnce, UdpAccepted, TcpRefused, TcpAccepted, u_new, t_new
<1>2. LoopInv'
  BY <1>1, StepKeeps
<1>3. CASE UdpRefused \/ UdpAtOnce \/ UdpAccepted
  <2>1. PICK j \in U, on \in {0, 1}, q \in {0, 1} : (on = 1 => q = 1) /\ u_new(j, on, q)
    BY <1>3 DEF UdpRefused, UdpAtOnce, UdpAccepted, UdpInv
  <2>2. UdpInv'
    BY <2>1, UdpNewKeeps
  <2>3. UNCHANGED tcp
    BY <2>1 DEF u_new
  <2> QED BY <1>2, <2>2, <2>3, TcpKept DEF Inv
<1>4. CASE TcpRefused \/ TcpAccepted
  <2>1. PICK j \in T, on \in {0, 1} :
          /\ t_new(j, on)
          /\ tstate' = IF on = 1 THEN [tstate EXCEPT ![j] = 1] ELSE tstate
          /\ timer' = timer \/ timer' = [timer EXCEPT ![j] = Timeout]
    BY <1>4 DEF TcpRefused, TcpAccepted
  <2>2. timer' \in [T -> 0 .. Timeout]
    BY <2>1, PoolsAssumption DEF TcpInv, TcpTypes
  <2>3. TcpInv'
    BY <2>1, <2>2, TcpNewKeeps
  <2>4. UNCHANGED udp
    BY <2>1 DEF t_new
  <2> QED BY <1>2, <2>3, <2>4, UdpKept DEF Inv
<1> QED BY <1>3, <1>4 DEF New

LEMMA NextInv == Inv /\ [Next]_vars => Inv'
<1> SUFFICES ASSUME UdpInv, TcpInv, LoopInv, [Next]_vars PROVE Inv'
  BY DEF Inv
<1>1. CASE Build
  BY <1>1, BuildKeeps, UdpKept, TcpKept DEF Build, Inv
<1>2. CASE PartDone
  BY <1>2, PartDoneKeeps, UdpKept, TcpKept DEF PartDone, Inv
<1>3. CASE Skip
  BY <1>3, SkipKeeps, UdpKept, TcpKept DEF Skip, Inv
<1>4. CASE \E j \in U : ServeUdp(j)
  BY <1>4, ServeUdpKeeps
<1>5. CASE \E j \in T : ServeTcp(j) \/ TcpIdle(j)
  BY <1>5, ServeTcpKeeps, TcpIdleKeeps
<1>6. CASE New
  BY <1>6, NewKeeps
<1>7. CASE Tick
  <2>1. UNCHANGED <<udp, ton, tstate, loop>>
    BY <1>7 DEF Tick
  <2> QED BY <1>7, <2>1, TickKeeps, UdpKept, LoopKept DEF Inv, udp
<1>8. CASE UNCHANGED vars
  BY <1>8, UdpKept, TcpKept, LoopKept DEF Inv, vars, udp, tcp
<1> QED BY <1>1, <1>2, <1>3, <1>4, <1>5, <1>6, <1>7, <1>8 DEF Next, LoopStep

LEMMA DnscacheInv == Spec => []Inv
BY InitInv, NextInv, PTL DEF Spec
-----------------------------------------------------------------------------
\* dnscache.c:171-365: in every interleaving of clients, servers and timeouts a
\* slot holds exactly what the table at line 171 says, and whoever loses a slot
\* leaves no buffer and no connection behind.
THEOREM DnscacheSlots == Spec => []SlotsOK
<1>1. Inv => SlotsOK
  BY PoolsAssumption DEF Inv, UdpInv, TcpInv, TcpTypes, TcpSlot, LoopInv, SlotsOK, TypeOK
<1> QED BY <1>1, DnscacheInv, PTL

\* dnscache.c:82-156, :207-333: every query logged is logged once more as sent
\* or dropped, and the counters count the slots in use.
THEOREM DnscacheLedger == Spec => []Ledger
<1>1. Inv => Ledger
  BY DEF Inv, UdpInv, TcpInv, TcpTypes, TcpSlot, Ledger
<1> QED BY <1>1, DnscacheInv, PTL

\* dnscache.c:383-408: no client is served by an event that was polled for
\* another client of its slot, or for another descriptor.
THEOREM DnscacheFreshIo == Spec => []FreshIo
<1>1. Inv => FreshIo
  BY DEF Inv, LoopInv
<1> QED BY <1>1, DnscacheInv, PTL
=============================================================================

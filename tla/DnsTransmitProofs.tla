------------------------- MODULE DnsTransmitProofs -------------------------
(***************************************************************************)
(* The ownership of sockets and buffers and the order of attempts of       *)
(* dns_transmit.c, for lists, queries and answers of any length.           *)
(***************************************************************************)
EXTENDS DnsTransmit, TLAPS

\* What the position in the list says, which the properties need to survive
\* the next step.
AtSlot ==
    /\ pc = "wait" => curserver < Slots
    /\ pc = "wait" /\ tcpstate = 0 => udploop < Rounds /\ curserver \in servers
    /\ pc = "udp" \/ (pc = "wait" /\ tcpstate = 0) => udploop >= flagrecursive
    /\ query = 1 => querylen \in QueryLens

Inv == TypeOK /\ Resources /\ AtSlot

LEMMA AttemptTyped ==
    ASSUME TypeOK, NEW r \in 0 .. Rounds, NEW s \in servers
    PROVE  <<r, s>> \in Attempts
BY DEF TypeOK, Attempts

LEMMA InitInv == Init => Inv
<1> SUFFICES ASSUME Init PROVE Inv
  OBVIOUS
<1>1. servers \subseteq 0 .. Slots - 1 /\ tried \subseteq Attempts /\ readable \in BOOLEAN
  BY Zenon DEF Init
<1>2. TypeOK
  BY BoundsAssumption, <1>1 DEF Init, TypeOK, Rounds
<1>3. Resources
  BY DEF Init, Resources
<1>4. AtSlot
  BY DEF Init, AtSlot
<1> QED BY <1>2, <1>3, <1>4 DEF Inv

LEMMA NextInv == Inv /\ [Next]_vars => Inv'
<1> SUFFICES ASSUME Inv, [Next]_vars PROVE Inv'
  OBVIOUS
<1> USE BoundsAssumption, AttemptTyped DEF Inv, TypeOK, Resources, AtSlot, Rounds, list, tcp
<1>0. readable' \in BOOLEAN
  BY DEF Next, Get, Arrive, Dropped, vars
<1> USE <1>0
<1>1. CASE Start
  BY <1>1 DEF Start
<1>2. CASE UdpSkip
  BY <1>2 DEF UdpSkip, AtUdpSlot
<1>3. CASE UdpSend
  BY <1>3 DEF UdpSend, AtUdpSlot, timeouts
<1>4. CASE UdpSendFails
  BY <1>4 DEF UdpSendFails, AtUdpSlot
<1>5. CASE UdpNoSocket
  BY <1>5 DEF UdpNoSocket, Finish, FreeAll, AtUdpSlot
<1>6. CASE UdpNextRound
  BY <1>6 DEF UdpNextRound
<1>7. CASE UdpExhausted
  BY <1>7 DEF UdpExhausted, Finish, FreeAll
<1>8. CASE TcpSkip
  BY <1>8 DEF TcpSkip, AtTcpSlot
<1>9. CASE TcpConnect
  BY <1>9 DEF TcpConnect, AtTcpSlot, TcpTimeout
<1>10. CASE TcpConnectFails
  BY <1>10 DEF TcpConnectFails, AtTcpSlot, TcpTimeout
<1>11. CASE TcpNoSocket
  BY <1>11 DEF TcpNoSocket, Finish, FreeAll, AtTcpSlot
<1>12. CASE TcpExhausted
  BY <1>12 DEF TcpExhausted, Finish, FreeAll
<1>13. CASE RecvError
  BY <1>13 DEF RecvError, EnterUdp, Waiting
<1>14. CASE RecvRefused
  BY <1>14 DEF RecvRefused, EnterUdp, Waiting
<1>15. CASE RecvTruncated
  BY <1>15 DEF RecvTruncated, EnterTcp, Waiting
<1>16. CASE RecvAnswer
  BY <1>16 DEF RecvAnswer, Waiting
<1>17. CASE RecvNoMemory
  BY <1>17 DEF RecvNoMemory, Finish, FreeAll, Waiting
<1>18. CASE Connected
  BY <1>18 DEF Connected, Waiting
<1>19. CASE StreamFails
  BY <1>19 DEF StreamFails, EnterTcp
<1>20. CASE WriteQuery
  BY <1>20 DEF WriteQuery, Waiting, TcpTimeout
<1>21. CASE ReadLength1
  BY <1>21 DEF ReadLength1, Waiting
<1>22. CASE ReadLength2
  BY <1>22 DEF ReadLength2, LengthRead, Waiting
<1>23. CASE ReadLengthNoMemory
  BY <1>23 DEF ReadLengthNoMemory, LengthRead, FreeAll, Waiting
<1>24. CASE ReadPacket
  BY <1>24 DEF ReadPacket, Waiting
<1>25. CASE ReadAnswer
  BY <1>25 DEF ReadAnswer, Waiting
<1>26. CASE ReadUseless
  BY <1>26 DEF ReadUseless, Waiting
<1>27. CASE Timeout
  <2>1. RecvError \/ StreamFails
    BY <1>27 DEF Timeout, RecvError, StreamFails, Waiting
  <2> QED BY <2>1, <1>13, <1>19
<1>28. CASE Free
  BY <1>28 DEF Free, Finish, FreeAll
<1>29. CASE Tick
  BY <1>29 DEF Tick
<1>30. CASE Arrive \/ Dropped
  BY <1>30 DEF Arrive, Dropped, Waiting
<1>31. CASE UNCHANGED vars
  BY <1>31 DEF vars
<1> QED
  BY <1>1, <1>2, <1>3, <1>4, <1>5, <1>6, <1>7, <1>8, <1>9, <1>10, <1>11, <1>12, <1>13, <1>14, <1>15, <1>16, <1>17, <1>18, <1>19, <1>20, <1>21, <1>22, <1>23, <1>24, <1>25, <1>26, <1>27, <1>28, <1>29, <1>30, <1>31
     DEF Next, Get, UdpLoop, TcpLoop, Event

\* How the set of attempts before a slot grows along the list.
LEMMA BeforePair ==
    ASSUME NEW f \in Int, NEW S \in SUBSET Int, NEW r \in Int, NEW c \in Int,
           NEW q \in Int, NEW s \in Int
    PROVE  <<q, s>> \in Before(f, S, r, c) <=>
             q \in f .. r /\ s \in S /\ (q < r \/ s < c)
BY DEF Before

LEMMA BeforePairs ==
    ASSUME NEW f \in Int, NEW S \in SUBSET Int, NEW r \in Int, NEW c \in Int,
           NEW a \in Before(f, S, r, c)
    PROVE  \E q \in f .. r, s \in S : a = <<q, s>>
<1>1. a \in (f .. r) \X S
  BY DEF Before
<1>2. a = <<a[1], a[2]>> /\ a[1] \in f .. r /\ a[2] \in S
  BY <1>1
<1> QED BY <1>2, Zenon

LEMMA BeforeAdd ==
    ASSUME NEW f \in Int, NEW S \in SUBSET Int, NEW r \in Int, NEW s \in S, f <= r
    PROVE  Before(f, S, r, s + 1) = Before(f, S, r, s) \cup {<<r, s>>}
<1>1. ASSUME NEW a \in Before(f, S, r, s + 1) PROVE a \in Before(f, S, r, s) \cup {<<r, s>>}
  <2>1. PICK q \in f .. r, t \in S : a = <<q, t>>
    BY <1>1, BeforePairs
  <2>2. q < r \/ t < s + 1
    BY <1>1, <2>1, BeforePair
  <2>3. CASE q < r \/ t < s
    BY <2>1, <2>3, BeforePair
  <2>4. CASE q = r /\ t = s
    BY <2>1, <2>4
  <2> QED BY <2>1, <2>2, <2>3, <2>4
<1>2. ASSUME NEW a \in Before(f, S, r, s) PROVE a \in Before(f, S, r, s + 1)
  <2>1. PICK q \in f .. r, t \in S : a = <<q, t>>
    BY <1>2, BeforePairs
  <2>2. q < r \/ t < s
    BY <1>2, <2>1, BeforePair
  <2>3. q < r \/ t < s + 1
    BY <2>2
  <2> QED BY <2>1, <2>3, BeforePair
<1>3. <<r, s>> \in Before(f, S, r, s + 1)
  BY BeforePair
<1> QED BY <1>1, <1>2, <1>3

\* An empty slot adds nothing.
LEMMA BeforeSkip ==
    ASSUME NEW f \in Int, NEW S \in SUBSET Int, NEW r \in Int, NEW c \in Int, c \notin S
    PROVE  Before(f, S, r, c + 1) = Before(f, S, r, c)
<1>1. \A t \in S : t < c + 1 <=> t < c
  OBVIOUS
<1>2. ASSUME NEW a PROVE a \in Before(f, S, r, c + 1) <=> a \in Before(f, S, r, c)
  <2>1. ASSUME NEW q \in f .. r, NEW t \in S
        PROVE  <<q, t>> \in Before(f, S, r, c + 1) <=> <<q, t>> \in Before(f, S, r, c)
    BY <1>1, BeforePair
  <2> QED BY <2>1, BeforePairs
<1> QED BY <1>2

\* The end of a round is the start of the next.
LEMMA BeforeTurn ==
    ASSUME NEW f \in Int, NEW S \in SUBSET Int, NEW r \in Int, NEW c \in Int,
           \A t \in S : 0 <= t /\ t < c
    PROVE  Before(f, S, r + 1, 0) = Before(f, S, r, c)
<1>1. ASSUME NEW a \in Before(f, S, r + 1, 0) PROVE a \in Before(f, S, r, c)
  <2>1. PICK q \in f .. r + 1, t \in S : a = <<q, t>>
    BY <1>1, BeforePairs
  <2>2. q < r + 1 \/ t < 0
    BY <1>1, <2>1, BeforePair
  <2>3. q \in f .. r /\ t < c
    BY <2>1, <2>2
  <2> QED BY <2>1, <2>3, BeforePair
<1>2. ASSUME NEW a \in Before(f, S, r, c) PROVE a \in Before(f, S, r + 1, 0)
  <2>1. PICK q \in f .. r, t \in S : a = <<q, t>>
    BY <1>2, BeforePairs
  <2>2. q \in f .. r + 1 /\ q < r + 1
    BY <2>1
  <2> QED BY <2>1, <2>2, BeforePair
<1> QED BY <1>1, <1>2

\* The attempts by TCP are a set of slots of the list.
LEMMA TcpSame ==
    ASSUME UNCHANGED <<list, tried>>
    PROVE  AskedByTcp' = AskedByTcp
BY DEF list, AskedByTcp

LEMMA TcpAdd ==
    ASSUME TypeOK, UNCHANGED list, NEW s \in servers,
           tried' = tried \cup {<<Rounds, s>>}
    PROVE  AskedByTcp' = AskedByTcp \cup {s}
BY DEF list, AskedByTcp

\* What the type says, in the form the lemmas about Before ask for.
LEMMA TypedList ==
    ASSUME TypeOK
    PROVE  /\ servers \in SUBSET Int /\ \A s \in servers : 0 <= s /\ s < Slots
           /\ flagrecursive \in Int /\ udploop \in Int /\ curserver \in Int
BY BoundsAssumption DEF TypeOK, Rounds

LEMMA UdpStep ==
    ASSUME TypeOK, AtSlot, AskedInTurn, UdpLoop
    PROVE  AskedInTurn'
<1> DEFINE B(r, c) == Before(flagrecursive, servers, r, c)
<1>0. pc = "udp" /\ tried = B(udploop, curserver) /\ udploop >= flagrecursive
  BY DEF AtSlot, AskedInTurn, UdpLoop, UdpSkip, UdpSend, UdpSendFails,
     UdpNoSocket, UdpNextRound, UdpExhausted, AtUdpSlot
<1>1. CASE UdpSkip
  <2>1. B(udploop, curserver + 1) = B(udploop, curserver)
    BY <1>1, BeforeSkip, TypedList DEF UdpSkip
  <2> QED BY <1>0, <1>1, <2>1 DEF UdpSkip, AskedInTurn, list
<1>2. CASE UdpSend
  BY <1>0, <1>2 DEF UdpSend, AskedInTurn, list
<1>3. CASE UdpSendFails
  <2>1. B(udploop, curserver + 1) = B(udploop, curserver) \cup {<<udploop, curserver>>}
    BY <1>0, <1>3, BeforeAdd, TypedList DEF UdpSendFails
  <2> QED BY <1>0, <1>3, <2>1 DEF UdpSendFails, AtUdpSlot, AskedInTurn, list
<1>4. CASE UdpNextRound
  <2>1. \A s \in servers : 0 <= s /\ s < curserver
    BY <1>4, TypedList, BoundsAssumption DEF UdpNextRound
  <2>2. B(udploop + 1, 0) = B(udploop, curserver)
    BY <2>1, BeforeTurn, TypedList
  <2> QED BY <1>0, <1>4, <2>2 DEF UdpNextRound, AskedInTurn, list
<1>5. CASE UdpNoSocket \/ UdpExhausted
  BY <1>5 DEF UdpNoSocket, UdpExhausted, Finish, FreeAll, AskedInTurn
<1> QED BY <1>1, <1>2, <1>3, <1>4, <1>5 DEF UdpLoop

LEMMA TcpStep ==
    ASSUME TypeOK, AskedInTurn, TcpLoop
    PROVE  AskedInTurn'
<1>0. pc = "tcp" /\ AskedByTcp = {s \in servers : s < curserver}
      /\ curserver \in Int /\ \A s \in servers : s \in Int
  BY BoundsAssumption DEF TypeOK, AskedInTurn, TcpLoop, TcpSkip, TcpConnect, TcpConnectFails,
     TcpNoSocket, TcpExhausted, AtTcpSlot
<1>1. CASE TcpSkip
  <2>1. AskedByTcp' = AskedByTcp
    BY <1>1, TcpSame DEF TcpSkip
  <2> QED BY <1>0, <1>1, <2>1 DEF TcpSkip, AskedInTurn, list
<1>2. CASE TcpConnect
  <2>1. AskedByTcp' = AskedByTcp \cup {curserver}
    BY <1>2, TcpAdd DEF TcpConnect
  <2>2. {s \in servers : s <= curserver} = {s \in servers : s < curserver} \cup {curserver}
    <3>1. curserver \in servers
      BY <1>2 DEF TcpConnect
    <3>2. ASSUME NEW s \in servers PROVE s <= curserver <=> (s < curserver \/ s = curserver)
      BY <1>0
    <3> QED BY <1>0, <3>1, <3>2
  <2> QED BY <1>0, <1>2, <2>1, <2>2 DEF TcpConnect, AskedInTurn, list
<1>3. CASE TcpConnectFails
  <2>1. AskedByTcp' = AskedByTcp \cup {curserver}
    BY <1>3, TcpAdd DEF TcpConnectFails
  <2>2. {s \in servers : s < curserver + 1} = {s \in servers : s < curserver} \cup {curserver}
    <3>1. curserver \in servers
      BY <1>3 DEF TcpConnectFails
    <3>2. ASSUME NEW s \in servers PROVE s < curserver + 1 <=> (s < curserver \/ s = curserver)
      BY <1>0
    <3> QED BY <1>0, <3>1, <3>2
  <2> QED BY <1>0, <1>3, <2>1, <2>2 DEF TcpConnectFails, AtTcpSlot, AskedInTurn, list
<1>4. CASE TcpNoSocket \/ TcpExhausted
  BY <1>4 DEF TcpNoSocket, TcpExhausted, Finish, FreeAll, AskedInTurn
<1> QED BY <1>1, <1>2, <1>3, <1>4 DEF TcpLoop

\* From a waiting exchange to the next slot, by either protocol.
LEMMA EnterUdpStep ==
    ASSUME TypeOK, AtSlot, AskedInTurn, Waiting(0), EnterUdp(curserver + 1)
    PROVE  AskedInTurn'
<1>1. /\ curserver \in servers /\ udploop >= flagrecursive
      /\ tried = Before(flagrecursive, servers, udploop, curserver)
                   \cup {<<udploop, curserver>>}
  BY DEF AtSlot, AskedInTurn, Waiting
<1>2. Before(flagrecursive, servers, udploop, curserver + 1) = tried
  BY <1>1, BeforeAdd, TypedList
<1> QED BY <1>2 DEF EnterUdp, AskedInTurn, list

LEMMA TcpNextStep ==
    ASSUME TypeOK, AskedInTurn, pc = "wait", tcpstate # 0,
           pc' = "tcp", curserver' = curserver + 1, UNCHANGED <<list, tried>>
    PROVE  AskedInTurn'
<1>1. AskedByTcp' = {s \in servers : s <= curserver}
  BY TcpSame DEF AskedInTurn
<1>2. \A s \in servers : s <= curserver <=> s < curserver + 1
  BY BoundsAssumption DEF TypeOK
<1> QED BY <1>1, <1>2 DEF AskedInTurn, list

LEMMA TruncatedStep ==
    ASSUME TypeOK, AtSlot, AskedInTurn, RecvTruncated
    PROVE  AskedInTurn'
<1>1. /\ udploop < Rounds /\ udploop \in Int
      /\ tried = Before(flagrecursive, servers, udploop, curserver)
                   \cup {<<udploop, curserver>>}
  BY TypedList DEF AtSlot, AskedInTurn, RecvTruncated, Waiting
<1>2. \A s \in servers : <<Rounds, s>> \notin Before(flagrecursive, servers, udploop, curserver)
  BY <1>1, BeforePair, TypedList DEF Rounds
<1>3. ASSUME NEW s \in servers PROVE <<Rounds, s>> \notin tried
  <2>1. Rounds # udploop
    BY <1>1 DEF Rounds
  <2>2. <<Rounds, s>> # <<udploop, curserver>>
    BY <2>1
  <2> QED BY <1>1, <1>2, <2>2
<1>4. AskedByTcp' = {}
  BY <1>3, TcpSame DEF AskedByTcp, RecvTruncated, EnterTcp
<1>5. {s \in servers : s < 0} = {}
  BY TypedList
<1> QED BY <1>4, <1>5 DEF RecvTruncated, EnterTcp, AskedInTurn, list

LEMMA StartStep ==
    ASSUME TypeOK', Start
    PROVE  AskedInTurn'
<1>1. servers' \in SUBSET Int /\ (\A s \in servers' : 0 <= s) /\ flagrecursive' \in Int
  BY BoundsAssumption DEF TypeOK
<1>2. AskedByTcp' = {} /\ curserver' = 0 /\ tried' = {} /\ udploop' = flagrecursive'
  BY DEF Start, AskedByTcp
<1>3. ASSUME NEW a \in Before(flagrecursive', servers', flagrecursive', 0) PROVE FALSE
  <2>1. PICK q \in flagrecursive' .. flagrecursive', t \in servers' : a = <<q, t>>
    BY <1>1, <1>3, BeforePairs
  <2> QED BY <1>1, <1>3, <2>1, BeforePair
<1>4. ASSUME NEW s \in servers' PROVE ~(s < 0)
  BY <1>1
<1>5. pc' # "wait"
  BY DEF Start
<1> QED BY <1>2, <1>3, <1>4, <1>5 DEF AskedInTurn

\* Steps that stay within the exchange with one server, or end it.
LEMMA SameSlotStep ==
    ASSUME AskedInTurn, UNCHANGED <<list, tried, pc, udploop, curserver>>,
           tcpstate' = tcpstate \/ (tcpstate # 0 /\ tcpstate' # 0)
    PROVE  AskedInTurn'
<1>1. AskedByTcp' = AskedByTcp
  BY TcpSame
<1> QED BY <1>1 DEF AskedInTurn, list

LEMMA DoneStep ==
    ASSUME pc' = "done" PROVE AskedInTurn'
BY DEF AskedInTurn

LEMMA AskedStep == Inv /\ Inv' /\ AskedInTurn /\ [Next]_vars => AskedInTurn'
<1> SUFFICES ASSUME Inv, Inv', AskedInTurn, [Next]_vars PROVE AskedInTurn'
  OBVIOUS
<1> USE DEF Inv
<1>1. CASE Start
  BY <1>1, StartStep
<1>2. CASE UdpLoop
  BY <1>2, UdpStep
<1>3. CASE TcpLoop
  BY <1>3, TcpStep
<1>4. CASE RecvError \/ RecvRefused
  BY <1>4, EnterUdpStep DEF RecvError, RecvRefused
<1>5. CASE StreamFails
  BY <1>5, TcpNextStep DEF StreamFails, EnterTcp
<1>6. CASE ReadUseless
  BY <1>6, TcpNextStep DEF ReadUseless, Waiting
<1>7. CASE RecvTruncated
  BY <1>7, TruncatedStep
<1>8. CASE Timeout
  <2>1. RecvError \/ StreamFails
    BY <1>8 DEF Timeout, RecvError, StreamFails, Waiting, TypeOK
  <2> QED BY <2>1, <1>4, <1>5
<1>9. CASE RecvAnswer \/ RecvNoMemory \/ ReadAnswer \/ ReadLengthNoMemory \/ Free
  <2>1. pc' = "done"
    BY <1>9 DEF RecvAnswer, RecvNoMemory, ReadAnswer, ReadLengthNoMemory, Free, Finish, FreeAll
  <2> QED BY <2>1, DoneStep
<1>10. CASE Connected \/ WriteQuery \/ ReadLength1 \/ ReadLength2 \/ ReadPacket \/ Tick
                   \/ Arrive \/ Dropped
  <2>1. UNCHANGED <<list, tried, pc, udploop, curserver>>
    BY <1>10 DEF Connected, WriteQuery, ReadLength1, ReadLength2, LengthRead, ReadPacket, Tick,
                 Arrive, Dropped
  <2>2. tcpstate' = tcpstate \/ (tcpstate # 0 /\ tcpstate' # 0)
    BY <1>10 DEF Connected, WriteQuery, ReadLength1, ReadLength2, LengthRead, ReadPacket, Tick,
                 Arrive, Dropped, Waiting
  <2> QED BY <2>1, <2>2, SameSlotStep
<1>11. CASE UNCHANGED vars
  <2>1. UNCHANGED <<list, tried, pc, udploop, curserver, tcpstate>>
    BY <1>11 DEF vars, list
  <2> QED BY <2>1, SameSlotStep
<1> QED BY <1>1, <1>2, <1>3, <1>4, <1>5, <1>6, <1>7, <1>8, <1>9, <1>10, <1>11 DEF Next, Get, Event

\* No path through an exchange forgets a socket or a buffer, and what it holds
\* matches where it stands.
THEOREM TransmitResources == Spec => []Resources
<1>1. Inv => Resources
  BY DEF Inv
<1> QED BY <1>1, InitInv, NextInv, PTL DEF Spec

LEMMA InitAsked == Init => AskedInTurn
BY DEF Init, AskedInTurn

\* Every attempt is made in its turn and once, over UDP and over TCP.
THEOREM TransmitAskedInTurn == Spec => []AskedInTurn
BY InitInv, NextInv, InitAsked, AskedStep, PTL DEF Spec

============================================================================

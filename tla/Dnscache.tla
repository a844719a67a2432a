------------------------------ MODULE Dnscache ------------------------------
(***************************************************************************)
(* dnscache.c: the main loop of the cache server and its two pools of      *)
(* clients, MAXUDP datagram clients and MAXTCP connections.  Each client   *)
(* has a query of its own (query.c), seen here by what its calls return:   *)
(* -1 drop it, 0 go on waiting for a server, 1 the response is ready.      *)
(*                                                                         *)
(* One turn of the loop is a "build" step that notes which descriptors are *)
(* polled, one step per client in "udp" and "tcp", and one step per        *)
(* listening socket in "new".  What poll, the clients and the servers do   *)
(* is open; poll's answer for a descriptor is chosen when it is looked at. *)
(***************************************************************************)
EXTENDS Integers, FiniteSets

CONSTANTS
    MAXUDP, MAXTCP,       \* sizes of the pools: 200 and 20
    Interfaces,           \* addresses the server listens on
    Timeout               \* seconds a silent connection is kept: 10

ASSUME PoolsAssumption ==
    MAXUDP \in Nat \ {0} /\ MAXTCP \in Nat \ {0} /\ Interfaces \in Nat \ {0} /\ Timeout \in Nat

U == 1 .. MAXUDP
T == 1 .. MAXTCP

VARIABLES
    uon, uq,              \* 1: the slot is active; its query holds a server socket
    urank,                \* 1 for the slot whose start is oldest, and so on
    uopen,                \* log lines "query" less lines "sent" or "drop"
    uactive,              \* the counter uactive
    ton, tq, trank, topen, tactive,
    tstate,               \* see the table at line 171
    tbuf, tsock,          \* 1: buf is allocated; the connection is open
    timer,                \* seconds left of the timeout
    leaked,               \* buffers and connections that were forgotten
    pc, todo,             \* the part of the loop, and what it has still to look at
    upolled, tpolled      \* what the last build polled for the slot

udp == <<uon, uq, urank, uopen, uactive>>
tcp == <<ton, tq, trank, topen, tactive, tstate, tbuf, tsock, timer, leaked>>
loop == <<pc, todo, upolled, tpolled>>
vars == <<udp, tcp, loop>>
-----------------------------------------------------------------------------
\* The slot of rank 1 is the one taia_less finds; taking slot j makes it newest.
Taken(rank, j) ==
    [i \in DOMAIN rank |-> IF i = j THEN Cardinality(DOMAIN rank)
                           ELSE IF rank[i] > rank[j] THEN rank[i] - 1 ELSE rank[i]]

\* The slot a new client gets: the first free one, else the oldest client's.
Slot(on, rank, j) ==
    IF \E i \in DOMAIN on : on[i] = 0
      THEN on[j] = 0 /\ \A i \in DOMAIN on : on[i] = 0 => j <= i
      ELSE rank[j] = 1

First(j) == j \in todo /\ \A i \in todo : j <= i

Init ==
    /\ uon = [j \in U |-> 0] /\ uq = [j \in U |-> 0] /\ uopen = [j \in U |-> 0]
    /\ urank = [j \in U |-> j] /\ uactive = 0
    /\ ton = [j \in T |-> 0] /\ tq = [j \in T |-> 0] /\ topen = [j \in T |-> 0]
    /\ trank = [j \in T |-> j] /\ tactive = 0
    /\ tstate = [j \in T |-> 0] /\ tbuf = [j \in T |-> 0] /\ tsock = [j \in T |-> 0]
    /\ timer = [j \in T |-> 0] /\ leaked = 0
    /\ pc = "build" /\ todo = {}
    /\ upolled = [j \in U |-> "none"] /\ tpolled = [j \in T |-> "none"]
-----------------------------------------------------------------------------
(* The order of the parts of one turn. *)

Enter(part) ==
    /\ pc' = part
    /\ todo' = CASE part = "udp" -> U [] part = "tcp" -> T
                 [] part = "new" -> 1 .. 2 * Interfaces [] part = "build" -> {}

\* Mutant of After: new clients come before the polled ones.
AfterNewFirst(part) ==
    CASE part = "build" -> "new" [] part = "new" -> "udp"
      [] part = "udp" -> "tcp" [] part = "tcp" -> "build"

After(part) ==
    CASE part = "build" -> "udp" [] part = "udp" -> "tcp"
      [] part = "tcp" -> "new" [] part = "new" -> "build"

\* What a connection waits for, and so which descriptor io points to.
Waits(j) == IF ton[j] = 0 THEN "none" ELSE IF tstate[j] = 0 THEN "query" ELSE "client"

Build ==
    /\ pc = "build"
    /\ upolled' = [j \in U |-> IF uon[j] = 1 THEN "query" ELSE "none"]
    /\ tpolled' = [j \in T |-> Waits(j)]
    /\ Enter(After("build"))
    /\ UNCHANGED <<udp, tcp>>

PartDone ==
    /\ pc # "build" /\ todo = {}
    /\ Enter(After(pc))
    /\ UNCHANGED <<udp, tcp, upolled, tpolled>>

\* One item of the current part is dealt with.
Step(part, j) ==
    /\ pc = part /\ First(j)
    /\ todo' = todo \ {j}
    /\ UNCHANGED <<pc, upolled, tpolled>>

Skip ==
    /\ \/ \E j \in U : Step("udp", j) /\ uon[j] = 0
       \/ \E j \in T : Step("tcp", j) /\ ton[j] = 0
       \/ \E j \in 1 .. 2 * Interfaces : Step("new", j)
    /\ UNCHANGED <<udp, tcp>>
-----------------------------------------------------------------------------
(* Datagram clients. *)

\* u_drop or u_respond: the query is logged as done and the slot is free.
EndUdp(j) ==
    /\ uon' = [uon EXCEPT ![j] = 0] /\ uactive' = uactive - 1
    /\ uopen' = [uopen EXCEPT ![j] = @ - 1]

\* query_get returns 0, or -1 or 1.
UdpWaits(j) == Step("udp", j) /\ uon[j] = 1 /\ UNCHANGED <<udp, tcp>>

\* Mutant of UdpEnds: the slot is not given back.
UdpEndsActive(j) ==
    /\ Step("udp", j) /\ uon[j] = 1
    /\ uq' = [uq EXCEPT ![j] = 0]
    /\ UNCHANGED <<uon, urank, uopen, uactive, tcp>>

UdpEnds(j) ==
    /\ Step("udp", j) /\ uon[j] = 1
    /\ EndUdp(j)
    /\ uq' = [uq EXCEPT ![j] = 0]
    /\ UNCHANGED <<urank, tcp>>

\* Interface i has its datagram socket at 2i-1 and its listening socket at 2i.
\* u_new takes a slot, at the cost of the oldest client when there is no other,
\* before it has read the packet.
u_new(j, on, q) ==
    /\ \E i \in todo : i % 2 = 1 /\ Step("new", i)
    /\ Slot(uon, urank, j)
    /\ urank' = Taken(urank, j)
    /\ uon' = [uon EXCEPT ![j] = on]
    /\ uactive' = uactive - uon[j] + on
    /\ uopen' = [uopen EXCEPT ![j] = @ - uon[j] + on]
    /\ uq' = [uq EXCEPT ![j] = q]
    /\ UNCHANGED tcp

\* Not a query, not a client, or a transfer, which query_start refuses before
\* it looks at what the slot's last query left.
UdpRefused == \E j \in U : u_new(j, 0, uq[j])
\* Answered from the cache, or dropped, within u_new.
UdpAtOnce == \E j \in U : u_new(j, 0, 0)
UdpAccepted == \E j \in U : u_new(j, 1, 1)
-----------------------------------------------------------------------------
(* Connections. *)

\* t_close, and t_drop when a query is logged as dropped with it.
Close(j, logged) ==
    /\ tbuf' = [tbuf EXCEPT ![j] = 0] /\ tsock' = [tsock EXCEPT ![j] = 0]
    /\ ton' = [ton EXCEPT ![j] = 0] /\ tactive' = tactive - 1
    /\ topen' = [topen EXCEPT ![j] = @ - logged]
    /\ UNCHANGED <<tstate, leaked>>

\* t_respond, which frees the buffer of the question for that of the answer.
Respond(j, logged) ==
    /\ topen' = [topen EXCEPT ![j] = @ - logged]
    /\ tbuf' = [tbuf EXCEPT ![j] = 1]
    /\ tstate' = [tstate EXCEPT ![j] = -1]
    /\ UNCHANGED <<ton, tactive, tsock, leaked>>

\* Poll had an event for the descriptor of connection j, or had none.
Event(j) == timer' = [timer EXCEPT ![j] = Timeout]
NoEvent == UNCHANGED timer

\* A connection in state 0, and what query_get returns: 0, -1, 1, and 1 with no
\* memory for the response.  Events are those of the server's socket.
Querying(j) ==
    /\ Step("tcp", j) /\ ton[j] = 1 /\ tstate[j] = 0
    /\ Event(j) \/ NoEvent
    /\ UNCHANGED <<udp, trank>>
TcpWaits(j) == Querying(j) /\ UNCHANGED <<ton, tq, topen, tactive, tstate, tbuf, tsock, leaked>>
TcpAnswered(j) == Querying(j) /\ tq' = [tq EXCEPT ![j] = 0] /\ Respond(j, 1)
TcpDropped(j) == Querying(j) /\ tq' = [tq EXCEPT ![j] = 0] /\ Close(j, 1)

\* t_rw: the connection is ready, or its time is up.
t_rw(j, states) ==
    /\ Step("tcp", j) /\ ton[j] = 1 /\ tstate[j] \in states
    /\ Event(j) \/ (timer[j] = 0 /\ NoEvent)
    /\ UNCHANGED <<udp, trank>>

\* Part of the response is written, or a byte of the question is read.
Partly(j) == t_rw(j, {-1, 3}) /\ UNCHANGED <<ton, tq, topen, tactive, tstate, tbuf, tsock, leaked>>

\* Mutant of Written: the buffer of the response stays.
WrittenKeepsBuffer(j) ==
    /\ t_rw(j, {-1})
    /\ tstate' = [tstate EXCEPT ![j] = 1]
    /\ UNCHANGED <<ton, tq, topen, tactive, tbuf, tsock, leaked>>

\* The whole response is written; the next question may come.
Written(j) ==
    /\ t_rw(j, {-1})
    /\ tbuf' = [tbuf EXCEPT ![j] = 0] /\ tstate' = [tstate EXCEPT ![j] = 1]
    /\ UNCHANGED <<ton, tq, topen, tactive, tsock, leaked>>

Length1(j) ==
    /\ t_rw(j, {1})
    /\ tstate' = [tstate EXCEPT ![j] = 2]
    /\ UNCHANGED <<ton, tq, topen, tactive, tbuf, tsock, leaked>>

Length2(j) ==
    /\ t_rw(j, {2})
    /\ tbuf' = [tbuf EXCEPT ![j] = 1] /\ leaked' = leaked + tbuf[j]
    /\ tstate' = [tstate EXCEPT ![j] = 3]
    /\ UNCHANGED <<ton, tq, topen, tactive, tsock>>

\* read or write failed or met the end, the length is 0, there is no memory,
\* or the question is not one.
Hangup(j) == t_rw(j, {-1, 1, 2, 3}) /\ Close(j, 0) /\ UNCHANGED tq

\* The question is complete, and query_start returns 0, 1 or -1, the last also
\* for a transfer, which leaves q alone.
Asked(j) ==
    /\ t_rw(j, {3})
    /\ topen' = [topen EXCEPT ![j] = @ + 1]
    /\ tbuf' = [tbuf EXCEPT ![j] = 0] /\ tstate' = [tstate EXCEPT ![j] = 0]
    /\ tq' = [tq EXCEPT ![j] = 1]
    /\ UNCHANGED <<ton, tactive, tsock, leaked>>
AnsweredAtOnce(j) == t_rw(j, {3}) /\ tq' = [tq EXCEPT ![j] = 0] /\ Respond(j, 0)
DroppedAtOnce(j) ==
    /\ t_rw(j, {3}) /\ Close(j, 0)
    /\ tq' = [tq EXCEPT ![j] = 0] \/ UNCHANGED tq

\* Mutant of Evicted: a connection is closed without a look at its query.
EvictedSilently(j) == 0

\* The query of the connection that loses its slot is logged as dropped.
Evicted(j) == IF ton[j] = 1 /\ tstate[j] = 0 THEN 1 ELSE 0

\* t_new: like u_new, the slot is taken before the connection is looked at.
t_new(j, on) ==
    /\ \E i \in todo : i % 2 = 0 /\ Step("new", i)
    /\ Slot(ton, trank, j)
    /\ trank' = Taken(trank, j)
    /\ topen' = [topen EXCEPT ![j] = @ - Evicted(j)]
    /\ tbuf' = [tbuf EXCEPT ![j] = IF ton[j] = 1 THEN 0 ELSE @]
    /\ ton' = [ton EXCEPT ![j] = on] /\ tactive' = tactive - ton[j] + on
    /\ tsock' = [tsock EXCEPT ![j] = on]
    /\ leaked' = leaked + on * (tsock[j] - ton[j])
    /\ UNCHANGED <<udp, tq>>

\* accept failed, or the client is refused.
TcpRefused == \E j \in T : t_new(j, 0) /\ UNCHANGED <<tstate, timer>>
TcpAccepted ==
    \E j \in T :
      /\ t_new(j, 1)
      /\ tstate' = [tstate EXCEPT ![j] = 1]
      /\ timer' = [timer EXCEPT ![j] = Timeout]
-----------------------------------------------------------------------------
Tick ==
    /\ \E j \in T : timer[j] > 0
    /\ timer' = [j \in T |-> IF timer[j] > 0 THEN timer[j] - 1 ELSE 0]
    /\ UNCHANGED <<udp, ton, tq, trank, topen, tactive, tstate, tbuf, tsock, leaked, loop>>

ServeUdp(j) == UdpWaits(j) \/ UdpEnds(j)
TcpEnds(j) == TcpAnswered(j) \/ TcpDropped(j)
ServeTcp(j) ==
    TcpWaits(j) \/ TcpEnds(j) \/ Partly(j) \/ Written(j) \/ Length1(j) \/ Length2(j)
    \/ Hangup(j) \/ Asked(j) \/ AnsweredAtOnce(j) \/ DroppedAtOnce(j)
\* A connection in no hurry is passed over.
TcpIdle(j) == Step("tcp", j) /\ ton[j] = 1 /\ tstate[j] # 0 /\ timer[j] > 0 /\ UNCHANGED <<udp, tcp>>
New == UdpRefused \/ UdpAtOnce \/ UdpAccepted \/ TcpRefused \/ TcpAccepted

LoopStep ==
    \/ Build \/ PartDone \/ Skip
    \/ \E j \in U : ServeUdp(j)
    \/ \E j \in T : ServeTcp(j) \/ TcpIdle(j)
    \/ New

Next == LoopStep \/ Tick

Spec == Init /\ [][Next]_vars

\* The loop runs on: poll waits no longer than the next deadline, and no call
\* of a turn blocks.  Nothing is assumed of what query_get returns.
FairSpec == Spec /\ WF_vars(LoopStep)
-----------------------------------------------------------------------------
\* The state has its types.
TypeOK ==
    /\ uon \in [U -> {0, 1}] /\ uq \in [U -> {0, 1}] /\ uopen \in [U -> Int]
    /\ urank \in [U -> U] /\ uactive \in Int
    /\ ton \in [T -> {0, 1}] /\ tq \in [T -> {0, 1}] /\ topen \in [T -> Int]
    /\ trank \in [T -> T] /\ tactive \in Int
    /\ tstate \in [T -> {-1, 0, 1, 2, 3}]
    /\ tbuf \in [T -> {0, 1}] /\ tsock \in [T -> {0, 1}] /\ timer \in [T -> 0 .. Timeout]
    /\ leaked \in Int
    /\ pc \in {"build", "udp", "tcp", "new"} /\ todo \subseteq Int
    /\ upolled \in [U -> {"none", "query"}] /\ tpolled \in [T -> {"none", "query", "client"}]

\* The table at line 171: a connection has a buffer in states 3 and -1 only and
\* a query that waits for a server in state 0; a closed one has neither buffer
\* nor descriptor; a datagram client's query waits for a server.  Nothing a slot
\* held is forgotten when it is reused.
SlotsOK ==
    /\ TypeOK
    /\ \A j \in U : uon[j] = 1 => uq[j] = 1
    /\ \A j \in T :
         /\ tsock[j] = ton[j]
         /\ tbuf[j] = (IF ton[j] = 1 /\ tstate[j] \in {-1, 3} THEN 1 ELSE 0)
         /\ ton[j] = 1 /\ tstate[j] = 0 => tq[j] = 1
    /\ leaked = 0

\* Every query that is logged is logged once more as sent or as dropped, and
\* not twice, whichever of the ways out it takes: a slot has an open entry
\* exactly while its query is under way, and the counters count the slots.
Ledger ==
    /\ \A j \in U : uopen[j] = uon[j]
    /\ \A j \in T : topen[j] = (IF ton[j] = 1 /\ tstate[j] = 0 THEN 1 ELSE 0)
    /\ uactive = Cardinality({j \in U : uon[j] = 1})
    /\ tactive = Cardinality({j \in T : ton[j] = 1})

\* A client is served by the events of its own descriptor, polled in this turn
\* for what it now waits for, and not by those of an earlier client of the slot.
FreshIo ==
    /\ pc = "udp" => \A j \in todo : uon[j] = 1 => upolled[j] = "query"
    /\ pc \in {"udp", "tcp"} =>
         \A j \in (IF pc = "udp" THEN T ELSE todo) : tpolled[j] = Waits(j)

\* dnscache.c:341-407: a query that waits for a server ends, answered, dropped,
\* or turned out by a new client, unless query_get is called for it again and
\* again and says each time that it has to wait.  No slot is passed over for
\* ever, however many clients come, and none is kept by a query that ended.
QueriesEnd ==
    /\ \A j \in U : (uon[j] = 1 ~> uon[j] = 0) \/ []<><<UdpWaits(j)>>_vars
    /\ \A j \in T :
         \/ (ton[j] = 1 /\ tstate[j] = 0) ~> ~(ton[j] = 1 /\ tstate[j] = 0)
         \/ []<><<TcpWaits(j)>>_vars
=============================================================================

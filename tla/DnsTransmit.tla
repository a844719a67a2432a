---------------------------- MODULE DnsTransmit ----------------------------
(***************************************************************************)
(* dns_transmit.c: one query sent to a list of servers.  UDP goes round    *)
(* the list up to four times with growing timeouts; an answer that does    *)
(* not fit in a datagram turns the exchange to TCP, once down the list.    *)
(*                                                                         *)
(* The loops of thisudp and thistcp are steps of their own, one per slot   *)
(* of the list (pc "udp" and "tcp"); between calls pc is "wait" while the  *)
(* exchange runs and "done" when the caller has been told 1 or -1.  What   *)
(* the peers and the kernel do is open.  dns_transmit_get looks at the      *)
(* deadline only when poll has reported nothing of the socket, so each of  *)
(* its actions is joined with what poll has reported (readable).           *)
(***************************************************************************)
EXTENDS Integers, FiniteSets

CONSTANTS
    Slots,                \* slots of the list of servers: 16
    QueryLens,            \* lengths of queries, as written to a TCP stream
    PacketLens,           \* lengths of answers, as announced on a TCP stream
    PosLimit              \* where a write past the end of the query stops

ASSUME BoundsAssumption ==
    /\ Slots \in Nat /\ PosLimit \in Nat
    /\ QueryLens \subseteq Nat \ {0} /\ PacketLens \subseteq Nat

Rounds == 4
timeouts == <<1, 3, 11, 45>>
TcpTimeout == 10

VARIABLES
    servers,              \* the slots that hold an address
    flagrecursive,        \* 1 when the first round is skipped, else 0
    pc, ret,              \* see above; the last value returned: 0, 1 or -1
    tcpstate, udploop, curserver,
    s1, query, packet,    \* 1 while the socket is open, the buffer allocated
    querylen, packetlen,  \* bytes of the query; announced bytes of the answer
    pos,                  \* bytes written or read so far
    sent,                 \* bytes of the query in the stream of this socket
    timer,                \* seconds until the deadline
    leaked,               \* open sockets and live buffers that were forgotten
    tried,                \* <<round, slot>> of every attempt; TCP is round 4
    readable              \* poll has reported something of the socket

vars == <<servers, flagrecursive, pc, ret, tcpstate, udploop, curserver,
          s1, query, packet, querylen, packetlen, pos, sent, timer, leaked, tried, readable>>
list == <<servers, flagrecursive, querylen>>
tcp == <<packetlen, pos, sent>>
--------------------------------------------------------------------------
Init ==
    /\ servers = {} /\ flagrecursive = 0
    /\ pc = "done" /\ ret = 0
    /\ tcpstate = 0 /\ udploop = 0 /\ curserver = 0
    /\ s1 = 0 /\ query = 0 /\ packet = 0
    /\ querylen = 0 /\ packetlen = 0 /\ pos = 0 /\ sent = 0 /\ timer = 0
    /\ leaked = 0 /\ tried = {} /\ readable = FALSE

\* dns_transmit_free, and the call returns r.
FreeAll(r) ==
    /\ pc' = "done" /\ ret' = r
    /\ s1' = 0 /\ query' = 0 /\ packet' = 0
    /\ UNCHANGED <<list, udploop, curserver, sent, timer, leaked, tried>>
Finish(r) == FreeAll(r) /\ UNCHANGED <<tcpstate, packetlen, pos>>

\* Mutant of EnterUdp: nextudp does not move on to the next slot.
EnterUdpSame(slot) ==
    /\ pc' = "udp" /\ curserver' = IF slot = 0 THEN 0 ELSE slot - 1
    /\ s1' = 0
    /\ UNCHANGED <<list, ret, tcpstate, udploop, query, packet, tcp,
                   timer, leaked, tried>>

\* thisudp up to its loop.
EnterUdp(slot) ==
    /\ pc' = "udp" /\ curserver' = slot
    /\ s1' = 0
    /\ UNCHANGED <<list, ret, tcpstate, udploop, query, packet, tcp,
                   timer, leaked, tried>>

\* Mutant of EnterTcp: the answer received so far is not freed.
EnterTcpKeepsPacket(slot) ==
    /\ pc' = "tcp" /\ curserver' = slot
    /\ s1' = 0
    /\ UNCHANGED <<list, ret, tcpstate, udploop, query, packet, tcp,
                   timer, leaked, tried>>

\* thistcp up to its loop.
EnterTcp(slot) ==
    /\ pc' = "tcp" /\ curserver' = slot
    /\ s1' = 0 /\ packet' = 0
    /\ UNCHANGED <<list, ret, tcpstate, udploop, query, tcp,
                   timer, leaked, tried>>

\* dns_transmit_start first frees what the exchange before left, an answer
\* among it.  Allocation may fail; a query longer than a datagram goes to TCP
\* at once (the callers' names are too short for that).
Start ==
    /\ pc = "done"
    /\ \E present \in SUBSET (0 .. Slots - 1), rec \in {0, 1}, len \in QueryLens,
          long \in BOOLEAN, alloc \in BOOLEAN :
         /\ servers' = present /\ flagrecursive' = rec /\ querylen' = len
         /\ udploop' = rec
         /\ pc' = IF ~alloc THEN "done" ELSE IF long THEN "tcp" ELSE "udp"
         /\ ret' = IF alloc THEN 0 ELSE -1
         /\ query' = IF alloc THEN 1 ELSE 0
    /\ curserver' = 0
    /\ s1' = 0 /\ packet' = 0
    /\ tried' = {}
    /\ UNCHANGED <<tcpstate, tcp, timer, leaked>>
--------------------------------------------------------------------------
(* The loop of thisudp. *)

AtUdpSlot == pc = "udp" /\ udploop < Rounds /\ curserver < Slots

UdpSkip ==
    /\ AtUdpSlot /\ curserver \notin servers
    /\ curserver' = curserver + 1
    /\ UNCHANGED <<list, pc, ret, tcpstate, udploop, s1, query, packet, tcp, timer, leaked, tried>>

\* socket and connect and send worked; wait for the answer.
UdpSend ==
    /\ AtUdpSlot /\ curserver \in servers
    /\ pc' = "wait" /\ ret' = 0 /\ tcpstate' = 0
    /\ s1' = 1 /\ leaked' = leaked + s1
    /\ timer' = timeouts[udploop + 1]
    /\ tried' = tried \cup {<<udploop, curserver>>}
    /\ UNCHANGED <<list, udploop, curserver, query, packet, tcp>>

\* connect or send failed: close the socket, go on with the next slot.
UdpSendFails ==
    /\ AtUdpSlot /\ curserver \in servers
    /\ s1' = 0 /\ leaked' = leaked + s1
    /\ tried' = tried \cup {<<udploop, curserver>>}
    /\ curserver' = curserver + 1
    /\ UNCHANGED <<list, pc, ret, tcpstate, udploop, query, packet, tcp, timer>>

\* No socket or no port.
UdpNoSocket ==
    /\ AtUdpSlot /\ curserver \in servers
    /\ Finish(-1)

\* Mutant of UdpNextRound: a new round starts at the slot after the first.
UdpNextRoundSkips ==
    /\ pc = "udp" /\ udploop < Rounds /\ curserver >= Slots
    /\ udploop' = udploop + 1 /\ curserver' = 1
    /\ UNCHANGED <<list, pc, ret, tcpstate, s1, query, packet, tcp,
                   timer, leaked, tried>>

UdpNextRound ==
    /\ pc = "udp" /\ udploop < Rounds /\ curserver >= Slots
    /\ udploop' = udploop + 1 /\ curserver' = 0
    /\ UNCHANGED <<list, pc, ret, tcpstate, s1, query, packet, tcp,
                   timer, leaked, tried>>

UdpExhausted ==
    /\ pc = "udp" /\ udploop = Rounds
    /\ Finish(-1)
--------------------------------------------------------------------------
(* The loop of thistcp. *)

AtTcpSlot == pc = "tcp" /\ curserver < Slots

TcpSkip ==
    /\ AtTcpSlot /\ curserver \notin servers
    /\ curserver' = curserver + 1
    /\ UNCHANGED <<list, pc, ret, tcpstate, udploop, s1, query, packet, tcp, timer, leaked, tried>>

\* connect worked at once, which does not touch pos, or is under way.
TcpConnect ==
    /\ AtTcpSlot /\ curserver \in servers
    /\ \E atOnce \in BOOLEAN : tcpstate' = IF atOnce THEN 2 ELSE 1
    /\ pc' = "wait" /\ ret' = 0
    /\ s1' = 1 /\ leaked' = leaked + s1
    /\ sent' = 0
    /\ timer' = TcpTimeout
    /\ tried' = tried \cup {<<Rounds, curserver>>}
    /\ UNCHANGED <<list, udploop, curserver, query, packet, packetlen, pos>>

TcpConnectFails ==
    /\ AtTcpSlot /\ curserver \in servers
    /\ s1' = 0 /\ leaked' = leaked + s1
    /\ timer' = TcpTimeout
    /\ tried' = tried \cup {<<Rounds, curserver>>}
    /\ curserver' = curserver + 1
    /\ UNCHANGED <<list, pc, ret, tcpstate, udploop, query, packet, tcp>>

TcpNoSocket ==
    /\ AtTcpSlot /\ curserver \in servers
    /\ Finish(-1)

TcpExhausted ==
    /\ pc = "tcp" /\ curserver >= Slots
    /\ Finish(-1)
--------------------------------------------------------------------------
(* dns_transmit_get. *)

Waiting(state) == pc = "wait" /\ tcpstate = state

\* No event, and the deadline has passed.
Timeout ==
    /\ pc = "wait" /\ timer = 0
    /\ \/ tcpstate = 0 /\ EnterUdp(curserver + 1)
       \/ tcpstate # 0 /\ EnterTcp(curserver + 1)

\* recv failed, with something other than a refusal.
RecvError == Waiting(0) /\ EnterUdp(curserver + 1)

\* The port is closed, or the server answered that it failed.  In round 2
\* both are ignored.
RecvRefused == Waiting(0) /\ udploop # 2 /\ EnterUdp(curserver + 1)

\* The answer did not fit.
RecvTruncated == Waiting(0) /\ EnterTcp(0)

\* An answer to this query: keep a copy.
RecvAnswer ==
    /\ Waiting(0)
    /\ pc' = "done" /\ ret' = 1
    /\ s1' = 0 /\ query' = 0
    /\ packet' = 1 /\ leaked' = leaked + packet
    /\ \E n \in PacketLens : packetlen' = n
    /\ UNCHANGED <<list, tcpstate, udploop, curserver, pos, sent, timer, tried>>

RecvNoMemory == Waiting(0) /\ Finish(-1)

Connected ==
    /\ Waiting(1)
    /\ tcpstate' = 2 /\ pos' = 0
    /\ UNCHANGED <<list, pc, ret, udploop, curserver, s1, query, packet, packetlen,
                   sent, timer, leaked, tried>>

\* connect, write or read failed or was cut off.
StreamFails ==
    /\ pc = "wait" /\ tcpstate \in 1 .. 5
    /\ EnterTcp(curserver + 1)

\* The last byte starts the wait for the answer.  With pos past the end the
\* unsigned count wraps: some stray bytes follow.
WriteQuery ==
    /\ Waiting(2)
    /\ \E n \in 1 .. (IF pos <= querylen THEN querylen - pos ELSE PosLimit - pos) :
         /\ pos' = pos + n /\ sent' = sent + n
         /\ IF pos + n = querylen THEN tcpstate' = 3 /\ timer' = TcpTimeout
                                  ELSE UNCHANGED <<tcpstate, timer>>
    /\ UNCHANGED <<list, pc, ret, udploop, curserver, s1, query, packet, packetlen,
                   leaked, tried>>

ReadLength1 ==
    /\ Waiting(3)
    /\ tcpstate' = 4
    /\ \E n \in PacketLens : packetlen' = n \div 256
    /\ UNCHANGED <<list, pc, ret, udploop, curserver, s1, query, packet, pos, sent,
                   timer, leaked, tried>>

LengthRead ==
    /\ Waiting(4)
    /\ tcpstate' = 5 /\ pos' = 0
    /\ \E n \in PacketLens : n \div 256 = packetlen /\ packetlen' = n

ReadLength2 ==
    /\ LengthRead
    /\ packet' = 1 /\ leaked' = leaked + packet
    /\ UNCHANGED <<list, pc, ret, udploop, curserver, s1, query, sent, timer, tried>>

ReadLengthNoMemory == LengthRead /\ FreeAll(-1)

ReadPacket ==
    /\ Waiting(5)
    /\ \E n \in 1 .. packetlen - pos :
         /\ pos + n < packetlen
         /\ pos' = pos + n
    /\ UNCHANGED <<list, pc, ret, tcpstate, udploop, curserver, s1, query, packet,
                   packetlen, sent, timer, leaked, tried>>

\* The last byte came, and the answer is taken.
ReadAnswer ==
    /\ Waiting(5) /\ packetlen > pos
    /\ pc' = "done" /\ ret' = 1 /\ pos' = packetlen
    /\ s1' = 0 /\ query' = 0
    /\ UNCHANGED <<list, tcpstate, udploop, curserver, packet, packetlen, sent,
                   timer, leaked, tried>>

\* The last byte came, and the answer is irrelevant, truncated or a failure:
\* nexttcp.
ReadUseless ==
    /\ Waiting(5) /\ packetlen > pos
    /\ pc' = "tcp" /\ curserver' = curserver + 1 /\ pos' = packetlen
    /\ s1' = 0 /\ packet' = 0
    /\ UNCHANGED <<list, ret, tcpstate, udploop, query, packetlen, sent,
                   timer, leaked, tried>>

\* A datagram that is too long or irrelevant, or a refusal in round 2: the
\* call returns 0, the deadline is not looked at and nothing has changed.
Dropped ==
    /\ Waiting(0) /\ readable /\ readable' = FALSE
    /\ UNCHANGED <<list, pc, ret, tcpstate, udploop, curserver, s1, query, packet,
                   tcp, timer, leaked, tried>>

\* dns_transmit_free by the caller, who has given up on the query.
Free == pc = "wait" /\ Finish(0)

Tick ==
    /\ pc = "wait" /\ timer > 0
    /\ timer' = timer - 1
    /\ UNCHANGED <<list, pc, ret, tcpstate, udploop, curserver, s1, query, packet,
                   tcp, leaked, tried>>

UdpLoop == UdpSkip \/ UdpSend \/ UdpSendFails \/ UdpNoSocket \/ UdpNextRound \/ UdpExhausted
TcpLoop == TcpSkip \/ TcpConnect \/ TcpConnectFails \/ TcpNoSocket \/ TcpExhausted
Event == RecvError \/ RecvRefused \/ RecvTruncated \/ RecvAnswer \/ RecvNoMemory
         \/ Connected \/ StreamFails \/ WriteQuery \/ ReadLength1 \/ ReadLength2
         \/ ReadLengthNoMemory \/ ReadPacket \/ ReadAnswer \/ ReadUseless

\* dns_transmit_get, called by the owner of the exchange after each poll that
\* reported something of the socket or lasted to the deadline.
Get ==
    \/ ~readable /\ Timeout /\ UNCHANGED readable
    \/ readable /\ Event /\ readable' = FALSE
    \/ Dropped

\* A datagram, a byte, room to write or an error: poll reports it.
Arrive ==
    /\ pc = "wait" /\ ~readable /\ readable' = TRUE
    /\ UNCHANGED <<list, pc, ret, tcpstate, udploop, curserver, s1, query, packet,
                   tcp, timer, leaked, tried>>

Next ==
    \/ Get \/ Arrive
    \/ Free /\ readable' = FALSE
    \/ (Start \/ UdpLoop \/ TcpLoop \/ Tick) /\ UNCHANGED readable

Spec == Init /\ [][Next]_vars

\* The loops of the functions run by themselves, time passes, and after a poll
\* dns_transmit_get is called, whatever the poll has reported.
FairSpec ==
    /\ Spec
    /\ WF_vars(UdpLoop /\ UNCHANGED readable) /\ WF_vars(TcpLoop /\ UNCHANGED readable)
    /\ WF_vars(Tick /\ UNCHANGED readable) /\ WF_vars(Get)
--------------------------------------------------------------------------
Attempts == (0 .. Rounds) \X (0 .. Slots - 1)

\* The state has its types.
TypeOK ==
    /\ servers \subseteq 0 .. Slots - 1 /\ flagrecursive \in {0, 1}
    /\ pc \in {"udp", "tcp", "wait", "done"} /\ ret \in {0, 1, -1}
    /\ tcpstate \in 0 .. 5 /\ udploop \in 0 .. Rounds /\ curserver \in 0 .. Slots
    /\ s1 \in {0, 1} /\ query \in {0, 1} /\ packet \in {0, 1} /\ leaked \in Nat
    /\ querylen \in Nat /\ packetlen \in Nat /\ pos \in Nat /\ sent \in Nat
    /\ timer \in Nat /\ readable \in BOOLEAN
    /\ tried \subseteq Attempts

\* Who owns what: a waiting exchange has its query and an open socket, and a
\* packet buffer exactly while it fills it; an answered one has the packet
\* alone; a failed one nothing.  No path forgets a socket or a buffer.
Resources ==
    /\ leaked = 0
    /\ pc = "wait" => s1 = 1 /\ query = 1 /\ packet = (IF tcpstate = 5 THEN 1 ELSE 0)
    /\ pc \in {"udp", "tcp"} => s1 = 0 /\ query = 1 /\ packet = 0
    /\ pc = "done" => s1 = 0 /\ query = 0 /\ packet = (IF ret = 1 THEN 1 ELSE 0)

\* The attempts before slot c of round r when rounds start with first.
Before(first, S, r, c) == {a \in (first .. r) \X S : a[1] < r \/ a[2] < c}
AskedByTcp == {s \in servers : <<Rounds, s>> \in tried}

\* Each address is asked in turn: when a slot is up, exactly the earlier slots
\* of the round and all slots of the rounds before have been asked, each once,
\* whatever failed on the way; so an exchange that runs out of rounds has asked
\* every server in every round, and one that ends on TCP every server by TCP.
AskedInTurn ==
    /\ pc = "udp" => tried = Before(flagrecursive, servers, udploop, curserver)
    /\ pc = "wait" /\ tcpstate = 0 =>
          tried = Before(flagrecursive, servers, udploop, curserver)
                    \cup {<<udploop, curserver>>}
    /\ pc = "tcp" => AskedByTcp = {s \in servers : s < curserver}
    /\ pc = "wait" /\ tcpstate # 0 => AskedByTcp = {s \in servers : s <= curserver}

\* The comment at line 300: in state 2 pos bytes of the query have been sent.
\* Not so when connect succeeds at once: line 169 leaves pos as it was.
PosBytesSent == pc = "wait" /\ tcpstate = 2 => pos = sent

\* dns_transmit.c:251-273: every exchange comes to an end, whatever servers do,
\* fail to do or do one byte at a time, but for one: datagrams without use that
\* keep coming, each before the deadline is looked at, keep it waiting.
Ends == (pc # "done" ~> pc = "done") \/ []<><<Dropped>>_vars
============================================================================

---------------------------- MODULE ServerProofs ----------------------------
(***************************************************************************)
(* Proofs about what answers questions over UDP: the loop that servers     *)
(* share, for any number of servers, sockets, packets and clients, and the *)
(* answers of walldns, rbldns and pickdns, for addresses of any size and   *)
(* files of any length.  The invariant of the loop says what is in every   *)
(* queue and counts the open questions; that of the sort in pickdns-data,  *)
(* where the hole in the heap is and that nothing was lost beside it.      *)
(***************************************************************************)
EXTENDS Servers, SequenceTheorems, FunctionTheorems, FiniteSetTheorems, WellFoundedInduction, NaturalsInduction, TLAPS

(* The state of the loop: what each server has in its queues and at work.  *)
Elements(s) == {s[k] : k \in DOMAIN s}
Listed(s) == s \in Seq(Elements(s))

(* A packet that is answered has a question that fits into it.             *)
Sound(p) == p.qr \in {0, 1} /\ (p.qr = 0 => p.len \in Nat /\ p.qlen \in 0..p.len)
SoundBody(b) == {"qr", "len", "qlen"} \subseteq DOMAIN b /\ Sound(b)

Queued(s) ==
  /\ Listed(s) /\ Len(s) <= MaxQueue
  /\ \A k \in 1..Len(s) : Sound(s[k])

ServerTypes ==
  /\ pc \in [Node -> {"poll", "recv", "doit", "send"}]
  /\ revents \in [Node -> SUBSET Socket] /\ i \in [Node -> Socket]
  /\ DOMAIN queue = Node /\ DOMAIN buf = Node /\ DOMAIN response = Node
  /\ \A n \in Node : DOMAIN queue[n] = Socket
  /\ \A n \in Node, s \in Socket : Queued(queue[n][s])
  /\ \A m \in net : SoundBody(m.body)
  /\ asked \in Nat /\ repeats \in Nat /\ sent \in Nat

(* What is reported as readable is there until it is received.             *)
Readable ==
  \A n \in Node : \A s \in revents[n] :
    pc[n] # "poll" /\ (s > i[n] \/ (s = i[n] /\ pc[n] = "recv")) => queue[n][s] # <<>>

Working ==
  \A n \in Node :
    /\ pc[n] \in {"doit", "send"} => Sound(buf[n])
    /\ pc[n] = "send" =>
         /\ response[n].id = buf[n].id /\ response[n].name = buf[n].name /\ response[n].qr = 1
         /\ response[n].len \in Nat /\ response[n].qlen \in 0..Datagram
         /\ {"qr", "len", "qlen", "tc"} \subseteq DOMAIN response[n]

(* Where there is a question that was not yet answered.                    *)
InNet(m) == <<"net", m, 0, 0>>
InQueue(n, s, k) == <<"queue", n, s, k>>
AtWork(n) == <<"work", n, 0, 0>>
Open ==
  {InNet(m) : m \in {l \in net : l.body.qr = 0}}
  \cup {InQueue(t[1], t[2], t[3]) : t \in {u \in Node \X Socket \X Nat :
          u[3] \in 1..Len(queue[u[1]][u[2]]) /\ queue[u[1]][u[2]][u[3]].qr = 0}}
  \cup {AtWork(n) : n \in {o \in Node : pc[o] \in {"doit", "send"} /\ buf[o].qr = 0}}

(* server.c:35-82: answers that were sent and questions that are open come *)
(* to no more than questions that were asked or repeated.                  *)
Balance == IsFiniteSet(Open) /\ sent + Cardinality(Open) <= asked + repeats

ServerInv == ServerTypes /\ Readable /\ Working /\ ErrorsRight /\ Balance
-----------------------------------------------------------------------------
(* Sequences.                                                              *)
LEMMA Longer ==
  ASSUME NEW S, NEW s \in Seq(S), NEW e \in S
  PROVE  /\ Append(s, e) \in Seq(S) /\ Len(s) \in Nat /\ Len(Append(s, e)) = Len(s) + 1
         /\ \A k \in 1..Len(s) : Append(s, e)[k] = s[k]
         /\ Append(s, e)[Len(s) + 1] = e
  OBVIOUS

LEMMA Shorter ==
  ASSUME NEW S, NEW s \in Seq(S), s # <<>>
  PROVE  /\ Tail(s) \in Seq(S) /\ Len(s) \in Nat /\ Len(s) > 0 /\ Len(Tail(s)) = Len(s) - 1
         /\ \A k \in 1..Len(s) - 1 : Tail(s)[k] = s[k + 1]
         /\ Head(s) = s[1]
  OBVIOUS

LEMMA Own ==
  ASSUME NEW S, NEW s \in Seq(S)
  PROVE  Listed(s)
<1>1. Len(s) \in Nat /\ s \in [1..Len(s) -> S] OBVIOUS
<1>2. s \in [1..Len(s) -> Elements(s)] BY <1>1 DEF Elements
<1> QED BY <1>1, <1>2 DEF Listed

LEMMA Lengthened ==
  ASSUME NEW s, Listed(s), NEW e
  PROVE  /\ Listed(Append(s, e)) /\ Len(s) \in Nat /\ Len(Append(s, e)) = Len(s) + 1
         /\ \A k \in 1..Len(s) : Append(s, e)[k] = s[k]
         /\ Append(s, e)[Len(s) + 1] = e
<1> DEFINE S == Elements(s) \cup {e}
<1>1. s \in Seq(Elements(s)) BY DEF Listed
<1>2. s \in Seq(S) /\ e \in S BY <1>1
<1> HIDE DEF S
<1>3. Append(s, e) \in Seq(S) BY <1>2, Longer
<1>4. Listed(Append(s, e)) BY <1>3, Own
<1> QED BY <1>2, <1>4, Longer

LEMMA Shortened ==
  ASSUME NEW s, Listed(s), s # <<>>
  PROVE  /\ Listed(Tail(s)) /\ Len(s) \in Nat /\ Len(s) > 0 /\ Len(Tail(s)) = Len(s) - 1
         /\ \A k \in 1..Len(s) - 1 : Tail(s)[k] = s[k + 1]
         /\ Head(s) = s[1]
<1> DEFINE S == Elements(s)
<1>1. s \in Seq(S) BY DEF Listed
<1> HIDE DEF S
<1>2. Listed(Tail(s)) BY <1>1, Shorter, Own
<1> QED BY <1>1, <1>2, Shorter
-----------------------------------------------------------------------------
(* The packet a server makes of one it received.                           *)
LEMMA Delivered ==
  ASSUME NEW b, NEW from, SoundBody(b)
  PROVE  LET p == [name \in DOMAIN b \cup {"from"} |-> IF name = "from" THEN from ELSE b[name]]
         IN Sound(p) /\ p.qr = b.qr
BY DEF SoundBody, Sound

LEMMA ReceivedTypes ==
  ASSUME ServerTypes, NEW n \in Node, NEW s \in Socket, NEW m \in net,
         Len(queue[n][s]) < MaxQueue, Received(n, s, m), ServerBounds
  PROVE  /\ DOMAIN queue' = Node /\ \A o \in Node : DOMAIN queue'[o] = Socket
         /\ \A o \in Node, t \in Socket : Queued(queue'[o][t])
         /\ \A o \in Node, t \in Socket : queue[o][t] # <<>> => queue'[o][t] # <<>>
         /\ \A o \in Node, t \in Socket : <<o, t>> # <<n, s>> => queue'[o][t] = queue[o][t]
         /\ Len(queue[n][s]) \in Nat /\ Len(queue'[n][s]) = Len(queue[n][s]) + 1
         /\ \A k \in 1..Len(queue[n][s]) : queue'[n][s][k] = queue[n][s][k]
         /\ queue'[n][s][Len(queue[n][s]) + 1].qr = m.body.qr
<1> DEFINE p == [name \in DOMAIN m.body \cup {"from"} |-> IF name = "from" THEN m.from ELSE m.body[name]]
<1>1. Sound(p) /\ p.qr = m.body.qr
  BY Delivered DEF ServerTypes
<1> HIDE DEF p
<1>2. queue' = [queue EXCEPT ![n][s] = Append(@, p)]
  BY DEF Received, p
<1>3. DOMAIN queue' = Node /\ \A o \in Node : DOMAIN queue'[o] = Socket
  BY <1>2 DEF ServerTypes
<1>4. /\ queue'[n][s] = Append(queue[n][s], p)
      /\ \A o \in Node, t \in Socket : o # n \/ t # s => queue'[o][t] = queue[o][t]
  BY <1>2 DEF ServerTypes
<1>5. Listed(queue[n][s]) /\ \A k \in 1..Len(queue[n][s]) : Sound(queue[n][s][k])
  BY DEF ServerTypes, Queued
<1>6. /\ Listed(queue'[n][s]) /\ Len(queue[n][s]) \in Nat /\ Len(queue'[n][s]) = Len(queue[n][s]) + 1
      /\ \A k \in 1..Len(queue[n][s]) : queue'[n][s][k] = queue[n][s][k]
      /\ queue'[n][s][Len(queue[n][s]) + 1] = p
  BY <1>4, <1>5, Lengthened
<1>7. Queued(queue'[n][s])
  <2> DEFINE longer == queue'[n][s]
  <2>1. Listed(longer) /\ Len(longer) <= MaxQueue
    BY <1>1, <1>6 DEF ServerBounds
  <2>2. ASSUME NEW k \in 1..Len(longer)
        PROVE  Sound(longer[k])
    <3>1. CASE k <= Len(queue[n][s])
      BY <1>5, <1>6, <3>1
    <3>2. CASE ~(k <= Len(queue[n][s]))
      BY <1>1, <1>6, <3>2
    <3> QED BY <3>1, <3>2
  <2> HIDE DEF longer
  <2>3. Queued(longer)
    BY <2>1, <2>2 DEF Queued
  <2> QED BY <2>3 DEF longer
<1>8. queue'[n][s] # <<>>
  BY <1>6
<1> QED
  BY <1>1, <1>3, <1>4, <1>6, <1>7, <1>8 DEF ServerTypes
-----------------------------------------------------------------------------
(* Types, what is readable and what is at work.                            *)
\* The index of the next socket that is readable.
LEMMA NextSocketTypes ==
  ASSUME ServerBounds, ServerTypes, NEW n \in Node, NextSocket(n)
  PROVE  /\ pc' \in [Node -> {"poll", "recv", "doit", "send"}] /\ i' \in [Node -> Socket]
         /\ pc'[n] \in {"poll", "recv"} /\ (pc'[n] = "recv" => i'[n] = i[n] + 1)
         /\ \A o \in Node \ {n} : pc'[o] = pc[o] /\ i'[o] = i[o]
<1>1. i[n] \in 1..Sockets /\ Sockets \in Nat \ {0}
  BY DEF ServerTypes, ServerBounds, Socket
<1>2. (IF i[n] = Sockets THEN 1 ELSE i[n] + 1) \in Socket
  BY <1>1 DEF Socket
<1> QED
  BY <1>2 DEF NextSocket, ServerTypes

LEMMA PollKeeps ==
  ASSUME ServerBounds, ServerTypes, Readable, NEW n \in Node, Poll(n)
  PROVE  ServerTypes' /\ Readable'
<1>1. 1 \in Socket
  BY DEF ServerBounds, Socket
<1>2. ServerTypes'
  BY <1>1 DEF Poll, ServerTypes
<1>3. revents'[n] = {s \in Socket : queue[n][s] # <<>>} /\ queue' = queue
      /\ \A o \in Node \ {n} : revents'[o] = revents[o] /\ pc'[o] = pc[o] /\ i'[o] = i[o]
  BY DEF Poll, ServerTypes
<1> QED
  BY <1>2, <1>3 DEF Readable

LEMMA MoveOnKeeps ==
  ASSUME ServerBounds, ServerTypes, Readable, NEW n \in Node, pc[n] # "poll", NextSocket(n),
         UNCHANGED <<queue, revents>>
  PROVE  Readable'
<1>1. /\ pc'[n] \in {"poll", "recv"} /\ (pc'[n] = "recv" => i'[n] = i[n] + 1)
      /\ \A o \in Node \ {n} : pc'[o] = pc[o] /\ i'[o] = i[o]
  BY NextSocketTypes
<1>2. i[n] \in 1..Sockets /\ Sockets \in Nat /\ revents[n] \subseteq 1..Sockets
  BY DEF ServerTypes, ServerBounds, Socket
<1>3. \A s \in revents[n] : pc'[n] # "poll" /\ (s > i'[n] \/ s = i'[n]) => s > i[n]
  <2> SUFFICES ASSUME NEW s \in revents[n], pc'[n] # "poll", s > i'[n] \/ s = i'[n] PROVE s > i[n] OBVIOUS
  <2>1. s \in Int /\ i[n] \in Int BY <1>2
  <2>2. i'[n] = i[n] + 1 BY <1>1
  <2> QED BY <2>1, <2>2
<1> QED BY <1>1, <1>3 DEF Readable

\* All of the invariant but the count.
Sorted == ServerTypes /\ Readable /\ Working /\ ErrorsRight

LEMMA SortedPoll ==
  ASSUME ServerBounds, Sorted, NEW n \in Node, Poll(n)
  PROVE  Sorted'
<1>1. ServerTypes' /\ Readable' BY PollKeeps DEF Sorted
<1>2. pc'[n] = "recv" /\ \A o \in Node \ {n} : pc'[o] = pc[o]
  BY DEF Poll, Sorted, ServerTypes
<1>3. buf' = buf /\ response' = response BY DEF Poll
<1>4. Working' BY <1>2, <1>3 DEF Working, Sorted
<1>5. ErrorsRight' BY <1>2, <1>3 DEF ErrorsRight, Sorted
<1> QED BY <1>1, <1>4, <1>5 DEF Sorted

LEMMA SortedOn ==
  ASSUME ServerBounds, Sorted, NEW n \in Node, pc[n] # "poll", NextSocket(n),
         UNCHANGED <<queue, revents, buf, response, asked, repeats>>, \A m \in net' : SoundBody(m.body),
         sent' \in Nat
  PROVE  Sorted'
<1>1. /\ pc' \in [Node -> {"poll", "recv", "doit", "send"}] /\ i' \in [Node -> Socket]
      /\ pc'[n] \in {"poll", "recv"}
      /\ \A o \in Node \ {n} : pc'[o] = pc[o] /\ i'[o] = i[o]
  BY NextSocketTypes DEF Sorted
<1>2. ServerTypes' BY <1>1 DEF ServerTypes, Sorted
<1>3. Readable' BY MoveOnKeeps DEF Sorted
<1>4. Working' BY <1>1 DEF Working, Sorted
<1>5. ErrorsRight' BY <1>1 DEF ErrorsRight, Sorted
<1> QED BY <1>2, <1>3, <1>4, <1>5 DEF Sorted

(* What recv() takes from the socket.                                      *)
LEMMA Taken ==
  ASSUME ServerBounds, Sorted, NEW n \in Node, Recv(n), i[n] \in revents[n]
  PROVE  LET s == queue[n][i[n]] IN
         /\ i[n] \in Socket /\ s # <<>> /\ Queued(s) /\ Queued(Tail(s))
         /\ Len(s) \in Nat /\ Len(s) > 0 /\ Len(Tail(s)) = Len(s) - 1
         /\ \A k \in 1..Len(s) - 1 : Tail(s)[k] = s[k + 1]
         /\ queue'[n][i[n]] = Tail(s) /\ buf'[n] = s[1]
         /\ \A o \in Node, t \in Socket : <<o, t>> # <<n, i[n]>> => queue'[o][t] = queue[o][t]
         /\ \A o \in Node \ {n} : buf'[o] = buf[o] /\ pc'[o] = pc[o]
         /\ pc'[n] = "doit" /\ pc[n] = "recv" /\ i' = i /\ DOMAIN buf' = Node
         /\ DOMAIN queue' = Node /\ \A o \in Node : DOMAIN queue'[o] = Socket
<1> DEFINE s == queue[n][i[n]]
<1>1. i[n] \in Socket /\ Queued(s) BY DEF Sorted, ServerTypes
<1>2. s # <<>> BY DEF Recv, Sorted, Readable
<1>3. /\ Listed(Tail(s)) /\ Len(s) \in Nat /\ Len(s) > 0 /\ Len(Tail(s)) = Len(s) - 1
      /\ \A k \in 1..Len(s) - 1 : Tail(s)[k] = s[k + 1]
      /\ Head(s) = s[1]
  <2> HIDE DEF s
  <2> QED BY <1>1, <1>2, Shortened DEF Queued
<1>4. /\ buf' = [buf EXCEPT ![n] = Head(s)] /\ queue' = [queue EXCEPT ![n][i[n]] = Tail(@)]
      /\ pc' = [pc EXCEPT ![n] = "doit"] /\ i' = i /\ pc[n] = "recv"
  BY DEF Recv
<1>5. /\ queue'[n][i[n]] = Tail(s)
      /\ \A o \in Node, t \in Socket : <<o, t>> # <<n, i[n]>> => queue'[o][t] = queue[o][t]
      /\ DOMAIN queue' = Node /\ \A o \in Node : DOMAIN queue'[o] = Socket
  BY <1>1, <1>4 DEF Sorted, ServerTypes
<1>6. /\ \A o \in Node \ {n} : buf'[o] = buf[o] /\ pc'[o] = pc[o]
      /\ buf'[n] = s[1] /\ pc'[n] = "doit" /\ DOMAIN buf' = Node
  BY <1>3, <1>4 DEF Sorted, ServerTypes
<1>7. Queued(Tail(s))
  <2> HIDE DEF s
  <2>1. Len(Tail(s)) <= MaxQueue BY <1>1, <1>3 DEF Queued, ServerBounds
  <2>2. \A k \in 1..Len(Tail(s)) : k \in 1..Len(s) - 1 /\ k + 1 \in 1..Len(s)
    BY <1>3
  <2> QED BY <1>1, <1>3, <2>1, <2>2 DEF Queued
<1> QED BY <1>1, <1>2, <1>3, <1>4, <1>5, <1>6, <1>7

LEMMA SortedRecv ==
  ASSUME ServerBounds, Sorted, NEW n \in Node, Recv(n)
  PROVE  Sorted'
<1>1. CASE i[n] \in revents[n]
  <2> DEFINE s == queue[n][i[n]]
  <2>1. UNCHANGED <<net, revents, response, asked, repeats, sent>> BY DEF Recv
  <2>2. /\ i[n] \in Socket /\ Queued(s) /\ Queued(Tail(s)) /\ Len(s) \in Nat /\ Len(s) > 0
        /\ queue'[n][i[n]] = Tail(s) /\ buf'[n] = s[1]
        /\ \A o \in Node, t \in Socket : <<o, t>> # <<n, i[n]>> => queue'[o][t] = queue[o][t]
        /\ \A o \in Node \ {n} : buf'[o] = buf[o] /\ pc'[o] = pc[o]
        /\ pc'[n] = "doit" /\ pc[n] = "recv" /\ i' = i /\ DOMAIN buf' = Node
        /\ DOMAIN queue' = Node /\ \A o \in Node : DOMAIN queue'[o] = Socket
    BY <1>1, Taken
  <2>3. pc' \in [Node -> {"poll", "recv", "doit", "send"}] BY <1>1 DEF Recv, Sorted, ServerTypes
  <2>4. \A o \in Node, t \in Socket : Queued(queue'[o][t])
    <3> SUFFICES ASSUME NEW o \in Node, NEW t \in Socket PROVE Queued(queue'[o][t]) OBVIOUS
    <3>1. CASE <<o, t>> = <<n, i[n]>> BY <2>2, <3>1
    <3>2. CASE <<o, t>> # <<n, i[n]>>
      <4>1. Queued(queue[o][t]) BY DEF Sorted, ServerTypes
      <4> QED BY <2>2, <3>2, <4>1
    <3> QED BY <3>1, <3>2
  <2>5. ServerTypes' BY <2>1, <2>2, <2>3, <2>4 DEF Sorted, ServerTypes
  <2>6. Readable'
    <3> SUFFICES ASSUME NEW o \in Node, NEW t \in revents[o], pc'[o] # "poll",
                        t > i[o] \/ (t = i[o] /\ pc'[o] = "recv")
                 PROVE  queue'[o][t] # <<>>
      BY <2>1, <2>2 DEF Readable
    <3>1. t \in Socket /\ i[o] \in Socket /\ Sockets \in Nat BY DEF Sorted, ServerTypes, ServerBounds
    <3>2. <<o, t>> # <<n, i[n]>> BY <2>2, <3>1 DEF Socket
    <3>3. queue[o][t] # <<>> BY <2>2, <3>1 DEF Sorted, Readable
    <3> QED BY <2>2, <3>1, <3>2, <3>3
  <2>7. Sound(buf'[n]) BY <2>2 DEF Queued
  <2>8. Working' BY <2>1, <2>2, <2>7 DEF Sorted, Working
  <2>9. ErrorsRight' BY <2>1, <2>2 DEF Sorted, ErrorsRight
  <2> QED BY <2>5, <2>6, <2>8, <2>9 DEF Sorted
<1>2. CASE i[n] \notin revents[n]
  <2>1. pc[n] = "recv" /\ NextSocket(n) /\ UNCHANGED <<queue, buf, net, revents, response, asked, repeats, sent>>
    BY <1>2 DEF Recv
  <2>2. \A m \in net' : SoundBody(m.body) BY <2>1 DEF Sorted, ServerTypes
  <2>3. sent' \in Nat BY <2>1 DEF Sorted, ServerTypes
  <2> QED BY <2>1, <2>2, <2>3, SortedOn
<1> QED BY <1>1, <1>2

LEMMA SortedRecvFails ==
  ASSUME ServerBounds, Sorted, NEW n \in Node, RecvFails(n)
  PROVE  Sorted'
<1>1. pc[n] = "recv" /\ NextSocket(n) /\ UNCHANGED <<queue, buf, net, revents, response, asked, repeats, sent>>
  BY DEF RecvFails
<1>2. \A m \in net' : SoundBody(m.body) BY <1>1 DEF Sorted, ServerTypes
<1>3. sent' \in Nat BY <1>1 DEF Sorted, ServerTypes
<1> QED BY <1>1, <1>2, <1>3, SortedOn

(* What doit() leaves to be sent.                                          *)
LEMMA Written ==
  ASSUME ServerBounds, NEW p, Sound(p), ~NoQuestion(p), NEW r,
         \/ WeirdClass(p) /\ r = [Started(p) EXCEPT !.rcode = "formerr"]
         \/ ~WeirdClass(p) /\ Unimplemented(p) /\ r = [ForIn(p) EXCEPT !.rcode = "notimp"]
         \/ ~WeirdClass(p) /\ ~Unimplemented(p) /\ r \in Responses(p)
  PROVE  /\ r.id = p.id /\ r.name = p.name /\ r.qr = 1 /\ r.len \in Nat /\ r.qlen \in 0..Datagram
         /\ {"qr", "len", "qlen", "tc"} \subseteq DOMAIN r
         /\ p.qr = 0 /\ p.qdcount = 1
         /\ p.opcode # 0 \/ p.type = "AXFR" => r.rcode \in {"notimp", "formerr"}
         /\ r.rcode = "formerr" <=> p.class \notin {"IN", "ANY"}
         /\ r.rcode # "formerr" => r.ra = 0 /\ r.rd = p.rd
         /\ r.aa = 1 => r.rcode = "nxdomain" \/ (p.class = "IN" /\ r.rcode # "refused")
<1>1. p.qr = 0 /\ p.qdcount = 1 /\ p.len \in Nat /\ p.len <= 512 /\ p.qlen \in 0..512
  BY DEF Sound, NoQuestion, Datagram
<1>2. CASE WeirdClass(p) /\ r = [Started(p) EXCEPT !.rcode = "formerr"]
  BY <1>1, <1>2 DEF WeirdClass, Started, Datagram
<1>3. CASE ~WeirdClass(p) /\ Unimplemented(p) /\ r = [ForIn(p) EXCEPT !.rcode = "notimp"]
  BY <1>1, <1>3 DEF WeirdClass, Started, Datagram, ForIn
<1>4. CASE ~WeirdClass(p) /\ ~Unimplemented(p) /\ r \in Responses(p)
  <2>1. PICK len \in Outcome \ {0}, left \in Left(p) : r = Response(p, len, left[1], left[2])
    BY <1>4 DEF Responses
  <2>3. /\ left[1] \in {"ok", "nxdomain", "refused"}
        /\ left[2] = 1 => left[1] = "nxdomain" \/ (left[1] = "ok" /\ p.class = "IN")
    BY DEF Left, ForIn, Started
  <2>2. len \in Nat BY DEF ServerBounds
  <2> QED BY <1>1, <1>4, <2>1, <2>2, <2>3 DEF WeirdClass, Unimplemented, Started, Datagram, ForIn, Response
<1> QED BY <1>2, <1>3, <1>4

LEMMA SortedDoit ==
  ASSUME ServerBounds, Sorted, NEW n \in Node, Doit(n)
  PROVE  Sorted'
<1> DEFINE p == buf[n]
<1>1. pc[n] = "doit" /\ UNCHANGED <<net, queue, revents, buf, asked, repeats, sent>> BY DEF Doit
<1>2. Sound(p) BY <1>1 DEF Sorted, Working
<1>3. CASE NextSocket(n) /\ UNCHANGED response
  <2>1. \A m \in net' : SoundBody(m.body) BY <1>1 DEF Sorted, ServerTypes
  <2>2. sent' \in Nat BY <1>1 DEF Sorted, ServerTypes
  <2> QED BY <1>1, <1>3, <2>1, <2>2, SortedOn
<1>4. ASSUME NEW r, Answered(n, r), i' = i, ~NoQuestion(p),
             \/ WeirdClass(p) /\ r = [Started(p) EXCEPT !.rcode = "formerr"]
             \/ ~WeirdClass(p) /\ Unimplemented(p) /\ r = [ForIn(p) EXCEPT !.rcode = "notimp"]
             \/ ~WeirdClass(p) /\ ~Unimplemented(p) /\ r \in Responses(p)
      PROVE  Sorted'
  <2>1. /\ response'[n] = r /\ pc'[n] = "send" /\ pc' \in [Node -> {"poll", "recv", "doit", "send"}]
        /\ DOMAIN response' = Node /\ \A o \in Node \ {n} : response'[o] = response[o] /\ pc'[o] = pc[o]
    BY <1>4 DEF Answered, Sorted, ServerTypes
  <2>2. /\ r.id = p.id /\ r.name = p.name /\ r.qr = 1 /\ r.len \in Nat /\ r.qlen \in 0..Datagram
        /\ {"qr", "len", "qlen", "tc"} \subseteq DOMAIN r
        /\ p.qr = 0 /\ p.qdcount = 1
        /\ p.opcode # 0 \/ p.type = "AXFR" => r.rcode \in {"notimp", "formerr"}
        /\ r.rcode = "formerr" <=> p.class \notin {"IN", "ANY"}
        /\ r.rcode # "formerr" => r.ra = 0 /\ r.rd = p.rd
        /\ r.aa = 1 => r.rcode = "nxdomain" \/ (p.class = "IN" /\ r.rcode # "refused")
    <3> HIDE DEF p
    <3> QED BY <1>2, <1>4, Written
  <2>3. ServerTypes' BY <1>1, <1>4, <2>1 DEF Sorted, ServerTypes
  <2>4. Readable' BY <1>1, <1>4, <2>1 DEF Sorted, Readable
  <2>5. Working'
    <3> SUFFICES ASSUME NEW o \in Node PROVE Working!(o)' BY DEF Working
    <3>1. CASE o = n BY <1>1, <1>2, <2>1, <2>2, <3>1
    <3>2. CASE o # n BY <1>1, <2>1, <3>2 DEF Sorted, Working
    <3> QED BY <3>1, <3>2
  <2>6. ErrorsRight'
    <3> SUFFICES ASSUME NEW o \in Node PROVE ErrorsRight!(o)' BY DEF ErrorsRight
    <3>1. CASE o = n BY <1>1, <2>1, <2>2, <3>1
    <3>2. CASE o # n BY <1>1, <2>1, <3>2 DEF Sorted, ErrorsRight
    <3> QED BY <3>1, <3>2
  <2> QED BY <2>3, <2>4, <2>5, <2>6 DEF Sorted
<1> QED BY <1>3, <1>4 DEF Doit

(* A reply is a packet that clients may be sent.                           *)
LEMMA ReplySound ==
  ASSUME Sorted, NEW n \in Node, pc[n] = "send"
  PROVE  /\ SoundBody(Reply(n)) /\ Reply(n).qr = 1 /\ Reply(n).len \in Nat /\ Reply(n).len <= Datagram
         /\ Reply(n).id = buf[n].id /\ Reply(n).name = buf[n].name
         /\ Reply(n).len < response[n].len => Reply(n).tc = 1
<1> DEFINE r == response[n]
<1>1. /\ r.id = buf[n].id /\ r.name = buf[n].name /\ r.qr = 1 /\ r.len \in Nat /\ r.qlen \in 0..Datagram
      /\ {"qr", "len", "qlen", "tc"} \subseteq DOMAIN r
  BY DEF Sorted, Working
<1>2. CASE r.len > Datagram
  <2> DEFINE t == [r EXCEPT !.tc = 1, !.len = r.qlen]
  <2>1. Reply(n) = t BY <1>2 DEF Reply
  <2>2. DOMAIN t = DOMAIN r /\ t.qr = 1 /\ t.len = r.qlen /\ t.tc = 1 /\ t.id = r.id /\ t.name = r.name
    BY <1>1
  <2> HIDE DEF t
  <2> QED BY <1>1, <2>1, <2>2 DEF SoundBody, Sound, Datagram
<1>3. CASE ~(r.len > Datagram)
  <2>1. Reply(n) = r BY <1>3 DEF Reply
  <2> QED BY <1>1, <1>3, <2>1 DEF SoundBody, Sound, Datagram
<1> QED BY <1>2, <1>3

LEMMA SortedSend ==
  ASSUME ServerBounds, Sorted, NEW n \in Node, Send(n)
  PROVE  Sorted'
<1>1. /\ pc[n] = "send" /\ NextSocket(n) /\ UNCHANGED <<queue, revents, buf, response, asked, repeats>>
      /\ sent' = sent + 1
      /\ net' \subseteq net \cup {Packet(Reply(n), <<n, i[n]>>, buf[n].from)}
  BY DEF Send
<1>2. \A m \in net' : SoundBody(m.body)
  <2>1. SoundBody(Packet(Reply(n), <<n, i[n]>>, buf[n].from).body) BY <1>1, ReplySound DEF Packet
  <2> QED BY <1>1, <2>1 DEF Sorted, ServerTypes
<1>3. sent' \in Nat BY <1>1 DEF Sorted, ServerTypes
<1> QED BY <1>1, <1>2, <1>3, SortedOn

LEMMA SortedClientSends ==
  ASSUME ServerBounds, Sorted, NEW p \in Question, NEW from, NEW to, ClientSends(p, from, to)
  PROVE  Sorted'
<1>1. /\ net' = net \cup {Packet(p, from, to)} /\ asked' = asked + 1
      /\ UNCHANGED <<queue, pc, revents, i, buf, response, repeats, sent>>
  BY DEF ClientSends, server
<1>2. \A m \in net' : SoundBody(m.body)
  <2>1. SoundBody(Packet(p, from, to).body) BY DEF Packet, ServerBounds, SoundBody, Sound
  <2> QED BY <1>1, <2>1 DEF Sorted, ServerTypes
<1>3. ServerTypes' BY <1>1, <1>2 DEF Sorted, ServerTypes
<1> QED BY <1>1, <1>3 DEF Sorted, Readable, Working, ErrorsRight

LEMMA SortedArrival ==
  ASSUME ServerBounds, Sorted, NEW n \in Node, NEW s \in Socket, NEW m \in net, Deliver(n, s, m) \/ Repeat(n, s, m)
  PROVE  Sorted'
<1>1. /\ Len(queue[n][s]) < MaxQueue /\ Received(n, s, m) /\ net' \subseteq net
      /\ repeats' \in {repeats, repeats + 1} /\ UNCHANGED <<pc, revents, i, buf, response, asked, sent>>
  BY DEF Deliver, Repeat, server
<1>2. /\ DOMAIN queue' = Node /\ \A o \in Node : DOMAIN queue'[o] = Socket
      /\ \A o \in Node, t \in Socket : Queued(queue'[o][t])
      /\ \A o \in Node, t \in Socket : queue[o][t] # <<>> => queue'[o][t] # <<>>
  BY <1>1, ReceivedTypes DEF Sorted
<1>3. ServerTypes' BY <1>1, <1>2 DEF Sorted, ServerTypes
<1>4. Readable' BY <1>1, <1>2 DEF Sorted, ServerTypes, Readable
<1> QED BY <1>1, <1>3, <1>4 DEF Sorted, Working, ErrorsRight

LEMMA SortedLose ==
  ASSUME Sorted, NEW m \in net, Lose(m)
  PROVE  Sorted'
<1>1. net' \subseteq net /\ UNCHANGED <<queue, pc, revents, i, buf, response, asked, repeats, sent>>
  BY DEF Lose, server
<1>2. ServerTypes' BY <1>1 DEF Sorted, ServerTypes
<1> QED BY <1>1, <1>2 DEF Sorted, Readable, Working, ErrorsRight
-----------------------------------------------------------------------------
(* The questions that are open.                                            *)
OpenInNet(x) == \E m \in net : x = InNet(m) /\ m.body.qr = 0
OpenInQueue(x) ==
  \E o \in Node, t \in Socket, k \in Nat :
    x = InQueue(o, t, k) /\ k \in 1..Len(queue[o][t]) /\ queue[o][t][k].qr = 0
OpenAtWork(x) == \E o \in Node : x = AtWork(o) /\ pc[o] \in {"doit", "send"} /\ buf[o].qr = 0

LEMMA OpenIs == \A x : x \in Open <=> OpenInNet(x) \/ OpenInQueue(x) \/ OpenAtWork(x)
<1> SUFFICES ASSUME NEW x PROVE x \in Open <=> OpenInNet(x) \/ OpenInQueue(x) \/ OpenAtWork(x) OBVIOUS
<1> DEFINE Triples == {u \in Node \X Socket \X Nat :
          u[3] \in 1..Len(queue[u[1]][u[2]]) /\ queue[u[1]][u[2]][u[3]].qr = 0}
<1>1. x \in {InQueue(t[1], t[2], t[3]) : t \in Triples} <=> OpenInQueue(x)
  <2>1. ASSUME OpenInQueue(x) PROVE \E t \in Triples : x = InQueue(t[1], t[2], t[3])
    <3>1. PICK o \in Node, t \in Socket, k \in Nat :
             x = InQueue(o, t, k) /\ k \in 1..Len(queue[o][t]) /\ queue[o][t][k].qr = 0
      BY <2>1 DEF OpenInQueue
    <3>2. <<o, t, k>> \in Triples BY <3>1
    <3>3. x = InQueue(<<o, t, k>>[1], <<o, t, k>>[2], <<o, t, k>>[3]) BY <3>1
    <3> HIDE DEF Triples
    <3> QED BY <3>2, <3>3
  <2>2. ASSUME NEW t \in Triples, x = InQueue(t[1], t[2], t[3]) PROVE OpenInQueue(x)
    BY <2>2 DEF OpenInQueue
  <2> HIDE DEF Triples
  <2> QED BY <2>1, <2>2
<1>2. x \in {InNet(m) : m \in {l \in net : l.body.qr = 0}} <=> OpenInNet(x) BY DEF OpenInNet
<1>3. x \in {AtWork(n) : n \in {o \in Node : pc[o] \in {"doit", "send"} /\ buf[o].qr = 0}} <=> OpenAtWork(x)
  BY DEF OpenAtWork
<1> QED BY <1>1, <1>2, <1>3 DEF Open

(* No more are open than were, after a step that answers none.             *)
LEMMA NoMore ==
  ASSUME Balance, Sorted, Open' \subseteq Open, UNCHANGED <<sent, asked, repeats>>
  PROVE  Balance'
<1>1. IsFiniteSet(Open') /\ Cardinality(Open') <= Cardinality(Open) BY FS_Subset DEF Balance
<1>2. Cardinality(Open) \in Nat /\ Cardinality(Open') \in Nat BY <1>1, FS_CardinalityType DEF Balance
<1>3. sent \in Nat /\ asked \in Nat /\ repeats \in Nat BY DEF Sorted, ServerTypes
<1>4. sent + Cardinality(Open) <= asked + repeats BY DEF Balance
<1>5. sent' + Cardinality(Open') <= asked' + repeats' BY <1>1, <1>2, <1>3, <1>4
<1> QED BY <1>1, <1>5 DEF Balance

(* One more is open after a question was sent or repeated.                 *)
LEMMA OneMore ==
  ASSUME Balance, Sorted, NEW x, Open' \subseteq Open \cup {x}, sent' = sent,
         asked' + repeats' = asked + repeats + 1
  PROVE  Balance'
<1>1. /\ IsFiniteSet(Open \cup {x}) /\ IsFiniteSet(Open)
      /\ Cardinality(Open \cup {x}) = IF x \in Open THEN Cardinality(Open) ELSE Cardinality(Open) + 1
  BY FS_AddElement DEF Balance
<1>2. IsFiniteSet(Open') /\ Cardinality(Open') <= Cardinality(Open \cup {x}) BY <1>1, FS_Subset
<1>3. Cardinality(Open) \in Nat /\ Cardinality(Open') \in Nat BY <1>1, <1>2, FS_CardinalityType
<1>4. sent \in Nat /\ asked \in Nat /\ repeats \in Nat BY DEF Sorted, ServerTypes
<1>5. sent + Cardinality(Open) <= asked + repeats BY DEF Balance
<1>6. sent + Cardinality(Open') <= asked' + repeats' BY <1>1, <1>2, <1>3, <1>4, <1>5
<1> QED BY <1>2, <1>6 DEF Balance

(* A question moves from one place to another.                             *)
LEMMA Moved ==
  ASSUME Balance, Sorted, NEW x \in Open, NEW y, Open' \subseteq (Open \ {x}) \cup {y},
         sent' = sent, asked' = asked, repeats' = repeats
  PROVE  Balance'
<1>1. /\ IsFiniteSet(Open) /\ IsFiniteSet(Open \ {x}) /\ Cardinality(Open \ {x}) = Cardinality(Open) - 1
  BY FS_RemoveElement DEF Balance
<1>2. /\ IsFiniteSet((Open \ {x}) \cup {y})
      /\ Cardinality((Open \ {x}) \cup {y}) \in {Cardinality(Open \ {x}), Cardinality(Open \ {x}) + 1}
  BY <1>1, FS_AddElement
<1>3. IsFiniteSet(Open') /\ Cardinality(Open') <= Cardinality((Open \ {x}) \cup {y}) BY <1>2, FS_Subset
<1>4. Cardinality(Open) \in Nat /\ Cardinality(Open') \in Nat BY <1>1, <1>3, FS_CardinalityType
<1>5. sent \in Nat /\ asked \in Nat /\ repeats \in Nat BY DEF Sorted, ServerTypes
<1>6. sent + Cardinality(Open) <= asked + repeats BY DEF Balance
<1>7. sent + Cardinality(Open') <= asked' + repeats' BY <1>1, <1>2, <1>3, <1>4, <1>5, <1>6
<1> QED BY <1>3, <1>7 DEF Balance

(* A question that was open is answered.                                   *)
LEMMA OneLess ==
  ASSUME Balance, Sorted, NEW x \in Open, Open' \subseteq Open \ {x}, sent' = sent + 1,
         asked' = asked, repeats' = repeats
  PROVE  Balance'
<1>1. /\ IsFiniteSet(Open) /\ IsFiniteSet(Open \ {x}) /\ Cardinality(Open \ {x}) = Cardinality(Open) - 1
  BY FS_RemoveElement DEF Balance
<1>2. IsFiniteSet(Open') /\ Cardinality(Open') <= Cardinality(Open \ {x}) BY <1>1, FS_Subset
<1>3. Cardinality(Open) \in Nat /\ Cardinality(Open') \in Nat BY <1>1, <1>2, FS_CardinalityType
<1>4. sent \in Nat /\ asked \in Nat /\ repeats \in Nat BY DEF Sorted, ServerTypes
<1>5. sent + Cardinality(Open) <= asked + repeats BY DEF Balance
<1>6. sent' + Cardinality(Open') <= asked' + repeats' BY <1>1, <1>2, <1>3, <1>4, <1>5
<1> QED BY <1>2, <1>6 DEF Balance

LEMMA OpenNext == \A x : x \in Open' <=> OpenInNet(x)' \/ OpenInQueue(x)' \/ OpenAtWork(x)'
<1>1. (\A x : x \in Open <=> OpenInNet(x) \/ OpenInQueue(x) \/ OpenAtWork(x))' BY OpenIs, PTL
<1> QED BY <1>1

(* While nothing is taken or answered, no question is new.                 *)
LEMMA Idle ==
  ASSUME net' \subseteq net, queue' = queue, buf' = buf,
         \A o \in Node : pc'[o] \in {"doit", "send"} => pc[o] \in {"doit", "send"}
  PROVE  Open' \subseteq Open
<1> SUFFICES ASSUME NEW x, x \in Open' PROVE x \in Open OBVIOUS
<1>1. CASE OpenInNet(x)'
  <2>1. OpenInNet(x) BY <1>1 DEF OpenInNet
  <2> QED BY <2>1, OpenIs
<1>2. CASE OpenInQueue(x)'
  <2>1. OpenInQueue(x) BY <1>2 DEF OpenInQueue
  <2> QED BY <2>1, OpenIs
<1>3. CASE OpenAtWork(x)'
  <2>1. OpenAtWork(x) BY <1>3 DEF OpenAtWork
  <2> QED BY <2>1, OpenIs
<1> QED BY <1>1, <1>2, <1>3, OpenNext

LEMMA IdleBalance ==
  ASSUME Balance, Sorted, Sorted', net' \subseteq net, queue' = queue, buf' = buf,
         \A o \in Node : pc'[o] \in {"doit", "send"} => pc[o] \in {"doit", "send"},
         sent' = sent, asked' = asked, repeats' = repeats
  PROVE  Balance'
<1>1. Open' \subseteq Open BY Idle
<1> QED BY <1>1, NoMore

LEMMA BalancePoll ==
  ASSUME ServerBounds, Sorted, Sorted', Balance, NEW n \in Node, Poll(n) \/ RecvFails(n) \/ Doit(n)
  PROVE  Balance'
<1>1. UNCHANGED <<net, queue, buf, asked, repeats, sent>> BY DEF Poll, RecvFails, Doit
<1>2. \A o \in Node : pc'[o] \in {"doit", "send"} => pc[o] \in {"doit", "send"}
  <2>1. pc \in [Node -> {"poll", "recv", "doit", "send"}] BY DEF Sorted, ServerTypes
  <2>2. \A o \in Node \ {n} : pc'[o] = pc[o] BY <2>1 DEF Poll, RecvFails, Doit, NextSocket, Answered
  <2>3. CASE Doit(n) BY <2>2, <2>3 DEF Doit
  <2>4. CASE Poll(n) BY <2>1, <2>2, <2>4 DEF Poll
  <2>5. CASE RecvFails(n) BY <2>1, <2>2, <2>5 DEF RecvFails, NextSocket
  <2> QED BY <2>3, <2>4, <2>5
<1> QED BY <1>1, <1>2, IdleBalance

LEMMA BalanceSend ==
  ASSUME ServerBounds, Sorted, Balance, NEW n \in Node, Send(n)
  PROVE  Balance'
<1>1. /\ pc[n] = "send" /\ NextSocket(n) /\ UNCHANGED <<queue, buf, asked, repeats>> /\ sent' = sent + 1
      /\ net' \subseteq net \cup {Packet(Reply(n), <<n, i[n]>>, buf[n].from)}
  BY DEF Send
<1>2. Packet(Reply(n), <<n, i[n]>>, buf[n].from).body.qr = 1 BY <1>1, ReplySound DEF Packet
<1>3. buf[n].qr = 0 BY <1>1 DEF Sorted, ErrorsRight
<1>4. AtWork(n) \in Open
  <2>1. OpenAtWork(AtWork(n)) BY <1>1, <1>3 DEF OpenAtWork
  <2> QED BY <2>1, OpenIs
<1>5. pc'[n] \in {"poll", "recv"} /\ \A o \in Node \ {n} : pc'[o] = pc[o]
  BY <1>1, NextSocketTypes DEF Sorted
<1>6. Open' \subseteq Open \ {AtWork(n)}
  <2> SUFFICES ASSUME NEW x, x \in Open' PROVE x \in Open /\ x # AtWork(n) OBVIOUS
  <2>1. CASE OpenInNet(x)'
    <3>1. PICK m \in net' : x = InNet(m) /\ m.body.qr = 0 BY <2>1 DEF OpenInNet, InNet
    <3>2. m \in net BY <1>1, <1>2, <3>1
    <3>3. OpenInNet(x) BY <3>1, <3>2 DEF OpenInNet
    <3>4. x # AtWork(n) BY <3>1 DEF InNet, AtWork
    <3> QED BY <3>3, <3>4, OpenIs
  <2>2. CASE OpenInQueue(x)'
    <3>1. OpenInQueue(x) BY <1>1, <2>2 DEF OpenInQueue
    <3>2. x # AtWork(n) BY <3>1 DEF OpenInQueue, InQueue, AtWork
    <3> QED BY <3>1, <3>2, OpenIs
  <2>3. CASE OpenAtWork(x)'
    <3>1. PICK o \in Node : x = AtWork(o) /\ pc'[o] \in {"doit", "send"} /\ buf'[o].qr = 0
      BY <2>3 DEF OpenAtWork, AtWork
    <3>2. o # n BY <1>5, <3>1
    <3>3. OpenAtWork(x) BY <1>1, <1>5, <3>1, <3>2 DEF OpenAtWork
    <3>4. x # AtWork(n) BY <3>1, <3>2 DEF AtWork
    <3> QED BY <3>3, <3>4, OpenIs
  <2> QED BY <2>1, <2>2, <2>3, OpenNext
<1> QED BY <1>1, <1>4, <1>6, OneLess

LEMMA BalanceClientSends ==
  ASSUME ServerBounds, Sorted, Balance, NEW p \in Question, NEW from, NEW to, ClientSends(p, from, to)
  PROVE  Balance'
<1>1. /\ net' = net \cup {Packet(p, from, to)} /\ asked' = asked + 1
      /\ UNCHANGED <<queue, pc, buf, repeats, sent>>
  BY DEF ClientSends, server
<1>2. Open' \subseteq Open \cup {InNet(Packet(p, from, to))}
  <2> SUFFICES ASSUME NEW x, x \in Open', x # InNet(Packet(p, from, to)) PROVE x \in Open OBVIOUS
  <2>1. CASE OpenInNet(x)'
    <3>1. OpenInNet(x) BY <1>1, <2>1 DEF OpenInNet
    <3> QED BY <3>1, OpenIs
  <2>2. CASE OpenInQueue(x)'
    <3>1. OpenInQueue(x) BY <1>1, <2>2 DEF OpenInQueue
    <3> QED BY <3>1, OpenIs
  <2>3. CASE OpenAtWork(x)'
    <3>1. OpenAtWork(x) BY <1>1, <2>3 DEF OpenAtWork
    <3> QED BY <3>1, OpenIs
  <2> QED BY <2>1, <2>2, <2>3, OpenNext
<1>3. asked' + repeats' = asked + repeats + 1
  <2>1. asked \in Nat /\ repeats \in Nat BY DEF Sorted, ServerTypes
  <2> QED BY <1>1, <2>1
<1> QED BY <1>1, <1>2, <1>3, OneMore

(* The packet that arrives is the last in its queue.                       *)
LEMMA Arrived ==
  ASSUME ServerBounds, Sorted, NEW n \in Node, NEW s \in Socket, NEW m \in net,
         Len(queue[n][s]) < MaxQueue, Received(n, s, m), UNCHANGED <<pc, buf>>, net' \subseteq net,
         NEW x, x \in Open', x # InQueue(n, s, Len(queue[n][s]) + 1)
  PROVE  x \in Open
<1>1. /\ \A o \in Node, t \in Socket : <<o, t>> # <<n, s>> => queue'[o][t] = queue[o][t]
      /\ Len(queue[n][s]) \in Nat /\ Len(queue'[n][s]) = Len(queue[n][s]) + 1
      /\ \A k \in 1..Len(queue[n][s]) : queue'[n][s][k] = queue[n][s][k]
      /\ queue'[n][s][Len(queue[n][s]) + 1].qr = m.body.qr
  BY ReceivedTypes DEF Sorted
<1>2. CASE OpenInNet(x)'
  <2>1. OpenInNet(x) BY <1>2 DEF OpenInNet
  <2> QED BY <2>1, OpenIs
<1>3. CASE OpenInQueue(x)'
  <2>1. PICK o \in Node, t \in Socket, k \in Nat :
           x = InQueue(o, t, k) /\ k \in 1..Len(queue'[o][t]) /\ queue'[o][t][k].qr = 0
    BY <1>3 DEF OpenInQueue, InQueue
  <2>2. CASE <<o, t>> # <<n, s>>
    <3>1. OpenInQueue(x) BY <1>1, <2>1, <2>2 DEF OpenInQueue
    <3> QED BY <3>1, OpenIs
  <2>3. CASE <<o, t>> = <<n, s>>
    <3>1. o = n /\ t = s BY <2>3
    <3>2. k # Len(queue[n][s]) + 1 BY <2>1, <3>1
    <3>3. k \in 1..Len(queue[n][s]) BY <1>1, <2>1, <3>1, <3>2
    <3>4. OpenInQueue(x) BY <1>1, <2>1, <3>1, <3>3 DEF OpenInQueue
    <3> QED BY <3>4, OpenIs
  <2> QED BY <2>2, <2>3
<1>4. CASE OpenAtWork(x)'
  <2>1. OpenAtWork(x) BY <1>4 DEF OpenAtWork
  <2> QED BY <2>1, OpenIs
<1> QED BY <1>2, <1>3, <1>4, OpenNext

LEMMA BalanceRepeat ==
  ASSUME ServerBounds, Sorted, Balance, NEW n \in Node, NEW s \in Socket, NEW m \in net, Repeat(n, s, m)
  PROVE  Balance'
<1>1. /\ Len(queue[n][s]) < MaxQueue /\ Received(n, s, m) /\ repeats' = repeats + 1
      /\ UNCHANGED <<net, pc, buf, asked, sent>>
  BY DEF Repeat, server
<1>2. Open' \subseteq Open \cup {InQueue(n, s, Len(queue[n][s]) + 1)} BY <1>1, Arrived
<1>3. asked' + repeats' = asked + repeats + 1
  <2>1. asked \in Nat /\ repeats \in Nat BY DEF Sorted, ServerTypes
  <2> QED BY <1>1, <2>1
<1> QED BY <1>1, <1>2, <1>3, OneMore

LEMMA BalanceDeliver ==
  ASSUME ServerBounds, Sorted, Balance, NEW n \in Node, NEW s \in Socket, NEW m \in net, Deliver(n, s, m)
  PROVE  Balance'
<1> PICK y : y = InQueue(n, s, Len(queue[n][s]) + 1) OBVIOUS
<1>1. /\ Len(queue[n][s]) < MaxQueue /\ Received(n, s, m) /\ net' = net \ {m}
      /\ UNCHANGED <<pc, buf, asked, sent, repeats>>
  BY DEF Deliver, server
<1>2. Open' \subseteq Open \cup {y} BY <1>1, Arrived
<1>3. CASE m.body.qr = 0
  <2>1. InNet(m) \in Open
    <3>1. OpenInNet(InNet(m)) BY <1>3 DEF OpenInNet
    <3> QED BY <3>1, OpenIs
  <2>2. InNet(m) \notin Open'
    <3>1. ~OpenInNet(InNet(m))' BY <1>1 DEF OpenInNet, InNet
    <3>2. ~OpenInQueue(InNet(m))' BY DEF OpenInQueue, InNet, InQueue
    <3>3. ~OpenAtWork(InNet(m))' BY DEF OpenAtWork, InNet, AtWork
    <3> QED BY <3>1, <3>2, <3>3, OpenNext
  <2>3. Open' \subseteq (Open \ {InNet(m)}) \cup {y} BY <1>2, <2>2
  <2> QED BY <1>1, <2>1, <2>3, Moved
<1>4. CASE m.body.qr # 0
  <2>1. y \notin Open'
    <3>1. /\ queue'[n][s][Len(queue[n][s]) + 1].qr = m.body.qr
      BY <1>1, ReceivedTypes DEF Sorted
    <3>2. ~OpenInNet(y)' BY DEF OpenInNet, InNet, InQueue
    <3>3. ~OpenInQueue(y)' BY <1>4, <3>1 DEF OpenInQueue, InQueue
    <3>4. ~OpenAtWork(y)' BY DEF OpenAtWork, InQueue, AtWork
    <3> QED BY <3>2, <3>3, <3>4, OpenNext
  <2>2. Open' \subseteq Open BY <1>2, <2>1
  <2> QED BY <1>1, <2>2, NoMore
<1> QED BY <1>3, <1>4

(* Taking a packet moves those behind it: where each was before.           *)
LEMMA BalanceTaken ==
  ASSUME ServerBounds, Sorted, Sorted', Balance, NEW n \in Node, Recv(n), i[n] \in revents[n]
  PROVE  Balance'
<1> DEFINE s == queue[n][i[n]]
           Before(x) == IF x = AtWork(n) THEN InQueue(n, i[n], 1)
                        ELSE IF x \in {InQueue(n, i[n], k) : k \in Nat} THEN InQueue(n, i[n], x[4] + 1)
                        ELSE x
           f == [x \in Open' |-> Before(x)]
<1>1. net' = net /\ UNCHANGED <<asked, repeats, sent>> BY DEF Recv
<1>2. /\ i[n] \in Socket /\ s # <<>> /\ Len(s) \in Nat /\ Len(s) > 0 /\ Len(Tail(s)) = Len(s) - 1
      /\ \A k \in 1..Len(s) - 1 : Tail(s)[k] = s[k + 1]
      /\ queue'[n][i[n]] = Tail(s) /\ buf'[n] = s[1]
      /\ \A o \in Node, t \in Socket : <<o, t>> # <<n, i[n]>> => queue'[o][t] = queue[o][t]
      /\ \A o \in Node \ {n} : buf'[o] = buf[o] /\ pc'[o] = pc[o]
      /\ pc'[n] = "doit" /\ pc[n] = "recv" /\ i' = i
  BY Taken
<1>3. \A k \in Nat : Before(InQueue(n, i[n], k)) = InQueue(n, i[n], k + 1)
  BY DEF InQueue, AtWork
<1>4. ASSUME NEW x \in Open' PROVE Before(x) \in Open
  <2>1. CASE OpenInNet(x)'
    <3>1. OpenInNet(x) BY <1>1, <2>1 DEF OpenInNet
    <3>2. Before(x) = x BY <3>1 DEF OpenInNet, InNet, InQueue, AtWork
    <3> HIDE DEF Before
    <3> QED BY <3>1, <3>2, OpenIs
  <2>2. CASE OpenInQueue(x)'
    <3>1. PICK o \in Node, t \in Socket, k \in Nat :
             x = InQueue(o, t, k) /\ k \in 1..Len(queue'[o][t]) /\ queue'[o][t][k].qr = 0
      BY <2>2 DEF OpenInQueue, InQueue
    <3>2. CASE <<o, t>> = <<n, i[n]>>
      <4>1. o = n /\ t = i[n] BY <3>2
      <4>2. k \in 1..Len(s) - 1 /\ s[k + 1].qr = 0
        <5>1. queue'[o][t] = Tail(s) BY <1>2, <4>1
        <5>2. k \in 1..Len(Tail(s)) /\ Tail(s)[k].qr = 0 BY <3>1, <5>1
        <5> HIDE DEF s
        <5> QED BY <1>2, <5>2
      <4>3. k + 1 \in Nat /\ k + 1 \in 1..Len(s) BY <1>2, <4>2
      <4>4. OpenInQueue(InQueue(n, i[n], k + 1)) BY <1>2, <4>2, <4>3 DEF OpenInQueue
      <4>5. Before(x) = InQueue(n, i[n], k + 1) BY <1>3, <3>1, <4>1
      <4> HIDE DEF Before
      <4> QED BY <4>4, <4>5, OpenIs
    <3>3. CASE <<o, t>> # <<n, i[n]>>
      <4>1. OpenInQueue(x) BY <1>2, <3>1, <3>3 DEF OpenInQueue
      <4>2. Before(x) = x BY <3>1, <3>3 DEF InQueue, AtWork
      <4> HIDE DEF Before
      <4> QED BY <4>1, <4>2, OpenIs
    <3> QED BY <3>2, <3>3
  <2>3. CASE OpenAtWork(x)'
    <3>1. PICK o \in Node : x = AtWork(o) /\ pc'[o] \in {"doit", "send"} /\ buf'[o].qr = 0
      BY <2>3 DEF OpenAtWork, AtWork
    <3>2. CASE o = n
      <4>1. OpenInQueue(InQueue(n, i[n], 1)) BY <1>2, <3>1, <3>2 DEF OpenInQueue
      <4>2. Before(x) = InQueue(n, i[n], 1) BY <3>1, <3>2
      <4> HIDE DEF Before
      <4> QED BY <4>1, <4>2, OpenIs
    <3>3. CASE o # n
      <4>1. OpenAtWork(x) BY <1>2, <3>1, <3>3 DEF OpenAtWork
      <4>2. Before(x) = x BY <3>1, <3>3 DEF InQueue, AtWork
      <4> HIDE DEF Before
      <4> QED BY <4>1, <4>2, OpenIs
    <3> QED BY <3>2, <3>3
  <2> QED BY <2>1, <2>2, <2>3, OpenNext
<1>5. ASSUME NEW x \in Open', NEW y \in Open', Before(x) = Before(y) PROVE x = y
  <2> DEFINE Q == {InQueue(n, i[n], k) : k \in Nat}
  <2>1. \A z \in Open' : z \in Q => \E k \in Nat : z = InQueue(n, i[n], k) /\ k > 0
    <3> SUFFICES ASSUME NEW z \in Open', z \in Q PROVE \E k \in Nat : z = InQueue(n, i[n], k) /\ k > 0
      OBVIOUS
    <3>1. PICK k \in Nat : z = InQueue(n, i[n], k) OBVIOUS
    <3>2. ~OpenInNet(z)' /\ ~OpenAtWork(z)' BY <3>1 DEF OpenInNet, OpenAtWork, InNet, InQueue, AtWork
    <3>3. OpenInQueue(z)' BY <3>2, OpenNext
    <3>4. PICK o \in Node, t \in Socket, l \in Nat : z = InQueue(o, t, l) /\ l \in 1..Len(queue'[o][t])
      BY <3>3 DEF OpenInQueue, InQueue
    <3>5. o = n /\ t = i[n] /\ k = l BY <3>1, <3>4 DEF InQueue
    <3>6. queue'[o][t] = Tail(s) /\ Len(Tail(s)) \in Nat BY <1>2, <3>5
    <3>7. l \in 1..Len(Tail(s)) BY <3>4, <3>6
    <3>8. l > 0
      <4> HIDE DEF s
      <4> QED BY <3>6, <3>7
    <3> QED BY <3>1, <3>5, <3>8
  <2>2. \A z : z \notin Q /\ z # AtWork(n) => Before(z) = z OBVIOUS
  <2>3. \A k \in Nat : InQueue(n, i[n], k + 1) \in Q OBVIOUS
  <2>4. Before(AtWork(n)) = InQueue(n, i[n], 1) /\ InQueue(n, i[n], 1) \in Q OBVIOUS
  <2>5. \A k, l \in Nat : InQueue(n, i[n], k) = InQueue(n, i[n], l) => k = l BY DEF InQueue
  <2>6. \A k \in Nat : InQueue(n, i[n], k) # AtWork(n) BY DEF InQueue, AtWork
  <2>7. \A z \in Open' :
          \/ z = AtWork(n) /\ Before(z) = InQueue(n, i[n], 1)
          \/ \E k \in Nat : z = InQueue(n, i[n], k) /\ k > 0 /\ Before(z) = InQueue(n, i[n], k + 1)
          \/ z \notin Q /\ z # AtWork(n) /\ Before(z) = z
    <3> HIDE DEF Before, Q
    <3> QED BY <1>3, <2>1, <2>2, <2>4
  <2> HIDE DEF Before, Q
  <2>8. CASE x = AtWork(n)
    <3>1. Before(x) = InQueue(n, i[n], 1) /\ Before(x) \in Q BY <2>4, <2>8
    <3> HIDE DEF InQueue
    <3>2. CASE y = AtWork(n) BY <2>8, <3>2
    <3>3. CASE \E k \in Nat : y = InQueue(n, i[n], k) /\ k > 0 /\ Before(y) = InQueue(n, i[n], k + 1)
      <4>1. PICK k \in Nat : k > 0 /\ Before(y) = InQueue(n, i[n], k + 1) BY <3>3
      <4>2. InQueue(n, i[n], k + 1) = InQueue(n, i[n], 1) BY <1>5, <3>1, <4>1
      <4>3. k + 1 = 1 BY <2>5, <4>2
      <4> QED BY <4>1, <4>3
    <3>4. CASE y \notin Q /\ Before(y) = y BY <1>5, <3>1, <3>4
    <3> QED BY <2>7, <3>2, <3>3, <3>4
  <2>9. CASE \E k \in Nat : x = InQueue(n, i[n], k) /\ k > 0 /\ Before(x) = InQueue(n, i[n], k + 1)
    <3>1. PICK k \in Nat : x = InQueue(n, i[n], k) /\ k > 0 /\ Before(x) = InQueue(n, i[n], k + 1) BY <2>9
    <3>2. CASE y = AtWork(n)
      <4>1. k + 1 \in Nat /\ 1 \in Nat /\ InQueue(n, i[n], k + 1) = InQueue(n, i[n], 1)
        BY <1>5, <2>4, <3>1, <3>2
      <4>2. k + 1 = 1 BY <2>5, <4>1
      <4> QED BY <3>1, <4>2
    <3>3. CASE \E l \in Nat : y = InQueue(n, i[n], l) /\ l > 0 /\ Before(y) = InQueue(n, i[n], l + 1)
      <4>1. PICK l \in Nat : y = InQueue(n, i[n], l) /\ Before(y) = InQueue(n, i[n], l + 1) BY <3>3
      <4>2. k + 1 \in Nat /\ l + 1 \in Nat /\ InQueue(n, i[n], k + 1) = InQueue(n, i[n], l + 1)
        BY <1>5, <3>1, <4>1
      <4>3. k + 1 = l + 1 BY <2>5, <4>2
      <4>4. k = l BY <4>3
      <4> QED BY <3>1, <4>1, <4>4
    <3>4. CASE y \notin Q /\ Before(y) = y BY <1>5, <2>3, <3>1, <3>4
    <3> QED BY <2>7, <3>2, <3>3, <3>4
  <2>10. CASE x \notin Q /\ x # AtWork(n) /\ Before(x) = x
    <3>1. CASE y = AtWork(n) BY <1>5, <2>4, <2>10, <3>1
    <3>2. CASE \E l \in Nat : y = InQueue(n, i[n], l) /\ l > 0 /\ Before(y) = InQueue(n, i[n], l + 1)
      BY <1>5, <2>3, <2>10, <3>2
    <3>3. CASE Before(y) = y BY <1>5, <2>10, <3>3
    <3> QED BY <2>7, <3>1, <3>2, <3>3
  <2> QED BY <2>7, <2>8, <2>9, <2>10
<1>6. f \in Injection(Open', Open)
  <2> HIDE DEF Before
  <2>1. f \in [Open' -> Open] BY <1>4
  <2>2. \A x, y \in Open' : f[x] = f[y] => x = y BY <1>5
  <2> HIDE DEF f
  <2> QED BY <2>1, <2>2, Fun_IsInj
<1>7. IsFiniteSet(Open') /\ Cardinality(Open') <= Cardinality(Open)
  <2> HIDE DEF f
  <2> QED BY <1>6, FS_Injection DEF Balance
<1>8. Cardinality(Open) \in Nat /\ Cardinality(Open') \in Nat BY <1>7, FS_CardinalityType DEF Balance
<1>9. sent \in Nat /\ asked \in Nat /\ repeats \in Nat BY DEF Sorted, ServerTypes
<1>10. sent + Cardinality(Open) <= asked + repeats BY DEF Balance
<1>11. sent' + Cardinality(Open') <= asked' + repeats' BY <1>1, <1>7, <1>8, <1>9, <1>10
<1> QED BY <1>7, <1>11 DEF Balance

\* Every step of the loop, of clients and of the network keeps the invariant.
LEMMA ServerStep ==
  ASSUME ServerBounds, ServerInv, [Next]_vars
  PROVE  ServerInv'
<1> SUFFICES Sorted' /\ Balance' BY DEF ServerInv, Sorted
<1>1. Sorted /\ Balance BY DEF ServerInv, Sorted
<1>2. ASSUME NEW n \in Node, Loop(n) PROVE Sorted' /\ Balance'
  <2>1. CASE Poll(n)
    <3>1. Sorted' BY <1>1, <2>1, SortedPoll
    <3> QED BY <1>1, <2>1, <3>1, BalancePoll
  <2>2. CASE Recv(n)
    <3>1. Sorted' BY <1>1, <2>2, SortedRecv
    <3>2. CASE i[n] \in revents[n] BY <1>1, <2>2, <3>1, <3>2, BalanceTaken
    <3>3. CASE i[n] \notin revents[n]
      <4>1. pc[n] = "recv" /\ NextSocket(n) /\ UNCHANGED <<queue, buf, net, asked, repeats, sent>>
        BY <2>2, <3>3 DEF Recv
      <4>2. pc'[n] \in {"poll", "recv"} /\ \A o \in Node \ {n} : pc'[o] = pc[o]
        BY <1>1, <4>1, NextSocketTypes DEF Sorted
      <4>3. \A o \in Node : pc'[o] \in {"doit", "send"} => pc[o] \in {"doit", "send"} BY <4>2
      <4> QED BY <1>1, <3>1, <4>1, <4>3, IdleBalance
    <3> QED BY <3>1, <3>2, <3>3
  <2>3. CASE RecvFails(n)
    <3>1. Sorted' BY <1>1, <2>3, SortedRecvFails
    <3> QED BY <1>1, <2>3, <3>1, BalancePoll
  <2>4. CASE Doit(n)
    <3>1. Sorted' BY <1>1, <2>4, SortedDoit
    <3> QED BY <1>1, <2>4, <3>1, BalancePoll
  <2>5. CASE Send(n)
    <3>1. Sorted' BY <1>1, <2>5, SortedSend
    <3> QED BY <1>1, <2>5, <3>1, BalanceSend
  <2> QED BY <1>2, <2>1, <2>2, <2>3, <2>4, <2>5 DEF Loop
<1>3. ASSUME NEW p \in Question, NEW from \in Client \cup Port, NEW to \in Port, ClientSends(p, from, to)
      PROVE  Sorted' /\ Balance'
  BY <1>1, <1>3, SortedClientSends, BalanceClientSends
<1>4. ASSUME NEW n \in Node, NEW s \in Socket, NEW m \in net, Deliver(n, s, m) \/ Repeat(n, s, m)
      PROVE  Sorted' /\ Balance'
  <2>1. Sorted' BY <1>1, <1>4, SortedArrival
  <2> QED BY <1>1, <1>4, <2>1, BalanceDeliver, BalanceRepeat
<1>5. ASSUME NEW m \in net, Lose(m) PROVE Sorted' /\ Balance'
  <2>1. Sorted' BY <1>1, <1>5, SortedLose
  <2>2. /\ net' \subseteq net /\ queue' = queue /\ buf' = buf /\ pc' = pc
        /\ sent' = sent /\ asked' = asked /\ repeats' = repeats
    BY <1>5 DEF Lose, server
  <2>3. \A o \in Node : pc'[o] \in {"doit", "send"} => pc[o] \in {"doit", "send"} BY <2>2
  <2>4. Balance' BY <1>1, <2>1, <2>2, <2>3, IdleBalance
  <2> QED BY <2>1, <2>4
<1>6. CASE UNCHANGED vars
  <2>1. /\ net' = net /\ queue' = queue /\ pc' = pc /\ revents' = revents /\ i' = i /\ buf' = buf
        /\ response' = response /\ asked' = asked /\ repeats' = repeats /\ sent' = sent
    BY <1>6 DEF vars
  <2>2. Sorted' BY <1>1, <2>1 DEF Sorted, ServerTypes, Readable, Working, ErrorsRight
  <2>3. \A o \in Node : pc'[o] \in {"doit", "send"} => pc[o] \in {"doit", "send"} BY <2>1
  <2>4. Balance' BY <1>1, <2>1, <2>2, <2>3, IdleBalance
  <2> QED BY <2>2, <2>4
<1> QED BY <1>2, <1>3, <1>4, <1>5, <1>6 DEF Next

LEMMA ServerInit == ServerBounds /\ Init => ServerInv
<1> SUFFICES ASSUME ServerBounds, Init PROVE ServerInv OBVIOUS
<1>1. Queued(<<>>)
  <2>1. <<>> \in Seq({}) /\ Len(<<>>) = 0 OBVIOUS
  <2>2. Listed(<<>>) BY <2>1, Own
  <2>3. \A k \in 1..Len(<<>>) : FALSE BY <2>1
  <2>4. Len(<<>>) <= MaxQueue BY <2>1 DEF ServerBounds
  <2> QED BY <2>2, <2>3, <2>4 DEF Queued
<1>2. 1 \in Socket BY DEF ServerBounds, Socket
<1>3. \A n \in Node, s \in Socket : queue[n][s] = <<>> BY DEF Init
<1>4. ServerTypes BY <1>1, <1>2, <1>3 DEF Init, ServerTypes
<1>5. Readable /\ Working /\ ErrorsRight BY DEF Init, Readable, Working, ErrorsRight
<1>6. Open = {}
  <2> SUFFICES ASSUME NEW x, x \in Open PROVE FALSE OBVIOUS
  <2>1. ~OpenInNet(x) BY DEF Init, OpenInNet
  <2>2. ~OpenAtWork(x) BY DEF Init, OpenAtWork
  <2>3. ~OpenInQueue(x)
    <3>1. Len(<<>>) = 0 OBVIOUS
    <3>2. \A o \in Node, t \in Socket, k \in Nat : k \notin 1..Len(queue[o][t]) BY <1>3, <3>1
    <3> QED BY <3>2 DEF OpenInQueue
  <2> QED BY <2>1, <2>2, <2>3, OpenIs
<1>7. Balance
  <2>1. IsFiniteSet(Open) /\ Cardinality(Open) = 0 BY <1>6, FS_EmptySet
  <2>2. sent = 0 /\ asked = 0 /\ repeats = 0 BY DEF Init
  <2> QED BY <2>1, <2>2 DEF Balance
<1> QED BY <1>4, <1>5, <1>7 DEF ServerInv

LEMMA ServerSays == ServerBounds /\ ServerInv => TypeOK /\ Quiet /\ ErrorsRight
<1> SUFFICES ASSUME ServerBounds, ServerInv PROVE TypeOK /\ Quiet /\ ErrorsRight OBVIOUS
<1>1. TypeOK BY DEF ServerInv, ServerTypes, Queued, TypeOK
<1>2. Quiet
  <2>1. Cardinality(Open) \in Nat /\ sent + Cardinality(Open) <= asked + repeats
    BY FS_CardinalityType DEF ServerInv, Balance
  <2>2. sent \in Nat /\ asked \in Nat /\ repeats \in Nat BY DEF ServerInv, ServerTypes
  <2> QED BY <2>1, <2>2 DEF Quiet
<1> QED BY <1>1, <1>2 DEF ServerInv

LEMMA ReplyStep ==
  ASSUME ServerBounds, ServerInv, [Next]_vars
  PROVE  [asked' = asked => \A m \in net' \ net : \E n \in Node : Replies(n, m)]_net
<1> SUFFICES ASSUME asked' = asked, NEW m \in net' \ net PROVE \E n \in Node : Replies(n, m)
  OBVIOUS
<1>1. Sorted BY DEF ServerInv, Sorted
<1>2. asked \in Nat BY <1>1 DEF Sorted, ServerTypes
<1>3. PICK n \in Node : Send(n)
  <2>1. ~UNCHANGED vars BY DEF vars
  <2>2. ~\E p \in Question, from \in Client \cup Port, to \in Port : ClientSends(p, from, to)
    BY <1>2 DEF ClientSends
  <2>3. \A n \in Node : ~(Poll(n) \/ Recv(n) \/ RecvFails(n) \/ Doit(n))
    BY DEF Poll, Recv, RecvFails, Doit
  <2>4. \A n \in Node, s \in Socket, l \in net : ~Deliver(n, s, l) /\ ~Repeat(n, s, l) BY DEF Deliver, Repeat
  <2>5. \A l \in net : ~Lose(l) BY DEF Lose
  <2> QED BY <2>1, <2>2, <2>3, <2>4, <2>5 DEF Next, Loop
<1>4. pc[n] = "send" /\ m = Packet(Reply(n), <<n, i[n]>>, buf[n].from) BY <1>3 DEF Send
<1>5. m.from = <<n, i[n]>> /\ m.to = buf[n].from /\ m.body = Reply(n) BY <1>4 DEF Packet
<1> QED BY <1>1, <1>4, <1>5, ReplySound DEF Replies

(* server.c:35-82, :44, :155-158: however packets come, none of the servers *)
(* sends a packet that nobody asked for, so that they keep no packet going *)
(* between them; a question that respond() has not seen is answered with   *)
(* the right error; and what a server sends is the reply to the packet it  *)
(* works on, from the socket it came in on to where it came from.          *)
THEOREM QuietAndRightAlways ==
  ASSUME ServerBounds
  PROVE  Spec => QuietAndRight
<1>1. ServerInv /\ [Next]_vars => ServerInv' BY ServerStep
<1>2. Init => ServerInv BY ServerInit
<1>3. ServerInv => TypeOK /\ Quiet /\ ErrorsRight BY ServerSays
<1>4. ServerInv /\ [Next]_vars
        => [asked' = asked => \A m \in net' \ net : \E n \in Node : Replies(n, m)]_net
  BY ReplyStep
<1> QED BY <1>1, <1>2, <1>3, <1>4, PTL DEF Spec, QuietAndRight

-----------------------------------------------------------------------------
(* walldns.c                                                               *)

\* The state, and what a name has in front of its base.
Named(d) == d \in Seq(W!ToSet(d))

LEMMA ArpaLen == W!Arpa \in Seq({"in-addr", "arpa"}) /\ Len(W!Arpa) = 2
BY DEF W!Arpa

LEMMA RangeOf ==
  ASSUME NEW S, NEW s \in Seq(S)
  PROVE  W!ToSet(s) = {s[m] : m \in 1..Len(s)}
BY DEF W!ToSet

LEMMA Part ==
  ASSUME NEW S, NEW s \in Seq(S), NEW m \in 1..Len(s) + 1, NEW n \in 0..Len(s)
  PROVE  /\ SubSeq(s, m, n) \in Seq(S)
         /\ Len(SubSeq(s, m, n)) = (IF m <= n THEN n - m + 1 ELSE 0)
         /\ \A k \in 1..Len(SubSeq(s, m, n)) : SubSeq(s, m, n)[k] = s[m + k - 1]
<1>1. \A o \in m..n : s[o] \in S
  OBVIOUS
<1> QED BY <1>1, SubSeqProperties

\* j numbers and the base are the name.
Fronted(d, base, j) ==
  /\ Len(d) = j + Len(base)
  /\ SubSeq(d, j + 1, Len(d)) = base
  /\ \A k \in 1..j : d[k] \in Digits

\* dd() finds at most one number, which the lengths determine.
LEMMA DdFinds ==
  ASSUME W!WallBounds, NEW d, Named(d), NEW base, base = <<>> \/ base = W!Arpa, NEW j \in 0..Octets
  PROVE  W!dd(d, base) = j <=> Fronted(d, base, j)
<1>1. Octets \in Nat /\ Len(d) \in Nat /\ Len(base) \in Nat
  BY ArpaLen DEF W!WallBounds, Named
<1>2. \A m, n \in W!Numbers(d, base) : m = n
  BY <1>1 DEF W!Numbers
<1>3. j \in W!Numbers(d, base) <=> Fronted(d, base, j)
  BY <1>1 DEF W!Numbers, Fronted
<1>4. W!dd(d, base) = j <=> j \in W!Numbers(d, base)
  <2>1. CASE W!Numbers(d, base) = {}
    BY <2>1, <1>1 DEF W!dd
  <2>2. CASE W!Numbers(d, base) # {}
    <3>1. W!dd(d, base) \in W!Numbers(d, base)
      BY <2>2 DEF W!dd
    <3> QED BY <3>1, <1>2
  <2> QED BY <2>1, <2>2
<1> QED BY <1>3, <1>4

LEMMA DdRange ==
  ASSUME W!WallBounds, NEW d, Named(d), NEW base, base = <<>> \/ base = W!Arpa
  PROVE  W!dd(d, base) \in -1..Octets
<1>1. Octets \in Nat
  BY DEF W!WallBounds
<1>2. W!Numbers(d, base) \subseteq 0..Octets
  BY DEF W!Numbers
<1>3. CASE W!Numbers(d, base) = {}
  BY <1>1, <1>3 DEF W!dd
<1>4. CASE W!Numbers(d, base) # {}
  <2>1. W!dd(d, base) \in W!Numbers(d, base)
    BY <1>4 DEF W!dd
  <2> QED BY <2>1, <1>1, <1>2
<1> QED BY <1>3, <1>4

\* Turned around twice is as it was.
LEMMA ReverseTwice ==
  ASSUME NEW S, NEW s \in Seq(S)
  PROVE  /\ W!Reverse(s) \in Seq(S) /\ Len(W!Reverse(s)) = Len(s)
         /\ W!Reverse(W!Reverse(s)) = s
<1>1. /\ Len(s) \in Nat
      /\ W!Reverse(s) = [m \in 1..Len(s) |-> s[(Len(s) - m) + 1]]
  BY DEF W!Reverse
<1>2. \A m \in 1..Len(s) : (Len(s) - m) + 1 \in 1..Len(s) /\ (Len(s) - ((Len(s) - m) + 1)) + 1 = m
  BY <1>1
<1>3. W!Reverse(s) \in [1..Len(s) -> S]
  BY <1>1, <1>2
<1>4. W!Reverse(s) \in Seq(S) /\ Len(W!Reverse(s)) = Len(s)
  BY <1>1, <1>3
<1>5. W!Reverse(W!Reverse(s)) = [m \in 1..Len(s) |-> W!Reverse(s)[(Len(s) - m) + 1]]
  BY <1>4 DEF W!Reverse
<1>6. \A m \in 1..Len(s) : W!Reverse(s)[(Len(s) - m) + 1] = s[m]
  BY <1>1, <1>2
<1>7. s = [m \in 1..Len(s) |-> s[m]]
  OBVIOUS
<1> QED BY <1>4, <1>5, <1>6, <1>7

\* A name without its base, and with the base again.
LEMMA Joined ==
  ASSUME W!WallBounds, NEW d, Named(d), NEW n \in Nat, Len(d) = n + 2, SubSeq(d, n + 1, Len(d)) = W!Arpa
  PROVE  SubSeq(d, 1, n) \o W!Arpa = d
<1> DEFINE S == W!ToSet(d)
           front == SubSeq(d, 1, n)
<1>1. d \in Seq(S) /\ Len(d) \in Nat
  BY DEF Named
<1>2. front \in Seq(S) /\ Len(front) = n /\ \A k \in 1..n : front[k] = d[k]
  BY <1>1, Part
<1>3. W!Arpa \in Seq(S) /\ \A k \in 1..2 : W!Arpa[k] = d[n + k]
  <2>1. \A k \in 1..2 : SubSeq(d, n + 1, Len(d))[k] = d[(n + 1) + k - 1]
    BY <1>1, Part, ArpaLen
  <2>2. SubSeq(d, n + 1, Len(d)) \in Seq(S)
    BY <1>1, Part
  <2>3. \A k \in 1..2 : (n + 1) + k - 1 = n + k
    OBVIOUS
  <2> HIDE DEF S
  <2> QED BY <2>1, <2>2, <2>3
<1> HIDE DEF front, S
<1>4. front \o W!Arpa \in Seq(S) /\ Len(front \o W!Arpa) = n + 2
  <2>1. Len(W!Arpa) = 2
    BY ArpaLen
  <2>2. front \in Seq(S) /\ Len(front) = n /\ W!Arpa \in Seq(S)
    BY <1>2, <1>3
  <2>3. front \o W!Arpa \in Seq(S)
    BY <2>2
  <2>4. Len(front \o W!Arpa) = Len(front) + Len(W!Arpa)
    BY <2>2
  <2> QED BY <2>1, <2>2, <2>3, <2>4
<1>5. \A k \in 1..n + 2 : (front \o W!Arpa)[k] = d[k]
  <2> TAKE k \in 1..n + 2
  <2>1. (front \o W!Arpa)[k] = IF k <= n THEN front[k] ELSE W!Arpa[k - n]
    <3>1. front \in Seq(S) /\ W!Arpa \in Seq(S) /\ Len(front) = n /\ Len(W!Arpa) = 2
      BY <1>2, <1>3, ArpaLen
    <3>2. \A m \in 1..Len(front) + Len(W!Arpa) :
            (front \o W!Arpa)[m] = IF m <= Len(front) THEN front[m] ELSE W!Arpa[m - Len(front)]
      BY <3>1, ConcatProperties
    <3> QED BY <3>1, <3>2
  <2> QED BY <2>1, <1>2, <1>3
<1>6. front \o W!Arpa = d
  BY <1>1, <1>4, <1>5, SeqEqual
<1> QED BY <1>6 DEF front

\* The address that is answered is the one of the name.
LEMMA ForwardLeadsBack ==
  ASSUME W!WallBounds, NEW d, Named(d)
  PROVE  \/ /\ W!dd(d, <<>>) # Octets /\ W!dd(d, W!Arpa) # Octets
            /\ W!Forward(d) = <<>>
         \/ \E ip : W!Forward(d) = <<ip>> /\ d \in {ip, W!Reverse(ip) \o W!Arpa}
<1>1. d \in Seq(W!ToSet(d)) /\ Octets \in Nat /\ Octets \in 0..Octets /\ Len(d) \in Nat
  BY DEF W!WallBounds, Named
<1>2. W!dd(d, <<>>) = Octets => Len(d) = Octets
  BY <1>1, DdFinds DEF Fronted
<1>3. W!dd(d, W!Arpa) = Octets => Len(d) = Octets + 2 /\ SubSeq(d, Octets + 1, Len(d)) = W!Arpa
  <2>1. W!dd(d, W!Arpa) = Octets => Fronted(d, W!Arpa, Octets)
    BY <1>1, DdFinds
  <2> QED BY <2>1, ArpaLen DEF Fronted
<1>4. CASE W!dd(d, <<>>) = Octets
  <2>1. W!dd(d, W!Arpa) # Octets
    BY <1>1, <1>2, <1>3, <1>4
  <2>2. SubSeq(d, 1, Octets) = d
    <3>1. Len(d) = Octets
      BY <1>2, <1>4
    <3>2. /\ SubSeq(d, 1, Octets) \in Seq(W!ToSet(d)) /\ Len(SubSeq(d, 1, Octets)) = Octets
          /\ \A k \in 1..Octets : SubSeq(d, 1, Octets)[k] = d[1 + k - 1]
      BY <1>1, <3>1, Part
    <3> QED BY <1>1, <3>1, <3>2, SeqEqual
  <2>3. W!Forward(d) = <<SubSeq(d, 1, Octets)>>
    BY <1>4, <2>1 DEF W!Forward
  <2> QED BY <2>2, <2>3
<1>5. CASE W!dd(d, <<>>) # Octets /\ W!dd(d, W!Arpa) = Octets
  <2> DEFINE front == SubSeq(d, 1, Octets)
  <2>1. front \in Seq(W!ToSet(d))
    BY <1>1, <1>3, <1>5, Part
  <2>2. front \o W!Arpa = d
    BY <1>1, <1>3, <1>5, Joined
  <2>3. W!Reverse(W!Reverse(front)) = front
    BY <2>1, ReverseTwice
  <2>4. W!Forward(d) = <<W!Reverse(front)>>
    BY <1>5 DEF W!Forward
  <2> HIDE DEF front
  <2> QED BY <2>2, <2>3, <2>4
<1>6. CASE W!dd(d, <<>>) # Octets /\ W!dd(d, W!Arpa) # Octets
  <2>1. W!Forward(d) = <<>>
    BY <1>6 DEF W!Forward
  <2> QED BY <2>1, <1>6
<1> QED BY <1>4, <1>5, <1>6

\* The names that are addresses, or parts of them backwards.
LEMMA ZoneIs ==
  ASSUME W!WallBounds, NEW d, Named(d)
  PROVE  W!InZone(d) <=>
           \/ Len(d) = Octets /\ W!ToSet(d) \subseteq Digits
           \/ \E n \in 0..Octets : /\ Len(d) = n + 2
                                   /\ W!ToSet(SubSeq(d, 1, n)) \subseteq Digits
                                   /\ SubSeq(d, n + 1, n + 2) = W!Arpa
<1>1. d \in Seq(W!ToSet(d)) /\ Octets \in Nat /\ Len(d) \in Nat
  BY DEF W!WallBounds, Named
<1>2. W!dd(d, <<>>) = Octets <=> Len(d) = Octets /\ W!ToSet(d) \subseteq Digits
  <2>1. W!dd(d, <<>>) = Octets <=> Fronted(d, <<>>, Octets)
    BY <1>1, DdFinds
  <2>2. Len(d) = Octets => SubSeq(d, Octets + 1, Len(d)) = <<>>
    BY <1>1
  <2>3. W!ToSet(d) \subseteq Digits <=> \A k \in 1..Len(d) : d[k] \in Digits
    <3>1. W!ToSet(d) = {d[k] : k \in 1..Len(d)}
      BY <1>1, RangeOf
    <3> QED BY <3>1
  <2>4. Fronted(d, <<>>, Octets) <=> Len(d) = Octets /\ \A k \in 1..Len(d) : d[k] \in Digits
    BY <1>1, <2>2 DEF Fronted
  <2> QED BY <2>1, <2>3, <2>4
<1>3. W!dd(d, W!Arpa) >= 0 <=> \E n \in 0..Octets : W!dd(d, W!Arpa) = n
  BY <1>1, DdRange
<1>4. ASSUME NEW n \in 0..Octets
      PROVE  W!dd(d, W!Arpa) = n <=> /\ Len(d) = n + 2
                                     /\ W!ToSet(SubSeq(d, 1, n)) \subseteq Digits
                                     /\ SubSeq(d, n + 1, n + 2) = W!Arpa
  <2>1. W!dd(d, W!Arpa) = n <=> /\ Len(d) = n + 2
                                /\ SubSeq(d, n + 1, Len(d)) = W!Arpa
                                /\ \A k \in 1..n : d[k] \in Digits
    <3>1. W!dd(d, W!Arpa) = n <=> Fronted(d, W!Arpa, n)
      BY DdFinds
    <3> QED BY <3>1, ArpaLen DEF Fronted
  <2>2. ASSUME Len(d) = n + 2
        PROVE  W!ToSet(SubSeq(d, 1, n)) \subseteq Digits <=> \A k \in 1..n : d[k] \in Digits
    <3>1. /\ SubSeq(d, 1, n) \in Seq(W!ToSet(d)) /\ Len(SubSeq(d, 1, n)) = n
          /\ \A k \in 1..n : SubSeq(d, 1, n)[k] = d[k]
      BY <1>1, <2>2, Part
    <3>2. W!ToSet(SubSeq(d, 1, n)) = {SubSeq(d, 1, n)[m] : m \in 1..n}
      BY <3>1, RangeOf
    <3> QED BY <3>1, <3>2
  <2> QED BY <2>1, <2>2
<1> QED BY <1>2, <1>3, <1>4 DEF W!InZone

LEMMA Single == \A x : [n \in 1..1 |-> x] = <<x>>
OBVIOUS

LEMMA OneOrNone ==
  ASSUME NEW s, NEW x, NEW S, x \in S, s = <<>> \/ s = <<x>>
  PROVE  /\ s \in Seq(S) /\ Len(s) \in Nat /\ Len(s) <= 1
         /\ Len(s) = 1 <=> s = <<x>>
         /\ s = <<x>> => s[1] = x
<1>1. CASE s = <<>>
  <2>1. Len(s) = 0 /\ s \in Seq(S)
    BY <1>1
  <2>2. Len(<<x>>) = 1
    OBVIOUS
  <2> QED BY <1>1, <2>1, <2>2
<1>2. CASE s = <<x>>
  BY <1>2
<1> QED BY <1>1, <1>2

\* An answer of one record of either kind, both or none.
LEMMA Both ==
  ASSUME NEW S, NEW s \in Seq(S), NEW t \in Seq(S), Len(s) <= 1, Len(t) <= 1
  PROVE  /\ \A k \in 1..Len(s \o t) : (Len(s) = 1 /\ (s \o t)[k] = s[1]) \/ (Len(t) = 1 /\ (s \o t)[k] = t[1])
         /\ Len(s) = 1 => Len(s \o t) >= 1 /\ (s \o t)[1] = s[1]
         /\ Len(s \o t) \in Nat
<1>1. Len(s) \in {0, 1} /\ Len(t) \in {0, 1} /\ Len(s \o t) = Len(s) + Len(t)
  <2>1. Len(s) \in Nat /\ Len(t) \in Nat
    OBVIOUS
  <2>2. Len(s \o t) = Len(s) + Len(t)
    OBVIOUS
  <2>3. \A n \in Nat : n <= 1 => n \in {0, 1}
    OBVIOUS
  <2>4. Len(s) \in {0, 1} /\ Len(t) \in {0, 1}
    BY <2>1, <2>3
  <2> QED BY <2>2, <2>4
<1>2. \A k \in 1..Len(s \o t) : (s \o t)[k] = IF k <= Len(s) THEN s[k] ELSE t[k - Len(s)]
  OBVIOUS
<1>3. ASSUME NEW k \in 1..Len(s \o t)
      PROVE  (Len(s) = 1 /\ (s \o t)[k] = s[1]) \/ (Len(t) = 1 /\ (s \o t)[k] = t[1])
  <2>1. CASE k <= Len(s)
    BY <1>1, <1>2, <2>1
  <2>2. CASE ~(k <= Len(s))
    <3>1. Len(t) = 1 /\ k - Len(s) = 1
      BY <1>1, <2>2
    <3> QED BY <1>2, <2>2, <3>1
  <2> QED BY <2>1, <2>2
<1>4. Len(s) = 1 => Len(s \o t) >= 1 /\ (s \o t)[1] = s[1]
  BY <1>1, <1>2
<1> QED BY <1>3, <1>4

\* The one step there is.
LEMMA RespondRight ==
  ASSUME W!WallBounds, NEW d \in WallName, NEW t \in WallType, W!Respond(d, t)
  PROVE  W!ServedRight'
<1> DEFINE as == IF W!flaga(t) THEN [n \in DOMAIN W!Forward(d) |-> [type |-> "A", data |-> W!Forward(d)[n]]] ELSE <<>>
           ptrs == IF W!flagptr(t) THEN [n \in DOMAIN W!Backward(d) |-> [type |-> "PTR", data |-> W!Backward(d)[n]]] ELSE <<>>
<1>1. Named(d) /\ Octets \in Nat /\ Len(d) \in Nat
  BY DEF W!WallBounds, Named
<1>2. wq' = d /\ wtype' = t
  BY DEF W!Respond
<1>3. CASE (W!flaga(t) \/ W!flagptr(t)) /\ W!InZone(d)
  <2>1. wanswer' = as \o ptrs /\ wrcode' = "ok"
    BY <1>3 DEF W!Respond
  <2>2. \/ as = <<>>
        \/ \E ip : as = <<[type |-> "A", data |-> ip]>> /\ d \in {ip, W!Reverse(ip) \o W!Arpa}
    <3>1. CASE W!Forward(d) = <<>> \/ ~W!flaga(t)
      BY <3>1
    <3>2. ASSUME NEW ip, W!Forward(d) = <<ip>>, d \in {ip, W!Reverse(ip) \o W!Arpa}, W!flaga(t)
          PROVE  as = <<[type |-> "A", data |-> ip]>>
      <4>1. as = [n \in 1..1 |-> [type |-> "A", data |-> ip]]
        BY <3>2
      <4> QED BY <4>1, Single
    <3> HIDE DEF as
    <3> QED BY <1>1, ForwardLeadsBack, <3>1, <3>2
  <2>3. (W!dd(d, W!Arpa) = Octets /\ W!flaga(t)) => as # <<>>
    <3> SUFFICES ASSUME W!dd(d, W!Arpa) = Octets, W!flaga(t) PROVE as # <<>> OBVIOUS
    <3>1. PICK ip : W!Forward(d) = <<ip>>
      BY <1>1, ForwardLeadsBack
    <3>2. as = [n \in 1..1 |-> [type |-> "A", data |-> ip]]
      BY <3>1
    <3> QED BY <3>2, Single
  <2>4. ptrs = <<>> \/ ptrs = <<[type |-> "PTR", data |-> d]>>
    BY DEF W!Backward
  <2> HIDE DEF as, ptrs
  <2>7. W!RoundTrip'
    <3>0. PICK ip : \/ as = <<>>
                    \/ as = <<[type |-> "A", data |-> ip]>> /\ d \in {ip, W!Reverse(ip) \o W!Arpa}
      BY <2>2
    <3> DEFINE a == [type |-> "A", data |-> ip]
               p == [type |-> "PTR", data |-> d]
               S == {a, p}
    <3>1. /\ as \in Seq(S) /\ Len(as) \in Nat /\ Len(as) <= 1
          /\ Len(as) = 1 => as[1].type = "A" /\ d \in {as[1].data, W!Reverse(as[1].data) \o W!Arpa}
          /\ as # <<>> => Len(as) = 1
      <4>1. a.type = "A" /\ a.data = ip /\ a \in S
        OBVIOUS
      <4>2. as = <<>> \/ as = <<a>>
        BY <3>0
      <4>3. as # <<>> => d \in {a.data, W!Reverse(a.data) \o W!Arpa}
        BY <3>0, <4>1
      <4>4. <<>> # <<a>>
        OBVIOUS
      <4> HIDE DEF a, S
      <4>5. /\ as \in Seq(S) /\ Len(as) \in Nat /\ Len(as) <= 1
            /\ Len(as) = 1 <=> as = <<a>>
            /\ as = <<a>> => as[1] = a
        BY <4>1, <4>2, OneOrNone
      <4> QED BY <4>1, <4>2, <4>3, <4>4, <4>5
    <3>2. /\ ptrs \in Seq(S) /\ Len(ptrs) \in Nat /\ Len(ptrs) <= 1
          /\ Len(ptrs) = 1 => ptrs[1].type = "PTR" /\ ptrs[1].data = d
      <4>1. p.type = "PTR" /\ p.data = d /\ p \in S
        OBVIOUS
      <4>2. ptrs = <<>> \/ ptrs = <<p>>
        BY <2>4
      <4> HIDE DEF p, S
      <4>5. /\ ptrs \in Seq(S) /\ Len(ptrs) \in Nat /\ Len(ptrs) <= 1
            /\ Len(ptrs) = 1 <=> ptrs = <<p>>
            /\ ptrs = <<p>> => ptrs[1] = p
        BY <4>1, <4>2, OneOrNone
      <4> QED BY <4>1, <4>5
    <3> HIDE DEF S, a, p
    <3>4. \A n \in 1..Len(wanswer') : (Len(as) = 1 /\ wanswer'[n] = as[1]) \/ (Len(ptrs) = 1 /\ wanswer'[n] = ptrs[1])
      BY <2>1, <3>1, <3>2, Both
    <3>3. ASSUME Len(d) = Octets + 2, W!flaga(t)
          PROVE  \E n \in 1..Len(wanswer') : wanswer'[n].type = "A"
      <4>1. W!dd(d, <<>>) # Octets
        BY <1>1, <3>3, DdFinds DEF Fronted
      <4>2. W!dd(d, W!Arpa) \in 0..Octets
        BY <4>1, <1>3, <1>1, DdRange DEF W!InZone
      <4>3. Len(d) = W!dd(d, W!Arpa) + 2
        <5>1. Fronted(d, W!Arpa, W!dd(d, W!Arpa))
          BY <4>2, <1>1, DdFinds
        <5> QED BY <5>1, ArpaLen DEF Fronted
      <4>4. W!dd(d, W!Arpa) = Octets
        BY <4>2, <4>3, <1>1, <3>3
      <4>5. Len(as) = 1
        BY <2>3, <3>1, <3>3, <4>4
      <4>6. Len(wanswer') >= 1 /\ wanswer'[1] = as[1] /\ Len(wanswer') \in Nat
        BY <2>1, <3>1, <3>2, <4>5, Both
      <4>7. 1 \in 1..Len(wanswer')
        BY <4>6
      <4> QED BY <3>1, <4>5, <4>6, <4>7
    <3>6. wrcode' = "ok" /\ Len(wq') = Octets + 2 /\ W!flaga(wtype') =>
            \E n \in 1..Len(wanswer') : wanswer'[n].type = "A"
      BY <1>2, <3>3
    <3>7. \A n \in 1..Len(wanswer') : wanswer'[n].type = "A" => wq' \in {wanswer'[n].data, W!Reverse(wanswer'[n].data) \o W!Arpa}
      BY <1>2, <3>1, <3>2, <3>4
    <3>8. \A n \in 1..Len(wanswer') : wanswer'[n].type = "PTR" => wanswer'[n].data = wq'
      BY <1>2, <3>1, <3>2, <3>4
    <3> QED BY <3>6, <3>7, <3>8 DEF W!RoundTrip
  <2>8. W!RefusedRight'
    <3>1. t \in {"A", "PTR", "ANY"}
      BY <1>3 DEF W!flaga, W!flagptr
    <3> QED BY <1>1, <1>2, <1>3, <2>1, <3>1, ZoneIs DEF W!RefusedRight
  <2> QED BY <2>7, <2>8 DEF W!ServedRight
<1>4. CASE ~((W!flaga(t) \/ W!flagptr(t)) /\ W!InZone(d))
  <2>1. wanswer' = <<>> /\ wrcode' = "refused"
    BY <1>4 DEF W!Respond
  <2>2. W!RoundTrip'
    BY <2>1 DEF W!RoundTrip
  <2>3. W!RefusedRight'
    <3>1. t \in {"A", "PTR", "ANY"} => W!flaga(t) \/ W!flagptr(t)
      BY DEF W!flaga, W!flagptr
    <3> QED BY <1>1, <1>2, <1>4, <2>1, <3>1, ZoneIs DEF W!RefusedRight
  <2> QED BY <2>2, <2>3 DEF W!ServedRight
<1> QED BY <1>3, <1>4

(* walldns.c:25-56: for addresses of any number of numbers and any labels  *)
(* that are numbers, the name of an address leads back to it, and just the *)
(* names that are no address, nor a part of one backwards, are refused.    *)
THEOREM WallServedRight ==
  ASSUME W!WallBounds
  PROVE  W!Spec => []W!ServedRight
<1>1. W!Init => W!ServedRight
  BY DEF W!Init, W!ServedRight, W!RoundTrip, W!RefusedRight
<1>2. W!ServedRight /\ [W!Next]_W!vars => W!ServedRight'
  <2> SUFFICES ASSUME W!ServedRight, [W!Next]_W!vars PROVE W!ServedRight' OBVIOUS
  <2>1. CASE UNCHANGED W!vars
    BY <2>1 DEF W!vars, W!ServedRight, W!RoundTrip, W!RefusedRight, W!flaga
  <2>2. CASE W!Next
    BY <2>2, RespondRight DEF W!Next
  <2> QED BY <2>1, <2>2
<1> QED BY <1>1, <1>2, PTL DEF W!Spec

-----------------------------------------------------------------------------
(* rbldns-data.c and rbldns.c                                              *)

(* The pairs that lines are compiled to, and where they are.               *)
TextPair(line) == [key |-> R!TextKey, a |-> line.a, text |-> line.text]
NetPair(line) == [key |-> R!Network(line), a |-> <<>>, text |-> <<>>]
RblPairs == {TextPair(line) : line \in RblLine} \cup {NetPair(line) : line \in RblLine}
TextAt(n) == n \in 1..rlinenum - 1 /\ rdata[n].c = ":"
NetAt(n) == n \in 1..rlinenum - 1 /\ rdata[n].c = "0"
Keyed(k, key) == k \in 1..Len(rcdb) /\ rcdb[k].key = key
HasKey(key) == \E k : Keyed(k, key)

Stored ==
  /\ \A k \in 1..Len(rcdb) :
       \/ \E n : TextAt(n) /\ rcdb[k] = TextPair(rdata[n])
       \/ \E n : NetAt(n) /\ rcdb[k] = NetPair(rdata[n])
  /\ \A n : NetAt(n) => HasKey(R!Network(rdata[n]))

(* The first text of the database is the first of the file.                *)
FirstTextAt(k, n) ==
  /\ Keyed(k, R!TextKey) /\ \A m \in 1..k - 1 : ~Keyed(m, R!TextKey)
  /\ TextAt(n) /\ \A m \in 1..n - 1 : ~TextAt(m)
  /\ rcdb[k].text = rdata[n].text
FirstText == (\E n : TextAt(n)) => \E k, n : FirstTextAt(k, n)

(* What was looked for is a part of the address asked about.               *)
Prefix(j) == [ip |-> R!Cleared(R!AddressOf(rq), j), bits |-> R!Width - j]
AllDigits(name) == \A k \in 1..Octets : name[k] \in Digits
Looked ==
  rpc = "looking" =>
    /\ rreply = R!None /\ AllDigits(rq) /\ rtype \in {"A", "TXT", "ANY"}
    /\ ipnum = IF ri = 0 THEN R!AddressOf(rq) ELSE R!Cleared(R!AddressOf(rq), ri - 1)
    /\ found => \E j \in 0..MaxShift : ri = j + 1 /\ HasKey(Prefix(j))
    /\ ~found => \A j \in 0..ri - 1 : ~HasKey(Prefix(j))
Said ==
  /\ rreply.kind \in {"listed", "nxdomain"} => rpc = "idle" /\ AllDigits(rq)
  /\ rreply.kind = "listed" =>
       /\ \E j \in 0..MaxShift : HasKey(Prefix(j))
       /\ rtype \in {"A", "TXT", "ANY"}
       /\ rreply.text = IF rtype \in {"TXT", "ANY"} THEN R!Filled(R!Cut(R!Told.text)) ELSE <<>>
  /\ rreply.kind = "nxdomain" => \A j \in 0..MaxShift : ~HasKey(Prefix(j))

RblTypes ==
  /\ rpc \in {"reading", "died", "idle", "looking"}
  /\ rdata \in Seq(RblLine) /\ rlinenum \in Nat \ {0} /\ rlinenum <= Len(rdata) + 1
  /\ rcdb \in Seq(RblPairs)
  /\ ri \in 0..MaxShift + 1 /\ found \in BOOLEAN
  /\ ipnum \in [1..R!Width -> {0, 1}]
  /\ rpc \in {"idle", "looking"} => rlinenum = Len(rdata) + 1
RblInv == RblTypes /\ Said /\ (rpc # "died" => Stored /\ FirstText /\ Looked)

-----------------------------------------------------------------------------
(* An octet ends where the next one begins.                                *)
LEMMA Times == \A a, b, c \in Nat : a <= b => a * c <= b * c
OBVIOUS

LEMMA OctetOf ==
  ASSUME NEW B \in Nat \ {0}, NEW k \in Nat \ {0}
  PROVE  LET o == (k - 1) \div B + 1
         IN /\ o \in Nat \ {0} /\ k - (o - 1) * B \in 1..B
            /\ \A m \in Nat : o <= m <=> k <= m * B
<1> DEFINE d == (k - 1) \div B
<1>1. d \in Nat /\ B * d <= k - 1 /\ k - 1 < B * d + B
  OBVIOUS
<1> HIDE DEF d
<1>2. B * d = d * B /\ d * B \in Nat /\ B * d + B = (d + 1) * B
  BY <1>1
<1>3. k - ((d + 1) - 1) * B \in 1..B
  <2>1. ((d + 1) - 1) * B = d * B
    BY <1>1
  <2> QED BY <1>1, <1>2, <2>1
<1>4. ASSUME NEW m \in Nat PROVE d + 1 <= m <=> k <= m * B
  <2>1. m * B \in Nat
    OBVIOUS
  <2>2. CASE d + 1 <= m
    <3>1. (d + 1) * B <= m * B
      BY <1>1, <2>2, Times
    <3> QED BY <1>1, <1>2, <2>1, <2>2, <3>1
  <2>3. CASE ~(d + 1 <= m)
    <3>1. m <= d
      BY <1>1, <2>3
    <3>2. m * B <= d * B
      BY <1>1, <3>1, Times
    <3> QED BY <1>1, <1>2, <2>1, <2>3, <3>2
  <2> QED BY <2>2, <2>3
<1> QED BY <1>1, <1>3, <1>4 DEF d

LEMMA Sizes ==
  ASSUME R!RblBounds
  PROVE  /\ Octets \in Nat /\ Bits \in Nat \ {0} /\ R!Width \in Nat /\ R!Width = Octets * Bits
         /\ MaxShift \in 0..R!Width /\ MaxShift \in Nat
         /\ \A l \in RblLine : l.c = "0" => l.octets \in Seq(R!Octet) /\ l.bits \in Nat
BY DEF R!RblBounds, R!Width

(* The address of octets that are there.                                   *)
LEMMA JoinedTypes ==
  ASSUME R!RblBounds, NEW s, Len(s) \in Nat, \A m \in 1..Octets : m <= Len(s) => s[m] \in R!Octet
  PROVE  R!Joined(s) \in [1..R!Width -> {0, 1}]
<1>1. Octets \in Nat /\ Bits \in Nat \ {0} /\ R!Width = Octets * Bits
  BY Sizes
<1>2. SUFFICES ASSUME NEW k \in 1..R!Width PROVE R!Joined(s)[k] \in {0, 1}
  BY DEF R!Joined
<1> DEFINE o == (k - 1) \div Bits + 1
<1>3. k \in Nat \ {0} /\ k <= Octets * Bits
  BY <1>1
<1>4. o \in Nat \ {0} /\ k - (o - 1) * Bits \in 1..Bits /\ (o <= Octets <=> k <= Octets * Bits)
  BY <1>1, <1>3, OctetOf
<1>5. R!Joined(s)[k] = IF o > Len(s) THEN 0 ELSE s[o][k - (o - 1) * Bits]
  BY DEF R!Joined
<1> HIDE DEF o
<1>6. CASE o > Len(s)
  BY <1>5, <1>6
<1>7. CASE ~(o > Len(s))
  <2>1. s[o] \in R!Octet
    BY <1>1, <1>3, <1>4, <1>7
  <2>2. s[o][k - (o - 1) * Bits] \in {0, 1}
    BY <1>4, <2>1 DEF R!Octet
  <2> QED BY <1>5, <1>7, <2>2
<1> QED BY <1>6, <1>7

LEMMA AddressTypes ==
  ASSUME R!RblBounds, NEW name, AllDigits(name)
  PROVE  R!AddressOf(name) \in [1..R!Width -> {0, 1}]
<1> DEFINE s == [n \in 1..Octets |-> Value[name[Octets + 1 - n]]]
<1>1. Octets \in Nat
  BY Sizes
<1>2. Len(s) = Octets
  BY <1>1
<1>3. \A m \in 1..Octets : s[m] \in R!Octet
  <2> TAKE m \in 1..Octets
  <2>1. Octets + 1 - m \in 1..Octets
    BY <1>1
  <2>2. name[Octets + 1 - m] \in Digits
    BY <2>1 DEF AllDigits
  <2> QED BY <2>2 DEF R!RblBounds
<1> HIDE DEF s
<1>4. R!Joined(s) \in [1..R!Width -> {0, 1}]
  BY <1>1, <1>2, <1>3, JoinedTypes
<1> QED BY <1>4 DEF R!AddressOf, s

LEMMA ClearedTypes ==
  ASSUME NEW ip \in [1..R!Width -> {0, 1}], NEW j
  PROVE  R!Cleared(ip, j) \in [1..R!Width -> {0, 1}]
BY DEF R!Cleared

LEMMA ClearedOnce ==
  ASSUME R!RblBounds, NEW ip \in [1..R!Width -> {0, 1}]
  PROVE  /\ R!Cleared(ip, 0) = ip
         /\ \A j \in Nat : R!Cleared(R!Cleared(ip, j), j + 1) = R!Cleared(ip, j + 1)
<1>1. R!Width \in Nat
  BY Sizes
<1>2. R!Cleared(ip, 0) = ip
  BY <1>1 DEF R!Cleared
<1>3. ASSUME NEW j \in Nat PROVE R!Cleared(R!Cleared(ip, j), j + 1) = R!Cleared(ip, j + 1)
  <2>1. \A k \in 1..R!Width : R!Cleared(R!Cleared(ip, j), j + 1)[k] = R!Cleared(ip, j + 1)[k]
    BY <1>1 DEF R!Cleared
  <2> QED BY <2>1, Zenon DEF R!Cleared
<1> QED BY <1>2, <1>3

-----------------------------------------------------------------------------
(* A line of the file: nothing is added to the database, or one pair.      *)
LEMMA LinesGrow ==
  ASSUME RblTypes, rdata' = rdata, rlinenum' = rlinenum + 1
  PROVE  /\ rlinenum \in Nat \ {0}
         /\ \A n : TextAt(n)' <=> TextAt(n) \/ (n = rlinenum /\ rdata[rlinenum].c = ":")
         /\ \A n : NetAt(n)' <=> NetAt(n) \/ (n = rlinenum /\ rdata[rlinenum].c = "0")
<1>1. rlinenum \in Nat \ {0}
  BY DEF RblTypes
<1>2. \A n : n \in 1..rlinenum' - 1 <=> n \in 1..rlinenum - 1 \/ n = rlinenum
  BY <1>1
<1> QED BY <1>1, <1>2 DEF TextAt, NetAt

LEMMA PairAdded ==
  ASSUME RblTypes, NEW p \in RblPairs, rcdb' = Append(rcdb, p)
  PROVE  /\ rcdb' \in Seq(RblPairs) /\ Len(rcdb) \in Nat /\ Len(rcdb') = Len(rcdb) + 1
         /\ rcdb'[Len(rcdb) + 1] = p
         /\ \A k \in 1..Len(rcdb) : rcdb'[k] = rcdb[k]
         /\ \A k, key : Keyed(k, key)' <=> Keyed(k, key) \/ (k = Len(rcdb) + 1 /\ p.key = key)
<1>1. rcdb \in Seq(RblPairs) /\ Len(rcdb) \in Nat
  BY DEF RblTypes
<1> HIDE DEF RblPairs
<1>2. /\ rcdb' \in Seq(RblPairs) /\ Len(rcdb') = Len(rcdb) + 1
      /\ rcdb'[Len(rcdb) + 1] = p
      /\ \A k \in 1..Len(rcdb) : rcdb'[k] = rcdb[k]
  BY <1>1, AppendProperties
<1>3. \A k : k \in 1..Len(rcdb') <=> k \in 1..Len(rcdb) \/ k = Len(rcdb) + 1
  BY <1>1, <1>2
<1>4. ASSUME NEW k, NEW key
      PROVE  Keyed(k, key)' <=> Keyed(k, key) \/ (k = Len(rcdb) + 1 /\ p.key = key)
  <2>1. CASE k \in 1..Len(rcdb)
    <3>1. k # Len(rcdb) + 1
      BY <1>1, <2>1
    <3> QED BY <1>2, <1>3, <2>1, <3>1 DEF Keyed
  <2>2. CASE k = Len(rcdb) + 1
    <3>1. k \notin 1..Len(rcdb)
      BY <1>1, <2>2
    <3> QED BY <1>2, <1>3, <2>2, <3>1 DEF Keyed
  <2> QED BY <1>3, <2>1, <2>2 DEF Keyed
<1> QED BY <1>1, <1>2, <1>4

LEMMA KeysDiffer ==
  ASSUME R!RblBounds, NEW l \in RblLine, l.c = "0"
  PROVE  R!Network(l) # R!TextKey
<1>1. l.bits \in Nat /\ R!Width \in Nat
  BY Sizes
<1>2. R!Network(l).bits \in Nat /\ R!TextKey.bits = -1
  BY <1>1 DEF R!Network, R!TextKey
<1> QED BY <1>2

LEMMA ReadTypes ==
  ASSUME R!RblBounds, RblTypes, R!ReadLine
  PROVE  RblTypes'
<1>1. /\ rlinenum' = rlinenum + 1 /\ rdata' = rdata /\ ri' = ri /\ found' = found /\ ipnum' = ipnum
      /\ rlinenum <= Len(rdata) /\ rpc' \in {"reading", "died"}
  BY DEF R!ReadLine, RblTypes
<1>2. Len(rdata) \in Nat /\ rlinenum \in Nat \ {0} /\ rdata \in Seq(RblLine) /\ rcdb \in Seq(RblPairs)
  BY DEF RblTypes
<1>3. rlinenum' \in Nat \ {0} /\ rlinenum' <= Len(rdata') + 1
  BY <1>1, <1>2
<1>4. rdata[rlinenum] \in RblLine
  BY <1>1, <1>2
<1>5. R!Pairs(rdata[rlinenum]) \in Seq(RblPairs)
  <2>1. TextPair(rdata[rlinenum]) \in RblPairs /\ NetPair(rdata[rlinenum]) \in RblPairs
    BY <1>4 DEF RblPairs
  <2> HIDE DEF RblPairs
  <2>2. \A p : p \in RblPairs => <<p>> \in Seq(RblPairs)
    OBVIOUS
  <2>3. <<>> \in Seq(RblPairs)
    OBVIOUS
  <2>4. R!Pairs(rdata[rlinenum]) \in {<<TextPair(rdata[rlinenum])>>, <<NetPair(rdata[rlinenum])>>, <<>>}
    BY Zenon DEF R!Pairs, TextPair, NetPair
  <2> QED BY <2>1, <2>2, <2>3, <2>4
<1>6. rcdb' \in Seq(RblPairs)
  <2>1. rcdb' = rcdb \/ rcdb' = rcdb \o R!Pairs(rdata[rlinenum])
    BY DEF R!ReadLine
  <2> HIDE DEF RblPairs
  <2>2. rcdb \o R!Pairs(rdata[rlinenum]) \in Seq(RblPairs)
    BY <1>2, <1>5
  <2> QED BY <1>2, <2>1, <2>2
<1> QED BY <1>1, <1>3, <1>6 DEF RblTypes

LEMMA ReadGrows ==
  ASSUME RblTypes, R!ReadLine, rpc' # "died"
  PROVE  LET line == rdata[rlinenum]
         IN \/ line.c = ":" /\ rcdb' = Append(rcdb, TextPair(line))
            \/ line.c = "0" /\ rcdb' = Append(rcdb, NetPair(line))
            \/ line.c \notin {":", "0"} /\ rcdb' = rcdb
<1> DEFINE line == rdata[rlinenum]
<1>1. rcdb' = rcdb \o R!Pairs(line)
  BY DEF R!ReadLine
<1>2. rcdb \in Seq(RblPairs)
  BY DEF RblTypes
<1> HIDE DEF line, RblPairs
<1>3. rcdb \o <<>> = rcdb
  BY <1>2
<1>4. CASE line.c = ":"
  <2>1. R!Pairs(line) = <<TextPair(line)>>
    BY <1>4 DEF R!Pairs, TextPair
  <2>2. \A p : rcdb \o <<p>> = Append(rcdb, p)
    BY <1>2
  <2> QED BY <1>1, <1>4, <2>1, <2>2 DEF line
<1>5. CASE line.c = "0"
  <2>1. R!Pairs(line) = <<NetPair(line)>>
    BY <1>5 DEF R!Pairs, NetPair
  <2>2. \A p : rcdb \o <<p>> = Append(rcdb, p)
    BY <1>2
  <2> QED BY <1>1, <1>5, <2>1, <2>2 DEF line
<1>6. CASE line.c \notin {":", "0"}
  <2>1. R!Pairs(line) = <<>>
    BY <1>6 DEF R!Pairs
  <2> QED BY <1>1, <1>3, <1>6, <2>1 DEF line
<1> QED BY <1>4, <1>5, <1>6

LEMMA ReadStores ==
  ASSUME R!RblBounds, RblInv, R!ReadLine, rpc' # "died"
  PROVE  Stored' /\ FirstText'
<1> DEFINE line == rdata[rlinenum]
           N == Len(rcdb)
<1>1. RblTypes /\ Stored /\ FirstText /\ rdata' = rdata /\ rlinenum' = rlinenum + 1 /\ rlinenum \in Nat \ {0}
  BY DEF RblInv, RblTypes, R!ReadLine
<1>2. /\ \A n : TextAt(n)' <=> TextAt(n) \/ (n = rlinenum /\ line.c = ":")
      /\ \A n : NetAt(n)' <=> NetAt(n) \/ (n = rlinenum /\ line.c = "0")
  BY <1>1, LinesGrow
<1>3. rlinenum \in 1..Len(rdata) /\ line \in RblLine
  BY <1>1 DEF RblTypes, R!ReadLine
<1>4. \A n : TextAt(n) => n \in 1..rlinenum - 1 /\ n # rlinenum
  BY <1>1 DEF TextAt
<1>5. \A k \in 1..N : rcdb[k].key = R!TextKey => \E n : TextAt(n)
  <2> TAKE k \in 1..N
  <2>1. ASSUME NEW n, NetAt(n), rcdb[k] = NetPair(rdata[n]), rcdb[k].key = R!TextKey PROVE FALSE
    <3>1. rdata[n] \in RblLine /\ rdata[n].c = "0"
      BY <1>1, <2>1 DEF NetAt, RblTypes
    <3>2. R!Network(rdata[n]) # R!TextKey
      BY <3>1, KeysDiffer
    <3> QED BY <2>1, <3>2 DEF NetPair
  <2> QED BY <1>1, <2>1 DEF Stored
<1>6. N \in Nat /\ rcdb \in Seq(RblPairs)
  BY <1>1 DEF RblTypes
<1>7. CASE line.c = ":" /\ rcdb' = Append(rcdb, TextPair(line))
  <2> DEFINE p == TextPair(line)
  <2>1. p \in RblPairs /\ p.key = R!TextKey /\ p.text = line.text
    BY <1>3 DEF RblPairs, TextPair
  <2>2. /\ Len(rcdb') = N + 1 /\ rcdb'[N + 1] = p
        /\ \A k \in 1..N : rcdb'[k] = rcdb[k]
        /\ \A k, key : Keyed(k, key)' <=> Keyed(k, key) \/ (k = N + 1 /\ p.key = key)
    BY <1>1, <1>7, <2>1, PairAdded
  <2>3. \A k \in 1..Len(rcdb') : k \in 1..N \/ k = N + 1
    BY <1>6, <2>2
  <2>4. Stored'
    <3>1. ASSUME NEW k \in 1..Len(rcdb')
          PROVE  \/ \E n : TextAt(n)' /\ rcdb'[k] = TextPair(rdata[n])
                 \/ \E n : NetAt(n)' /\ rcdb'[k] = NetPair(rdata[n])
      BY <1>1, <1>2, <1>7, <2>2, <2>3 DEF Stored
    <3>2. \A n : NetAt(n)' => HasKey(R!Network(rdata[n]))'
      <4>1. \A n : NetAt(n)' => NetAt(n)
        BY <1>2, <1>7
      <4>2. \A key : HasKey(key) => HasKey(key)'
        BY <2>2 DEF HasKey
      <4> QED BY <1>1, <4>1, <4>2 DEF Stored
    <3>3. \A a : TextPair(a)' = TextPair(a)
      OBVIOUS
    <3> QED BY <1>1, <3>1, <3>2 DEF Stored
  <2>5. FirstText'
    <3>1. CASE \E n : TextAt(n)
      <4>1. PICK k, n : FirstTextAt(k, n)
        BY <1>1, <3>1 DEF FirstText
      <4>2. k \in 1..N /\ n \in 1..rlinenum - 1
        BY <4>1 DEF FirstTextAt, Keyed, TextAt
      <4>3. \A m \in 1..k - 1 : m # N + 1
        BY <1>6, <4>2
      <4>4. \A m \in 1..n - 1 : m # rlinenum
        BY <1>1, <4>2
      <4>5. FirstTextAt(k, n)'
        BY <1>1, <1>2, <2>2, <4>1, <4>2, <4>3, <4>4 DEF FirstTextAt
      <4> QED BY <4>5 DEF FirstText
    <3>2. CASE ~\E n : TextAt(n)
      <4>1. \A m : ~Keyed(m, R!TextKey)
        BY <1>5, <3>2 DEF Keyed
      <4>2. PICK a, b : a = N + 1 /\ b = rlinenum
        OBVIOUS
      <4>3. \A m \in 1..a - 1 : ~Keyed(m, R!TextKey)'
        <5>1. \A m \in 1..a - 1 : m # N + 1
          BY <1>6, <4>2
        <5> QED BY <2>2, <4>1, <5>1
      <4>4. \A m \in 1..b - 1 : ~TextAt(m)'
        <5>1. \A m \in 1..b - 1 : m # rlinenum
          BY <1>1, <4>2
        <5> QED BY <1>2, <3>2, <5>1
      <4>5. Keyed(a, R!TextKey)' /\ TextAt(b)' /\ rcdb'[a].text = rdata[b].text
        BY <1>2, <1>7, <2>1, <2>2, <4>2
      <4>6. FirstTextAt(a, b)'
        BY <1>1, <4>3, <4>4, <4>5 DEF FirstTextAt
      <4> QED BY <4>6 DEF FirstText
    <3> QED BY <3>1, <3>2
  <2> QED BY <2>4, <2>5
<1>8. CASE line.c = "0" /\ rcdb' = Append(rcdb, NetPair(line))
  <2> DEFINE p == NetPair(line)
  <2>0. p \in RblPairs /\ p.key = R!Network(line)
    BY <1>3 DEF RblPairs, NetPair
  <2>1. p.key # R!TextKey
    BY <1>3, <1>8, <2>0, KeysDiffer
  <2>2. /\ Len(rcdb') = N + 1 /\ rcdb'[N + 1] = p
        /\ \A k \in 1..N : rcdb'[k] = rcdb[k]
        /\ \A k, key : Keyed(k, key)' <=> Keyed(k, key) \/ (k = N + 1 /\ p.key = key)
    BY <1>1, <1>8, <2>0, PairAdded
  <2>3. \A k \in 1..Len(rcdb') : k \in 1..N \/ k = N + 1
    BY <1>6, <2>2
  <2>4. Stored'
    <3>1. ASSUME NEW k \in 1..Len(rcdb')
          PROVE  \/ \E n : TextAt(n)' /\ rcdb'[k] = TextPair(rdata[n])
                 \/ \E n : NetAt(n)' /\ rcdb'[k] = NetPair(rdata[n])
      BY <1>1, <1>2, <1>8, <2>2, <2>3 DEF Stored
    <3>2. \A n : NetAt(n)' => HasKey(R!Network(rdata[n]))'
      <4>1. \A n : NetAt(n)' => NetAt(n) \/ n = rlinenum
        BY <1>2, <1>8
      <4>2. \A key : HasKey(key) => HasKey(key)'
        BY <2>2 DEF HasKey
      <4>3. PICK a : a = N + 1
        OBVIOUS
      <4>4. ASSUME NEW n, NetAt(n)' PROVE HasKey(R!Network(rdata[n]))'
        <5>1. CASE NetAt(n)
          <6>1. HasKey(R!Network(rdata[n]))
            BY <1>1, <5>1 DEF Stored
          <6> QED BY <4>2, <6>1, <1>1
        <5>2. CASE n = rlinenum
          <6>1. Keyed(a, R!Network(rdata[n]))'
            BY <1>1, <2>0, <2>2, <4>3, <5>2
          <6> QED BY <6>1 DEF HasKey
        <5> QED BY <4>1, <4>4, <5>1, <5>2
      <4> QED BY <4>4
    <3> QED BY <1>1, <3>1, <3>2 DEF Stored
  <2>5. FirstText'
    <3>1. CASE \E n : TextAt(n)
      <4>1. PICK k, n : FirstTextAt(k, n)
        BY <1>1, <3>1 DEF FirstText
      <4>2. k \in 1..N /\ n \in 1..rlinenum - 1
        BY <4>1 DEF FirstTextAt, Keyed, TextAt
      <4>3. \A m : Keyed(m, R!TextKey)' <=> Keyed(m, R!TextKey)
        BY <2>1, <2>2
      <4>4. \A m : TextAt(m)' <=> TextAt(m)
        BY <1>2, <1>8
      <4>5. FirstTextAt(k, n)'
        BY <1>1, <2>2, <4>1, <4>2, <4>3, <4>4 DEF FirstTextAt
      <4> QED BY <4>5 DEF FirstText
    <3>2. CASE ~\E n : TextAt(n)
      BY <1>2, <1>8, <3>2 DEF FirstText
    <3> QED BY <3>1, <3>2
  <2> QED BY <2>4, <2>5
<1>9. CASE line.c \notin {":", "0"} /\ rcdb' = rcdb
  <2>1. \A n : (TextAt(n)' <=> TextAt(n)) /\ (NetAt(n)' <=> NetAt(n))
    BY <1>2, <1>9
  <2>2. \A k, key : Keyed(k, key)' <=> Keyed(k, key)
    BY <1>9 DEF Keyed
  <2>3. Stored'
    BY <1>1, <1>9, <2>1, <2>2 DEF Stored, HasKey
  <2>4. FirstText'
    BY <1>1, <1>9, <2>1, <2>2 DEF FirstText, FirstTextAt
  <2> QED BY <2>3, <2>4
<1> QED BY <1>1, <1>7, <1>8, <1>9, ReadGrows

LEMMA ReadKeeps ==
  ASSUME R!RblBounds, RblInv, R!ReadLine
  PROVE  RblInv'
<1>1. RblTypes'
  BY ReadTypes DEF RblInv
<1>2. rreply' = rreply /\ rpc = "reading" /\ rpc' \in {"reading", "died"}
  BY DEF R!ReadLine
<1>3. Said'
  BY <1>2 DEF RblInv, Said
<1>4. rpc' # "died" => Stored' /\ FirstText'
  BY ReadStores
<1> QED BY <1>1, <1>2, <1>3, <1>4 DEF RblInv, Looked

-----------------------------------------------------------------------------
(* The search.                                                             *)
LEMMA FileKept ==
  ASSUME UNCHANGED R!file
  PROVE  /\ Stored' <=> Stored
         /\ FirstText' <=> FirstText
         /\ \A key : HasKey(key)' <=> HasKey(key)
<1>1. /\ \A n : (TextAt(n)' <=> TextAt(n)) /\ (NetAt(n)' <=> NetAt(n))
      /\ \A k, key : Keyed(k, key)' <=> Keyed(k, key)
  BY DEF R!file, TextAt, NetAt, Keyed
<1>2. \A key : HasKey(key)' <=> HasKey(key)
  BY <1>1 DEF HasKey
<1>3. rdata' = rdata /\ rcdb' = rcdb
  BY DEF R!file
<1>4. Stored' <=> Stored
  BY <1>1, <1>2, <1>3 DEF Stored
<1>5. FirstText' <=> FirstText
  BY <1>1, <1>3 DEF FirstText, FirstTextAt
<1> QED BY <1>2, <1>4, <1>5

LEMMA FileTypes ==
  ASSUME RblTypes, UNCHANGED R!file, rpc' \in {"idle", "looking"}, rlinenum = Len(rdata) + 1,
         ri' \in 0..MaxShift + 1, found' \in BOOLEAN, ipnum' \in [1..R!Width -> {0, 1}]
  PROVE  RblTypes'
BY DEF RblTypes, R!file

LEMMA ServeKeeps ==
  ASSUME R!RblBounds, RblInv, R!Serve
  PROVE  RblInv'
<1>1. /\ rpc = "reading" /\ rpc' = "idle" /\ rlinenum = Len(rdata) + 1 /\ UNCHANGED R!file
      /\ ri' = ri /\ found' = found /\ ipnum' = ipnum /\ rreply' = rreply
  BY DEF R!Serve
<1>2. RblTypes'
  BY <1>1, FileTypes DEF RblInv, RblTypes
<1>3. Said' /\ Looked'
  BY <1>1 DEF RblInv, Said, Looked
<1>4. Stored' /\ FirstText'
  BY <1>1, FileKept DEF RblInv
<1> QED BY <1>2, <1>3, <1>4 DEF RblInv

LEMMA DdDigits ==
  ASSUME R!RblBounds, NEW name, R!dd(name, Base) = Octets
  PROVE  AllDigits(name)
<1>1. Octets \in Nat
  BY Sizes
<1>2. R!Numbers(name, Base) # {}
  BY <1>1 DEF R!dd
<1>3. R!dd(name, Base) \in R!Numbers(name, Base)
  BY <1>2 DEF R!dd
<1> QED BY <1>3 DEF R!Numbers, AllDigits

LEMMA AskKeeps ==
  ASSUME R!RblBounds, RblInv, NEW name, NEW t, R!Ask(name, t)
  PROVE  RblInv'
<1>1. /\ rpc = "idle" /\ rq' = name /\ rtype' = t /\ ri' = 0 /\ found' = FALSE /\ UNCHANGED R!file
      /\ RblTypes /\ Stored /\ FirstText
  BY DEF R!Ask, RblInv
<1>2. rlinenum = Len(rdata) + 1 /\ 0 \in 0..MaxShift + 1 /\ R!Width \in Nat
  BY <1>1, Sizes DEF RblTypes
<1>3. Stored' /\ FirstText'
  BY <1>1, FileKept
<1>4. CASE t \notin {"A", "TXT", "ANY"} \/ R!dd(name, Base) # Octets
  <2>1. rpc' = "idle" /\ rreply' = R!Only("refused") /\ ipnum' = R!Zero
    BY <1>4 DEF R!Ask, R!Answer
  <2>2. rreply'.kind = "refused"
    BY <2>1 DEF R!Only, R!None
  <2>3. ipnum' \in [1..R!Width -> {0, 1}]
    BY <2>1 DEF R!Zero
  <2>4. RblTypes'
    BY <1>1, <1>2, <2>1, <2>3, FileTypes
  <2> QED BY <1>3, <2>1, <2>2, <2>4 DEF RblInv, Said, Looked
<1>5. CASE ~(t \notin {"A", "TXT", "ANY"} \/ R!dd(name, Base) # Octets)
  <2>1. rpc' = "looking" /\ rreply' = R!None /\ ipnum' = R!AddressOf(name)
    BY <1>5 DEF R!Ask
  <2>2. AllDigits(name)
    BY <1>5, DdDigits
  <2>3. RblTypes'
    BY <1>1, <1>2, <2>1, <2>2, AddressTypes, FileTypes
  <2>4. rreply'.kind = "none"
    BY <2>1 DEF R!None
  <2>5. Said'
    BY <2>4 DEF Said
  <2>6. 0..0 - 1 = {}
    OBVIOUS
  <2>7. AllDigits(rq)' /\ rtype' \in {"A", "TXT", "ANY"} /\ ipnum' = R!AddressOf(rq)'
    BY <1>1, <1>5, <2>1, <2>2
  <2>8. Looked'
    BY <1>1, <2>1, <2>6, <2>7, Zenon DEF Looked
  <2> QED BY <1>3, <2>3, <2>5, <2>8 DEF RblInv
<1> QED BY <1>4, <1>5

LEMMA HasIs ==
  ASSUME NEW key
  PROVE  HasKey(key) <=> R!Matches(key) # {}
BY DEF HasKey, Keyed, R!Matches

LEMMA LookKeeps ==
  ASSUME R!RblBounds, RblInv, R!Look
  PROVE  RblInv'
<1> DEFINE A == R!AddressOf(rq)
<1>1. /\ rpc = "looking" /\ rpc' = rpc /\ ~found /\ ri <= MaxShift /\ ri' = ri + 1 /\ UNCHANGED R!file
      /\ rq' = rq /\ rtype' = rtype /\ rreply' = rreply
      /\ ipnum' = R!Cleared(ipnum, ri)
      /\ found' = (R!Matches([ip |-> ipnum', bits |-> R!Width - ri]) # {})
      /\ RblTypes /\ Said /\ Stored /\ FirstText /\ Looked
      /\ ri \in Nat /\ MaxShift \in Nat
  BY Sizes DEF R!Look, R!AllTried, RblInv, RblTypes
<1>2. /\ AllDigits(rq) /\ rreply = R!None /\ rtype \in {"A", "TXT", "ANY"}
      /\ ipnum = IF ri = 0 THEN A ELSE R!Cleared(A, ri - 1)
      /\ \A j \in 0..ri - 1 : ~HasKey(Prefix(j))
  BY <1>1 DEF Looked
<1>3. A \in [1..R!Width -> {0, 1}]
  BY <1>2, AddressTypes
<1> HIDE DEF A
<1>4. ipnum' = R!Cleared(A, ri)
  <2>1. CASE ri = 0
    BY <1>1, <1>2, <1>3, <2>1, ClearedOnce
  <2>2. CASE ri # 0
    <3>1. ri - 1 \in Nat /\ (ri - 1) + 1 = ri
      BY <1>1, <2>2
    <3>2. R!Cleared(R!Cleared(A, ri - 1), (ri - 1) + 1) = R!Cleared(A, (ri - 1) + 1)
      BY <1>3, <3>1, ClearedOnce
    <3> QED BY <1>1, <1>2, <2>2, <3>1, <3>2
  <2> QED BY <2>1, <2>2
<1>5. found' <=> HasKey(Prefix(ri))
  BY <1>1, <1>4, HasIs, Zenon DEF Prefix, A
<1>6. RblTypes'
  <2>1. ri' \in 0..MaxShift + 1
    BY <1>1
  <2>2. ipnum' \in [1..R!Width -> {0, 1}]
    BY <1>3, <1>4, ClearedTypes
  <2>3. found' \in BOOLEAN
    BY <1>1
  <2>4. rlinenum = Len(rdata) + 1
    BY <1>1 DEF RblTypes
  <2> QED BY <1>1, <2>1, <2>2, <2>3, <2>4, FileTypes
<1>7. Stored' /\ FirstText' /\ \A key : HasKey(key)' <=> HasKey(key)
  BY <1>1, FileKept
<1>8. \A j : Prefix(j)' = Prefix(j)
  BY <1>1 DEF Prefix
<1>9. Looked'
  <2>1. AllDigits(rq)' /\ rreply' = R!None /\ rtype' \in {"A", "TXT", "ANY"}
    BY <1>1, <1>2
  <2>2. ri' # 0 /\ ri' > 0 /\ ri' - 1 = ri
    BY <1>1
  <2>3. ipnum' = IF ri' = 0 THEN R!AddressOf(rq)' ELSE R!Cleared(R!AddressOf(rq)', ri' - 1)
    BY <1>1, <1>4, <2>2 DEF A
  <2>4. \A j : HasKey(Prefix(j))' <=> HasKey(Prefix(j))
    BY <1>7, <1>8
  <2>5. found' => \E j \in 0..MaxShift : ri' = j + 1 /\ HasKey(Prefix(j))'
    <3>1. ri \in 0..MaxShift
      BY <1>1
    <3> QED BY <1>1, <1>5, <2>4, <3>1
  <2>6. ~found' => \A j \in 0..ri' - 1 : ~HasKey(Prefix(j))'
    <3>1. \A j \in 0..ri' - 1 : j = ri \/ j \in 0..ri - 1
      BY <1>1
    <3> QED BY <1>2, <1>5, <2>4, <3>1
  <2> QED BY <2>1, <2>2, <2>3, <2>5, <2>6 DEF Looked
<1>10. Said'
  <2>1. rreply'.kind = "none"
    BY <1>1, <1>2 DEF R!None
  <2> QED BY <2>1 DEF Said
<1> QED BY <1>6, <1>7, <1>9, <1>10 DEF RblInv

(* What ends the search leaves the file and the question.                  *)
LEMMA ReplyKeeps ==
  ASSUME R!RblBounds, RblInv, rpc = "looking", rpc' = "idle", UNCHANGED <<R!file, rq, rtype, ipnum, ri, found>>,
         /\ rreply'.kind = "listed" =>
              /\ \E j \in 0..MaxShift : HasKey(Prefix(j))
              /\ rreply'.text = IF rtype \in {"TXT", "ANY"} THEN R!Filled(R!Cut(R!Told.text)) ELSE <<>>
         /\ rreply'.kind = "nxdomain" => \A j \in 0..MaxShift : ~HasKey(Prefix(j))
  PROVE  RblInv'
<1>1. RblTypes /\ Stored /\ FirstText /\ Looked /\ UNCHANGED R!file /\ rcdb' = rcdb
  BY DEF RblInv, R!file
<1>2. Stored' /\ FirstText' /\ \A key : HasKey(key)' <=> HasKey(key)
  BY <1>1, FileKept
<1>3. RblTypes'
  BY <1>1, FileTypes DEF RblTypes
<1>4. \A j : Prefix(j)' = Prefix(j)
  BY DEF Prefix
<1>5. \A j : HasKey(Prefix(j))' <=> HasKey(Prefix(j))
  BY <1>2, <1>4
<1>6. R!Told' = R!Told
  BY <1>1 DEF R!Told, R!Matches
<1>7. R!Filled(R!Cut(R!Told.text))' = R!Filled(R!Cut(R!Told.text))
  BY <1>6 DEF R!Filled, R!Cut
<1>8. AllDigits(rq)' /\ rtype \in {"A", "TXT", "ANY"}
  BY <1>1 DEF Looked
<1>9. Said'
  BY <1>5, <1>7, <1>8 DEF Said
<1> QED BY <1>2, <1>3, <1>9 DEF RblInv, Looked

LEMMA AnswerKeeps ==
  ASSUME R!RblBounds, RblInv, R!NotListed \/ R!Tell \/ R!NoAnswer
  PROVE  RblInv'
<1>1. /\ rpc = "looking" /\ rpc' = "idle" /\ UNCHANGED <<R!file, rq, rtype, ipnum, ri, found>>
      /\ Looked /\ ri \in Nat /\ MaxShift \in Nat /\ ri <= MaxShift + 1
  BY Sizes DEF R!NotListed, R!Tell, R!NoAnswer, R!Answer, RblInv, RblTypes
<1>2. CASE R!NotListed
  <2>1. ~found /\ ri > MaxShift /\ rreply'.kind = "nxdomain"
    BY <1>2 DEF R!NotListed, R!AllTried, R!Answer, R!Only, R!None
  <2>2. \A j \in 0..MaxShift : ~HasKey(Prefix(j))
    <3>1. \A j \in 0..MaxShift : j \in 0..ri - 1
      BY <1>1, <2>1
    <3> QED BY <1>1, <2>1, <3>1 DEF Looked
  <2> QED BY <1>1, <2>1, <2>2, ReplyKeeps
<1>3. CASE R!Tell
  <2>1. /\ found /\ rreply'.kind = "listed"
        /\ rreply'.text = IF rtype \in {"TXT", "ANY"} THEN R!Filled(R!Cut(R!Told.text)) ELSE <<>>
    BY <1>3 DEF R!Tell, R!Answer
  <2>4. \E j \in 0..MaxShift : HasKey(Prefix(j))
    BY <1>1, <2>1 DEF Looked
  <2>5. rreply'.kind # "nxdomain"
    BY <2>1
  <2> QED BY <1>1, <2>1, <2>4, <2>5, ReplyKeeps
<1>4. CASE R!NoAnswer
  <2>1. rreply'.kind = "silent"
    BY <1>4 DEF R!NoAnswer, R!Answer, R!Only, R!None
  <2> QED BY <1>1, <2>1, ReplyKeeps
<1> QED BY <1>2, <1>3, <1>4

LEMMA RblStart ==
  ASSUME R!RblBounds, R!Init
  PROVE  RblInv
<1>1. /\ rdata \in UNION {[1..n -> RblLine] : n \in 0..MaxRbl} /\ rlinenum = 1 /\ rcdb = <<>>
      /\ rpc = "reading" /\ ipnum = R!Zero /\ ri = 0 /\ found = FALSE /\ rreply = R!None
  BY DEF R!Init
<1>2. MaxRbl \in Nat /\ R!Width \in Nat /\ MaxShift \in Nat
  BY Sizes DEF R!RblBounds
<1>3. rdata \in Seq(RblLine)
  <2>1. PICK n \in 0..MaxRbl : rdata \in [1..n -> RblLine]
    BY <1>1
  <2>2. n \in Nat
    BY <1>2
  <2> QED BY <2>1, <2>2
<1>4. RblTypes
  <2>1. ipnum \in [1..R!Width -> {0, 1}]
    BY <1>1 DEF R!Zero
  <2>2. rcdb \in Seq(RblPairs)
    BY <1>1
  <2>3. Len(rdata) \in Nat
    BY <1>3
  <2>4. ri \in 0..MaxShift + 1 /\ rlinenum \in Nat \ {0} /\ rlinenum <= Len(rdata) + 1
    BY <1>1, <1>2, <2>3
  <2>5. found \in BOOLEAN /\ rpc \in {"reading"}
    BY <1>1
  <2> QED BY <1>3, <2>1, <2>2, <2>4, <2>5 DEF RblTypes
<1>5. rreply.kind = "none"
  BY <1>1 DEF R!None
<1>6. \A n : ~TextAt(n) /\ ~NetAt(n)
  BY <1>1 DEF TextAt, NetAt
<1>7. Len(rcdb) = 0
  BY <1>1
<1>8. Stored
  BY <1>6, <1>7 DEF Stored
<1>9. FirstText
  BY <1>6 DEF FirstText
<1> QED BY <1>1, <1>4, <1>5, <1>8, <1>9 DEF RblInv, Said, Looked

LEMMA RblStep ==
  ASSUME R!RblBounds, RblInv, [R!Next]_R!vars
  PROVE  RblInv'
<1>1. CASE UNCHANGED R!vars
  <2>1. UNCHANGED R!file /\ UNCHANGED <<rpc, rq, rtype, ipnum, ri, found, rreply>> /\ rcdb' = rcdb
    BY <1>1 DEF R!vars, R!file
  <2>2. (Stored' <=> Stored) /\ (FirstText' <=> FirstText) /\ \A key : HasKey(key)' <=> HasKey(key)
    BY <2>1, FileKept
  <2>3. \A j : Prefix(j)' = Prefix(j)
    BY <2>1 DEF Prefix
  <2>4. R!Told' = R!Told
    BY <2>1 DEF R!Told, R!Matches
  <2>5. R!Filled(R!Cut(R!Told.text))' = R!Filled(R!Cut(R!Told.text))
    BY <2>1, <2>4 DEF R!Filled, R!Cut
  <2>6. \A j : HasKey(Prefix(j))' <=> HasKey(Prefix(j))
    BY <2>2, <2>3
  <2>7. RblTypes' <=> RblTypes
    BY <2>1 DEF RblTypes, R!file
  <2>8. Said' <=> Said
    BY <2>1, <2>5, <2>6 DEF Said
  <2>9. Looked' <=> Looked
    BY <2>1, <2>6 DEF Looked
  <2> QED BY <2>1, <2>2, <2>7, <2>8, <2>9 DEF RblInv
<1>2. CASE R!Next
  BY <1>2, ReadKeeps, ServeKeeps, AskKeeps, LookKeeps, AnswerKeeps DEF R!Next
<1> QED BY <1>1, <1>2

-----------------------------------------------------------------------------
(* What the database has is what the file has, once it is served.          *)
LEMMA NetworkIs ==
  ASSUME R!RblBounds, RblTypes, Stored, rpc = "idle", NEW j \in 0..MaxShift
  PROVE  HasKey(Prefix(j)) <=> Prefix(j) \in R!Networks
<1>1. rlinenum - 1 = Len(rdata) /\ rdata \in Seq(RblLine) /\ Len(rdata) \in Nat
  BY DEF RblTypes
<1>2. \A n : NetAt(n) <=> n \in {m \in 1..Len(rdata) : rdata[m].c = "0"}
  BY <1>1 DEF NetAt
<1>3. ASSUME Prefix(j) \in R!Networks PROVE HasKey(Prefix(j))
  <2>1. PICK n : NetAt(n) /\ Prefix(j) = R!Network(rdata[n])
    BY <1>2, <1>3 DEF R!Networks
  <2>2. HasKey(R!Network(rdata[n]))
    BY <2>1 DEF Stored
  <2> QED BY <2>1, <2>2
<1>4. ASSUME HasKey(Prefix(j)) PROVE Prefix(j) \in R!Networks
  <2>1. PICK k \in 1..Len(rcdb) : rcdb[k].key = Prefix(j)
    BY <1>4 DEF HasKey, Keyed
  <2>2. PICK n : \/ TextAt(n) /\ rcdb[k] = TextPair(rdata[n])
                 \/ NetAt(n) /\ rcdb[k] = NetPair(rdata[n])
    BY DEF Stored
  <2>3. CASE TextAt(n) /\ rcdb[k] = TextPair(rdata[n])
    <3>1. Prefix(j) = R!TextKey
      BY <2>1, <2>3 DEF TextPair
    <3>2. Prefix(j).bits = R!Width - j /\ R!TextKey.bits = -1
      BY DEF Prefix, R!TextKey
    <3>3. R!Width - j # -1
      BY Sizes
    <3> QED BY <3>1, <3>2, <3>3
  <2>4. CASE NetAt(n) /\ rcdb[k] = NetPair(rdata[n])
    <3>1. Prefix(j) = R!Network(rdata[n])
      BY <2>1, <2>4 DEF NetPair
    <3> QED BY <1>2, <2>4, <3>1 DEF R!Networks
  <2> QED BY <2>2, <2>3, <2>4
<1> QED BY <1>3, <1>4

LEMMA CoversIs ==
  ASSUME R!RblBounds, RblTypes, NEW e \in R!Networks
  PROVE  R!Covers(e, R!AddressOf(rq)) <=> \E j \in 0..MaxShift : e = Prefix(j)
<1>1. PICK n \in 1..Len(rdata) : rdata[n].c = "0" /\ e = R!Network(rdata[n])
  BY DEF R!Networks
<1>2. rdata[n] \in RblLine /\ R!Width \in Nat /\ MaxShift \in 0..R!Width
  BY Sizes DEF RblTypes
<1>3. rdata[n].bits \in Nat
  BY <1>1, <1>2, Sizes
<1> DEFINE b == IF rdata[n].bits > R!Width THEN R!Width ELSE rdata[n].bits
<1>4. e = [ip |-> R!Joined(rdata[n].octets), bits |-> b] /\ b \in 0..R!Width
  BY <1>1, <1>2, <1>3 DEF R!Network
<1> HIDE DEF b
<1>5. e.bits = b /\ e = [ip |-> e.ip, bits |-> b]
  BY <1>4
<1>6. ASSUME R!Covers(e, R!AddressOf(rq)) PROVE \E j \in 0..MaxShift : e = Prefix(j)
  <2>1. b >= R!Width - MaxShift /\ R!Cleared(R!AddressOf(rq), R!Width - b) = e.ip
    BY <1>5, <1>6 DEF R!Covers
  <2>2. R!Width - b \in 0..MaxShift /\ R!Width - (R!Width - b) = b
    BY <1>2, <1>4, <2>1
  <2>3. e = Prefix(R!Width - b)
    BY <1>5, <2>1, <2>2 DEF Prefix
  <2> QED BY <2>2, <2>3
<1>7. ASSUME NEW j \in 0..MaxShift, e = Prefix(j) PROVE R!Covers(e, R!AddressOf(rq))
  <2>1. e.ip = R!Cleared(R!AddressOf(rq), j) /\ e.bits = R!Width - j
    BY <1>7 DEF Prefix
  <2>2. R!Width - e.bits = j /\ e.bits >= R!Width - MaxShift
    BY <1>2, <2>1
  <2> QED BY <2>1, <2>2 DEF R!Covers
<1> QED BY <1>6, <1>7

LEMMA ListedHolds ==
  ASSUME R!RblBounds, RblInv
  PROVE  R!ListedRight
<1>1. ASSUME rreply.kind \in {"listed", "nxdomain"}
      PROVE  /\ rpc = "idle" /\ RblTypes /\ Stored
             /\ \A j \in 0..MaxShift : HasKey(Prefix(j)) <=> Prefix(j) \in R!Networks
  <2>1. rpc = "idle" /\ RblTypes /\ Stored
    BY <1>1 DEF RblInv, Said
  <2> QED BY <2>1, NetworkIs
<1>2. ASSUME rreply.kind = "listed" PROVE \E e \in R!Networks : R!Covers(e, R!AddressOf(rq))
  <2>1. PICK j \in 0..MaxShift : HasKey(Prefix(j))
    BY <1>2 DEF RblInv, Said
  <2>2. Prefix(j) \in R!Networks
    BY <1>1, <1>2, <2>1
  <2> HIDE DEF Prefix
  <2>3. R!Covers(Prefix(j), R!AddressOf(rq))
    BY <1>1, <1>2, <2>2, CoversIs
  <2> QED BY <2>2, <2>3
<1>3. ASSUME rreply.kind = "nxdomain", NEW e \in R!Networks, R!Covers(e, R!AddressOf(rq)) PROVE FALSE
  <2>1. PICK j \in 0..MaxShift : e = Prefix(j)
    BY <1>1, <1>3, CoversIs
  <2>2. HasKey(Prefix(j))
    BY <1>1, <1>3, <2>1
  <2> QED BY <1>3, <2>2 DEF RblInv, Said
<1> QED BY <1>2, <1>3 DEF R!ListedRight

(* Whole octets of the name are the front of the address.                  *)
LEMMA OctetsCover ==
  ASSUME R!RblBounds, RblTypes, AllDigits(rq), NEW n \in 1..Len(rdata), rdata[n].c = "0",
         rdata[n].bits = Len(rdata[n].octets) * Bits, rdata[n].bits >= R!Width - MaxShift,
         \A m \in 1..Len(rdata[n].octets) : Value[rq[Octets + 1 - m]] = rdata[n].octets[m]
  PROVE  R!Covers(R!Network(rdata[n]), R!AddressOf(rq))
<1> DEFINE given == rdata[n].octets
           L == Len(given)
           asks == [m \in 1..Octets |-> Value[rq[Octets + 1 - m]]]
           left == R!Width - R!Network(rdata[n]).bits
<1>1. /\ Octets \in Nat /\ Bits \in Nat \ {0} /\ R!Width = Octets * Bits /\ R!Width \in Nat
      /\ MaxShift \in 0..R!Width
  BY Sizes
<1>2. given \in Seq(R!Octet) /\ L \in Nat /\ L * Bits \in Nat
  <2>1. rdata[n] \in RblLine
    BY DEF RblTypes
  <2>2. given \in Seq(R!Octet)
    BY <2>1, Sizes
  <2> QED BY <1>1, <2>2
<1>3. R!Network(rdata[n]).ip = R!Joined(given) /\ R!Network(rdata[n]).bits = IF L * Bits > R!Width THEN R!Width ELSE L * Bits
  BY DEF R!Network
<1>4. R!Network(rdata[n]).bits >= R!Width - MaxShift
  BY <1>1, <1>2, <1>3
<1>5. Len(asks) = Octets /\ \A m \in 1..Octets : asks[m] = Value[rq[Octets + 1 - m]]
  BY <1>1
<1>6. \A m \in 1..Octets : m <= L => asks[m] = given[m]
  <2> TAKE m \in 1..Octets
  <2> HAVE m <= L
  <2>1. m \in 1..L
    BY <1>1, <1>2
  <2> QED BY <1>5, <2>1
<1>7. R!AddressOf(rq) = R!Joined(asks)
  BY DEF R!AddressOf
<1>8. left \in Nat /\ \A k \in 1..R!Width : k > R!Width - left <=> k > L * Bits
  <2> DEFINE b == R!Network(rdata[n]).bits
             u == L * Bits
  <2>1. u \in Nat /\ b = IF u > R!Width THEN R!Width ELSE u
    BY <1>2, <1>3
  <2> HIDE DEF b, u
  <2>2. R!Width - b \in Nat /\ \A k \in 1..R!Width : k > R!Width - (R!Width - b) <=> k > u
    BY <1>1, <2>1
  <2> QED BY <2>2 DEF b, u
<1> HIDE DEF asks, given, L, left
<1>9. ASSUME NEW k \in 1..R!Width
      PROVE  R!Cleared(R!AddressOf(rq), left)[k] = R!Joined(given)[k]
  <2> DEFINE o == (k - 1) \div Bits + 1
  <2>1. k \in Nat \ {0} /\ k <= Octets * Bits
    BY <1>1
  <2>2. o \in Nat \ {0} /\ (o <= Octets <=> k <= Octets * Bits) /\ (o <= L <=> k <= L * Bits)
    BY <1>1, <1>2, <2>1, OctetOf
  <2>3. R!Joined(given)[k] = IF o > L THEN 0 ELSE given[o][k - (o - 1) * Bits]
    BY DEF R!Joined, L
  <2>4. R!AddressOf(rq)[k] = IF o > Octets THEN 0 ELSE asks[o][k - (o - 1) * Bits]
    BY <1>5, <1>7 DEF R!Joined
  <2>5. R!Cleared(R!AddressOf(rq), left)[k] = IF k > L * Bits THEN 0 ELSE R!AddressOf(rq)[k]
    BY <1>8 DEF R!Cleared
  <2> HIDE DEF o
  <2>6. CASE k > L * Bits
    BY <1>2, <2>2, <2>3, <2>5, <2>6
  <2>7. CASE ~(k > L * Bits)
    <3>1. o \in 1..Octets /\ o <= L
      BY <1>1, <1>2, <2>1, <2>2, <2>7
    <3>2. asks[o] = given[o]
      BY <1>6, <3>1
    <3>3. ~(o > L) /\ ~(o > Octets)
      BY <1>1, <1>2, <3>1
    <3> QED BY <2>3, <2>4, <2>5, <2>7, <3>2, <3>3
  <2> QED BY <2>6, <2>7
<1>10. R!Cleared(R!AddressOf(rq), left) = R!Joined(given)
  BY <1>9, Zenon DEF R!Cleared, R!Joined
<1> QED BY <1>3, <1>4, <1>10 DEF R!Covers, left

LEMMA OctetsHold ==
  ASSUME R!RblBounds, RblInv
  PROVE  R!OctetsFound
<1>1. SUFFICES ASSUME rreply.kind = "nxdomain", NEW n \in 1..Len(rdata), rdata[n].c = "0",
                      rdata[n].bits = Len(rdata[n].octets) * Bits, rdata[n].bits >= R!Width - MaxShift,
                      \A m \in 1..Len(rdata[n].octets) : Value[rq[Octets + 1 - m]] = rdata[n].octets[m]
               PROVE  FALSE
  BY Zenon DEF R!OctetsFound
<1>2. RblTypes /\ AllDigits(rq)
  BY <1>1 DEF RblInv, Said
<1>3. R!Covers(R!Network(rdata[n]), R!AddressOf(rq))
  BY <1>1, <1>2, OctetsCover
<1>4. R!Network(rdata[n]) \in R!Networks
  BY <1>1 DEF R!Networks
<1> QED BY <1>1, <1>3, <1>4, ListedHolds DEF R!ListedRight

(* The text of the reply is the first one of the file.                     *)
LEMMA ToldIs ==
  ASSUME R!RblBounds, RblInv, rpc = "idle"
  PROVE  LET texts == {n \in 1..Len(rdata) : rdata[n].c = ":"}
         IN R!Told.text = IF texts = {} THEN <<"Listed", "$">>
                          ELSE rdata[CHOOSE n \in texts : \A m \in texts : n <= m].text
<1> DEFINE texts == {n \in 1..Len(rdata) : rdata[n].c = ":"}
           n1 == CHOOSE n \in texts : \A m \in texts : n <= m
           keys == R!Matches(R!TextKey)
           k1 == CHOOSE n \in keys : \A m \in keys : n <= m
<1>1. RblTypes /\ Stored /\ FirstText /\ rlinenum - 1 = Len(rdata) /\ rdata \in Seq(RblLine)
  BY DEF RblInv, RblTypes
<1>2. \A n : TextAt(n) <=> n \in texts
  BY <1>1 DEF TextAt
<1>3. \A k : Keyed(k, R!TextKey) <=> k \in keys
  BY DEF Keyed, R!Matches
<1>4. CASE texts = {}
  <2>1. keys = {}
    <3>1. ASSUME NEW k \in keys PROVE FALSE
      <4>1. k \in 1..Len(rcdb) /\ rcdb[k].key = R!TextKey
        BY <1>3 DEF Keyed
      <4>2. PICK n : NetAt(n) /\ rcdb[k] = NetPair(rdata[n])
        BY <1>1, <1>2, <1>4, <4>1 DEF Stored
      <4>3. rdata[n] \in RblLine /\ rdata[n].c = "0" /\ R!TextKey = R!Network(rdata[n])
        BY <1>1, <4>1, <4>2 DEF NetAt, NetPair
      <4> QED BY <4>3, KeysDiffer
    <3> QED BY <3>1
  <2>2. R!Told.text = <<"Listed", "$">>
    BY <2>1 DEF R!Told
  <2> QED BY <1>4, <2>2
<1>5. CASE texts # {}
  <2>1. PICK k, n : FirstTextAt(k, n)
    BY <1>1, <1>2, <1>5 DEF FirstText
  <2>2. /\ k \in keys /\ n \in texts /\ rcdb[k].text = rdata[n].text
        /\ \A m \in 1..k - 1 : m \notin keys
        /\ \A m \in 1..n - 1 : m \notin texts
    BY <1>2, <1>3, <2>1 DEF FirstTextAt
  <2>3. /\ keys \subseteq Nat \ {0} /\ texts \subseteq Nat \ {0}
    BY <1>1 DEF R!Matches
  <2> HIDE DEF keys, texts
  <2>4. (\A m \in keys : k <= m) /\ (\A m \in texts : n <= m)
    <3>1. k \in Nat /\ n \in Nat
      BY <2>2, <2>3
    <3>2. ASSUME NEW m \in keys PROVE k <= m
      <4>1. m \in Nat \ {0} /\ m \notin 1..k - 1
        BY <2>2, <2>3, <3>2
      <4> QED BY <3>1, <4>1
    <3>3. ASSUME NEW m \in texts PROVE n <= m
      <4>1. m \in Nat \ {0} /\ m \notin 1..n - 1
        BY <2>2, <2>3, <3>3
      <4> QED BY <3>1, <4>1
    <3> QED BY <3>2, <3>3
  <2>5. n1 = n
    <3>1. \E a \in texts : \A m \in texts : a <= m
      BY <2>2, <2>4
    <3>2. n1 \in texts /\ \A m \in texts : n1 <= m
      BY <3>1
    <3> HIDE DEF n1
    <3>3. n1 <= n /\ n <= n1
      BY <2>2, <2>4, <3>2
    <3> QED BY <2>2, <2>3, <3>2, <3>3
  <2>6. k1 = k
    <3>1. \E a \in keys : \A m \in keys : a <= m
      BY <2>2, <2>4
    <3>2. k1 \in keys /\ \A m \in keys : k1 <= m
      BY <3>1
    <3> HIDE DEF k1
    <3>3. k1 <= k /\ k <= k1
      BY <2>2, <2>4, <3>2
    <3> QED BY <2>2, <2>3, <3>2, <3>3
  <2>7. R!Told = rcdb[k1]
    BY <2>2, Zenon DEF R!Told, keys
  <2> HIDE DEF k1, n1
  <2>8. R!Told.text = rdata[n1].text
    BY <2>2, <2>5, <2>6, <2>7
  <2> QED BY <1>5, <2>8 DEF n1, texts
<1> QED BY <1>4, <1>5

LEMMA TextHolds ==
  ASSUME R!RblBounds, RblInv
  PROVE  R!TextRight
<1> DEFINE texts == {n \in 1..Len(rdata) : rdata[n].c = ":"}
           first == IF texts = {} THEN <<"Listed", "$">>
                    ELSE rdata[CHOOSE n \in texts : \A m \in texts : n <= m].text
           text == R!Cut(first)
<1>1. ASSUME rreply.kind = "listed", rtype # "A"
      PROVE  \/ rreply.text = text /\ (text = <<>> \/ text[Len(text)] # "$")
             \/ /\ text # <<>> /\ text[Len(text)] = "$"
                /\ rreply.text = SubSeq(text, 1, Len(text) - 1) \o R!Reverse(SubSeq(rq, 1, Octets))
  <2>1. rpc = "idle" /\ rreply.text = R!Filled(R!Cut(R!Told.text))
    BY <1>1 DEF RblInv, Said
  <2>2. R!Told.text = first
    BY <2>1, ToldIs
  <2> HIDE DEF first
  <2>3. rreply.text = R!Filled(text)
    BY <2>1, <2>2
  <2> HIDE DEF text
  <2> QED BY <2>3 DEF R!Filled
<1> QED BY <1>1, Zenon DEF R!TextRight

LEMMA RblSays ==
  ASSUME R!RblBounds, RblInv
  PROVE  R!TypeOK /\ R!ListedRight /\ R!OctetsFound /\ R!TextRight
<1>1. R!TypeOK
  <2>1. RblTypes /\ Len(rdata) \in Nat
    BY DEF RblInv, RblTypes
  <2> QED BY <2>1 DEF RblTypes, R!TypeOK
<1> QED BY <1>1, ListedHolds, OctetsHold, TextHolds
-----------------------------------------------------------------------------
(* pickdns-data.c, pickdns.c and dns_sortip.c                              *)
LEMMA SameCount == \A S : P!Cardinality(S) = Cardinality(S)
  BY Zenon DEF P!Cardinality, Cardinality


(* A set of numbers that is not empty has a least one.                     *)
LEMMA LeastNatural ==
  ASSUME NEW S \in SUBSET Nat, S # {}
  PROVE  \E h \in S : \A m \in S : h <= m
<1> DEFINE less == OpToRel(<, Nat)
<1>1. \E h \in S : \A m \in S : ~(<<m, h>> \in less)
  BY NatLessThanWellFounded, WFMin
<1>2. less = {s \in Nat \X Nat : s[1] < s[2]}
  BY Zenon DEF OpToRel
<1>3. \A m, h \in Nat : m < h => <<m, h>> \in less
  <2> HIDE DEF less
  <2> QED  BY <1>2
<1> HIDE DEF less
<1>4. PICK h \in S : \A m \in S : ~(<<m, h>> \in less)
  BY <1>1
<1>5. \A m \in S : ~(m < h)
  BY <1>3, <1>4, Zenon
<1> QED BY <1>5

(* Addresses are ordered as address_diff orders them, up to equal ones.    *)
LEMMA LessOrders ==
  ASSUME NEW a \in P!Address, NEW b \in P!Address, NEW c \in P!Address
  PROVE  /\ ~P!Less(a, a)
         /\ P!Less(a, b) => ~P!Less(b, a)
         /\ ~P!Less(a, b) /\ ~P!Less(b, c) => ~P!Less(a, c)
         /\ P!Less(a, b) /\ P!Less(b, c) => P!Less(a, c)
         /\ ~P!Less(a, b) /\ ~P!Less(b, a) => a.location = b.location /\ a.name = b.name
         /\ a.location = b.location /\ a.name = b.name => ~P!Less(a, b)
<1> DEFINE a1 == a.location b1 == b.location c1 == c.location
           a2 == a.name[1] b2 == b.name[1] c2 == c.name[1]
           a3 == a.name[2] b3 == b.name[2] c3 == c.name[2]
<1>1. a1 \in Nat /\ b1 \in Nat /\ c1 \in Nat /\ a2 \in Nat /\ b2 \in Nat /\ c2 \in Nat /\ a3 \in Nat /\ b3 \in Nat /\ c3 \in Nat
  BY DEF P!Address
<1>2. a.name = b.name <=> a2 = b2 /\ a3 = b3
  BY DEF P!Address
<1> QED BY <1>1, <1>2, SMTT(30) DEF P!Less

SwapOf(u, s, N, a, b) == \A m \in 1..N : u[m] = IF m = b THEN s[a] ELSE IF m = a THEN s[b] ELSE s[m]
With(us, xs, k, a) == us = [xs EXCEPT ![k] = a]

(* A swap changes the places of elements and not their number.             *)
LEMMA Swapped ==
  ASSUME NEW N \in Nat, NEW s, DOMAIN s = 1..N, NEW a \in 1..N, NEW b \in 1..N, NEW e, NEW u, DOMAIN u = 1..N,
         SwapOf(u, s, N, a, b)
  PROVE  Cardinality(P!Indices(u, e)) = Cardinality(P!Indices(s, e))
<1> DEFINE S == P!Indices(s, e)
           U == P!Indices(u, e)
           to == [m \in S |-> IF m = a THEN b ELSE IF m = b THEN a ELSE m]
<1>1. \A m \in 1..N : u[m] = IF m = b THEN s[a] ELSE IF m = a THEN s[b] ELSE s[m]
  BY DEF SwapOf
<1>3. to \in Bijection(S, U)
  <2>0. S = {m \in 1..N : s[m] = e} /\ U = {m \in 1..N : u[m] = e}
    BY DEF P!Indices
  <2>a. \A m \in 1..N : m \in S <=> s[m] = e
    BY <2>0
  <2>b. \A m \in 1..N : m \in U <=> u[m] = e
    BY <2>0
  <2>c. S \subseteq 1..N /\ U \subseteq 1..N
    BY <2>0
  <2> HIDE DEF S, U
  <2>1. \A m \in S : to[m] \in U
    BY <1>1, <2>a, <2>b, <2>c
  <2>2. \A m, k \in S : to[m] = to[k] => m = k
    BY <2>c
  <2>3. ASSUME NEW m \in U PROVE \E k \in S : to[k] = m
    <3> DEFINE k == IF m = a THEN b ELSE IF m = b THEN a ELSE m
    <3>1. k \in S
      BY <1>1, <2>a, <2>b, <2>c
    <3>2. to[k] = m
      BY <3>1
    <3> QED BY <3>1, <3>2
  <2>4. to \in [S -> U]
    BY <2>1
  <2> HIDE DEF to
  <2> QED BY <2>2, <2>3, <2>4, Fun_IsBij
<1>4. IsFiniteSet(S)
  BY 1 \in Int, N \in Int, FS_Interval, FS_Subset, S \subseteq 1..N DEF P!Indices
<1> QED BY <1>3, <1>4, FS_Bijection DEF ExistsBijection

-----------------------------------------------------------------------------
(* The heap: parents from b on are no less than their children.            *)
Heap(xs, h, b) == \A m \in 2..h : m \div 2 >= b => ~P!Less(xs[m \div 2], xs[m])
Ordered(xs, h) == \A m \in h + 1..Len(xs) : \A k \in 1..m : ~P!Less(xs[m], xs[k])
Above(xs, h, a) == \A m \in h + 1..Len(xs) : ~P!Less(xs[m], a)
KidsBelow(xs, h, k, a) == \A m \in 2..h : m \div 2 = k => ~P!Less(a, xs[m])

(* k is reached from b by going to children.                               *)
Under(k, b) == \A S \in SUBSET Nat : b \in S /\ (\A m \in S : 2 * m \in S /\ 2 * m + 1 \in S) => k \in S

LEMMA UnderSelf == ASSUME NEW b PROVE Under(b, b)
BY DEF Under

LEMMA UnderChild ==
  ASSUME NEW k \in Nat, NEW b \in Nat, Under(k, b)
  PROVE  Under(2 * k, b) /\ Under(2 * k + 1, b)
BY DEF Under

LEMMA UnderParent ==
  ASSUME NEW k \in Nat, NEW b \in Nat, k >= 1, b >= 1, k # b, Under(k, b)
  PROVE  k \div 2 >= b /\ Under(k \div 2, b)
<1>1. k \div 2 >= b
  <2> DEFINE S == {m \in Nat : m = b \/ m \div 2 >= b}
  <2>1. S \in SUBSET Nat /\ b \in S
    OBVIOUS
  <2>2. ASSUME NEW m \in S PROVE 2 * m \in S /\ 2 * m + 1 \in S
    <3>1. m \in Nat /\ m >= b
      OBVIOUS
    <3>2. (2 * m) \div 2 = m /\ (2 * m + 1) \div 2 = m /\ 2 * m \in Nat /\ 2 * m + 1 \in Nat
      BY <3>1
    <3> QED BY <3>1, <3>2
  <2>3. k \in S
    <3> HIDE DEF S
    <3> QED BY <2>1, <2>2 DEF Under
  <2> QED BY <2>3
<1>2. Under(k \div 2, b)
  <2> SUFFICES ASSUME NEW S \in SUBSET Nat, b \in S, \A m \in S : 2 * m \in S /\ 2 * m + 1 \in S, k \div 2 \notin S
               PROVE FALSE
    BY DEF Under
  <2> DEFINE U == S \ {k}
  <2>1. U \in SUBSET Nat /\ b \in U
    OBVIOUS
  <2>2. ASSUME NEW m \in U PROVE 2 * m \in U /\ 2 * m + 1 \in U
    <3>1. m \in Nat /\ m \in S /\ m # k \div 2
      OBVIOUS
    <3>2. 2 * m # k /\ 2 * m + 1 # k
      BY <3>1
    <3> QED BY <3>1, <3>2
  <2>3. k \in U
    <3> HIDE DEF U
    <3> QED BY <2>1, <2>2 DEF Under
  <2> QED BY <2>3
<1> QED BY <1>1, <1>2

(* The first of a heap is the greatest.                                    *)
LEMMA HeapFirst ==
  ASSUME NEW xs \in Seq(P!Address), NEW h \in 1..Len(xs), Heap(xs, h, 1), NEW k \in 1..h
  PROVE  ~P!Less(xs[1], xs[k])
<1> SUFFICES ASSUME P!Less(xs[1], xs[k]) PROVE FALSE
  OBVIOUS
<1> DEFINE S == {m \in Nat : m \in 1..h /\ P!Less(xs[1], xs[m])}
<1>1. S \in SUBSET Nat /\ k \in S
  OBVIOUS
<1>2. PICK m \in S : \A l \in S : m <= l
  <2> HIDE DEF S
  <2> QED BY <1>1, LeastNatural
<1>3. m \in 1..h /\ P!Less(xs[1], xs[m])
  OBVIOUS
<1>4. m # 1
  BY <1>3, LessOrders
<1>5. m \div 2 \in 1..h /\ m \div 2 < m /\ m \in 2..h /\ m \div 2 >= 1
  BY <1>3, <1>4
<1>6. ~P!Less(xs[1], xs[m \div 2])
  BY <1>2, <1>5
<1>7. ~P!Less(xs[m \div 2], xs[m])
  BY <1>5 DEF Heap
<1>8. xs[1] \in P!Address /\ xs[m \div 2] \in P!Address /\ xs[m] \in P!Address
  BY <1>3, <1>5
<1> HIDE DEF S
<1> QED BY <1>3, <1>6, <1>7, <1>8, LessOrders

(* What is done with the hole: the greater child moves into it,            *)
LEMMA HoleDown ==
  ASSUME NEW xs \in Seq(P!Address), NEW h \in 1..Len(xs), NEW b \in Nat, b >= 1, NEW k \in b..h, NEW g \in 1..h,
         g \div 2 = k, KidsBelow(xs, h, k, xs[g]), Heap(xs, h, b + 1), k # b => Heap(xs, h, b)
  PROVE  Heap([xs EXCEPT ![k] = xs[g]], h, b)
<1> DEFINE ys == [xs EXCEPT ![k] = xs[g]]
<1>1. DOMAIN xs = 1..Len(xs) /\ \A m \in 1..h : xs[m] \in P!Address
  OBVIOUS
<1>2. \A m \in 1..h : ys[m] = IF m = k THEN xs[g] ELSE xs[m]
  BY <1>1
<1> HIDE DEF ys
<1> SUFFICES ASSUME NEW m \in 2..h, m \div 2 >= b PROVE ~P!Less(ys[m \div 2], ys[m])
  BY DEF Heap, ys
<1>3. m \div 2 \in 1..h /\ m \in 1..h /\ m \div 2 < m
  OBVIOUS
<1>4. CASE m \div 2 = k
  <2>1. m # k
    BY <1>3, <1>4
  <2> QED BY <1>2, <1>3, <1>4, <2>1 DEF KidsBelow
<1>5. CASE m = k
  <2>1. ys[m \div 2] = xs[k \div 2] /\ ys[m] = xs[g]
    BY <1>2, <1>3, <1>5
  <2>2. k # b /\ k \in 2..h /\ g \in 2..h
    BY <1>3, <1>5
  <2>3. ~P!Less(xs[k \div 2], xs[k])
    BY <1>5, <2>2 DEF Heap
  <2>4. ~P!Less(xs[k], xs[g])
    BY <2>2 DEF Heap
  <2>5. xs[k \div 2] \in P!Address /\ xs[k] \in P!Address /\ xs[g] \in P!Address
    BY <1>1, <1>3, <1>5
  <2> QED BY <2>1, <2>3, <2>4, <2>5, LessOrders
<1>6. CASE m # k /\ m \div 2 # k
  <2>1. ys[m \div 2] = xs[m \div 2] /\ ys[m] = xs[m]
    BY <1>2, <1>3, <1>6
  <2>2. m \div 2 >= b + 1 \/ k # b
    BY <1>6
  <2> QED BY <2>1, <2>2 DEF Heap
<1> QED BY <1>4, <1>5, <1>6

(* its parent moves into it,                                               *)
LEMMA HoleUp ==
  ASSUME NEW xs \in Seq(P!Address), NEW h \in 1..Len(xs), NEW b \in Nat, b >= 1, NEW k \in b..h, k \div 2 >= b,
         Heap(xs, h, b), NEW a \in P!Address, NEW p, p = k \div 2, P!Less(xs[p], a),
         NEW ys, With(ys, xs, k, xs[p])
  PROVE  Heap(ys, h, b) /\ KidsBelow(ys, h, p, a)
<1>1. DOMAIN xs = 1..Len(xs) /\ \A m \in 1..h : xs[m] \in P!Address
  OBVIOUS
<1>2. \A m \in 1..h : ys[m] = IF m = k THEN xs[p] ELSE xs[m]
  BY <1>1 DEF With
<1>p. p \in 1..h /\ p < k /\ k \in 2..h
  OBVIOUS
<1>3. Heap(ys, h, b)
  <2> SUFFICES ASSUME NEW m \in 2..h, m \div 2 >= b PROVE ~P!Less(ys[m \div 2], ys[m])
    BY DEF Heap
  <2>3. m \div 2 \in 1..h /\ m \in 1..h /\ m \div 2 < m
    OBVIOUS
  <2>4. CASE m \div 2 = k
    <3>1. m # k
      BY <2>3, <2>4
    <3>2. ys[m \div 2] = xs[p] /\ ys[m] = xs[m]
      BY <1>2, <2>3, <2>4, <3>1
    <3>3. ~P!Less(xs[p], xs[k]) /\ ~P!Less(xs[k], xs[m])
      BY <2>4, <1>p DEF Heap
    <3>4. xs[p] \in P!Address /\ xs[k] \in P!Address /\ xs[m] \in P!Address
      BY <1>1, <1>p, <2>3
    <3> QED BY <3>2, <3>3, <3>4, LessOrders
  <2>5. CASE m = k
    <3>1. ys[m \div 2] = xs[p] /\ ys[m] = xs[p]
      BY <1>2, <2>3, <2>5
    <3>2. xs[p] \in P!Address
      BY <1>1, <1>p
    <3> QED BY <3>1, <3>2, LessOrders
  <2>6. CASE m # k /\ m \div 2 # k
    BY <1>2, <2>3, <2>6 DEF Heap
  <2> QED BY <2>4, <2>5, <2>6
<1>4. KidsBelow(ys, h, p, a)
  <2> SUFFICES ASSUME NEW m \in 2..h, m \div 2 = p PROVE ~P!Less(a, ys[m])
    BY DEF KidsBelow
  <2>1. xs[p] \in P!Address /\ xs[m] \in P!Address
    BY <1>1, <1>p
  <2>2. CASE m = k
    <3>1. ys[m] = xs[p]
      BY <1>2, <2>2
    <3> QED BY <2>1, <3>1, LessOrders
  <2>3. CASE m # k
    <3>1. ys[m] = xs[m]
      BY <1>2, <2>3
    <3>2. ~P!Less(xs[p], xs[m])
      BY DEF Heap
    <3>3. ~P!Less(a, xs[p])
      BY <2>1, LessOrders
    <3> QED BY <2>1, <3>1, <3>2, <3>3, LessOrders
  <2> QED BY <2>2, <2>3
<1> QED BY <1>3, <1>4

(* and what was taken out is put there.                                    *)
LEMMA HoleFilled ==
  ASSUME NEW xs \in Seq(P!Address), NEW h \in 1..Len(xs), NEW b \in Nat, b >= 1, NEW k \in b..h, NEW a \in P!Address,
         KidsBelow(xs, h, k, a), Heap(xs, h, b + 1), k # b => Heap(xs, h, b) /\ ~P!Less(xs[k \div 2], a)
  PROVE  Heap([xs EXCEPT ![k] = a], h, b)
<1> DEFINE ys == [xs EXCEPT ![k] = a]
<1>2. \A m \in 1..h : ys[m] = IF m = k THEN a ELSE xs[m]
  OBVIOUS
<1> HIDE DEF ys
<1> SUFFICES ASSUME NEW m \in 2..h, m \div 2 >= b PROVE ~P!Less(ys[m \div 2], ys[m])
  BY DEF Heap, ys
<1>3. m \div 2 \in 1..h /\ m \in 1..h /\ m \div 2 < m
  OBVIOUS
<1>4. CASE m \div 2 = k
  <2>1. m # k
    BY <1>3, <1>4
  <2> QED BY <1>2, <1>3, <1>4, <2>1 DEF KidsBelow
<1>5. CASE m = k
  <2>1. k # b
    BY <1>3, <1>5
  <2>2. ys[m \div 2] = xs[k \div 2] /\ ys[m] = a
    BY <1>2, <1>3, <1>5
  <2> QED BY <2>1, <2>2
<1>6. CASE m # k /\ m \div 2 # k
  <2>1. ys[m \div 2] = xs[m \div 2] /\ ys[m] = xs[m]
    BY <1>2, <1>3, <1>6
  <2>2. m \div 2 >= b + 1 \/ k # b
    BY <1>6
  <2> QED BY <2>1, <2>2 DEF Heap
<1> QED BY <1>4, <1>5, <1>6

(* Behind the heap all stays in order.                                     *)
LEMMA BehindHeap ==
  ASSUME NEW xs \in Seq(P!Address), NEW h \in 1..Len(xs), NEW k \in 1..h, NEW a \in P!Address, NEW c \in P!Address,
         Ordered(xs, h), Above(xs, h, a), Above(xs, h, c)
  PROVE  /\ [xs EXCEPT ![k] = a] \in Seq(P!Address) /\ Len([xs EXCEPT ![k] = a]) = Len(xs)
         /\ Ordered([xs EXCEPT ![k] = a], h) /\ Above([xs EXCEPT ![k] = a], h, c)
<1> DEFINE ys == [xs EXCEPT ![k] = a]
<1>1. ys \in Seq(P!Address) /\ Len(ys) = Len(xs)
  BY ExceptSeq
<1>2. \A m \in 1..Len(xs) : ys[m] = IF m = k THEN a ELSE xs[m]
  OBVIOUS
<1>3. \A m \in h + 1..Len(xs) : m # k /\ m \in 1..Len(xs) /\ \A l \in 1..m : l \in 1..Len(xs)
  OBVIOUS
<1> HIDE DEF ys
<1>4. Ordered(ys, h)
  BY <1>1, <1>2, <1>3 DEF Ordered, Above
<1>5. Above(ys, h, c)
  BY <1>1, <1>2, <1>3 DEF Above
<1> QED BY <1>1, <1>4, <1>5 DEF ys

(* When the hole moves from k to g, and what was taken out is thought to   *)
(* be in it, this is a swap.                                               *)
LEMMA HoleMoves ==
  ASSUME NEW xs \in Seq(P!Address), NEW k \in 1..Len(xs), NEW g \in 1..Len(xs), NEW a, NEW e,
         NEW us, With(us, xs, k, a), NEW vs, With(vs, xs, k, xs[g]), NEW ws, With(ws, vs, g, a)
  PROVE  Cardinality(P!Indices(ws, e)) = Cardinality(P!Indices(us, e))
<1>1. DOMAIN xs = 1..Len(xs) /\ Len(xs) \in Nat
  OBVIOUS
<1>2. DOMAIN us = 1..Len(xs) /\ \A m \in 1..Len(xs) : us[m] = IF m = k THEN a ELSE xs[m]
  BY <1>1 DEF With
<1>3. DOMAIN vs = 1..Len(xs) /\ \A m \in 1..Len(xs) : vs[m] = IF m = k THEN xs[g] ELSE xs[m]
  BY <1>1 DEF With
<1>4. DOMAIN ws = 1..Len(xs) /\ \A m \in 1..Len(xs) : ws[m] = IF m = g THEN a ELSE vs[m]
  BY <1>1, <1>3 DEF With
<1>5. SwapOf(ws, us, Len(xs), k, g)
  BY <1>2, <1>3, <1>4 DEF SwapOf
<1>6. Cardinality(P!Indices(ws, e)) = Cardinality(P!Indices(us, e))
  BY <1>1, <1>2, <1>4, <1>5, Swapped
<1> QED BY <1>6

-----------------------------------------------------------------------------
LinesRead(a) == {m \in 1..plinenum - 1 : pdata[m].c = "+" /\ pdata[m].address = a}
Held == IF ppc \in {"down", "up"} THEN [px EXCEPT ![pq] = pt] ELSE px
Counted == \A a : Cardinality(P!Indices(Held, a)) = Cardinality(LinesRead(a))

SortTypes ==
  /\ pdata \in Seq(PickLine) /\ plinenum \in 1..Len(pdata) + 1 /\ px \in Seq(P!Address) /\ pt \in P!Address
  /\ pi \in 0..Len(px) /\ pj \in 0..Len(px) /\ pq \in 0..Len(px)
  /\ ppc \in {"reading", "died", "sort", "down", "up", "group", "idle", "sortip"}
  /\ ppc \notin {"reading", "died"} => plinenum = Len(pdata) + 1

HeapInv ==
  /\ ppc = "sort" =>
       /\ \/ Len(px) = 0 /\ pj = 0
          \/ pj \in 1..Len(px) /\ pi \in 1..pj
       /\ Heap(px, pj, pi) /\ Ordered(px, pj)
  /\ ppc \in {"down", "up"} =>
       /\ pj \in 1..Len(px) /\ pi \in 1..pj /\ pq \in pi..pj /\ Under(pq, pi)
       /\ Ordered(px, pj) /\ Above(px, pj, pt)
       /\ Heap(px, pj, pi + 1) /\ (pq # pi => Heap(px, pj, pi))
  /\ ppc = "up" => KidsBelow(px, pj, pq, pt)
  /\ ppc \in {"group", "idle", "sortip"} => Ordered(px, 0)

SortInv == SortTypes /\ HeapInv /\ Counted

(* A step that only turns to something else.                               *)
LEMMA CountedSame ==
  ASSUME Counted, pdata' = pdata, plinenum' = plinenum, Held' = Held
  PROVE  Counted'
<1>1. \A a : LinesRead(a)' = LinesRead(a)
  BY DEF LinesRead
<1> QED BY <1>1, Zenon DEF Counted

LEMMA SortDown ==
  ASSUME SortInv, P!Down
  PROVE  SortInv'
<1>1. /\ ppc = "down" /\ ppc' \in {"down", "up"} /\ pj' = pj /\ pi' = pi /\ pt' = pt /\ pdata' = pdata /\ plinenum' = plinenum
      /\ px \in Seq(P!Address) /\ pj \in 1..Len(px) /\ pi \in 1..pj /\ pq \in pi..pj /\ Under(pq, pi)
      /\ Ordered(px, pj) /\ Above(px, pj, pt) /\ Heap(px, pj, pi + 1) /\ (pq # pi => Heap(px, pj, pi)) /\ pt \in P!Address
      /\ pdata \in Seq(PickLine) /\ plinenum \in 1..Len(pdata) + 1 /\ plinenum = Len(pdata) + 1
  BY DEF P!Down, SortInv, SortTypes, HeapInv
<1>2. ASSUME NEW g \in 1..pj, g \div 2 = pq, KidsBelow(px, pj, pq, px[g]), px' = [px EXCEPT ![pq] = px[g]], pq' = g,
             ppc' = "up" => KidsBelow(px', pj, g, pt)
      PROVE  SortInv'
  <2>0. Len(px) \in Nat /\ pq \in 1..pj /\ pq \in 1..Len(px) /\ g \in 1..Len(px) /\ pi \in Nat /\ pi >= 1 /\ g # pq /\ g > pq /\ px[g] \in P!Address
    BY <1>1, <1>2
  <2>1. Heap(px', pj, pi)
    BY <1>1, <1>2, <2>0, HoleDown
  <2>2. Above(px, pj, px[g])
    BY <1>1, <2>0 DEF Ordered, Above
  <2>3. px' \in Seq(P!Address) /\ Len(px') = Len(px) /\ Ordered(px', pj) /\ Above(px', pj, pt)
    <3>1. \A a \in P!Address : Above(px, pj, a) =>
             /\ [px EXCEPT ![pq] = a] \in Seq(P!Address) /\ Len([px EXCEPT ![pq] = a]) = Len(px)
             /\ Ordered([px EXCEPT ![pq] = a], pj) /\ Above([px EXCEPT ![pq] = a], pj, pt)
      BY <1>1, <2>0, BehindHeap, Zenon
    <3> QED BY <1>2, <2>0, <2>2, <3>1, Zenon
  <2>4. Under(g, pi)
    <3>1. g = 2 * pq \/ g = 2 * pq + 1
      BY <1>2, <2>0
    <3>2. pq \in Nat
      BY <2>0
    <3>3. Under(2 * pq, pi) /\ Under(2 * pq + 1, pi)
      BY <1>1, <2>0, <3>2, UnderChild, Zenon
    <3> QED BY <3>1, <3>3, Zenon
  <2>5. g \in pi..pj /\ g # pi
    BY <1>1, <2>0
  <2>6. Heap(px', pj, pi + 1)
    <3>1. ASSUME NEW m \in 2..pj, m \div 2 >= pi + 1
          PROVE  ~P!Less(px'[m \div 2], px'[m])
      <4>1. m \div 2 \in Int
        BY <2>0
      <4>2. m \div 2 >= pi
        BY <2>0, <3>1, <4>1
      <4> QED BY <2>1, <4>2 DEF Heap
    <3> QED BY <3>1 DEF Heap
  <2>7. HeapInv'
    BY <1>1, <1>2, <2>1, <2>3, <2>4, <2>5, <2>6, Zenon DEF HeapInv
  <2>8. SortTypes'
    BY <1>1, <1>2, <2>0, <2>3 DEF SortTypes
  <2>9. Counted'
    <3>1. With(Held, px, pq, pt) /\ With(px', px, pq, px[g]) /\ With(Held', px', g, pt)
      BY <1>1, <1>2, Zenon DEF Held, With
    <3>2. \A a : LinesRead(a)' = LinesRead(a)
      BY <1>1 DEF LinesRead
    <3>3. ASSUME NEW a PROVE Cardinality(P!Indices(Held', a)) = Cardinality(P!Indices(Held, a))
      <4> QED BY <1>1, <2>0, <3>1, HoleMoves
    <3> QED BY <3>2, <3>3, Zenon DEF SortInv, Counted
  <2> QED BY <2>7, <2>8, <2>9 DEF SortInv
<1>3. CASE pq * 2 < pj
  <2> DEFINE g == P!Greater(pq * 2)
  <2>0. pq \in Nat /\ pj \in Nat /\ pq >= 1 /\ pj <= Len(px) /\ Len(px) \in Nat
    BY <1>1
  <2>1. g \in {pq * 2, pq * 2 + 1}
    BY <1>1 DEF P!Greater
  <2>2. g \in 1..pj /\ g \div 2 = pq
    <3> HIDE DEF g
    <3> QED BY <1>3, <2>0, <2>1
  <2>3. KidsBelow(px, pj, pq, px[g])
    <3> SUFFICES ASSUME NEW m \in 2..pj, m \div 2 = pq PROVE ~P!Less(px[g], px[m])
      BY DEF KidsBelow
    <3>1. m = pq * 2 \/ m = pq * 2 + 1
      BY <2>0
    <3>2. pq * 2 \in 1..Len(px) /\ pq * 2 + 1 \in 1..Len(px)
      BY <1>3, <2>0
    <3>3. px[pq * 2] \in P!Address /\ px[pq * 2 + 1] \in P!Address
      BY <1>1, <3>2
    <3>4. \/ P!Less(px[pq * 2 + 1], px[pq * 2]) /\ g = pq * 2
          \/ ~P!Less(px[pq * 2 + 1], px[pq * 2]) /\ g = pq * 2 + 1
      BY DEF P!Greater
    <3> HIDE DEF g
    <3> QED BY <3>1, <3>3, <3>4, LessOrders
  <2>4. px' = [px EXCEPT ![pq] = px[g]] /\ pq' = g /\ ppc' = "down"
    BY <1>1, <1>3 DEF P!Down
  <2> HIDE DEF g
  <2> QED BY <1>2, <2>2, <2>3, <2>4
<1>4. CASE pq * 2 = pj
  <2>0. pq \in Nat /\ pj \in Nat /\ pq >= 1 /\ pj <= Len(px) /\ Len(px) \in Nat
    BY <1>1
  <2>1. px' = [px EXCEPT ![pq] = px[pj]] /\ pq' = pj /\ ppc' = "up"
    BY <2>0, <1>4 DEF P!Down
  <2>2. pj \in 1..pj /\ pj \div 2 = pq /\ px[pj] \in P!Address
    BY <1>1, <2>0, <1>4
  <2>3. KidsBelow(px, pj, pq, px[pj])
    <3>1. \A m \in 2..pj : m \div 2 = pq => m = pj
      BY <2>0, <1>4
    <3> QED BY <3>1, <2>2, LessOrders DEF KidsBelow
  <2>4. KidsBelow(px', pj, pj, pt)
    <3>1. \A m \in 2..pj : m \div 2 # pj
      BY <2>0
    <3> QED BY <3>1 DEF KidsBelow
  <2> QED BY <1>2, <2>1, <2>2, <2>3, <2>4
<1>5. CASE pq * 2 > pj
  <2>0. pq \in Nat /\ pj \in Nat /\ pq >= 1 /\ pj <= Len(px) /\ Len(px) \in Nat
    BY <1>1
  <2>1. px' = px /\ pq' = pq /\ ppc' = "up"
    BY <2>0, <1>5 DEF P!Down
  <2>2. KidsBelow(px, pj, pq, pt)
    <3>1. \A m \in 2..pj : m \div 2 # pq
      BY <2>0, <1>5
    <3> QED BY <3>1 DEF KidsBelow
  <2>3. HeapInv'
    BY <1>1, <2>1, <2>2, Zenon DEF HeapInv
  <2>4. SortTypes'
    BY <1>1, <2>1 DEF SortInv, SortTypes
  <2>5. Held' = Held
    BY <1>1, <2>1, Zenon DEF Held
  <2> QED BY <1>1, <2>3, <2>4, <2>5, CountedSame DEF SortInv
<1> QED BY <1>1, <1>3, <1>4, <1>5

LEMMA SortUp ==
  ASSUME SortInv, P!Up
  PROVE  SortInv'
<1>1. /\ ppc = "up" /\ pj' = pj /\ pi' = pi /\ pt' = pt /\ pdata' = pdata /\ plinenum' = plinenum
      /\ px \in Seq(P!Address) /\ pj \in 1..Len(px) /\ pi \in 1..pj /\ pq \in pi..pj /\ Under(pq, pi)
      /\ Ordered(px, pj) /\ Above(px, pj, pt) /\ Heap(px, pj, pi + 1) /\ (pq # pi => Heap(px, pj, pi)) /\ pt \in P!Address
      /\ KidsBelow(px, pj, pq, pt)
      /\ pdata \in Seq(PickLine) /\ plinenum \in 1..Len(pdata) + 1 /\ plinenum = Len(pdata) + 1
  BY DEF P!Up, SortInv, SortTypes, HeapInv
<1>2. Len(px) \in Nat /\ pq \in 1..pj /\ pq \in 1..Len(px) /\ pi \in Nat /\ pi >= 1 /\ pq \in Nat
  BY <1>1
<1>3. \A a \in P!Address : Above(px, pj, a) =>
         /\ [px EXCEPT ![pq] = a] \in Seq(P!Address) /\ Len([px EXCEPT ![pq] = a]) = Len(px)
         /\ Ordered([px EXCEPT ![pq] = a], pj) /\ Above([px EXCEPT ![pq] = a], pj, pt)
  BY <1>1, <1>2, BehindHeap, Zenon
<1>4. \A a : LinesRead(a)' = LinesRead(a)
  BY <1>1 DEF LinesRead
<1>5. CASE pq > pi /\ P!Less(px[pq \div 2], pt)
  <2> DEFINE p == pq \div 2
  <2>1. px' = [px EXCEPT ![pq] = px[p]] /\ pq' = p /\ ppc' = "up"
    BY <1>1, <1>5 DEF P!Up
  <2>2. p >= pi /\ Under(p, pi)
    BY <1>1, <1>2, <1>5, UnderParent
  <2>3. p \in 1..pj /\ p \in 1..Len(px) /\ p < pq /\ p \in pi..pj /\ px[p] \in P!Address
    BY <1>1, <1>2, <2>2
  <2>4. Heap(px', pj, pi) /\ KidsBelow(px', pj, p, pt)
    <3>1. With(px', px, pq, px[p])
      BY <2>1 DEF With
    <3>2. pq # pi
      BY <1>1, <1>2, <1>5
    <3>3. p = pq \div 2 /\ P!Less(px[p], pt)
      BY <1>5
    <3> HIDE DEF p
    <3> QED BY <1>1, <1>2, <2>2, <3>1, <3>2, <3>3, HoleUp
  <2>5. Above(px, pj, px[p])
    BY <1>1, <2>3 DEF Ordered, Above
  <2> HIDE DEF p
  <2>6. px' \in Seq(P!Address) /\ Len(px') = Len(px) /\ Ordered(px', pj) /\ Above(px', pj, pt)
    BY <1>3, <2>1, <2>3, <2>5, Zenon
  <2>7. Heap(px', pj, pi + 1)
    BY <1>2, <1>1, <2>4 DEF Heap
  <2>8. HeapInv'
    BY <1>1, <2>1, <2>2, <2>3, <2>4, <2>6, <2>7, Zenon DEF HeapInv
  <2>9. SortTypes'
    BY <1>1, <2>1, <2>3, <2>6 DEF SortTypes
  <2>10. Counted'
    <3>1. With(Held, px, pq, pt) /\ With(px', px, pq, px[p]) /\ With(Held', px', p, pt)
      BY <1>1, <2>1, Zenon DEF Held, With
    <3>3. ASSUME NEW a PROVE Cardinality(P!Indices(Held', a)) = Cardinality(P!Indices(Held, a))
      BY <1>1, <1>2, <2>3, <3>1, HoleMoves
    <3> QED BY <1>4, <3>3, Zenon DEF SortInv, Counted
  <2> QED BY <2>8, <2>9, <2>10 DEF SortInv
<1>6. CASE ~(pq > pi /\ P!Less(px[pq \div 2], pt))
  <2>1. px' = [px EXCEPT ![pq] = pt] /\ pq' = pq /\ ppc' = "sort"
    BY <1>1, <1>6 DEF P!Up
  <2>2. pq # pi => ~P!Less(px[pq \div 2], pt)
    BY <1>1, <1>2, <1>6
  <2>3. Heap(px', pj, pi)
    BY <1>1, <1>2, <2>1, <2>2, HoleFilled
  <2>4. px' \in Seq(P!Address) /\ Len(px') = Len(px) /\ Ordered(px', pj)
    BY <1>1, <1>3, <2>1, Zenon
  <2>5. HeapInv'
    BY <1>1, <2>1, <2>3, <2>4, Zenon DEF HeapInv
  <2>6. SortTypes'
    BY <1>1, <1>2, <2>1, <2>4 DEF SortTypes, SortInv
  <2>7. Held' = Held
    BY <1>1, <2>1, Zenon DEF Held
  <2> QED BY <1>1, <2>5, <2>6, <2>7, CountedSame DEF SortInv
<1> QED BY <1>5, <1>6

LEMMA SortOuter ==
  ASSUME SortInv, P!Outer
  PROVE  SortInv'
<1>1. /\ ppc = "sort" /\ ppc' = "down" /\ pj > 1 /\ pq' = pi' /\ pdata' = pdata /\ plinenum' = plinenum
      /\ px \in Seq(P!Address) /\ pj \in 1..Len(px) /\ pi \in 1..pj
      /\ Ordered(px, pj) /\ Heap(px, pj, pi)
      /\ pdata \in Seq(PickLine) /\ plinenum \in 1..Len(pdata) + 1 /\ plinenum = Len(pdata) + 1
  BY DEF P!Outer, SortInv, SortTypes, HeapInv
<1>2. Len(px) \in Nat /\ pi \in Nat /\ pj \in Nat /\ pj <= Len(px) /\ DOMAIN px = 1..Len(px) /\ pi <= pj /\ pi >= 1
  BY <1>1
<1>3. CASE pi > 1
  <2>1. pi' = pi - 1 /\ pt' = px[pi - 1] /\ px' = px /\ pj' = pj
    BY <1>1, <1>3 DEF P!Outer
  <2>2. pi - 1 \in 1..pj /\ pi - 1 \in 1..Len(px) /\ px[pi - 1] \in P!Address /\ (pi - 1) + 1 = pi
    BY <1>1, <1>2, <1>3
  <2>3. Above(px, pj, px[pi - 1])
    BY <1>1, <2>2 DEF Ordered, Above
  <2>4. Under(pi - 1, pi - 1) /\ pi - 1 \in (pi - 1)..pj
    BY <2>2, UnderSelf
  <2>5. HeapInv'
    <3> DEFINE k == pi - 1
    <3>1. pi' = k /\ pt' = px[k] /\ pq' = k /\ k \in 1..pj /\ Above(px, pj, px[k]) /\ Under(k, k) /\ k \in k..pj /\ k + 1 = pi
      BY <1>1, <2>1, <2>2, <2>3, <2>4
    <3> HIDE DEF k
    <3> QED BY <1>1, <2>1, <3>1, Zenon DEF HeapInv
  <2>6. SortTypes'
    BY <1>1, <2>1, <2>2 DEF SortTypes, SortInv
  <2>7. Held' = Held
    <3>1. Held = px /\ Held' = [px EXCEPT ![pi - 1] = px[pi - 1]]
      BY <1>1, <2>1 DEF Held
    <3>2. px = [m \in 1..Len(px) |-> px[m]]
      BY <1>1
    <3>3. [px EXCEPT ![pi - 1] = px[pi - 1]] = px
      BY <2>2, <3>2
    <3> QED BY <3>1, <3>3
  <2> QED BY <1>1, <2>5, <2>6, <2>7, CountedSame DEF SortInv
<1>4. CASE ~(pi > 1)
  <2>0. pi = 1
    BY <1>2, <1>4
  <2>1. pi' = 1 /\ pt' = px[pj] /\ With(px', px, pj, px[1]) /\ pj' = pj - 1 /\ pq' = 1
    BY <1>1, <1>4, <2>0 DEF P!Outer, With
  <2>2. px' \in Seq(P!Address) /\ Len(px') = Len(px) /\ px[pj] \in P!Address /\ px[1] \in P!Address
    BY <1>1, <1>2, <2>1, ExceptSeq DEF With
  <2>3. \A m \in 1..Len(px) : px'[m] = IF m = pj THEN px[1] ELSE px[m]
    BY <1>1, <1>2, <2>1 DEF With
  <2>4. \A k \in 1..pj : ~P!Less(px[1], px[k])
    BY <1>1, <2>0, HeapFirst
  <2>5. Heap(px', pj - 1, 1)
    <3> SUFFICES ASSUME NEW m \in 2..pj - 1, m \div 2 >= 1 PROVE ~P!Less(px'[m \div 2], px'[m])
      BY DEF Heap
    <3>1. m \in 1..Len(px) /\ m \div 2 \in 1..Len(px) /\ m # pj /\ m \div 2 # pj /\ m \in 2..pj
      BY <1>2
    <3>2. ~P!Less(px[m \div 2], px[m])
      BY <1>1, <2>0, <3>1 DEF Heap
    <3> QED BY <2>3, <3>1, <3>2
  <2>6. Ordered(px', pj - 1)
    <3> SUFFICES ASSUME NEW m \in (pj - 1) + 1..Len(px), NEW k \in 1..m PROVE ~P!Less(px'[m], px'[k])
      BY <2>2 DEF Ordered
    <3>1. m \in Nat /\ m >= pj /\ m <= Len(px) /\ k \in 1..Len(px) /\ m \in 1..Len(px) /\ k <= m
      BY <1>2
    <3>2. px[m] \in P!Address /\ px[k] \in P!Address
      BY <1>1, <3>1
    <3>3. CASE m = pj
      <4>1. px'[m] = px[1]
        BY <2>3, <3>1, <3>3
      <4>2. k \in 1..pj
        BY <3>1, <3>3
      <4>3. px'[k] = px[1] \/ px'[k] = px[k]
        BY <2>3, <3>1
      <4> QED BY <2>2, <2>4, <4>1, <4>2, <4>3, LessOrders
    <3>4. CASE m > pj
      <4>1. px'[m] = px[m] /\ m \in pj + 1..Len(px)
        BY <1>2, <2>3, <3>1, <3>4
      <4>2. ~P!Less(px[m], px[k]) /\ ~P!Less(px[m], px[1])
        <5>1. 1 \in 1..m
          BY <3>1
        <5> QED BY <1>1, <4>1, <5>1 DEF Ordered
      <4>3. px'[k] = px[1] \/ px'[k] = px[k]
        BY <2>3, <3>1
      <4> QED BY <4>1, <4>2, <4>3
    <3> QED BY <1>2, <3>1, <3>3, <3>4
  <2>7. Above(px', pj - 1, px[pj])
    <3> SUFFICES ASSUME NEW m \in (pj - 1) + 1..Len(px) PROVE ~P!Less(px'[m], px[pj])
      BY <2>2 DEF Above
    <3>1. m \in Nat /\ m >= pj /\ m <= Len(px) /\ m \in 1..Len(px) /\ pj \in 1..pj /\ pj \in 1..m
      BY <1>2
    <3>2. CASE m = pj
      BY <2>3, <2>4, <3>1, <3>2
    <3>3. CASE m > pj
      <4>1. px'[m] = px[m] /\ m \in pj + 1..Len(px)
        BY <1>2, <2>3, <3>1, <3>3
      <4> QED BY <1>1, <3>1, <4>1 DEF Ordered
    <3> QED BY <1>2, <3>1, <3>2, <3>3
  <2>8. pj - 1 \in 1..Len(px) /\ 1 \in 1..pj - 1 /\ pj - 1 \in 0..Len(px) /\ 1 \in 0..Len(px)
    BY <1>1, <1>2
  <2>9. Under(1, 1)
    BY UnderSelf
  <2>10. Heap(px', pj - 1, 1 + 1)
    BY <1>2, <2>5 DEF Heap
  <2>11. HeapInv'
    <3> DEFINE k == pj - 1
    <3>1. pj' = k /\ k \in 1..Len(px') /\ 1 \in 1..k /\ Heap(px', k, 1) /\ Ordered(px', k) /\ Above(px', k, pt') /\ Heap(px', k, 1 + 1)
      BY <2>1, <2>2, <2>5, <2>6, <2>7, <2>8, <2>10
    <3> HIDE DEF k
    <3> QED BY <1>1, <2>1, <2>9, <3>1, Zenon DEF HeapInv
  <2>12. SortTypes'
    BY <1>1, <2>1, <2>2, <2>8 DEF SortTypes
  <2>13. Counted'
    <3>1. Held = px /\ With(Held', px', 1, px[pj])
      BY <1>1, <2>1 DEF Held, With
    <3>2. \A a : LinesRead(a)' = LinesRead(a)
      BY <1>1 DEF LinesRead
    <3>3. DOMAIN Held' = 1..Len(px) /\ \A m \in 1..Len(px) : Held'[m] = IF m = 1 THEN px[pj] ELSE px'[m]
      BY <2>2, <3>1 DEF With
    <3>4. SwapOf(Held', px, Len(px), pj, 1)
      BY <2>3, <3>3 DEF SwapOf
    <3>5. ASSUME NEW a PROVE Cardinality(P!Indices(Held', a)) = Cardinality(P!Indices(Held, a))
      <4>1. 1 \in 1..Len(px) /\ pj \in 1..Len(px)
        BY <1>1, <1>2
      <4> QED BY <1>2, <3>1, <3>3, <3>4, <4>1, Swapped
    <3> QED BY <3>2, <3>5, Zenon DEF SortInv, Counted
  <2> QED BY <2>11, <2>12, <2>13 DEF SortInv
<1> QED BY <1>3, <1>4

(* Lines that are read, and addresses that are appended, are counted.      *)
LEMMA OneMoreCounted ==
  ASSUME NEW S \in SUBSET Nat, IsFiniteSet(S), NEW T \in SUBSET Nat, IsFiniteSet(T), Cardinality(S) = Cardinality(T),
         NEW m \in Nat \ S, NEW l \in Nat \ T
  PROVE  Cardinality(S \cup {m}) = Cardinality(T \cup {l})
BY FS_AddElement

LEMMA SortRead ==
  ASSUME P!PickBounds, SortInv, P!ReadLine
  PROVE  SortInv'
<1> DEFINE line == pdata[plinenum]
<1>1. /\ ppc = "reading" /\ plinenum <= Len(pdata) /\ plinenum' = plinenum + 1 /\ pdata' = pdata /\ pi' = pi /\ pj' = pj /\ pq' = pq /\ pt' = pt
      /\ px' = (IF line.c = "+" THEN Append(px, line.address) ELSE px)
      /\ ppc' = (IF line.c = "?" THEN "died" ELSE ppc)
  BY DEF P!ReadLine
<1>2. /\ pdata \in Seq(PickLine) /\ plinenum \in 1..Len(pdata) + 1 /\ px \in Seq(P!Address) /\ pt \in P!Address
      /\ pi \in 0..Len(px) /\ pj \in 0..Len(px) /\ pq \in 0..Len(px)
  BY DEF SortInv, SortTypes
<1>3. plinenum \in 1..Len(pdata) /\ line \in PickLine /\ plinenum \in Nat /\ plinenum + 1 \in 1..Len(pdata) + 1 /\ (plinenum + 1) - 1 = plinenum
  BY <1>1, <1>2
<1>4. line.c = "+" => line.address \in P!Address
  BY <1>3 DEF P!PickBounds
<1> HIDE DEF line
<1>5. px' \in Seq(P!Address) /\ Len(px') >= Len(px) /\ Len(px') \in Nat /\ Len(px) \in Nat
  BY <1>1, <1>2, <1>4
<1>6. SortTypes'
  BY <1>1, <1>2, <1>3, <1>5 DEF SortTypes
<1>7. HeapInv'
  BY <1>1 DEF HeapInv
<1>8. Held = px /\ Held' = px'
  BY <1>1 DEF Held
<1>9. ASSUME NEW a PROVE Cardinality(P!Indices(px', a)) = Cardinality(LinesRead(a)')
  <2> DEFINE S == P!Indices(px, a)
             T == LinesRead(a)
  <2>1. S \in SUBSET (1..Len(px)) /\ IsFiniteSet(S)
    <3>1. S \in SUBSET (1..Len(px))
      BY <1>2 DEF P!Indices
    <3>2. IsFiniteSet(1..Len(px))
      BY <1>5, FS_Interval
    <3> QED BY <3>1, <3>2, FS_Subset
  <2>2. T \in SUBSET (1..plinenum - 1) /\ IsFiniteSet(T)
    <3>1. T \in SUBSET (1..plinenum - 1)
      BY DEF LinesRead
    <3>2. IsFiniteSet(1..plinenum - 1)
      BY <1>3, FS_Interval
    <3> QED BY <3>1, <3>2, FS_Subset
  <2>3. Cardinality(S) = Cardinality(T)
    BY <1>8 DEF SortInv, Counted
  <2>4. LinesRead(a)' = IF line.c = "+" /\ line.address = a THEN T \cup {plinenum} ELSE T
    <3>1. LinesRead(a)' = {m \in 1..plinenum : pdata[m].c = "+" /\ pdata[m].address = a}
      BY <1>1, <1>3 DEF LinesRead
    <3>2. \A m : m \in 1..plinenum <=> m \in 1..plinenum - 1 \/ m = plinenum
      BY <1>3
    <3>3. \A m : m \in LinesRead(a)' <=> m \in T \/ (m = plinenum /\ line.c = "+" /\ line.address = a)
      BY <3>1, <3>2, Zenon DEF LinesRead, line
    <3> HIDE DEF T
    <3> QED BY <3>3
  <2>5. line.c = "+" => P!Indices(px', a) = IF line.address = a THEN S \cup {Len(px) + 1} ELSE S
    <3> SUFFICES ASSUME line.c = "+" PROVE P!Indices(px', a) = IF line.address = a THEN S \cup {Len(px) + 1} ELSE S
      OBVIOUS
    <3>1. px' = Append(px, line.address)
      BY <1>1
    <3>2. DOMAIN px = 1..Len(px) /\ DOMAIN px' = 1..Len(px) + 1 /\ px'[Len(px) + 1] = line.address
          /\ \A m \in 1..Len(px) : px'[m] = px[m]
      BY <1>2, <1>4, <3>1
    <3>3. \A m : m \in 1..Len(px) + 1 <=> m \in 1..Len(px) \/ m = Len(px) + 1
      BY <1>5
    <3>4. \A m : m \in P!Indices(px', a) <=> m \in S \/ (m = Len(px) + 1 /\ line.address = a)
      BY <3>2, <3>3 DEF P!Indices
    <3> HIDE DEF S
    <3> QED BY <3>4
  <2>6. Len(px) + 1 \notin S /\ plinenum \notin T /\ S \in SUBSET Nat /\ T \in SUBSET Nat /\ Len(px) + 1 \in Nat
    BY <1>3, <1>5, <2>1, <2>2
  <2>7. Cardinality(S \cup {Len(px) + 1}) = Cardinality(T \cup {plinenum})
    <3> HIDE DEF S, T
    <3> QED BY <1>3, <2>1, <2>2, <2>3, <2>6, OneMoreCounted
  <2>8. line.c # "+" => P!Indices(px', a) = S
    BY <1>1
  <2> HIDE DEF S, T
  <2> QED BY <2>3, <2>4, <2>5, <2>7, <2>8
<1>10. Counted'
  BY <1>8, <1>9 DEF Counted
<1> QED BY <1>6, <1>7, <1>10 DEF SortInv

LEMMA SortRest ==
  ASSUME SortInv, \/ P!EndOfData \/ P!Sorted \/ P!Group \/ P!Finish \/ P!Answer \/ P!Shuffle
                  \/ \E name \in PickName, qtype \in PickType, ip \in PickClient : P!Ask(name, qtype, ip)
                  \/ UNCHANGED P!vars
  PROVE  SortInv'
<1>1. CASE P!EndOfData
  <2>1. /\ ppc = "reading" /\ ppc' = "sort" /\ plinenum = Len(pdata) + 1 /\ pdata' = pdata /\ plinenum' = plinenum
        /\ px' = px /\ pq' = pq /\ pt' = pt /\ pi' = Len(px) /\ pj' = Len(px)
    BY <1>1 DEF P!EndOfData
  <2>2. px \in Seq(P!Address) /\ Len(px) \in Nat
    BY DEF SortInv, SortTypes
  <2>3. Heap(px, Len(px), Len(px)) /\ Ordered(px, Len(px))
    BY <2>2 DEF Heap, Ordered
  <2>4. HeapInv'
    BY <2>1, <2>2, <2>3 DEF HeapInv
  <2>5. SortTypes'
    BY <2>1, <2>2 DEF SortInv, SortTypes
  <2>6. Held' = Held
    BY <2>1 DEF Held
  <2> QED BY <2>1, <2>4, <2>5, <2>6, CountedSame DEF SortInv
<1>2. CASE P!Sorted
  <2>1. ppc = "sort" /\ ppc' = "group" /\ pj <= 1 /\ pdata' = pdata /\ plinenum' = plinenum /\ px' = px /\ pq' = pq /\ pt' = pt /\ pi' = 0 /\ pj' = pj
    BY <1>2 DEF P!Sorted
  <2>2. px \in Seq(P!Address) /\ Len(px) \in Nat /\ Ordered(px, pj) /\ (Len(px) = 0 \/ pj \in 1..Len(px))
    BY <2>1 DEF SortInv, SortTypes, HeapInv
  <2>3. Ordered(px, 0)
    <3> SUFFICES ASSUME NEW m \in 1..Len(px), NEW k \in 1..m PROVE ~P!Less(px[m], px[k])
      BY <2>2 DEF Ordered
    <3>1. CASE m = 1
      <4>1. k = 1 /\ px[1] \in P!Address
        BY <2>2, <3>1
      <4> QED BY <3>1, <4>1, LessOrders
    <3>2. CASE m > 1
      <4>1. pj = 1 /\ m \in pj + 1..Len(px)
        BY <2>1, <2>2, <3>2
      <4> QED BY <2>2, <4>1 DEF Ordered
    <3> QED BY <2>2, <3>1, <3>2
  <2>4. HeapInv'
    BY <2>1, <2>3 DEF HeapInv
  <2>5. SortTypes'
    BY <2>1, <2>2 DEF SortInv, SortTypes
  <2>6. Held' = Held
    BY <2>1 DEF Held
  <2> QED BY <2>1, <2>4, <2>5, <2>6, CountedSame DEF SortInv
<1>3. CASE P!Group
  <2>1. ppc = "group" /\ ppc' = "group" /\ pdata' = pdata /\ plinenum' = plinenum /\ px' = px /\ pq' = pq /\ pt' = pt /\ pj' = pj
        /\ pi < Len(px) /\ pi' = pi + Cardinality(P!Alike)
    BY <1>3, SameCount DEF P!Group
  <2>2. px \in Seq(P!Address) /\ Len(px) \in Nat /\ Ordered(px, 0) /\ pi \in 0..Len(px)
    BY <2>1 DEF SortInv, SortTypes, HeapInv
  <2>3. pi' \in 0..Len(px)
    <3>1. P!Alike \subseteq pi + 1..Len(px) /\ pi \in Nat /\ Len(px) \in Nat
      BY <2>2 DEF P!Alike
    <3>2. IsFiniteSet(pi + 1..Len(px)) /\ Cardinality(pi + 1..Len(px)) = Len(px) - pi
      BY <2>1, <3>1, FS_Interval
    <3>3. IsFiniteSet(P!Alike) /\ Cardinality(P!Alike) <= Cardinality(pi + 1..Len(px))
      BY <3>1, <3>2, FS_Subset
    <3>4. Cardinality(P!Alike) \in Nat
      BY <3>3, FS_CardinalityType
    <3> QED BY <2>1, <3>1, <3>2, <3>3, <3>4
  <2>4. HeapInv'
    BY <2>1, <2>2 DEF HeapInv
  <2>5. SortTypes'
    BY <2>1, <2>2, <2>3 DEF SortInv, SortTypes
  <2>6. Held' = Held
    BY <2>1 DEF Held
  <2> QED BY <2>1, <2>4, <2>5, <2>6, CountedSame DEF SortInv
<1>4. CASE \/ P!Finish \/ P!Answer \/ P!Shuffle
           \/ \E name \in PickName, qtype \in PickType, ip \in PickClient : P!Ask(name, qtype, ip)
           \/ UNCHANGED P!vars
  <2>1. /\ UNCHANGED <<pdata, plinenum, px, pi, pj, pq, pt>>
        /\ \/ ppc' = ppc
           \/ ppc \in {"group", "idle", "sortip"} /\ ppc' \in {"idle", "sortip"}
    <3>1. CASE P!Finish \/ P!Answer \/ P!Shuffle \/ UNCHANGED P!vars
      BY <3>1 DEF P!Finish, P!Answer, P!Shuffle, P!vars, P!compiler
    <3>2. CASE \E name \in PickName, qtype \in PickType, ip \in PickClient : P!Ask(name, qtype, ip)
      BY <3>2 DEF P!Ask, P!NoAddresses, P!compiler
    <3> QED BY <1>4, <3>1, <3>2
  <2>2. SortTypes'
    BY <2>1 DEF SortInv, SortTypes
  <2>3. HeapInv'
    BY <2>1 DEF SortInv, HeapInv
  <2>4. Held' = Held
    BY <2>1 DEF Held
  <2> QED BY <2>1, <2>2, <2>3, <2>4, CountedSame DEF SortInv
<1> QED BY <1>1, <1>2, <1>3, <1>4

LEMMA SortStep == P!PickBounds /\ SortInv /\ [P!Next]_P!vars => SortInv'
BY SortRead, SortOuter, SortDown, SortUp, SortRest DEF P!Next, P!Compile

LEMMA SortInit == P!PickBounds /\ P!Init => SortInv
<1> SUFFICES ASSUME P!PickBounds, P!Init PROVE SortInv
  OBVIOUS
<1>1. ppc = "reading" /\ plinenum = 1 /\ px = <<>> /\ pi = 0 /\ pj = 0 /\ pq = 0 /\ pt = P!NoAddress
  BY DEF P!Init
<1>2. pdata \in Seq(PickLine) /\ Len(pdata) \in Nat
  <2>1. PICK m \in 0..MaxPick : pdata \in [1..m -> PickLine]
    BY DEF P!Init
  <2>2. m \in Nat
    BY DEF P!PickBounds
  <2> QED BY <2>1, <2>2, IsASeq
<1>3. SortTypes
  BY <1>1, <1>2 DEF SortTypes, P!NoAddress, P!Address
<1>4. HeapInv
  BY <1>1 DEF HeapInv
<1>5. Counted
  <2>1. ASSUME NEW a PROVE P!Indices(px, a) = {} /\ LinesRead(a) = {}
    BY <1>1 DEF P!Indices, LinesRead
  <2>2. Held = px
    BY <1>1 DEF Held
  <2> QED BY <2>1, <2>2, Zenon DEF Counted
<1> QED BY <1>3, <1>4, <1>5 DEF SortInv

(* Then all lines are read and the array is in order.                      *)
LEMMA SortSays ==
  ASSUME SortInv
  PROVE  P!SortRight
<1> SUFFICES ASSUME ppc \in {"group", "idle"} PROVE P!SortRight
  BY DEF P!SortRight
<1>1. Held = px /\ Ordered(px, 0) /\ plinenum = Len(pdata) + 1 /\ pdata \in Seq(PickLine) /\ px \in Seq(P!Address)
  BY DEF SortInv, SortTypes, HeapInv, Held
<1>2. \A a : LinesRead(a) = P!Lines(a)
  BY <1>1 DEF LinesRead, P!Lines
<1>3. \A a : Cardinality(P!Indices(px, a)) = Cardinality(P!Lines(a))
  BY <1>1, <1>2, Zenon DEF SortInv, Counted
<1>4. \A m \in 1..Len(px) - 1 : ~P!Less(px[m + 1], px[m])
  <2> SUFFICES ASSUME NEW m \in 1..Len(px) - 1 PROVE ~P!Less(px[m + 1], px[m])
    OBVIOUS
  <2>1. m + 1 \in 0 + 1..Len(px) /\ m \in 1..m + 1
    BY <1>1
  <2> QED BY <1>1, <2>1 DEF Ordered
<1> QED BY <1>3, <1>4, SameCount, Zenon DEF P!SortRight

-----------------------------------------------------------------------------
(* The groups: one pair for each name and place up to i, with the          *)
(* addresses that the array has.                                           *)
SameKey(a, b) == a.location = b.location /\ a.name = b.name
PairKey(m) == <<"+", px[m].location, px[m].name>>
NetKey(p) == <<"%", p>>
Holding(a, ip) == [location |-> a.location, name |-> a.name, ip |-> ip]
Grouped(c, m) ==
  /\ pcdb[c].key = PairKey(m)
  /\ \A ip : Cardinality(P!Indices(pcdb[c].data, ip)) = Cardinality(P!Indices(px, Holding(px[m], ip)))

PairKeys == {<<"+", l, m>> : l \in Nat, m \in Nat \X Nat}
NetKeys == {NetKey(p) : p \in Seq(Nat)}

Grouping == ppc \in {"group", "idle", "sortip"}
GroupInv ==
  /\ pcdb \in Seq([key : PairKeys \cup NetKeys, data : Seq(Nat)])
  /\ ppc \in {"idle", "sortip"} => pi = Len(px)
  /\ ~Grouping => \A c \in 1..Len(pcdb) : pcdb[c].key \in NetKeys
  /\ Grouping =>
       /\ \A m \in 1..pi : \A k \in pi + 1..Len(px) : P!Less(px[m], px[k])
       /\ \A m \in 1..pi : \E c \in 1..Len(pcdb) :
            Grouped(c, m) /\ \A d \in 1..Len(pcdb) : pcdb[d].key = PairKey(m) => d = c
       /\ \A c \in 1..Len(pcdb) : pcdb[c].key \in PairKeys => \E m \in 1..pi : pcdb[c].key = PairKey(m)

LEMMA NetKeysDiffer == \A p, l, m : NetKey(p) # <<"+", l, m>>
BY DEF NetKey

LEMMA KeysApart == PairKeys \cap NetKeys = {}
BY NetKeysDiffer DEF PairKeys, NetKeys

(* Those alike stand together.                                             *)
LEMMA AlikeIs ==
  ASSUME px \in Seq(P!Address), pi \in 0..Len(px), pi < Len(px), Ordered(px, 0)
  PROVE  \E e \in 1..Len(px) - pi :
           /\ Cardinality(P!Alike) = e
           /\ \A k \in pi + 1..Len(px) : k <= pi + e <=> SameKey(px[k], px[pi + 1])
<1> DEFINE a == pi + 1
           N == Len(px)
           T == {m \in Nat : m \in a..N + 1 /\ (m = N + 1 \/ m \notin P!Alike)}
<1>1. N \in Nat /\ pi \in Nat /\ a \in 1..N /\ \A m \in 1..N : px[m] \in P!Address
  OBVIOUS
<1>2. \A m : m \in P!Alike <=> m \in a..N /\ \A k \in a..m : ~P!Less(px[a], px[k]) /\ ~P!Less(px[k], px[a])
  BY DEF P!Alike
<1>3. PICK l \in T : \A m \in T : l <= m
  <2>1. N + 1 \in T
    BY <1>1
  <2>2. T \in SUBSET Nat
    OBVIOUS
  <2> HIDE DEF T
  <2> QED BY <2>1, <2>2, LeastNatural
<1>4. l \in a..N + 1 /\ (l = N + 1 \/ l \notin P!Alike) /\ l \in Nat
  OBVIOUS
<1>5. \A m \in a..N : m < l => m \in P!Alike
  BY <1>1, <1>3, <1>4
<1> HIDE DEF T, N, a
<1>6. \A m \in a..N : m >= l => m \notin P!Alike
  BY <1>1, <1>2, <1>4
<1>7. l # a
  <2>1. a \in P!Alike
    <3>1. a \in a..N /\ \A k \in a..a : k = a
      BY <1>1
    <3>2. ~P!Less(px[a], px[a])
      BY <1>1, LessOrders
    <3> QED BY <1>2, <3>1, <3>2
  <2> QED BY <1>1, <1>4, <1>6, <2>1
<1> DEFINE e == l - a
<1>8. e \in 1..N - pi /\ pi + e = l - 1
  BY <1>1, <1>4, <1>7 DEF a
<1>9. P!Alike = a..l - 1
  <2>1. \A m \in P!Alike : m \in a..N
    BY <1>2
  <2>2. \A m : m \in a..l - 1 <=> m \in a..N /\ m < l
    BY <1>1, <1>4
  <2>3. \A m : m \in P!Alike <=> m \in a..N /\ m < l
    <3>1. \A m \in a..N : m \in Nat
      BY <1>1
    <3> QED BY <1>4, <1>5, <1>6, <2>1, <3>1
  <2>4. \A m : m \in P!Alike <=> m \in a..l - 1
    BY <2>2, <2>3, Zenon
  <2> QED BY <2>4, Zenon
<1>10. Cardinality(P!Alike) = e
  BY <1>1, <1>4, <1>7, <1>9, FS_Interval
<1>11. ASSUME NEW k \in a..N PROVE k <= pi + e <=> SameKey(px[k], px[a])
  <2>1. px[k] \in P!Address /\ px[a] \in P!Address /\ k \in 1..N /\ k \in a..k
    BY <1>1
  <2>2. ASSUME k \in P!Alike PROVE SameKey(px[k], px[a])
    BY <1>2, <2>1, <2>2, LessOrders DEF SameKey
  <2>3. ASSUME SameKey(px[k], px[a]) PROVE k \in P!Alike
    <3> SUFFICES ASSUME NEW m \in a..k PROVE ~P!Less(px[a], px[m]) /\ ~P!Less(px[m], px[a])
      BY <1>2
    <3>1. m \in 1..N /\ px[m] \in P!Address /\ m \in 0 + 1..N /\ k \in 0 + 1..N /\ a \in 1..m /\ m \in 1..k
      BY <1>1
    <3>2. ~P!Less(px[m], px[a]) /\ ~P!Less(px[k], px[m])
      BY <3>1 DEF Ordered, N
    <3>3. ~P!Less(px[a], px[k])
      BY <2>1, <2>3, LessOrders DEF SameKey
    <3> QED BY <2>1, <3>1, <3>2, <3>3, LessOrders
  <2>4. k \in P!Alike <=> k <= pi + e
    BY <1>1, <1>4, <1>8, <1>9
  <2> QED BY <2>2, <2>3, <2>4
<1> HIDE DEF e
<1> QED BY <1>8, <1>10, <1>11 DEF a, N

(* The addresses of a group, counted in the pair and in the array.         *)
LEMMA GroupCounted ==
  ASSUME px \in Seq(P!Address), pi \in 0..Len(px), pi < Len(px),
         \A m \in 1..pi : \A k \in pi + 1..Len(px) : P!Less(px[m], px[k]),
         NEW e \in 1..Len(px) - pi, \A k \in pi + 1..Len(px) : k <= pi + e <=> SameKey(px[k], px[pi + 1]),
         NEW ip, NEW d, d = [k \in 1..e |-> px[pi + k].ip]
  PROVE  Cardinality(P!Indices(d, ip)) = Cardinality(P!Indices(px, Holding(px[pi + 1], ip)))
<1> DEFINE S == P!Indices(d, ip)
           T == P!Indices(px, Holding(px[pi + 1], ip))
           up == [k \in S |-> pi + k]
           a == px[pi + 1]
<1>1. Len(px) \in Nat /\ pi \in Nat /\ e \in Nat /\ pi + e <= Len(px) /\ e >= 1 /\ pi + 1 \in 1..Len(px) /\ DOMAIN px = 1..Len(px)
  OBVIOUS
<1>2. \A k : k \in S <=> k \in 1..e /\ px[pi + k].ip = ip
  BY DEF P!Indices
<1>3. \A m : m \in T <=> m \in 1..Len(px) /\ px[m] = Holding(a, ip)
  BY <1>1 DEF P!Indices
<1>4. \A m \in 1..Len(px) : px[m] \in P!Address
  OBVIOUS
<1>5. \A m \in 1..Len(px) : px[m] = Holding(a, ip) <=> SameKey(px[m], a) /\ px[m].ip = ip
  <2> SUFFICES ASSUME NEW m \in 1..Len(px) PROVE px[m] = Holding(a, ip) <=> SameKey(px[m], a) /\ px[m].ip = ip
    OBVIOUS
  <2>1. px[m] = [location |-> px[m].location, name |-> px[m].name, ip |-> px[m].ip]
    BY <1>4 DEF P!Address
  <2>2. ASSUME px[m] = Holding(a, ip) PROVE SameKey(px[m], a) /\ px[m].ip = ip
    BY <2>2 DEF Holding, SameKey
  <2>3. ASSUME SameKey(px[m], a), px[m].ip = ip PROVE px[m] = Holding(a, ip)
    BY <2>1, <2>3, Zenon DEF Holding, SameKey
  <2> QED BY <2>2, <2>3
<1>6. \A m \in 1..Len(px) : SameKey(px[m], a) <=> m \in pi + 1..pi + e
  <2> SUFFICES ASSUME NEW m \in 1..Len(px) PROVE SameKey(px[m], a) <=> m \in pi + 1..pi + e
    OBVIOUS
  <2>1. CASE m \in pi + 1..Len(px)
    BY <1>1, <2>1
  <2>2. CASE m \in 1..pi
    <3>1. pi + 1 \in pi + 1..Len(px)
      BY <1>1
    <3>2. P!Less(px[m], px[pi + 1])
      BY <2>2, <3>1
    <3>3. px[m] \in P!Address /\ a \in P!Address
      BY <1>1, <1>4
    <3>4. ~SameKey(px[m], a)
      BY <3>2, <3>3, LessOrders DEF SameKey
    <3> QED BY <1>1, <2>2, <3>4
  <2> QED BY <1>1, <2>1, <2>2
<1> HIDE DEF S, T, a
<1>7. \A k \in S : pi + k \in T
  BY <1>1, <1>2, <1>3, <1>5, <1>6
<1>8. \A m \in T : m - pi \in S /\ pi + (m - pi) = m
  BY <1>1, <1>2, <1>3, <1>5, <1>6
<1>9. \A k \in S : k \in Nat
  BY <1>2
<1>10. up \in Bijection(S, T)
  <2>1. up \in [S -> T]
    BY <1>7
  <2>2. \A k, m \in S : up[k] = up[m] => k = m
    BY <1>1, <1>9
  <2>3. \A m \in T : \E k \in S : up[k] = m
    BY <1>8
  <2> HIDE DEF up
  <2> QED BY <2>1, <2>2, <2>3, Fun_IsBij
<1>11. IsFiniteSet(S)
  <2>1. S \subseteq 1..e
    BY <1>2
  <2>2. IsFiniteSet(1..e)
    BY <1>1, FS_Interval
  <2> QED BY <2>1, <2>2, FS_Subset
<1>12. Cardinality(T) = Cardinality(S)
  BY <1>10, <1>11, FS_Bijection DEF ExistsBijection
<1> QED BY <1>12 DEF S, T, a

LEMMA GroupGroup ==
  ASSUME SortInv, GroupInv, P!Group
  PROVE  GroupInv'
<1>1. ppc = "group" /\ ppc' = "group" /\ px' = px /\ pi < Len(px) /\ pi' = pi + Cardinality(P!Alike) /\ pcdb' = Append(pcdb, P!Pair(pi + 1))
  BY SameCount DEF P!Group
<1>2. px \in Seq(P!Address) /\ pi \in 0..Len(px) /\ Ordered(px, 0)
  BY <1>1 DEF SortInv, SortTypes, HeapInv
<1>3. PICK e \in 1..Len(px) - pi :
        /\ Cardinality(P!Alike) = e
        /\ \A k \in pi + 1..Len(px) : k <= pi + e <=> SameKey(px[k], px[pi + 1])
  BY <1>1, <1>2, AlikeIs
<1>4. Grouping /\ Grouping'
  BY <1>1 DEF Grouping
<1>5. \A m \in 1..pi : \A k \in pi + 1..Len(px) : P!Less(px[m], px[k])
  BY <1>4 DEF GroupInv
<1>6. /\ Len(px) \in Nat /\ pi \in Nat /\ e \in Nat /\ pi + e <= Len(px) /\ e >= 1 /\ pi + 1 \in 1..Len(px)
      /\ \A m \in 1..Len(px) : px[m] \in P!Address
  BY <1>2
<1> DEFINE d == [k \in 1..e |-> px[pi + k].ip]
<1>11. pcdb \in Seq([key : PairKeys \cup NetKeys, data : Seq(Nat)]) /\ Len(pcdb) \in Nat
  BY DEF GroupInv
<1>e. PICK n1 \in Nat : n1 = Len(pcdb) + 1
  BY <1>11
<1>7. P!Pair(pi + 1) = [key |-> PairKey(pi + 1), data |-> d]
  BY <1>3, SameCount DEF P!Pair, PairKey
<1>8. PairKey(pi + 1) \in PairKeys
  <2>1. px[pi + 1].location \in Nat /\ px[pi + 1].name \in Nat \X Nat
    <3>1. px[pi + 1] \in P!Address
      BY <1>6
    <3> HIDE DEF d
    <3> QED BY <3>1 DEF P!Address
  <2> QED BY <2>1 DEF PairKey, PairKeys
<1>9. d \in Seq(Nat)
  <2>1. ASSUME NEW k \in 1..e PROVE px[pi + k].ip \in Nat
    <3>1. px[pi + k] \in P!Address
      BY <1>6
    <3> HIDE DEF d
    <3> QED BY <3>1 DEF P!Address
  <2> QED BY <1>6, <2>1, IsASeq
<1>10. ASSUME NEW ip PROVE Cardinality(P!Indices(d, ip)) = Cardinality(P!Indices(px, Holding(px[pi + 1], ip)))
  <2> HIDE DEF d
  <2>1. d = [k \in 1..e |-> px[pi + k].ip]
    BY DEF d
  <2> QED BY <1>1, <1>2, <1>3, <1>5, <2>1, GroupCounted
<1> HIDE DEF d
<1>12. /\ pcdb' \in Seq([key : PairKeys \cup NetKeys, data : Seq(Nat)]) /\ Len(pcdb') = n1
       /\ pcdb'[n1] = P!Pair(pi + 1) /\ \A c \in 1..Len(pcdb) : pcdb'[c] = pcdb[c]
  <2>1. P!Pair(pi + 1) \in [key : PairKeys \cup NetKeys, data : Seq(Nat)]
    BY <1>7, <1>8, <1>9
  <2> QED BY <1>1, <1>11, <1>e, <2>1, AppendProperties
<1>13. \A c : c \in 1..n1 <=> c \in 1..Len(pcdb) \/ c = n1
  BY <1>11, <1>e
<1>a. \A m : m \in 1..pi + e <=> m \in 1..pi \/ m \in pi + 1..pi + e
  BY <1>6
<1>b. \A m \in 1..pi + e : m \in 1..Len(px)
  BY <1>6
<1>c. pi' = pi + e
  BY <1>1, <1>3
<1>14. \A m \in pi + 1..pi + e : SameKey(px[m], px[pi + 1]) /\ PairKey(m) = PairKey(pi + 1) /\ \A ip : Holding(px[m], ip) = Holding(px[pi + 1], ip)
  <2>1. \A m \in pi + 1..pi + e : SameKey(px[m], px[pi + 1])
    BY <1>3, <1>6
  <2> QED BY <2>1, Zenon DEF PairKey, Holding, SameKey
<1>15. ASSUME NEW m \in 1..pi + e, NEW k \in pi + e + 1..Len(px) PROVE P!Less(px[m], px[k])
  <2>1. k \in pi + 1..Len(px) /\ ~(k <= pi + e) /\ k \in 1..Len(px) /\ k \in 0 + 1..Len(px) /\ m \in 1..k
    BY <1>6
  <2>2. CASE m \in 1..pi
    BY <1>5, <2>1, <2>2
  <2>3. CASE m \in pi + 1..pi + e
    <3>1. ~SameKey(px[k], px[pi + 1]) /\ SameKey(px[m], px[pi + 1])
      BY <1>3, <1>14, <2>1, <2>3
    <3>2. ~P!Less(px[k], px[m])
      BY <1>2, <2>1 DEF Ordered
    <3>3. px[m] \in P!Address /\ px[k] \in P!Address
      BY <1>6, <1>b, <2>1
    <3> QED BY <3>1, <3>2, <3>3, LessOrders DEF SameKey
  <2> QED BY <1>a, <2>2, <2>3
<1>16. \A c \in 1..Len(pcdb) : pcdb[c].key # PairKey(pi + 1)
  <2> SUFFICES ASSUME NEW c \in 1..Len(pcdb), pcdb[c].key = PairKey(pi + 1) PROVE FALSE
    OBVIOUS
  <2>1. PICK m \in 1..pi : PairKey(pi + 1) = PairKey(m)
    BY <1>4, <1>8 DEF GroupInv
  <2>2. SameKey(px[m], px[pi + 1])
    BY <2>1 DEF PairKey, SameKey
  <2>3. P!Less(px[m], px[pi + 1])
    <3>1. pi + 1 \in pi + 1..Len(px)
      BY <1>6
    <3> QED BY <1>5, <3>1
  <2>4. px[m] \in P!Address /\ px[pi + 1] \in P!Address
    BY <1>6
  <2> QED BY <2>2, <2>3, <2>4, LessOrders DEF SameKey
<1>17. \A m : PairKey(m)' = PairKey(m)
  BY <1>1 DEF PairKey
<1>d. pcdb'[n1].key = PairKey(pi + 1) /\ pcdb'[n1].data = d
  BY <1>7, <1>12
<1>18. ASSUME NEW m \in 1..pi + e
       PROVE  \E c \in 1..n1 : Grouped(c, m)' /\ \A b \in 1..n1 : pcdb'[b].key = PairKey(m) => b = c
  <2>1. CASE m \in 1..pi
    <3>1. PICK c \in 1..Len(pcdb) : Grouped(c, m) /\ \A b \in 1..Len(pcdb) : pcdb[b].key = PairKey(m) => b = c
      BY <1>4, <2>1 DEF GroupInv
    <3>2. Grouped(c, m)'
      BY <1>1, <1>12, <3>1, Zenon DEF Grouped, PairKey
    <3>3. PairKey(m) # PairKey(pi + 1)
      BY <1>16, <3>1 DEF Grouped
    <3>4. \A b \in 1..n1 : pcdb'[b].key = PairKey(m) => b = c
      <4> SUFFICES ASSUME NEW b \in 1..n1, pcdb'[b].key = PairKey(m) PROVE b = c
        OBVIOUS
      <4>1. b # n1
        BY <1>d, <3>3
      <4>2. b \in 1..Len(pcdb) /\ pcdb'[b] = pcdb[b]
        BY <1>12, <1>13, <4>1
      <4> QED BY <3>1, <4>2
    <3>5. c \in 1..n1
      BY <1>13, <3>1
    <3> QED BY <3>2, <3>4, <3>5, Zenon
  <2>2. CASE m \in pi + 1..pi + e
    <3>1. PairKey(m) = PairKey(pi + 1) /\ \A ip : Holding(px[m], ip) = Holding(px[pi + 1], ip)
      BY <1>14, <2>2
    <3>2. \A ip : Cardinality(P!Indices(pcdb'[n1].data, ip)) = Cardinality(P!Indices(px', Holding(px'[m], ip)))
      BY <1>1, <1>10, <1>d, <3>1, Zenon
    <3>3. Grouped(n1, m)'
      BY <1>d, <1>17, <3>1, <3>2, Zenon DEF Grouped
    <3> QED BY <1>12, <1>13, <1>16, <3>1, <3>3
  <2> QED BY <1>a, <2>1, <2>2
<1>19. ASSUME NEW c \in 1..n1, pcdb'[c].key \in PairKeys PROVE \E m \in 1..pi + e : pcdb'[c].key = PairKey(m)
  <2>1. CASE c \in 1..Len(pcdb)
    BY <1>4, <1>12, <1>19, <1>a, <2>1, Zenon DEF GroupInv
  <2>2. CASE c = n1
    <3>1. pi + 1 \in 1..pi + e
      BY <1>6
    <3> QED BY <1>d, <2>2, <3>1, Zenon
  <2> QED BY <1>13, <2>1, <2>2
<1>20. \A m \in 1..pi' : \A k \in pi' + 1..Len(px') : P!Less(px'[m], px'[k])
  BY <1>1, <1>c, <1>15, Zenon
<1>21. ppc' \notin {"idle", "sortip"}
  BY <1>1
<1> QED BY <1>1, <1>4, <1>12, <1>c, <1>17, <1>18, <1>19, <1>20, <1>21, Zenon DEF GroupInv

LEMMA GroupRead ==
  ASSUME P!PickBounds, SortInv, GroupInv, P!ReadLine
  PROVE  GroupInv'
<1> DEFINE line == pdata[plinenum]
           pair == [key |-> NetKey(line.prefix), data |-> <<line.location>>]
<1>1. /\ ppc = "reading" /\ plinenum <= Len(pdata) /\ ppc' \in {"reading", "died"}
      /\ pcdb' = IF line.c = "%" THEN Append(pcdb, pair) ELSE pcdb
  BY DEF P!ReadLine, NetKey
<1>2. ~Grouping /\ ~Grouping' /\ ppc' \notin {"idle", "sortip"}
  BY <1>1 DEF Grouping
<1>3. line \in PickLine
  BY <1>1 DEF SortInv, SortTypes
<1>4. line.c = "%" => pair \in [key : PairKeys \cup NetKeys, data : Seq(Nat)] /\ pair.key \in NetKeys
  BY <1>3 DEF P!PickBounds, NetKeys
<1>5. pcdb \in Seq([key : PairKeys \cup NetKeys, data : Seq(Nat)]) /\ \A c \in 1..Len(pcdb) : pcdb[c].key \in NetKeys
  BY <1>2 DEF GroupInv
<1> HIDE DEF pair, line
<1>6. pcdb' \in Seq([key : PairKeys \cup NetKeys, data : Seq(Nat)]) /\ \A c \in 1..Len(pcdb') : pcdb'[c].key \in NetKeys
  <2>1. CASE line.c = "%"
    <3>1. pcdb' = Append(pcdb, pair) /\ pair \in [key : PairKeys \cup NetKeys, data : Seq(Nat)]
      BY <1>1, <1>4, <2>1
    <3>2. /\ pcdb' \in Seq([key : PairKeys \cup NetKeys, data : Seq(Nat)]) /\ Len(pcdb') = Len(pcdb) + 1
          /\ pcdb'[Len(pcdb) + 1] = pair /\ \A c \in 1..Len(pcdb) : pcdb'[c] = pcdb[c]
      BY <1>5, <3>1, AppendProperties
    <3>3. \A c \in 1..Len(pcdb') : c \in 1..Len(pcdb) \/ c = Len(pcdb) + 1
      BY <1>5, <3>2
    <3> QED BY <1>4, <1>5, <2>1, <3>2, <3>3, Zenon
  <2> QED BY <1>1, <1>5, <2>1
<1> QED BY <1>2, <1>6 DEF GroupInv

LEMMA GroupStep == P!PickBounds /\ SortInv /\ GroupInv /\ [P!Next]_P!vars => GroupInv'
<1> SUFFICES ASSUME P!PickBounds, SortInv, GroupInv, [P!Next]_P!vars PROVE GroupInv'
  OBVIOUS
<1>1. CASE P!EndOfData \/ P!Outer \/ P!Down \/ P!Up
  <2>1. ~Grouping /\ ~Grouping' /\ ppc' \notin {"idle", "sortip"} /\ pcdb' = pcdb
    BY <1>1 DEF Grouping, P!EndOfData, P!Outer, P!Down, P!Up
  <2> QED BY <2>1 DEF GroupInv
<1>2. CASE P!Sorted
  <2>1. ~Grouping /\ Grouping' /\ ppc' = "group" /\ pcdb' = pcdb /\ pi' = 0
    BY <1>2 DEF Grouping, P!Sorted
  <2>2. 1..0 = {}
    OBVIOUS
  <2>3. \A c \in 1..Len(pcdb) : pcdb[c].key \notin PairKeys
    BY <2>1, KeysApart DEF GroupInv
  <2>4. ppc' \notin {"idle", "sortip"}
    BY <2>1
  <2> QED BY <2>1, <2>2, <2>3, <2>4, Zenon DEF GroupInv
<1>3. CASE \/ P!Finish \/ P!Answer \/ P!Shuffle
           \/ \E name \in PickName, qtype \in PickType, ip \in PickClient : P!Ask(name, qtype, ip)
           \/ UNCHANGED P!vars
  <2>1. pcdb' = pcdb /\ px' = px /\ pi' = pi /\ Grouping' = Grouping
    <3>1. CASE P!Finish \/ P!Answer \/ P!Shuffle \/ UNCHANGED P!vars
      BY <3>1 DEF P!Finish, P!Answer, P!Shuffle, P!vars, P!compiler, Grouping
    <3>2. CASE \E name \in PickName, qtype \in PickType, ip \in PickClient : P!Ask(name, qtype, ip)
      BY <3>2 DEF P!Ask, P!NoAddresses, P!compiler, Grouping
    <3> QED BY <1>3, <3>1, <3>2
  <2>2. ppc' \in {"idle", "sortip"} => pi = Len(px)
    <3>1. CASE P!Finish
      <4>1. pi >= Len(px) /\ pi \in 0..Len(px) /\ px \in Seq(P!Address)
        BY <3>1 DEF P!Finish, SortInv, SortTypes
      <4> QED BY <4>1
    <3>2. CASE P!Answer \/ P!Shuffle \/ UNCHANGED P!vars
      BY <3>2 DEF P!Answer, P!Shuffle, P!vars, GroupInv
    <3>3. CASE \E name \in PickName, qtype \in PickType, ip \in PickClient : P!Ask(name, qtype, ip)
      BY <3>3 DEF P!Ask, GroupInv
    <3> QED BY <1>3, <3>1, <3>2, <3>3
  <2>3. \A m : PairKey(m)' = PairKey(m)
    BY <2>1 DEF PairKey
  <2>4. \A c, m : Grouped(c, m)' = Grouped(c, m)
    BY <2>1, <2>3 DEF Grouped
  <2> QED BY <2>1, <2>2, <2>3, <2>4, Zenon DEF GroupInv
<1> QED BY <1>1, <1>2, <1>3, GroupGroup, GroupRead DEF P!Next, P!Compile

-----------------------------------------------------------------------------
(* What a search finds.                                                    *)
LEMMA FindFirst ==
  ASSUME NEW key, NEW f \in 1..Len(pcdb), pcdb[f].key = key, \A c \in 1..Len(pcdb) : pcdb[c].key = key => f <= c
  PROVE  P!Find(key) = pcdb[f].data
<1> DEFINE S == {m \in 1..Len(pcdb) : pcdb[m].key = key}
           g == CHOOSE m \in S : \A k \in S : m <= k
<1>1. f \in S /\ \A k \in S : f <= k
  OBVIOUS
<1>2. g \in S /\ \A k \in S : g <= k
  <2> HIDE DEF S
  <2> QED BY <1>1, Zenon
<1>3. \A k \in S : k \in Int
  OBVIOUS
<1> HIDE DEF S
<1>4. g <= f /\ f <= g /\ g \in Int /\ f \in Int
  BY <1>1, <1>2, <1>3, Zenon
<1>5. g = f
  <2> HIDE DEF g
  <2> QED BY <1>4
<1>6. S # {}
  BY <1>1
<1>7. P!Find(key) = IF S = {} THEN <<>> ELSE pcdb[g].data
  BY Zenon DEF P!Find, S
<1> QED BY <1>5, <1>6, <1>7, Zenon

LEMMA FindNone ==
  ASSUME NEW key, \A c \in 1..Len(pcdb) : pcdb[c].key # key
  PROVE  P!Find(key) = <<>>
<1>1. {m \in 1..Len(pcdb) : pcdb[m].key = key} = {}
  BY Zenon
<1> QED BY <1>1, Zenon DEF P!Find

(* The networks: of a prefix the first pair, made from the first line.     *)
NetLines(p) == {m \in 1..plinenum - 1 : pdata[m].c = "%" /\ pdata[m].prefix = p}
FirstNet(p, l, f) ==
  /\ l \in NetLines(p) /\ \A k \in NetLines(p) : l <= k
  /\ f \in 1..Len(pcdb) /\ pcdb[f].key = NetKey(p) /\ pcdb[f].data = <<pdata[l].location>>
  /\ \A c \in 1..Len(pcdb) : pcdb[c].key = NetKey(p) => f <= c
NetInv ==
  \A p : /\ NetLines(p) = {} => \A c \in 1..Len(pcdb) : pcdb[c].key # NetKey(p)
         /\ NetLines(p) # {} => \E l, f : FirstNet(p, l, f)

LEMMA NetSame ==
  ASSUME NetInv, pdata' = pdata, plinenum' = plinenum, pcdb' = pcdb
  PROVE  NetInv'
<1>1. \A p : NetLines(p)' = NetLines(p)
  BY DEF NetLines
<1>2. \A p, l, f : FirstNet(p, l, f)' = FirstNet(p, l, f)
  BY <1>1, Zenon DEF FirstNet
<1> QED BY <1>1, <1>2, Zenon DEF NetInv

(* A pair is added for a line that is read, or for no line.                *)
LEMMA NetAdds ==
  ASSUME NEW pair, NEW L \in Nat, NEW N \in Nat, L = Len(pcdb), N = plinenum - 1, pcdb \in Seq([key : PairKeys \cup NetKeys, data : Seq(Nat)]),
         NetInv, pdata' = pdata, Len(pcdb') = L + 1, pcdb'[L + 1] = pair, \A c \in 1..L : pcdb'[c] = pcdb[c],
         NEW p, \/ NetLines(p)' = NetLines(p) /\ pair.key # NetKey(p)
                \/ NetLines(p)' = NetLines(p) \cup {N + 1} /\ pair.key = NetKey(p) /\ pair.data = <<pdata[N + 1].location>>
  PROVE  \/ NetLines(p)' # {} /\ \E l, f : FirstNet(p, l, f)'
         \/ NetLines(p)' = {} /\ \A c \in 1..Len(pcdb') : pcdb'[c].key # NetKey(p)
<1>1. \A c : c \in 1..L + 1 <=> c \in 1..L \/ c = L + 1
  OBVIOUS
<1>2. \A c \in 1..L : c \in 1..L + 1 /\ c < L + 1
  OBVIOUS
<1>3. \A m \in NetLines(p) : m \in Nat /\ m <= N
  BY DEF NetLines
<1>4. CASE NetLines(p) # {}
  <2>1. PICK l, f : FirstNet(p, l, f)
    BY <1>4 DEF NetInv
  <2>2. l \in NetLines(p)' /\ \A k \in NetLines(p)' : l <= k
    <3>1. l \in NetLines(p) /\ \A k \in NetLines(p) : l <= k
      BY <2>1 DEF FirstNet
    <3>2. l <= N + 1
      BY <1>3, <3>1
    <3> QED BY <3>1, <3>2
  <2>3. f \in 1..L /\ pcdb'[f] = pcdb[f]
    BY <2>1 DEF FirstNet
  <2>4. pcdb'[f].key = NetKey(p) /\ pcdb'[f].data = <<pdata[l].location>>
    BY <2>1, <2>3 DEF FirstNet
  <2>5. \A c \in 1..L + 1 : pcdb'[c].key = NetKey(p) => f <= c
    <3> SUFFICES ASSUME NEW c \in 1..L + 1, pcdb'[c].key = NetKey(p) PROVE f <= c
      OBVIOUS
    <3>1. CASE c \in 1..L
      BY <2>1, <3>1 DEF FirstNet
    <3>2. CASE c = L + 1
      BY <2>3, <3>2
    <3> QED BY <1>1, <3>1, <3>2
  <2>6. FirstNet(p, l, f)'
    <3>1. f \in 1..L + 1
      BY <2>3
    <3> QED BY <2>2, <2>4, <2>5, <3>1, Zenon DEF FirstNet, NetKey
  <2>7. NetLines(p)' # {}
    BY <2>2
  <2> QED BY <2>6, <2>7, Zenon
<1>5. CASE NetLines(p) = {}
  <2>1. \A c \in 1..L : pcdb[c].key # NetKey(p)
    BY <1>5 DEF NetInv
  <2>2. CASE NetLines(p)' = NetLines(p)
    <3>1. pair.key # NetKey(p)
      BY <1>5, <2>2
    <3> QED BY <1>1, <1>5, <2>1, <2>2, <3>1
  <2>3. CASE NetLines(p)' # NetLines(p)
    <3>1. NetLines(p)' = {N + 1} /\ pair.key = NetKey(p) /\ pair.data = <<pdata[N + 1].location>>
      BY <1>5, <2>3
    <3>2. N + 1 \in NetLines(p)' /\ \A k \in NetLines(p)' : N + 1 <= k
      BY <3>1
    <3>3. \A c \in 1..L + 1 : pcdb'[c].key = NetKey(p) => L + 1 <= c
      <4>1. \A c \in 1..L : pcdb'[c].key # NetKey(p)
        BY <2>1
      <4> QED BY <1>1, <4>1
    <3>4. FirstNet(p, N + 1, L + 1)'
      <4>1. L + 1 \in 1..L + 1
        OBVIOUS
      <4> DEFINE n1 == N + 1
                 l1 == L + 1
      <4>2. /\ n1 \in NetLines(p)' /\ (\A k \in NetLines(p)' : n1 <= k) /\ l1 \in 1..Len(pcdb') /\ pcdb'[l1].key = NetKey(p)
            /\ pcdb'[l1].data = <<pdata[n1].location>> /\ (\A c \in 1..Len(pcdb') : pcdb'[c].key = NetKey(p) => l1 <= c)
        BY <3>1, <3>2, <3>3, <4>1
      <4> HIDE DEF n1, l1
      <4>3. FirstNet(p, n1, l1)'
        BY <4>2, Zenon DEF FirstNet, NetKey
      <4> QED BY <4>3 DEF n1, l1
    <3> QED BY <3>2, <3>4, Zenon
  <2> QED BY <2>2, <2>3
<1> QED BY <1>4, <1>5

LEMMA NetStep == P!PickBounds /\ SortInv /\ GroupInv /\ NetInv /\ [P!Next]_P!vars => NetInv'
<1> SUFFICES ASSUME P!PickBounds, SortInv, GroupInv, NetInv, [P!Next]_P!vars PROVE NetInv'
  OBVIOUS
<1>0. /\ pcdb \in Seq([key : PairKeys \cup NetKeys, data : Seq(Nat)]) /\ Len(pcdb) \in Nat
      /\ plinenum \in Nat /\ plinenum >= 1 /\ plinenum - 1 \in Nat /\ (plinenum - 1) + 1 = plinenum
  BY DEF GroupInv, SortInv, SortTypes
<1>1. CASE P!ReadLine
  <2> DEFINE line == pdata[plinenum]
             pair == [key |-> NetKey(line.prefix), data |-> <<line.location>>]
  <2>1. pdata' = pdata /\ plinenum' = plinenum + 1 /\ pcdb' = IF line.c = "%" THEN Append(pcdb, pair) ELSE pcdb
    BY <1>1 DEF P!ReadLine, NetKey
  <2>2. ASSUME NEW p PROVE NetLines(p)' = IF line.c = "%" /\ line.prefix = p THEN NetLines(p) \cup {plinenum} ELSE NetLines(p)
    <3>1. NetLines(p)' = {m \in 1..plinenum : pdata[m].c = "%" /\ pdata[m].prefix = p}
      <4>1. (plinenum + 1) - 1 = plinenum
        BY <1>0
      <4> QED BY <2>1, <4>1 DEF NetLines
    <3>2. \A m : m \in 1..plinenum <=> m \in 1..plinenum - 1 \/ m = plinenum
      BY <1>0
    <3>3. \A m : m \in NetLines(p)' <=> m \in NetLines(p) \/ (m = plinenum /\ line.c = "%" /\ line.prefix = p)
      BY <3>1, <3>2, Zenon DEF NetLines
    <3> HIDE DEF line
    <3> QED BY <3>3
  <2> HIDE DEF line
  <2>3. CASE line.c = "%"
    <3> DEFINE l1 == Len(pcdb) + 1
    <3>1. Len(pcdb') = l1 /\ pcdb'[l1] = pair /\ \A c \in 1..Len(pcdb) : pcdb'[c] = pcdb[c]
      <4>1. pcdb' = Append(pcdb, pair)
        BY <2>1, <2>3
      <4> HIDE DEF pair
      <4> QED BY <1>0, <4>1
    <3>2. \A p : NetKey(p) = NetKey(line.prefix) <=> p = line.prefix
      BY DEF NetKey
    <3>3. ASSUME NEW p
          PROVE  \/ NetLines(p)' # {} /\ \E l, f : FirstNet(p, l, f)'
                 \/ NetLines(p)' = {} /\ \A c \in 1..Len(pcdb') : pcdb'[c].key # NetKey(p)
      <4>1. \/ NetLines(p)' = NetLines(p) /\ pair.key # NetKey(p)
            \/ NetLines(p)' = NetLines(p) \cup {plinenum} /\ pair.key = NetKey(p) /\ pair.data = <<pdata[plinenum].location>>
        BY <2>2, <2>3, <3>2 DEF line
      <4> HIDE DEF pair
      <4>2. PICK N \in Nat : N = plinenum - 1 /\ N + 1 = plinenum
        BY <1>0
      <4>3. \/ NetLines(p)' = NetLines(p) /\ pair.key # NetKey(p)
            \/ NetLines(p)' = NetLines(p) \cup {N + 1} /\ pair.key = NetKey(p) /\ pair.data = <<pdata[N + 1].location>>
        BY <4>1, <4>2
      <4>4. pdata' = pdata /\ plinenum' = plinenum + 1
        BY <2>1
      <4> QED BY <1>0, <3>1, <4>2, <4>3, <4>4, NetAdds
    <3>4. \A p : NetKey(p)' = NetKey(p)
      BY DEF NetKey
    <3> QED BY <3>3, <3>4, Zenon DEF NetInv
  <2>4. CASE line.c # "%"
    <3>1. pcdb' = pcdb /\ \A p : NetLines(p)' = NetLines(p)
      BY <2>1, <2>2, <2>4
    <3>2. \A p, l, f : FirstNet(p, l, f)' = FirstNet(p, l, f)
      BY <2>1, <3>1, Zenon DEF FirstNet
    <3> QED BY <3>1, <3>2, Zenon DEF NetInv
  <2> QED BY <2>3, <2>4
<1>2. CASE P!Group
  <2>1. pdata' = pdata /\ plinenum' = plinenum /\ pcdb' = Append(pcdb, P!Pair(pi + 1))
    BY <1>2 DEF P!Group
  <2> DEFINE l1 == Len(pcdb) + 1
             pair == P!Pair(pi + 1)
  <2>2. Len(pcdb') = l1 /\ pcdb'[l1] = pair /\ \A c \in 1..Len(pcdb) : pcdb'[c] = pcdb[c]
    <3> HIDE DEF pair
    <3>1. pcdb' = Append(pcdb, pair)
      BY <2>1 DEF pair
    <3> QED BY <1>0, <3>1
  <2>3. ASSUME NEW p
        PROVE  \/ NetLines(p)' # {} /\ \E l, f : FirstNet(p, l, f)'
               \/ NetLines(p)' = {} /\ \A c \in 1..Len(pcdb') : pcdb'[c].key # NetKey(p)
    <3>1. NetLines(p)' = NetLines(p)
      BY <2>1 DEF NetLines
    <3>2. pair.key # NetKey(p)
      BY NetKeysDiffer DEF P!Pair
    <3> HIDE DEF pair
    <3> QED BY <1>0, <2>1, <2>2, <3>1, <3>2, NetAdds
  <2>4. \A p : NetKey(p)' = NetKey(p)
    BY DEF NetKey
  <2> QED BY <2>3, <2>4, Zenon DEF NetInv
<1>3. CASE \/ P!EndOfData \/ P!Outer \/ P!Down \/ P!Up \/ P!Sorted \/ P!Finish \/ P!Answer \/ P!Shuffle \/ UNCHANGED P!vars
  BY <1>3, NetSame DEF P!EndOfData, P!Outer, P!Down, P!Up, P!Sorted, P!Finish, P!Answer, P!Shuffle, P!vars, P!compiler
<1>4. CASE \E name \in PickName, qtype \in PickType, ip \in PickClient : P!Ask(name, qtype, ip)
  BY <1>4, NetSame DEF P!Ask, P!NoAddresses, P!compiler
<1> QED BY <1>1, <1>2, <1>3, <1>4 DEF P!Next, P!Compile

-----------------------------------------------------------------------------
(* What the server finds of a name and a place is what the file has.       *)
Complete == SortInv /\ GroupInv /\ NetInv /\ ppc \in {"idle", "sortip"}

LEMMA CompleteCounted ==
  ASSUME Complete
  PROVE  /\ \A a : Cardinality(P!Indices(px, a)) = Cardinality(P!Lines(a))
         /\ \A a : IsFiniteSet(P!Indices(px, a)) /\ IsFiniteSet(P!Lines(a))
         /\ pdata \in Seq(PickLine) /\ px \in Seq(P!Address) /\ pi = Len(px) /\ Grouping /\ plinenum = Len(pdata) + 1
<1>1. Held = px /\ plinenum = Len(pdata) + 1 /\ pdata \in Seq(PickLine) /\ px \in Seq(P!Address) /\ pi = Len(px) /\ Grouping
  BY DEF Complete, SortInv, SortTypes, HeapInv, Held, GroupInv, Grouping
<1>2. \A a : LinesRead(a) = P!Lines(a)
  BY <1>1 DEF LinesRead, P!Lines
<1>3. \A a : Cardinality(P!Indices(px, a)) = Cardinality(P!Lines(a))
  BY <1>1, <1>2, Zenon DEF Complete, SortInv, Counted
<1>4. ASSUME NEW a PROVE IsFiniteSet(P!Indices(px, a)) /\ IsFiniteSet(P!Lines(a))
  <2>1. Len(px) \in Nat /\ Len(pdata) \in Nat
    BY <1>1
  <2>2. IsFiniteSet(1..Len(px)) /\ IsFiniteSet(1..Len(pdata))
    BY <2>1, FS_Interval
  <2>3. P!Indices(px, a) \subseteq 1..Len(px) /\ P!Lines(a) \subseteq 1..Len(pdata)
    BY <1>1 DEF P!Indices, P!Lines
  <2> QED BY <2>2, <2>3, FS_Subset
<1> QED BY <1>1, <1>3, <1>4

(* Sets with as many elements have one or have none.                       *)
LEMMA NoneOfBoth ==
  ASSUME NEW S, IsFiniteSet(S), NEW T, IsFiniteSet(T), Cardinality(S) = Cardinality(T)
  PROVE  S = {} <=> T = {}
BY FS_EmptySet

LEMMA FoundIs ==
  ASSUME P!PickBounds, Complete, NEW l, NEW m
  PROVE  /\ P!Find(<<"+", l, m>>) \in Seq(Nat)
         /\ P!Find(<<"+", l, m>>) = <<>> <=> P!Of(l, m) = {}
         /\ P!Range(P!Find(<<"+", l, m>>)) \subseteq {a.ip : a \in P!Of(l, m)}
         /\ \A a \in P!Of(l, m) : \A ip :
              Cardinality(P!Indices(P!Find(<<"+", l, m>>), ip)) = Cardinality(P!Lines(Holding(a, ip)))
<1> DEFINE K == <<"+", l, m>>
           kept == P!Find(K)
<1>1. /\ \A a : Cardinality(P!Indices(px, a)) = Cardinality(P!Lines(a))
      /\ \A a : IsFiniteSet(P!Indices(px, a)) /\ IsFiniteSet(P!Lines(a))
      /\ pdata \in Seq(PickLine) /\ px \in Seq(P!Address) /\ pi = Len(px) /\ Grouping
  BY CompleteCounted
<1>2. pcdb \in Seq([key : PairKeys \cup NetKeys, data : Seq(Nat)])
  BY DEF Complete, GroupInv
<1>a. \A c \in 1..Len(pcdb) : pcdb[c].key \in PairKeys \cup NetKeys /\ pcdb[c].data \in Seq(Nat) /\ c \in Int
  <2> SUFFICES ASSUME NEW c \in 1..Len(pcdb) PROVE pcdb[c].key \in PairKeys \cup NetKeys /\ pcdb[c].data \in Seq(Nat)
    OBVIOUS
  <2>1. pcdb[c] \in [key : PairKeys \cup NetKeys, data : Seq(Nat)]
    BY <1>2, ElementOfSeq, Zenon
  <2> QED BY <2>1, Zenon
<1>3. ASSUME NEW a \in P!Of(l, m)
      PROVE  a \in P!Address /\ a.location = l /\ a.name = m /\ \E k \in 1..Len(px) : px[k] = a
  <2>1. a.location = l /\ a.name = m /\ a \in P!Addresses
    BY DEF P!Of
  <2>2. PICK d \in 1..Len(pdata) : pdata[d].c = "+" /\ pdata[d].address = a
    BY <1>1, <2>1 DEF P!Addresses
  <2>3. a \in P!Address
    BY <1>1, <2>2 DEF P!PickBounds
  <2>4. d \in P!Lines(a)
    BY <1>1, <2>2 DEF P!Lines
  <2>5. P!Indices(px, a) # {}
    BY <1>1, <2>4, NoneOfBoth
  <2> QED BY <1>1, <2>1, <2>3, <2>5 DEF P!Indices
<1>4. ASSUME NEW k \in 1..Len(px), NEW ip, P!Indices(px, Holding(px[k], ip)) # {}
      PROVE  Holding(px[k], ip) \in P!Of(px[k].location, px[k].name)
  <2>1. P!Lines(Holding(px[k], ip)) # {}
    BY <1>1, <1>4, NoneOfBoth
  <2>2. Holding(px[k], ip) \in P!Addresses
    BY <2>1 DEF P!Lines, P!Addresses
  <2> QED BY <2>2 DEF P!Of, Holding
<1>5. \A a \in P!Address : Holding(a, a.ip) = a
  BY DEF P!Address, Holding
<1>6. CASE \E k \in 1..Len(px) : PairKey(k) = K
  <2>1. PICK k \in 1..Len(px) : PairKey(k) = K
    BY <1>6
  <2>2. PICK c \in 1..Len(pcdb) : Grouped(c, k) /\ \A b \in 1..Len(pcdb) : pcdb[b].key = PairKey(k) => b = c
    BY <1>1, <2>1 DEF Complete, GroupInv
  <2>3. kept = pcdb[c].data
    <3>1. pcdb[c].key = K /\ \A b \in 1..Len(pcdb) : pcdb[b].key = K => c <= b
      <4>1. \A b \in 1..Len(pcdb) : b = c => c <= b
        BY <1>a
      <4> HIDE DEF K
      <4> QED BY <2>1, <2>2, <4>1, Zenon DEF Grouped
    <3> HIDE DEF K
    <3> QED BY <3>1, FindFirst
  <2>4. kept \in Seq(Nat)
    BY <1>a, <2>3, Zenon
  <2>5. px[k].location = l /\ px[k].name = m /\ px[k] \in P!Address
    BY <1>1, <2>1 DEF PairKey
  <2>6. \A ip : Cardinality(P!Indices(kept, ip)) = Cardinality(P!Indices(px, Holding(px[k], ip)))
    BY <2>2, <2>3, Zenon DEF Grouped
  <2> HIDE DEF kept
  <2>7. \A ip : IsFiniteSet(P!Indices(kept, ip))
    <3> SUFFICES ASSUME NEW ip PROVE IsFiniteSet(P!Indices(kept, ip))
      OBVIOUS
    <3>1. IsFiniteSet(1..Len(kept))
      <4>1. Len(kept) \in Nat
        BY <2>4
      <4> QED BY <4>1, FS_Interval
    <3>2. P!Indices(kept, ip) \subseteq 1..Len(kept)
      BY <2>4 DEF P!Indices
    <3> QED BY <3>1, <3>2, FS_Subset
  <2>8. \A ip : P!Indices(kept, ip) = {} <=> P!Indices(px, Holding(px[k], ip)) = {}
    BY <1>1, <2>6, <2>7, NoneOfBoth
  <2>9. px[k] \in P!Of(l, m) /\ kept # <<>>
    <3>1. k \in P!Indices(px, Holding(px[k], px[k].ip))
      <4>1. px[k] = Holding(px[k], px[k].ip)
        BY <1>5, <2>5
      <4> QED BY <1>1, <4>1 DEF P!Indices
    <3>2. Holding(px[k], px[k].ip) \in P!Of(l, m)
      BY <1>4, <2>5, <3>1
    <3>3. P!Indices(kept, px[k].ip) # {}
      BY <2>8, <3>1
    <3> QED BY <1>5, <2>5, <3>2, <3>3 DEF P!Indices
  <2>10. ASSUME NEW ip \in P!Range(kept) PROVE ip \in {a.ip : a \in P!Of(l, m)}
    <3>1. P!Indices(kept, ip) # {}
      BY DEF P!Range, P!Indices
    <3>2. Holding(px[k], ip) \in P!Of(l, m)
      BY <1>4, <2>5, <2>8, <3>1
    <3>3. Holding(px[k], ip).ip = ip
      BY DEF Holding
    <3> QED BY <3>2, <3>3
  <2>11. ASSUME NEW a \in P!Of(l, m), NEW ip
         PROVE  Cardinality(P!Indices(kept, ip)) = Cardinality(P!Lines(Holding(a, ip)))
    <3>1. Holding(a, ip) = Holding(px[k], ip)
      BY <1>3, <2>5 DEF Holding
    <3> QED BY <1>1, <2>6, <3>1
  <2>12. ~(kept = <<>>) /\ ~(P!Of(l, m) = {})
    BY <2>9
  <2> QED BY <2>4, <2>10, <2>11, <2>12 DEF kept
<1>7. CASE \A k \in 1..Len(px) : PairKey(k) # K
  <2>1. \A c \in 1..Len(pcdb) : pcdb[c].key # K
    <3> SUFFICES ASSUME NEW c \in 1..Len(pcdb), pcdb[c].key = K PROVE FALSE
      OBVIOUS
    <3>1. K \notin NetKeys
      BY NetKeysDiffer DEF NetKeys
    <3>2. pcdb[c].key \in PairKeys
      <4> HIDE DEF K
      <4> QED BY <1>a, <3>1, Zenon
    <3> QED BY <1>1, <1>7, <3>2 DEF Complete, GroupInv
  <2>2. kept = <<>>
    <3> HIDE DEF K
    <3> QED BY <2>1, FindNone
  <2>3. P!Of(l, m) = {}
    <3> SUFFICES ASSUME NEW a \in P!Of(l, m) PROVE FALSE
      OBVIOUS
    <3>1. PICK k \in 1..Len(px) : px[k] = a
      BY <1>3
    <3> QED BY <1>3, <1>7, <3>1 DEF PairKey
  <2>4. P!Range(<<>>) = {} /\ <<>> \in Seq(Nat)
    BY DEF P!Range
  <2> HIDE DEF kept
  <2>5. P!Range(kept) = {} /\ kept \in Seq(Nat)
    BY <2>2, <2>4
  <2> QED BY <2>2, <2>3, <2>5 DEF kept
<1> QED BY <1>6, <1>7

LEMMA ServedSays ==
  ASSUME P!PickBounds, SortInv, GroupInv, NetInv
  PROVE  P!AllServed
<1> SUFFICES ASSUME ppc = "idle", NEW a \in P!Addresses, NEW ip
             PROVE  Cardinality(P!Indices(P!Find(<<"+", a.location, a.name>>), ip)) = Cardinality(P!Lines([a EXCEPT !.ip = ip]))
  BY SameCount, Zenon DEF P!AllServed
<1>1. Complete
  BY DEF Complete
<1>2. a \in P!Of(a.location, a.name)
  BY DEF P!Of
<1>3. a \in P!Address
  <2>1. pdata \in Seq(PickLine)
    BY DEF SortInv, SortTypes
  <2> QED BY <2>1 DEF P!Addresses, P!PickBounds
<1>4. [a EXCEPT !.ip = ip] = Holding(a, ip)
  BY <1>3 DEF P!Address, Holding
<1> QED BY <1>1, <1>2, <1>4, FoundIs

(* The place that is kept for a client is the one the file gives it.      *)
LEMMA PlaceIs ==
  ASSUME P!PickBounds, Complete, NEW ip \in PickClient
  PROVE  P!Location(ip) = P!Place(ip)
<1> DEFINE N == P!Networks(ip)
           L == P!Nets(ip)
           begin(m) == SubSeq(ip, 1, m)
<1>1. ip \in Seq(Nat) /\ Len(ip) = Octets /\ Octets \in Nat
  <2>1. ip \in [1..Octets -> Nat] /\ Octets \in Nat
    BY DEF P!PickBounds
  <2> QED BY <2>1, IsASeq
<1>2. \A m \in 1..Octets : begin(m) \in Seq(Nat) /\ Len(begin(m)) = m
  BY <1>1
<1>3. pdata \in Seq(PickLine) /\ plinenum - 1 = Len(pdata) /\ Len(pdata) \in Nat
  <2>1. pdata \in Seq(PickLine) /\ plinenum = Len(pdata) + 1
    BY CompleteCounted
  <2> QED BY <2>1
<1>4. \A p, m : m \in NetLines(p) <=> m \in 1..Len(pdata) /\ pdata[m].c = "%" /\ pdata[m].prefix = p
  BY <1>3, Zenon DEF NetLines
<1> HIDE DEF begin
<1>5. \A m : m \in L <=> m \in 1..Len(pdata) /\ pdata[m].c = "%" /\ Len(pdata[m].prefix) \in 1..Octets
                         /\ pdata[m].prefix = begin(Len(pdata[m].prefix))
  BY <1>1, Zenon DEF P!Nets, begin
<1>6. \A p : \/ NetLines(p) = {} /\ P!Find(NetKey(p)) = <<>>
             \/ \E l \in NetLines(p) : (\A k \in NetLines(p) : l <= k) /\ P!Find(NetKey(p)) = <<pdata[l].location>>
  <2> SUFFICES ASSUME NEW p, NetLines(p) # {}
               PROVE \E l \in NetLines(p) : (\A k \in NetLines(p) : l <= k) /\ P!Find(NetKey(p)) = <<pdata[l].location>>
    BY FindNone DEF Complete, NetInv
  <2>1. PICK l, f : FirstNet(p, l, f)
    BY DEF Complete, NetInv
  <2>2. P!Find(NetKey(p)) = pcdb[f].data
    BY <2>1, FindFirst DEF FirstNet
  <2> QED BY <2>1, <2>2 DEF FirstNet
<1>7. \A m : m \in N <=> m \in 1..Octets /\ NetLines(begin(m)) # {}
  <2>1. \A m : m \in N <=> m \in 1..Octets /\ P!Find(NetKey(begin(m))) # <<>>
    BY Zenon DEF P!Networks, NetKey, begin
  <2>2. \A z : <<z>> # <<>>
    OBVIOUS
  <2> HIDE DEF N
  <2> QED BY <1>6, <2>1, <2>2, Zenon
<1> HIDE DEF N, L
<1>8. CASE N = {}
  <2>1. L = {}
    <3> SUFFICES ASSUME NEW l \in L PROVE FALSE
      OBVIOUS
    <3>1. Len(pdata[l].prefix) \in N
      BY <1>4, <1>5, <1>7, Zenon
    <3> QED BY <1>8, <3>1
  <2> QED BY <1>8, <2>1, Zenon DEF P!Location, P!Place, N, L
<1>9. CASE N # {}
  <2>1. \E m \in N : \A k \in N : m >= k
    <3> DEFINE T == {k \in Nat : Octets - k \in N}
    <3>1. PICK m \in N : TRUE
      BY <1>9
    <3>2. Octets - m \in T
      BY <1>1, <1>7, <3>1
    <3>3. T \in SUBSET Nat
      OBVIOUS
    <3>4. PICK k \in T : \A l \in T : k <= l
      <4> HIDE DEF T
      <4> QED BY <3>2, <3>3, LeastNatural
    <3>5. Octets - k \in N /\ k \in Nat
      OBVIOUS
    <3>6. ASSUME NEW l \in N PROVE Octets - k >= l
      <4>1. l \in 1..Octets
        BY <1>7
      <4>2. Octets - l \in Nat /\ Octets - (Octets - l) = l
        BY <1>1, <4>1
      <4>3. Octets - l \in T
        BY <4>2
      <4>4. k <= Octets - l
        BY <3>4, <4>3
      <4> QED BY <1>1, <3>5, <4>1, <4>4
    <3> QED BY <3>5, <3>6
  <2> DEFINE m == CHOOSE m \in N : \A k \in N : m >= k
  <2>2. m \in N /\ \A k \in N : m >= k
    BY <2>1, Zenon
  <2> HIDE DEF m
  <2>3. m \in 1..Octets /\ NetLines(begin(m)) # {}
    BY <1>7, <2>2
  <2>4. PICK l \in NetLines(begin(m)) : (\A k \in NetLines(begin(m)) : l <= k) /\ P!Find(NetKey(begin(m))) = <<pdata[l].location>>
    BY <1>6, <2>3, Zenon
  <2>5. P!Location(ip) = pdata[l].location
    <3>1. P!Location(ip) = P!Find(NetKey(begin(m)))[1]
      BY <1>9, Zenon DEF P!Location, NetKey, begin, m, N
    <3> QED BY <2>4, <3>1
  <2>6. l \in L /\ Len(pdata[l].prefix) = m
    BY <1>2, <1>4, <1>5, <2>3, <2>4
  <2> DEFINE Best(k) == \A o \in L : \/ Len(pdata[k].prefix) > Len(pdata[o].prefix)
                                     \/ Len(pdata[k].prefix) = Len(pdata[o].prefix) /\ k <= o
  <2>7. \A o \in L : Len(pdata[o].prefix) \in N /\ o \in NetLines(begin(Len(pdata[o].prefix))) /\ o \in Nat
    BY <1>4, <1>5, <1>7
  <2>8. \A o \in L : Len(pdata[o].prefix) \in Nat /\ Len(pdata[o].prefix) <= m
    BY <1>7, <2>2, <2>7, <2>3
  <2>9. Best(l)
    <3> SUFFICES ASSUME NEW o \in L PROVE \/ Len(pdata[l].prefix) > Len(pdata[o].prefix)
                                          \/ Len(pdata[l].prefix) = Len(pdata[o].prefix) /\ l <= o
      OBVIOUS
    <3>1. CASE Len(pdata[o].prefix) = m
      BY <2>4, <2>6, <2>7, <3>1
    <3>2. CASE Len(pdata[o].prefix) # m
      BY <2>3, <2>6, <2>8, <3>2
    <3> QED BY <3>1, <3>2
  <2>10. ASSUME NEW k \in L, Best(k) PROVE k = l
    <3>1. k \in Nat /\ l \in Nat /\ Len(pdata[k].prefix) <= m
      BY <2>6, <2>7, <2>8
    <3>2. Len(pdata[k].prefix) = m /\ k <= l
      BY <2>6, <2>8, <2>10, <2>3
    <3>3. l <= k
      BY <2>4, <2>7, <3>2
    <3> QED BY <3>1, <3>2, <3>3
  <2>11. (CHOOSE k \in L : Best(k)) = l
    <3> HIDE DEF Best
    <3> QED BY <2>6, <2>9, <2>10, Zenon
  <2>12. P!Place(ip) = pdata[CHOOSE k \in L : Best(k)].location
    BY <2>6, Zenon DEF P!Place, L
  <2> QED BY <2>5, <2>11, <2>12, Zenon
<1> QED BY <1>8, <1>9

-----------------------------------------------------------------------------
(* What the server holds: addresses kept for the question, mixed.         *)
Mixed ==
  LET from == P!Cut(P!Stored(pasked.name, pasked.client), MaxData)
  IN Len(ips) = Len(from) /\ \A e : Cardinality(P!Indices(ips, e)) = Cardinality(P!Indices(from, e))
AnswerFits ==
  /\ P!Range(preply.a) \subseteq P!Range(ips)
  /\ Len(preply.a) = IF Len(ips) < MaxAnswer THEN Len(ips) ELSE MaxAnswer

ServInv ==
  /\ ips \in Seq(Nat) /\ pn \in 0..Len(ips) /\ preply.kind \in {"none", "silent", "refused", "found"}
  /\ ppc = "sortip" => pasked.client \in PickClient /\ preply.a = <<>> /\ Mixed
  /\ preply.a # <<>> => ppc = "idle" /\ pasked.client \in PickClient /\ Mixed /\ AnswerFits

LEMMA CutIs ==
  ASSUME NEW s \in Seq(Nat), NEW m \in Nat
  PROVE  /\ P!Cut(s, m) \in Seq(Nat)
         /\ Len(P!Cut(s, m)) = IF Len(s) < m THEN Len(s) ELSE m
         /\ P!Range(P!Cut(s, m)) \subseteq P!Range(s)
         /\ \A k \in 1..Len(P!Cut(s, m)) : P!Cut(s, m)[k] = s[k]
<1> DEFINE l == IF Len(s) < m THEN Len(s) ELSE m
           u == SubSeq(s, 1, l)
<1>1. P!Cut(s, m) = u
  BY Zenon DEF P!Cut
<1>2. l \in Nat /\ l <= Len(s) /\ Len(s) \in Nat
  OBVIOUS
<1> HIDE DEF l
<1>3. u \in Seq(Nat) /\ Len(u) = l /\ \A k \in 1..l : u[k] = s[k]
  BY <1>2
<1> HIDE DEF u
<1>4. P!Range(u) \subseteq P!Range(s)
  <2> SUFFICES ASSUME NEW k \in DOMAIN u PROVE u[k] \in P!Range(s)
    BY Zenon DEF P!Range
  <2>1. k \in 1..l /\ k \in DOMAIN s
    BY <1>2, <1>3
  <2> QED BY <1>3, <2>1 DEF P!Range
<1> QED BY <1>1, <1>3, <1>4 DEF l

LEMMA IndicesFinite ==
  ASSUME NEW s \in Seq(Nat), NEW e
  PROVE  IsFiniteSet(P!Indices(s, e)) /\ (P!Indices(s, e) # {} <=> e \in P!Range(s))
<1>1. Len(s) \in Nat /\ P!Indices(s, e) \subseteq 1..Len(s)
  BY DEF P!Indices
<1>2. IsFiniteSet(1..Len(s))
  BY <1>1, FS_Interval
<1>3. IsFiniteSet(P!Indices(s, e))
  BY <1>1, <1>2, FS_Subset
<1> QED BY <1>3 DEF P!Indices, P!Range

LEMMA StoredIs ==
  ASSUME P!PickBounds, Complete, NEW name, NEW ip
  PROVE  P!Stored(name, ip) \in Seq(Nat)
BY FoundIs, Zenon DEF P!Stored

LEMMA ServShuffle ==
  ASSUME P!PickBounds, SortInv, GroupInv, NetInv, ServInv, P!Shuffle
  PROVE  ServInv'
<1>1. /\ ppc = "sortip" /\ ppc' = ppc /\ pn > 1 /\ pn' = pn - 1 /\ pasked' = pasked /\ preply' = preply /\ pcdb' = pcdb
      /\ ips \in Seq(Nat) /\ pn \in 0..Len(ips) /\ pasked.client \in PickClient /\ preply.a = <<>> /\ Mixed
      /\ preply.kind \in {"none", "silent", "refused", "found"}
  BY DEF P!Shuffle, ServInv, P!compiler
<1>2. PICK k \in 1..pn : ips' = [ips EXCEPT ![k] = ips[pn], ![pn] = ips[k]]
  BY DEF P!Shuffle, P!Swap
<1>3. Len(ips) \in Nat /\ k \in 1..Len(ips) /\ pn \in 1..Len(ips) /\ DOMAIN ips = 1..Len(ips)
  BY <1>1
<1>4. ips' \in Seq(Nat) /\ Len(ips') = Len(ips) /\ DOMAIN ips' = 1..Len(ips)
  <2>1. ips[pn] \in Nat /\ ips[k] \in Nat
    BY <1>1, <1>3
  <2> QED BY <1>1, <1>2, <1>3, <2>1
<1>5. SwapOf(ips', ips, Len(ips), k, pn)
  BY <1>1, <1>2, <1>3 DEF SwapOf
<1>6. \A e : Cardinality(P!Indices(ips', e)) = Cardinality(P!Indices(ips, e))
  BY <1>3, <1>4, <1>5, Swapped
<1>7. P!Cut(P!Stored(pasked.name, pasked.client), MaxData)' = P!Cut(P!Stored(pasked.name, pasked.client), MaxData)
  <2>1. pasked' = pasked /\ pcdb' = pcdb
    BY <1>1
  <2> QED BY <2>1 DEF P!Stored, P!Find, P!Location, P!Networks, P!Cut
<1>8. Mixed'
  BY <1>1, <1>4, <1>6, <1>7, Zenon DEF Mixed
<1>9. pn - 1 \in 0..Len(ips)
  BY <1>1
<1> QED BY <1>1, <1>4, <1>8, <1>9 DEF ServInv

LEMMA ServAsk ==
  ASSUME P!PickBounds, SortInv, GroupInv, NetInv, ServInv, NEW name \in PickName, NEW qtype \in PickType, NEW ip \in PickClient, P!Ask(name, qtype, ip)
  PROVE  ServInv'
<1> DEFINE from == P!Cut(P!Stored(name, ip), MaxData)
<1>1. Complete /\ ppc = "idle" /\ pcdb' = pcdb /\ pasked' = [name |-> name, qtype |-> qtype, client |-> ip]
  BY DEF P!Ask, Complete, P!compiler
<1>2. \/ ips' = <<>> /\ pn' = 0 /\ preply'.a = <<>> /\ preply'.kind \in {"silent", "refused", "found"} /\ ppc' = "idle"
      \/ ips' = from /\ pn' = Len(ips') /\ preply'.a = <<>> /\ preply'.kind = "none" /\ ppc' = "sortip"
  BY DEF P!Ask, P!NoAddresses
<1>3. from \in Seq(Nat)
  <2>1. P!Stored(name, ip) \in Seq(Nat) /\ MaxData \in Nat
    BY <1>1, StoredIs DEF P!PickBounds
  <2> HIDE DEF from
  <2>2. \A s \in Seq(Nat), m \in Nat : P!Cut(s, m) \in Seq(Nat)
    BY CutIs
  <2> QED BY <2>1, <2>2, Zenon DEF from
<1>4. P!Cut(P!Stored(pasked.name, pasked.client), MaxData)' = from
  <2>1. pasked'.name = name /\ pasked'.client = ip
    BY <1>1
  <2>2. pcdb' = pcdb
    BY <1>1
  <2> QED BY <2>1, <2>2 DEF P!Stored, P!Find, P!Location, P!Networks, P!Cut
<1> HIDE DEF from
<1>5. ips' = from => Mixed'
  BY <1>4, Zenon DEF Mixed
<1>6. pasked'.client = ip
  BY <1>1
<1>7. ips' \in Seq(Nat) /\ pn' \in 0..Len(ips')
  <2>1. CASE ips' = <<>> /\ pn' = 0
    BY <2>1
  <2>2. CASE ips' = from /\ pn' = Len(ips')
    <3>1. ips' \in Seq(Nat)
      BY <1>3, <2>2
    <3>2. Len(ips') \in Nat
      BY <3>1
    <3> QED BY <2>2, <3>1, <3>2
  <2> QED BY <1>2, <2>1, <2>2
<1> QED BY <1>2, <1>5, <1>6, <1>7, Zenon DEF ServInv

LEMMA ServAnswer ==
  ASSUME P!PickBounds, SortInv, GroupInv, NetInv, ServInv, P!Answer
  PROVE  ServInv'
<1> DEFINE some == P!Cut(ips, MaxAnswer)
<1>1. /\ ppc = "sortip" /\ ppc' = "idle" /\ pn' = pn /\ ips' = ips /\ pasked' = pasked /\ pcdb' = pcdb
      /\ preply' = [kind |-> "found", a |-> P!Reverse(some)]
      /\ ips \in Seq(Nat) /\ pn \in 0..Len(ips) /\ pasked.client \in PickClient /\ Mixed
  BY DEF P!Answer, ServInv, P!compiler
<1>2. MaxAnswer \in Nat
  BY DEF P!PickBounds
<1>3. /\ some \in Seq(Nat) /\ Len(some) = (IF Len(ips) < MaxAnswer THEN Len(ips) ELSE MaxAnswer)
      /\ P!Range(some) \subseteq P!Range(ips)
  BY <1>1, <1>2, CutIs, Zenon
<1> HIDE DEF some
<1>4. Len(some) \in Nat
  BY <1>3
<1>5. Len(P!Reverse(some)) = Len(some) /\ P!Range(P!Reverse(some)) \subseteq P!Range(some)
  <2>1. \A k \in 1..Len(some) : (Len(some) - k) + 1 \in 1..Len(some)
    BY <1>4
  <2>2. P!Reverse(some) = [k \in 1..Len(some) |-> some[(Len(some) - k) + 1]]
    BY DEF P!Reverse
  <2>3. Len(P!Reverse(some)) = Len(some)
    BY <1>4, <2>2
  <2>4. DOMAIN some = 1..Len(some)
    BY <1>3
  <2>5. P!Range(P!Reverse(some)) \subseteq P!Range(some)
    BY <2>1, <2>2, <2>4, Zenon DEF P!Range
  <2> QED BY <2>3, <2>5
<1>6. preply'.a = P!Reverse(some) /\ preply'.kind = "found"
  BY <1>1
<1>7. AnswerFits'
  BY <1>1, <1>3, <1>5, <1>6, Zenon DEF AnswerFits
<1>8. P!Cut(P!Stored(pasked.name, pasked.client), MaxData)' = P!Cut(P!Stored(pasked.name, pasked.client), MaxData)
  <2>1. pasked' = pasked /\ pcdb' = pcdb
    BY <1>1
  <2> QED BY <2>1 DEF P!Stored, P!Find, P!Location, P!Networks, P!Cut
<1>9. Mixed'
  BY <1>1, <1>8, Zenon DEF Mixed
<1> QED BY <1>1, <1>6, <1>7, <1>9, Zenon DEF ServInv

LEMMA ServStep == P!PickBounds /\ SortInv /\ GroupInv /\ NetInv /\ ServInv /\ [P!Next]_P!vars => ServInv'
<1> SUFFICES ASSUME P!PickBounds, SortInv, GroupInv, NetInv, ServInv, [P!Next]_P!vars PROVE ServInv'
  OBVIOUS
<1>1. CASE P!Compile
  <2>1. ppc \notin {"idle", "sortip"} /\ ppc' # "sortip" /\ ips' = ips /\ pn' = pn /\ preply' = preply
    BY <1>1 DEF P!Compile, P!ReadLine, P!EndOfData, P!Outer, P!Down, P!Up, P!Sorted, P!Group, P!Finish, P!server
  <2>2. preply.a = <<>>
    BY <2>1 DEF ServInv
  <2> QED BY <2>1, <2>2 DEF ServInv
<1>2. CASE UNCHANGED P!vars
  <2>1. ppc' = ppc /\ ips' = ips /\ pn' = pn /\ preply' = preply /\ pasked' = pasked /\ pcdb' = pcdb
    BY <1>2 DEF P!vars, P!compiler, P!server
  <2>2. P!Cut(P!Stored(pasked.name, pasked.client), MaxData)' = P!Cut(P!Stored(pasked.name, pasked.client), MaxData)
    BY <2>1 DEF P!Stored, P!Find, P!Location, P!Networks, P!Cut
  <2>3. Mixed' = Mixed /\ AnswerFits' = AnswerFits
    BY <2>1, <2>2, Zenon DEF Mixed, AnswerFits
  <2> QED BY <2>1, <2>3, Zenon DEF ServInv
<1> QED BY <1>1, <1>2, ServAsk, ServShuffle, ServAnswer DEF P!Next

LEMMA ServSays ==
  ASSUME P!PickBounds, SortInv, GroupInv, NetInv, ServInv
  PROVE  P!AnswerWhole /\ P!PlaceRight /\ P!TypeOK
<1>1. P!TypeOK
  BY DEF SortInv, SortTypes, ServInv, P!TypeOK
<1>2. CASE preply.a = <<>>
  BY <1>1, <1>2, Zenon DEF P!AnswerWhole, P!PlaceRight
<1>3. CASE preply.a # <<>>
  <2> DEFINE from == P!Cut(P!Stored(pasked.name, pasked.client), MaxData)
             at(location) == {a.ip : a \in P!Of(location, pasked.name)}
  <2>1. Complete /\ pasked.client \in PickClient /\ Mixed /\ AnswerFits /\ ips \in Seq(Nat)
    BY <1>3 DEF ServInv, Complete
  <2>2. P!AnswerWhole
    <3>1. P!SameBag(ips, from)
      BY <2>1, SameCount, Zenon DEF Mixed, P!SameBag
    <3> QED BY <2>1, <3>1, Zenon DEF P!AnswerWhole, AnswerFits
  <2>3. P!Stored(pasked.name, pasked.client) \in Seq(Nat) /\ MaxData \in Nat
    BY <2>1, StoredIs DEF P!PickBounds
  <2>4. from \in Seq(Nat) /\ P!Range(from) \subseteq P!Range(P!Stored(pasked.name, pasked.client))
    BY <2>3, CutIs, Zenon
  <2>5. P!Range(ips) \subseteq P!Range(from)
    <3> SUFFICES ASSUME NEW e \in P!Range(ips) PROVE e \in P!Range(from)
      OBVIOUS
    <3>1. Cardinality(P!Indices(ips, e)) = Cardinality(P!Indices(from, e))
      BY <2>1, Zenon DEF Mixed
    <3> HIDE DEF from
    <3>2. IsFiniteSet(P!Indices(ips, e)) /\ P!Indices(ips, e) # {} /\ IsFiniteSet(P!Indices(from, e))
      BY <2>1, <2>4, IndicesFinite
    <3>3. P!Indices(from, e) # {}
      BY <3>1, <3>2, NoneOfBoth
    <3> QED BY <2>4, <3>3, IndicesFinite
  <2>6. P!Location(pasked.client) = P!Place(pasked.client)
    BY <2>1, PlaceIs
  <2> DEFINE own == P!Find(<<"+", P!Place(pasked.client), pasked.name>>)
             none == P!Find(<<"+", 0, pasked.name>>)
  <2>7. P!Stored(pasked.name, pasked.client) = IF own # <<>> THEN own ELSE none
    BY <2>6, Zenon DEF P!Stored
  <2>8. /\ own = <<>> <=> P!Of(P!Place(pasked.client), pasked.name) = {}
        /\ P!Range(own) \subseteq at(P!Place(pasked.client)) /\ P!Range(none) \subseteq at(0)
    BY <2>1, FoundIs, Zenon
  <2>9. at(P!Place(pasked.client)) = {} <=> P!Of(P!Place(pasked.client), pasked.name) = {}
    OBVIOUS
  <2> HIDE DEF at, own, none, from
  <2>10. P!Range(preply.a) \subseteq P!Range(P!Stored(pasked.name, pasked.client))
    BY <2>1, <2>4, <2>5 DEF AnswerFits
  <2>11. P!Range(preply.a) \subseteq IF at(P!Place(pasked.client)) # {} THEN at(P!Place(pasked.client)) ELSE at(0)
    BY <2>7, <2>8, <2>9, <2>10, Zenon
  <2>12. P!PlaceRight
    BY <2>11, Zenon DEF P!PlaceRight, at
  <2> QED BY <1>1, <2>2, <2>12
<1> QED BY <1>2, <1>3

-----------------------------------------------------------------------------
PickInv == SortInv /\ GroupInv /\ NetInv /\ ServInv
PickRight == P!TypeOK /\ P!SortRight /\ P!AllServed /\ P!PlaceRight /\ P!AnswerWhole

LEMMA PickInit == P!PickBounds /\ P!Init => PickInv
<1> SUFFICES ASSUME P!PickBounds, P!Init PROVE PickInv
  OBVIOUS
<1>1. SortInv
  BY SortInit
<1>2. ppc = "reading" /\ pcdb = <<>> /\ plinenum = 1 /\ ips = <<>> /\ pn = 0 /\ preply = [kind |-> "none", a |-> <<>>]
  BY DEF P!Init
<1>3. GroupInv
  BY <1>2 DEF GroupInv, Grouping
<1>4. NetInv
  BY <1>2 DEF NetInv, NetLines
<1>5. ServInv
  BY <1>2 DEF ServInv
<1> QED BY <1>1, <1>3, <1>4, <1>5 DEF PickInv

LEMMA PickStep == P!PickBounds /\ PickInv /\ [P!Next]_P!vars => PickInv'
BY SortStep, GroupStep, NetStep, ServStep DEF PickInv

LEMMA PickSays == P!PickBounds /\ PickInv => PickRight
BY SortSays, ServedSays, ServSays DEF PickInv, PickRight

-----------------------------------------------------------------------------
(* The servers together: each does what it does alone, or nothing.         *)
LEMMA LoopAlone == ServersSpec => Spec
<1>1. ServersInit => Init BY DEF ServersInit
<1>2. [ServersNext]_servers => [Next]_vars
  BY DEF ServersNext, servers, vars
<1> QED BY <1>1, <1>2, PTL DEF ServersSpec, Spec

LEMMA WallAlone == ServersSpec => W!Spec
<1>1. ServersInit => W!Init BY DEF ServersInit
<1>2. [ServersNext]_servers => [W!Next]_W!vars
  BY DEF ServersNext, servers, walling, W!vars
<1> QED BY <1>1, <1>2, PTL DEF ServersSpec, W!Spec

LEMMA RblAlone == ServersSpec => R!Init /\ [][R!Next]_R!vars
<1>1. ServersInit => R!Init BY DEF ServersInit
<1>2. [ServersNext]_servers => [R!Next]_R!vars
  BY DEF ServersNext, servers, listing, R!vars
<1> QED BY <1>1, <1>2, PTL DEF ServersSpec

LEMMA PickAlone == ServersSpec => P!Init /\ [][P!Next]_P!vars
<1>1. ServersInit => P!Init BY DEF ServersInit
<1>2. [ServersNext]_servers => [P!Next]_P!vars
  BY DEF ServersNext, servers, picking, P!vars, P!compiler, P!server
<1> QED BY <1>1, <1>2, PTL DEF ServersSpec

(* rbldns-data.c:92-117, rbldns.c:40-77: for every file, an address is     *)
(* listed just when a network of the file contains it that is not too      *)
(* wide, and the text is the first of the file.                            *)
LEMMA RblServed ==
  ASSUME R!RblBounds
  PROVE  R!Init /\ [][R!Next]_R!vars => [](R!TypeOK /\ R!ListedRight /\ R!OctetsFound /\ R!TextRight)
<1>1. R!Init => RblInv
  BY RblStart
<1>2. RblInv /\ [R!Next]_R!vars => RblInv'
  BY RblStep
<1>3. RblInv => R!TypeOK /\ R!ListedRight /\ R!OctetsFound /\ R!TextRight
  BY RblSays
<1> QED BY <1>1, <1>2, <1>3, PTL

(* pickdns-data.c:66-221, pickdns.c:42-76, dns_sortip.c:12-20: for every   *)
(* file, the sort loses no address and orders them all, the first record   *)
(* of a name and place has all its addresses, and an answer has some of    *)
(* those of the client's place.                                            *)
LEMMA PickServed ==
  ASSUME P!PickBounds
  PROVE  P!Init /\ [][P!Next]_P!vars => [](P!TypeOK /\ P!SortRight /\ P!AllServed /\ P!PlaceRight /\ P!AnswerWhole)
<1>1. P!Init => PickInv
  BY PickInit
<1>2. PickInv /\ [P!Next]_P!vars => PickInv'
  BY PickStep
<1>3. PickInv => P!TypeOK /\ P!SortRight /\ P!AllServed /\ P!PlaceRight /\ P!AnswerWhole
  BY PickSays DEF PickRight
<1> QED BY <1>1, <1>2, <1>3, PTL

(* walldns.c:25-56, rbldns.c:40-77, pickdns-data.c:66-221,                 *)
(* pickdns.c:42-76: for addresses of any size, all files, names and        *)
(* clients, what the three servers answer is right.                        *)
THEOREM ServersServedRight ==
  ASSUME W!WallBounds, R!RblBounds, P!PickBounds
  PROVE  ServersSpec => []ServedRight
<1>1. W!Spec => []W!ServedRight
  BY WallServedRight
<1>2. R!Init /\ [][R!Next]_R!vars => [](R!TypeOK /\ R!ListedRight /\ R!OctetsFound /\ R!TextRight)
  BY RblServed
<1>3. P!Init /\ [][P!Next]_P!vars => [](P!TypeOK /\ P!SortRight /\ P!AllServed /\ P!PlaceRight /\ P!AnswerWhole)
  BY PickServed
<1> QED BY <1>1, <1>2, <1>3, WallAlone, RblAlone, PickAlone, PTL DEF ServedRight
=============================================================================

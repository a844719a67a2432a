------------------------------- MODULE Server -------------------------------
(***************************************************************************)
(* server.c, the loop that tinydns, pickdns, rbldns and walldns share: one *)
(* socket for each address, a packet at a time, its question checked and   *)
(* handed to respond(), the answer sent to where the packet came from.     *)
(*                                                                         *)
(* Several servers and their clients exchange packets over a network that  *)
(* loses, repeats and reorders them; a packet may name any sender, another *)
(* server among them.  respond() is open: it gives up or leaves an answer  *)
(* of some length.                                                         *)
(***************************************************************************)
EXTENDS Integers, Sequences, FiniteSets, SequencesExt

CONSTANTS
  Node,        \* servers
  Sockets,     \* number of addresses of each
  Client,      \* pairs of address and port that are not a server's
  Question,    \* packets that clients send, records without from and to
  Outcome,     \* what respond() may return: 0, or an answer of that length
  MaxSends, MaxQueue, MaxRepeats   \* bounds for the model checker

Datagram == 512

(* A question fits into the packet it is part of.                          *)
ServerBounds ==
  /\ Sockets \in Nat \ {0} /\ MaxQueue \in Nat /\ Outcome \subseteq Nat
  /\ \A p \in Question :
       {"qr", "len", "qlen"} \subseteq DOMAIN p /\ p.qr \in {0, 1} /\ p.len \in Nat /\ p.qlen \in 0..p.len

VARIABLES
  net,        \* packets under way
  queue,      \* queue[n][i]: packets that arrived at a socket
  pc,         \* "poll", "recv", "doit" or "send"
  revents,    \* sockets that poll() reported
  i,          \* the loop's socket
  buf,        \* the packet being worked on, with its sender ip and port
  response,   \* the answer being built
  asked,      \* packets that clients sent, up to MaxSends
  repeats,    \* packets that the network repeated, up to MaxRepeats
  sent        \* packets that servers sent

vars == <<net, queue, pc, revents, i, buf, response, asked, repeats, sent>>
server == <<pc, revents, i, buf, response>>

Socket == 1..Sockets
Port == Node \X Socket
NoPacket == [qr |-> 2]

Init ==
  /\ net = {} /\ queue = [n \in Node |-> [s \in Socket |-> <<>>]]
  /\ pc = [n \in Node |-> "poll"] /\ revents = [n \in Node |-> {}]
  /\ i = [n \in Node |-> 1] /\ buf = [n \in Node |-> NoPacket]
  /\ response = [n \in Node |-> NoPacket]
  /\ asked = 0 /\ repeats = 0 /\ sent = 0

-----------------------------------------------------------------------------
(* doit(): the question.                                                   *)

\* Mutant of NoQuestion: answers are taken for questions.
NoQuestionChecked(p) == p.len > Datagram \/ p.qdcount # 1 \/ ~p.parses

NoQuestion(p) == p.len > Datagram \/ p.qr = 1 \/ p.qdcount # 1 \/ ~p.parses

(* response_query: the question, with the bits for an answer, recursion    *)
(* desired and recursion available set; of header only the id is copied.   *)
Started(p) == [id |-> p.id, qr |-> 1, qdcount |-> 1, parses |-> TRUE, name |-> p.name,
               type |-> p.type, class |-> p.class, opcode |-> 0, aa |-> 0, rd |-> 1, ra |-> 1,
               tc |-> 0, rcode |-> "ok", len |-> p.qlen, qlen |-> p.qlen]

WeirdClass(p) == p.class \notin {"IN", "ANY"}
ForIn(p) == [Started(p) EXCEPT !.aa = IF p.class = "IN" THEN 1 ELSE 0, !.ra = 0, !.rd = p.rd]

Unimplemented(p) == p.opcode # 0 \/ p.aa = 1 \/ p.tc = 1 \/ p.type = "AXFR"

Answered(n, r) == /\ response' = [response EXCEPT ![n] = r]
                  /\ pc' = [pc EXCEPT ![n] = "send"]

(* What respond() may leave: an answer of some length, authoritative as it *)
(* was or no longer; no such name, authoritative whatever the class; or a  *)
(* refusal.                                                                *)
Response(p, len, code, aa) == [ForIn(p) EXCEPT !.len = len, !.rcode = code, !.aa = aa]
Left(p) == ({"ok"} \X {0, ForIn(p).aa}) \cup {<<"nxdomain", 1>>, <<"refused", 0>>}
Responses(p) == {Response(p, len, left[1], left[2]) : len \in Outcome \ {0}, left \in Left(p)}

NextSocket(n) ==
  /\ i' = [i EXCEPT ![n] = IF @ = Sockets THEN 1 ELSE @ + 1]
  /\ pc' = [pc EXCEPT ![n] = IF i[n] = Sockets THEN "poll" ELSE "recv"]

Doit(n) ==
  /\ pc[n] = "doit"
  /\ LET p == buf[n] IN
     \/ /\ NoQuestion(p)
        /\ NextSocket(n) /\ UNCHANGED response
     \/ /\ ~NoQuestion(p) /\ WeirdClass(p)
        /\ Answered(n, [Started(p) EXCEPT !.rcode = "formerr"]) /\ UNCHANGED i
     \/ /\ ~NoQuestion(p) /\ ~WeirdClass(p) /\ Unimplemented(p)
        /\ Answered(n, [ForIn(p) EXCEPT !.rcode = "notimp"]) /\ UNCHANGED i
     \/ /\ ~NoQuestion(p) /\ ~WeirdClass(p) /\ ~Unimplemented(p)
        /\ \/ 0 \in Outcome /\ NextSocket(n) /\ UNCHANGED response
           \/ \E r \in Responses(p) : Answered(n, r) /\ UNCHANGED i
  /\ UNCHANGED <<net, queue, revents, buf, asked, repeats, sent>>

-----------------------------------------------------------------------------
(* main()'s loop.                                                          *)

(* poll() returns what is readable; after the deadline perhaps nothing.    *)
Poll(n) ==
  /\ pc[n] = "poll"
  /\ revents' = [revents EXCEPT ![n] = {s \in Socket : queue[n][s] # <<>>}]
  /\ pc' = [pc EXCEPT ![n] = "recv"] /\ i' = [i EXCEPT ![n] = 1]
  /\ UNCHANGED <<net, queue, buf, response, asked, repeats, sent>>

Recv(n) ==
  /\ pc[n] = "recv"
  /\ IF i[n] \in revents[n]
     THEN /\ buf' = [buf EXCEPT ![n] = Head(queue[n][i[n]])]
          /\ queue' = [queue EXCEPT ![n][i[n]] = Tail(@)]
          /\ pc' = [pc EXCEPT ![n] = "doit"] /\ UNCHANGED i
     ELSE NextSocket(n) /\ UNCHANGED <<buf, queue>>
  /\ UNCHANGED <<net, revents, response, asked, repeats, sent>>

(* An error that waits at the socket makes recv() fail.                    *)
RecvFails(n) ==
  /\ pc[n] = "recv" /\ i[n] \in revents[n]
  /\ NextSocket(n)
  /\ UNCHANGED <<net, queue, revents, buf, response, asked, repeats, sent>>

(* response_tc leaves header and question.                                 *)
Reply(n) ==
  IF response[n].len > Datagram
  THEN [response[n] EXCEPT !.tc = 1, !.len = response[n].qlen] ELSE response[n]

Packet(p, from, to) == [from |-> from, to |-> to, body |-> p]

Send(n) ==
  /\ pc[n] = "send"
  /\ \/ net' = net \cup {Packet(Reply(n), <<n, i[n]>>, buf[n].from)}
     \/ UNCHANGED net
  /\ sent' = sent + 1
  /\ NextSocket(n)
  /\ UNCHANGED <<queue, revents, buf, response, asked, repeats>>

-----------------------------------------------------------------------------
(* The network.                                                            *)

ClientSends(p, from, to) ==
  /\ asked < MaxSends
  /\ net' = net \cup {Packet(p, from, to)} /\ asked' = asked + 1
  /\ UNCHANGED <<queue, server, repeats, sent>>

Received(n, s, m) ==
  queue' = [queue EXCEPT ![n][s] = Append(@, [name \in DOMAIN m.body \cup {"from"} |->
                                                IF name = "from" THEN m.from ELSE m.body[name]])]

Deliver(n, s, m) ==
  /\ m.to = <<n, s>> /\ Len(queue[n][s]) < MaxQueue
  /\ net' = net \ {m} /\ Received(n, s, m)
  /\ UNCHANGED <<server, asked, repeats, sent>>

Repeat(n, s, m) ==
  /\ m.to = <<n, s>> /\ Len(queue[n][s]) < MaxQueue /\ repeats < MaxRepeats
  /\ repeats' = repeats + 1 /\ Received(n, s, m)
  /\ UNCHANGED <<net, server, asked, sent>>

Lose(m) == net' = net \ {m} /\ UNCHANGED <<queue, server, asked, repeats, sent>>

Loop(n) == Poll(n) \/ Recv(n) \/ RecvFails(n) \/ Doit(n) \/ Send(n)

Next ==
  \/ \E n \in Node : Loop(n)
  \/ \E p \in Question, from \in Client \cup Port, to \in Port : ClientSends(p, from, to)
  \/ \E n \in Node, s \in Socket, m \in net : Deliver(n, s, m) \/ Repeat(n, s, m)
  \/ \E m \in net : Lose(m)

Spec == Init /\ [][Next]_vars

-----------------------------------------------------------------------------
TypeOK ==
  /\ pc \in [Node -> {"poll", "recv", "doit", "send"}]
  /\ revents \in [Node -> SUBSET Socket] /\ i \in [Node -> Socket]
  /\ \A n \in Node, s \in Socket : Len(queue[n][s]) <= MaxQueue

(* server.c:44: servers do not keep a packet going between them: they send *)
(* no more packets than clients sent or the network repeated.              *)
Quiet == sent <= asked + repeats

(* server.c:35-82: a question that respond() has not seen is answered with *)
(* an error; what is authoritative is of the class IN and no refusal, or   *)
(* says that there is no such name (response.c:101-105).                   *)
ErrorsRight ==
  \A n \in Node : pc[n] = "send" =>
    LET p == buf[n] r == response[n] IN
    /\ p.qr = 0 /\ p.qdcount = 1
    /\ p.opcode # 0 \/ p.type = "AXFR" => r.rcode \in {"notimp", "formerr"}
    /\ r.rcode = "formerr" <=> p.class \notin {"IN", "ANY"}
    /\ r.rcode # "formerr" => r.ra = 0 /\ r.rd = p.rd
    /\ r.aa = 1 => r.rcode = "nxdomain" \/ (p.class = "IN" /\ r.rcode # "refused")

(* What server n sends goes from the socket the question came in to where  *)
(* it came from, with its id and question; it is marked as cut if it is,   *)
(* and fits a datagram.                                                    *)
Replies(n, m) ==
  /\ pc[n] = "send" /\ m.from = <<n, i[n]>> /\ m.to = buf[n].from
  /\ m.body.id = buf[n].id /\ m.body.name = buf[n].name
  /\ m.body.len <= Datagram /\ m.body.qr = 1
  /\ m.body.len < response[n].len => m.body.tc = 1

(* server.c:35-82, :44, :155-158: servers keep no packet going between     *)
(* them; a question that respond() has not seen is answered with the right *)
(* error; and what they send are replies, each to the packet it works on.  *)
QuietAndRight ==
  /\ [](TypeOK /\ Quiet /\ ErrorsRight)
  /\ [][asked' = asked => \A m \in net' \ net : \E n \in Node : Replies(n, m)]_net

=============================================================================

------------------------------ MODULE DnsTrace ------------------------------
(***************************************************************************)
(* dnstrace.c: every server that may be asked about a name is asked, and   *)
(* what it says leads to more names and servers.                           *)
(*                                                                         *)
(* A name is the sequence of its labels.  A packet has records in three    *)
(* sections; data that cannot be read is Broken.                           *)
(***************************************************************************)
EXTENDS Integers, Sequences, FiniteSets, SequencesExt

CONSTANTS
  Start,        \* the question: owner and type
  RootIps,      \* addresses of root servers that are given, in order
  Packet,       \* what servers may answer
  Localhost,    \* the name localhost
  Literal,      \* names that are addresses, with these
  LocalIp,      \* 127.0.0.1
  Broken

VARIABLES
  query, ns, address, qt,  \* the four tables, in order
  i,                       \* questions asked
  verdict                  \* what was said of the last answer, and the zone referred to

vars == <<query, ns, address, qt, i, verdict>>

dns_domain_suffix(big, little) == IsSuffix(little, big)
typematch(rtype, qtype) == qtype = rtype \/ qtype = "ANY"

-----------------------------------------------------------------------------
(* The tables.  st is the four of them.                                    *)

Put(s, e) == IF e \in ToSet(s) THEN s ELSE Append(s, e)
All(f(_), s) == [k \in DOMAIN s |-> f(s[k])]
Product(s, u) == FlattenSeq([k \in DOMAIN s |-> [m \in DOMAIN u |-> <<s[k], u[m]>>]])

qt_add(table, e) == IF e.owner = <<>> THEN table ELSE Put(table, e)
Question(q, n, a) == [owner |-> q.owner, type |-> q.type, control |-> n.owner, ip |-> a.ip]

(* A name server and an address are one for a question when the name is    *)
(* in the server's zone and the address is the server's.                   *)
Serves(n, a, q) == dns_domain_suffix(q.owner, n.owner) /\ n.ns = a.owner

query_add(st, q) ==
  IF q \in ToSet(st.query) THEN st
  ELSE LET servers == SelectSeq(Product(st.ns, st.address), LAMBDA p : Serves(p[1], p[2], q))
       IN [st EXCEPT !.query = Append(@, q),
                     !.qt = FoldLeft(qt_add, @, All(LAMBDA p : Question(q, p[1], p[2]), servers))]

\* Mutant of ns_add: the addresses known are not looked through.
ns_addAlone(st, n) ==
  IF n \in ToSet(st.ns) THEN st
  ELSE [query_add(st, [owner |-> n.ns, type |-> "A"]) EXCEPT !.ns = Append(@, n)]

ns_add(st, n) ==
  IF n \in ToSet(st.ns) THEN st
  ELSE LET asked == query_add(st, [owner |-> n.ns, type |-> "A"])
           served == SelectSeq(Product(asked.query, asked.address), LAMBDA p : Serves(n, p[2], p[1]))
       IN [asked EXCEPT !.ns = Append(@, n),
                        !.qt = FoldLeft(qt_add, @, All(LAMBDA p : Question(p[1], n, p[2]), served))]

address_add(st, a) ==
  IF a \in ToSet(st.address) THEN st
  ELSE LET served == SelectSeq(Product(st.ns, st.query), LAMBDA p : Serves(p[1], a, p[2]))
       IN [st EXCEPT !.address = Append(@, a),
                     !.qt = FoldLeft(qt_add, @, All(LAMBDA p : Question(p[2], p[1], a), served))]

Tables == [query |-> query, ns |-> ns, address |-> address, qt |-> qt]
Become(st) == query' = st.query /\ ns' = st.ns /\ address' = st.address /\ qt' = st.qt

Begun ==
  LET empty == [query |-> <<>>, ns |-> <<>>, address |-> <<>>, qt |-> <<>>]
      root == ns_add(query_add(empty, Start), [owner |-> <<>>, ns |-> <<>>])
  IN FoldLeft(address_add, root, All(LAMBDA ip : [owner |-> <<>>, ip |-> ip], RootIps))

Said(what) == [said |-> what, of |-> <<>>]

Init ==
  /\ query = Begun.query /\ ns = Begun.ns /\ address = Begun.address /\ qt = Begun.qt
  /\ i = 0 /\ verdict = Said("none")

-----------------------------------------------------------------------------
(* parsepacket(packet, q.owner, q.type, q.control), in the order of its    *)
(* steps.                                                                  *)

Own(packet, q) == SelectSeq(packet.answers, LAMBDA r : r.owner = q.owner /\ r.in)
Out(packet, q) == \E r \in ToSet(Own(packet, q)) : typematch(r.type, q.type)
Aliases(packet, q) == SelectSeq(Own(packet, q), LAMBDA r : ~typematch(r.type, q.type) /\ r.type = "CNAME")
Soa(packet) == \E r \in ToSet(packet.authority) : r.type = "SOA"
Referrals(packet) == SelectSeq(packet.authority, LAMBDA r : r.type = "NS")
Referral(packet) == Last(Referrals(packet)).owner

NoAnswer(packet, q) ==
  /\ Aliases(packet, q) = <<>> /\ ~packet.nxdomain /\ ~Out(packet, q)
  /\ Referrals(packet) # <<>> /\ ~Soa(packet)

Lame(packet, q) ==
  /\ NoAnswer(packet, q)
  /\ Referral(packet) = q.control \/ ~dns_domain_suffix(Referral(packet), q.control)

Records(packet) == packet.answers \o packet.authority \o packet.glue

(* The records that are looked at: those the server may speak of, up to    *)
(* one that cannot be read.                                                *)
Usable(packet, q) == SelectSeq(Records(packet), LAMBDA r : dns_domain_suffix(r.owner, q.control) /\ r.in)
Unreadable(packet, q) ==
  {k \in DOMAIN Usable(packet, q) : Usable(packet, q)[k].type = "NS" /\ Usable(packet, q)[k].data = Broken}
Readable(packet, q) ==
  LET u == Usable(packet, q)
      bad == Unreadable(packet, q)
  IN IF bad = {} THEN u ELSE SubSeq(u, 1, (CHOOSE k \in bad : \A m \in bad : k <= m) - 1)

Learn(st, r) ==
  CASE r.type = "NS" -> ns_add(st, [owner |-> r.owner, ns |-> r.data])
    [] r.type = "A" /\ r.data # Broken -> address_add(st, [owner |-> r.owner, ip |-> r.data])
    [] OTHER -> st

Dies(packet, q) == \E r \in ToSet(Aliases(packet, q)) : r.data = Broken

Verdict(packet, q) ==
  CASE Aliases(packet, q) # <<>> -> "cname"
    [] Aliases(packet, q) = <<>> /\ packet.nxdomain -> "nxdomain"
    [] OTHER -> IF Out(packet, q) THEN "answer"
                ELSE IF Soa(packet) \/ Referrals(packet) = <<>> THEN "nodata"
                ELSE IF dns_domain_suffix(q.owner, Referral(packet)) THEN "see" ELSE "die"

Parsed(packet, q) ==
  IF Dies(packet, q) THEN [st |-> Tables, verdict |-> Said("die")]
  ELSE IF Lame(packet, q) THEN [st |-> Tables, verdict |-> Said("lame")]
  ELSE LET learnt == FoldLeft(Learn, Tables, Readable(packet, q))
       IN IF Unreadable(packet, q) # {} THEN [st |-> learnt, verdict |-> Said("die")]
          ELSE [st |-> IF Verdict(packet, q) = "cname"
                       THEN query_add(learnt, [owner |-> Last(Aliases(packet, q)).data, type |-> q.type])
                       ELSE learnt,
                verdict |-> [said |-> Verdict(packet, q),
                             of |-> IF Referrals(packet) = <<>> THEN <<>> ELSE Referral(packet)]]

(* Names that every cache should know.                                     *)
Known(st, q) ==
  LET local == IF q.owner = Localhost THEN address_add(st, [owner |-> q.owner, ip |-> LocalIp]) ELSE st
  IN IF q.owner \in DOMAIN Literal THEN address_add(local, [owner |-> q.owner, ip |-> Literal[q.owner]]) ELSE local

(* resolve() fails, after all tries, or brings a packet.                   *)
Ask ==
  /\ i < Len(qt) /\ i' = i + 1
  /\ \/ /\ Become(Known(Tables, qt[i + 1])) /\ verdict' = Said("failed")
     \/ \E packet \in Packet :
          /\ Become(Known(Parsed(packet, qt[i + 1]).st, qt[i + 1]))
          /\ verdict' = Parsed(packet, qt[i + 1]).verdict

Exit ==
  /\ i = Len(qt) /\ verdict.said # "exit"
  /\ verdict' = Said("exit")
  /\ UNCHANGED <<query, ns, address, qt, i>>

Next == Ask \/ Exit

Spec == Init /\ [][Next]_vars

-----------------------------------------------------------------------------
TypeOK ==
  /\ i \in 0..Len(qt)
  /\ \A k \in 1..Len(qt) : qt[k].owner # <<>>

(* dnstrace.c:129-234: whichever came last, the question, the zone's name  *)
(* server or its address: every server is asked about every name in its    *)
(* zone, once, and nobody else.                                            *)
Closed ==
  ToSet(qt) = {Question(t[1], t[2], t[3]) : t \in
                 {u \in ToSet(query) \X ToSet(ns) \X ToSet(address) :
                    Serves(u[2], u[3], u[1]) /\ u[1].owner # <<>>}}
Once == IsInjective(qt)

(* dnstrace.c:192: the address of every name server is asked for.          *)
Followed == \A n \in ToSet(ns) : [owner |-> n.ns, type |-> "A"] \in ToSet(query)

(* dnstrace.c:313-378: after "see" the question has come closer: what the  *)
(* server refers to lies below its own zone and not beside the name.       *)
Closer ==
  verdict.said = "see" =>
    /\ verdict.of # qt[i].control /\ dns_domain_suffix(verdict.of, qt[i].control)
    /\ dns_domain_suffix(qt[i].owner, verdict.of)
=============================================================================

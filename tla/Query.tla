-------------------------------- MODULE Query --------------------------------
(***************************************************************************)
(* query.c: the engine that finds the answer to one client's question.     *)
(* Level 0 is the question; level l+1 looks for the address of a name      *)
(* server of the zone that level l is about to ask.  doit runs from label  *)
(* to label (pc) until it has sent a question ("sent") or is done ("idle").*)
(*                                                                         *)
(* What the cache holds and what servers say is open.  A packet is seen by *)
(* the branch it takes, and by one of the record sets it has stored.  The  *)
(* servers and name servers of a level are labelled with the zone they     *)
(* serve, which the code does not write down.                              *)
(***************************************************************************)
EXTENDS Integers, Sequences, SequencesExt

CONSTANTS
    Names, NoName,        \* domain names; the null pointer
    Above,                \* for each name, itself and its ancestors
    RootZones,            \* the zones with a file in servers/ (roots.c)
    Special,              \* names that stand for an address, and localhost
    Hosts,                \* names that are used for name servers
    CnameOf,              \* the targets a CNAME of a name may have
    ForwardOnly,          \* flagforwardonly
    MAXLEVEL, MAXNS, MAXADDR, MAXALIAS, MAXLOOP   \* 5, 16, 16, 16, 100

ASSUME NamesAssumption ==
    /\ NoName \notin Names
    /\ Above \in [Names -> SUBSET Names] /\ CnameOf \in [Names -> SUBSET Names]
    /\ \A n \in Names : n \in Above[n]
    /\ \A n \in Names : \A m \in Above[n] :
         Above[m] \subseteq Above[n] /\ (n \in Above[m] => n = m)
    /\ \A n \in Names : \A l, m \in Above[n] : l \in Above[m] \/ m \in Above[l]
    /\ RootZones \subseteq Names /\ Special \subseteq Names /\ Hosts \subseteq Names
    /\ ForwardOnly \in BOOLEAN
ASSUME LimitsAssumption ==
    /\ MAXLEVEL \in Nat \ {0} /\ MAXNS \in Nat \ {0} /\ MAXADDR \in Nat \ {0}
    /\ MAXALIAS \in Nat \ {0} /\ MAXLOOP \in Nat \ {0}

Levels == 0 .. MAXLEVEL - 1
Slot == [host : Names, zone : Names]

VARIABLES
    pc, level, loop, type,
    name, control,        \* per level: what is looked for, and the zone that is asked
    servers,              \* per level: the zones served by the addresses in the array
    ns,                   \* per level: name servers still to be looked up
    serves,               \* per level: the zone name is a server of
    alias,                \* the latest first
    question, reply,      \* what the client asked; the answer's question and aliases
    stored                \* what the last packet had stored, and its sender's zone

where == <<name, control, servers, ns, serves>>
vars == <<pc, level, loop, type, where, alias, question, reply, stored>>
-----------------------------------------------------------------------------
\* roots_search: the nearest zone with servers of its own, if any.
RootsOf(n) == {z \in Above[n] \cap RootZones : Above[n] \cap RootZones \subseteq Above[z]}
roots_same(m, n) == RootsOf(m) = RootsOf(n)

NoNames == [l \in Levels |-> NoName]
NoNs == [l \in Levels |-> <<>>]

Init ==
    /\ pc = "idle" /\ level = 0 /\ loop = 0 /\ type = "A"
    /\ name = NoNames /\ control = NoNames /\ serves = NoNames
    /\ servers = NoNs /\ ns = NoNs
    /\ alias = <<>> /\ question = NoName /\ reply = <<>> /\ stored = {}

\* cleanup
Cleanup ==
    /\ name' = NoNames /\ ns' = NoNs /\ alias' = <<>>
    /\ serves' = NoNames /\ UNCHANGED <<control, servers>>

\* query_start; a query that waits for a server may have lost its slot.  Type
\* "CNAME" stands for CNAME and ANY, which an alias answers.
Start ==
    /\ pc \in {"idle", "sent"}
    /\ \E n \in Names :
         /\ name' = [NoNames EXCEPT ![0] = n]
         /\ question' = n
    /\ type' \in {"A", "CNAME"}
    /\ pc' = "NEWNAME" /\ level' = 0 /\ loop' = 0
    /\ ns' = NoNs /\ alias' = <<>> /\ reply' = <<>> /\ stored' = {}
    /\ serves' = NoNames /\ UNCHANGED <<control, servers>>

\* Out of memory, a packet that cannot be read, no servers for any ancestor, too
\* many aliases, too many steps: -1.
Die ==
    /\ pc # "idle"
    /\ Cleanup
    /\ pc' = "idle" /\ UNCHANGED <<level, loop, type, question, reply>>
-----------------------------------------------------------------------------
(* Ways to go on that several labels share. *)

\* rqa: the aliases from the client's question to the name the answer is for.
rqa == Reverse(<<name[0]>> \o alias)

Answer ==
    /\ level = 0
    /\ reply' = rqa
    /\ Cleanup
    /\ pc' = "idle" /\ UNCHANGED <<level, type, question>>

\* NXDOMAIN, SERVFAIL and the end of a search for an address: up to `most`
\* addresses go to the free places of the level below.
Addresses(most) ==
    /\ level > 0
    /\ \E n \in 0 .. most :
         /\ Len(servers[level - 1]) + n <= MAXADDR
         /\ servers' = [servers EXCEPT ![level - 1] = @ \o [i \in 1 .. n |-> serves[level]]]
    /\ pc' = "LOWERLEVEL"
    /\ UNCHANGED <<level, type, name, control, ns, serves, alias, question, reply>>

\* An alias of the name is an answer only when the question was for aliases.
Follows == level > 0 \/ type = "A"

\* Mutant of CNAME: the aliases are kept the oldest first.
CNAMEAppends ==
    /\ Follows
    /\ level = 0 => Len(alias) < MAXALIAS
    /\ alias' = IF level = 0 THEN alias \o <<name[0]>> ELSE alias
    /\ \E target \in CnameOf[name[level]] : name' = [name EXCEPT ![level] = target]
    /\ pc' = "NEWNAME"
    /\ UNCHANGED <<level, type, control, servers, ns, serves, question, reply>>

CNAME ==
    /\ Follows
    /\ level = 0 => Len(alias) < MAXALIAS
    /\ alias' = IF level = 0 THEN <<name[0]>> \o alias ELSE alias
    /\ \E target \in CnameOf[name[level]] : name' = [name EXCEPT ![level] = target]
    /\ pc' = "NEWNAME"
    /\ UNCHANGED <<level, type, control, servers, ns, serves, question, reply>>
-----------------------------------------------------------------------------
(* NEWNAME: what is known without asking, then whom to ask. *)

NEWNAME ==
    /\ pc = "NEWNAME" /\ loop + 1 < MAXLOOP
    /\ loop' = loop + 1 /\ stored' = {}

\* An address by its name, localhost, or its reverse.
Known == NEWNAME /\ name[level] \in Special /\ (Answer \/ Addresses(1))

\* A record set, or that there is none, is in the cache.
Cached == NEWNAME /\ name[level] \notin Special /\ (Answer \/ Addresses(MAXADDR))
CachedCname == NEWNAME /\ name[level] \notin Special /\ CNAME

\* Some list of at most MAXNS name servers of zone z.
NsOf(z, list) == [i \in DOMAIN list |-> [host |-> list[i], zone |-> z]]
HostLists == UNION {[1 .. n -> Hosts] : n \in 0 .. MAXNS}

\* The ancestors of the name that come before z on the way to the root.
Before(z) == Above[name[level]] \ Above[z]

AskZone(z, addrs, hosts) ==
    /\ control' = [control EXCEPT ![level] = z]
    /\ servers' = [servers EXCEPT ![level] = [i \in 1 .. addrs |-> z]]
    /\ ns' = [ns EXCEPT ![level] = NsOf(z, hosts)]
    /\ pc' = "HAVENS"
    /\ UNCHANGED <<level, type, name, serves, alias, question, reply>>

AskRoots ==
    /\ NEWNAME /\ name[level] \notin Special
    /\ \E z \in RootsOf(name[level]), n \in 0 .. MAXADDR : AskZone(z, n, <<>>)

\* Mutant of AskCachedNs: the cache is searched up to the root first.
AskCachedNsFirst ==
    /\ NEWNAME /\ name[level] \notin Special
    /\ ~ForwardOnly /\ level < 2
    /\ \E z \in Above[name[level]], hosts \in HostLists : AskZone(z, 0, hosts)

AskCachedNs ==
    /\ NEWNAME /\ name[level] \notin Special
    /\ ~ForwardOnly /\ level < 2
    /\ \E z \in Above[name[level]], hosts \in HostLists :
         /\ (Before(z) \cup {z}) \cap RootZones = {}
         /\ AskZone(z, 0, hosts)
-----------------------------------------------------------------------------
(* HAVENS: look up a name server, or ask one. *)

HAVENS == pc = "HAVENS" /\ stored' = {} /\ UNCHANGED <<loop, type, control, alias, question, reply>>

LookUpNs ==
    /\ HAVENS
    /\ ns[level] # <<>> /\ level + 1 < MAXLEVEL
    /\ name' = [name EXCEPT ![level + 1] = Head(ns[level]).host]
    /\ serves' = [serves EXCEPT ![level + 1] = Head(ns[level]).zone]
    /\ ns' = [ns EXCEPT ![level] = Tail(@)]
    /\ level' = level + 1 /\ pc' = "NEWNAME"
    /\ UNCHANGED servers

\* Mutant of NsDone: the name servers that are skipped stay.
NsDoneKeepsNs ==
    /\ HAVENS
    /\ ns[level] = <<>> \/ level + 1 = MAXLEVEL
    /\ UNCHANGED <<ns, level, name, serves, servers>>

\* The name servers of the last level are not looked up.
NsDone ==
    /\ HAVENS
    /\ ns[level] = <<>> \/ level + 1 = MAXLEVEL
    /\ ns' = [ns EXCEPT ![level] = <<>>]
    /\ UNCHANGED <<level, name, serves, servers>>

Transmit == NsDone /\ servers[level] # <<>> /\ pc' = "sent"

NoServers == NsDone /\ servers[level] = <<>> /\ pc' = "SERVFAIL"

SERVFAIL ==
    /\ pc = "SERVFAIL" /\ stored' = {}
    /\ Answer \/ Addresses(0)
    /\ UNCHANGED loop

LOWERLEVEL ==
    /\ pc = "LOWERLEVEL" /\ stored' = {}
    /\ name' = [name EXCEPT ![level] = NoName]
    /\ serves' = [serves EXCEPT ![level] = NoName]
    /\ ns' = [ns EXCEPT ![level] = <<>>]
    /\ level' = level - 1 /\ pc' = "HAVENS"
    /\ UNCHANGED <<loop, type, control, servers, alias, question, reply>>
-----------------------------------------------------------------------------
(* HAVEPACKET: server i has answered; or none has. *)

Silent ==
    /\ pc = "sent" /\ pc' = "SERVFAIL" /\ stored' = {}
    /\ UNCHANGED <<level, loop, type, where, alias, question, reply>>

\* Mutant of HAVEPACKET: packets are not counted.
HAVEPACKETUncounted(i) ==
    /\ pc = "sent" /\ i \in DOMAIN servers[level]
    /\ UNCHANGED loop

HAVEPACKET(i) ==
    /\ pc = "sent" /\ loop + 1 < MAXLOOP
    /\ i \in DOMAIN servers[level]
    /\ loop' = loop + 1

\* cachegeneric and save_finish for one set of records of the packet.
Store(i) ==
    stored' \in {{}} \cup
      {{[owner |-> n, zone |-> servers[level][i]]} :
         n \in {m \in Names : control[level] \in Above[m] /\ roots_same(m, control[level])}}

\* That the name, or its record set, does not exist is stored unconditionally.
StoreNone(i) == stored' = {[owner |-> name[level], zone |-> servers[level][i]]}

\* A referral to the zone itself, upwards or to the side.
Lame(i) ==
    /\ HAVEPACKET(i) /\ stored' = {}
    /\ servers' = [servers EXCEPT ![level] = RemoveAt(@, i)]
    /\ pc' = "HAVENS"
    /\ UNCHANGED <<level, type, name, control, ns, serves, alias, question, reply>>

PacketCname(i) == HAVEPACKET(i) /\ Store(i) /\ CNAME

\* The answer, a bogon, no such name, or no such records.
PacketAnswer(i) == HAVEPACKET(i) /\ (Store(i) \/ StoreNone(i)) /\ (Answer \/ Addresses(MAXADDR))

\* Mutant of Referral: the servers of the old zone stay.
ReferralKeepsServers(i) ==
    /\ HAVEPACKET(i) /\ Store(i)
    /\ \E z \in Above[name[level]], hosts \in HostLists :
         /\ control[level] \in Above[z] /\ z # control[level]
         /\ control' = [control EXCEPT ![level] = z]
         /\ ns' = [ns EXCEPT ![level] = NsOf(z, hosts)]
    /\ pc' = "HAVENS"
    /\ UNCHANGED <<level, type, name, serves, servers, alias, question, reply>>

Referral(i) ==
    /\ HAVEPACKET(i) /\ Store(i)
    /\ \E z \in Above[name[level]], hosts \in HostLists :
         /\ control[level] \in Above[z] /\ z # control[level]
         /\ AskZone(z, 0, hosts)

\* A packet turns out bad after a part of it was stored.
BadPacket(i) == HAVEPACKET(i) /\ Store(i) /\ Cleanup /\ pc' = "idle" /\ UNCHANGED <<level, type, question, reply>>

Packet(i) == Lame(i) \/ PacketCname(i) \/ PacketAnswer(i) \/ Referral(i) \/ BadPacket(i)

Doit ==
    \/ Known \/ Cached \/ CachedCname \/ AskRoots \/ AskCachedNs
    \/ LookUpNs \/ Transmit \/ NoServers \/ SERVFAIL \/ LOWERLEVEL
    \/ Silent \/ \E i \in 1 .. MAXADDR : Packet(i)
    \/ (Die /\ stored' = {})

Next == Start \/ Doit

Spec == Init /\ [][Next]_vars
-----------------------------------------------------------------------------
\* The state has its types, and no array is written beyond its end.
TypeOK ==
    /\ pc \in {"idle", "NEWNAME", "HAVENS", "sent", "SERVFAIL", "LOWERLEVEL"}
    /\ level \in Levels /\ loop \in 0 .. MAXLOOP - 1 /\ type \in {"A", "CNAME"}
    /\ name \in [Levels -> Names \cup {NoName}] /\ control \in [Levels -> Names \cup {NoName}]
    /\ serves \in [Levels -> Names \cup {NoName}]
    /\ servers \in [Levels -> Seq(Names)] /\ \A l \in Levels : Len(servers[l]) <= MAXADDR
    /\ ns \in [Levels -> Seq(Slot)] /\ \A l \in Levels : Len(ns[l]) <= MAXNS
    /\ alias \in Seq(Names) /\ Len(alias) <= MAXALIAS
    /\ question \in Names \cup {NoName} /\ reply \in Seq(Names)
    /\ stored \subseteq [owner : Names, zone : Names]

\* Names exist on the levels in use and on no other, and so do name servers;
\* a question is only sent when all name servers of its zone were tried, and to
\* a server; nothing is kept when the query is over.
LevelsOK ==
    /\ \A l \in Levels : name[l] # NoName <=> pc # "idle" /\ l <= level
    /\ \A l \in Levels : ns[l] # <<>> => pc # "idle" /\ l <= level
    /\ alias # <<>> => pc # "idle"
    /\ pc \in {"sent", "NEWNAME", "SERVFAIL"} => ns[level] = <<>>
    /\ pc = "sent" => servers[level] # <<>>
    /\ pc = "LOWERLEVEL" => level > 0

\* The levels whose zone is known.
InUse == {l \in Levels : pc # "idle" /\ (l < level \/ (l = level /\ pc \in {"HAVENS", "sent"}))}

\* control points into the name of its level, which has the same servers of
\* its own as the zone, and every server and name server of a level is one of
\* that zone, however aliases, referrals and lookups of servers follow.
Authority ==
    \A l \in InUse :
      /\ control[l] \in Above[name[l]]
      /\ roots_same(name[l], control[l])
      /\ \A i \in DOMAIN servers[l] : servers[l][i] = control[l]
      /\ \A i \in DOMAIN ns[l] : ns[l][i].zone = control[l]
      /\ l + 1 <= level => serves[l + 1] = control[l]

\* A server gets nothing into the cache but for names in its zone, and for
\* none below a zone for which servers/ names others.
InBailiwick ==
    \A s \in stored : s.zone \in Above[s.owner] /\ roots_same(s.owner, s.zone)

Linked(chain) ==
    /\ Head(chain) = question
    /\ \A i \in 1 .. Len(chain) - 1 : chain[i + 1] \in CnameOf[chain[i]]

\* An answer repeats the client's question and leads from it to the name that
\* the records are for by aliases that were seen, in their order, none left out.
Chain == /\ reply # <<>> => Linked(reply)
         /\ pc # "idle" => Linked(rqa)

\* doit and its callers always come nearer to the end: between two names or
\* packets, of which there are MAXLOOP - 1, levels only fall.
Rank ==
    CASE pc = "NEWNAME" -> 0
      [] pc = "HAVENS" -> 4 * level + 4 [] pc = "sent" -> 4 * level + 3
      [] pc = "SERVFAIL" -> 4 * level + 2 [] pc = "LOWERLEVEL" -> 4 * level + 1
      [] OTHER -> 0
Nearer == pc' = "idle" \/ loop' > loop \/ (loop' = loop /\ Rank' < Rank)
Progress == [][Start \/ Nearer]_vars
=============================================================================

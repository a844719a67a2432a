-------------------------------- MODULE Pick --------------------------------
(***************************************************************************)
(* pickdns-data.c, pickdns.c and dns_sortip.c: addresses are sorted by     *)
(* place and name, so that those of one name and place become one record;  *)
(* a client is answered with a few of those of its place, in any order.    *)
(*                                                                         *)
(* A name is its length and its rank among the names of that length.       *)
(***************************************************************************)
EXTENDS Integers, Sequences, FiniteSets, SequencesExt

CONSTANTS
  Line,         \* lines that a data file may have
  MaxLines,     \* bound on their number for the model checker
  Octets,       \* octets of an address, 4
  MaxData,      \* addresses of a record that are read, 128
  MaxAnswer,    \* addresses in an answer, 3
  Name, QType, Client \* what may be asked for, and by whom

VARIABLES
  data, linenum,    \* the file and the lines of it that were read
  x,                \* addresses, x.s
  i, j, q, t,       \* of address_sort and main
  cdb,              \* the pairs made, of which a search finds the first
  pc,
  asked,            \* the question being answered
  ips, n,           \* data[] of doit(), n of dns_sortip
  reply             \* "none", "silent", "refused" or "found", and the addresses

compiler == <<data, linenum, x, i, j, q, t, cdb>>
server == <<asked, ips, n, reply>>
vars == <<compiler, pc, server>>

NoAddress == [location |-> 0, name |-> <<0, 0>>, ip |-> 0]
NoQuestion == [name |-> <<0, 0>>, qtype |-> "none", client |-> <<>>]

(* Names, places and addresses are numbers; a client has all octets.       *)
Address == [location : Nat, name : Nat \X Nat, ip : Nat]
PickBounds ==
  /\ {Octets, MaxLines, MaxData, MaxAnswer} \subseteq Nat
  /\ Client \subseteq [1..Octets -> Nat]
  /\ \A line \in Line :
       /\ line.c = "+" => line.address \in Address
       /\ line.c = "%" => line.prefix \in Seq(Nat) /\ line.location \in Nat

Init ==
  /\ data \in UNION {[1..m -> Line] : m \in 0..MaxLines} /\ linenum = 1
  /\ x = <<>> /\ i = 0 /\ j = 0 /\ q = 0 /\ t = NoAddress /\ cdb = <<>>
  /\ pc = "reading"
  /\ asked = NoQuestion /\ ips = <<>> /\ n = 0 /\ reply = [kind |-> "none", a |-> <<>>]

-----------------------------------------------------------------------------
(* pickdns-data                                                            *)

ReadLine ==
  /\ pc = "reading" /\ linenum <= Len(data)
  /\ LET line == data[linenum] IN
     /\ x' = IF line.c = "+" THEN Append(x, line.address) ELSE x
     /\ cdb' = IF line.c = "%" THEN Append(cdb, [key |-> <<"%", line.prefix>>, data |-> <<line.location>>])
               ELSE cdb
     /\ pc' = IF line.c = "?" THEN "died" ELSE pc
  /\ linenum' = linenum + 1
  /\ UNCHANGED <<data, i, j, q, t, server>>

EndOfData ==
  /\ pc = "reading" /\ linenum = Len(data) + 1
  /\ i' = Len(x) /\ j' = Len(x) /\ pc' = "sort"
  /\ UNCHANGED <<data, linenum, x, q, t, cdb, server>>

(* address_diff(a, b) < 0: by place, then length, then letters.            *)
Less(a, b) ==
  \/ a.location < b.location
  \/ a.location = b.location /\ \/ a.name[1] < b.name[1]
                                \/ a.name[1] = b.name[1] /\ a.name[2] < b.name[2]

(* The next address to be placed: while the heap is built one more of the  *)
(* front, then one off the end, for which the greatest makes room.         *)
Outer ==
  /\ pc = "sort" /\ j > 1
  /\ IF i > 1 THEN i' = i - 1 /\ t' = x[i - 1] /\ UNCHANGED <<x, j>>
     ELSE i' = i /\ t' = x[j] /\ x' = [x EXCEPT ![j] = x[i]] /\ j' = j - 1
  /\ q' = i' /\ pc' = "down"
  /\ UNCHANGED <<data, linenum, cdb, server>>

\* Mutant of Greater: the lesser child moves up.
GreaterNot(p) == IF Less(x[p + 1], x[p]) THEN p + 1 ELSE p

Greater(p) == IF Less(x[p + 1], x[p]) THEN p ELSE p + 1

Down ==
  /\ pc = "down"
  /\ IF q * 2 < j
     THEN x' = [x EXCEPT ![q] = x[Greater(q * 2)]] /\ q' = Greater(q * 2) /\ pc' = pc
     ELSE /\ pc' = "up"
          /\ IF q * 2 = j THEN x' = [x EXCEPT ![q] = x[j]] /\ q' = j ELSE UNCHANGED <<x, q>>
  /\ UNCHANGED <<data, linenum, i, j, t, cdb, server>>

Up ==
  /\ pc = "up"
  /\ IF q > i /\ Less(x[q \div 2], t)
     THEN x' = [x EXCEPT ![q] = x[q \div 2]] /\ q' = q \div 2 /\ pc' = pc
     ELSE x' = [x EXCEPT ![q] = t] /\ pc' = "sort" /\ q' = q
  /\ UNCHANGED <<data, linenum, i, j, t, cdb, server>>

Sorted ==
  /\ pc = "sort" /\ j <= 1
  /\ i' = 0 /\ pc' = "group"
  /\ UNCHANGED <<data, linenum, x, j, q, t, cdb, server>>

(* The addresses that follow the one at i + 1 and do not differ from it.   *)
Alike == {m \in i + 1..Len(x) :
            \A k \in i + 1..m : ~Less(x[i + 1], x[k]) /\ ~Less(x[k], x[i + 1])}

Pair(m) == [key |-> <<"+", x[m].location, x[m].name>>,
            data |-> [k \in 1..Cardinality(Alike) |-> x[i + k].ip]]

Group ==
  /\ pc = "group" /\ i < Len(x)
  /\ cdb' = Append(cdb, Pair(i + 1)) /\ i' = i + Cardinality(Alike)
  /\ UNCHANGED <<data, linenum, x, j, q, t, pc, server>>

Finish ==
  /\ pc = "group" /\ i >= Len(x)
  /\ pc' = "idle"
  /\ UNCHANGED <<compiler, server>>

Compile == ReadLine \/ EndOfData \/ Outer \/ Down \/ Up \/ Sorted \/ Group \/ Finish

-----------------------------------------------------------------------------
(* pickdns                                                                 *)

Find(key) ==
  LET found == {m \in 1..Len(cdb) : cdb[m].key = key} IN
  IF found = {} THEN <<>> ELSE cdb[CHOOSE m \in found : \A k \in found : m <= k].data

Networks(ip) == {m \in 1..Octets : Find(<<"%", SubSeq(ip, 1, m)>>) # <<>>}

(* The place of the longest beginning of the address that has one.         *)
Location(ip) ==
  IF Networks(ip) = {} THEN 0
  ELSE Find(<<"%", SubSeq(ip, 1, CHOOSE m \in Networks(ip) : \A k \in Networks(ip) : m >= k)>>)[1]

(* What is stored for the client's place, or else for no place.            *)
Stored(name, ip) ==
  IF Find(<<"+", Location(ip), name>>) # <<>> THEN Find(<<"+", Location(ip), name>>)
  ELSE Find(<<"+", 0, name>>)

Cut(s, m) == SubSeq(s, 1, IF Len(s) < m THEN Len(s) ELSE m)

NoAddresses(kind) == ips' = <<>> /\ n' = 0 /\ reply' = [kind |-> kind, a |-> <<>>] /\ pc' = pc

(* There is no answer when the database cannot be opened or read.          *)
Ask(name, qtype, ip) ==
  /\ pc = "idle"
  /\ asked' = [name |-> name, qtype |-> qtype, client |-> ip]
  /\ \/ NoAddresses("silent")
     \/ /\ qtype \notin {"A", "MX", "ANY"} \/ Stored(name, ip) = <<>>
        /\ NoAddresses("refused")
     \/ qtype = "MX" /\ Stored(name, ip) # <<>> /\ NoAddresses("found")
     \/ /\ qtype \in {"A", "ANY"} /\ Stored(name, ip) # <<>>
        /\ ips' = Cut(Stored(name, ip), MaxData) /\ n' = Len(ips')
        /\ reply' = [kind |-> "none", a |-> <<>>] /\ pc' = "sortip"
  /\ UNCHANGED compiler

Swap(k) == [ips EXCEPT ![k] = ips[n], ![n] = ips[k]]

(* One turn of dns_sortip.                                                 *)
Shuffle ==
  /\ pc = "sortip" /\ n > 1
  /\ \E k \in 1..n : ips' = Swap(k)
  /\ n' = n - 1
  /\ UNCHANGED <<compiler, pc, asked, reply>>

Answer ==
  /\ pc = "sortip" /\ n <= 1
  /\ reply' = [kind |-> "found", a |-> Reverse(Cut(ips, MaxAnswer))] /\ pc' = "idle"
  /\ UNCHANGED <<compiler, asked, ips, n>>

Next ==
  \/ Compile
  \/ \E name \in Name, qtype \in QType, ip \in Client : Ask(name, qtype, ip)
  \/ Shuffle \/ Answer

Spec == Init /\ [][Next]_vars /\ WF_vars(Compile)

-----------------------------------------------------------------------------
TypeOK ==
  /\ pc \in {"reading", "died", "sort", "down", "up", "group", "idle", "sortip"}
  /\ i \in 0..Len(x) /\ j \in 0..Len(x) /\ q \in 0..Len(x) /\ n \in 0..Len(ips)
  /\ reply.kind \in {"none", "silent", "refused", "found"}

Indices(s, e) == {m \in DOMAIN s : s[m] = e}
SameBag(s, u) ==
  /\ Len(s) = Len(u)
  /\ \A e \in Range(s) \cup Range(u) : Cardinality(Indices(s, e)) = Cardinality(Indices(u, e))

(* The lines of an address, and the addresses that have one.               *)
Lines(a) == {m \in DOMAIN data : data[m].c = "+" /\ data[m].address = a}
Addresses == {data[m].address : m \in {l \in DOMAIN data : data[l].c = "+"}}
Of(location, name) == {a \in Addresses : a.location = location /\ a.name = name}

(* pickdns-data.c:66-93: the sort, which keeps one address in t and has a  *)
(* hole or a copy in the array meanwhile, loses none and orders them all.  *)
SortRight ==
  pc \in {"group", "idle"} =>
    /\ \A a \in Range(x) \cup Addresses : Cardinality(Indices(x, a)) = Cardinality(Lines(a))
    /\ \A m \in 1..Len(x) - 1 : ~Less(x[m + 1], x[m])

(* pickdns-data.c:208-221: the server sees only the first record of a key; *)
(* it holds every address that the file has for that name and place.       *)
AllServed ==
  pc = "idle" =>
    \A a \in Addresses :
      LET found == Find(<<"+", a.location, a.name>>) IN
      \A ip \in Range(found) \cup {b.ip : b \in Of(a.location, a.name)} :
        Cardinality(Indices(found, ip)) = Cardinality(Lines([a EXCEPT !.ip = ip]))

(* The places that the file gives to a client: those of the first line of  *)
(* the most particular network it is in.                                   *)
Nets(ip) == {m \in 1..Len(data) : /\ data[m].c = "%" /\ Len(data[m].prefix) \in 1..Len(ip)
                                  /\ data[m].prefix = SubSeq(ip, 1, Len(data[m].prefix))}
Place(ip) ==
  IF Nets(ip) = {} THEN 0
  ELSE data[CHOOSE m \in Nets(ip) : \A k \in Nets(ip) :
              \/ Len(data[m].prefix) > Len(data[k].prefix)
              \/ Len(data[m].prefix) = Len(data[k].prefix) /\ m <= k].location

(* pickdns.c:42-61: an answer has addresses of the client's own place, and *)
(* of no place only when its own has none.                                 *)
PlaceRight ==
  LET at(location) == {a.ip : a \in Of(location, asked.name)}
  IN reply.a # <<>> =>
       Range(reply.a) \subseteq IF at(Place(asked.client)) # {} THEN at(Place(asked.client)) ELSE at(0)

(* pickdns.c:67-76, dns_sortip.c:12-20: an answer has as many addresses as *)
(* there are, up to three; each as often as the file has it at most.       *)
AnswerWhole ==
  reply.a # <<>> =>
    /\ Len(reply.a) = (IF Len(ips) < MaxAnswer THEN Len(ips) ELSE MaxAnswer)
    /\ SameBag(ips, Cut(Stored(asked.name, asked.client), MaxData))

=============================================================================

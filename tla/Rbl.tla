--------------------------------- MODULE Rbl ---------------------------------
(***************************************************************************)
(* rbldns-data.c and rbldns.c: networks and a text are compiled into a     *)
(* database; an address asked about, backwards before the base, is looked  *)
(* up with fewer and fewer of its bits.                                    *)
(*                                                                         *)
(* The database is the sequence of pairs that cdb_make was given; a search *)
(* finds the first pair of a key (module Cdb).  An address is its bits,    *)
(* the highest first.                                                      *)
(***************************************************************************)
EXTENDS Dd, FiniteSets

CONSTANTS
  Base,        \* the name under which addresses are asked for
  Bits,        \* bits in an octet, 8
  Value,       \* Value[label]: the bits of a label in Digits
  MaxShift,    \* bits that may be left out of the address, 24
  MaxText,     \* bytes of a text that are read, 100
  Line,        \* lines that a data file may have
  MaxLines,    \* bound on their number for the model checker
  Asked, QType \* names and types asked for

VARIABLES
  data, linenum,   \* the file and the lines of it that were read
  cdb,             \* the pairs
  pc, q, qtype,
  ipnum, i, found, \* the search of doit()
  reply            \* "none", "silent", "refused", "nxdomain" or an answer

vars == <<data, linenum, cdb, pc, q, qtype, ipnum, i, found, reply>>
file == <<data, linenum, cdb>>

Width == Octets * Bits
Octet == [1..Bits -> {0, 1}]
Zero == [k \in 1..Width |-> 0]

(* Fewer bits are left out than there are; a label has the bits of an      *)
(* octet.                                                                  *)
RblBounds ==
  /\ {Octets, MaxLines} \subseteq Nat /\ Bits \in Nat \ {0} /\ MaxShift \in 0..Width
  /\ Value \in [Digits -> Octet]
  /\ \A line \in Line : line.c = "0" => line.octets \in Seq(Octet) /\ line.bits \in Nat

None == [kind |-> "none", a |-> <<>>, text |-> <<>>]
Only(kind) == [None EXCEPT !.kind = kind]

Init ==
  /\ data \in UNION {[1..n -> Line] : n \in 0..MaxLines} /\ linenum = 1 /\ cdb = <<>>
  /\ pc = "reading" /\ q = <<>> /\ qtype = "none"
  /\ ipnum = Zero /\ i = 0 /\ found = FALSE /\ reply = None

-----------------------------------------------------------------------------
(* rbldns-data                                                             *)

(* Behind the octets given there are zeros.                                *)
Joined(octets) ==
  [k \in 1..Width |->
     LET o == (k - 1) \div Bits + 1
     IN IF o > Len(octets) THEN 0 ELSE octets[o][k - (o - 1) * Bits]]

(* The octets given and a length, Width if none is given or it is greater. *)
(* Bits that the length leaves out are kept.                               *)
Network(line) == [ip |-> Joined(line.octets), bits |-> IF line.bits > Width THEN Width ELSE line.bits]

TextKey == [ip |-> <<>>, bits |-> -1]

Dies(line) == line.c = "?"

Pairs(line) ==
  CASE line.c = ":" -> <<[key |-> TextKey, a |-> line.a, text |-> line.text]>>
    [] line.c = "0" -> <<[key |-> Network(line), a |-> <<>>, text |-> <<>>]>>
    [] OTHER -> <<>>

ReadLine ==
  /\ pc = "reading" /\ linenum <= Len(data)
  /\ IF Dies(data[linenum]) THEN pc' = "died" /\ UNCHANGED cdb
     ELSE cdb' = cdb \o Pairs(data[linenum]) /\ UNCHANGED pc
  /\ linenum' = linenum + 1
  /\ UNCHANGED <<data, q, qtype, ipnum, i, found, reply>>

Serve ==
  /\ pc = "reading" /\ linenum = Len(data) + 1
  /\ pc' = "idle"
  /\ UNCHANGED <<file, q, qtype, ipnum, i, found, reply>>

-----------------------------------------------------------------------------
(* rbldns                                                                  *)

Answer(r) == pc' = "idle" /\ reply' = r

AddressOf(name) == Joined([n \in 1..Octets |-> Value[name[Octets + 1 - n]]])

(* doit() up to its loop.  The numbers of the name are the address turned  *)
(* around.                                                                 *)
Ask(name, t) ==
  /\ pc = "idle"
  /\ q' = name /\ qtype' = t /\ i' = 0 /\ found' = FALSE
  /\ IF t \notin {"A", "TXT", "ANY"} \/ dd(name, Base) # Octets
     THEN Answer(Only("refused")) /\ ipnum' = Zero
     ELSE /\ ipnum' = AddressOf(name)
          /\ pc' = "looking" /\ reply' = None
  /\ UNCHANGED file

Cleared(ip, bits) == [k \in 1..Width |-> IF k > Width - bits THEN 0 ELSE ip[k]]
Matches(key) == {n \in 1..Len(cdb) : cdb[n].key = key}

AllTried == i > MaxShift

Look ==
  /\ pc = "looking" /\ ~AllTried /\ ~found
  /\ ipnum' = Cleared(ipnum, i)
  /\ found' = (Matches([ip |-> ipnum', bits |-> Width - i]) # {})
  /\ i' = i + 1
  /\ UNCHANGED <<file, pc, q, qtype, reply>>

NotListed ==
  /\ pc = "looking" /\ AllTried /\ ~found
  /\ Answer(Only("nxdomain"))
  /\ UNCHANGED <<file, q, qtype, ipnum, i, found>>

(* The text of the first line that has one, as far as it is read.          *)
Told ==
  IF Matches(TextKey) = {}
  THEN [a |-> <<127, 0, 0, 2>>, text |-> <<"Listed", "$">>]
  ELSE cdb[CHOOSE n \in Matches(TextKey) : \A m \in Matches(TextKey) : n <= m]

Cut(text) == SubSeq(text, 1, IF Len(text) < MaxText - 4 THEN Len(text) ELSE MaxText - 4)

(* A "$" at the end is replaced by the address.                            *)
Filled(text) ==
  IF text # <<>> /\ text[Len(text)] = "$"
  THEN SubSeq(text, 1, Len(text) - 1) \o Reverse(SubSeq(q, 1, Octets)) ELSE text

Tell ==
  /\ pc = "looking" /\ found
  /\ Answer([kind |-> "listed",
             a |-> IF qtype \in {"A", "ANY"} THEN Told.a ELSE <<>>,
             text |-> IF qtype \in {"TXT", "ANY"} THEN Filled(Cut(Told.text)) ELSE <<>>])
  /\ UNCHANGED <<file, q, qtype, ipnum, i, found>>

(* cdb_find or a read that fails, a full response, no data.cdb.            *)
NoAnswer ==
  /\ pc = "looking"
  /\ Answer(Only("silent"))
  /\ UNCHANGED <<file, q, qtype, ipnum, i, found>>

Next ==
  \/ ReadLine \/ Serve
  \/ \E name \in Asked, t \in QType : Ask(name, t)
  \/ Look \/ NotListed \/ Tell \/ NoAnswer

Spec == Init /\ [][Next]_vars

-----------------------------------------------------------------------------
TypeOK ==
  /\ pc \in {"reading", "died", "idle", "looking"} /\ linenum \in 1..Len(data) + 1
  /\ ipnum \in [1..Width -> {0, 1}] /\ i \in 0..MaxShift + 1

(* The networks of the file that can be found: those of a length the       *)
(* search tries, without bits behind it.                                   *)
Networks == {Network(data[n]) : n \in {m \in 1..Len(data) : data[m].c = "0"}}
Covers(net, ip) ==
  /\ net.bits >= Width - MaxShift
  /\ Cleared(ip, Width - net.bits) = net.ip

(* rbldns.c:40-49: an address is listed when a network of the file        *)
(* contains it, at either end of the lengths too, and not otherwise.       *)
ListedRight ==
  /\ reply.kind = "listed" => \E net \in Networks : Covers(net, AddressOf(q))
  /\ reply.kind = "nxdomain" => ~\E net \in Networks : Covers(net, AddressOf(q))

(* rbldns-data.c:92-117: the search misses a network written in whole      *)
(* octets only when it is wider than the search goes.                      *)
OctetsFound ==
  reply.kind = "nxdomain" =>
    \A n \in 1..Len(data) :
      ~ /\ data[n].c = "0" /\ data[n].bits = Len(data[n].octets) * Bits
        /\ data[n].bits >= Width - MaxShift
        /\ \A m \in 1..Len(data[n].octets) : Value[q[Octets + 1 - m]] = data[n].octets[m]

(* rbldns.c:51-77: the first text of the file, or the one built in, and  *)
(* the address of this question at its end.                                *)
TextRight ==
  reply.kind = "listed" /\ qtype # "A" =>
    LET texts == {n \in 1..Len(data) : data[n].c = ":"}
        text == Cut(IF texts = {} THEN <<"Listed", "$">>
                    ELSE data[CHOOSE n \in texts : \A m \in texts : n <= m].text)
    IN \/ reply.text = text /\ (text = <<>> \/ text[Len(text)] # "$")
       \/ /\ text # <<>> /\ text[Len(text)] = "$"
          /\ reply.text = SubSeq(text, 1, Len(text) - 1) \o Reverse(SubSeq(q, 1, Octets))
=============================================================================

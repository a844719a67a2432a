---------------------------- MODULE TinydnsData ----------------------------
(***************************************************************************)
(* tinydns-data.c: the lines of the file data become records of data.cdb.  *)
(* How the file is put in its place is in module Publish.                  *)
(*                                                                         *)
(* A line is its first character and its fields, of which those that       *)
(* matter are numbers, names, addresses or texts; None is a field without  *)
(* a number or an address, and "?" any line that cannot be parsed.  A name *)
(* field is its labels and whether it has a dot in it; a text is only a    *)
(* length.                                                                 *)
(***************************************************************************)
EXTENDS Integers, Sequences, FiniteSets, SequencesExt

CONSTANTS
  Line,         \* lines that a file may have
  MaxLines,     \* bound on their number for the model checker
  Mtimes,       \* times of change of the file
  Client, Times, \* clients' locations and moments that tell records apart
  None,
  MaxString,    \* 127
  Short, Long   \* 2^16 and 2^32, how numbers wrap

TTL_NS == 259200
TTL_POSITIVE == 86400
TTL_NEGATIVE == 2560
A == 1
NS == 2
CNAME == 5
SOA == 6
PTR == 12
MX == 15
TXT == 16
SRV == 33
AXFR == 252

VARIABLES
  data, mtime,  \* the file that is read
  linenum,      \* lines read
  result,       \* records in the order they were added
  status        \* "reading", "done" or "died" at a line

vars == <<data, mtime, linenum, result, status>>

-----------------------------------------------------------------------------
(* Fields.                                                                 *)

Number(field, default) == IF field = None THEN default ELSE field

(* A name without a dot stands for one below the line's own.               *)
Qualified(field, mid, owner) ==
  IF field.dot THEN field.labels ELSE field.labels \o <<mid>> \o owner.labels

Serial == IF mtime % Long = 0 THEN 1 ELSE mtime % Long

(* rr_start and rr_finish: a first label "*" is left out and marked.       *)
RR(owner, type, ttl, line, rdata) ==
  LET wild == owner # <<>> /\ Head(owner) = "*"
  IN [owner |-> IF wild THEN Tail(owner) ELSE owner, wild |-> wild, type |-> type,
      ttl |-> ttl % Long, ttd |-> line.ttd, loc |-> line.loc, rdata |-> rdata,
      line |-> linenum]

(* A text goes out in strings of at most MaxString bytes.                  *)
Chunks(n) ==
  [i \in 1..(n + MaxString - 1) \div MaxString |->
     IF i * MaxString <= n THEN MaxString ELSE n % MaxString]

-----------------------------------------------------------------------------
(* The switch over the first character.                                    *)

(* A line that dies: of a type that has its own character, a port missing. *)
Prohibited == {AXFR, 0, SOA, NS, CNAME, PTR, MX}

Dies(line) ==
  \/ line.c = ":" /\ Number(line.type, 0) % Short \in Prohibited
  \/ line.c = "S" /\ line.port = None
  \/ line.c = "?"

IfAddress(line, recs) == IF line.ip = None THEN <<>> ELSE recs

\* Mutant of NameServer: the SOA of a line that dies has a lifetime.
NameServerLasting(line) ==
  LET d1 == line.name.labels
      d2 == Qualified(line.x, "ns", line.name)
      ttl == Number(line.ttl, TTL_NS)
  IN (IF line.c = "."
      THEN <<RR(d1, SOA, TTL_NEGATIVE, line,
                [names |-> <<d2, <<"hostmaster">> \o d1>>, bytes |-> 20, serial |-> Serial])>>
      ELSE <<>>)
     \o <<RR(d1, NS, ttl, line, [names |-> <<d2>>, bytes |-> 0])>>
     \o IfAddress(line, <<RR(d2, A, ttl, line, [names |-> <<>>, bytes |-> 4, ip |-> line.ip])>>)

NameServer(line) ==
  LET d1 == line.name.labels
      d2 == Qualified(line.x, "ns", line.name)
      ttl == Number(line.ttl, TTL_NS)
  IN (IF line.c = "."
      THEN <<RR(d1, SOA, IF ttl = 0 THEN 0 ELSE TTL_NEGATIVE, line,
                [names |-> <<d2, <<"hostmaster">> \o d1>>, bytes |-> 20, serial |-> Serial])>>
      ELSE <<>>)
     \o <<RR(d1, NS, ttl, line, [names |-> <<d2>>, bytes |-> 0])>>
     \o IfAddress(line, <<RR(d2, A, ttl, line, [names |-> <<>>, bytes |-> 4, ip |-> line.ip])>>)

Zone(line) ==
  <<RR(line.name.labels, SOA, Number(line.ttl, TTL_NEGATIVE), line,
       [names |-> <<line.x.labels, line.y.labels>>, bytes |-> 20,
        serial |-> Number(line.serial, Serial) % Long])>>

Host(line) ==
  LET ttl == Number(line.ttl, TTL_POSITIVE)
      address == RR(line.name.labels, A, ttl, line, [names |-> <<>>, bytes |-> 4, ip |-> line.ip])
      pointer == RR(<<line.ip, "in-addr", "arpa">>, PTR, ttl, line,
                    [names |-> <<line.name.labels>>, bytes |-> 0])
  IN IfAddress(line, IF line.c = "=" THEN <<address, pointer>> ELSE <<address>>)

(* MX and SRV, with the address of the host they name.                     *)
Service(line) ==
  LET mx == line.c = "@"
      d2 == Qualified(line.x, IF mx THEN "mx" ELSE "srv", line.name)
      ttl == Number(line.ttl, TTL_POSITIVE)
  IN <<RR(line.name.labels, IF mx THEN MX ELSE SRV, ttl, line,
          IF mx THEN [names |-> <<d2>>, bytes |-> 2, numbers |-> <<Number(line.dist, 0) % Short>>]
          ELSE [names |-> <<d2>>, bytes |-> 6,
                numbers |-> <<Number(line.dist, 0) % Short, Number(line.weight, 0) % Short, line.port % Short>>])>>
     \o IfAddress(line, <<RR(d2, A, ttl, line, [names |-> <<>>, bytes |-> 4, ip |-> line.ip])>>)

Alias(line) ==
  <<RR(line.name.labels, IF line.c = "C" THEN CNAME ELSE PTR, Number(line.ttl, TTL_POSITIVE), line,
       [names |-> <<line.x.labels>>, bytes |-> 0])>>

Text(line) ==
  <<RR(line.name.labels, TXT, Number(line.ttl, TTL_POSITIVE), line,
       [names |-> <<>>, strings |-> Chunks(line.len)])>>

Generic(line) ==
  <<RR(line.name.labels, line.type % Short, Number(line.ttl, TTL_POSITIVE), line,
       [names |-> <<>>, bytes |-> line.len])>>

(* The location of a prefix of addresses: not a record of a name.          *)
Records(line) ==
  CASE line.c \in {".", "&"} -> NameServer(line)
    [] line.c = "Z" -> Zone(line)
    [] line.c \in {"+", "="} -> Host(line)
    [] line.c \in {"@", "S"} -> Service(line)
    [] line.c \in {"C", "^"} -> Alias(line)
    [] line.c = "'" -> Text(line)
    [] line.c = ":" -> Generic(line)
    [] OTHER -> <<>>

-----------------------------------------------------------------------------
Init ==
  /\ data \in UNION {[1..n -> Line] : n \in 0..MaxLines} /\ mtime \in Mtimes
  /\ linenum = 1 /\ result = <<>> /\ status = "reading"

ReadLine ==
  /\ status = "reading" /\ linenum <= Len(data)
  /\ IF Dies(data[linenum])
     THEN status' = "died" /\ UNCHANGED result
     ELSE result' = result \o Records(data[linenum]) /\ UNCHANGED status
  /\ linenum' = linenum + 1
  /\ UNCHANGED <<data, mtime>>

EndOfFile ==
  /\ status = "reading" /\ linenum = Len(data) + 1
  /\ status' = "done"
  /\ UNCHANGED <<data, mtime, linenum, result>>

Next == ReadLine \/ EndOfFile
Spec == Init /\ [][Next]_vars

-----------------------------------------------------------------------------
(* What a server makes of a record: find() in tdlookup.c.                  *)
Seen(rec, client, t) ==
  /\ rec.loc \in {"00", client}
  /\ rec.ttd = 0 \/ (IF rec.ttl = 0 THEN t <= rec.ttd ELSE rec.ttd < t)

TypeOK ==
  /\ status \in {"reading", "done", "died"} /\ linenum \in 1..Len(data) + 1
  /\ \A i \in 1..Len(result) : result[i].type \in 0..Short - 1 /\ result[i].ttl \in 0..Long - 1

\* The lifetime of a line is tested before it wraps (tinydns-data.c:300) and
\* kept after (:146): one that wraps to 0 is that of the name server, not of
\* the SOA beside it.
Wraps(line) == line.c = "." /\ Number(line.ttl, TTL_NS) # 0 /\ Number(line.ttl, TTL_NS) % Long = 0

(* tinydns-data.c:299-316, :329-340, :361-371: what one line says comes and*)
(* goes together, unless its lifetime wraps to 0: a zone never keeps its   *)
(* name servers without its SOA, for which tdlookup would take it for      *)
(* another's, nor a host its name.                                         *)
Together ==
  \A i, j \in 1..Len(result), client \in Client, t \in Times :
    result[i].line = result[j].line /\ ~Wraps(data[result[i].line]) =>
      (Seen(result[i], client, t) = Seen(result[j], client, t))

(* TINYDNS:22-27: the data of each type have the structure that tdlookup   *)
(* reads them by, also from lines that give type and data by number.       *)
Structured ==
  \A i \in 1..Len(result) :
    LET rec == result[i] IN
    CASE rec.type = SOA -> Len(rec.rdata.names) = 2 /\ rec.rdata.bytes = 20
      [] rec.type \in {NS, PTR, CNAME} -> Len(rec.rdata.names) = 1 /\ rec.rdata.bytes = 0
      [] rec.type = MX -> Len(rec.rdata.names) = 1 /\ rec.rdata.bytes = 2
      [] OTHER -> TRUE

(* tinydns-data.c:436-445: the strings of a text add up to it, none empty  *)
(* or too long for its length byte.                                        *)
TextWhole ==
  \A i \in 1..Len(result) :
    result[i].type = TXT /\ data[result[i].line].c = "'" =>
      LET strings == result[i].rdata.strings
      IN /\ FoldLeft(LAMBDA x, y : x + y, 0, strings) = data[result[i].line].len
         /\ \A k \in 1..Len(strings) : strings[k] \in 1..MaxString

(* tinydns-data.c:112-121: a zone whose line gives no serial does not have *)
(* the serial 0, at which secondaries would not see it change, whatever the*)
(* time of the file.  A "Z" line may give 0 itself.                        *)
SerialRight ==
  \A i \in 1..Len(result) :
    LET line == data[result[i].line]
    IN result[i].type = SOA /\ (line.c = "." \/ (line.c = "Z" /\ line.serial = None)) =>
         result[i].rdata.serial \in 1..Long - 1

(* tinydns-data.c:178-182, :450-473: a file is refused as a whole or every *)
(* line of it is in the database, in order.                                *)
AllOrNothing ==
  status = "done" =>
    /\ \A n \in 1..Len(data) :
         (\E i \in 1..Len(result) : result[i].line = n) <=>
           /\ data[n].c \notin {"#", "-", "%"}
           /\ data[n].c \in {"+", "="} => data[n].ip # None
    /\ \A i, j \in 1..Len(result) : i < j => result[i].line <= result[j].line
=============================================================================

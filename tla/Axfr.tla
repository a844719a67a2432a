-------------------------------- MODULE Axfr --------------------------------
(***************************************************************************)
(* axfr-get.c and axfrdns.c: a zone is copied over one connection into a   *)
(* file that tinydns-data can compile, while the master's data.cdb may be  *)
(* replaced and the connection or either program may end at any time.      *)
(*                                                                         *)
(* The lines and records are those of module TinydnsData, from which the   *)
(* master's databases are made and by which the copy is read again.        *)
(***************************************************************************)
EXTENDS Integers, Sequences, FiniteSets, SequencesExt

CONSTANTS
  ZoneName,
  Versions,     \* files of the master in time: lines and time of change
  ClientLoc,    \* location of the client for the master
  Peers,        \* "axfrdns", or "other" for a server that may say anything
  Strange,      \* records that such a one may send
  MaxLines,     \* bound on the lines it can make
  MaxTime,      \* bound on the clock
  None, MaxString, Short, Long

VARIABLES
  version, now,      \* of the master's data.cdb, and its clock
  request, stream,   \* the connection in both directions
  server,            \* axfrdns: what it does, and the database it has open
  client,            \* axfr-get: what it does
  fntmp, fn          \* its files

master == <<version, now>>
vars == <<version, now, request, stream, server, client, fntmp, fn>>

Data(time) == INSTANCE TinydnsData WITH
  Line <- {}, Mtimes <- {}, Client <- {}, Times <- {},
  data <- <<>>, mtime <- time, linenum <- 0, result <- <<>>, status <- "done"

SOA == 6
NS == 2
A == 1
CNAME == 5
PTR == 12
MX == 15
SRV == 33

Compiled(lines, time) == FlattenSeq([n \in DOMAIN lines |-> Data(time)!Records(lines[n])])
Cdb(v) == Compiled(Versions[v].lines, Versions[v].mtime)

ServerIdle == [pc |-> "idle", version |-> 1, now |-> 0, pos |-> 1]
ClientIdle == [pc |-> "idle", peer |-> "axfrdns", oldserial |-> 0, numsoa |-> 0]

Init ==
  /\ version = 1 /\ now = 0
  /\ request = "none" /\ stream = <<>>
  /\ server = ServerIdle /\ client = ClientIdle
  /\ fntmp = <<>> /\ fn = <<>>

-----------------------------------------------------------------------------
(* axfrdns                                                                 *)

(* build() finds a record to be one for this client and time.              *)
Built(rec, time) ==
  /\ rec.loc \in {"00", ClientLoc}
  /\ rec.ttd # 0 => IF rec.ttl = 0 THEN ~(rec.ttd < time) ELSE rec.ttd < time

(* What build() makes of it: the wildcard is put back, and a record about  *)
(* to die has two seconds left.                                            *)
Message(rec) ==
  [owner |-> IF rec.wild THEN <<"*">> \o rec.owner ELSE rec.owner, type |-> rec.type,
   ttl |-> IF rec.ttd # 0 /\ rec.ttl = 0 THEN 2 ELSE rec.ttl, rdata |-> rec.rdata]

Soas(v, time) ==
  SelectSeq(Cdb(v), LAMBDA rec : rec.owner = ZoneName /\ rec.type = SOA /\ ~rec.wild /\ Built(rec, time))

Publish ==
  /\ version < Len(Versions) /\ version' = version + 1
  /\ UNCHANGED <<now, request, stream, server, client, fntmp, fn>>

Tick ==
  /\ now < MaxTime /\ now' = now + 1
  /\ UNCHANGED <<version, request, stream, server, client, fntmp, fn>>

Break == /\ server' = ServerIdle /\ client' = ClientIdle
         /\ request' = "none" /\ stream' = <<>>
         /\ UNCHANGED <<master, fntmp, fn>>

(* respond() answers from the data.cdb of this moment.                     *)
RespondSoa ==
  /\ request = "soa" /\ client.peer = "axfrdns"
  /\ stream' = Append(stream, [kind |-> "answer", serial |-> IF Soas(version, now) = <<>> THEN None
                                                           ELSE Soas(version, now)[1].rdata.serial])
  /\ request' = "none"
  /\ UNCHANGED <<master, server, client, fntmp, fn>>

PrintRr(rec) == stream' = Append(stream, [kind |-> "rr", rr |-> Message(rec)])

(* data.cdb is opened once for the whole transfer.                         *)
StartTransfer ==
  /\ request = "axfr" /\ client.peer = "axfrdns" /\ Soas(version, now) # <<>>
  /\ PrintRr(Soas(version, now)[1])
  /\ server' = [pc |-> "records", version |-> version, now |-> now, pos |-> 1]
  /\ request' = "none"
  /\ UNCHANGED <<master, client, fntmp, fn>>

\* Mutant of Opened: the file is looked up again for each record.
OpenedAgain == version

Opened == server.version

SendRecord ==
  /\ server.pc = "records" /\ server.pos <= Len(Cdb(Opened))
  /\ LET rec == Cdb(Opened)[server.pos] IN
     IF IsSuffix(ZoneName, rec.owner) /\ rec.type # SOA /\ Built(rec, server.now)
     THEN PrintRr(rec) ELSE UNCHANGED stream
  /\ server' = [server EXCEPT !.pos = @ + 1]
  /\ UNCHANGED <<master, request, client, fntmp, fn>>

EndTransfer ==
  /\ server.pc = "records" /\ server.pos > Len(Cdb(Opened))
  /\ PrintRr(Soas(server.version, server.now)[1])
  /\ server' = ServerIdle
  /\ UNCHANGED <<master, request, client, fntmp, fn>>

(* Some other server answers as it likes.                                  *)
Other ==
  /\ client.peer = "other" /\ stream = <<>> /\ Len(fntmp) < MaxLines
  /\ \/ request = "soa" /\ stream' = <<[kind |-> "answer", serial |-> 1]>>
     \/ request = "axfr" /\ \E rr \in Strange : stream' = <<[kind |-> "rr", rr |-> rr]>>
  /\ UNCHANGED <<master, request, server, client, fntmp, fn>>

-----------------------------------------------------------------------------
(* axfr-get                                                                *)

(* The serial of the copy is in its first line.                            *)
Start(peer) ==
  /\ client.pc = "idle"
  /\ client' = [pc |-> "serial", peer |-> peer, numsoa |-> 0,
                oldserial |-> IF fn # <<>> /\ fn[1].c = "#" THEN fn[1].serial ELSE 0]
  /\ request' = "soa" /\ stream' = <<>> /\ server' = ServerIdle
  /\ UNCHANGED <<master, fntmp, fn>>

\* Mutant of Same: any other serial is taken for an older one.
SameNotNewer(serial) == client.oldserial >= serial

Same(serial) == client.oldserial # 0 /\ serial # 0 /\ client.oldserial = serial

GetSerial ==
  /\ client.pc = "serial" /\ stream # <<>>
  /\ LET serial == Head(stream).serial IN
     /\ serial # None
     /\ IF Same(serial) THEN client' = ClientIdle /\ request' = "none" /\ UNCHANGED fntmp
        ELSE client' = [client EXCEPT !.pc = "copy"] /\ request' = "axfr" /\ fntmp' = <<>>
  /\ stream' = Tail(stream)
  /\ UNCHANGED <<master, server, fn>>

Blank == [c |-> "#", name |-> [labels |-> <<>>, dot |-> TRUE], x |-> [labels |-> <<>>, dot |-> TRUE],
          y |-> [labels |-> <<>>, dot |-> TRUE], ip |-> None, ttl |-> None, ttd |-> 0, loc |-> "00",
          serial |-> None, dist |-> None, weight |-> None, port |-> None, type |-> None, len |-> 0]
Named(labels) == [labels |-> labels, dot |-> TRUE]

(* How much data a record has, of a type without structure.                *)
RdataLen(rdata) ==
  IF "strings" \in DOMAIN rdata THEN FoldLeft(LAMBDA n, m : n + m + 1, 0, rdata.strings) ELSE rdata.bytes

SoaLines(rr) ==
  <<[Blank EXCEPT !.serial = rr.rdata.serial],
    [Blank EXCEPT !.c = "Z", !.name = Named(rr.owner), !.ttl = rr.ttl,
                  !.x = Named(rr.rdata.names[1]), !.y = Named(rr.rdata.names[2]), !.serial = rr.rdata.serial]>>

(* The lines written for a record.                                         *)
Lines(rr) ==
  LET base == [Blank EXCEPT !.name = Named(rr.owner), !.ttl = rr.ttl]
      x == IF rr.rdata.names = <<>> THEN Blank.x ELSE Named(rr.rdata.names[1]) IN
  CASE rr.type = SOA -> SoaLines(rr)
    [] rr.type = NS -> <<[base EXCEPT !.c = "&", !.x = x]>>
    [] rr.type = CNAME -> <<[base EXCEPT !.c = "C", !.x = x]>>
    [] rr.type = PTR -> <<[base EXCEPT !.c = "^", !.x = x]>>
    [] rr.type = MX -> <<[base EXCEPT !.c = "@", !.x = x, !.dist = rr.rdata.numbers[1]]>>
    [] rr.type = SRV ->
         <<[base EXCEPT !.c = "S", !.x = x, !.port = rr.rdata.numbers[1],
                        !.dist = rr.rdata.numbers[2], !.weight = rr.rdata.numbers[3]]>>
    [] rr.type = A /\ rr.rdata.bytes = 4 -> <<[base EXCEPT !.c = "+", !.ip = rr.rdata.ip]>>
    [] OTHER -> <<[base EXCEPT !.c = ":", !.type = rr.type, !.len = RdataLen(rr.rdata)]>>

Taken(rr) == IsSuffix(ZoneName, rr.owner) /\ (rr.type = SOA => client.numsoa = 0)

Copying == client.pc = "copy" /\ client.numsoa < 2

(* doit() for the next record; a name server for a wildcard ends it.       *)
Copy ==
  /\ Copying /\ stream # <<>>
  /\ LET rr == Head(stream).rr IN
     /\ ~(rr.type = NS /\ rr.owner # <<>> /\ rr.owner[1] = "*" /\ IsSuffix(ZoneName, rr.owner))
     /\ fntmp' = IF Taken(rr) THEN fntmp \o Lines(rr) ELSE fntmp
     /\ client' = [client EXCEPT !.numsoa = IF rr.type = SOA /\ IsSuffix(ZoneName, rr.owner) THEN @ + 1 ELSE @]
  /\ stream' = Tail(stream)
  /\ UNCHANGED <<master, request, server, fn>>

Ended == client.numsoa >= 2

(* Flush, fsync, close and rename.                                         *)
Rename ==
  /\ client.pc = "copy" /\ Ended
  /\ fn' = fntmp /\ client' = ClientIdle /\ request' = "none"
  /\ UNCHANGED <<master, stream, server, fntmp>>

(* A timeout, an error or nonsense ends either program, and with it the    *)
(* connection.                                                             *)
Die == client.pc # "idle" /\ Break

Next ==
  \/ Publish \/ Tick \/ RespondSoa \/ StartTransfer \/ SendRecord \/ EndTransfer \/ Other
  \/ (\E peer \in Peers : Start(peer)) \/ GetSerial \/ Copy \/ Rename \/ Die

Spec == Init /\ [][Next]_vars

-----------------------------------------------------------------------------
TypeOK ==
  /\ version \in 1..Len(Versions) /\ server.pos \in 1..Len(Cdb(server.version)) + 1
  /\ client.numsoa \in 0..2 /\ client.oldserial \in 0..Long - 1

(* A record as its readers see it.                                         *)
Plain(rec) ==
  [owner |-> rec.owner, wild |-> rec.wild, type |-> rec.type,
   ttl |-> IF rec.ttd # 0 /\ rec.ttl = 0 THEN 2 ELSE rec.ttl,
   names |-> rec.rdata.names,
   number |-> CASE rec.type = SOA -> <<rec.rdata.serial>>
                [] rec.type \in {MX, SRV} -> rec.rdata.numbers
                [] rec.type = A /\ "ip" \in DOMAIN rec.rdata -> <<rec.rdata.ip>>
                [] OTHER -> <<RdataLen(rec.rdata)>>]

(* The zone of a version as tinydns would show it: one SOA, the first, and *)
(* everything else below the name.                                         *)
Shown(v, time) ==
  LET seen == SelectSeq(Cdb(v), LAMBDA rec : /\ Data(0)!Seen(rec, ClientLoc, time)
                                             /\ IsSuffix(ZoneName, rec.owner))
      soas == SelectSeq(seen, LAMBDA rec : rec.type = SOA /\ rec.owner = ZoneName)
  IN {Plain(seen[n]) : n \in {m \in DOMAIN seen : seen[m].type # SOA}}
     \cup (IF soas = <<>> THEN {} ELSE {Plain(soas[1])})

CopyHas(types) == {Plain(rec) : rec \in {r \in ToSet(Compiled(fn, 1)) : r.type \in types}}
Only(types, recs) == {r \in recs : r.type \in types}
Types == {A, NS, CNAME, SOA, PTR, MX, 16, 99}

(* axfr-get.c:373-398, axfrdns.c:250-296: the copy is empty or, compiled   *)
(* again, one version of the zone as it was at one moment, whatever        *)
(* changed or broke off during the transfer.                               *)
OneVersion ==
  fn # <<>> =>
    \E v \in 1..version, time \in 0..now : CopyHas(Types) = Only(Types, Shown(v, time))

(* axfr-get.c:305-318, :356-358: the serial in the first line is that of   *)
(* the zone below it, so that a copy found to be up to date is.            *)
SerialTrue ==
  (fn # <<>> /\ fn[1].c = "#") =>
    {fn[1].serial} = {rec.rdata.serial : rec \in {r \in ToSet(Compiled(fn, 1)) : r.type = SOA}}

(* axfr-get.c:150-154: whoever sends, the copy says nothing about names    *)
(* outside the zone and has at most one SOA.                               *)
InZone ==
  /\ \A n \in 1..Len(fn) : fn[n].c # "#" => IsSuffix(ZoneName, fn[n].name.labels)
  /\ Cardinality({n \in 1..Len(fn) : fn[n].c = "Z"}) <= 1

(* axfr-get.c:356-358: serials may move backwards; a run that ends without *)
(* a transfer leaves the version that the master has just told the serial  *)
(* of.                                                                     *)
Skipped ==
  [][GetSerial /\ client.peer = "axfrdns" /\ client'.pc = "idle" =>
       \E v \in 1..version, time \in 0..now :
         /\ stream[1].serial \in {rec.rdata.serial : rec \in ToSet(Soas(v, time))}
         /\ CopyHas(Types) = Only(Types, Shown(v, time))]_vars

(* axfr-get.c:212-231: the numbers of a service come back in their places. *)
ServicesCopied ==
  fn # <<>> => \E v \in 1..version, time \in 0..now : CopyHas({SRV}) = Only({SRV}, Shown(v, time))
=============================================================================

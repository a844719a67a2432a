------------------------------ MODULE TdLookup ------------------------------
(***************************************************************************)
(* tdlookup.c, the lookups of tinydns and axfrdns: respond() opens         *)
(* data.cdb when its copy is old, finds the location of the client, and    *)
(* doit() builds the answer: the zone of the name, the records of the name *)
(* or of a wildcard, name servers or SOA, addresses of the names           *)
(* mentioned.                                                              *)
(*                                                                         *)
(* A database is a sequence of records and a location for some prefixes of *)
(* client addresses; cdb_findnext gives the records of a name in their     *)
(* order (module Cdb).  A record is named by its place in that sequence.   *)
(* One that is too long makes find() return -1 before anything of it was   *)
(* read.                                                                   *)
(***************************************************************************)
EXTENDS Integers, Sequences, FiniteSets, SequencesExt

CONSTANTS
  Name, Parent,       \* domain names; Parent of the root is "none"
  Client, LocKeys,   \* clients; the keys tried for each, longest first
  QType,              \* types asked for; may contain "ANY"
  Databases,          \* contents that data.cdb may have
  Replaced(_),        \* and those that may take the place of one
  MaxAddr,            \* addresses given for a name, 8 in the code
  MaxRecords,         \* records in 512 bytes
  Ttl, MinTtl, MaxTtl,   \* a lifetime; bounds 2 and 3600 of a running one
  MaxTime, MaxPublish    \* bounds for the model checker

Record ==
  [owner : Name, type : STRING, target : STRING, wild : BOOLEAN, loc : STRING,
   life : {"always", "until", "from"}, at : Nat, long : BOOLEAN]

NoFile == [exists |-> FALSE, records |-> <<>>, locs |-> <<>>]
Files == Databases \cup {NoFile}

(* A name and those above it, up to the root: what every set that has the  *)
(* name and the parents of its members has.                                *)
Above == [d \in Name |->
  {e \in Name : \A S \in SUBSET Name :
     d \in S /\ (\A x \in S : Parent[x] # "none" => Parent[x] \in S) => e \in S}]

ASSUME NamesAssumption ==
  /\ "none" \notin Name /\ Parent \in [Name -> Name \cup {"none"}]
  /\ \A d \in Name : Parent[d] # "none" => d \notin Above[Parent[d]]
ASSUME DatabasesAssumption ==
  \A base \in Databases :
    /\ base.exists \in BOOLEAN /\ base.records \in Seq(Record)
    /\ Replaced(base) \subseteq Databases
ASSUME NumbersAssumption ==
  /\ MaxAddr \in Nat /\ MaxRecords \in Nat /\ Ttl \in Nat
  /\ MinTtl \in Nat /\ MaxTtl \in Nat /\ MinTtl <= MaxTtl

VARIABLES
  file,       \* data.cdb as it is now
  published,  \* how often it was replaced, up to MaxPublish
  old,        \* when the file that is open was replaced, 0 if it was not
  db,         \* the file that is open, NoFile for fd = -1
  valid,      \* cdb_valid
  clock, setback,   \* the clock, and whether it was ever set back
  now         \* the clock as read for this query

fileVars == <<file, published, old, clock, setback>>

VARIABLES
  pc, q, qtype, loc,
  control, wild,         \* the names searched
  rest,                  \* places of the records that find() has yet to see
  type,                  \* the static type: of the last record that was read
  flagns, flagauthoritative, flaggavesoa, flagfound,
  addr, addrnum, addrttl,   \* addr has the places of the records
  answer, authority, additional,   \* sections of the response
  aa, nx,                          \* bits of its header
  bpos,                  \* records whose targets have been looked at
  reply                  \* "none" yet, "silent" or "sent"

work == <<control, wild, rest, type, flagns, flagauthoritative, flaggavesoa,
          flagfound, addr, addrnum, addrttl, answer, authority, additional, aa, nx, bpos>>
asked == <<q, qtype, loc, db, valid, now>>
vars == <<fileVars, asked, work, pc, reply>>

-----------------------------------------------------------------------------
(* find()                                                                  *)

(* ttl 0 with a time: the record dies then; another ttl: it starts then.   *)
Alive(rec) ==
  /\ rec.life = "until" => ~(rec.at < now)
  /\ rec.life = "from" => rec.at < now

ttl(rec) ==
  LET left == rec.at - now
  IN IF rec.life # "until" THEN Ttl
     ELSE IF left <= MinTtl THEN MinTtl ELSE IF left >= MaxTtl THEN MaxTtl ELSE left

\* Mutant of Visible.
VisibleEverywhere(rec, flagwild) ==
  rec.wild = flagwild /\ Alive(rec)

Visible(rec, flagwild) ==
  rec.loc \in {"any", loc} /\ rec.wild = flagwild /\ Alive(rec)

(* The records of a name, for cdb_findstart and cdb_findnext.              *)
Of(base, d) == {i \in DOMAIN base.records : base.records[i].owner = d}
Search(d) == rest' = Of(db, d)

Rec(i) == db.records[i]
Lowest(S) == CHOOSE i \in S : \A j \in S : i <= j
Highest(S) == CHOOSE i \in S : \A j \in S : j <= i

(* Where a call of find() stops: at a record it takes or cannot read.  The *)
(* types of the records that it skips are read.                            *)
Stops(flagwild) == {i \in rest : Rec(i).long \/ Visible(Rec(i), flagwild)}
Stop(flagwild) == Lowest(Stops(flagwild))

Took(flagwild) == Stops(flagwild) # {} /\ ~Rec(Stop(flagwild)).long
Failed(flagwild) == Stops(flagwild) # {} /\ Rec(Stop(flagwild)).long
Ended(flagwild) == Stops(flagwild) = {}

TypeAfter(read) == IF read = {} THEN type ELSE Rec(Highest(read)).type
FindNext(flagwild) ==
  LET i == Stop(flagwild)
  IN /\ rest' = {j \in rest : j > i}
     /\ type' = IF Rec(i).long THEN TypeAfter({j \in rest : j < i}) ELSE Rec(i).type

-----------------------------------------------------------------------------
(* The response.                                                           *)

RR(owner, i) == [owner |-> owner, place |-> i, type |-> Rec(i).type, ttl |-> ttl(Rec(i))]
want(owner, t) ==
  \A r \in ToSet(answer) \cup ToSet(authority) \cup ToSet(additional) :
    ~(r.owner = owner /\ r.type = t)

Silent == pc' = "idle" /\ reply' = "silent"

Init ==
  /\ file \in Databases /\ published = 0 /\ old = 0
  /\ db = NoFile /\ valid = 0 /\ clock = 1 /\ setback = FALSE /\ now = 1
  /\ pc = "idle" /\ q = "none" /\ qtype = "none" /\ loc = "00"
  /\ control = "none" /\ wild = "none" /\ rest = {} /\ type = "none"
  /\ flagns = FALSE /\ flagauthoritative = FALSE /\ flaggavesoa = FALSE /\ flagfound = FALSE
  /\ addr = <<>> /\ addrnum = 0 /\ addrttl = 0
  /\ answer = <<>> /\ authority = <<>> /\ additional = <<>>
  /\ aa = FALSE /\ nx = FALSE /\ bpos = 0 /\ reply = "none"

(* The location of a client: the longest prefix that has one.              *)
ClientLoc(base, client) ==
  LET tried == LocKeys[client]
      found == {i \in 1..Len(tried) : tried[i] \in DOMAIN base.locs}
  IN IF found = {} THEN "00"
     ELSE base.locs[tried[Lowest(found)]]

StartControl(d, base) ==
  /\ control' = d
  /\ rest' = Of(base, d)
  /\ flagns' = FALSE /\ flagauthoritative' = FALSE

\* Mutant of Stale.
StaleNever == valid = 0

(* respond(): open the database again when it is older than a second.  The *)
(* question is of the class IN, so that server.c:54-57 has set aa.         *)
Stale == valid < clock

Respond(client, name, t) ==
  LET base == IF Stale THEN file ELSE db IN
  /\ pc = "idle" /\ reply = "none"
  /\ now' = clock
  /\ db' = base
  /\ old' = IF Stale THEN 0 ELSE old
  /\ valid' = IF Stale /\ base.exists THEN clock + 1 ELSE valid
  /\ q' = name /\ qtype' = t
  /\ answer' = <<>> /\ authority' = <<>> /\ additional' = <<>>
  /\ aa' = TRUE /\ nx' = FALSE
  /\ wild' = name /\ flaggavesoa' = FALSE /\ flagfound' = FALSE
  /\ addr' = <<>> /\ addrnum' = 0 /\ addrttl' = 0 /\ bpos' = 0
  /\ IF ~base.exists
     THEN Silent /\ UNCHANGED <<loc, control, rest, flagns, flagauthoritative>>
     ELSE /\ loc' = ClientLoc(base, client)
          /\ pc' = "control" /\ UNCHANGED reply
          /\ StartControl(name, base)
  /\ UNCHANGED <<file, published, clock, setback, type>>

-----------------------------------------------------------------------------
(* doit(): the zone of the name.                                           *)

(* The parentheses of lines 133 and 255 give r the value 1 where find()    *)
(* returned -1: the turn goes on with the type of an earlier record.       *)
ControlTurn ==
  /\ pc = "control" /\ ~Ended(FALSE)
  /\ FindNext(FALSE)
  /\ flagauthoritative' = (flagauthoritative \/ type' = "SOA")
  /\ flagns' = (flagns \/ type' = "NS")
  /\ UNCHANGED <<fileVars, asked, pc, reply, control, wild, flaggavesoa, flagfound, addr,
                 addrnum, addrttl, answer, authority, additional, aa, nx, bpos>>

(* From AUTHORITY on: which of the two searches for the control zone.      *)
Authority ==
  IF flagauthoritative /\ answer' = <<>>
  THEN pc' = "soa" /\ Search(control)
  ELSE IF want(control, "NS")'
       THEN pc' = "ns" /\ Search(control)
       ELSE pc' = "glue" /\ UNCHANGED rest

ControlFound ==
  /\ pc = "control" /\ Ended(FALSE) /\ flagns
  /\ type' = TypeAfter(rest)
  /\ UNCHANGED <<fileVars, asked, reply, control, wild, flagns, flagauthoritative,
                 flaggavesoa, flagfound, addr, addrnum, addrttl, answer, authority,
                 additional, nx, bpos>>
  /\ IF flagauthoritative
     THEN pc' = "answer" /\ Search(q) /\ UNCHANGED aa
     ELSE aa' = FALSE /\ Authority

ControlParent ==
  /\ pc = "control" /\ Ended(FALSE) /\ ~flagns
  /\ type' = TypeAfter(rest)
  /\ IF Parent[control] = "none"
     THEN Silent /\ UNCHANGED <<control, rest, flagns, flagauthoritative>>
     ELSE StartControl(Parent[control], db) /\ UNCHANGED <<pc, reply>>
  /\ UNCHANGED <<fileVars, asked, wild, flaggavesoa, flagfound, addr, addrnum, addrttl,
                 answer, authority, additional, aa, nx, bpos>>

-----------------------------------------------------------------------------
(* doit(): the answer section.                                             *)

Asked(t) == t = qtype \/ qtype = "ANY" \/ t = "CNAME"
Passes(t) == (flaggavesoa /\ t = "SOA") \/ ~Asked(t)

\* Mutant of Placed.
PlacedOver(i, place) ==
  IF i >= MaxAddr THEN addr
  ELSE [n \in 1..(IF addrnum < MaxAddr THEN addrnum + 1 ELSE MaxAddr) |->
          IF n = i + 1 \/ n > Len(addr) THEN place ELSE addr[n]]

(* One more address for the table, at a random place; what was there moves *)
(* to the end while there is room.                                         *)
Placed(i, place) ==
  IF i >= MaxAddr THEN addr
  ELSE LET moved == IF i < addrnum THEN addr[i + 1] ELSE place
       IN [n \in 1..(IF addrnum < MaxAddr THEN addrnum + 1 ELSE MaxAddr) |->
             IF n = i + 1 THEN place ELSE IF n = addrnum + 1 THEN moved ELSE addr[n]]

(* One turn of the loop over the records of the name: nothing is done with *)
(* the record, it is an address (of four bytes, as tinydns-data writes     *)
(* them), or it is written.                                                *)
AnswerTurn ==
  /\ pc = "answer" /\ Took(wild # q)
  /\ FindNext(wild # q)
  /\ flagfound' = TRUE
  /\ UNCHANGED <<fileVars, asked, pc, reply, control, wild, flagns, flagauthoritative,
                 authority, additional, aa, nx, bpos>>

AnswerPasses ==
  /\ AnswerTurn /\ Passes(type')
  /\ UNCHANGED <<answer, addr, addrnum, addrttl, flaggavesoa>>

AnswerAddress ==
  /\ AnswerTurn /\ ~Passes(type') /\ type' = "A"
  /\ \E i \in 0..addrnum : addr' = Placed(i, Stop(wild # q))
  /\ addrnum' = addrnum + 1 /\ addrttl' = ttl(Rec(Stop(wild # q)))
  /\ UNCHANGED <<answer, flaggavesoa>>

AnswerRecord ==
  /\ AnswerTurn /\ ~Passes(type') /\ type' # "A"
  /\ answer' = Append(answer, RR(q, Stop(wild # q)))
  /\ flaggavesoa' = (flaggavesoa \/ type' = "SOA")
  /\ UNCHANGED <<addr, addrnum, addrttl>>

(* A record that cannot be read or written: no answer at all.              *)
Fails(at, flagwild) ==
  /\ pc = at /\ Failed(flagwild)
  /\ FindNext(flagwild)
  /\ Silent
  /\ UNCHANGED <<fileVars, asked, control, wild, flagns, flagauthoritative, flaggavesoa,
                 flagfound, addr, addrnum, addrttl, answer, authority, additional, aa, nx, bpos>>

WithAddresses ==
  answer \o [i \in 1..Len(addr) |-> [RR(q, addr[i]) EXCEPT !.ttl = addrttl]]

AnswerEnd ==
  /\ pc = "answer" /\ Ended(wild # q)
  /\ type' = TypeAfter(rest)
  /\ answer' = WithAddresses
  /\ UNCHANGED <<fileVars, asked, reply, control, flagns, flagauthoritative, flaggavesoa,
                 flagfound, authority, additional, aa, bpos>>
  /\ IF flagfound \/ wild = control \/ Parent[wild] = "none"
     THEN nx' = ~flagfound /\ Authority /\ UNCHANGED <<wild, addr, addrnum, addrttl>>
     ELSE /\ wild' = Parent[wild] /\ Search(Parent[wild])
          /\ addr' = <<>> /\ addrnum' = 0 /\ addrttl' = 0
          /\ UNCHANGED <<nx, pc>>

-----------------------------------------------------------------------------
(* doit(): authority and additional sections.                              *)

SoaRecord ==
  /\ pc = "soa" /\ Took(FALSE)
  /\ FindNext(FALSE)
  /\ IF type' = "SOA"
     THEN authority' = Append(authority, RR(control, Stop(FALSE))) /\ pc' = "glue"
     ELSE UNCHANGED <<authority, pc>>
  /\ UNCHANGED <<fileVars, asked, reply, control, wild, flagns, flagauthoritative, flaggavesoa,
                 flagfound, addr, addrnum, addrttl, answer, additional, aa, nx, bpos>>

NsRecord ==
  /\ pc = "ns" /\ Took(FALSE)
  /\ FindNext(FALSE)
  /\ authority' = IF type' = "NS" THEN Append(authority, RR(control, Stop(FALSE))) ELSE authority
  /\ UNCHANGED <<fileVars, asked, pc, reply, control, wild, flagns, flagauthoritative, flaggavesoa,
                 flagfound, addr, addrnum, addrttl, answer, additional, aa, nx, bpos>>

AuthorityEnd ==
  /\ pc \in {"soa", "ns"} /\ Ended(FALSE)
  /\ pc' = "glue" /\ type' = TypeAfter(rest) /\ rest' = {}
  /\ UNCHANGED <<fileVars, asked, reply, control, wild, flagns, flagauthoritative, flaggavesoa,
                 flagfound, addr, addrnum, addrttl, answer, authority, additional, aa, nx, bpos>>

(* The loop over the records of the first two sections.                    *)
Mentioning == answer \o authority
Mentions(i) == Mentioning[i].type \in {"NS", "MX"}
TargetOf(i) == Rec(Mentioning[i].place).target
Target == TargetOf(bpos)

\* Mutant of GlueName.
GlueNameUnwanted ==
  /\ pc = "glue" /\ bpos < Len(Mentioning)
  /\ bpos' = bpos + 1
  /\ IF Mentions(bpos + 1)
     THEN pc' = "addresses" /\ Search(TargetOf(bpos + 1))
     ELSE UNCHANGED <<pc, rest>>
  /\ UNCHANGED <<fileVars, asked, reply, control, wild, type, flagns, flagauthoritative,
                 flaggavesoa, flagfound, addr, addrnum, addrttl, answer, authority,
                 additional, aa, nx>>

GlueName ==
  /\ pc = "glue" /\ bpos < Len(Mentioning)
  /\ bpos' = bpos + 1
  /\ IF Mentions(bpos + 1) /\ want(TargetOf(bpos + 1), "A")
     THEN pc' = "addresses" /\ Search(TargetOf(bpos + 1))
     ELSE UNCHANGED <<pc, rest>>
  /\ UNCHANGED <<fileVars, asked, reply, control, wild, type, flagns, flagauthoritative,
                 flaggavesoa, flagfound, addr, addrnum, addrttl, answer, authority,
                 additional, aa, nx>>

(* As in ControlTurn; after a failure the type may be that of an earlier   *)
(* record, and so are the lifetime and the four bytes that are then sent   *)
(* as an address: place and ttl 0 stand for them.                          *)
GlueTurn ==
  /\ pc = "addresses" /\ ~Ended(FALSE)
  /\ FindNext(FALSE)
  /\ additional' =
       IF type' # "A" THEN additional
       ELSE Append(additional, IF Took(FALSE) THEN RR(Target, Stop(FALSE))
                               ELSE [owner |-> Target, place |-> 0, type |-> "A", ttl |-> 0])
  /\ UNCHANGED <<fileVars, asked, pc, reply, control, wild, flagns, flagauthoritative, flaggavesoa,
                 flagfound, addr, addrnum, addrttl, answer, authority, aa, nx, bpos>>

GlueEnd ==
  /\ pc = "addresses" /\ Ended(FALSE)
  /\ pc' = "glue" /\ type' = TypeAfter(rest) /\ rest' = {}
  /\ UNCHANGED <<fileVars, asked, reply, control, wild, flagns, flagauthoritative, flaggavesoa,
                 flagfound, addr, addrnum, addrttl, answer, authority, additional, aa, nx, bpos>>

(* What does not fit into 512 bytes goes, from the end; answers stay.      *)
TooLong(records) == flagauthoritative /\ records > MaxRecords
Finish ==
  /\ pc = "glue" /\ bpos = Len(Mentioning)
  /\ additional' = IF TooLong(Len(Mentioning) + Len(additional)) THEN <<>> ELSE additional
  /\ authority' = IF TooLong(Len(Mentioning) + Len(additional)) /\ TooLong(Len(Mentioning)) THEN <<>> ELSE authority
  /\ pc' = "idle" /\ reply' = "sent"
  /\ UNCHANGED <<fileVars, asked, control, wild, rest, type, flagns, flagauthoritative,
                 flaggavesoa, flagfound, addr, addrnum, addrttl, answer, aa, nx, bpos>>

(* response_* finds no room in 65535 bytes.                                *)
NoRoom ==
  /\ pc \in {"answer", "soa", "ns", "addresses"}
  /\ Silent
  /\ UNCHANGED <<fileVars, asked, work>>

-----------------------------------------------------------------------------
(* Between two queries.                                                    *)

(* What doit() had in its local variables is gone; the static type stays.  *)
Return ==
  /\ pc = "idle" /\ reply # "none"
  /\ reply' = "none"
  /\ q' = "none" /\ qtype' = "none" /\ loc' = "00" /\ now' = 1
  /\ control' = "none" /\ wild' = "none" /\ rest' = {}
  /\ flagns' = FALSE /\ flagauthoritative' = FALSE
  /\ flaggavesoa' = FALSE /\ flagfound' = FALSE
  /\ addr' = <<>> /\ addrnum' = 0 /\ addrttl' = 0
  /\ answer' = <<>> /\ authority' = <<>> /\ additional' = <<>>
  /\ aa' = FALSE /\ nx' = FALSE /\ bpos' = 0
  /\ UNCHANGED <<fileVars, db, valid, type, pc>>

Publish ==
  /\ pc = "idle" /\ reply = "none" /\ published < MaxPublish
  /\ file' \in Replaced(file) /\ published' = published + 1
  /\ old' = IF old = 0 THEN clock ELSE old
  /\ UNCHANGED <<clock, setback, asked, work, pc, reply>>

Tick ==
  /\ pc = "idle" /\ reply = "none" /\ clock < MaxTime
  /\ clock' = clock + 1
  /\ UNCHANGED <<file, published, old, setback, asked, work, pc, reply>>

ClockSetBack ==
  /\ pc = "idle" /\ reply = "none" /\ ~setback /\ clock > 1 /\ Replaced(file) # {}
  /\ clock' \in 1..clock - 1 /\ setback' = TRUE
  /\ UNCHANGED <<file, published, old, asked, work, pc, reply>>

Doit ==
  \/ ControlTurn \/ ControlFound \/ ControlParent
  \/ AnswerPasses \/ AnswerAddress \/ AnswerRecord \/ AnswerEnd \/ Fails("answer", wild # q)
  \/ SoaRecord \/ NsRecord \/ AuthorityEnd \/ Fails("soa", FALSE) \/ Fails("ns", FALSE)
  \/ GlueName \/ GlueTurn \/ GlueEnd \/ Finish \/ NoRoom

Next ==
  \/ \E client \in Client, name \in Name, t \in QType : Respond(client, name, t)
  \/ Doit \/ Return \/ Publish \/ Tick \/ ClockSetBack

Spec == Init /\ [][Next]_vars

-----------------------------------------------------------------------------
(* Properties.                                                             *)

TypeOK ==
  /\ file \in Databases /\ db \in Files
  /\ clock \in Nat /\ now \in Nat /\ valid \in Nat /\ old \in Nat
  /\ pc \in {"idle", "control", "answer", "soa", "ns", "glue", "addresses"}
  /\ reply \in {"none", "silent", "sent"}
  /\ control \in Name \cup {"none"} /\ wild \in Name \cup {"none"}
  /\ rest \subseteq DOMAIN db.records
  /\ addr \in Seq(DOMAIN db.records) /\ Len(addr) <= MaxAddr
  /\ addrnum \in Nat /\ bpos \in Nat

(* What the answer should be, from the records alone.                      *)
Nearest(S) == CHOOSE d \in S : S \subseteq Above[d]
Shown(d, w) == {i \in Of(db, d) : Visible(Rec(i), w)}
OfType(S, t) == {i \in S : Rec(i).type = t}

Zones == {d \in Above[q] : OfType(Shown(d, FALSE), "NS") # {}}
Zone == Nearest(Zones)
Ours == OfType(Shown(Zone, FALSE), "SOA") # {}
Sources == {d \in Above[q] : Zone \in Above[d] /\ Shown(d, d # q) # {}}
Source == Shown(Nearest(Sources), Nearest(Sources) # q)
Healthy == \A i \in DOMAIN db.records : ~Rec(i).long
Sent == pc = "idle" /\ reply = "sent"

(* The records at the positions I of a section are those of S, in the order *)
(* of the file and each of them once.                                       *)
Listed(section, I, S) ==
  /\ {section[i].place : i \in I} = S
  /\ \A i, j \in I : i < j => section[i].place < section[j].place

AtA == {i \in DOMAIN answer : answer[i].type = "A"}
AtOther == DOMAIN answer \ AtA
Given == {answer[i].place : i \in AtA}

(* What of the records S is asked for: of several SOA only the first.      *)
WantedOf(S) == {i \in S : LET t == Rec(i).type IN
  /\ Asked(t) /\ t # "A"
  /\ t = "SOA" => \A j \in OfType(S, "SOA") : i <= j}
AddressesOf(S) == IF Asked("A") THEN OfType(S, "A") ELSE {}

AnswerOf(wanted, addresses) ==
  /\ Zones # {} /\ (aa <=> Ours)
  /\ IF ~Ours \/ Sources = {}
     THEN answer = <<>> /\ (nx <=> Ours)
     ELSE /\ ~nx
          /\ Listed(answer, AtOther, wanted)
          /\ Given \subseteq addresses
          /\ \A i, j \in AtA : i # j => answer[i].place # answer[j].place
          /\ Cardinality(Given) = IF Cardinality(addresses) < MaxAddr
                                  THEN Cardinality(addresses) ELSE MaxAddr
AnswerIs == AnswerOf(WantedOf(Source), AddressesOf(Source))

(* tdlookup.c:128-207 doit: the answer is what the visible records of the  *)
(* name say, or else of the nearest wildcard inside the zone; one SOA; at  *)
(* most MaxAddr addresses, none of them twice; NXDOMAIN only if nothing of *)
(* any type is there; nothing and no authority below a delegation.         *)
AnswerRight == Sent /\ Healthy => AnswerIs

Servers == OfType(Shown(Zone, FALSE), "NS")
Soas == OfType(Shown(Zone, FALSE), "SOA")
Answered == q = Zone /\ \E i \in DOMAIN answer : answer[i].type = "NS"
Due == IF Ours /\ answer = <<>> THEN {Lowest(Soas)}
       ELSE IF Answered THEN {} ELSE Servers

(* tdlookup.c:210-238: an authoritative answer without records carries the *)
(* SOA; any other the name servers of its zone, unless they are its answer *)
(* or there is no room; nothing else enters the section.                   *)
AuthorityRight ==
  Sent /\ Healthy =>
    \/ Listed(authority, DOMAIN authority, Due)
    \/ authority = <<>> /\ Ours /\ Len(answer) + Cardinality(Due) > MaxRecords

(* The names that the first n records mention, and their addresses.        *)
Targets(n) == {TargetOf(i) : i \in {i \in 1..n : Mentions(i)}}
AddressesDue(t) == IF t = q /\ AtA # {} THEN {} ELSE OfType(Shown(t, FALSE), "A")
GivenFor(t) == {i \in DOMAIN additional : additional[i].owner = t}

GlueDue == UNION {AddressesDue(t) : t \in Targets(Len(Mentioning))}

(* tdlookup.c:240-276: every name server or mail exchanger mentioned comes *)
(* with all its visible addresses, once; an authoritative answer leaves    *)
(* them out as a whole if with them there would be more than fits.         *)
GlueRight ==
  Sent /\ Healthy =>
    /\ \A i \in DOMAIN additional : additional[i].owner \in Targets(Len(Mentioning))
    /\ \/ \A t \in Targets(Len(Mentioning)) : Listed(additional, GivenFor(t), AddressesDue(t))
       \/ /\ additional = <<>> /\ Ours
          /\ Len(answer) + Cardinality(Due) + Cardinality(GlueDue) > MaxRecords

(* A record of the database, for this client and this moment, under its    *)
(* own name or a wildcard's.                                               *)
Genuine(r) ==
  LET rec == Rec(r.place) IN
  /\ r.place \in DOMAIN db.records /\ r.type = rec.type
  /\ rec.loc \in {"any", loc} /\ Alive(rec) /\ ~rec.long
  /\ \/ ~rec.wild /\ r.owner = rec.owner
     \/ rec.wild /\ r.owner = q /\ rec.owner \in Above[q] \ {q}

(* tdlookup.c:46-88, :158-191, :214-237: even when records cannot be read, *)
(* answer and authority hold only genuine records; tdlookup.c:252-262: the *)
(* additional section has addresses of names mentioned, and one that is no *)
(* record's only for a name with a record that cannot be read.             *)
OnlyGenuine ==
  Sent =>
    /\ \A r \in ToSet(answer) \cup ToSet(authority) : Genuine(r)
    /\ \A r \in ToSet(additional) :
         /\ r.type = "A" /\ r.owner \in Targets(Len(Mentioning))
         /\ \/ Genuine(r) /\ ~Rec(r.place).wild
            \/ r.place = 0 /\ \E i \in Of(db, r.owner) : Rec(i).long

\* A lifetime that ends with its record, or is 2 seconds.
EndsWith(r) ==
  LET rec == Rec(r.place) IN
  IF rec.life = "until"
  THEN /\ r.ttl >= MinTtl
       /\ now + r.ttl <= (IF rec.at > now + MinTtl THEN rec.at ELSE now + MinTtl)
  ELSE r.ttl = Ttl

\* The addresses that are read with one.
Beside(i) == OfType(Shown(Rec(i).owner, Rec(i).wild), "A")

(* tdlookup.c:70-83: a record that will die is not given a lifetime beyond *)
(* its end, or 2 seconds; but all addresses of an answer get that of the   *)
(* last one read (:164, :194), one that dies before it too.                *)
TtlRight ==
  Sent =>
    /\ \A r \in ToSet(answer) \cup ToSet(authority) : r.type # "A" => EndsWith(r)
    /\ \A r \in ToSet(additional) : r.place # 0 => EndsWith(r)
    /\ \A i \in AtA : answer[i].ttl = ttl(Rec(Highest(Beside(answer[i].place))))

(* tdlookup.c:73-85: two versions of a record that hand over at one time   *)
(* are never both visible nor both hidden.                                 *)
HandsOver ==
  \A r, s \in {Rec(i) : i \in DOMAIN db.records} :
    r.life = "until" /\ s.life = "from" /\ r.at = s.at => Alive(r) # Alive(s)

(* tdlookup.c:201: the comment "impossible".                               *)
WildBelowControl ==
  pc = "answer" => control \in Above[wild] /\ wild \in Above[q]

(* tdlookup.c:289-300: unless the clock was set back, an answer is from a  *)
(* file that was data.cdb a second ago or later, and a server that found   *)
(* no file answers once there is one.                                      *)
Fresh ==
  ~setback =>
    /\ Sent => old = 0 \/ old >= now - 1
    /\ reply # "none" /\ ~db.exists => ~file.exists

(* tdlookup.c:210-276: the sections that are not the answer hold what must *)
(* go with it, each record once, and go as wholes when there is no room.   *)
SectionsRight == AuthorityRight /\ GlueRight

(* tdlookup.c:46-88, :201: whatever cannot be read, the search stays in    *)
(* the zone, and but for addresses of a name that has an unreadable record *)
(* nothing is sent that this client may not see now.                       *)
NothingForeign == TypeOK /\ WildBelowControl /\ OnlyGenuine

(* tdlookup.c:70-85, :289-300: a file is not used for longer than it may,  *)
(* nor a record given for longer than it lasts, or than the last address   *)
(* beside it; and versions follow each other without a gap.                *)
Timely == Fresh /\ HandsOver /\ TtlRight

(* tdlookup.c:146: the comment "q is in a child zone", where the answer is *)
(* a referral: the zone found has name servers for this client.            *)
ChildZone ==
  pc \in {"ns", "glue"} /\ ~flagauthoritative => OfType(Shown(control, FALSE), "NS") # {}
=============================================================================

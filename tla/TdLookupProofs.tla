--------------------------- MODULE TdLookupProofs ---------------------------
(***************************************************************************)
(* What tdlookup.c sends, for every tree of names, every contents of       *)
(* data.cdb and every limit: the properties of module TdLookup.            *)
(*                                                                         *)
(* OwnInv says what answer and authority may hold, and needs nothing of   *)
(* the records.  FreshInv ties the age of the open file to the clock.      *)
(* RightInv and SectionInv say, for a database that can be read, that the  *)
(* sections are what was seen so far; they rest on OwnInv and on the order *)
(* in which find() sees the records.  GivenInv, for every database again,  *)
(* says which lifetime addresses get and what is added for names mentioned.*)
(***************************************************************************)
EXTENDS TdLookup, FiniteSetTheorems, SequenceTheorems, WellFoundedInduction, TLAPS

-----------------------------------------------------------------------------
(* Names.                                                                  *)

\* What a set that has d and all parents of its members has.
LEMMA AboveLeast ==
  ASSUME NEW d \in Name, NEW S \in SUBSET Name, d \in S,
         \A x \in S : Parent[x] # "none" => Parent[x] \in S
  PROVE Above[d] \subseteq S
BY DEF Above

\* A name is above itself, and with a name its parent is.
LEMMA AboveUp ==
  ASSUME NEW d \in Name
  PROVE /\ Above[d] \subseteq Name /\ d \in Above[d]
        /\ \A x \in Above[d] : Parent[x] # "none" => Parent[x] \in Above[d] /\ Parent[x] \in Name
BY NamesAssumption DEF Above

\* What is above a name above d is above d.
LEMMA AboveAbove ==
  ASSUME NEW d \in Name, NEW e \in Above[d]
  PROVE e \in Name /\ Above[e] \subseteq Above[d]
<1>1. e \in Name /\ Above[d] \in SUBSET Name /\ \A x \in Above[d] : Parent[x] # "none" => Parent[x] \in Above[d]
  BY AboveUp
<1> QED BY <1>1, AboveLeast

\* The names above d are d and those above its parent.
LEMMA AboveParent ==
  ASSUME NEW d \in Name
  PROVE Above[d] = IF Parent[d] = "none" THEN {d} ELSE {d} \cup Above[Parent[d]]
<1> DEFINE S == IF Parent[d] = "none" THEN {d} ELSE {d} \cup Above[Parent[d]]
<1>1. CASE Parent[d] = "none"
  <2>1. {d} \in SUBSET Name /\ d \in {d} /\ \A x \in {d} : Parent[x] # "none" => Parent[x] \in {d}
    BY <1>1
  <2>2. Above[d] \subseteq {d}
    BY <2>1, AboveLeast
  <2> QED BY <2>2, <1>1, AboveUp
<1>2. CASE Parent[d] # "none"
  <2>1. Parent[d] \in Name /\ Parent[d] \in Above[d]
    BY <1>2, NamesAssumption, AboveUp
  <2>2. Above[Parent[d]] \subseteq Above[d] /\ d \in Above[d]
    BY <2>1, AboveAbove, AboveUp
  <2>3. /\ {d} \cup Above[Parent[d]] \in SUBSET Name
        /\ \A x \in {d} \cup Above[Parent[d]] :
              Parent[x] # "none" => Parent[x] \in {d} \cup Above[Parent[d]]
    BY <2>1, AboveUp
  <2>4. Above[d] \subseteq {d} \cup Above[Parent[d]]
    BY <2>3, AboveLeast
  <2> QED BY <1>2, <2>2, <2>4
<1> QED BY <1>1, <1>2

\* Two names are not above each other.
LEMMA AboveBoth ==
  ASSUME NEW d \in Name, NEW e \in Above[d], d \in Above[e]
  PROVE d = e
<1> SUFFICES ASSUME d # e PROVE FALSE
  OBVIOUS
<1>1. Parent[d] # "none" /\ Parent[d] \in Name /\ e \in Above[Parent[d]]
  <2>1. Above[d] = IF Parent[d] = "none" THEN {d} ELSE {d} \cup Above[Parent[d]]
    BY AboveParent
  <2> QED BY <2>1, NamesAssumption
<1>2. Above[e] \subseteq Above[Parent[d]]
  BY <1>1, AboveAbove
<1> QED BY <1>1, <1>2, NamesAssumption

\* The nearest of the names S is the one that the others are above.
LEMMA NearestIs ==
  ASSUME NEW S \in SUBSET Name, NEW d \in S, S \subseteq Above[d]
  PROVE Nearest(S) = d
<1>1. Nearest(S) \in S /\ S \subseteq Above[Nearest(S)]
  BY DEF Nearest
<1> QED BY <1>1, AboveBoth

-----------------------------------------------------------------------------
(* Places.                                                                 *)

\* A set of natural numbers has a least member.
LEMMA LeastNatural ==
    ASSUME NEW T \in SUBSET Nat, T # {}
    PROVE  \E x \in T : \A y \in T : x <= y
<1> DEFINE less == OpToRel(<, Nat)
<1>1. \E x \in T : \A y \in T : ~(<<y, x>> \in less)
  BY NatLessThanWellFounded, WFMin
<1>2. less = {ss \in Nat \X Nat : ss[1] < ss[2]}
  BY Zenon DEF OpToRel
<1>3. \A x, y \in Nat : y < x => <<y, x>> \in less
  <2> HIDE DEF less
  <2> QED BY <1>2
<1> HIDE DEF less
<1>4. PICK x \in T : \A y \in T : ~(<<y, x>> \in less)
  BY <1>1
<1>5. \A y \in T : ~(y < x)
  BY <1>3, <1>4, Zenon
<1>6. \A y \in T : x <= y
  BY <1>5
<1> QED BY <1>6

\* A set of numbers that is not empty has a lowest member.
LEMMA LowestIs ==
  ASSUME NEW S \in SUBSET Nat, S # {}
  PROVE Lowest(S) \in S /\ \A j \in S : Lowest(S) <= j
BY LeastNatural DEF Lowest

\* An answer is being built, or was sent.
Busy == pc # "idle" \/ reply = "sent"

\* What find() looks at.
Searched == IF pc = "answer" THEN wild ELSE control

\* The places of the records of the file that is open.
Places == DOMAIN db.records

\* The records that answer and authority may have: genuine, and a lifetime
\* that ends with the record but for addresses.
LifeOK(r) == r.type # "A" => EndsWith(r)
Item == {r \in [owner : Name, place : Places, type : STRING, ttl : Int] : Genuine(r) /\ LifeOK(r)}

\* An address that waits to be written.
Smaller(a, b) == IF a < b THEN a ELSE b
\* It was taken from the name that is looked at.
Waits(i) == Rec(i).owner = wild /\ Rec(i).type = "A" /\ Visible(Rec(i), wild # q) /\ ~Rec(i).long

\* The zone is above the name asked for, and the name looked at between them.
NamesOK ==
  /\ Busy => q \in Name /\ control \in Above[q]
  /\ WildBelowControl
\* find() has only records of the name it was started for.
SearchOK == pc \in {"control", "answer", "soa", "ns"} => rest \subseteq Of(db, Searched)
\* What was written is an item.
ItemsOK == Busy => answer \in Seq(Item) /\ authority \in Seq(Item)
\* The table of addresses: as long as addrnum says, and all of it may be written.
AddrOK == pc = "answer" =>
  /\ Len(addr) = Smaller(addrnum, MaxAddr)
  /\ \A i \in DOMAIN addr : Waits(addr[i])
  /\ addr # <<>> => addrttl \in Int

\* Nothing was written before its turn.
StartOK ==
  /\ pc = "control" => wild = q /\ addr = <<>> /\ addrnum = 0 /\ answer = <<>>
  /\ pc \in {"control", "answer"} => authority = <<>> /\ additional = <<>>

\* Between queries no search is open.
IdleOK == pc = "idle" /\ reply = "none" => rest = {}

\* What answer and authority hold, and the searches behind it.
OwnInv == TypeOK /\ NamesOK /\ SearchOK /\ ItemsOK /\ AddrOK /\ StartOK /\ IdleOK

-----------------------------------------------------------------------------
\* A file is a sequence of records.
LEMMA FileTyped ==
  ASSUME NEW base \in Files
  PROVE base.exists \in BOOLEAN /\ base.records \in Seq(Record) /\ DOMAIN base.records \subseteq Nat
<1>1. base.exists \in BOOLEAN /\ base.records \in Seq(Record)
  <2>1. NoFile.exists = FALSE /\ NoFile.records = <<>>
    BY DEF NoFile
  <2>2. <<>> \in Seq(Record)
    OBVIOUS
  <2> QED BY <2>1, <2>2, DatabasesAssumption DEF Files
<1>2. PICK s \in Seq(Record) : s = base.records
  BY <1>1
<1>3. DOMAIN s \subseteq Nat
  OBVIOUS
<1> QED BY <1>1, <1>2, <1>3

\* So is what the server has open, and find() has places of it.
LEMMA DbTyped ==
  ASSUME TypeOK
  PROVE /\ db.records \in Seq(Record) /\ Places \subseteq Nat /\ rest \subseteq Nat
        /\ \A i \in Places : Rec(i) \in Record
<1>1. db \in Files /\ rest \subseteq Places
  BY DEF TypeOK, Places
<1>2. db.records \in Seq(Record) /\ Places \subseteq Nat
  BY <1>1, FileTyped DEF Places
<1> QED BY <1>1, <1>2 DEF Places, Rec

\* Where find() stops is the first of the places that it would stop at.
LEMMA StopIs ==
  ASSUME TypeOK, NEW w \in BOOLEAN, ~Ended(w)
  PROVE /\ Stop(w) \in rest /\ Stop(w) \in Places /\ Stop(w) \in Nat
        /\ Stop(w) \in Stops(w) /\ \A j \in Stops(w) : Stop(w) <= j
<1>1. Stops(w) \in SUBSET Nat /\ Stops(w) # {} /\ Stops(w) \subseteq rest
  BY DbTyped DEF Stops, Ended
<1>2. Stop(w) \in Stops(w) /\ \A j \in Stops(w) : Stop(w) <= j
  BY <1>1, LowestIs DEF Stop
<1> QED BY <1>1, <1>2, DbTyped DEF TypeOK, Places

\* A record that find() took is one of the name, for the client, alive.
LEMMA TookIs ==
  ASSUME TypeOK, NEW w \in BOOLEAN, Took(w)
  PROVE /\ Stop(w) \in rest /\ Stop(w) \in Places /\ Rec(Stop(w)) \in Record
        /\ Visible(Rec(Stop(w)), w) /\ ~Rec(Stop(w)).long
<1>1. ~Ended(w)
  BY DEF Took, Ended
<1> QED BY <1>1, StopIs, DbTyped DEF Took, Stops

\* A call of find() leaves less to be seen.
LEMMA NextTyped ==
  ASSUME TypeOK, NEW w \in BOOLEAN, FindNext(w)
  PROVE rest' \subseteq rest /\ rest' \subseteq Places
BY DEF FindNext, TypeOK, Places

\* The records of a name are places of its file.
LEMMA OfTyped == ASSUME NEW base, NEW d PROVE Of(base, d) \subseteq DOMAIN base.records
BY DEF Of

\* A lifetime ends with its record, or is 2 seconds.
LEMMA TtlIs ==
  ASSUME TypeOK, NEW rec \in Record
  PROVE /\ ttl(rec) \in Int
        /\ IF rec.life = "until"
           THEN ttl(rec) >= MinTtl /\ now + ttl(rec) <= (IF rec.at > now + MinTtl THEN rec.at ELSE now + MinTtl)
           ELSE ttl(rec) = Ttl
<1>1. rec.at \in Nat /\ now \in Nat
  BY DEF Record, TypeOK
<1>2. CASE rec.life # "until"
  BY <1>2, NumbersAssumption DEF ttl
<1>3. CASE rec.life = "until"
  <2>1. PICK left \in Int : left = rec.at - now
    BY <1>1
  <2>2. ttl(rec) = IF left <= MinTtl THEN MinTtl ELSE IF left >= MaxTtl THEN MaxTtl ELSE left
    BY <1>3, <2>1 DEF ttl
  <2> QED BY <1>1, <1>3, <2>1, <2>2, NumbersAssumption
<1> QED BY <1>2, <1>3

\* What is written for a record that was found is an item of the response.
LEMMA NewItem ==
  ASSUME TypeOK, NEW owner \in Name, NEW w \in BOOLEAN, NEW i \in Places,
         Visible(Rec(i), w), ~Rec(i).long,
         ~w => owner = Rec(i).owner,
         w => owner = q /\ Rec(i).owner \in Above[q] \ {q}
  PROVE RR(owner, i) \in Item
<1>1. Rec(i) \in Record
  BY DbTyped
<1>2. ttl(Rec(i)) \in Int /\ Rec(i).type \in STRING
  BY <1>1, TtlIs DEF Record
<1>3. /\ RR(owner, i).owner = owner /\ RR(owner, i).place = i /\ RR(owner, i).type = Rec(i).type
      /\ RR(owner, i).ttl = ttl(Rec(i))
      /\ RR(owner, i) \in [owner : Name, place : Places, type : STRING, ttl : Int]
  BY <1>2 DEF RR
<1>4. Genuine(RR(owner, i))
  BY <1>3 DEF Genuine, Visible, Places
<1>5. LifeOK(RR(owner, i))
  BY <1>1, <1>3, TtlIs DEF LifeOK, EndsWith
<1> QED BY <1>3, <1>4, <1>5 DEF Item

\* The table of addresses gets the new one, keeps the others but for the one
\* it may replace, and is never longer than MaxAddr.
LEMMA PlacedIs ==
  ASSUME NEW D, addr \in Seq(D), addrnum \in Nat, Len(addr) = Smaller(addrnum, MaxAddr),
         NEW i \in 0 .. addrnum, NEW p \in D
  PROVE /\ Placed(i, p) \in Seq(D) /\ Len(Placed(i, p)) = Smaller(addrnum + 1, MaxAddr)
        /\ \A n \in DOMAIN Placed(i, p) :
             Placed(i, p)[n] = p \/ \E m \in DOMAIN addr : Placed(i, p)[n] = addr[m]
        /\ (\A m, n \in DOMAIN addr : m # n => addr[m] # addr[n]) /\ (\A m \in DOMAIN addr : addr[m] # p)
             => \A m, n \in DOMAIN Placed(i, p) : m # n => Placed(i, p)[m] # Placed(i, p)[n]
<1>1. CASE i >= MaxAddr
  <2>1. Placed(i, p) = addr
    BY <1>1 DEF Placed
  <2>2. Len(addr) = Smaller(addrnum + 1, MaxAddr)
    BY <1>1, NumbersAssumption DEF Smaller
  <2> QED BY <2>1, <2>2
<1>2. CASE i < MaxAddr
  <2> DEFINE len == IF addrnum < MaxAddr THEN addrnum + 1 ELSE MaxAddr
             moved == IF i < addrnum THEN addr[i + 1] ELSE p
  <2>1. ~(i >= MaxAddr) /\ i \in Int /\ len \in Nat /\ len = Smaller(addrnum + 1, MaxAddr)
    BY <1>2, NumbersAssumption DEF Smaller
  <2>2. Placed(i, p) = [n \in 1 .. len |-> IF n = i + 1 THEN p ELSE IF n = addrnum + 1 THEN moved ELSE addr[n]]
    BY <2>1 DEF Placed
  <2>3. /\ DOMAIN addr = 1 .. Len(addr)
        /\ \A n \in 1 .. len : n # addrnum + 1 => n \in DOMAIN addr
        /\ i < addrnum => i + 1 \in DOMAIN addr
    BY <1>2, NumbersAssumption DEF Smaller
  <2>4. \A n \in DOMAIN addr : addr[n] \in D
    OBVIOUS
  <2>5. moved \in D /\ (i < addrnum => moved = addr[i + 1]) /\ (~(i < addrnum) => moved = p /\ i = addrnum)
    BY <2>3, <2>4
  <2> HIDE DEF moved, len
  <2>6. Placed(i, p) \in [1 .. len -> D]
    BY <2>2, <2>3, <2>4, <2>5
  <2>7. Placed(i, p) \in Seq(D) /\ Len(Placed(i, p)) = len /\ DOMAIN Placed(i, p) = 1 .. len
    BY <2>1, <2>6
  <2>8. \A n \in 1 .. len : \/ n = i + 1 /\ Placed(i, p)[n] = p
                            \/ n # i + 1 /\ n = addrnum + 1 /\ i < addrnum /\ Placed(i, p)[n] = addr[i + 1]
                            \/ n # i + 1 /\ n # addrnum + 1 /\ n \in DOMAIN addr /\ Placed(i, p)[n] = addr[n]
    BY <2>1, <2>2, <2>3, <2>5
  <2>9. \A n \in 1 .. len : Placed(i, p)[n] = p \/ \E m \in DOMAIN addr : Placed(i, p)[n] = addr[m]
    BY <2>3, <2>8
  <2>10. ASSUME \A m, n \in DOMAIN addr : m # n => addr[m] # addr[n],
                \A m \in DOMAIN addr : addr[m] # p,
                NEW m \in 1 .. len, NEW n \in 1 .. len, m # n
         PROVE Placed(i, p)[m] # Placed(i, p)[n]
    BY <2>1, <2>3, <2>8, <2>10
  <2> QED BY <2>1, <2>7, <2>9, <2>10
<1> QED BY <1>1, <1>2, NumbersAssumption

-----------------------------------------------------------------------------
(* Steps of doit() and OwnInv.                                             *)

\* What every step of doit() leaves alone.
Frame == pc # "idle" /\ UNCHANGED <<fileVars, asked>>

\* A record stays what it is, and visible or not, while a query runs.
LEMMA SameRecords ==
  ASSUME UNCHANGED <<db, now, loc>>
  PROVE /\ Places' = Places /\ \A i : Rec(i)' = Rec(i)
        /\ \A rec : Alive(rec)' = Alive(rec) /\ ttl(rec)' = ttl(rec)
        /\ \A rec, w : Visible(rec, w)' = Visible(rec, w)
BY DEF Places, Rec, Alive, ttl, Visible

\* So does an item of the response.
LEMMA SameItems ==
  ASSUME UNCHANGED <<db, now, loc, q>>
  PROVE Item' = Item
<1>1. Places' = Places /\ \A r : Genuine(r)' = Genuine(r) /\ LifeOK(r)' = LifeOK(r)
  BY DEF Genuine, LifeOK, EndsWith, Rec, Alive, ttl, Places
<1> QED BY <1>1 DEF Item

\* A step of doit() keeps OwnInv if it keeps the parts that it can disturb.
LEMMA OwnStep ==
  ASSUME OwnInv, Frame, pc' \in {"idle", "control", "answer", "soa", "ns", "glue", "addresses"},
         reply' \in {"none", "silent", "sent"}, pc' # "idle" \/ reply' # "none",
         control' \in Above[control], wild' \in Name \cup {"none"}, WildBelowControl',
         rest' \subseteq Places, SearchOK', addr' \in Seq(Places), Len(addr') <= MaxAddr,
         addrnum' \in Nat, bpos' \in Nat, AddrOK', StartOK',
         answer' \in Seq(Item), authority' \in Seq(Item)
  PROVE OwnInv'
<1>1. Busy /\ q \in Name /\ control \in Above[q] /\ control \in Name
  BY AboveUp DEF OwnInv, NamesOK, Busy, Frame
<1>2. control' \in Above[q] /\ control' \in Name /\ q' = q
  BY <1>1, AboveAbove DEF Frame, asked
<1>3. NamesOK'
  BY <1>1, <1>2 DEF NamesOK
<1>4. Item' = Item
  BY SameItems DEF Frame, asked
<1>5. ItemsOK'
  BY <1>4 DEF ItemsOK
<1>6. DOMAIN db'.records = Places
  BY DEF Frame, asked, Places
<1>7. TypeOK'
  BY <1>2, <1>6 DEF OwnInv, TypeOK, Frame, asked, fileVars
<1> QED BY <1>3, <1>5, <1>7 DEF OwnInv, IdleOK

\* What holds of the variables while doit() runs.
LEMMA Running ==
  ASSUME OwnInv, Frame
  PROVE /\ q \in Name /\ control \in Above[q] /\ control \in Name /\ control \in Above[control]
        /\ pc = "answer" => wild \in Name /\ wild \in Above[q] /\ control \in Above[wild]
        /\ answer \in Seq(Item) /\ authority \in Seq(Item)
        /\ rest \subseteq Places /\ addr \in Seq(Places) /\ Len(addr) <= MaxAddr /\ addrnum \in Nat
        /\ bpos \in Nat /\ Of(db, q) \subseteq Places
        /\ \A d : Of(db, d) \subseteq Places /\ Of(db, d)' = Of(db, d)
        /\ wild \in Name \cup {"none"} /\ TypeOK
<1>1. Busy /\ q \in Name /\ control \in Above[q]
  BY DEF OwnInv, NamesOK, Busy, Frame
<1>2. control \in Name /\ control \in Above[control] /\ Above[q] \subseteq Name
  BY <1>1, AboveUp
<1>3. \A d : Of(db, d) \subseteq Places /\ Of(db, d)' = Of(db, d)
  BY DEF Of, Places, Frame, asked
<1> QED BY <1>1, <1>2, <1>3 DEF OwnInv, NamesOK, WildBelowControl, ItemsOK, TypeOK, Places

\* A turn of the search for the zone keeps the invariant.
LEMMA ControlTurnOwn == ASSUME OwnInv, ControlTurn PROVE OwnInv'
<1>1. Frame
  BY DEF ControlTurn, Frame
<1>2. rest' \subseteq rest /\ rest' \subseteq Places
  BY NextTyped DEF ControlTurn, OwnInv
<1>3. pc' = "control" /\ pc = "control"
      /\ UNCHANGED <<reply, control, wild, addr, addrnum, addrttl, answer, authority, bpos>>
  BY DEF ControlTurn
<1>4. SearchOK'
  BY <1>1, <1>2, <1>3, Running DEF OwnInv, SearchOK, Searched
<1>5. AddrOK' /\ WildBelowControl' /\ StartOK'
  BY <1>1, <1>3 DEF AddrOK, WildBelowControl, OwnInv, StartOK, Frame, asked, ControlTurn
<1>6. pc' \in {"idle", "control", "answer", "soa", "ns", "glue", "addresses"} /\ reply' \in {"none", "silent", "sent"}
  BY <1>3 DEF OwnInv, TypeOK
<1> QED BY <1>1, <1>2, <1>3, <1>4, <1>5, <1>6, Running, OwnStep

\* The zone found keeps the invariant.
LEMMA ControlFoundOwn == ASSUME OwnInv, ControlFound PROVE OwnInv'
<1>1. Frame
  BY DEF ControlFound, Frame
<1>2. /\ UNCHANGED <<reply, control, wild, addr, addrnum, addrttl, answer, authority, additional, bpos, flagauthoritative>>
      /\ pc = "control" /\ wild = q /\ addr = <<>> /\ addrnum = 0 /\ authority = <<>> /\ additional = <<>>
  BY DEF ControlFound, OwnInv, StartOK
<1>3. /\ q' = q /\ reply' \in {"none", "silent", "sent"}
      /\ AddrOK'
  <2>1. addr' = <<>> /\ addrnum' = 0 /\ Len(<<>>) = Smaller(0, MaxAddr)
    BY <1>2, NumbersAssumption DEF Smaller
  <2> QED BY <1>1, <1>2, <2>1 DEF AddrOK, Frame, asked, OwnInv, TypeOK
<1>4. CASE flagauthoritative
  <2>1. pc' = "answer" /\ rest' = Of(db, q)
    BY <1>4 DEF ControlFound, Search
  <2>2. SearchOK' /\ rest' \subseteq Places
    BY <2>1, <1>1, <1>2, <1>3, Running DEF SearchOK, Searched
  <2>3. WildBelowControl' /\ StartOK'
    BY <2>1, <1>1, <1>2, <1>3, Running, AboveUp DEF WildBelowControl, StartOK
  <2> QED BY <1>1, <1>2, <1>3, <2>1, <2>2, <2>3, Running, OwnStep
<1>5. CASE ~flagauthoritative
  <2>1. /\ pc' \in {"soa", "ns", "glue"}
        /\ pc' \in {"soa", "ns"} => rest' = Of(db, control)
        /\ rest' = Of(db, control) \/ rest' = rest
    BY <1>5 DEF ControlFound, Authority, Search
  <2>2. SearchOK' /\ rest' \subseteq Places
    BY <2>1, <1>1, <1>2, Running DEF SearchOK, Searched
  <2>3. WildBelowControl' /\ StartOK'
    BY <2>1 DEF WildBelowControl, StartOK
  <2> QED BY <1>1, <1>2, <1>3, <2>1, <2>2, <2>3, Running, OwnStep
<1> QED BY <1>4, <1>5

\* The step to the parent keeps the invariant.
LEMMA ControlParentOwn == ASSUME OwnInv, ControlParent PROVE OwnInv'
<1>1. Frame
  BY DEF ControlParent, Frame
<1>2. /\ UNCHANGED <<wild, addr, addrnum, addrttl, answer, authority, additional, bpos>>
      /\ pc = "control"
  BY DEF ControlParent
<1>3. CASE Parent[control] = "none"
  <2>1. pc' = "idle" /\ reply' = "silent" /\ UNCHANGED <<control, rest>>
    BY <1>3 DEF ControlParent, Silent
  <2>2. SearchOK' /\ WildBelowControl' /\ StartOK' /\ AddrOK'
    BY <2>1 DEF SearchOK, WildBelowControl, StartOK, AddrOK
  <2> QED BY <1>1, <1>2, <2>1, <2>2, Running, OwnStep
<1>4. CASE Parent[control] # "none"
  <2>1. UNCHANGED <<pc, reply>> /\ control' = Parent[control] /\ rest' = Of(db, Parent[control])
    BY <1>4 DEF ControlParent, StartControl
  <2>2. control' \in Above[control]
    BY <2>1, <1>1, <1>4, Running, AboveUp
  <2>3. SearchOK' /\ rest' \subseteq Places
    BY <2>1, <1>1, <1>2, Running DEF SearchOK, Searched
  <2>4. WildBelowControl' /\ StartOK' /\ AddrOK'
    BY <1>1, <1>2, <2>1 DEF WildBelowControl, StartOK, AddrOK, OwnInv, Frame, asked
  <2>5. reply' \in {"none", "silent", "sent"}
    BY <2>1 DEF OwnInv, TypeOK
  <2> QED BY <1>1, <1>2, <2>1, <2>2, <2>3, <2>4, <2>5, Running, OwnStep
<1> QED BY <1>3, <1>4

\* What find() took while the name or a wildcard is searched.
LEMMA AnswerTook ==
  ASSUME OwnInv, AnswerTurn
  PROVE LET i == Stop(wild # q) IN
        /\ Frame /\ TypeOK
        /\ i \in Places /\ Rec(i).owner = wild /\ Visible(Rec(i), wild # q) /\ ~Rec(i).long
        /\ type' = Rec(i).type /\ rest' \subseteq rest /\ rest' \subseteq Places
        /\ SearchOK' /\ WildBelowControl' /\ StartOK'
        /\ pc = "answer" /\ pc' = "answer" /\ reply' \in {"none", "silent", "sent"}
        /\ wild \in Name /\ wild \in Above[q]
        /\ UNCHANGED <<control, wild, authority, bpos>>
<1> DEFINE i == Stop(wild # q)
<1>1. Frame /\ TypeOK
  BY DEF AnswerTurn, Frame, OwnInv
<1>2. i \in rest /\ i \in Places /\ Visible(Rec(i), wild # q) /\ ~Rec(i).long
  BY <1>1, TookIs DEF AnswerTurn
<1>3. /\ pc = "answer" /\ UNCHANGED <<pc, reply, control, wild, authority, additional, bpos>>
      /\ type' = Rec(i).type
  BY <1>2 DEF AnswerTurn, FindNext
<1>4. rest' \subseteq rest /\ rest' \subseteq Places
  BY <1>1, NextTyped DEF AnswerTurn
<1>5. rest \subseteq Of(db, wild)
  BY <1>3 DEF OwnInv, SearchOK, Searched
<1>6. Rec(i).owner = wild
  BY <1>2, <1>5 DEF Of, Rec
<1>7. SearchOK'
  BY <1>1, <1>3, <1>4, <1>5, Running DEF SearchOK, Searched
<1>8. WildBelowControl' /\ StartOK'
  BY <1>1, <1>3 DEF OwnInv, NamesOK, WildBelowControl, StartOK, Frame, asked
<1>9. reply' \in {"none", "silent", "sent"}
  BY <1>1, <1>3 DEF TypeOK
<1> QED BY <1>1, <1>2, <1>3, <1>4, <1>6, <1>7, <1>8, <1>9, Running

\* A record passed over keeps the invariant.
LEMMA AnswerPassesOwn == ASSUME OwnInv, AnswerPasses PROVE OwnInv'
<1>1. AnswerTurn /\ UNCHANGED <<answer, addr, addrnum, addrttl>>
  BY DEF AnswerPasses
<1>2. Frame /\ UNCHANGED <<wild, q, now, loc, db>>
  BY <1>1, AnswerTook DEF Frame, asked
<1>3. AddrOK'
  BY <1>1, <1>2, AnswerTook, SameRecords DEF OwnInv, AddrOK, Waits
<1> QED BY <1>1, <1>2, <1>3, AnswerTook, Running, OwnStep

\* An address put in the table keeps the invariant.
LEMMA AnswerAddressOwn == ASSUME OwnInv, AnswerAddress PROVE OwnInv'
<1>1. PICK p : p = Stop(wild # q)
  OBVIOUS
<1>2. /\ AnswerTurn /\ type' = "A" /\ UNCHANGED answer
      /\ addrnum' = addrnum + 1 /\ addrttl' = ttl(Rec(p))
  BY <1>1 DEF AnswerAddress
<1>3. PICK i \in 0 .. addrnum : addr' = Placed(i, p)
  BY <1>1 DEF AnswerAddress
<1>4. /\ Frame /\ UNCHANGED <<wild, q, now, loc, db>> /\ pc = "answer"
      /\ p \in Places /\ Waits(p) /\ Rec(p).type = "A" /\ Alive(Rec(p))
  BY <1>1, <1>2, AnswerTook DEF Frame, asked, Waits, Visible
<1>5. addr \in Seq(Places) /\ addrnum \in Nat /\ Len(addr) = Smaller(addrnum, MaxAddr)
  BY <1>4, Running DEF OwnInv, AddrOK
<1>6. /\ addr' \in Seq(Places) /\ Len(addr') = Smaller(addrnum', MaxAddr)
      /\ \A n \in DOMAIN addr' : addr'[n] = p \/ \E m \in DOMAIN addr : addr'[n] = addr[m]
  BY <1>2, <1>3, <1>4, <1>5, PlacedIs
<1>7. Len(addr') <= MaxAddr
  BY <1>2, <1>5, <1>6, NumbersAssumption DEF Smaller
<1>8. \A n : Waits(n)' = Waits(n)
  BY <1>4 DEF Waits, Visible, Rec, Alive
<1>9. \A n \in DOMAIN addr' : Waits(addr'[n])
  BY <1>4, <1>6 DEF OwnInv, AddrOK
<1>10. addrttl' \in Int
  BY <1>2, <1>4, AnswerTook, DbTyped, TtlIs
<1>11. AddrOK'
  BY <1>4, <1>6, <1>8, <1>9, <1>10, SameRecords DEF AddrOK
<1> QED BY <1>2, <1>4, <1>5, <1>6, <1>7, <1>11, AnswerTook, Running, OwnStep

\* A record written keeps the invariant.
LEMMA AnswerRecordOwn == ASSUME OwnInv, AnswerRecord PROVE OwnInv'
<1>1. PICK p : p = Stop(wild # q)
  OBVIOUS
<1>2. AnswerTurn /\ answer' = Append(answer, RR(q, p)) /\ UNCHANGED <<addr, addrnum, addrttl>>
  BY <1>1 DEF AnswerRecord
<1>3. /\ Frame /\ UNCHANGED <<wild, q, now, loc, db>> /\ TypeOK
      /\ p \in Places /\ Rec(p).owner = wild /\ Visible(Rec(p), wild # q) /\ ~Rec(p).long
      /\ q \in Name /\ wild \in Above[q] /\ (wild # q) \in BOOLEAN
  BY <1>1, <1>2, AnswerTook, Running DEF Frame, asked
<1>4. RR(q, p) \in Item
  BY <1>3, NewItem
<1>5. answer' \in Seq(Item)
  BY <1>2, <1>3, <1>4, Running
<1>6. AddrOK'
  BY <1>2, <1>3, AnswerTook, SameRecords DEF OwnInv, AddrOK, Waits
<1> QED BY <1>2, <1>3, <1>5, <1>6, AnswerTook, Running, OwnStep

\* The addresses are written as items of the client's name.
LEMMA AddressItems ==
  ASSUME OwnInv, pc = "answer"
  PROVE WithAddresses \in Seq(Item)
<1>2. /\ addr \in Seq(Places) /\ answer \in Seq(Item) /\ wild \in Name /\ wild \in Above[q] /\ q \in Name
      /\ TypeOK /\ \A i \in DOMAIN addr : Waits(addr[i])
      /\ addr # <<>> => addrttl \in Int
  BY AboveUp DEF OwnInv, NamesOK, WildBelowControl, Busy, ItemsOK, TypeOK, AddrOK, Places
<1>3. \A i \in 1 .. Len(addr) : [RR(q, addr[i]) EXCEPT !.ttl = addrttl] \in Item
  <2> TAKE i \in 1 .. Len(addr)
  <2>1. PICK p \in Places : p = addr[i]
    BY <1>2
  <2>2. Waits(p) /\ addr # <<>> /\ Rec(p) \in Record
    BY <1>2, <2>1, DbTyped
  <2>3. PICK r : r = [RR(q, p) EXCEPT !.ttl = addrttl]
    OBVIOUS
  <2>4. r.owner = q /\ r.place = p /\ r.type = Rec(p).type /\ r.ttl = addrttl
        /\ r = [owner |-> q, place |-> p, type |-> Rec(p).type, ttl |-> addrttl]
    BY <2>3 DEF RR
  <2>6. addrttl \in Int
    BY <1>2, <2>2
  <2>7. Genuine(r)
    BY <1>2, <2>2, <2>4 DEF Genuine, Waits, Visible, Places
  <2>8. LifeOK(r)
    BY <2>2, <2>4 DEF LifeOK, Waits
  <2>9. Rec(p).type \in STRING
    BY <2>2 DEF Record
  <2> QED BY <1>2, <2>1, <2>3, <2>4, <2>6, <2>7, <2>8, <2>9 DEF Item
<1>4. PICK n \in Nat : n = Len(addr)
  BY <1>2
<1>5. [i \in 1 .. n |-> [RR(q, addr[i]) EXCEPT !.ttl = addrttl]] \in Seq(Item)
  BY <1>3, <1>4
<1> QED BY <1>2, <1>4, <1>5 DEF WithAddresses

\* The addresses written, and the step to the wildcard above keeps the invariant.
LEMMA AnswerEndOwn == ASSUME OwnInv, AnswerEnd PROVE OwnInv'
<1>1. Frame /\ pc = "answer" /\ UNCHANGED <<reply, control, authority, additional, bpos, flagauthoritative>>
      /\ answer' = WithAddresses /\ q' = q
  BY DEF AnswerEnd, Frame, asked
<1>2. answer' \in Seq(Item) /\ authority = <<>> /\ additional = <<>>
  BY <1>1, AddressItems DEF OwnInv, StartOK
<1>3. reply' \in {"none", "silent", "sent"}
  BY <1>1 DEF OwnInv, TypeOK
<1>4. CASE flagfound \/ wild = control \/ Parent[wild] = "none"
  <2>1. Authority /\ UNCHANGED <<wild, addr, addrnum, addrttl>>
    BY <1>4 DEF AnswerEnd
  <2>2. /\ pc' \in {"soa", "ns", "glue"}
        /\ pc' \in {"soa", "ns"} => rest' = Of(db, control)
        /\ rest' = Of(db, control) \/ rest' = rest
    BY <2>1 DEF Authority, Search
  <2>3. SearchOK' /\ rest' \subseteq Places
    BY <2>2, <1>1, Running DEF SearchOK, Searched
  <2>4. WildBelowControl' /\ StartOK' /\ AddrOK'
    BY <2>2 DEF WildBelowControl, StartOK, AddrOK
  <2> QED BY <1>1, <1>2, <1>3, <2>1, <2>2, <2>3, <2>4, Running, OwnStep
<1>5. CASE ~(flagfound \/ wild = control \/ Parent[wild] = "none")
  <2>1. /\ wild' = Parent[wild] /\ rest' = Of(db, Parent[wild]) /\ addr' = <<>> /\ addrnum' = 0
        /\ pc' = "answer"
    BY <1>5, <1>1 DEF AnswerEnd, Search
  <2>2. wild \in Name /\ wild \in Above[q] /\ control \in Above[wild] /\ q \in Name
    BY <1>1, Running
  <2>3. /\ wild' \in Name /\ wild' \in Above[q] /\ control \in Above[wild']
    <3>1. wild' \in Name /\ Above[wild] = {wild} \cup Above[wild']
      BY <1>5, <2>1, <2>2, AboveParent, NamesAssumption
    <3> QED BY <1>5, <2>1, <2>2, <3>1, AboveUp
  <2>4. SearchOK' /\ rest' \subseteq Places /\ WildBelowControl'
    BY <2>1, <2>3, <1>1, Running DEF SearchOK, Searched, WildBelowControl
  <2>5. StartOK' /\ AddrOK'
    <3>1. Len(<<>>) = Smaller(0, MaxAddr)
      BY NumbersAssumption DEF Smaller
    <3> QED BY <1>1, <1>2, <2>1, <3>1 DEF StartOK, AddrOK
  <2>6. addr' \in Seq(Places) /\ Len(addr') <= MaxAddr
    BY <2>1, NumbersAssumption
  <2> QED BY <1>1, <1>2, <1>3, <2>1, <2>3, <2>4, <2>5, <2>6, Running, OwnStep
<1> QED BY <1>4, <1>5

\* A step to the end without an answer, or on to the records mentioned.
LEMMA PlainStep ==
  ASSUME OwnInv, Frame, pc' \in {"idle", "glue", "addresses"}, reply' \in {"none", "silent", "sent"},
         pc' # "idle" \/ reply' # "none", UNCHANGED <<control, wild, addr, addrnum, answer>>, rest' \subseteq Places, bpos' \in Nat,
         authority' \in Seq(Item)
  PROVE OwnInv'
<1>1. SearchOK' /\ WildBelowControl' /\ StartOK' /\ AddrOK'
  BY DEF SearchOK, WildBelowControl, StartOK, AddrOK
<1> QED BY <1>1, Running, OwnStep

\* A record that cannot be read keeps the invariant.
LEMMA FailsOwn == ASSUME OwnInv, NEW at, NEW w \in BOOLEAN, at # "idle", Fails(at, w) PROVE OwnInv'
<1>1. Frame /\ pc' = "idle" /\ reply' = "silent"
      /\ UNCHANGED <<control, wild, addr, addrnum, answer, authority, bpos>>
  BY DEF Fails, Frame, Silent
<1>2. rest' \subseteq Places
  BY NextTyped DEF OwnInv, Fails
<1> QED BY <1>1, <1>2, Running, PlainStep

\* A longer section.
LEMMA SectionItems ==
  ASSUME NEW s \in Seq(Item), NEW r \in Item
  PROVE Append(s, r) \in Seq(Item) /\ <<>> \in Seq(Item)
OBVIOUS

\* What is found in the zone itself.
LEMMA ZoneTook ==
  ASSUME OwnInv, Frame, pc \in {"soa", "ns"}, Took(FALSE), FindNext(FALSE)
  PROVE LET i == Stop(FALSE) IN
        /\ i \in Places /\ RR(control, i) \in Item /\ type' = Rec(i).type
        /\ rest' \subseteq rest /\ rest' \subseteq Places
<1> DEFINE i == Stop(FALSE)
<1>1. TypeOK /\ control \in Name /\ rest \subseteq Of(db, control)
  BY Running DEF OwnInv, SearchOK, Searched
<1>2. i \in rest /\ i \in Places /\ Visible(Rec(i), FALSE) /\ ~Rec(i).long
  BY <1>1, TookIs
<1>3. Rec(i).owner = control
  BY <1>1, <1>2 DEF Of, Rec
<1>4. RR(control, i) \in Item
  BY <1>1, <1>2, <1>3, NewItem
<1>5. type' = Rec(i).type
  BY <1>2 DEF FindNext
<1> QED BY <1>1, <1>2, <1>4, <1>5, NextTyped

\* A record of the zone looked at for its SOA keeps the invariant.
LEMMA SoaRecordOwn == ASSUME OwnInv, SoaRecord PROVE OwnInv'
<1>1. Frame /\ pc = "soa" /\ Took(FALSE) /\ FindNext(FALSE)
      /\ UNCHANGED <<reply, control, wild, addr, addrnum, answer, bpos>>
  BY DEF SoaRecord, Frame
<1>2. RR(control, Stop(FALSE)) \in Item /\ rest' \subseteq rest /\ rest' \subseteq Places
  BY <1>1, ZoneTook
<1>3. reply' \in {"none", "silent", "sent"} /\ authority \in Seq(Item)
  BY <1>1, Running DEF OwnInv, TypeOK
<1>4. CASE type' = "SOA"
  <2>1. pc' = "glue" /\ authority' = Append(authority, RR(control, Stop(FALSE)))
    BY <1>4 DEF SoaRecord
  <2>2. authority' \in Seq(Item)
    BY <1>2, <1>3, <2>1, SectionItems
  <2> QED BY <1>1, <1>2, <1>3, <2>1, <2>2, Running, PlainStep
<1>5. CASE type' # "SOA"
  <2>1. UNCHANGED <<authority, pc>>
    BY <1>5 DEF SoaRecord
  <2>2. SearchOK'
    BY <1>1, <1>2, <2>1, Running DEF SearchOK, Searched, OwnInv
  <2>3. WildBelowControl' /\ StartOK' /\ AddrOK'
    BY <1>1, <2>1 DEF WildBelowControl, StartOK, AddrOK
  <2> QED BY <1>1, <1>2, <1>3, <2>1, <2>2, <2>3, Running, OwnStep
<1> QED BY <1>4, <1>5

\* A record of the zone looked at for its name servers keeps the invariant.
LEMMA NsRecordOwn == ASSUME OwnInv, NsRecord PROVE OwnInv'
<1>1. Frame /\ pc = "ns" /\ Took(FALSE) /\ FindNext(FALSE)
      /\ UNCHANGED <<pc, reply, control, wild, addr, addrnum, answer, bpos>>
      /\ authority' = IF type' = "NS" THEN Append(authority, RR(control, Stop(FALSE))) ELSE authority
  BY DEF NsRecord, Frame
<1>2. RR(control, Stop(FALSE)) \in Item /\ rest' \subseteq rest /\ rest' \subseteq Places
  BY <1>1, ZoneTook
<1>3. reply' \in {"none", "silent", "sent"} /\ authority \in Seq(Item)
  BY <1>1, Running DEF OwnInv, TypeOK
<1>4. authority' \in Seq(Item)
  BY <1>1, <1>2, <1>3, SectionItems
<1>5. SearchOK'
  BY <1>1, <1>2, Running DEF SearchOK, Searched, OwnInv
<1>6. WildBelowControl' /\ StartOK' /\ AddrOK'
  BY <1>1 DEF WildBelowControl, StartOK, AddrOK
<1> QED BY <1>1, <1>2, <1>3, <1>4, <1>5, <1>6, Running, OwnStep

\* The end of the authority section keeps the invariant.
LEMMA AuthorityEndOwn == ASSUME OwnInv, AuthorityEnd PROVE OwnInv'
<1>1. Frame /\ pc' = "glue" /\ rest' = {} /\ UNCHANGED <<reply, control, wild, addr, addrnum, answer, authority, bpos>>
  BY DEF AuthorityEnd, Frame
<1>2. reply' \in {"none", "silent", "sent"}
  BY <1>1 DEF OwnInv, TypeOK
<1> QED BY <1>1, <1>2, Running, PlainStep

\* The next name mentioned keeps the invariant.
LEMMA GlueNameOwn == ASSUME OwnInv, GlueName PROVE OwnInv'
<1>1. Frame /\ pc = "glue" /\ bpos' = bpos + 1
      /\ UNCHANGED <<reply, control, wild, addr, addrnum, answer, authority>>
  BY DEF GlueName, Frame
<1>2. /\ pc' \in {"glue", "addresses"}
      /\ rest' = rest \/ rest' = Of(db, TargetOf(bpos + 1))
  BY <1>1 DEF GlueName, Search
<1>3. reply' \in {"none", "silent", "sent"} /\ rest' \subseteq Places
  BY <1>1, <1>2, Running DEF OwnInv, TypeOK
<1> QED BY <1>1, <1>2, <1>3, Running, PlainStep

\* A record of a name mentioned keeps the invariant.
LEMMA GlueTurnOwn == ASSUME OwnInv, GlueTurn PROVE OwnInv'
<1>1. Frame /\ pc' = "addresses" /\ UNCHANGED <<reply, control, wild, addr, addrnum, answer, authority, bpos>>
  BY DEF GlueTurn, Frame
<1>2. reply' \in {"none", "silent", "sent"} /\ rest' \subseteq Places
  BY <1>1, NextTyped DEF GlueTurn, OwnInv, TypeOK
<1> QED BY <1>1, <1>2, Running, PlainStep

\* The end of its records keeps the invariant.
LEMMA GlueEndOwn == ASSUME OwnInv, GlueEnd PROVE OwnInv'
<1>1. Frame /\ pc' = "glue" /\ rest' = {} /\ UNCHANGED <<reply, control, wild, addr, addrnum, answer, authority, bpos>>
  BY DEF GlueEnd, Frame
<1>2. reply' \in {"none", "silent", "sent"}
  BY <1>1 DEF OwnInv, TypeOK
<1> QED BY <1>1, <1>2, Running, PlainStep

\* The sections cut to 512 bytes keeps the invariant.
LEMMA FinishOwn == ASSUME OwnInv, Finish PROVE OwnInv'
<1>1. Frame /\ pc' = "idle" /\ reply' = "sent" /\ UNCHANGED <<control, wild, rest, addr, addrnum, answer, bpos>>
      /\ (authority' = authority \/ authority' = <<>>)
  BY DEF Finish, Frame
<1>2. authority' \in Seq(Item)
  <2>1. <<>> \in Seq(Item)
    OBVIOUS
  <2> QED BY <1>1, <2>1, Running
<1> QED BY <1>1, <1>2, Running, PlainStep

\* A response that is too long keeps the invariant.
LEMMA NoRoomOwn == ASSUME OwnInv, NoRoom PROVE OwnInv'
<1>1. Frame /\ pc' = "idle" /\ reply' = "silent" /\ UNCHANGED <<control, wild, rest, addr, addrnum, answer, authority, bpos>>
  BY DEF NoRoom, Frame, Silent, work
<1> QED BY <1>1, Running, PlainStep

\* doit() keeps the invariant.
LEMMA DoitOwn == ASSUME OwnInv, Doit PROVE OwnInv'
<1>1. CASE \E at \in {"answer", "soa", "ns"} : \E w \in BOOLEAN : Fails(at, w)
  BY <1>1, FailsOwn
<1>2. (wild # q) \in BOOLEAN /\ FALSE \in BOOLEAN
  OBVIOUS
<1>3. CASE \/ ControlTurn \/ ControlFound \/ ControlParent \/ AnswerPasses \/ AnswerAddress
           \/ AnswerRecord \/ AnswerEnd
  BY <1>3, ControlTurnOwn, ControlFoundOwn, ControlParentOwn, AnswerPassesOwn, AnswerAddressOwn,
     AnswerRecordOwn, AnswerEndOwn
<1>4. CASE \/ SoaRecord \/ NsRecord \/ AuthorityEnd \/ GlueName \/ GlueTurn \/ GlueEnd \/ Finish \/ NoRoom
  BY <1>4, SoaRecordOwn, NsRecordOwn, AuthorityEndOwn, GlueNameOwn, GlueTurnOwn, GlueEndOwn,
     FinishOwn, NoRoomOwn
<1> QED BY <1>1, <1>2, <1>3, <1>4 DEF Doit

-----------------------------------------------------------------------------
(* The steps between two queries.                                          *)

\* Without a query only the types count.
LEMMA IdleOwn ==
  ASSUME TypeOK', pc' = "idle", reply' # "sent", reply' = "none" => rest' = {}
  PROVE OwnInv'
BY DEF OwnInv, IdleOK, NamesOK, WildBelowControl, Busy, SearchOK, ItemsOK, AddrOK, StartOK

\* A new query keeps it: the sections are empty, the name is the one asked for.
LEMMA RespondOwn ==
  ASSUME OwnInv, NEW client \in Client, NEW name \in Name, NEW t \in QType, Respond(client, name, t)
  PROVE OwnInv'
<1>1. PICK base : base = IF Stale THEN file ELSE db
  OBVIOUS
<1>2. /\ base \in Files /\ clock \in Nat /\ valid \in Nat /\ old \in Nat /\ file \in Databases
  BY <1>1 DEF OwnInv, TypeOK, Files
<1>3. /\ db' = base /\ now' = clock /\ old' \in Nat /\ valid' \in Nat
      /\ q' = name /\ wild' = name /\ bpos' = 0
      /\ addr' = <<>> /\ addrnum' = 0 /\ answer' = <<>> /\ authority' = <<>> /\ additional' = <<>>
      /\ UNCHANGED <<file, clock>>
  BY <1>1, <1>2 DEF Respond
<1>4. Places' = DOMAIN base.records /\ Places' \subseteq Nat
  BY <1>2, <1>3, FileTyped DEF Places
<1>5. <<>> \in Seq(Places') /\ <<>> \in Seq(Item') /\ Len(<<>>) = 0 /\ Len(<<>>) = Smaller(0, MaxAddr) /\ Len(<<>>) <= MaxAddr
  BY NumbersAssumption DEF Smaller
<1>6. CASE ~base.exists
  <2>1. pc' = "idle" /\ reply' = "silent" /\ UNCHANGED <<control, rest>>
    BY <1>1, <1>6 DEF Respond, Silent
  <2>2. rest' \subseteq Places'
    <3>1. rest = {}
      BY DEF Respond, OwnInv, IdleOK
    <3> QED BY <3>1, <2>1
  <2>3. TypeOK'
    BY <1>2, <1>3, <1>4, <1>5, <2>1, <2>2 DEF TypeOK, OwnInv, Places
  <2> QED BY <2>1, <2>3, IdleOwn
<1>7. CASE base.exists
  <2>1. /\ pc' = "control" /\ UNCHANGED reply /\ control' = name /\ rest' = Of(base, name)
    BY <1>1, <1>7 DEF Respond, StartControl
  <2>2. rest' \subseteq Places'
    BY <1>4, <2>1, OfTyped
  <2>3. TypeOK'
    BY <1>2, <1>3, <1>4, <1>5, <2>1, <2>2 DEF TypeOK, OwnInv, Places
  <2>4. NamesOK'
    BY <1>3, <2>1, AboveUp DEF NamesOK, WildBelowControl
  <2>5. SearchOK'
    BY <1>3, <2>1 DEF SearchOK, Searched
  <2>6. ItemsOK' /\ AddrOK' /\ StartOK'
    BY <1>3, <1>5, <2>1 DEF ItemsOK, AddrOK, StartOK
  <2> QED BY <2>1, <2>3, <2>4, <2>5, <2>6 DEF OwnInv, IdleOK
<1>8. base.exists \in BOOLEAN
  BY <1>2, FileTyped
<1> QED BY <1>6, <1>7, <1>8

\* The end of a query keeps it.
LEMMA ReturnOwn == ASSUME OwnInv, Return PROVE OwnInv'
<1>1. /\ UNCHANGED <<file, old, clock, db, valid, pc>> /\ pc = "idle" /\ reply' = "none" /\ now' = 1
      /\ rest' = {} /\ control' = "none" /\ wild' = "none" /\ addr' = <<>> /\ addrnum' = 0 /\ bpos' = 0
  BY DEF Return, fileVars
<1>2. <<>> \in Seq(Places) /\ Len(<<>>) <= MaxAddr
  BY NumbersAssumption
<1>3. TypeOK'
  BY <1>1, <1>2 DEF OwnInv, TypeOK, Places
<1> QED BY <1>1, <1>3, IdleOwn

\* A new file, a tick and a clock set back keep it.
LEMMA OutsideOwn == ASSUME OwnInv, Publish \/ Tick \/ ClockSetBack PROVE OwnInv'
<1>1. pc = "idle" /\ reply = "none" /\ UNCHANGED <<asked, work, pc, reply>>
  BY DEF Publish, Tick, ClockSetBack
<1>2. file' \in Databases /\ clock' \in Nat /\ old' \in Nat
  BY DatabasesAssumption DEF Publish, Tick, ClockSetBack, OwnInv, TypeOK
<1>3. TypeOK' /\ rest' = {}
  BY <1>1, <1>2 DEF OwnInv, IdleOK, TypeOK, asked, work
<1> QED BY <1>1, <1>3, IdleOwn

\* Nothing changes, nor does what is said of it.
LEMMA SameOwn == ASSUME OwnInv, UNCHANGED vars PROVE OwnInv'
<1>1. UNCHANGED <<file, published, old, clock, setback, q, qtype, loc, db, valid, now, control, wild,
                  rest, type, addr, addrnum, addrttl, answer, authority, additional, bpos, pc, reply>>
  BY DEF vars, fileVars, asked, work
<1>2. Item' = Item /\ Places' = Places
  BY <1>1, SameItems, SameRecords
<1>3. TypeOK' /\ NamesOK' /\ SearchOK' /\ StartOK' /\ IdleOK'
  BY <1>1 DEF OwnInv, TypeOK, NamesOK, Busy, WildBelowControl, SearchOK, Searched, StartOK, IdleOK
<1>4. ItemsOK'
  BY <1>1, <1>2 DEF OwnInv, ItemsOK, Busy
<1>5. AddrOK'
  BY <1>1, SameRecords DEF OwnInv, AddrOK, Waits
<1> QED BY <1>3, <1>4, <1>5 DEF OwnInv

\* The invariant holds at the start.
LEMMA InitOwn == ASSUME Init PROVE OwnInv
<1>1. DOMAIN db.records = {} /\ db \in Files
  BY DEF Init, Files, NoFile
<1>2. <<>> \in Seq(DOMAIN db.records) /\ Len(<<>>) <= MaxAddr
  BY NumbersAssumption
<1>3. TypeOK
  BY <1>1, <1>2 DEF Init, TypeOK
<1> QED BY <1>3 DEF Init, OwnInv, NamesOK, Busy, WildBelowControl, SearchOK, ItemsOK, AddrOK, StartOK, IdleOK

\* OwnInv holds in every state: whatever the records are, and where find()
\* fails too, the searches of tdlookup.c:46-88 and :128-276 stay with the
\* records of their names and the sections hold only items.
THEOREM TdLookupOwn == Spec => []OwnInv
<1>1. Init => OwnInv
  BY InitOwn
<1>2. OwnInv /\ [Next]_vars => OwnInv'
  BY DoitOwn, RespondOwn, ReturnOwn, OutsideOwn, SameOwn DEF Next
<1> QED BY <1>1, <1>2, PTL DEF Spec

-----------------------------------------------------------------------------
(* The copy that is open is not old.                                       *)

\* What is open was replaced a second ago at most; while a query runs its
\* time is the clock's; without a file nothing runs.
FreshInv ==
  /\ pc # "idle" => db.exists
  /\ ~setback =>
       /\ valid <= clock + 1
       /\ old = 0 \/ old >= valid - 1
       /\ ~db.exists => valid < clock
       /\ pc # "idle" \/ reply # "none" => now = clock
       /\ Busy => valid >= now
       /\ reply # "none" /\ ~db.exists => ~file.exists

\* Every step of doit() is within Frame.
LEMMA DoitFrame == ASSUME Doit PROVE Frame
<1>1. ASSUME NEW at, NEW w, at # "idle", Fails(at, w) PROVE Frame
  BY <1>1 DEF Fails, Frame
<1>2. CASE Fails("answer", wild # q) \/ Fails("soa", FALSE) \/ Fails("ns", FALSE)
  BY <1>1, <1>2
<1>3. CASE \/ ControlTurn \/ ControlFound \/ ControlParent \/ AnswerPasses \/ AnswerAddress
           \/ AnswerRecord \/ AnswerEnd
  BY <1>3 DEF Frame, ControlTurn, ControlFound, ControlParent, AnswerTurn, AnswerPasses, AnswerAddress,
     AnswerRecord, AnswerEnd
<1>4. CASE \/ SoaRecord \/ NsRecord \/ AuthorityEnd \/ GlueName \/ GlueTurn \/ GlueEnd \/ Finish \/ NoRoom
  BY <1>4 DEF Frame, SoaRecord, NsRecord, AuthorityEnd, GlueName, GlueTurn, GlueEnd, Finish, NoRoom
<1> QED BY <1>2, <1>3, <1>4 DEF Doit

\* doit() touches neither the clock nor the file.
LEMMA FreshDoit == ASSUME FreshInv, Doit PROVE FreshInv'
<1>1. Frame
  BY DoitFrame
<1>2. UNCHANGED <<file, old, clock, setback, db, valid, now>> /\ pc # "idle" /\ Busy
  BY <1>1 DEF Frame, fileVars, asked, Busy
<1> QED BY <1>2 DEF FreshInv, Busy

\* respond() opens the file that is there when its own is old.
LEMMA FreshRespond ==
  ASSUME TypeOK, FreshInv, NEW client, NEW name, NEW t, Respond(client, name, t)
  PROVE FreshInv'
<1>1. clock \in Nat /\ valid \in Nat /\ old \in Nat /\ now' = clock
      /\ UNCHANGED <<file, clock, setback>> /\ pc = "idle" /\ reply = "none"
  BY DEF TypeOK, Respond
<1>2. CASE Stale
  <2>1. db' = file /\ old' = 0 /\ valid' = (IF file.exists THEN clock + 1 ELSE valid) /\ valid < clock
    BY <1>2 DEF Respond, Stale
  <2>2. IF ~file.exists THEN pc' = "idle" /\ reply' = "silent" ELSE pc' = "control" /\ reply' = "none"
    BY <1>1, <1>2 DEF Respond, Silent
  <2> QED BY <1>1, <2>1, <2>2 DEF FreshInv, Busy
<1>3. CASE ~Stale
  <2>1. UNCHANGED <<db, old, valid>> /\ ~(valid < clock)
    BY <1>3 DEF Respond, Stale
  <2>2. IF ~db.exists THEN pc' = "idle" /\ reply' = "silent" ELSE pc' = "control" /\ reply' = "none"
    BY <1>1, <1>3 DEF Respond, Silent
  <2> QED BY <1>1, <2>1, <2>2 DEF FreshInv, Busy
<1> QED BY <1>2, <1>3

\* Between queries the file is replaced and the clock moves.
LEMMA FreshOutside ==
  ASSUME TypeOK, FreshInv, Return \/ Publish \/ Tick \/ ClockSetBack
  PROVE FreshInv'
<1>1. /\ clock \in Nat /\ valid \in Nat /\ old \in Nat
      /\ pc' = "idle" /\ reply' = "none" /\ UNCHANGED <<db, valid>>
  BY DEF TypeOK, Return, Publish, Tick, ClockSetBack, asked
<1>2. CASE Return
  BY <1>1, <1>2 DEF Return, fileVars, FreshInv, Busy
<1>3. CASE Publish
  BY <1>1, <1>3 DEF Publish, FreshInv, Busy
<1>4. CASE Tick
  BY <1>1, <1>4 DEF Tick, FreshInv, Busy
<1>5. CASE ClockSetBack
  BY <1>1, <1>5 DEF ClockSetBack, FreshInv, Busy
<1> QED BY <1>2, <1>3, <1>4, <1>5

\* The file that is open is not old (tdlookup.c:289-300).
THEOREM TdLookupFresh == Spec => []Fresh
<1>1. Init => FreshInv
  BY DEF Init, FreshInv, NoFile, Busy
<1>2. TypeOK /\ FreshInv /\ [Next]_vars => FreshInv'
  <2> SUFFICES ASSUME TypeOK, FreshInv, [Next]_vars PROVE FreshInv'
    OBVIOUS
  <2>1. CASE UNCHANGED vars
    BY <2>1 DEF vars, fileVars, asked, FreshInv, Busy
  <2> QED BY <2>1, FreshDoit, FreshRespond, FreshOutside DEF Next
<1>3. TypeOK /\ FreshInv => Fresh
  BY DEF TypeOK, FreshInv, Fresh, Sent, Busy
<1>4. OwnInv => TypeOK
  BY DEF OwnInv
<1> QED BY <1>1, <1>2, <1>3, <1>4, TdLookupOwn, PTL DEF Spec

-----------------------------------------------------------------------------
(* The searches, when every record can be read.                            *)

\* The name that find() looks at, and the records of it that it has passed.
Where == IF pc = "answer" THEN wild ELSE IF pc = "addresses" THEN Target ELSE control
\* The records of d that the search has passed and would have taken.
Seen(d, w) == Shown(d, w) \ rest

\* A search reads the records of its name in their order.
Ordered(d) == rest \subseteq Of(db, d) /\ \A i \in Of(db, d) \ rest, j \in rest : i < j
\* Every search does.
OrderOK == pc \in {"control", "answer", "soa", "ns", "addresses"} => Ordered(Where)

\* As many places as positions: a section without repetitions.
LEMMA CountImage ==
  ASSUME NEW n \in Nat, NEW f, DOMAIN f = 1 .. n,
         \A i, j \in 1 .. n : i # j => f[i] # f[j]
  PROVE IsFiniteSet({f[i] : i \in 1 .. n}) /\ Cardinality({f[i] : i \in 1 .. n}) = n
<1> DEFINE T == {f[i] : i \in 1 .. n}
           g == [i \in 1 .. n |-> f[i]]
<1>1. g \in [1 .. n -> T]
  OBVIOUS
<1>2. g \in Surjection(1 .. n, T)
  <2>1. \A t \in T : \E i \in 1 .. n : g[i] = t
    OBVIOUS
  <2> QED BY <1>1, <2>1 DEF Surjection
<1>3. g \in Injection(1 .. n, T)
  <2>1. \A i, j \in 1 .. n : g[i] = g[j] => i = j
    OBVIOUS
  <2> QED BY <1>1, <2>1 DEF Injection, IsInjective
<1>4. ExistsBijection(1 .. n, T)
  BY <1>2, <1>3 DEF Bijection, ExistsBijection
<1>5. IsFiniteSet(1 .. n) /\ Cardinality(1 .. n) = n
  <2>1. 1 \in Int /\ n \in Int /\ (IF 1 > n THEN 0 ELSE n - 1 + 1) = n
    OBVIOUS
  <2> QED BY <2>1, FS_Interval
<1> QED BY <1>4, <1>5, FS_Bijection

\* The visible records of a name are finitely many places.
LEMMA ShownTyped ==
  ASSUME TypeOK, NEW d, NEW w
  PROVE /\ Shown(d, w) \subseteq Of(db, d) /\ Shown(d, w) \subseteq Places /\ Shown(d, w) \subseteq Nat
        /\ IsFiniteSet(Shown(d, w)) /\ \A t : IsFiniteSet(OfType(Shown(d, w), t))
<1>1. Shown(d, w) \subseteq Of(db, d) /\ Shown(d, w) \subseteq Places
  BY DEF Shown, Of, Places
<1>2. PICK s \in Seq(Record) : s = db.records
  BY DbTyped
<1>3. IsFiniteSet(Places)
  <2>1. Len(s) \in Nat /\ Places = 1 .. Len(s)
    BY <1>2 DEF Places
  <2> QED BY <2>1, FS_Interval
<1>4. \A t : OfType(Shown(d, w), t) \subseteq Places
  BY <1>1 DEF OfType
<1> QED BY <1>1, <1>3, <1>4, DbTyped, FS_Subset

\* What the answer should be does not change while it is built.
LEMMA SameAnswers ==
  ASSUME UNCHANGED <<db, now, loc, q, qtype>>
  PROVE /\ \A d, w : Shown(d, w)' = Shown(d, w) /\ Of(db, d)' = Of(db, d)
        /\ \A i : Rec(i)' = Rec(i)
        /\ \A S, t : OfType(S, t)' = OfType(S, t)
        /\ \A S : WantedOf(S)' = WantedOf(S) /\ AddressesOf(S)' = AddressesOf(S)
        /\ \A t : Asked(t)' = Asked(t)
        /\ Zones' = Zones /\ Zone' = Zone /\ Ours' = Ours /\ Sources' = Sources /\ Source' = Source
        /\ Servers' = Servers /\ Soas' = Soas /\ Healthy' = Healthy
<1>1. \A i : Rec(i)' = Rec(i)
  BY DEF Rec
<1>2. \A d, w : Shown(d, w)' = Shown(d, w) /\ Of(db, d)' = Of(db, d)
  BY SameRecords DEF Shown, Of
<1>3. \A S, t : OfType(S, t)' = OfType(S, t)
  BY <1>1 DEF OfType
<1>4. \A t : Asked(t)' = Asked(t)
  BY DEF Asked
<1>5. \A S : WantedOf(S)' = WantedOf(S) /\ AddressesOf(S)' = AddressesOf(S)
  BY <1>1, <1>3, <1>4 DEF WantedOf, AddressesOf
<1>6. Zones' = Zones
  BY <1>2, <1>3 DEF Zones
<1>7. Zone' = Zone
  BY <1>6 DEF Zone, Nearest
<1>8. Ours' = Ours /\ Servers' = Servers /\ Soas' = Soas
  BY <1>2, <1>3, <1>7 DEF Ours, Servers, Soas
<1>9. Sources' = Sources
  BY <1>2, <1>7 DEF Sources
<1>10. Source' = Source
  BY <1>2, <1>9 DEF Source, Nearest
<1>11. Healthy' = Healthy
  BY <1>1 DEF Healthy
<1> QED BY <1>1, <1>2, <1>3, <1>4, <1>5, <1>6, <1>7, <1>8, <1>9, <1>10, <1>11

\* A call of find() that takes a record takes the first that is shown and was
\* not yet seen.
LEMMA TookNext ==
  ASSUME TypeOK, NEW d, NEW w \in BOOLEAN, Ordered(d), Took(w), FindNext(w),
         UNCHANGED <<db, now, loc>>, NEW i, i = Stop(w)
  PROVE /\ i \in Places /\ i \in Shown(d, w) /\ i \notin Seen(d, w)
        /\ Seen(d, w)' = Seen(d, w) \cup {i}
        /\ (\A j \in Seen(d, w) : j < i) /\ \A j \in Shown(d, w) \ Seen(d, w) : i <= j
        /\ type' = Rec(i).type
        /\ Ordered(d)'
<1>1. i \in rest /\ i \in Places /\ i \in Nat /\ i \in Stops(w) /\ \A j \in Stops(w) : i <= j
  BY StopIs DEF Took, Ended
<1>2. ~Rec(i).long
  BY DEF Took
<1>4. rest \subseteq Nat /\ Of(db, d) \subseteq Nat /\ rest \subseteq Of(db, d)
  BY DbTyped, OfTyped DEF Ordered, Places
<1>5. Shown(d, w) \cap rest \subseteq Stops(w) /\ i \in Shown(d, w)
  BY <1>1, <1>2, <1>4 DEF Stops, Shown
<1>6. rest' = {j \in rest : j > i} /\ type' = Rec(i).type
  BY <1>1, <1>2 DEF FindNext
<1>7. Shown(d, w)' = Shown(d, w) /\ Of(db, d)' = Of(db, d) /\ Shown(d, w) \subseteq Of(db, d)
  BY SameRecords DEF Shown, Of
<1>8. \A j \in Of(db, d) \ rest : j < i
  BY <1>1 DEF Ordered
<1>9. Ordered(d)'
  <2>1. rest' \subseteq Of(db, d)
    BY <1>4, <1>6
  <2>2. ASSUME NEW a \in Of(db, d) \ rest', NEW b \in rest' PROVE a < b
    <3>1. b \in rest /\ b > i /\ a \in Nat /\ b \in Nat /\ i \in Nat
      BY <1>1, <1>4, <1>6
    <3>2. CASE a \in rest
      <4>1. ~(a > i)
        BY <1>6, <3>2
      <4> QED BY <3>1, <4>1
    <3>3. CASE a \notin rest
      BY <3>1, <3>3, <1>8
    <3> QED BY <3>2, <3>3
  <2>3. Of(db, d)' = Of(db, d)
    BY <1>7
  <2> QED BY <2>1, <2>2, <2>3 DEF Ordered
<1>10. Seen(d, w)' = Seen(d, w) \cup {i}
  <2>1. \A j \in Shown(d, w) : j \in Nat
    BY <1>4, <1>7
  <2>2. \A j \in Shown(d, w) : j \notin rest' <=> j \notin rest \/ j = i
    <3> TAKE j \in Shown(d, w)
    <3>1. j \in rest => i <= j
      BY <1>1, <1>5
    <3> QED BY <1>1, <1>6, <2>1, <3>1
  <2> QED BY <1>1, <1>5, <1>7, <2>2 DEF Seen
<1> QED BY <1>1, <1>5, <1>6, <1>7, <1>8, <1>9, <1>10 DEF Seen

\* Where every record can be read, find() takes one or ends.
LEMMA TurnIs ==
  ASSUME TypeOK, Healthy, NEW d, NEW w \in BOOLEAN, Ordered(d), ~Ended(w), FindNext(w),
         UNCHANGED <<db, now, loc>>, NEW i, i = Stop(w)
  PROVE /\ Took(w) /\ i \in Places /\ i \in Shown(d, w) /\ i \notin Seen(d, w)
        /\ Seen(d, w)' = Seen(d, w) \cup {i}
        /\ (\A j \in Seen(d, w) : j < i) /\ \A j \in Shown(d, w) \ Seen(d, w) : i <= j
        /\ type' = Rec(i).type
        /\ Ordered(d)'
<1>1. Stop(w) \in Places /\ Stops(w) # {}
  BY StopIs DEF Ended
<1>2. Took(w)
  BY <1>1 DEF Healthy, Took, Places
<1> QED BY <1>2, TookNext

\* When the search ends everything was seen; at its start nothing.
LEMMA EndIs ==
  ASSUME NEW d, NEW w, Ordered(d), Ended(w)
  PROVE Seen(d, w) = Shown(d, w)
BY DEF Ended, Stops, Seen, Shown

\* The nearest zone is the one that has all zones above it.
LEMMA ZoneIsControl ==
  ASSUME q \in Name, NEW d \in Zones, Zones \subseteq Above[d]
  PROVE Zone = d
<1>1. Zones \in SUBSET Name
  BY AboveUp DEF Zones
<1> QED BY <1>1, NearestIs DEF Zone

-----------------------------------------------------------------------------
(* The zone and the answer.                                                *)

\* No zone is below the name that is looked at; the flags say what was seen.
ControlIs ==
  pc = "control" =>
    /\ aa /\ ~nx /\ ~flagfound /\ ~flaggavesoa
    /\ Zones \subseteq Above[control]
    /\ (flagns <=> (OfType(Seen(control, FALSE), "NS") # {}))
    /\ (flagauthoritative <=> (OfType(Seen(control, FALSE), "SOA") # {}))

\* The nearest zone was found.
ZoneIs ==
  /\ control \in Zones /\ Zones \subseteq Above[control]
  /\ (flagauthoritative <=> (OfType(Shown(control, FALSE), "SOA") # {}))

\* Nothing is below the name that is looked at, and what was seen of it is
\* written or waits.
AnsweringIs(S) ==
  /\ flagauthoritative /\ aa /\ ~nx
  /\ Sources \subseteq Above[wild]
  /\ (flagfound <=> (S # {}))
  /\ (flaggavesoa <=> (Asked("SOA") /\ OfType(S, "SOA") # {}))
  /\ \A i \in DOMAIN answer : answer[i].type # "A"
  /\ Listed(answer, DOMAIN answer, WantedOf(S))
  /\ ToSet(addr) \subseteq AddressesOf(S)
  /\ \A m, n \in DOMAIN addr : m # n => addr[m] # addr[n]
  /\ addrnum = Cardinality(AddressesOf(S))

\* The invariant behind AnswerRight, for a database whose records can all be
\* read: the flags and sections agree with what was seen so far.
RightInv ==
  Healthy /\ Busy =>
    /\ OrderOK /\ ControlIs
    /\ pc # "control" => ZoneIs
    /\ pc = "answer" => AnsweringIs(Seen(wild, wild # q))
    /\ pc \notin {"control", "answer"} => AnswerIs
    /\ \A i \in DOMAIN answer : answer[i].owner = q

\* The zone found stays found.
LEMMA ZoneSame ==
  ASSUME UNCHANGED <<db, now, loc, q, control, flagauthoritative>>
  PROVE ZoneIs' = ZoneIs
BY DEF ZoneIs, Zones, OfType, Shown, Of, Visible, Alive, Rec

\* An answer that is right stays right.
LEMMA AnswerSame ==
  ASSUME UNCHANGED <<db, now, loc, q, qtype, answer, aa, nx>>, AnswerIs
  PROVE AnswerIs'
<1>1. AtA' = AtA /\ AtOther' = AtOther /\ Given' = Given
  BY DEF AtA, AtOther, Given
<1>2. Zones' = Zones /\ Ours' = Ours /\ Sources' = Sources /\ Source' = Source
  BY SameAnswers
<1>3. PICK S, W, A : S = Source /\ W = WantedOf(S) /\ A = AddressesOf(S)
  OBVIOUS
<1>4. WantedOf(Source)' = W /\ AddressesOf(Source)' = A
  BY <1>2, <1>3, SameAnswers
<1>5. AnswerOf(W, A)
  BY <1>3, Zenon DEF AnswerIs
<1>6. AnswerOf(W, A)'
  BY <1>1, <1>2, <1>5, SMT DEF AnswerOf, Listed
<1> QED BY <1>4, <1>6, Zenon DEF AnswerIs

\* A step that builds no answer and changes nothing that was decided.
LEMMA LaterRight ==
  ASSUME OwnInv, RightInv, Frame, pc \notin {"control", "answer"}, pc' \notin {"control", "answer"},
         UNCHANGED <<control, flagauthoritative, answer, aa, nx>>,
         Healthy => OrderOK'
  PROVE RightInv'
<1> SUFFICES ASSUME Healthy', Busy'
             PROVE OrderOK' /\ ZoneIs' /\ AnswerIs' /\ \A i \in DOMAIN answer' : answer'[i].owner = q'
  BY DEF RightInv, ControlIs
<1>1. UNCHANGED <<db, now, loc, q, qtype>> /\ Busy
  BY DEF Frame, asked, Busy
<1>2. Healthy
  BY <1>1, SameAnswers
<1>3. ZoneIs /\ AnswerIs /\ \A i \in DOMAIN answer : answer[i].owner = q
  BY <1>1, <1>2 DEF RightInv
<1>4. ZoneIs'
  BY <1>1, <1>3, ZoneSame
<1>5. AnswerIs'
  BY <1>1, <1>3, AnswerSame
<1> QED BY <1>1, <1>2, <1>3, <1>4, <1>5

\* Steps to the end without an answer.
LEMMA SilentRight == ASSUME pc' = "idle", reply' # "sent" PROVE RightInv'
BY DEF RightInv, Busy

\* A turn of the search for the zone keeps the invariant.
LEMMA ControlTurnRight == ASSUME OwnInv, RightInv, ControlTurn PROVE RightInv'
<1>1. Frame /\ UNCHANGED <<db, now, loc, q, qtype>> /\ pc = "control" /\ pc' = "control" /\ Busy
      /\ ~Ended(FALSE) /\ FindNext(FALSE) /\ UNCHANGED <<aa, nx, flagfound, flaggavesoa, answer>>
      /\ TypeOK
  BY DEF ControlTurn, Frame, asked, Busy, OwnInv
<1> SUFFICES ASSUME Healthy'
             PROVE OrderOK' /\ ControlIs' /\ \A i \in DOMAIN answer' : answer'[i].owner = q'
  BY <1>1 DEF RightInv
<1>2. Healthy
  BY <1>1, SameAnswers
<1>3. OrderOK /\ ControlIs /\ \A i \in DOMAIN answer : answer[i].owner = q
  BY <1>1, <1>2 DEF RightInv
<1>4. PICK d : d = control
  OBVIOUS
<1>5. d' = control' /\ Ordered(d)
  BY <1>1, <1>3, <1>4 DEF ControlTurn, OrderOK, Where
<1>6. PICK i : i = Stop(FALSE)
  OBVIOUS
<1>7. /\ Seen(d, FALSE)' = Seen(d, FALSE) \cup {i} /\ type' = Rec(i).type /\ Ordered(d)'
  BY <1>1, <1>2, <1>5, <1>6, TurnIs
<1>8. OrderOK'
  BY <1>1, <1>5, <1>7 DEF OrderOK, Where
<1>9. \A t : OfType(Seen(d, FALSE), t)' # {} <=> OfType(Seen(d, FALSE), t) # {} \/ type' = t
  <2> TAKE t
  <2>1. PICK S : S = Seen(d, FALSE) \cup {i}
    OBVIOUS
  <2>2. OfType(Seen(d, FALSE), t)' = OfType(S, t)'
    BY <1>7, <2>1
  <2>3. OfType(S, t)' = OfType(S, t)
    BY <1>1, SameAnswers
  <2> QED BY <1>7, <2>1, <2>2, <2>3 DEF OfType
<1>10. /\ Zones' = Zones
  BY <1>1, SameAnswers
<1>11. /\ (flagauthoritative' <=> (flagauthoritative \/ type' = "SOA"))
       /\ (flagns' <=> (flagns \/ type' = "NS"))
  BY DEF ControlTurn
<1>12. /\ (flagns <=> (OfType(Seen(d, FALSE), "NS") # {}))
       /\ (flagauthoritative <=> (OfType(Seen(d, FALSE), "SOA") # {}))
       /\ Zones \subseteq Above[d] /\ aa /\ ~nx /\ ~flagfound /\ ~flaggavesoa
  BY <1>1, <1>3, <1>4 DEF ControlIs
<1>13. /\ (flagns' <=> (OfType(Seen(d, FALSE), "NS")' # {}))
       /\ (flagauthoritative' <=> (OfType(Seen(d, FALSE), "SOA")' # {}))
  BY <1>9, <1>11, <1>12
<1>14. ControlIs'
  BY <1>1, <1>5, <1>10, <1>12, <1>13 DEF ControlIs
<1> QED BY <1>1, <1>3, <1>8, <1>14

\* The search of a name that is not below a zone ended.
LEMMA ControlEnded ==
  ASSUME OwnInv, RightInv, Healthy, pc = "control", Ended(FALSE)
  PROVE /\ (flagns <=> (OfType(Shown(control, FALSE), "NS") # {}))
        /\ (flagauthoritative <=> (OfType(Shown(control, FALSE), "SOA") # {}))
        /\ Zones \subseteq Above[control] /\ control \in Above[q] /\ control \in Name /\ q \in Name
        /\ aa /\ ~nx /\ ~flagfound /\ ~flaggavesoa /\ wild = q
        /\ addr = <<>> /\ addrnum = 0 /\ answer = <<>>
<1>1. Busy /\ OrderOK /\ ControlIs
  BY DEF RightInv, Busy
<1>2. Ordered(control)
  BY <1>1 DEF OrderOK, Where
<1>3. Seen(control, FALSE) = Shown(control, FALSE)
  BY <1>2, EndIs
<1> QED BY <1>1, <1>3, AboveUp DEF ControlIs, OwnInv, NamesOK, StartOK

\* The step to the parent keeps the invariant.
LEMMA ControlParentRight == ASSUME OwnInv, RightInv, ControlParent PROVE RightInv'
<1>1. Frame /\ UNCHANGED <<db, now, loc, q, qtype>> /\ pc = "control" /\ Ended(FALSE) /\ ~flagns
      /\ UNCHANGED <<aa, nx, flagfound, flaggavesoa, answer>>
  BY DEF ControlParent, Frame, asked
<1>2. CASE Parent[control] = "none"
  BY <1>2, SilentRight DEF ControlParent, Silent
<1>3. CASE Parent[control] # "none"
  <2>1. /\ control' = Parent[control] /\ rest' = Of(db, Parent[control])
        /\ ~flagns' /\ ~flagauthoritative' /\ UNCHANGED <<pc, reply>>
    BY <1>3 DEF ControlParent, StartControl
  <2> SUFFICES ASSUME Healthy'
               PROVE OrderOK' /\ ControlIs' /\ \A i \in DOMAIN answer' : answer'[i].owner = q'
    BY <1>1, <2>1 DEF RightInv
  <2>2. Healthy
    BY <1>1, SameAnswers
  <2>3. PICK d : d = Parent[control]
    OBVIOUS
  <2>4. rest' = Of(db, d)' /\ control' = d
    BY <1>1, <2>1, <2>3
  <2>5. Seen(d, FALSE)' = {} /\ Ordered(d)'
    BY <2>4 DEF Seen, Shown, Ordered
  <2>6. Zones \subseteq Above[d]
    <3>1. control \notin Zones
      BY <1>1, <2>2, ControlEnded DEF Zones
    <3>2. Above[control] = {control} \cup Above[d]
      BY <1>1, <1>3, <2>2, <2>3, ControlEnded, AboveParent
    <3> QED BY <1>1, <2>2, <3>1, <3>2, ControlEnded
  <2>7. OrderOK'
    BY <1>1, <2>1, <2>4, <2>5 DEF OrderOK, Where
  <2>8. OfType(Seen(d, FALSE), "NS")' = {} /\ OfType(Seen(d, FALSE), "SOA")' = {}
    BY <2>5 DEF OfType
  <2>9. ControlIs'
    <3>1. Zones' = Zones
      BY <1>1, SameAnswers
    <3> QED BY <1>1, <2>1, <2>2, <2>4, <2>6, <2>8, <3>1, ControlEnded DEF ControlIs
  <2>10. answer' = <<>>
    BY <1>1, <2>2, ControlEnded
  <2> QED BY <2>7, <2>9, <2>10
<1> QED BY <1>2, <1>3

\* The sections after the answer begin.
LEMMA AuthorityOrder ==
  ASSUME Authority, UNCHANGED <<db, control>>
  PROVE OrderOK' /\ pc' \in {"soa", "ns", "glue"}
<1>1. /\ pc' \in {"soa", "ns", "glue"}
      /\ pc' \in {"soa", "ns"} => rest' = Of(db, control)
  BY DEF Authority, Search
<1>2. PICK d : d = control
  OBVIOUS
<1>3. pc' \in {"soa", "ns"} => rest' = Of(db, d)' /\ d = control'
  BY <1>1, <1>2
<1>4. pc' \in {"soa", "ns"} => Ordered(d)' /\ d = control'
  BY <1>3 DEF Ordered
<1> QED BY <1>1, <1>4 DEF OrderOK, Where

\* The zone found keeps the invariant.
LEMMA ControlFoundRight == ASSUME OwnInv, RightInv, ControlFound PROVE RightInv'
<1>1. Frame /\ UNCHANGED <<db, now, loc, q, qtype>> /\ pc = "control" /\ Ended(FALSE) /\ flagns
      /\ UNCHANGED <<wild, control, flagauthoritative, nx, flagfound, flaggavesoa, answer, addr, addrnum>>
  BY DEF ControlFound, Frame, asked
<1> SUFFICES ASSUME Healthy' PROVE RightInv'
  BY DEF RightInv
<1>2. Healthy
  BY <1>1, SameAnswers
<1>3. ZoneIs /\ q \in Name /\ control \in Zones
  BY <1>1, <1>2, ControlEnded DEF ZoneIs, Zones
<1>4. ZoneIs'
  BY <1>1, <1>3, ZoneSame
<1>5. Zone = control /\ (Ours <=> flagauthoritative)
  BY <1>3, ZoneIsControl DEF ZoneIs, Ours
<1>6. answer' = <<>> /\ addr' = <<>> /\ addrnum' = 0 /\ ~nx' /\ ~flagfound' /\ ~flaggavesoa'
      /\ wild' = q' /\ aa /\ Zones \subseteq Above[q]
  BY <1>1, <1>2, ControlEnded, AboveAbove DEF Zones
<1>7. CASE flagauthoritative
  <2>1. pc' = "answer" /\ rest' = Of(db, q) /\ UNCHANGED aa
    BY <1>7 DEF ControlFound, Search
  <2>2. PICK d : d = q
    OBVIOUS
  <2>3. rest' = Of(db, d)' /\ wild' = d /\ q' = d
    BY <1>1, <1>6, <2>1, <2>2
  <2>4. Seen(d, FALSE)' = {} /\ Ordered(d)'
    BY <2>3 DEF Seen, Shown, Ordered
  <2>5. OrderOK'
    BY <2>1, <2>3, <2>4 DEF OrderOK, Where
  <2>6. AnsweringIs({})'
    <3>1. Sources' \subseteq Above[wild']
      BY <1>6, <2>3 DEF Sources
    <3>2. OfType({}, "SOA")' = {} /\ WantedOf({})' = {} /\ AddressesOf({})' = {}
      BY DEF OfType, WantedOf, AddressesOf
    <3>3. Listed(answer, DOMAIN answer, WantedOf({}))'
      BY <1>6, <3>2 DEF Listed
    <3>4. ToSet(<<>>) = {} /\ DOMAIN <<>> = {} /\ Cardinality({}) = 0
      BY FS_EmptySet DEF ToSet
    <3> QED BY <1>1, <1>6, <1>7, <2>1, <3>1, <3>2, <3>3, <3>4 DEF AnsweringIs
  <2>7. (wild # q)' = FALSE
    BY <2>3
  <2>8. AnsweringIs(Seen(wild, wild # q))'
    BY <2>3, <2>4, <2>6, <2>7
  <2> QED BY <1>4, <1>6, <2>1, <2>5, <2>8 DEF RightInv, ControlIs
<1>8. CASE ~flagauthoritative
  <2>1. ~aa' /\ Authority
    BY <1>8 DEF ControlFound
  <2>2. OrderOK' /\ pc' \in {"soa", "ns", "glue"}
    BY <1>1, <2>1, AuthorityOrder
  <2>3. Zones # {} /\ Zones' = Zones /\ Ours' = Ours
    BY <1>1, <1>3, SameAnswers
  <2>4. AnswerIs'
    <3>1. Ours = FALSE
      BY <1>5, <1>8 DEF Ours
    <3> QED BY <1>6, <2>1, <2>3, <3>1 DEF AnswerIs, AnswerOf, Ours
  <2>5. pc' # "control" /\ pc' # "answer" /\ \A i \in DOMAIN answer' : answer'[i].owner = q'
    BY <1>6, <2>2
  <2> QED BY <1>4, <2>2, <2>4, <2>5 DEF RightInv, ControlIs
<1> QED BY <1>7, <1>8

\* A new query has seen nothing yet.
LEMMA RespondRight ==
  ASSUME OwnInv, NEW client \in Client, NEW name \in Name, NEW t \in QType, Respond(client, name, t)
  PROVE RightInv'
<1>1. PICK base : base = IF Stale THEN file ELSE db
  OBVIOUS
<1>2. CASE ~base.exists
  <2>1. pc' = "idle" /\ reply' = "silent"
    BY <1>1, <1>2 DEF Respond, Silent
  <2> QED BY <2>1, SilentRight
<1>3. CASE ~(~base.exists)
  <2>1. /\ db' = base /\ q' = name /\ aa' = TRUE /\ nx' = FALSE /\ flagfound' = FALSE /\ flaggavesoa' = FALSE
        /\ answer' = <<>> /\ pc' = "control" /\ control' = name /\ rest' = Of(base, name)
        /\ flagns' = FALSE /\ flagauthoritative' = FALSE
    BY <1>1, <1>3 DEF Respond, StartControl
  <2>2. rest' = Of(db, name)'
    BY <2>1
  <2>3. Seen(name, FALSE)' = {} /\ Ordered(name)'
    BY <2>2 DEF Seen, Shown, Ordered
  <2>4. OrderOK'
    BY <2>1, <2>3 DEF OrderOK, Where
  <2>5. OfType(Seen(name, FALSE), "NS")' = {} /\ OfType(Seen(name, FALSE), "SOA")' = {}
    BY <2>3 DEF OfType
  <2>6. Zones' \subseteq Above[control']
    BY <2>1 DEF Zones
  <2>7. ControlIs'
    BY <2>1, <2>5, <2>6 DEF ControlIs
  <2> QED BY <2>1, <2>4, <2>7 DEF RightInv
<1> QED BY <1>2, <1>3

-----------------------------------------------------------------------------
(* The records of the name, or of a wildcard.                              *)

\* What one record more makes of the records wanted.
LEMMA MoreWanted ==
  ASSUME NEW S \in SUBSET Nat, NEW i \in Nat, \A j \in S : j < i
  PROVE /\ OfType(S \cup {i}, "SOA") # {} <=> OfType(S, "SOA") # {} \/ Rec(i).type = "SOA"
        /\ WantedOf(S \cup {i}) =
             IF /\ Asked(Rec(i).type) /\ Rec(i).type # "A"
                /\ Rec(i).type = "SOA" => OfType(S, "SOA") = {}
             THEN WantedOf(S) \cup {i} ELSE WantedOf(S)
        /\ AddressesOf(S \cup {i}) =
             IF Asked("A") /\ Rec(i).type = "A" THEN AddressesOf(S) \cup {i} ELSE AddressesOf(S)
<1> DEFINE T == S \cup {i}
           first(j, U) == \A k \in OfType(U, "SOA") : j <= k
<1>1. OfType(T, "SOA") = OfType(S, "SOA") \cup (IF Rec(i).type = "SOA" THEN {i} ELSE {})
  BY DEF OfType
<1>2. AddressesOf(T) = IF Asked("A") /\ Rec(i).type = "A" THEN AddressesOf(S) \cup {i} ELSE AddressesOf(S)
  BY DEF AddressesOf, OfType
<1>3. \A j \in S : j < i /\ j <= i /\ ~(i <= j) /\ j # i
  OBVIOUS
<1>4. \A j \in S : first(j, T) <=> first(j, S)
  BY <1>1, <1>3
<1>5. Rec(i).type = "SOA" => (first(i, T) <=> OfType(S, "SOA") = {})
  <2>1. OfType(S, "SOA") \subseteq S /\ i <= i
    BY DEF OfType
  <2> QED BY <1>1, <1>3, <2>1
<1>6. \A U : WantedOf(U) = {j \in U : /\ Asked(Rec(j).type) /\ Rec(j).type # "A"
                                      /\ Rec(j).type = "SOA" => first(j, U)}
  BY DEF WantedOf
<1> HIDE DEF first
<1>7. WantedOf(T) = IF /\ Asked(Rec(i).type) /\ Rec(i).type # "A"
                       /\ Rec(i).type = "SOA" => OfType(S, "SOA") = {}
                    THEN WantedOf(S) \cup {i} ELSE WantedOf(S)
  <2>1. \A j \in S : j \in WantedOf(T) <=> j \in WantedOf(S)
    BY <1>4, <1>6
  <2>2. i \in WantedOf(T) <=> /\ Asked(Rec(i).type) /\ Rec(i).type # "A"
                              /\ Rec(i).type = "SOA" => OfType(S, "SOA") = {}
    BY <1>5, <1>6
  <2>3. WantedOf(T) \subseteq T /\ WantedOf(S) \subseteq S
    BY <1>6
  <2> DEFINE due == /\ Asked(Rec(i).type) /\ Rec(i).type # "A"
                    /\ Rec(i).type = "SOA" => OfType(S, "SOA") = {}
  <2>4. CASE due
    <3>1. WantedOf(T) = WantedOf(S) \cup {i}
      BY <2>1, <2>2, <2>3, <2>4
    <3> QED BY <3>1, <2>4
  <2>5. CASE ~due
    <3>1. WantedOf(T) = WantedOf(S)
      BY <2>1, <2>2, <2>3, <2>5
    <3> QED BY <3>1, <2>5
  <2> QED BY <2>4, <2>5
<1> QED BY <1>1, <1>2, <1>7

\* A longer section lists one place more.
LEMMA ListedMore ==
  ASSUME NEW D, NEW s \in Seq(D), NEW r, NEW S \in SUBSET Nat, r.place \in Nat,
         Listed(s, DOMAIN s, S), \A j \in S : j < r.place
  PROVE Listed(Append(s, r), DOMAIN Append(s, r), S \cup {r.place})
<1> DEFINE n == Len(s)
           u == Append(s, r)
<1>1. n \in Nat /\ DOMAIN s = 1 .. n /\ DOMAIN u = 1 .. n + 1 /\ u[n + 1] = r /\ \A i \in 1 .. n : u[i] = s[i]
  OBVIOUS
<1> HIDE DEF n, u
<1>2. \A i \in 1 .. n : s[i].place \in S
  BY <1>1 DEF Listed
<1>3. \A i \in 1 .. n + 1 : i \in 1 .. n \/ i = n + 1
  BY <1>1
<1>4. n + 1 \in 1 .. n + 1 /\ 1 .. n \subseteq 1 .. n + 1
  BY <1>1
<1>5. {u[i].place : i \in 1 .. n + 1} = S \cup {r.place}
  <2>1. ASSUME NEW x \in S PROVE x \in {u[i].place : i \in 1 .. n + 1}
    <3>1. PICK i \in 1 .. n : s[i].place = x
      BY <1>1 DEF Listed
    <3> QED BY <1>1, <1>4, <3>1
  <2>2. r.place \in {u[i].place : i \in 1 .. n + 1}
    BY <1>1, <1>4
  <2>3. \A i \in 1 .. n + 1 : u[i].place \in S \cup {r.place}
    BY <1>1, <1>2, <1>3
  <2> QED BY <2>1, <2>2, <2>3
<1>6. ASSUME NEW i \in 1 .. n + 1, NEW j \in 1 .. n + 1, i < j PROVE u[i].place < u[j].place
  <2>1. i \in 1 .. n
    BY <1>1, <1>6
  <2>2. CASE j = n + 1
    BY <1>1, <1>2, <2>1, <2>2
  <2>3. CASE j \in 1 .. n
    <3>1. s[i].place < s[j].place
      BY <1>1, <1>6, <2>1, <2>3 DEF Listed
    <3> QED BY <1>1, <2>1, <2>3, <3>1
  <2> QED BY <1>3, <2>2, <2>3
<1>7. Listed(u, 1 .. n + 1, S \cup {r.place})
  BY <1>5, <1>6 DEF Listed
<1> QED BY <1>1, <1>7 DEF u

\* A turn of the loop sees one record more.
LEMMA AnswerTurnIs ==
  ASSUME OwnInv, RightInv, AnswerTurn, Healthy,
         NEW i, i = Stop(wild # q), NEW S, S = Seen(wild, wild # q)
  PROVE /\ AnsweringIs(S) /\ ZoneIs' /\ OrderOK' /\ \A k \in DOMAIN answer : answer[k].owner = q
        /\ S \in SUBSET Nat /\ S \subseteq Places /\ i \in Nat /\ i \in Places /\ i \notin S /\ \A j \in S : j < i
        /\ Seen(wild, wild # q)' = S \cup {i} /\ type' = Rec(i).type
        /\ IsFiniteSet(AddressesOf(S))
        /\ UNCHANGED <<db, now, loc, q, qtype>> /\ pc = "answer" /\ pc' = "answer"
        /\ q \in Name /\ control \in Above[q] /\ TypeOK
<1>0. PICK d, w : w \in BOOLEAN /\ d = wild /\ w = (wild # q) /\ i = Stop(w) /\ S = Seen(d, w)
  <2>1. (wild # q) \in BOOLEAN
    OBVIOUS
  <2> QED BY <2>1, Zenon
<1>1. pc = "answer" /\ pc' = "answer" /\ Took(w) /\ FindNext(w) /\ UNCHANGED <<asked, control, wild, flagauthoritative>>
      /\ Frame /\ TypeOK /\ Busy
  BY <1>0 DEF AnswerTurn, Frame, OwnInv, Busy
<1>2. /\ AnsweringIs(Seen(wild, wild # q)) /\ ZoneIs /\ OrderOK
      /\ \A k \in DOMAIN answer : answer[k].owner = q
  BY <1>1 DEF RightInv
<1>3. AnsweringIs(S)
  BY <1>0, <1>2
<1>4. UNCHANGED <<db, now, loc, q, qtype>> /\ ZoneIs'
  <2>1. UNCHANGED <<db, now, loc, q, qtype>>
    BY <1>1 DEF asked
  <2> QED BY <1>1, <1>2, <2>1, ZoneSame
<1>5. Ordered(d) /\ ~Ended(w)
  BY <1>0, <1>1, <1>2 DEF OrderOK, Where, Took, Ended
<1>6. /\ i \in Places /\ i \notin Seen(d, w) /\ Seen(d, w)' = Seen(d, w) \cup {i}
      /\ \A j \in Seen(d, w) : j < i
      /\ type' = Rec(i).type /\ Ordered(d)'
  BY <1>0, <1>1, <1>4, <1>5, TurnIs
<1>7. wild' = d /\ (wild # q)' = w
  BY <1>0, <1>1, <1>4
<1>8. Seen(wild, wild # q)' = S \cup {i}
  BY <1>0, <1>6, <1>7
<1>9. OrderOK'
  BY <1>1, <1>6, <1>7 DEF OrderOK, Where
<1>10. S \subseteq Shown(d, w) /\ Shown(d, w) \subseteq Nat /\ IsFiniteSet(Shown(d, w)) /\ Shown(d, w) \subseteq Places
  BY <1>0, <1>1, ShownTyped DEF Seen
<1>11. AddressesOf(S) \subseteq S
  BY DEF AddressesOf, OfType
<1>12. IsFiniteSet(AddressesOf(S))
  BY <1>10, <1>11, FS_Subset
<1>13. i \in Nat
  BY <1>1, <1>6, DbTyped
<1> QED BY <1>0, <1>1, <1>2, <1>3, <1>4, <1>6, <1>8, <1>9, <1>10, <1>12, <1>13, Running

\* The invariant after a turn, from what was seen.
LEMMA AnswerTurnRight ==
  ASSUME OwnInv, RightInv, AnswerTurn, Healthy, NEW T, T = Seen(wild, wild # q)', AnsweringIs(T)',
         \A k \in DOMAIN answer' : answer'[k].owner = q
  PROVE RightInv'
<1>3. ZoneIs' /\ OrderOK' /\ pc' = "answer" /\ q' = q
  BY AnswerTurnIs
<1>4. AnsweringIs(Seen(wild, wild # q))'
  OBVIOUS
<1> QED BY <1>3, <1>4 DEF RightInv, ControlIs

\* What a turn leaves of the answer so far.
LEMMA AnsweringStays ==
  ASSUME NEW S, NEW i, AnsweringIs(S), AnswerTurn,
         UNCHANGED <<db, now, loc, q, qtype>>
  PROVE /\ flagauthoritative' /\ aa' /\ ~nx' /\ Sources' \subseteq Above[wild'] /\ flagfound'
        /\ wild' = wild
        /\ \A U, t : OfType(U, t)' = OfType(U, t)
        /\ \A U : WantedOf(U)' = WantedOf(U) /\ AddressesOf(U)' = AddressesOf(U)
        /\ \A t : Asked(t)' = Asked(t)
<1>1. UNCHANGED <<flagauthoritative, aa, nx, wild>> /\ flagfound'
  BY DEF AnswerTurn
<1> QED BY <1>1, SameAnswers DEF AnsweringIs

\* A record passed over keeps the invariant.
LEMMA AnswerPassesRight == ASSUME OwnInv, RightInv, AnswerPasses PROVE RightInv'
<1> SUFFICES ASSUME Healthy' PROVE RightInv'
  BY DEF RightInv
<1>1. PICK i, S : i = Stop(wild # q) /\ S = Seen(wild, wild # q)
  OBVIOUS
<1>2. AnswerTurn /\ UNCHANGED <<answer, addr, addrnum, flaggavesoa>>
  BY <1>1 DEF AnswerPasses
<1>3. Healthy
  <2>1. UNCHANGED <<db, now, loc, q, qtype>>
    BY <1>2 DEF AnswerTurn, asked
  <2> QED BY <2>1, SameAnswers
<1>4. /\ AnsweringIs(S) /\ \A k \in DOMAIN answer : answer[k].owner = q
      /\ S \in SUBSET Nat /\ i \in Nat /\ \A j \in S : j < i
      /\ Seen(wild, wild # q)' = S \cup {i} /\ type' = Rec(i).type
      /\ UNCHANGED <<db, now, loc, q, qtype>>
  BY <1>1, <1>2, <1>3, AnswerTurnIs
<1>5. PICK T : T = S \cup {i}
  OBVIOUS
<1>6. (flaggavesoa /\ Rec(i).type = "SOA") \/ ~Asked(Rec(i).type)
  <2>1. Passes(type') /\ type' = Rec(i).type
    BY <1>4 DEF AnswerPasses
  <2> QED BY <2>1 DEF Passes
<1>7. flaggavesoa <=> Asked("SOA") /\ OfType(S, "SOA") # {}
  BY <1>4 DEF AnsweringIs
<1>8. /\ WantedOf(T) = WantedOf(S) /\ AddressesOf(T) = AddressesOf(S)
      /\ flaggavesoa <=> Asked("SOA") /\ OfType(T, "SOA") # {}
  BY <1>4, <1>5, <1>6, <1>7, MoreWanted
<1>9. AnsweringIs(T)'
  BY <1>2, <1>4, <1>5, <1>8, AnsweringStays DEF AnsweringIs
<1> QED BY <1>2, <1>3, <1>4, <1>5, <1>9, AnswerTurnRight

\* A record written keeps the invariant.
LEMMA AnswerRecordRight == ASSUME OwnInv, RightInv, AnswerRecord PROVE RightInv'
<1> SUFFICES ASSUME Healthy' PROVE RightInv'
  BY DEF RightInv
<1>1. PICK i, S : i = Stop(wild # q) /\ S = Seen(wild, wild # q)
  OBVIOUS
<1>2. /\ AnswerTurn /\ UNCHANGED <<addr, addrnum>>
      /\ answer' = Append(answer, RR(q, i)) /\ (flaggavesoa' <=> flaggavesoa \/ type' = "SOA")
      /\ ~Passes(type') /\ type' # "A"
  BY <1>1 DEF AnswerRecord
<1>3. Healthy
  <2>1. UNCHANGED <<db, now, loc, q, qtype>>
    BY <1>2 DEF AnswerTurn, asked
  <2> QED BY <2>1, SameAnswers
<1>4. /\ AnsweringIs(S) /\ \A k \in DOMAIN answer : answer[k].owner = q
      /\ S \in SUBSET Nat /\ i \in Nat /\ i \notin S /\ \A j \in S : j < i
      /\ Seen(wild, wild # q)' = S \cup {i} /\ type' = Rec(i).type
      /\ UNCHANGED <<db, now, loc, q, qtype>> /\ pc = "answer"
  BY <1>1, <1>2, <1>3, AnswerTurnIs
<1>5. PICK T : T = S \cup {i}
  OBVIOUS
<1>6. Asked(Rec(i).type) /\ Rec(i).type # "A" /\ ~(flaggavesoa /\ Rec(i).type = "SOA")
  <2>1. ~Passes(Rec(i).type) /\ Rec(i).type # "A"
    BY <1>2, <1>4
  <2> QED BY <2>1 DEF Passes
<1>7. flaggavesoa <=> Asked("SOA") /\ OfType(S, "SOA") # {}
  BY <1>4 DEF AnsweringIs
<1>8. /\ WantedOf(T) = WantedOf(S) \cup {i} /\ AddressesOf(T) = AddressesOf(S)
      /\ flaggavesoa' <=> Asked("SOA") /\ OfType(T, "SOA") # {}
  BY <1>2, <1>4, <1>5, <1>6, <1>7, MoreWanted
<1>9. PICK r : r = RR(q, i)
  OBVIOUS
<1>10. r.place = i /\ r.owner = q /\ r.type = Rec(i).type /\ r.type # "A"
  BY <1>6, <1>9 DEF RR
<1>11. answer \in Seq(Item) /\ answer' = Append(answer, r)
  BY <1>2, <1>4, <1>9 DEF OwnInv, ItemsOK, Busy
<1>12. \A k \in DOMAIN answer' : (k \in DOMAIN answer /\ answer'[k] = answer[k]) \/ answer'[k] = r
  BY <1>11
<1>13. Listed(answer', DOMAIN answer', WantedOf(S) \cup {i})
  <2>1. WantedOf(S) \subseteq S
    BY DEF WantedOf
  <2>2. Listed(answer, DOMAIN answer, WantedOf(S))
    BY <1>4 DEF AnsweringIs
  <2> QED BY <1>4, <1>10, <1>11, <2>1, <2>2, ListedMore
<1>14. \A k \in DOMAIN answer' : answer'[k].type # "A" /\ answer'[k].owner = q
  BY <1>4, <1>10, <1>12 DEF AnsweringIs
<1>15. Listed(answer', DOMAIN answer', WantedOf(T)')
  BY <1>4, <1>8, <1>13, AnsweringStays, <1>2
<1>16. AnsweringIs(T)'
  BY <1>2, <1>4, <1>5, <1>8, <1>14, <1>15, AnsweringStays DEF AnsweringIs
<1> QED BY <1>2, <1>3, <1>4, <1>5, <1>14, <1>16, AnswerTurnRight

\* An address put in the table keeps the invariant.
LEMMA AnswerAddressRight == ASSUME OwnInv, RightInv, AnswerAddress PROVE RightInv'
<1> SUFFICES ASSUME Healthy' PROVE RightInv'
  BY DEF RightInv
<1>1. PICK i, S : i = Stop(wild # q) /\ S = Seen(wild, wild # q)
  OBVIOUS
<1>2. /\ AnswerTurn /\ UNCHANGED <<answer, flaggavesoa>>
      /\ addrnum' = addrnum + 1 /\ ~Passes(type') /\ type' = "A"
  BY <1>1 DEF AnswerAddress
<1>3. Healthy
  <2>1. UNCHANGED <<db, now, loc, q, qtype>>
    BY <1>2 DEF AnswerTurn, asked
  <2> QED BY <2>1, SameAnswers
<1>4. /\ AnsweringIs(S) /\ \A k \in DOMAIN answer : answer[k].owner = q
      /\ S \in SUBSET Nat /\ i \in Nat /\ i \notin S /\ i \in Places /\ \A j \in S : j < i
      /\ Seen(wild, wild # q)' = S \cup {i} /\ type' = Rec(i).type
      /\ UNCHANGED <<db, now, loc, q, qtype>> /\ pc = "answer" /\ TypeOK
      /\ IsFiniteSet(AddressesOf(S))
  BY <1>1, <1>2, <1>3, AnswerTurnIs
<1>5. PICK T : T = S \cup {i}
  OBVIOUS
<1>6. Rec(i).type = "A" /\ Asked("A")
  BY <1>2, <1>4 DEF Passes
<1>7. /\ WantedOf(T) = WantedOf(S) /\ AddressesOf(T) = AddressesOf(S) \cup {i}
      /\ OfType(T, "SOA") # {} <=> OfType(S, "SOA") # {}
  BY <1>4, <1>5, <1>6, MoreWanted
<1>8. PICK k \in 0 .. addrnum : addr' = Placed(k, i)
  BY <1>1 DEF AnswerAddress
<1>9. /\ addr \in Seq(Places) /\ addrnum \in Nat /\ Len(addr) = Smaller(addrnum, MaxAddr)
  BY <1>4 DEF OwnInv, AddrOK, TypeOK, Places
<1>10. ToSet(addr) \subseteq AddressesOf(S) /\ addrnum = Cardinality(AddressesOf(S))
       /\ \A m, n \in DOMAIN addr : m # n => addr[m] # addr[n]
  BY <1>4 DEF AnsweringIs
<1>11. AddressesOf(S) \subseteq S
  BY DEF AddressesOf, OfType
<1>12. \A m \in DOMAIN addr : addr[m] \in AddressesOf(S) /\ addr[m] # i
  BY <1>4, <1>10, <1>11 DEF ToSet
<1>13. /\ \A n \in DOMAIN addr' : addr'[n] = i \/ \E m \in DOMAIN addr : addr'[n] = addr[m]
       /\ \A m, n \in DOMAIN addr' : m # n => addr'[m] # addr'[n]
  BY <1>4, <1>8, <1>9, <1>10, <1>12, PlacedIs
<1>14. ToSet(addr') \subseteq AddressesOf(T)
  BY <1>7, <1>12, <1>13 DEF ToSet
<1>15. addrnum' = Cardinality(AddressesOf(T))
  <2>1. PICK A : A = AddressesOf(S)
    OBVIOUS
  <2>2. IsFiniteSet(A) /\ i \notin A
    BY <1>4, <1>11, <2>1
  <2>3. Cardinality(A \cup {i}) = Cardinality(A) + 1
    BY <2>2, FS_AddElement
  <2> QED BY <1>2, <1>7, <1>10, <2>1, <2>3
<1>16. AnsweringIs(T)'
  <2>1. AddressesOf(T)' = AddressesOf(T) /\ WantedOf(T)' = WantedOf(S)
    BY <1>2, <1>4, <1>7, AnsweringStays
  <2>2. Listed(answer', DOMAIN answer', WantedOf(T)')
    BY <1>2, <1>4, <2>1 DEF AnsweringIs
  <2>3. flaggavesoa' <=> Asked("SOA")' /\ OfType(T, "SOA")' # {}
    BY <1>2, <1>4, <1>7, AnsweringStays DEF AnsweringIs
  <2>4. \A n \in DOMAIN answer' : answer'[n].type # "A"
    BY <1>2, <1>4 DEF AnsweringIs
  <2>5. T # {}
    BY <1>5
  <2> QED BY <1>2, <1>4, <1>13, <1>14, <1>15, <2>1, <2>2, <2>3, <2>4, <2>5, AnsweringStays DEF AnsweringIs
<1> QED BY <1>2, <1>3, <1>4, <1>5, <1>16, AnswerTurnRight

\* Nothing was listed.
LEMMA ListedNothing ==
  ASSUME NEW D, NEW s \in Seq(D), Listed(s, DOMAIN s, {})
  PROVE s = <<>>
<1>1. \A i \in DOMAIN s : s[i].place \in {}
  BY DEF Listed
<1> QED BY <1>1, EmptySeq

\* The search of the name, or of a wildcard, ended.
LEMMA AnswerEnded ==
  ASSUME OwnInv, RightInv, Healthy, pc = "answer", Ended(wild # q), NEW S, S = Shown(wild, wild # q)
  PROVE /\ AnsweringIs(S) /\ ZoneIs /\ Zones # {} /\ Ours /\ (flagfound <=> S # {})
        /\ q \in Name /\ wild \in Name /\ wild \in Above[q] /\ control \in Above[wild]
        /\ \A k \in DOMAIN answer : answer[k].owner = q
        /\ answer \in Seq(Item) /\ addr \in Seq(Places) /\ Len(addr) = Smaller(addrnum, MaxAddr)
        /\ \A k \in DOMAIN addr : Rec(addr[k]).type = "A"
        /\ S # {} => Sources # {} /\ Source = S
        /\ S = {} /\ (wild = control \/ Parent[wild] = "none") => Sources = {}
        /\ S = {} /\ Parent[wild] # "none" => Sources \subseteq Above[Parent[wild]]
        /\ S = {} => answer = <<>> /\ addr = <<>>
<1>1. /\ Busy /\ OrderOK /\ ZoneIs /\ AnsweringIs(Seen(wild, wild # q)) /\ \A k \in DOMAIN answer : answer[k].owner = q
  BY DEF RightInv, Busy
<1>2. Ordered(wild)
  BY <1>1 DEF OrderOK, Where
<1>3. Seen(wild, wild # q) = S
  BY <1>2, EndIs
<1>4. AnsweringIs(S)
  BY <1>1, <1>3
<1>5. Sources \subseteq Above[wild] /\ (flagfound <=> S # {}) /\ flagauthoritative
  BY <1>4 DEF AnsweringIs
<1>6. q \in Name /\ wild \in Name /\ wild \in Above[q] /\ control \in Above[wild] /\ control \in Name
  BY <1>1, AboveUp DEF OwnInv, NamesOK, WildBelowControl
<1>7. Zone = control /\ control \in Zones
  BY <1>1, <1>6, ZoneIsControl DEF ZoneIs
<1>8. Ours
  BY <1>1, <1>5, <1>7 DEF ZoneIs, Ours
<1>9. /\ answer \in Seq(Item) /\ addr \in Seq(Places) /\ Len(addr) = Smaller(addrnum, MaxAddr)
      /\ \A k \in DOMAIN addr : Rec(addr[k]).type = "A"
  BY <1>1 DEF OwnInv, ItemsOK, AddrOK, TypeOK, Places, Waits
<1>10. ASSUME S # {} PROVE Sources # {} /\ Source = S
  <2>1. wild \in Sources
    BY <1>6, <1>7, <1>10 DEF Sources
  <2>2. Sources \in SUBSET Name
    BY <1>5, <1>6, AboveUp
  <2>3. Nearest(Sources) = wild
    BY <1>5, <2>1, <2>2, NearestIs
  <2> QED BY <2>1, <2>3 DEF Source
<1>11. S = {} => wild \notin Sources
  BY DEF Sources
<1>12. ASSUME S = {}, Parent[wild] # "none" PROVE Sources \subseteq Above[Parent[wild]]
  <2>1. Above[wild] = {wild} \cup Above[Parent[wild]]
    BY <1>6, <1>12, AboveParent
  <2> QED BY <1>5, <1>11, <1>12, <2>1
<1>13. ASSUME S = {}, wild = control \/ Parent[wild] = "none" PROVE Sources = {}
  <2> SUFFICES ASSUME NEW d \in Sources PROVE FALSE
    OBVIOUS
  <2>1. d \in Above[wild] /\ control \in Above[d] /\ d # wild
    BY <1>5, <1>7, <1>11, <1>13 DEF Sources
  <2>2. CASE wild = control
    BY <1>6, <2>1, <2>2, AboveBoth
  <2>3. CASE Parent[wild] = "none"
    <3>1. Above[wild] = {wild}
      BY <1>6, <2>3, AboveParent
    <3> QED BY <2>1, <3>1
  <2> QED BY <1>13, <2>2, <2>3
<1>14. ASSUME S = {} PROVE answer = <<>> /\ addr = <<>>
  <2>1. WantedOf({}) = {} /\ AddressesOf({}) = {}
    BY DEF WantedOf, AddressesOf, OfType
  <2>2. Listed(answer, DOMAIN answer, {}) /\ ToSet(addr) \subseteq {}
    BY <1>4, <1>14, <2>1 DEF AnsweringIs
  <2>3. answer = <<>>
    BY <1>9, <2>2, ListedNothing
  <2>4. addr = <<>>
    BY <1>9, <2>2, EmptySeq DEF ToSet
  <2> QED BY <2>3, <2>4
<1> QED BY <1>1, <1>4, <1>5, <1>6, <1>7, <1>8, <1>9, <1>10, <1>12, <1>13, <1>14

\* The section s with its addresses: where they are, and what is before them.
Appended(s, n, m) ==
  /\ n \in Nat /\ m \in Nat /\ DOMAIN s = 1 .. n + m /\ DOMAIN answer = 1 .. n /\ DOMAIN addr = 1 .. m
  /\ \A i \in 1 .. n : s[i] = answer[i]
  /\ \A i \in n + 1 .. n + m : i - n \in 1 .. m /\ s[i].place = addr[i - n] /\ s[i].owner = q
                             /\ s[i].ttl = addrttl
  /\ {i \in DOMAIN s : s[i].type = "A"} = n + 1 .. n + m
  /\ {s[i].place : i \in n + 1 .. n + m} = {addr[i] : i \in 1 .. m}

\* The answer with the table of addresses at its end.
LEMMA WithAddressesIs ==
  ASSUME answer \in Seq(Item), addr \in Seq(Places), \A k \in DOMAIN answer : answer[k].type # "A",
         \A k \in DOMAIN addr : Rec(addr[k]).type = "A",
         NEW s, s = WithAddresses, NEW n, n = Len(answer), NEW m, m = Len(addr)
  PROVE Appended(s, n, m)
<1>1. n \in Nat /\ m \in Nat /\ DOMAIN answer = 1 .. n /\ DOMAIN addr = 1 .. m
  OBVIOUS
<1>2. PICK u : u = [i \in 1 .. m |-> [RR(q, addr[i]) EXCEPT !.ttl = addrttl]]
  OBVIOUS
<1>3. \A i \in 1 .. m : u[i].place = addr[i] /\ u[i].owner = q /\ u[i].type = "A" /\ u[i].ttl = addrttl
  <2> TAKE i \in 1 .. m
  <2>1. u[i] = [RR(q, addr[i]) EXCEPT !.ttl = addrttl] /\ Rec(addr[i]).type = "A"
    BY <1>1, <1>2
  <2> QED BY <2>1 DEF RR
<1>4. PICK E : E = Item \cup {u[k] : k \in 1 .. m}
  OBVIOUS
<1>5. u \in Seq(E) /\ Len(u) = m
  <2>1. \A i \in 1 .. m : u[i] \in E
    BY <1>4
  <2>2. u \in [1 .. m -> E]
    BY <1>2, <2>1
  <2> QED BY <1>1, <2>2
<1>6. s = answer \o u /\ answer \in Seq(E)
  BY <1>1, <1>2, <1>4 DEF WithAddresses
<1>7. DOMAIN s = 1 .. n + m /\ (\A i \in 1 .. n : s[i] = answer[i]) /\ (\A i \in n + 1 .. n + m : s[i] = u[i - n])
  <2>0. PICK a \in Seq(E) : a = answer
    BY <1>6
  <2>1. /\ s \in Seq(E) /\ Len(s) = n + m
        /\ \A i \in 1 .. n + m : s[i] = IF i <= n THEN answer[i] ELSE u[i - n]
    <3>1. /\ a \o u \in Seq(E) /\ Len(a \o u) = Len(a) + Len(u)
          /\ \A i \in 1 .. Len(a) + Len(u) : (a \o u)[i] = IF i <= Len(a) THEN a[i] ELSE u[i - Len(a)]
      BY <1>5, ConcatProperties, Zenon
    <3>2. s = a \o u /\ n = Len(a) /\ m = Len(u)
      BY <1>5, <1>6, <2>0
    <3> QED BY <3>1, <3>2, <2>0, Zenon
  <2>2. DOMAIN s = 1 .. n + m
    BY <1>1, <2>1
  <2>3. ASSUME NEW i \in 1 .. n PROVE s[i] = answer[i]
    BY <1>1, <2>1
  <2>4. ASSUME NEW i \in n + 1 .. n + m PROVE s[i] = u[i - n]
    BY <1>1, <2>1
  <2> QED BY <2>2, <2>3, <2>4
<1>8. \A i \in n + 1 .. n + m : i - n \in 1 .. m /\ s[i].place = addr[i - n] /\ s[i].owner = q /\ s[i].type = "A"
                                /\ s[i].ttl = addrttl
  BY <1>1, <1>3, <1>7
<1>9. {i \in DOMAIN s : s[i].type = "A"} = n + 1 .. n + m
  <2>1. \A i \in 1 .. n + m : i \in 1 .. n \/ i \in n + 1 .. n + m
    BY <1>1
  <2>2. \A i \in n + 1 .. n + m : i \in 1 .. n + m
    BY <1>1
  <2> QED BY <1>1, <1>7, <1>8, <2>1, <2>2
<1>10. {s[i].place : i \in n + 1 .. n + m} = {addr[i] : i \in 1 .. m}
  <2>1. ASSUME NEW i \in 1 .. m PROVE i + n \in n + 1 .. n + m /\ s[i + n].place = addr[i]
    <3>1. i + n \in n + 1 .. n + m /\ (i + n) - n = i
      BY <1>1
    <3> QED BY <1>8, <3>1
  <2>2. \A i \in 1 .. m : addr[i] \in {s[k].place : k \in n + 1 .. n + m}
    BY <2>1
  <2>3. \A k \in n + 1 .. n + m : s[k].place \in {addr[i] : i \in 1 .. m}
    BY <1>8
  <2> QED BY <2>2, <2>3
<1> QED BY <1>1, <1>7, <1>8, <1>9, <1>10 DEF Appended

\* The section that is written at the end is what was wanted, and as many of
\* the addresses as there is room for.
LEMMA AnswerWritten ==
  ASSUME OwnInv, RightInv, Healthy, pc = "answer", Ended(wild # q), flagfound,
         UNCHANGED <<db, now, loc, q, qtype, aa>>, answer' = WithAddresses, ~nx'
  PROVE AnswerIs' /\ \A k \in DOMAIN answer' : answer'[k].owner = q
<1>1. PICK S : S = Shown(wild, wild # q)
  OBVIOUS
<1>2. /\ AnsweringIs(S) /\ Zones # {} /\ Ours /\ Sources # {} /\ Source = S
      /\ \A k \in DOMAIN answer : answer[k].owner = q
      /\ answer \in Seq(Item) /\ addr \in Seq(Places) /\ Len(addr) = Smaller(addrnum, MaxAddr)
      /\ \A k \in DOMAIN addr : Rec(addr[k]).type = "A"
  BY <1>1, AnswerEnded
<1>3. PICK s, n, m, A, W : /\ s = WithAddresses /\ n = Len(answer) /\ m = Len(addr)
                           /\ A = AddressesOf(S) /\ W = WantedOf(S)
  OBVIOUS
<1>4. /\ aa /\ \A k \in DOMAIN answer : answer[k].type # "A"
      /\ Listed(answer, DOMAIN answer, W) /\ ToSet(addr) \subseteq A /\ addrnum = Cardinality(A)
      /\ \A i, j \in DOMAIN addr : i # j => addr[i] # addr[j]
  BY <1>2, <1>3 DEF AnsweringIs
<1>5. /\ n \in Nat /\ m \in Nat /\ DOMAIN s = 1 .. n + m /\ DOMAIN answer = 1 .. n /\ DOMAIN addr = 1 .. m
      /\ \A i \in 1 .. n : s[i] = answer[i]
      /\ \A i \in n + 1 .. n + m : i - n \in 1 .. m /\ s[i].place = addr[i - n] /\ s[i].owner = q
      /\ {i \in DOMAIN s : s[i].type = "A"} = n + 1 .. n + m
      /\ {s[i].place : i \in n + 1 .. n + m} = {addr[i] : i \in 1 .. m}
  <2>1. answer \in Seq(Item) /\ addr \in Seq(Places) /\ \A k \in DOMAIN answer : answer[k].type # "A"
    BY <1>2, <1>4
  <2>2. \A k \in DOMAIN addr : Rec(addr[k]).type = "A"
    BY <1>2
  <2>3. Appended(s, n, m)
    BY <1>3, <2>1, <2>2, WithAddressesIs
  <2> QED BY <2>3 DEF Appended
<1>6. answer' = s /\ AtA' = n + 1 .. n + m
  BY <1>3, <1>5 DEF AtA
<1>7. Given' = {addr[i] : i \in 1 .. m}
  BY <1>5, <1>6 DEF Given
<1>8. AtOther' = 1 .. n
  <2>1. AtOther' = (1 .. n + m) \ (n + 1 .. n + m)
    BY <1>5, <1>6 DEF AtOther
  <2>2. (1 .. n + m) \ (n + 1 .. n + m) = 1 .. n
    BY <1>5
  <2> QED BY <2>1, <2>2
<1>9. Listed(s, 1 .. n, W)
  <2>1. \A i \in 1 .. n : s[i].place = answer[i].place
    BY <1>5
  <2>2. {s[i].place : i \in 1 .. n} = {answer[i].place : i \in 1 .. n}
    BY <2>1
  <2> QED BY <1>4, <1>5, <2>1, <2>2 DEF Listed
<1>10. Cardinality(Given') = m /\ Given' \subseteq A
  <2>1. {addr[i] : i \in 1 .. m} \subseteq A
    BY <1>4, <1>5 DEF ToSet
  <2>2. \A i, j \in 1 .. m : i # j => addr[i] # addr[j]
    BY <1>4, <1>5
  <2>3. PICK f : f = addr
    OBVIOUS
  <2>4. m \in Nat /\ DOMAIN f = 1 .. m /\ \A i, j \in 1 .. m : i # j => f[i] # f[j]
    BY <1>5, <2>2, <2>3
  <2>5. Cardinality({f[i] : i \in 1 .. m}) = m
    BY <2>4, CountImage
  <2>6. {f[i] : i \in 1 .. m} = {addr[i] : i \in 1 .. m}
    BY <2>3
  <2> QED BY <1>7, <2>1, <2>5, <2>6
<1>11. \A i, j \in AtA' : i # j => answer'[i].place # answer'[j].place
  <2> SUFFICES ASSUME NEW i \in n + 1 .. n + m, NEW j \in n + 1 .. n + m, i # j
               PROVE s[i].place # s[j].place
    BY <1>6
  <2>1. PICK k, l : k = i - n /\ l = j - n
    OBVIOUS
  <2>2. k \in 1 .. m /\ l \in 1 .. m /\ k # l
    BY <1>5, <2>1
  <2>3. s[i].place = addr[k] /\ s[j].place = addr[l]
    BY <1>5, <2>1
  <2>4. addr[k] # addr[l]
    BY <1>4, <1>5, <2>2
  <2> QED BY <2>3, <2>4
<1>12. Zones' = Zones /\ Ours' = Ours /\ Sources' = Sources /\ Source' = S /\ WantedOf(S)' = W /\ AddressesOf(S)' = A
  BY <1>2, <1>3, SameAnswers
<1>13. AnswerOf(W, A)'
  <2>1. Cardinality(Given') = IF Cardinality(A) < MaxAddr THEN Cardinality(A) ELSE MaxAddr
    BY <1>2, <1>3, <1>4, <1>10 DEF Smaller
  <2>2. Listed(answer', AtOther', W)
    BY <1>6, <1>8, <1>9
  <2> QED BY <1>2, <1>4, <1>10, <1>11, <1>12, <2>1, <2>2 DEF AnswerOf
<1>14. AnswerIs'
  BY <1>12, <1>13 DEF AnswerIs
<1>15. \A k \in DOMAIN answer' : answer'[k].owner = q
  <2>1. \A k \in 1 .. n + m : k \in 1 .. n \/ k \in n + 1 .. n + m
    BY <1>5
  <2> QED BY <1>2, <1>5, <1>6, <2>1
<1> QED BY <1>14, <1>15

\* The addresses written, and the step to the wildcard above keeps the invariant.
LEMMA AnswerEndRight == ASSUME OwnInv, RightInv, AnswerEnd PROVE RightInv'
<1> SUFFICES ASSUME Healthy' PROVE RightInv'
  BY DEF RightInv
<1>1. /\ UNCHANGED <<db, now, loc, q, qtype, aa, control, flagauthoritative, flagfound, flaggavesoa>>
      /\ pc = "answer" /\ Ended(wild # q) /\ answer' = WithAddresses
  BY DEF AnswerEnd, asked
<1>2. Healthy
  BY <1>1, SameAnswers
<1>3. PICK S : S = Shown(wild, wild # q)
  OBVIOUS
<1>4. /\ AnsweringIs(S) /\ ZoneIs /\ Zones # {} /\ Ours /\ (flagfound <=> S # {})
      /\ q \in Name /\ wild \in Name /\ wild \in Above[q] /\ control \in Above[wild]
      /\ S = {} /\ (wild = control \/ Parent[wild] = "none") => Sources = {}
      /\ S = {} /\ Parent[wild] # "none" => Sources \subseteq Above[Parent[wild]]
      /\ S = {} => answer = <<>> /\ addr = <<>>
  BY <1>1, <1>2, <1>3, AnswerEnded
<1>5. ZoneIs'
  BY <1>1, <1>4, ZoneSame
<1>6. S = {} => answer' = <<>>
  <2>1. ASSUME S = {} PROVE answer' = <<>>
    <3>1. answer = <<>> /\ Len(addr) = 0
      BY <1>4, <2>1
    <3>2. PICK u : u = [i \in 1 .. 0 |-> [RR(q, addr[i]) EXCEPT !.ttl = addrttl]]
      OBVIOUS
    <3>3. u = <<>> /\ <<>> \o <<>> = <<>>
      BY <3>2
    <3> QED BY <1>1, <3>1, <3>2, <3>3 DEF WithAddresses
  <2> QED BY <2>1
<1>7. CASE flagfound \/ wild = control \/ Parent[wild] = "none"
  <2>1. (nx' <=> ~flagfound) /\ Authority
    BY <1>7 DEF AnswerEnd
  <2>2. OrderOK' /\ pc' \in {"soa", "ns", "glue"}
    BY <1>1, <2>1, AuthorityOrder
  <2>3. CASE flagfound
    <3>1. AnswerIs' /\ \A k \in DOMAIN answer' : answer'[k].owner = q
      BY <1>1, <1>2, <2>1, <2>3, AnswerWritten
    <3> QED BY <1>1, <1>5, <2>2, <3>1 DEF RightInv, ControlIs
  <2>4. CASE ~flagfound
    <3>1. answer' = <<>> /\ Sources = {} /\ nx' /\ aa'
      BY <1>1, <1>4, <1>6, <1>7, <2>1, <2>4 DEF AnsweringIs
    <3>2. Zones' = Zones /\ Ours' = Ours /\ Sources' = Sources
      BY <1>1, SameAnswers
    <3>3. AnswerIs'
      BY <1>4, <3>1, <3>2 DEF AnswerIs, AnswerOf
    <3>4. \A k \in DOMAIN answer' : answer'[k].owner = q'
      BY <3>1
    <3> QED BY <1>5, <2>2, <3>3, <3>4 DEF RightInv, ControlIs
  <2> QED BY <2>3, <2>4
<1>8. CASE ~(flagfound \/ wild = control \/ Parent[wild] = "none")
  <2>1. PICK d : d = Parent[wild]
    OBVIOUS
  <2>2. /\ S = {} /\ wild' = d /\ rest' = Of(db, d) /\ addr' = <<>> /\ addrnum' = 0 /\ UNCHANGED nx /\ pc' = "answer"
        /\ answer' = <<>>
    BY <1>1, <1>4, <1>6, <1>8, <2>1 DEF AnswerEnd, Search
  <2>3. rest' = Of(db, d)'
    BY <1>1, <2>2
  <2>4. PICK w : w = (wild # q)'
    OBVIOUS
  <2>5. Seen(d, w)' = {} /\ Ordered(d)'
    BY <2>3 DEF Seen, Shown, Ordered
  <2>6. OrderOK'
    BY <2>2, <2>5 DEF OrderOK, Where
  <2>7. AnsweringIs({})'
    <3>1. Sources' \subseteq Above[wild']
      BY <1>1, <1>4, <1>8, <2>1, <2>2, SameAnswers
    <3>2. OfType({}, "SOA")' = {} /\ WantedOf({})' = {} /\ AddressesOf({})' = {} /\ OfType({}, "SOA") = {}
      BY DEF OfType, WantedOf, AddressesOf
    <3>3. Listed(answer, DOMAIN answer, WantedOf({}))'
      BY <2>2, <3>2 DEF Listed
    <3>4. ToSet(<<>>) = {} /\ DOMAIN <<>> = {} /\ Cardinality({}) = 0
      BY FS_EmptySet DEF ToSet
    <3>5. flagauthoritative /\ aa /\ ~nx /\ ~flagfound /\ ~flaggavesoa
      BY <1>4, <1>8, <2>2, <3>2 DEF AnsweringIs
    <3> QED BY <1>1, <2>2, <3>1, <3>2, <3>3, <3>4, <3>5 DEF AnsweringIs
  <2>8. AnsweringIs(Seen(wild, wild # q))'
    BY <2>2, <2>4, <2>5, <2>7
  <2>9. \A k \in DOMAIN answer' : answer'[k].owner = q'
    BY <2>2
  <2> QED BY <1>5, <2>2, <2>6, <2>8, <2>9 DEF RightInv, ControlIs
<1> QED BY <1>7, <1>8

-----------------------------------------------------------------------------
(* The other sections keep the answer, and search in order.                *)

\* A turn of a search for records that are no wildcards.
LEMMA PlainTurn ==
  ASSUME OwnInv, RightInv, Frame, pc \in {"soa", "ns", "addresses"}, pc' = pc, FindNext(FALSE), ~Ended(FALSE),
         Where' = Where, Healthy
  PROVE OrderOK'
<1>1. PICK d : d = Where
  OBVIOUS
<1>2. UNCHANGED <<db, now, loc>> /\ Busy /\ TypeOK
  BY DEF Frame, asked, Busy, OwnInv
<1>3. Ordered(d)
  BY <1>1, <1>2 DEF RightInv, OrderOK
<1>4. PICK i : i = Stop(FALSE)
  OBVIOUS
<1>5. Ordered(d)'
  BY <1>2, <1>3, <1>4, TurnIs
<1> QED BY <1>1, <1>5 DEF OrderOK

\* A record of the zone looked at for its SOA keeps the invariant.
LEMMA SoaRecordRight == ASSUME OwnInv, RightInv, SoaRecord PROVE RightInv'
<1>1. Frame /\ pc = "soa" /\ pc' \in {"soa", "glue"} /\ Took(FALSE) /\ FindNext(FALSE)
      /\ UNCHANGED <<control, flagauthoritative, answer, aa, nx>>
  BY DEF SoaRecord, Frame
<1>2. pc' = "glue" => OrderOK'
  BY DEF OrderOK
<1>3. pc' = "soa" /\ Healthy => OrderOK'
  <2>1. pc' = "soa" => Where' = Where /\ ~Ended(FALSE)
    BY <1>1 DEF Where, Took, Ended
  <2> QED BY <1>1, <2>1, PlainTurn
<1> QED BY <1>1, <1>2, <1>3, LaterRight

\* A record of the zone looked at for its name servers keeps the invariant.
LEMMA NsRecordRight == ASSUME OwnInv, RightInv, NsRecord PROVE RightInv'
<1>1. Frame /\ pc = "ns" /\ pc' = "ns" /\ Took(FALSE) /\ FindNext(FALSE)
      /\ UNCHANGED <<control, flagauthoritative, answer, aa, nx>>
  BY DEF NsRecord, Frame
<1>2. Where' = Where /\ ~Ended(FALSE)
  BY <1>1 DEF Where, Took, Ended
<1>3. Healthy => OrderOK'
  BY <1>1, <1>2, PlainTurn
<1> QED BY <1>1, <1>3, LaterRight

\* The records mentioned are the same while their targets are looked at.
LEMMA SameTargets ==
  ASSUME UNCHANGED <<db, answer, authority>>
  PROVE /\ \A i : TargetOf(i)' = TargetOf(i) /\ Mentions(i)' = Mentions(i)
        /\ \A n : Targets(n)' = Targets(n)
        /\ Mentioning' = Mentioning
<1>1. Mentioning' = Mentioning
  BY DEF Mentioning
<1>2. \A i : TargetOf(i)' = TargetOf(i) /\ Mentions(i)' = Mentions(i)
  BY <1>1 DEF TargetOf, Mentions, Rec
<1> QED BY <1>1, <1>2 DEF Targets

\* The next name mentioned keeps the invariant.
LEMMA GlueNameRight == ASSUME OwnInv, RightInv, GlueName PROVE RightInv'
<1>1. Frame /\ pc = "glue" /\ bpos' = bpos + 1
      /\ UNCHANGED <<control, flagauthoritative, answer, authority, aa, nx, db>>
  BY DEF GlueName, Frame, asked
<1>2. PICK b : b = bpos + 1
  OBVIOUS
<1>3. pc' = "glue" \/ (pc' = "addresses" /\ rest' = Of(db, TargetOf(b)))
  BY <1>1, <1>2 DEF GlueName, Search
<1>4. PICK d : d = TargetOf(b)
  OBVIOUS
<1>5. Target' = d
  BY <1>1, <1>2, <1>4, SameTargets DEF Target
<1>6. pc' = "addresses" => Where' = d
  BY <1>5 DEF Where
<1>7. pc' = "addresses" => rest' = Of(db, d)'
  BY <1>1, <1>3, <1>4
<1>8. pc' = "addresses" => Ordered(d)'
  BY <1>7 DEF Ordered
<1>9. OrderOK'
  BY <1>3, <1>6, <1>8 DEF OrderOK
<1>10. pc' \notin {"control", "answer"}
  BY <1>3
<1> QED BY <1>1, <1>9, <1>10, LaterRight

\* A record of a name mentioned keeps the invariant.
LEMMA GlueTurnRight == ASSUME OwnInv, RightInv, GlueTurn PROVE RightInv'
<1>1. Frame /\ pc = "addresses" /\ pc' = "addresses" /\ ~Ended(FALSE) /\ FindNext(FALSE)
      /\ UNCHANGED <<control, flagauthoritative, answer, authority, aa, nx, db, bpos>>
  BY DEF GlueTurn, Frame, asked
<1>2. PICK b : b = bpos
  OBVIOUS
<1>3. Target' = Target
  BY <1>1, <1>2, SameTargets DEF Target
<1>4. Where' = Where
  BY <1>1, <1>3 DEF Where
<1>5. Healthy => OrderOK'
  BY <1>1, <1>4, PlainTurn
<1> QED BY <1>1, <1>5, LaterRight

\* doit() keeps the invariant.
LEMMA DoitRight == ASSUME OwnInv, RightInv, Doit PROVE RightInv'
<1>1. ASSUME NEW at, NEW w, Fails(at, w) PROVE RightInv'
  <2>1. pc' = "idle" /\ reply' = "silent"
    BY <1>1 DEF Fails, Silent
  <2> QED BY <2>1, SilentRight
<1>2. ASSUME AuthorityEnd \/ GlueEnd \/ Finish PROVE RightInv'
  <2>1. /\ Frame /\ pc \notin {"control", "answer"} /\ pc' \in {"glue", "idle"}
        /\ UNCHANGED <<control, flagauthoritative, answer, aa, nx>>
    BY <1>2 DEF AuthorityEnd, GlueEnd, Finish, Frame
  <2>2. OrderOK'
    BY <2>1 DEF OrderOK
  <2> QED BY <2>1, <2>2, LaterRight
<1>3. ASSUME NoRoom PROVE RightInv'
  BY <1>3, SilentRight DEF NoRoom, Silent
<1>4. CASE Fails("answer", wild # q) \/ Fails("soa", FALSE) \/ Fails("ns", FALSE)
  BY <1>1, <1>4
<1>5. CASE \/ ControlTurn \/ ControlFound \/ ControlParent \/ AnswerPasses \/ AnswerAddress
           \/ AnswerRecord \/ AnswerEnd
  BY <1>5, ControlTurnRight, ControlFoundRight, ControlParentRight, AnswerPassesRight, AnswerAddressRight,
     AnswerRecordRight, AnswerEndRight
<1>6. CASE \/ SoaRecord \/ NsRecord \/ GlueName \/ GlueTurn
  BY <1>6, SoaRecordRight, NsRecordRight, GlueNameRight, GlueTurnRight
<1> QED BY <1>2, <1>3, <1>4, <1>5, <1>6 DEF Doit

\* Nothing of it changes without a query.
LEMMA SameRight == ASSUME RightInv, UNCHANGED vars PROVE RightInv'
<1> SUFFICES ASSUME Healthy', Busy' PROVE RightInv'
  BY DEF RightInv
<1>1. UNCHANGED <<db, now, loc, q, qtype, control, flagauthoritative, answer, aa, nx, pc, reply,
                  flagns, flagfound, flaggavesoa, rest, wild, bpos, authority, addr, addrnum>>
  BY DEF vars, asked, work
<1>2. Healthy /\ Busy
  BY <1>1, SameAnswers DEF Busy
<1>3. ZoneIs' = ZoneIs /\ (AnswerIs => AnswerIs')
  BY <1>1, ZoneSame, AnswerSame
<1>4. OrderOK'
  <2>1. PICK d : d = Where
    OBVIOUS
  <2>2. Where' = Where
    <3>1. PICK b : b = bpos
      OBVIOUS
    <3>2. Target' = Target
      BY <1>1, <3>1, SameTargets DEF Target
    <3> QED BY <1>1, <3>2 DEF Where
  <2>3. Ordered(d)' = Ordered(d)
    BY <1>1 DEF Ordered, Of
  <2> QED BY <1>1, <1>2, <2>1, <2>2, <2>3 DEF RightInv, OrderOK
<1>5. ControlIs'
  <2>1. ControlIs' = ControlIs
    BY <1>1 DEF ControlIs, Zones, Seen, OfType, Shown, Of, Visible, Alive, Rec
  <2> QED BY <1>2, <2>1 DEF RightInv
<1>6. pc = "answer" => AnsweringIs(Seen(wild, wild # q))'
  <2>1. PICK d, w, S : d = wild /\ w = (wild # q) /\ S = Seen(d, w)
    OBVIOUS
  <2>2. Seen(d, w)' = S
    BY <1>1, <2>1 DEF Seen, Shown, Of, Visible, Alive, Rec
  <2>3. Seen(wild, wild # q)' = S
    BY <1>1, <2>1, <2>2
  <2>4. AnsweringIs(S) => AnsweringIs(S)'
    BY <1>1, SameAnswers DEF AnsweringIs
  <2> QED BY <1>2, <2>1, <2>3, <2>4 DEF RightInv
<1> QED BY <1>1, <1>2, <1>3, <1>4, <1>5, <1>6 DEF RightInv

\* RightInv holds in every state.
THEOREM TdLookupAnswerInv == Spec => []RightInv
<1>1. Init => RightInv
  BY DEF Init, RightInv, Busy
<1>2. OwnInv /\ RightInv /\ [Next]_vars => RightInv'
  <2> SUFFICES ASSUME OwnInv, RightInv, [Next]_vars PROVE RightInv'
    OBVIOUS
  <2>1. CASE Return \/ Publish \/ Tick \/ ClockSetBack
    <3>1. pc' = "idle" /\ reply' = "none"
      BY <2>1 DEF Return, Publish, Tick, ClockSetBack
    <3> QED BY <3>1, SilentRight
  <2> QED BY <2>1, DoitRight, RespondRight, SameRight DEF Next
<1> QED BY <1>1, <1>2, TdLookupOwn, PTL DEF Spec

\* The answer section, aa and NXDOMAIN are what the visible records of the
\* name, or of the nearest wildcard inside the zone, say, for every tree of
\* names, every database and every limit (tdlookup.c:128-207).
THEOREM TdLookupAnswerRight == Spec => []AnswerRight
<1>1. RightInv => AnswerRight
  BY DEF RightInv, AnswerRight, Sent, Busy
<1> QED BY <1>1, TdLookupAnswerInv, PTL

-----------------------------------------------------------------------------
(* The sections after the answer.                                          *)

\* Until the name servers are looked at the last section is empty; of the
\* zone's records what was seen is written.
AuthorityIs ==
  /\ pc \in {"control", "answer", "soa", "ns"} => additional = <<>> /\ bpos = 0
  /\ pc = "soa" =>
       flagauthoritative /\ answer = <<>> /\ authority = <<>> /\ OfType(Seen(control, FALSE), "SOA") = {}
  /\ pc = "ns" => Due = Servers /\ Listed(authority, DOMAIN authority, OfType(Seen(control, FALSE), "NS"))
  /\ pc \in {"glue", "addresses"} => Listed(authority, DOMAIN authority, Due)
  /\ \A i \in DOMAIN authority : authority[i].type # "A"

\* A sequence, of whatever records.
IsSection(s) == \E D : s \in Seq(D)

\* The targets that were looked at have their addresses.
Done(t) == Listed(additional, GivenFor(t), AddressesDue(t))
\* The names that were looked at are the targets of the records before bpos;
\* the last one's addresses are those seen of it so far.
GlueIs ==
  pc \in {"glue", "addresses"} =>
    /\ bpos <= Len(Mentioning)
    /\ IsSection(additional)
    /\ \A i \in DOMAIN additional : additional[i].type = "A" /\ additional[i].owner \in Targets(bpos)
    /\ \A t \in Targets(bpos) : (pc = "addresses" /\ t = Target) \/ Done(t)
    /\ pc = "addresses" =>
         /\ Target \in Targets(bpos)
         /\ AddressesDue(Target) = OfType(Shown(Target, FALSE), "A")
         /\ Listed(additional, GivenFor(Target), OfType(Seen(Target, FALSE), "A"))

\* The invariant behind SectionsRight, again where every record can be read.
SectionInv ==
  Healthy /\ Busy =>
    /\ pc # "idle" => AuthorityIs /\ GlueIs
    /\ pc = "idle" => SectionsRight

\* Where nothing is being built or sent there is nothing to show.
LEMMA SilentSection == ASSUME pc' = "idle", reply' # "sent" PROVE SectionInv'
BY DEF SectionInv, Busy

\* Nothing is listed nowhere.
LEMMA ListedEmpty == \A s : Listed(s, {}, {})
BY DEF Listed

\* The answer and what follows from it stay as they are.
LEMMA SameDue ==
  ASSUME UNCHANGED <<db, now, loc, q, qtype, answer>>
  PROVE /\ Due' = Due /\ Servers' = Servers /\ Soas' = Soas /\ Ours' = Ours /\ Zone' = Zone /\ Healthy' = Healthy
        /\ \A t : AddressesDue(t)' = AddressesDue(t) /\ Shown(t, FALSE)' = Shown(t, FALSE)
        /\ \A S, t : OfType(S, t)' = OfType(S, t)
<1>1. /\ Servers' = Servers /\ Soas' = Soas /\ Ours' = Ours /\ Zone' = Zone /\ Healthy' = Healthy
      /\ \A t : Shown(t, FALSE)' = Shown(t, FALSE)
      /\ \A S, t : OfType(S, t)' = OfType(S, t)
  BY SameAnswers
<1>2. Answered' = Answered /\ AtA' = AtA
  BY <1>1 DEF Answered, AtA
<1>3. Due' = Due
  BY <1>1, <1>2 DEF Due
<1>4. \A t : AddressesDue(t)' = AddressesDue(t)
  <2> TAKE t
  <2>1. PICK S : S = Shown(t, FALSE)
    OBVIOUS
  <2>2. OfType(Shown(t, FALSE), "A")' = OfType(S, "A")
    BY <1>1, <2>1
  <2> QED BY <1>2, <2>1, <2>2 DEF AddressesDue
<1> QED BY <1>1, <1>3, <1>4

\* The authority section begins.
LEMMA AuthorityStart ==
  ASSUME ZoneIs, q \in Name, UNCHANGED <<db, now, loc, q, qtype, control, flagauthoritative>>, Authority,
         authority' = <<>>, additional' = <<>>, bpos' = 0, \A k \in DOMAIN answer' : answer'[k].owner = q,
         NEW D, answer' \in Seq(D)
  PROVE AuthorityIs' /\ GlueIs'
<1>1. Zone' = control /\ (Ours' <=> flagauthoritative)
  <2>1. Zone = control
    BY ZoneIsControl DEF ZoneIs
  <2>2. Ours <=> flagauthoritative
    BY <2>1 DEF ZoneIs, Ours
  <2> QED BY <2>1, <2>2, SameAnswers
<1>2. /\ pc' \in {"soa", "ns", "glue"} /\ DOMAIN authority' = {}
      /\ pc' \in {"soa", "ns"} => rest' = Of(db, control)
      /\ pc' = "soa" => flagauthoritative' /\ answer' = <<>>
      /\ pc' # "soa" => ~(flagauthoritative /\ answer' = <<>>) /\ (pc' = "ns" <=> want(control, "NS")')
  BY DEF Authority, Search
<1>3. PICK d : d = control
  OBVIOUS
<1>4. pc' \in {"soa", "ns"} => Seen(control, FALSE)' = {}
  <2>1. pc' \in {"soa", "ns"} => rest' = Of(db, d)' /\ control' = d
    BY <1>2, <1>3
  <2>2. pc' \in {"soa", "ns"} => Seen(d, FALSE)' = {}
    BY <2>1 DEF Seen, Shown
  <2> QED BY <1>3, <2>2
<1>5. \A t : OfType({}, t)' = {}
  BY DEF OfType
<1>6. want(control, "NS")' <=> ~Answered'
  <2>1. ToSet(authority') = {} /\ ToSet(additional') = {}
    BY DEF ToSet
  <2>2. want(control, "NS")' <=> \A r \in ToSet(answer') : ~(r.owner = control /\ r.type = "NS")
    BY <2>1 DEF want
  <2>3. ToSet(answer') = {answer'[k] : k \in DOMAIN answer'}
    BY DEF ToSet
  <2>4. want(control, "NS")' <=> \A k \in DOMAIN answer' : ~(answer'[k].owner = control /\ answer'[k].type = "NS")
    BY <2>2, <2>3
  <2> QED BY <1>1, <2>4 DEF Answered
<1>7. pc' = "ns" => Due' = Servers'
  BY <1>1, <1>2, <1>6 DEF Due
<1>8. pc' = "glue" => Due' = {}
  BY <1>1, <1>2, <1>6 DEF Due
<1>9. AuthorityIs'
  <2>1. pc' = "soa" => OfType(Seen(control, FALSE), "SOA")' = {}
    BY <1>4, <1>5
  <2>2. pc' = "ns" => OfType(Seen(control, FALSE), "NS")' = {}
    BY <1>4, <1>5
  <2> QED BY <1>2, <1>7, <1>8, <2>1, <2>2, ListedEmpty DEF AuthorityIs
<1>10. GlueIs'
  <2>1. Targets(0)' = {}
    BY DEF Targets
  <2>2. Mentioning' = answer' /\ 0 <= Len(answer') /\ <<>> \in Seq(D) /\ DOMAIN additional' = {}
    <3>1. answer' \o <<>> = answer'
      BY ConcatEmptySeq
    <3> QED BY <3>1 DEF Mentioning
  <2>3. IsSection(additional')
    BY <2>2 DEF IsSection
  <2> QED BY <1>2, <2>1, <2>2, <2>3 DEF GlueIs
<1> QED BY <1>9, <1>10

\* A new query starts with empty sections.
LEMMA RespondSection ==
  ASSUME NEW client, NEW name, NEW t, Respond(client, name, t)
  PROVE SectionInv'
<1>1. pc' = "control" \/ (pc' = "idle" /\ reply' = "silent")
  BY DEF Respond, Silent
<1>2. additional' = <<>> /\ authority' = <<>> /\ bpos' = 0
  BY DEF Respond
<1>3. CASE pc' = "control"
  BY <1>2, <1>3 DEF SectionInv, AuthorityIs, GlueIs
<1> QED BY <1>1, <1>3, SilentSection

\* Until the answer is written the other sections are empty.
LEMMA BeforeSection ==
  ASSUME pc' \in {"control", "answer"}, additional' = <<>>, authority' = <<>>, bpos' = 0
  PROVE SectionInv'
<1>1. pc' \notin {"soa", "ns", "glue", "addresses", "idle"} /\ DOMAIN authority' = {}
  OBVIOUS
<1>2. AuthorityIs' /\ GlueIs'
  BY <1>1 DEF AuthorityIs, GlueIs
<1> QED BY <1>1, <1>2 DEF SectionInv

\* The search for the zone writes nothing; a referral starts the authority
\* section with all its name servers to come.
LEMMA ControlSection ==
  ASSUME OwnInv, RightInv, SectionInv, ControlTurn \/ ControlParent \/ ControlFound
  PROVE SectionInv'
<1> SUFFICES ASSUME Healthy' PROVE SectionInv'
  BY DEF SectionInv
<1>1. /\ Frame /\ UNCHANGED <<db, now, loc, q, qtype, authority, additional, bpos, answer>>
      /\ pc = "control" /\ Busy
  BY DEF ControlTurn, ControlParent, ControlFound, Frame, asked, Busy
<1>2. Healthy
  BY <1>1, SameAnswers
<1>3. authority = <<>> /\ additional = <<>> /\ bpos = 0
  BY <1>1, <1>2 DEF SectionInv, AuthorityIs, OwnInv, StartOK
<1>4. CASE ControlTurn
  <2>1. pc' = "control"
    BY <1>4 DEF ControlTurn
  <2> QED BY <1>1, <1>3, <2>1, BeforeSection
<1>5. CASE ControlParent
  <2>1. pc' = "control" \/ (pc' = "idle" /\ reply' = "silent")
    BY <1>1, <1>5 DEF ControlParent, Silent
  <2> QED BY <1>1, <1>3, <2>1, BeforeSection, SilentSection
<1>6. CASE ControlFound
  <2>1. /\ UNCHANGED <<control, flagauthoritative>> /\ Ended(FALSE) /\ flagns
        /\ (flagauthoritative => pc' = "answer") /\ (~flagauthoritative => Authority)
    BY <1>6 DEF ControlFound
  <2>2. /\ answer' = <<>> /\ q \in Name
        /\ ZoneIs
    BY <1>1, <1>2, <2>1, ControlEnded DEF ZoneIs, Zones
  <2>3. CASE flagauthoritative
    BY <1>1, <1>3, <2>1, <2>3, BeforeSection
  <2>4. CASE ~flagauthoritative
    <3>1. answer' \in Seq(Item) /\ \A k \in DOMAIN answer' : answer'[k].owner = q
      <4>1. <<>> \in Seq(Item) /\ DOMAIN <<>> = {}
        OBVIOUS
      <4> QED BY <2>2, <4>1
    <3>2. AuthorityIs' /\ GlueIs'
      BY <1>1, <1>3, <2>1, <2>2, <2>4, <3>1, AuthorityStart
    <3>3. pc' # "idle"
      BY <2>1, <2>4 DEF Authority
    <3> QED BY <3>2, <3>3 DEF SectionInv
  <2> QED BY <2>3, <2>4
<1> QED BY <1>4, <1>5, <1>6

\* So does the end of the answer, with the SOA, the name servers or nothing.
LEMMA AnswerSection ==
  ASSUME OwnInv, OwnInv', RightInv, RightInv', SectionInv, AnswerTurn \/ AnswerEnd
  PROVE SectionInv'
<1> SUFFICES ASSUME Healthy' PROVE SectionInv'
  BY DEF SectionInv
<1>1. /\ UNCHANGED <<db, now, loc, q, qtype, authority, additional, bpos, control, flagauthoritative>>
      /\ pc = "answer" /\ Busy
  BY DEF AnswerTurn, AnswerEnd, asked, Busy
<1>2. Healthy
  BY <1>1, SameAnswers
<1>3. authority = <<>> /\ additional = <<>> /\ bpos = 0 /\ ZoneIs /\ q \in Name
  BY <1>1, <1>2 DEF SectionInv, AuthorityIs, OwnInv, StartOK, NamesOK, RightInv
<1>4. pc' = "answer" \/ Authority
  BY <1>1 DEF AnswerTurn, AnswerEnd
<1>5. CASE pc' = "answer"
  BY <1>1, <1>3, <1>5, BeforeSection
<1>6. CASE pc' # "answer"
  <2>1. pc' # "idle" /\ Busy' /\ Authority
    BY <1>4, <1>6 DEF Authority, Busy
  <2>2. answer' \in Seq(Item)' /\ \A k \in DOMAIN answer' : answer'[k].owner = q
    BY <1>1, <2>1 DEF OwnInv, ItemsOK, RightInv
  <2>3. PICK D : D = Item'
    OBVIOUS
  <2>4. AuthorityIs' /\ GlueIs'
    BY <1>1, <1>3, <2>1, <2>2, <2>3, AuthorityStart
  <2> QED BY <2>1, <2>4 DEF SectionInv
<1> QED BY <1>5, <1>6

\* A turn of the loops over the records of the zone.
LEMMA ZoneTurn ==
  ASSUME OwnInv, RightInv, SectionInv, Healthy, Frame, pc \in {"soa", "ns"}, Took(FALSE), FindNext(FALSE),
         UNCHANGED control, NEW i, i = Stop(FALSE), NEW d, d = control
  PROVE /\ i \in Nat /\ i \in Shown(d, FALSE) /\ Seen(d, FALSE) \in SUBSET Nat /\ i \notin Seen(d, FALSE)
        /\ Seen(d, FALSE)' = Seen(d, FALSE) \cup {i}
        /\ (\A j \in Seen(d, FALSE) : j < i) /\ \A j \in Shown(d, FALSE) \ Seen(d, FALSE) : i <= j
        /\ type' = Rec(i).type /\ AuthorityIs /\ ZoneIs /\ AnswerIs
        /\ Zone = d /\ (Ours <=> flagauthoritative) /\ authority \in Seq(Item)
        /\ UNCHANGED <<db, now, loc, q, qtype>>
<1>1. UNCHANGED <<db, now, loc, q, qtype>> /\ Busy /\ TypeOK /\ ~Ended(FALSE) /\ pc # "idle"
  BY DEF Frame, asked, Busy, OwnInv, Took, Ended
<1>2. OrderOK /\ ZoneIs /\ AnswerIs /\ AuthorityIs /\ q \in Name
  BY <1>1 DEF RightInv, SectionInv, OwnInv, NamesOK
<1>3. Ordered(d)
  BY <1>2 DEF OrderOK, Where
<1>4. /\ i \in Places /\ i \in Shown(d, FALSE) /\ i \notin Seen(d, FALSE)
      /\ Seen(d, FALSE)' = Seen(d, FALSE) \cup {i}
      /\ (\A j \in Seen(d, FALSE) : j < i) /\ \A j \in Shown(d, FALSE) \ Seen(d, FALSE) : i <= j
      /\ type' = Rec(i).type
  BY <1>1, <1>3, TurnIs
<1>5. i \in Nat /\ Seen(d, FALSE) \in SUBSET Nat
  BY <1>1, <1>4, ShownTyped DEF Seen
<1>6. Zone = d
  BY <1>2, ZoneIsControl DEF ZoneIs
<1>7. Ours <=> flagauthoritative
  BY <1>2, <1>6 DEF ZoneIs, Ours
<1> QED BY <1>1, <1>2, <1>4, <1>5, <1>6, <1>7, Running

\* The first SOA of the zone that is read is the one that is due.
LEMMA SoaRecordSection == ASSUME OwnInv, RightInv, SectionInv, SoaRecord PROVE SectionInv'
<1> SUFFICES ASSUME Healthy' PROVE SectionInv'
  BY DEF SectionInv
<1>1. /\ Frame /\ UNCHANGED <<db, now, loc, q, qtype, additional, bpos, control, flagauthoritative, answer>>
      /\ pc = "soa" /\ Took(FALSE) /\ FindNext(FALSE)
  BY DEF SoaRecord, Frame, asked
<1>2. Healthy
  BY <1>1, SameAnswers
<1>3. PICK i, d : i = Stop(FALSE) /\ d = control
  OBVIOUS
<1>4. PICK S, U : S = Seen(d, FALSE) /\ U = Shown(d, FALSE)
  OBVIOUS
<1>5. /\ i \in Nat /\ i \in U /\ S \in SUBSET Nat /\ i \notin S /\ Seen(d, FALSE)' = S \cup {i}
      /\ (\A j \in S : j < i) /\ \A j \in U \ S : i <= j
      /\ type' = Rec(i).type /\ AuthorityIs /\ Zone = d /\ (Ours <=> flagauthoritative)
  BY <1>1, <1>2, <1>3, <1>4, ZoneTurn
<1>6. additional' = <<>> /\ bpos' = 0 /\ flagauthoritative' /\ answer' = <<>> /\ authority = <<>>
      /\ OfType(S, "SOA") = {} /\ answer = <<>> /\ Ours
  BY <1>1, <1>3, <1>4, <1>5 DEF AuthorityIs
<1>7. CASE type' # "SOA"
  <2>1. UNCHANGED <<authority, pc>>
    BY <1>7 DEF SoaRecord
  <2>2. OfType(S \cup {i}, "SOA") = {}
    BY <1>5, <1>6, <1>7 DEF OfType
  <2>3. PICK T : T = S \cup {i}
    OBVIOUS
  <2>4. OfType(Seen(d, FALSE), "SOA")' = OfType(T, "SOA")'
    BY <1>5, <2>3
  <2>5. OfType(T, "SOA")' = {}
    BY <1>1, <2>2, <2>3, SameAnswers
  <2>6. OfType(Seen(control, FALSE), "SOA")' = {}
    BY <1>1, <1>3, <2>4, <2>5
  <2>7. AuthorityIs' /\ GlueIs' /\ pc' # "idle"
    <3>1. pc' = "soa" /\ authority' = <<>> /\ DOMAIN authority' = {}
      BY <1>1, <1>6, <2>1
    <3>2. AuthorityIs'
      BY <1>6, <2>6, <3>1 DEF AuthorityIs
    <3>3. GlueIs'
      BY <3>1 DEF GlueIs
    <3> QED BY <3>1, <3>2, <3>3
  <2> QED BY <2>7 DEF SectionInv
<1>8. CASE type' = "SOA"
  <2>1. PICK r : r = RR(control, i)
    OBVIOUS
  <2>2. pc' = "glue" /\ authority' = <<r>>
    <3>1. Append(<<>>, r) = <<r>>
      OBVIOUS
    <3> QED BY <1>3, <1>6, <1>8, <2>1, <3>1 DEF SoaRecord
  <2>3. r.place = i /\ r.type = "SOA"
    BY <1>5, <1>8, <2>1 DEF RR
  <2>4. Soas = OfType(U, "SOA")
    BY <1>4, <1>5 DEF Soas
  <2>5. i \in Soas /\ Soas \in SUBSET Nat /\ \A j \in Soas : i <= j
    <3>1. U \subseteq Nat
      BY <1>4, ShownTyped DEF OwnInv
    <3>2. \A j \in Soas : j \in U \ S
      BY <1>6, <2>4 DEF OfType
    <3> QED BY <1>5, <1>8, <2>4, <3>1, <3>2 DEF OfType
  <2>6. Lowest(Soas) = i
    <3>1. PICK low : low = Lowest(Soas)
      OBVIOUS
    <3>2. low \in Soas /\ low <= i
      BY <2>5, <3>1, LowestIs
    <3>3. low \in Nat /\ i <= low
      BY <2>5, <3>2
    <3> QED BY <1>5, <3>1, <3>2, <3>3
  <2>7. Due' = {i}
    <3>1. Due = {i}
      BY <1>6, <2>6 DEF Due
    <3> QED BY <1>1, <3>1, SameDue
  <2>8. Listed(<<r>>, DOMAIN <<r>>, {i})
    <3>1. DOMAIN <<r>> = {1} /\ <<r>>[1] = r
      OBVIOUS
    <3> QED BY <2>3, <3>1 DEF Listed
  <2>9. \A k \in DOMAIN authority' : authority'[k].type # "A"
    BY <2>2, <2>3
  <2>10. AuthorityIs'
    BY <2>2, <2>7, <2>8, <2>9 DEF AuthorityIs
  <2>11. GlueIs'
    <3>1. Targets(0)' = {} /\ Len(Mentioning') \in Nat /\ <<>> \in Seq({})
      <4>1. Mentioning' = <<r>>
        <5>1. <<>> \o <<r>> = <<r>>
          OBVIOUS
        <5> QED BY <1>6, <2>2, <5>1 DEF Mentioning
      <4> QED BY <4>1 DEF Targets
    <3>2. IsSection(<<>>)
      BY <3>1 DEF IsSection
    <3> QED BY <1>6, <2>2, <3>1, <3>2 DEF GlueIs
  <2> QED BY <2>2, <2>10, <2>11 DEF SectionInv
<1> QED BY <1>7, <1>8

\* The name servers are written one by one.
LEMMA NsRecordSection == ASSUME OwnInv, RightInv, SectionInv, NsRecord PROVE SectionInv'
<1> SUFFICES ASSUME Healthy' PROVE SectionInv'
  BY DEF SectionInv
<1>1. /\ Frame /\ UNCHANGED <<db, now, loc, q, qtype, additional, bpos, control, flagauthoritative, answer>>
      /\ pc = "ns" /\ pc' = "ns" /\ Took(FALSE) /\ FindNext(FALSE)
  BY DEF NsRecord, Frame, asked
<1>2. Healthy
  BY <1>1, SameAnswers
<1>3. PICK i, d, r : i = Stop(FALSE) /\ d = control /\ r = RR(control, i)
  OBVIOUS
<1>4. PICK S : S = Seen(d, FALSE)
  OBVIOUS
<1>5. /\ i \in Nat /\ S \in SUBSET Nat /\ i \notin S /\ Seen(d, FALSE)' = S \cup {i}
      /\ (\A j \in S : j < i)
      /\ type' = Rec(i).type /\ AuthorityIs /\ authority \in Seq(Item)
  BY <1>1, <1>2, <1>3, <1>4, ZoneTurn
<1>6. /\ additional' = <<>> /\ bpos' = 0 /\ Due = Servers /\ Listed(authority, DOMAIN authority, OfType(S, "NS"))
      /\ \A k \in DOMAIN authority : authority[k].type # "A"
  BY <1>1, <1>3, <1>4, <1>5 DEF AuthorityIs
<1>7. Due' = Servers'
  BY <1>1, <1>6, SameDue
<1>8. r.place = i /\ r.type = Rec(i).type
  BY <1>3 DEF RR
<1>9. PICK T : T = S \cup {i}
  OBVIOUS
<1>10. OfType(Seen(control, FALSE), "NS")' = OfType(T, "NS")
  <2>1. OfType(Seen(control, FALSE), "NS")' = OfType(T, "NS")'
    BY <1>1, <1>3, <1>5, <1>9
  <2> QED BY <1>1, <2>1, SameAnswers
<1>11. Listed(authority', DOMAIN authority', OfType(T, "NS")) /\ \A k \in DOMAIN authority' : authority'[k].type # "A"
  <2>1. CASE type' # "NS"
    <3>1. authority' = authority
      BY <2>1 DEF NsRecord
    <3>2. OfType(T, "NS") = OfType(S, "NS")
      BY <1>5, <1>9, <2>1 DEF OfType
    <3> QED BY <1>6, <3>1, <3>2
  <2>2. CASE type' = "NS"
    <3>1. authority' = Append(authority, r)
      BY <1>3, <2>2 DEF NsRecord
    <3>2. OfType(T, "NS") = OfType(S, "NS") \cup {i}
      BY <1>5, <1>9, <2>2 DEF OfType
    <3>3. OfType(S, "NS") \subseteq S
      BY DEF OfType
    <3>4. Listed(Append(authority, r), DOMAIN Append(authority, r), OfType(S, "NS") \cup {r.place})
      BY <1>5, <1>6, <1>8, <3>3, ListedMore
    <3>5. \A k \in DOMAIN Append(authority, r) :
            (k \in DOMAIN authority /\ Append(authority, r)[k] = authority[k]) \/ Append(authority, r)[k] = r
      BY <1>5
    <3> QED BY <1>5, <1>6, <1>8, <2>2, <3>1, <3>2, <3>4, <3>5
  <2> QED BY <2>1, <2>2
<1>12. AuthorityIs'
  BY <1>1, <1>6, <1>7, <1>10, <1>11 DEF AuthorityIs
<1>13. GlueIs'
  BY <1>1 DEF GlueIs
<1> QED BY <1>1, <1>12, <1>13 DEF SectionInv

\* When the search ends all are written; an SOA was there to be found.
LEMMA AuthorityEndSection == ASSUME OwnInv, RightInv, SectionInv, AuthorityEnd PROVE SectionInv'
<1> SUFFICES ASSUME Healthy' PROVE SectionInv'
  BY DEF SectionInv
<1>1. /\ Frame /\ UNCHANGED <<db, now, loc, q, qtype, additional, authority, bpos, control, flagauthoritative, answer>>
      /\ pc \in {"soa", "ns"} /\ pc' = "glue" /\ Ended(FALSE) /\ Busy
  BY DEF AuthorityEnd, Frame, asked, Busy
<1>2. Healthy
  BY <1>1, SameAnswers
<1>3. OrderOK /\ ZoneIs /\ AuthorityIs /\ q \in Name
  BY <1>1, <1>2 DEF RightInv, SectionInv, OwnInv, NamesOK
<1>4. Seen(control, FALSE) = Shown(control, FALSE)
  <2>1. Ordered(control)
    BY <1>1, <1>3 DEF OrderOK, Where
  <2> QED BY <1>1, <2>1, EndIs
<1>5. Zone = control
  BY <1>3, ZoneIsControl DEF ZoneIs
<1>6. pc = "ns"
  BY <1>1, <1>3, <1>4 DEF AuthorityIs, ZoneIs
<1>7. /\ additional' = <<>> /\ bpos' = 0 /\ Listed(authority, DOMAIN authority, Due)
      /\ \A k \in DOMAIN authority : authority[k].type # "A"
  BY <1>1, <1>3, <1>4, <1>5, <1>6 DEF AuthorityIs, Servers
<1>8. AuthorityIs'
  BY <1>1, <1>7, SameDue DEF AuthorityIs
<1>9. GlueIs'
  <2>1. Targets(0)' = {}
    BY DEF Targets
  <2>2. IsSection(<<>>)
    <3>1. <<>> \in Seq({})
      OBVIOUS
    <3> QED BY <3>1 DEF IsSection
  <2>3. Len(Mentioning') \in Nat
    <3>1. answer \in Seq(Item) /\ authority \in Seq(Item)
      BY <1>1 DEF OwnInv, ItemsOK
    <3>2. PICK s : s = answer \o authority
      OBVIOUS
    <3>3. Len(s) \in Nat
      BY <3>1, <3>2
    <3> QED BY <1>1, <3>2, <3>3 DEF Mentioning
  <2> QED BY <1>1, <1>7, <2>1, <2>2, <2>3 DEF GlueIs
<1> QED BY <1>1, <1>8, <1>9 DEF SectionInv

-----------------------------------------------------------------------------
(* The addresses of the names mentioned.                                   *)

\* What does not change while they are looked up.
LEMMA GlueFrame ==
  ASSUME OwnInv, RightInv, SectionInv, Healthy, Frame, pc \in {"glue", "addresses"},
         UNCHANGED <<answer, authority>>
  PROVE /\ AuthorityIs /\ GlueIs /\ answer \in Seq(Item) /\ authority \in Seq(Item)
        /\ Len(Mentioning) \in Nat /\ bpos \in Nat /\ \A k \in DOMAIN answer : answer[k].owner = q
        /\ pc' \in {"glue", "addresses"} => AuthorityIs'
        /\ Mentioning' = Mentioning /\ (\A n : Targets(n)' = Targets(n)) /\ \A t : AddressesDue(t)' = AddressesDue(t)
        /\ \A i : TargetOf(i)' = TargetOf(i)
        /\ UNCHANGED <<db, now, loc, q, qtype>>
<1>1. UNCHANGED <<db, now, loc, q, qtype>> /\ pc # "idle" /\ Busy
  BY DEF Frame, asked, Busy
<1>2. AuthorityIs /\ GlueIs /\ \A k \in DOMAIN answer : answer[k].owner = q
  BY <1>1 DEF SectionInv, RightInv
<1>3. answer \in Seq(Item) /\ authority \in Seq(Item) /\ bpos \in Nat
  BY Running
<1>4. Len(Mentioning) \in Nat
  <2>1. PICK s : s = answer \o authority
    OBVIOUS
  <2>2. Len(s) \in Nat
    BY <1>3, <2>1
  <2> QED BY <2>1, <2>2 DEF Mentioning
<1>5. Due' = Due /\ \A t : AddressesDue(t)' = AddressesDue(t)
  BY <1>1, SameDue
<1>6. pc' \in {"glue", "addresses"} => AuthorityIs'
  BY <1>2, <1>5 DEF AuthorityIs
<1> QED BY <1>1, <1>2, <1>3, <1>4, <1>5, <1>6, SameTargets

\* One record more was looked at.
LEMMA MoreTargets ==
  ASSUME NEW b \in Nat
  PROVE Targets(b + 1) = IF Mentions(b + 1) THEN Targets(b) \cup {TargetOf(b + 1)} ELSE Targets(b)
<1>1. 1 .. b + 1 = (1 .. b) \cup {b + 1}
  OBVIOUS
<1> QED BY <1>1 DEF Targets

\* A name not yet looked at has none of its addresses in the section.
LEMMA GlueNameSection == ASSUME OwnInv, RightInv, SectionInv, GlueName PROVE SectionInv'
<1> SUFFICES ASSUME Healthy' PROVE SectionInv'
  BY DEF SectionInv
<1>1. /\ Frame /\ UNCHANGED <<additional, authority, answer>>
      /\ pc = "glue" /\ bpos' = bpos + 1 /\ bpos < Len(Mentioning) /\ pc' \in {"glue", "addresses"}
  BY DEF GlueName, Frame
<1>2. Healthy
  <2>1. UNCHANGED <<db, now, loc, q, qtype>>
    BY <1>1 DEF Frame, asked
  <2> QED BY <2>1, SameAnswers
<1>3. /\ AuthorityIs /\ GlueIs /\ Len(Mentioning) \in Nat /\ bpos \in Nat
      /\ \A k \in DOMAIN answer : answer[k].owner = q
      /\ AuthorityIs' /\ Mentioning' = Mentioning
      /\ (\A n : Targets(n)' = Targets(n)) /\ (\A s : AddressesDue(s)' = AddressesDue(s))
      /\ (\A i : TargetOf(i)' = TargetOf(i)) /\ UNCHANGED <<db, now, loc, q, qtype>>
  BY <1>1, <1>2, GlueFrame
<1>4. PICK b, t : b = bpos /\ t = TargetOf(b + 1)
  OBVIOUS
<1>5. /\ IsSection(additional) /\ \A s \in Targets(b) : Done(s)
      /\ \A i \in DOMAIN additional : additional[i].type = "A" /\ additional[i].owner \in Targets(b)
      /\ \A i \in DOMAIN authority : authority[i].type # "A"
  BY <1>1, <1>3, <1>4 DEF GlueIs, AuthorityIs
<1>6. Targets(b + 1) = IF Mentions(b + 1) THEN Targets(b) \cup {t} ELSE Targets(b)
  BY <1>3, <1>4, MoreTargets
<1>7. (\A s : Done(s)' = Done(s)) /\ \A s : GivenFor(s)' = GivenFor(s)
  BY <1>1, <1>3 DEF Done, GivenFor
<1>8. t \notin Targets(b) => GivenFor(t) = {}
  BY <1>5 DEF GivenFor
<1>9. /\ Targets(bpos)' = Targets(b + 1) /\ bpos' <= Len(Mentioning') /\ Target' = t
      /\ \A i \in DOMAIN additional' : additional'[i].type = "A" /\ additional'[i].owner \in Targets(b + 1)
  <2>1. PICK c : c = b + 1
    OBVIOUS
  <2>2. bpos' = c /\ Targets(c)' = Targets(c) /\ TargetOf(c)' = t /\ bpos' <= Len(Mentioning')
    BY <1>1, <1>3, <1>4, <2>1
  <2>3. Targets(b) \subseteq Targets(b + 1)
    BY <1>6
  <2> QED BY <1>1, <1>5, <2>1, <2>2, <2>3 DEF Target
<1>10. CASE ~Mentions(b + 1)
  <2>1. pc' = "glue"
    BY <1>1, <1>4, <1>10 DEF GlueName
  <2>2. \A s \in Targets(b + 1) : Done(s)'
    BY <1>5, <1>6, <1>7, <1>10
  <2>3. GlueIs'
    BY <1>1, <1>5, <1>9, <2>1, <2>2 DEF GlueIs
  <2> QED BY <1>1, <1>3, <2>1, <2>3 DEF SectionInv
<1>11. CASE Mentions(b + 1) /\ want(t, "A")
  <2>1. pc' = "addresses" /\ rest' = Of(db, t)
    BY <1>1, <1>4, <1>11 DEF GlueName, Search
  <2>2. GivenFor(t) = {}
    BY <1>5, <1>11 DEF want, GivenFor, ToSet
  <2>3. AddressesDue(t) = OfType(Shown(t, FALSE), "A")
    <3>1. ~(t = q /\ AtA # {})
      BY <1>3, <1>11 DEF want, AtA, ToSet
    <3> QED BY <3>1 DEF AddressesDue
  <2>4. rest' = Of(db, t)'
    BY <1>3, <2>1
  <2>5. Seen(t, FALSE)' = {}
    BY <2>4 DEF Seen, Shown
  <2>6. OfType(Seen(t, FALSE), "A")' = {}
    BY <2>5 DEF OfType
  <2>7. OfType(Shown(t, FALSE), "A")' = OfType(Shown(t, FALSE), "A")
    <3>1. PICK U : U = Shown(t, FALSE)
      OBVIOUS
    <3>2. Shown(t, FALSE)' = U /\ OfType(U, "A")' = OfType(U, "A")
      BY <1>3, <3>1, SameAnswers
    <3> QED BY <3>1, <3>2
  <2>8. Listed(additional', GivenFor(t)', OfType(Seen(t, FALSE), "A")')
    BY <1>7, <2>2, <2>6, ListedEmpty
  <2>9. \A s \in Targets(b + 1) : s = t \/ Done(s)'
    BY <1>5, <1>6, <1>7
  <2>10. t \in Targets(b + 1)
    BY <1>6, <1>11
  <2>11. AddressesDue(t)' = OfType(Shown(t, FALSE), "A")'
    BY <1>3, <2>3, <2>7
  <2>12. GlueIs'
    BY <1>1, <1>5, <1>9, <2>1, <2>8, <2>9, <2>10, <2>11 DEF GlueIs
  <2> QED BY <1>1, <1>3, <2>1, <2>12 DEF SectionInv
<1>12. CASE Mentions(b + 1) /\ ~want(t, "A")
  <2>1. pc' = "glue"
    BY <1>1, <1>4, <1>12 DEF GlueName
  <2>2. t \in Targets(b) \/ (GivenFor(t) = {} /\ AddressesDue(t) = {})
    <3>1. ASSUME t \notin Targets(b) PROVE AddressesDue(t) = {}
      <4>1. PICK r \in ToSet(answer) \cup ToSet(authority) \cup ToSet(additional) : r.owner = t /\ r.type = "A"
        BY <1>12 DEF want
      <4>2. r \notin ToSet(authority)
        BY <1>5, <4>1 DEF ToSet
      <4>3. r \notin ToSet(additional)
        BY <1>5, <3>1, <4>1 DEF ToSet
      <4>4. PICK k \in DOMAIN answer : answer[k] = r
        BY <4>1, <4>2, <4>3 DEF ToSet
      <4> QED BY <1>3, <4>1, <4>4 DEF AddressesDue, AtA
    <3> QED BY <1>8, <3>1
  <2>3. Done(t)
    BY <1>5, <2>2, ListedEmpty DEF Done
  <2>4. \A s \in Targets(b + 1) : Done(s)'
    BY <1>5, <1>6, <1>7, <1>12, <2>3
  <2>5. GlueIs'
    BY <1>1, <1>5, <1>9, <2>1, <2>4 DEF GlueIs
  <2> QED BY <1>1, <1>3, <2>1, <2>5 DEF SectionInv
<1> QED BY <1>10, <1>11, <1>12

\* One record more for a name, after those that were given for it.
LEMMA ListedMoreAt ==
  ASSUME NEW D, NEW s \in Seq(D), NEW I \in SUBSET DOMAIN s, NEW r, NEW S \in SUBSET Nat, r.place \in Nat,
         Listed(s, I, S), \A j \in S : j < r.place
  PROVE Listed(Append(s, r), I \cup {Len(s) + 1}, S \cup {r.place})
<1> DEFINE n == Len(s)
           u == Append(s, r)
<1>1. n \in Nat /\ DOMAIN s = 1 .. n /\ u[n + 1] = r /\ \A i \in 1 .. n : u[i] = s[i]
  OBVIOUS
<1> HIDE DEF n, u
<1>2. \A i \in I : i \in 1 .. n /\ u[i] = s[i] /\ s[i].place \in S
  BY <1>1 DEF Listed
<1>3. \A i, j \in I \cup {n + 1} : i < j => u[i].place < u[j].place
  <2> TAKE i \in I \cup {n + 1}, j \in I \cup {n + 1}
  <2>1. CASE i \in I /\ j \in I
    BY <1>2, <2>1 DEF Listed
  <2>2. CASE i \in I /\ j = n + 1
    BY <1>1, <1>2, <2>2
  <2>3. CASE i = n + 1
    <3>1. ~(i < j)
      BY <1>1, <1>2, <2>3
    <3> QED BY <3>1
  <2> QED BY <2>1, <2>2, <2>3
<1>4. {u[i].place : i \in I \cup {n + 1}} = S \cup {r.place}
  <2>1. {u[i].place : i \in I \cup {n + 1}} = {u[i].place : i \in I} \cup {u[n + 1].place}
    OBVIOUS
  <2>2. {u[i].place : i \in I} = {s[i].place : i \in I}
    BY <1>2
  <2> QED BY <1>1, <2>1, <2>2 DEF Listed
<1>5. Listed(u, I \cup {n + 1}, S \cup {r.place})
  BY <1>3, <1>4 DEF Listed
<1> QED BY <1>5 DEF n, u

\* A record of another name does not count for this one.
LEMMA ListedOther ==
  ASSUME NEW D, NEW s \in Seq(D), NEW I \in SUBSET DOMAIN s, NEW r, NEW S
  PROVE Listed(Append(s, r), I, S) <=> Listed(s, I, S)
<1>1. PICK u : u = Append(s, r)
  OBVIOUS
<1>2. \A i \in I : u[i] = s[i]
  BY <1>1
<1>3. {u[i].place : i \in I} = {s[i].place : i \in I}
  BY <1>2
<1> QED BY <1>1, <1>2, <1>3 DEF Listed

\* Its addresses are written one by one.
LEMMA GlueTurnSection == ASSUME OwnInv, RightInv, SectionInv, GlueTurn PROVE SectionInv'
<1> SUFFICES ASSUME Healthy' PROVE SectionInv'
  BY DEF SectionInv
<1>1. /\ Frame /\ UNCHANGED <<authority, answer, bpos>>
      /\ pc = "addresses" /\ pc' = "addresses" /\ ~Ended(FALSE) /\ FindNext(FALSE)
  BY DEF GlueTurn, Frame
<1>2. Healthy
  <2>1. UNCHANGED <<db, now, loc, q, qtype>>
    BY <1>1 DEF Frame, asked
  <2> QED BY <2>1, SameAnswers
<1>3. /\ AuthorityIs' /\ GlueIs /\ Len(Mentioning) \in Nat /\ bpos \in Nat
      /\ Mentioning' = Mentioning
      /\ (\A n : Targets(n)' = Targets(n)) /\ (\A s : AddressesDue(s)' = AddressesDue(s))
      /\ (\A k : TargetOf(k)' = TargetOf(k)) /\ UNCHANGED <<db, now, loc, q, qtype>>
  BY <1>1, <1>2, GlueFrame
<1>4. PICK b, t, i, r : b = bpos /\ t = Target /\ i = Stop(FALSE) /\ r = RR(t, i)
  OBVIOUS
<1>5. PICK S, U : S = Seen(t, FALSE) /\ U = Shown(t, FALSE)
  OBVIOUS
<1>6. TypeOK /\ Ordered(t)
  <2>1. OrderOK
    BY <1>1, <1>2 DEF RightInv, Busy
  <2> QED BY <1>1, <1>4, <2>1 DEF OrderOK, Where, OwnInv
<1>7. /\ Took(FALSE) /\ i \in Places /\ i \notin S /\ Seen(t, FALSE)' = S \cup {i}
      /\ (\A j \in S : j < i) /\ type' = Rec(i).type
  <2>1. FALSE \in BOOLEAN
    OBVIOUS
  <2> QED BY <1>1, <1>2, <1>3, <1>4, <1>5, <1>6, <2>1, TurnIs
<1>8. i \in Nat /\ S \in SUBSET Nat
  BY <1>5, <1>6, <1>7, DbTyped, ShownTyped DEF Seen
<1>9. PICK D : additional \in Seq(D)
  BY <1>1, <1>3 DEF GlueIs, IsSection
<1>10. /\ b <= Len(Mentioning) /\ t \in Targets(b) /\ AddressesDue(t) = OfType(U, "A")
       /\ \A k \in DOMAIN additional : additional[k].type = "A" /\ additional[k].owner \in Targets(b)
       /\ \A s \in Targets(b) : s = t \/ Done(s)
       /\ Listed(additional, GivenFor(t), OfType(S, "A"))
  BY <1>1, <1>3, <1>4, <1>5 DEF GlueIs
<1>11. /\ Targets(bpos)' = Targets(b) /\ Target' = t /\ bpos' <= Len(Mentioning')
       /\ \A s : AddressesDue(s)' = AddressesDue(s)
  <2>1. Targets(b)' = Targets(b) /\ TargetOf(b)' = TargetOf(b) /\ bpos' = b
    BY <1>1, <1>3, <1>4
  <2> QED BY <1>3, <1>4, <1>10, <2>1 DEF Target
<1>12. OfType(Shown(t, FALSE), "A")' = OfType(U, "A")
  <2>1. Shown(t, FALSE)' = U
    BY <1>3, <1>5, SameAnswers
  <2>2. OfType(U, "A")' = OfType(U, "A")
    BY <1>3, SameAnswers
  <2> QED BY <2>1, <2>2
<1>13. PICK T : T = S \cup {i}
  OBVIOUS
<1>14. OfType(Seen(t, FALSE), "A")' = OfType(T, "A")
  <2>1. OfType(T, "A")' = OfType(T, "A")
    BY <1>3, SameAnswers
  <2> QED BY <1>7, <1>13, <2>1
<1>15. r.place = i /\ r.type = Rec(i).type /\ r.owner = t
  BY <1>4 DEF RR
<1>16. /\ IsSection(additional')
       /\ \A k \in DOMAIN additional' : additional'[k].type = "A" /\ additional'[k].owner \in Targets(b)
       /\ \A s \in Targets(b) : s = t \/ Done(s)'
       /\ Listed(additional', GivenFor(t)', OfType(T, "A"))
  <2>1. CASE type' # "A"
    <3>1. additional' = additional
      BY <2>1 DEF GlueTurn
    <3>2. OfType(T, "A") = OfType(S, "A")
      BY <1>7, <1>13, <2>1 DEF OfType
    <3>3. \A s : GivenFor(s)' = GivenFor(s)
      BY <3>1 DEF GivenFor
    <3>4. \A s \in Targets(b) : s = t \/ Done(s)'
      BY <1>3, <1>10, <3>1, <3>3 DEF Done
    <3>5. IsSection(additional')
      BY <1>9, <3>1 DEF IsSection
    <3> QED BY <1>10, <3>1, <3>2, <3>3, <3>4, <3>5
  <2>2. CASE type' = "A"
    <3>1. PICK n, u : n = Len(additional) /\ u = Append(additional, r)
      OBVIOUS
    <3>2. additional' = u
      BY <1>4, <1>7, <2>2, <3>1 DEF GlueTurn
    <3>3. OfType(T, "A") = OfType(S, "A") \cup {i}
      BY <1>7, <1>13, <2>2 DEF OfType
    <3>4. n \in Nat /\ DOMAIN additional = 1 .. n /\ DOMAIN u = 1 .. n + 1 /\ u[n + 1] = r
          /\ \A k \in 1 .. n : u[k] = additional[k]
      BY <1>9, <3>1
    <3>5. GivenFor(t)' = GivenFor(t) \cup {n + 1}
      BY <1>15, <3>2, <3>4 DEF GivenFor
    <3>6. \A s : s # t => GivenFor(s)' = GivenFor(s)
      BY <1>15, <3>2, <3>4 DEF GivenFor
    <3>7. \A s : GivenFor(s) \in SUBSET DOMAIN additional
      BY DEF GivenFor
    <3>8. Listed(u, GivenFor(t)', OfType(T, "A"))
      <4>1. OfType(S, "A") \subseteq S
        BY DEF OfType
      <4>2. PICK I : I = GivenFor(t)
        OBVIOUS
      <4>3. Listed(u, I \cup {n + 1}, OfType(S, "A") \cup {r.place})
        BY <1>7, <1>8, <1>9, <1>10, <1>15, <3>1, <3>7, <4>1, <4>2, ListedMoreAt
      <4> QED BY <1>15, <3>3, <3>5, <4>2, <4>3
    <3>9. \A s \in Targets(b) : s = t \/ Done(s)'
      <4> TAKE s \in Targets(b)
      <4>1. CASE s # t
        <5>1. PICK I, A : I = GivenFor(s) /\ A = AddressesDue(s)
          OBVIOUS
        <5>2. Listed(additional, I, A)
          BY <1>10, <4>1, <5>1 DEF Done
        <5>3. Listed(u, I, A)
          BY <1>9, <3>1, <3>7, <5>1, <5>2, ListedOther
        <5>4. additional' = u /\ GivenFor(s)' = I /\ AddressesDue(s)' = A
          BY <1>3, <3>2, <3>6, <4>1, <5>1
        <5> QED BY <5>3, <5>4 DEF Done
      <4> QED BY <4>1
    <3>10. IsSection(u)
      <4>1. u \in Seq(D \cup {r})
        <5>1. additional \in Seq(D \cup {r})
          BY <1>9
        <5> QED BY <3>1, <5>1
      <4> QED BY <4>1 DEF IsSection
    <3>11. \A k \in DOMAIN u : u[k].type = "A" /\ u[k].owner \in Targets(b)
      BY <1>7, <1>10, <1>15, <2>2, <3>4
    <3> QED BY <3>2, <3>8, <3>9, <3>10, <3>11
  <2> QED BY <2>1, <2>2
<1>17. GlueIs'
  BY <1>1, <1>10, <1>11, <1>12, <1>14, <1>16 DEF GlueIs
<1> QED BY <1>1, <1>3, <1>17 DEF SectionInv

\* When the search ends all are written.
LEMMA GlueEndSection == ASSUME OwnInv, RightInv, SectionInv, GlueEnd PROVE SectionInv'
<1> SUFFICES ASSUME Healthy' PROVE SectionInv'
  BY DEF SectionInv
<1>1. /\ Frame /\ UNCHANGED <<authority, answer, bpos, additional>>
      /\ pc = "addresses" /\ pc' = "glue" /\ Ended(FALSE)
  BY DEF GlueEnd, Frame
<1>2. Healthy
  <2>1. UNCHANGED <<db, now, loc, q, qtype>>
    BY <1>1 DEF Frame, asked
  <2> QED BY <2>1, SameAnswers
<1>3. /\ AuthorityIs' /\ GlueIs
      /\ Mentioning' = Mentioning
      /\ (\A n : Targets(n)' = Targets(n)) /\ (\A s : AddressesDue(s)' = AddressesDue(s))
  BY <1>1, <1>2, GlueFrame
<1>4. PICK b, t : b = bpos /\ t = Target
  OBVIOUS
<1>5. Seen(t, FALSE) = Shown(t, FALSE)
  <2>1. OrderOK
    BY <1>1, <1>2 DEF RightInv, Busy
  <2>2. Ordered(t)
    BY <1>1, <1>4, <2>1 DEF OrderOK, Where
  <2> QED BY <1>1, <2>2, EndIs
<1>6. Done(t)
  BY <1>1, <1>3, <1>4, <1>5 DEF GlueIs, Done
<1>7. \A s \in Targets(b) : Done(s)
  BY <1>1, <1>3, <1>4, <1>6 DEF GlueIs
<1>8. \A s \in Targets(b) : Done(s)'
  BY <1>1, <1>3, <1>7 DEF Done, GivenFor
<1>9. Targets(bpos)' = Targets(b)
  <2>1. bpos' = b /\ Targets(b)' = Targets(b)
    BY <1>1, <1>3, <1>4
  <2> QED BY <2>1
<1>10. GlueIs'
  BY <1>1, <1>3, <1>4, <1>8, <1>9 DEF GlueIs
<1> QED BY <1>1, <1>3, <1>10 DEF SectionInv

\* A section that lists a set has as many records as the set has members.
LEMMA ListedLen ==
  ASSUME NEW D, NEW s \in Seq(D), NEW S \in SUBSET Nat, Listed(s, DOMAIN s, S)
  PROVE Len(s) = Cardinality(S)
<1>1. PICK n, f : n = Len(s) /\ f = [i \in 1 .. Len(s) |-> s[i].place]
  OBVIOUS
<1>2. n \in Nat /\ DOMAIN s = 1 .. n /\ DOMAIN f = 1 .. n /\ \A i \in 1 .. n : f[i] = s[i].place
  BY <1>1
<1>3. {f[i] : i \in 1 .. n} = S
  <2>1. {f[i] : i \in 1 .. n} = {s[i].place : i \in 1 .. n}
    BY <1>2
  <2> QED BY <1>2, <2>1 DEF Listed
<1>4. \A i, j \in 1 .. n : i # j => f[i] # f[j]
  <2> SUFFICES ASSUME NEW i \in 1 .. n, NEW j \in 1 .. n, i < j PROVE f[i] # f[j]
    OBVIOUS
  <2>1. s[i].place < s[j].place
    BY <1>2 DEF Listed
  <2>2. f[i] < f[j]
    BY <1>2, <2>1
  <2>3. f[i] \in Nat /\ f[j] \in Nat
    BY <1>3
  <2> QED BY <2>2, <2>3
<1>5. Cardinality({f[i] : i \in 1 .. n}) = n
  BY <1>2, <1>4, CountImage
<1> QED BY <1>1, <1>3, <1>5

\* What is due are places.
LEMMA DueTyped == ASSUME TypeOK PROVE Due \in SUBSET Nat
<1>1. Servers \in SUBSET Nat /\ Soas \in SUBSET Nat
  <2>1. Shown(Zone, FALSE) \subseteq Nat
    BY ShownTyped
  <2> QED BY <2>1 DEF Servers, Soas, OfType
<1>2. Ours => Lowest(Soas) \in Soas
  <2>1. Ours => Soas # {}
    BY DEF Ours, Soas
  <2> QED BY <1>1, <2>1, LowestIs
<1> QED BY <1>1, <1>2 DEF Due

\* A file has finitely many records.
LEMMA PlacesFinite == ASSUME TypeOK PROVE IsFiniteSet(Places)
<1>1. PICK s \in Seq(Record) : s = db.records
  BY DbTyped
<1>2. Len(s) \in Nat /\ Places = 1 .. Len(s)
  BY <1>1 DEF Places
<1> QED BY <1>2, FS_Interval

\* No address is given twice: there are no more than are due.
LEMMA GlueLen ==
  ASSUME TypeOK, GlueIs, pc = "glue"
  PROVE /\ Len(additional) \in Nat
        /\ Len(additional) <= Cardinality(UNION {AddressesDue(t) : t \in Targets(bpos)})
<1>1. PICK D, n : additional \in Seq(D) /\ n = Len(additional)
  BY DEF GlueIs, IsSection
<1>2. n \in Nat /\ DOMAIN additional = 1 .. n
  BY <1>1
<1>3. \A i \in 1 .. n : additional[i].owner \in Targets(bpos)
  BY <1>2 DEF GlueIs
<1>4. PICK f : f = [i \in 1 .. n |-> additional[i].place]
  OBVIOUS
<1>5. \A t : AddressesDue(t) \subseteq Of(db, t) /\ AddressesDue(t) \subseteq Places /\ AddressesDue(t) \subseteq Nat
  BY ShownTyped DEF AddressesDue, OfType
<1>6. \A i \in 1 .. n : f[i] \in AddressesDue(additional[i].owner)
  <2> TAKE i \in 1 .. n
  <2>1. PICK t : t = additional[i].owner
    OBVIOUS
  <2>2. i \in GivenFor(t) /\ Done(t)
    BY <1>2, <1>3, <2>1 DEF GlueIs, GivenFor
  <2> QED BY <1>4, <2>1, <2>2 DEF Done, Listed
<1>7. \A i, j \in 1 .. n : i # j => f[i] # f[j]
  <2> SUFFICES ASSUME NEW i \in 1 .. n, NEW j \in 1 .. n, i < j PROVE f[i] # f[j]
    OBVIOUS
  <2>1. CASE additional[i].owner = additional[j].owner
    <3>1. PICK t : t = additional[i].owner
      OBVIOUS
    <3>2. i \in GivenFor(t) /\ j \in GivenFor(t) /\ Done(t)
      BY <1>2, <1>3, <2>1, <3>1 DEF GlueIs, GivenFor
    <3>3. f[i] < f[j]
      BY <1>4, <3>2 DEF Done, Listed
    <3>4. f[i] \in Nat /\ f[j] \in Nat
      BY <1>5, <1>6
    <3> QED BY <3>3, <3>4
  <2>2. CASE additional[i].owner # additional[j].owner
    <3>1. f[i] \in Of(db, additional[i].owner) /\ f[j] \in Of(db, additional[j].owner)
      BY <1>5, <1>6
    <3> QED BY <2>2, <3>1 DEF Of
  <2> QED BY <2>1, <2>2
<1>8. DOMAIN f = 1 .. n
  BY <1>4
<1>9. Cardinality({f[i] : i \in 1 .. n}) = n
  BY <1>2, <1>7, <1>8, CountImage
<1>10. PICK E : E = UNION {AddressesDue(t) : t \in Targets(bpos)}
  OBVIOUS
<1>11. {f[i] : i \in 1 .. n} \subseteq E /\ E \subseteq Places
  BY <1>3, <1>5, <1>6, <1>10
<1>12. IsFiniteSet(E)
  BY <1>11, PlacesFinite, FS_Subset
<1>13. n <= Cardinality(E)
  BY <1>9, <1>11, <1>12, FS_Subset
<1> QED BY <1>1, <1>2, <1>10, <1>13

\* Sections go as wholes, and only when they have to.
LEMMA FinishSection == ASSUME OwnInv, RightInv, SectionInv, Finish PROVE SectionInv'
<1> SUFFICES ASSUME Healthy' PROVE SectionInv'
  BY DEF SectionInv
<1>1. /\ UNCHANGED <<db, now, loc, q, qtype, answer, control, flagauthoritative, bpos>>
      /\ pc = "glue" /\ pc' = "idle" /\ reply' = "sent" /\ bpos = Len(Mentioning)
  BY DEF Finish, asked
<1>2. Healthy /\ Busy
  BY <1>1, SameAnswers DEF Busy
<1>3. AuthorityIs /\ GlueIs /\ ZoneIs
  BY <1>1, <1>2 DEF SectionInv, RightInv
<1>4. answer \in Seq(Item) /\ authority \in Seq(Item) /\ TypeOK /\ q \in Name
  BY <1>1, <1>2 DEF OwnInv, ItemsOK, NamesOK
<1>5. /\ Due' = Due /\ (Ours' <=> Ours) /\ \A t : AddressesDue(t)' = AddressesDue(t)
  <2>1. Ours' <=> Ours
    BY <1>1, SameAnswers
  <2> QED BY <1>1, <2>1, SameDue
<1>6. flagauthoritative => Ours
  <2>1. Zone = control
    BY <1>3, <1>4, ZoneIsControl DEF ZoneIs
  <2> QED BY <1>3, <2>1 DEF ZoneIs, Ours
<1>7. Listed(authority, DOMAIN authority, Due)
  BY <1>1, <1>3 DEF AuthorityIs
<1>8. Len(Mentioning) = Len(answer) + Cardinality(Due)
  <2>1. Len(authority) = Cardinality(Due)
    BY <1>4, <1>7, DueTyped, ListedLen
  <2>2. PICK s : s = answer \o authority
    OBVIOUS
  <2>3. Len(s) = Len(answer) + Len(authority)
    BY <1>4, <2>2
  <2> QED BY <2>1, <2>2, <2>3 DEF Mentioning
<1>9. AuthorityRight'
  <2>1. CASE authority' = authority
    BY <1>5, <1>7, <2>1 DEF AuthorityRight
  <2>2. CASE authority' # authority
    <3>1. authority' = <<>> /\ TooLong(Len(Mentioning))
      BY <2>2 DEF Finish
    <3>2. Len(answer) + Cardinality(Due) > MaxRecords /\ Ours
      BY <1>6, <1>8, <3>1 DEF TooLong
    <3>3. Len(answer') + Cardinality(Due') > MaxRecords
      BY <1>1, <1>5, <3>2
    <3> QED BY <1>5, <3>1, <3>2, <3>3 DEF AuthorityRight
  <2> QED BY <2>1, <2>2
<1>10. GlueRight'
  <2>1. CASE TooLong(Len(Mentioning) + Len(additional))
    <3>1. additional' = <<>> /\ Ours /\ DOMAIN additional' = {}
      BY <1>6, <2>1 DEF Finish, TooLong
    <3>2. PICK n, b : n = Cardinality(Due) /\ b = bpos
      OBVIOUS
    <3>3. n \in Nat /\ Len(answer) \in Nat
      BY <1>4, <1>7, <3>2, DueTyped, ListedLen
    <3>4. GlueDue' \subseteq Places /\ Cardinality(GlueDue') \in Nat
      <4>1. \A t : AddressesDue(t) \subseteq Places
        BY <1>4, ShownTyped DEF AddressesDue, OfType
      <4>2. GlueDue' \subseteq Places
        BY <1>5, <4>1 DEF GlueDue
      <4> QED BY <1>4, <4>2, PlacesFinite, FS_Subset, FS_CardinalityType
    <3>5. Len(answer) + n + Cardinality(GlueDue') > MaxRecords
      <4>1. CASE authority' # authority
        <5>1. TooLong(Len(Mentioning))
          BY <4>1 DEF Finish
        <5>2. Len(answer) + n > MaxRecords
          BY <1>8, <3>2, <5>1 DEF TooLong
        <5> QED BY <3>3, <3>4, <5>2, NumbersAssumption
      <4>2. CASE authority' = authority
        <5>1. Len(Mentioning') = b /\ Targets(b)' = Targets(b)
          BY <1>1, <3>2, <4>2, SameTargets
        <5>2. Targets(Len(Mentioning))' = Targets(b)
          BY <5>1
        <5>3. GlueDue' = UNION {AddressesDue(t) : t \in Targets(b)}
          BY <1>5, <5>2 DEF GlueDue
        <5>4. Len(additional) \in Nat /\ Len(additional) <= Cardinality(GlueDue')
          BY <1>1, <1>3, <1>4, <3>2, <5>3, GlueLen
        <5>5. Len(Mentioning) + Len(additional) > MaxRecords /\ Len(Mentioning) = Len(answer) + n
          BY <1>8, <2>1, <3>2 DEF TooLong
        <5> QED BY <3>3, <3>4, <5>4, <5>5, NumbersAssumption
      <4> QED BY <4>1, <4>2
    <3>6. /\ Len(answer') + Cardinality(Due') + Cardinality(GlueDue') > MaxRecords
          /\ Ours'
      BY <1>1, <1>5, <3>1, <3>2, <3>5
    <3> QED BY <3>1, <3>6 DEF GlueRight
  <2>2. CASE ~TooLong(Len(Mentioning) + Len(additional))
    <3>1. additional' = additional /\ authority' = authority
      BY <2>2 DEF Finish
    <3>2. PICK b : b = bpos
      OBVIOUS
    <3>3. Len(Mentioning') = b /\ Targets(b)' = Targets(b)
      BY <1>1, <3>1, <3>2, SameTargets
    <3>4. Targets(Len(Mentioning))' = Targets(b)
      BY <3>3
    <3>5. \A t \in Targets(b) : Done(t)'
      BY <1>1, <1>3, <1>5, <3>1, <3>2 DEF GlueIs, Done, GivenFor
    <3>6. \A i \in DOMAIN additional' : additional'[i].owner \in Targets(b)
      BY <1>1, <1>3, <3>1, <3>2 DEF GlueIs
    <3> QED BY <3>4, <3>5, <3>6 DEF GlueRight, Done
  <2> QED BY <2>1, <2>2
<1>11. SectionsRight'
  BY <1>9, <1>10 DEF SectionsRight
<1> QED BY <1>1, <1>11 DEF SectionInv

\* doit() keeps the invariant.
LEMMA DoitSection == ASSUME OwnInv, OwnInv', RightInv, RightInv', SectionInv, Doit PROVE SectionInv'
<1>1. ASSUME NEW at, NEW w, Fails(at, w) PROVE SectionInv'
  <2>1. pc' = "idle" /\ reply' = "silent"
    BY <1>1 DEF Fails, Silent
  <2> QED BY <2>1, SilentSection
<1>2. ASSUME NoRoom PROVE SectionInv'
  BY <1>2, SilentSection DEF NoRoom, Silent
<1>3. CASE Fails("answer", wild # q) \/ Fails("soa", FALSE) \/ Fails("ns", FALSE)
  BY <1>1, <1>3
<1>4. CASE ControlTurn \/ ControlParent \/ ControlFound
  BY <1>4, ControlSection
<1>5. CASE AnswerPasses \/ AnswerAddress \/ AnswerRecord \/ AnswerEnd
  <2>1. AnswerTurn \/ AnswerEnd
    BY <1>5 DEF AnswerPasses, AnswerAddress, AnswerRecord
  <2> QED BY <2>1, AnswerSection
<1>6. CASE SoaRecord \/ NsRecord \/ AuthorityEnd
  BY <1>6, SoaRecordSection, NsRecordSection, AuthorityEndSection
<1>7. CASE GlueName \/ GlueTurn \/ GlueEnd \/ Finish
  BY <1>7, GlueNameSection, GlueTurnSection, GlueEndSection, FinishSection
<1> QED BY <1>2, <1>3, <1>4, <1>5, <1>6, <1>7 DEF Doit

\* Nothing of it changes without a query.
LEMMA SameSection == ASSUME SectionInv, UNCHANGED vars PROVE SectionInv'
<1> SUFFICES ASSUME Healthy', Busy' PROVE SectionInv'
  BY DEF SectionInv
<1>1. UNCHANGED <<db, now, loc, q, qtype, control, flagauthoritative, answer, authority, additional,
                  pc, reply, rest, bpos>>
  BY DEF vars, asked, work
<1>2. Healthy /\ Busy
  BY <1>1, SameAnswers DEF Busy
<1>3. /\ Due' = Due /\ Servers' = Servers /\ (Ours' <=> Ours)
      /\ \A t : AddressesDue(t)' = AddressesDue(t) /\ Shown(t, FALSE)' = Shown(t, FALSE)
      /\ \A S, t : OfType(S, t)' = OfType(S, t)
  <2>1. Ours' <=> Ours
    BY <1>1, SameAnswers
  <2> QED BY <1>1, <2>1, SameDue
<1>4. \A d : Seen(d, FALSE)' = Seen(d, FALSE)
  BY <1>1, <1>3 DEF Seen
<1>5. \A d, t : /\ OfType(Seen(d, FALSE), t)' = OfType(Seen(d, FALSE), t)
                /\ OfType(Shown(d, FALSE), t)' = OfType(Shown(d, FALSE), t)
  <2> TAKE d, t
  <2>1. PICK S, U : S = Seen(d, FALSE) /\ U = Shown(d, FALSE)
    OBVIOUS
  <2>2. /\ OfType(Seen(d, FALSE), t)' = OfType(S, t)' /\ OfType(Shown(d, FALSE), t)' = OfType(U, t)'
        /\ OfType(S, t)' = OfType(S, t) /\ OfType(U, t)' = OfType(U, t)
    BY <1>3, <1>4, <2>1
  <2> QED BY <2>1, <2>2
<1>6. Mentioning' = Mentioning /\ (\A n : Targets(n)' = Targets(n)) /\ \A i : TargetOf(i)' = TargetOf(i)
  BY <1>1, SameTargets
<1>7. \A t : Done(t)' = Done(t) /\ GivenFor(t)' = GivenFor(t)
  BY <1>1, <1>3 DEF Done, GivenFor
<1>8. PICK d, b, t, n : d = control /\ b = bpos /\ t = Target /\ n = Len(Mentioning)
  OBVIOUS
<1>9. /\ control' = d /\ bpos' = b /\ Len(Mentioning') = n /\ Target' = t
      /\ Targets(bpos)' = Targets(b) /\ Targets(Len(Mentioning))' = Targets(n)
  BY <1>1, <1>6, <1>8 DEF Target
<1>10. /\ OfType(Seen(control, FALSE), "SOA")' = OfType(Seen(d, FALSE), "SOA")
       /\ OfType(Seen(control, FALSE), "NS")' = OfType(Seen(d, FALSE), "NS")
  BY <1>5, <1>9
<1>11. /\ OfType(Seen(Target, FALSE), "A")' = OfType(Seen(t, FALSE), "A")
       /\ OfType(Shown(Target, FALSE), "A")' = OfType(Shown(t, FALSE), "A")
       /\ AddressesDue(Target)' = AddressesDue(t) /\ GivenFor(Target)' = GivenFor(t)
  BY <1>3, <1>5, <1>7, <1>9
<1>12. AuthorityIs => AuthorityIs'
  BY <1>1, <1>3, <1>8, <1>10 DEF AuthorityIs
<1>13. GlueIs => GlueIs'
  BY <1>1, <1>6, <1>7, <1>8, <1>9, <1>11 DEF GlueIs
<1>14. AuthorityRight => AuthorityRight'
  BY <1>1, <1>2, <1>3 DEF AuthorityRight, Sent
<1>15. GlueRight => GlueRight'
  <2>1. PICK E, c : E = GlueDue /\ c = Cardinality(Due)
    OBVIOUS
  <2>2. GlueDue' = E /\ Cardinality(Due)' = c
    BY <1>3, <1>8, <1>9, <2>1 DEF GlueDue
  <2> QED BY <1>1, <1>2, <1>3, <1>7, <1>8, <1>9, <2>1, <2>2 DEF GlueRight, Sent
<1> QED BY <1>1, <1>2, <1>12, <1>13, <1>14, <1>15 DEF SectionInv, SectionsRight

\* SectionInv holds in every state.
THEOREM TdLookupSectionInv == Spec => []SectionInv
<1>1. Init => SectionInv
  BY DEF Init, SectionInv, Busy
<1>2. OwnInv /\ OwnInv' /\ RightInv /\ RightInv' /\ SectionInv /\ [Next]_vars => SectionInv'
  <2> SUFFICES ASSUME OwnInv, OwnInv', RightInv, RightInv', SectionInv, [Next]_vars PROVE SectionInv'
    OBVIOUS
  <2>1. CASE Return \/ Publish \/ Tick \/ ClockSetBack
    <3>1. pc' = "idle" /\ reply' = "none"
      BY <2>1 DEF Return, Publish, Tick, ClockSetBack
    <3> QED BY <3>1, SilentSection
  <2> QED BY <2>1, DoitSection, RespondSection, SameSection DEF Next
<1> QED BY <1>1, <1>2, TdLookupOwn, TdLookupAnswerInv, PTL DEF Spec

\* The authority section is the SOA or the name servers of the zone, the
\* additional section has all visible addresses of every name mentioned and
\* no others, each once; a section that does not fit goes as a whole
\* (tdlookup.c:210-276).
THEOREM TdLookupSectionsRight == Spec => []SectionsRight
<1>1. SectionInv => SectionsRight
  BY DEF SectionInv, SectionsRight, AuthorityRight, GlueRight, Sent, Busy
<1> QED BY <1>1, TdLookupSectionInv, PTL

-----------------------------------------------------------------------------
(* Lifetimes and additions, whatever cannot be read.                       *)

\* The addresses that were read so far of the name that is looked at.
Read == OfType(Seen(wild, wild # q), "A")

\* While addresses wait, addrttl is the lifetime of the last one read; what
\* was written has that of the last of its name.
LastIs ==
  /\ pc = "answer" =>
       /\ Ordered(wild)
       /\ \A i \in DOMAIN answer : answer[i].type # "A"
       /\ addr # <<>> => flagfound /\ Asked("A") /\ addrttl = ttl(Rec(Highest(Read)))
  /\ pc \notin {"control", "answer"} =>
       \A i \in AtA : answer[i].ttl = ttl(Rec(Highest(Beside(answer[i].place))))

\* An address that may be added for a name mentioned before bpos.
Extra(r) ==
  /\ r.type = "A" /\ r.owner \in Targets(bpos)
  /\ \/ Genuine(r) /\ ~Rec(r.place).wild /\ EndsWith(r)
     \/ r.place = 0 /\ \E i \in Of(db, r.owner) : Rec(i).long
\* Only those are added, from the records of the name looked at.
AddedIs ==
  /\ pc \in {"control", "answer", "soa", "ns"} => additional = <<>> /\ bpos = 0
  /\ pc \in {"glue", "addresses"} =>
       /\ bpos <= Len(Mentioning) /\ IsSection(additional)
       /\ \A i \in DOMAIN additional : Extra(additional[i])
  /\ pc = "addresses" => Target \in Targets(bpos) /\ rest \subseteq Of(db, Target)

\* The invariant behind NothingForeign and TtlRight.
GivenInv ==
  Busy => /\ LastIs
          /\ pc # "idle" => AddedIs
          /\ pc = "idle" => \A i \in DOMAIN additional :
               Extra(additional[i]) /\ bpos = Len(Mentioning)

\* Without an answer there is nothing to say.
LEMMA SilentGiven == ASSUME pc' = "idle", reply' # "sent" PROVE GivenInv'
BY DEF GivenInv, Busy

\* What is above all others is the highest.
LEMMA HighestIs ==
  ASSUME NEW S \in SUBSET Nat, NEW i \in S, \A j \in S : j <= i
  PROVE Highest(S) = i
<1>1. Highest(S) \in S /\ \A j \in S : j <= Highest(S)
  BY DEF Highest
<1>2. Highest(S) <= i /\ i <= Highest(S) BY <1>1
<1>3. Highest(S) \in Nat /\ i \in Nat BY <1>1
<1> QED BY <1>2, <1>3

\* What is said of records and names while a query runs.
LEMMA SameGiven ==
  ASSUME UNCHANGED <<db, now, loc, q, qtype>>
  PROVE /\ \A r : Genuine(r)' = Genuine(r) /\ EndsWith(r)' = EndsWith(r)
        /\ \A i : Beside(i)' = Beside(i) /\ Rec(i)' = Rec(i)
        /\ \A rec : ttl(rec)' = ttl(rec)
        /\ \A d : Of(db, d)' = Of(db, d)
<1>1. \A i : Rec(i)' = Rec(i)
  BY DEF Rec
<1>2. \A rec : ttl(rec)' = ttl(rec) /\ Alive(rec)' = Alive(rec)
  BY SameRecords
<1>3. \A r : Genuine(r)' = Genuine(r) /\ EndsWith(r)' = EndsWith(r)
  BY <1>1, <1>2 DEF Genuine, EndsWith
<1>4. \A i : Beside(i)' = Beside(i)
  <2> TAKE i
  <2>1. PICK d, w, S : d = Rec(i).owner /\ w = Rec(i).wild /\ S = Shown(d, w)
    OBVIOUS
  <2>2. Shown(d, w)' = S /\ Rec(i)' = Rec(i)
    BY <1>1, <2>1, SameAnswers
  <2>3. Shown(Rec(i).owner, Rec(i).wild)' = S
    BY <2>1, <2>2
  <2>4. OfType(S, "A")' = OfType(S, "A")
    BY SameAnswers
  <2> QED BY <2>1, <2>3, <2>4 DEF Beside
<1> QED BY <1>1, <1>2, <1>3, <1>4, SameAnswers

\* The lifetimes of an answer that was written stay right.
LEMMA LastStays ==
  ASSUME UNCHANGED <<db, now, loc, q, qtype, answer>>, pc \notin {"control", "answer"},
         pc' \notin {"control", "answer"}, LastIs
  PROVE LastIs'
<1>1. \A i \in AtA : answer[i].ttl = ttl(Rec(Highest(Beside(answer[i].place))))
  BY DEF LastIs
<1>2. \A i \in AtA : (ttl(Rec(Highest(Beside(answer[i].place)))))' = ttl(Rec(Highest(Beside(answer[i].place))))
  <2> TAKE i \in AtA
  <2>1. PICK p, S, h, r : p = answer[i].place /\ S = Beside(p) /\ h = Highest(S) /\ r = Rec(h)
    OBVIOUS
  <2>2. Beside(p)' = S /\ Rec(h)' = r /\ ttl(r)' = ttl(r)
    BY <2>1, SameGiven
  <2>3. Beside(answer[i].place)' = S
    BY <2>1, <2>2
  <2>4. Highest(Beside(answer[i].place))' = h
    BY <2>1, <2>3 DEF Highest
  <2>5. Rec(Highest(Beside(answer[i].place)))' = r
    BY <2>2, <2>4 DEF Rec
  <2> QED BY <2>1, <2>2, <2>5
<1>3. AtA' = AtA
  BY DEF AtA
<1> QED BY <1>1, <1>2, <1>3 DEF LastIs

\* A step that adds nothing while the answer and its mentions stay.
LEMMA AddedStays ==
  ASSUME UNCHANGED <<db, now, loc, q, qtype, answer, authority, additional>>,
         NEW b, b = bpos, Targets(b) \subseteq Targets(bpos)'
  PROVE \A i \in DOMAIN additional : Extra(additional[i]) => Extra(additional[i])'
<1>1. \A r : Genuine(r)' = Genuine(r) /\ EndsWith(r)' = EndsWith(r) /\ Rec(r.place)' = Rec(r.place)
  BY SameGiven
<1>2. \A r : Of(db, r.owner)' = Of(db, r.owner) /\ \A i : Rec(i)' = Rec(i)
  BY SameGiven
<1> QED BY <1>1, <1>2 DEF Extra

-----------------------------------------------------------------------------
(* Steps of doit() and GivenInv.                                           *)

\* The search for the zone has neither an answer nor additions.
LEMMA ControlGiven ==
  ASSUME OwnInv, GivenInv, ControlTurn \/ ControlParent \/ ControlFound
  PROVE GivenInv'
<1>1. pc = "control" /\ UNCHANGED <<answer, additional, bpos, wild, addr>> /\ q' = q
  BY DEF ControlTurn, ControlParent, ControlFound, asked
<1>2. answer = <<>> /\ additional = <<>> /\ bpos = 0 /\ wild = q /\ addr = <<>>
  BY <1>1 DEF OwnInv, StartOK, GivenInv, AddedIs, Busy
<1>3. DOMAIN answer' = {} /\ AtA' = {}
  BY <1>1, <1>2 DEF AtA
<1>4. CASE pc' = "control"
  BY <1>1, <1>2, <1>4 DEF GivenInv, LastIs, AddedIs
<1>5. CASE pc' = "idle" /\ reply' = "silent"
  BY <1>5, SilentGiven
<1>6. CASE pc' \in {"soa", "ns"}
  BY <1>1, <1>2, <1>3, <1>6 DEF GivenInv, LastIs, AddedIs
<1>7. CASE pc' = "glue"
  <2>1. 0 <= Len(Mentioning')
    <3>1. OwnInv'
      BY ControlTurnOwn, ControlParentOwn, ControlFoundOwn
    <3>2. authority' \in Seq(Item') /\ answer' = <<>>
      BY <1>1, <1>2, <1>7, <3>1 DEF OwnInv, ItemsOK, Busy
    <3>3. PICK u : u = <<>> \o authority'
      OBVIOUS
    <3>4. u \in Seq(Item')
      BY <3>2, <3>3
    <3> QED BY <3>2, <3>3, <3>4 DEF Mentioning
  <2>2. <<>> \in Seq({})
    OBVIOUS
  <2>3. IsSection(additional')
    BY <1>1, <1>2, <2>2 DEF IsSection
  <2> QED BY <1>1, <1>2, <1>3, <1>7, <2>1, <2>3 DEF GivenInv, LastIs, AddedIs
<1>8. CASE pc' = "answer"
  <2>1. rest' = Of(db, q) /\ db' = db /\ wild' = q /\ q' = q
    BY <1>1, <1>2, <1>8 DEF ControlTurn, ControlParent, ControlFound, Authority, Search, Silent, asked
  <2>2. rest' = Of(db, q)'
    BY <2>1
  <2>3. Ordered(wild)'
    BY <2>1, <2>2 DEF Ordered
  <2> QED BY <1>1, <1>2, <1>3, <1>8, <2>3 DEF GivenInv, LastIs, AddedIs
<1> QED BY <1>1, <1>4, <1>5, <1>6, <1>7, <1>8 DEF ControlTurn, ControlParent, ControlFound, Authority, Silent

\* A turn of the loop over the records of the name reads one more.
LEMMA AnswerTurnGiven ==
  ASSUME OwnInv, GivenInv, AnswerPasses \/ AnswerAddress \/ AnswerRecord
  PROVE GivenInv'
<1>1. PICK d, w, i, S, T, R : d = wild /\ w = (wild # q) /\ w \in BOOLEAN /\ i = Stop(w)
                            /\ S = Seen(d, w) /\ T = S \cup {i} /\ R = Highest(OfType(S, "A"))
  OBVIOUS
<1>2. /\ AnswerTurn /\ Frame /\ pc = "answer" /\ pc' = "answer" /\ Busy /\ TypeOK
      /\ UNCHANGED <<db, now, loc, q, qtype, wild, additional, bpos>> /\ flagfound'
  BY DEF AnswerPasses, AnswerAddress, AnswerRecord, AnswerTurn, Frame, asked, Busy, OwnInv
<1>3. LastIs /\ AddedIs
  BY <1>2 DEF GivenInv
<1>4. Took(w) /\ FindNext(w) /\ Ordered(d)
  BY <1>1, <1>2, <1>3 DEF AnswerTurn, LastIs
<1>5. /\ Seen(d, w)' = T /\ (\A j \in S : j < i) /\ type' = Rec(i).type /\ Ordered(d)' /\ i \in Nat
      /\ S \in SUBSET Nat
  <2>1. i \in Nat
    BY <1>1, <1>2, <1>4, StopIs DEF Took, Ended
  <2>2. S \in SUBSET Nat
    BY <1>1, <1>2, ShownTyped DEF Seen
  <2> QED BY <1>1, <1>2, <1>4, <2>1, <2>2, TookNext
<1>6. wild' = d /\ (wild # q)' = w
  BY <1>1, <1>2
<1>7. Read' = OfType(T, "A")
  <2>1. Seen(wild, wild # q)' = T
    BY <1>5, <1>6
  <2>2. OfType(T, "A")' = OfType(T, "A")
    BY <1>2, SameAnswers
  <2> QED BY <2>1, <2>2 DEF Read
<1>8. Ordered(wild)'
  BY <1>5, <1>6
<1>9. Asked("A")' = Asked("A") /\ \A rec, k : ttl(rec)' = ttl(rec) /\ Rec(k)' = Rec(k)
  BY <1>2, SameAnswers, SameGiven
<1>10. \A k \in DOMAIN answer' : answer'[k].type # "A"
  <2>1. \A k \in DOMAIN answer : answer[k].type # "A"
    BY <1>2, <1>3 DEF LastIs
  <2>2. CASE answer' = answer
    BY <2>1, <2>2
  <2>3. CASE AnswerRecord
    <3>1. PICK r : r = RR(q, i)
      OBVIOUS
    <3>2. answer' = Append(answer, r) /\ r.type # "A" /\ answer \in Seq(Item)
      BY <1>1, <1>2, <1>5, <2>3, <3>1, Running DEF AnswerRecord, RR
    <3>3. \A k \in DOMAIN answer' : (k \in DOMAIN answer /\ answer'[k] = answer[k]) \/ answer'[k] = r
      BY <3>2
    <3> QED BY <2>1, <3>2, <3>3
  <2> QED BY <2>2, <2>3 DEF AnswerPasses, AnswerAddress
<1>11. addr' # <<>> => Asked("A")' /\ addrttl' = (ttl(Rec(Highest(Read))))'
  <2>1. CASE AnswerAddress
    <3>1. addrttl' = ttl(Rec(i)) /\ type' = "A" /\ Asked("A")
      BY <1>1, <2>1 DEF AnswerAddress, Passes
    <3>2. Rec(i).type = "A"
      BY <1>5, <3>1
    <3>3. i \in OfType(T, "A") /\ OfType(T, "A") \in SUBSET Nat /\ \A j \in OfType(T, "A") : j <= i
      BY <1>1, <1>5, <3>2 DEF OfType
    <3>4. Highest(OfType(T, "A")) = i
      BY <3>3, HighestIs
    <3>5. Highest(Read)' = i
      BY <1>7, <3>4 DEF Highest
    <3>6. Rec(Highest(Read))' = Rec(i)
      BY <1>9, <3>5 DEF Rec
    <3>7. (ttl(Rec(Highest(Read))))' = ttl(Rec(i))
      <4>1. PICK rec : rec = Rec(i)
        OBVIOUS
      <4> QED BY <1>9, <3>6, <4>1
    <3> QED BY <1>9, <3>1, <3>7
  <2>2. CASE AnswerPasses \/ AnswerRecord
    <3>1. UNCHANGED <<addr, addrttl>>
      BY <2>2 DEF AnswerPasses, AnswerRecord
    <3> SUFFICES ASSUME addr # <<>> PROVE Asked("A")' /\ addrttl' = (ttl(Rec(Highest(Read))))'
      BY <3>1
    <3>2. Asked("A") /\ addrttl = ttl(Rec(R))
      BY <1>1, <1>2, <1>3 DEF LastIs, Read
    <3>3. Rec(i).type # "A"
      BY <1>5, <2>2, <3>2 DEF AnswerPasses, AnswerRecord, Passes
    <3>4. OfType(T, "A") = OfType(S, "A")
      BY <1>1, <3>3 DEF OfType
    <3>5. Highest(Read)' = R
      BY <1>1, <1>7, <3>4 DEF Highest
    <3>6. Rec(Highest(Read))' = Rec(R)
      BY <1>9, <3>5 DEF Rec
    <3>7. (ttl(Rec(Highest(Read))))' = ttl(Rec(R))
      <4>1. PICK rec : rec = Rec(R)
        OBVIOUS
      <4> QED BY <1>9, <3>6, <4>1
    <3> QED BY <1>9, <3>1, <3>2, <3>7
  <2> QED BY <2>1, <2>2
<1>12. LastIs'
  BY <1>2, <1>8, <1>10, <1>11 DEF LastIs
<1>13. AddedIs'
  BY <1>2, <1>3 DEF AddedIs
<1> QED BY <1>2, <1>12, <1>13 DEF GivenInv

\* The addresses are written with the lifetime of the last.
LEMMA AnswerEndGiven ==
  ASSUME OwnInv, GivenInv, AnswerEnd
  PROVE GivenInv'
<1>1. /\ Frame /\ pc = "answer" /\ Busy /\ TypeOK /\ Ended(wild # q) /\ answer' = WithAddresses
      /\ UNCHANGED <<db, now, loc, q, qtype, additional, authority, bpos, flagfound>>
  BY DEF AnswerEnd, Frame, asked, Busy, OwnInv
<1>2. /\ Ordered(wild) /\ (\A k \in DOMAIN answer : answer[k].type # "A")
      /\ addr # <<>> => flagfound /\ addrttl = ttl(Rec(Highest(Read)))
      /\ additional = <<>> /\ bpos = 0
  BY <1>1 DEF GivenInv, LastIs, AddedIs
<1>3. /\ answer \in Seq(Item) /\ addr \in Seq(Places) /\ (\A k \in DOMAIN addr : Waits(addr[k]))
      /\ \A k \in DOMAIN addr : Rec(addr[k]).type = "A"
  BY <1>1, Running DEF OwnInv, AddrOK, Waits
<1>4. PICK s, n, m : s = WithAddresses /\ n = Len(answer) /\ m = Len(addr)
  OBVIOUS
<1>5. Appended(s, n, m)
  BY <1>2, <1>3, <1>4, WithAddressesIs
<1>6. Read = OfType(Shown(wild, wild # q), "A")
  <2>1. PICK d, w : d = wild /\ w = (wild # q)
    OBVIOUS
  <2>2. Seen(d, w) = Shown(d, w)
    BY <1>1, <1>2, <2>1, EndIs
  <2> QED BY <2>1, <2>2 DEF Read
<1>7. \A k \in DOMAIN s : s[k].type = "A" =>
         s[k].ttl = ttl(Rec(Highest(Beside(s[k].place)))) /\ addr # <<>>
  <2> SUFFICES ASSUME NEW k \in DOMAIN s, s[k].type = "A"
               PROVE s[k].ttl = ttl(Rec(Highest(Beside(s[k].place)))) /\ addr # <<>>
    OBVIOUS
  <2>1. k \in n + 1 .. n + m
    BY <1>5 DEF Appended
  <2>2. k - n \in DOMAIN addr /\ s[k].place = addr[k - n] /\ s[k].ttl = addrttl
    BY <1>5, <2>1 DEF Appended
  <2>3. PICK p : p = addr[k - n]
    OBVIOUS
  <2>4. Waits(p) /\ p \in Places /\ addr # <<>>
    BY <1>3, <2>2, <2>3
  <2>5. Rec(p).owner = wild /\ Rec(p).wild = (wild # q)
    BY <2>4 DEF Waits, Visible
  <2>6. Beside(p) = Read
    BY <1>6, <2>5 DEF Beside
  <2> QED BY <1>2, <2>2, <2>3, <2>4, <2>6
<1>8. CASE pc' \in {"soa", "ns", "glue"}
  <2>1. LastIs'
    <3>1. ASSUME NEW k \in AtA'
          PROVE  answer'[k].ttl = (ttl(Rec(Highest(Beside(answer[k].place)))))'
      <4>1. k \in DOMAIN s /\ s[k].type = "A" /\ answer' = s
        BY <1>1, <1>4 DEF AtA
      <4>2. PICK e, S, h, r : e = s[k].place /\ S = Beside(e) /\ h = Highest(S) /\ r = Rec(h)
        OBVIOUS
      <4>3. answer'[k].ttl = ttl(r)
        BY <1>7, <4>1, <4>2
      <4>4. Beside(e)' = S /\ Rec(h)' = r /\ ttl(r)' = ttl(r)
        BY <1>1, <4>2, SameGiven
      <4>5. Beside(answer[k].place)' = S
        BY <4>1, <4>2, <4>4
      <4>6. Highest(Beside(answer[k].place))' = h
        BY <4>2, <4>5 DEF Highest
      <4>7. Rec(Highest(Beside(answer[k].place)))' = r
        BY <4>4, <4>6 DEF Rec
      <4> QED BY <4>3, <4>4, <4>7
    <3> QED BY <1>8, <3>1 DEF LastIs
  <2>2. AddedIs'
    <3>1. OwnInv'
      BY AnswerEndOwn
    <3>2. authority' \in Seq(Item') /\ answer' \in Seq(Item')
      BY <1>8, <3>1 DEF OwnInv, ItemsOK, Busy
    <3>3. PICK u : u = answer' \o authority'
      OBVIOUS
    <3>4. Len(u) \in Nat
      BY <3>2, <3>3
    <3>5. <<>> \in Seq({})
      OBVIOUS
    <3> QED BY <1>1, <1>2, <1>8, <3>3, <3>4, <3>5 DEF AddedIs, Mentioning, IsSection
  <2> QED BY <1>8, <2>1, <2>2 DEF GivenInv
<1>9. CASE ~(flagfound \/ wild = control \/ Parent[wild] = "none")
  <2>1. PICK d : d = Parent[wild]
    OBVIOUS
  <2>2. wild' = d /\ rest' = Of(db, d) /\ addr' = <<>> /\ pc' = "answer"
    BY <1>1, <1>9, <2>1 DEF AnswerEnd, Search
  <2>3. rest' = Of(db, d)'
    BY <1>1, <2>2
  <2>4. Ordered(wild)'
    BY <2>2, <2>3 DEF Ordered
  <2>5. \A k \in DOMAIN answer' : answer'[k].type # "A"
    BY <1>1, <1>2, <1>4, <1>7, <1>9
  <2> QED BY <1>1, <1>2, <2>2, <2>4, <2>5 DEF GivenInv, LastIs, AddedIs
<1> QED BY <1>8, <1>9 DEF AnswerEnd, Authority

\* The authority section is written before anything is added.
LEMMA AuthorityGiven ==
  ASSUME OwnInv, GivenInv, SoaRecord \/ NsRecord \/ AuthorityEnd
  PROVE GivenInv'
<1>1. /\ Frame /\ pc \in {"soa", "ns"} /\ pc' \in {"soa", "ns", "glue"} /\ Busy
      /\ UNCHANGED <<db, now, loc, q, qtype, answer, additional, bpos>>
  BY DEF SoaRecord, NsRecord, AuthorityEnd, Frame, asked, Busy
<1>2. LastIs' /\ additional = <<>> /\ bpos = 0
  <2>1. LastIs /\ additional = <<>> /\ bpos = 0
    BY <1>1 DEF GivenInv, AddedIs
  <2>2. LastIs'
    BY <1>1, <2>1, LastStays
  <2> QED BY <2>1, <2>2
<1>3. 0 <= Len(Mentioning')
  <2>1. OwnInv'
    BY SoaRecordOwn, NsRecordOwn, AuthorityEndOwn
  <2>2. authority' \in Seq(Item') /\ answer' \in Seq(Item')
    BY <1>1, <2>1 DEF OwnInv, ItemsOK, Busy
  <2>3. PICK u : u = answer' \o authority'
    OBVIOUS
  <2>4. Len(u) \in Nat
    BY <2>2, <2>3
  <2> QED BY <2>3, <2>4 DEF Mentioning
<1>4. <<>> \in Seq({})
  OBVIOUS
<1> QED BY <1>1, <1>2, <1>3, <1>4 DEF GivenInv, AddedIs, IsSection

\* The next record that may mention a name.
LEMMA GlueNameGiven ==
  ASSUME OwnInv, GivenInv, GlueName
  PROVE GivenInv'
<1>1. PICK b : b = bpos
  OBVIOUS
<1>2. /\ Frame /\ pc = "glue" /\ pc' \in {"glue", "addresses"} /\ Busy /\ bpos' = b + 1
      /\ b < Len(Mentioning) /\ b \in Nat
      /\ UNCHANGED <<db, now, loc, q, qtype, answer, authority, additional>>
  BY <1>1, Running DEF GlueName, Frame, asked, Busy
<1>3. LastIs' /\ AddedIs
  <2>1. LastIs /\ AddedIs
    BY <1>2 DEF GivenInv
  <2> QED BY <1>2, <2>1, LastStays
<1>4. /\ Mentioning' = Mentioning /\ (\A k : Targets(k)' = Targets(k)) /\ (\A k : TargetOf(k)' = TargetOf(k))
      /\ Targets(b + 1) = IF Mentions(b + 1) THEN Targets(b) \cup {TargetOf(b + 1)} ELSE Targets(b)
  BY <1>2, SameTargets, MoreTargets
<1>5. PICK c, t : c = b + 1 /\ t = TargetOf(c)
  OBVIOUS
<1>6. Targets(bpos)' = Targets(c) /\ Target' = t
  BY <1>2, <1>4, <1>5 DEF Target
<1>7. \A i \in DOMAIN additional : Extra(additional[i])'
  <2>1. Targets(b) \subseteq Targets(bpos)'
    BY <1>4, <1>5, <1>6
  <2> QED BY <1>1, <1>2, <1>3, <2>1, AddedStays DEF AddedIs
<1>8. pc' = "addresses" => Mentions(c) /\ rest' = Of(db, t) /\ t \in Targets(c)
  <2>1. pc' = "addresses" => Mentions(c) /\ rest' = Of(db, t)
    BY <1>1, <1>2, <1>5 DEF GlueName, Search
  <2> QED BY <1>4, <1>5, <2>1
<1>9. pc' = "addresses" => rest' = Of(db, Target)'
  BY <1>2, <1>6, <1>8
<1>10. bpos' <= Len(Mentioning')
  <2>1. PICK n : n = Len(Mentioning)
    OBVIOUS
  <2>2. n \in Nat
    <3>1. answer \in Seq(Item) /\ authority \in Seq(Item)
      BY <1>2, Running
    <3>2. PICK u : u = answer \o authority
      OBVIOUS
    <3>3. Len(u) \in Nat
      BY <3>1, <3>2
    <3> QED BY <2>1, <3>2, <3>3 DEF Mentioning
  <2> QED BY <1>2, <1>4, <2>1, <2>2
<1>11. AddedIs'
  BY <1>2, <1>3, <1>6, <1>7, <1>8, <1>9, <1>10 DEF AddedIs
<1> QED BY <1>2, <1>3, <1>11 DEF GivenInv

\* An address of a name mentioned, or what an unreadable record leaves.
LEMMA GlueTurnGiven ==
  ASSUME OwnInv, GivenInv, GlueTurn
  PROVE GivenInv'
<1>1. PICK b, t, i : b = bpos /\ t = Target /\ i = Stop(FALSE)
  OBVIOUS
<1>2. /\ Frame /\ pc = "addresses" /\ pc' = "addresses" /\ Busy /\ TypeOK /\ ~Ended(FALSE) /\ FindNext(FALSE)
      /\ UNCHANGED <<db, now, loc, q, qtype, answer, authority, bpos>>
  BY DEF GlueTurn, Frame, asked, Busy, OwnInv
<1>3. LastIs' /\ AddedIs
  <2>1. LastIs /\ AddedIs
    BY <1>2 DEF GivenInv
  <2> QED BY <1>2, <2>1, LastStays
<1>4. /\ Mentioning' = Mentioning /\ Targets(bpos)' = Targets(b) /\ Target' = t
  <2>1. Mentioning' = Mentioning /\ Targets(b)' = Targets(b) /\ TargetOf(b)' = TargetOf(b) /\ bpos' = b
    BY <1>1, <1>2, SameTargets
  <2> QED BY <1>1, <2>1 DEF Target
<1>5. rest \subseteq Of(db, t) /\ t \in Targets(b) /\ b <= Len(Mentioning) /\ IsSection(additional)
      /\ \A k \in DOMAIN additional : Extra(additional[k])
  BY <1>1, <1>2, <1>3 DEF AddedIs
<1>6. rest' \subseteq Of(db, Target)'
  <2>1. rest' \subseteq rest
    BY <1>2, NextTyped
  <2>2. Of(db, Target)' = Of(db, t)
    BY <1>2, <1>4
  <2> QED BY <1>5, <2>1, <2>2
<1>7. i \in rest /\ i \in Places /\ i \in Stops(FALSE) /\ Rec(i).owner = t
  <2>1. i \in rest /\ i \in Places /\ i \in Stops(FALSE)
    BY <1>1, <1>2, StopIs
  <2> QED BY <1>5, <2>1 DEF Of, Rec
<1>8. PICK r : r = IF Took(FALSE) THEN RR(t, i)
                   ELSE [owner |-> t, place |-> 0, type |-> "A", ttl |-> 0]
  OBVIOUS
<1>9. additional' = additional \/ (additional' = Append(additional, r) /\ type' = "A")
  BY <1>1, <1>8 DEF GlueTurn
<1>10. type' = "A" => Extra(r)
  <2>1. CASE Took(FALSE)
    <3>1. Rec(i) \in Record /\ Visible(Rec(i), FALSE) /\ ~Rec(i).long
      BY <1>1, <1>2, <2>1, TookIs
    <3>2. r = RR(t, i) /\ type' = Rec(i).type
      BY <1>1, <1>2, <1>8, <2>1, <3>1 DEF FindNext
    <3>3. r.owner = t /\ r.place = i /\ r.type = Rec(i).type /\ r.ttl = ttl(Rec(i))
      BY <3>2 DEF RR
    <3>4. Genuine(r) /\ ~Rec(r.place).wild
      BY <1>7, <3>1, <3>3 DEF Genuine, Visible, Places
    <3>5. EndsWith(r)
      BY <1>2, <3>1, <3>3, TtlIs DEF EndsWith
    <3> QED BY <1>1, <1>5, <3>2, <3>3, <3>4, <3>5 DEF Extra
  <2>2. CASE ~Took(FALSE)
    <3>1. r = [owner |-> t, place |-> 0, type |-> "A", ttl |-> 0]
      BY <1>8, <2>2
    <3>2. Rec(i).long /\ i \in Of(db, t)
      BY <1>1, <1>2, <1>5, <1>7, <2>2 DEF Took, Ended
    <3> QED BY <1>1, <1>5, <3>1, <3>2 DEF Extra
  <2> QED BY <2>1, <2>2
<1>11. \A e : Extra(e) => Extra(e)'
  <2>1. \A e : Genuine(e)' = Genuine(e) /\ EndsWith(e)' = EndsWith(e) /\ Of(db, e.owner)' = Of(db, e.owner)
    BY <1>2, SameGiven
  <2>2. \A k : Rec(k)' = Rec(k)
    BY <1>2, SameGiven
  <2>3. \A e : Rec(e.place)' = Rec(e.place)
    BY <1>2, SameGiven
  <2> QED BY <1>1, <1>4, <2>1, <2>2, <2>3 DEF Extra
<1>12. IsSection(additional') /\ \A k \in DOMAIN additional' : Extra(additional'[k])
  <2>1. CASE additional' = additional
    BY <1>5, <2>1
  <2>2. CASE additional' = Append(additional, r) /\ type' = "A"
    <3>1. PICK D : additional \in Seq(D)
      BY <1>5 DEF IsSection
    <3>2. additional \in Seq(D \cup {r})
      BY <3>1
    <3>3. additional' \in Seq(D \cup {r})
      BY <2>2, <3>2
    <3>4. \A k \in DOMAIN additional' : (k \in DOMAIN additional /\ additional'[k] = additional[k]) \/ additional'[k] = r
      BY <2>2, <3>1
    <3> QED BY <1>5, <1>10, <2>2, <3>3, <3>4 DEF IsSection
  <2> QED BY <1>9, <2>1, <2>2
<1>13. AddedIs'
  BY <1>1, <1>2, <1>4, <1>5, <1>6, <1>11, <1>12 DEF AddedIs
<1> QED BY <1>2, <1>3, <1>13 DEF GivenInv

\* The end of the records of a name, and of the response.
LEMMA GlueEndGiven ==
  ASSUME OwnInv, GivenInv, GlueEnd \/ Finish
  PROVE GivenInv'
<1>1. PICK b : b = bpos
  OBVIOUS
<1>2. /\ Frame /\ pc \in {"glue", "addresses"} /\ pc' \in {"glue", "idle"} /\ Busy
      /\ UNCHANGED <<db, now, loc, q, qtype, answer, bpos>>
      /\ pc' = "glue" => UNCHANGED <<authority, additional>>
      /\ pc' = "idle" => bpos = Len(Mentioning)
      /\ pc' = "idle" => additional' = <<>> \/ UNCHANGED <<authority, additional>>
  BY DEF GlueEnd, Finish, Frame, asked, Busy
<1>3. LastIs' /\ AddedIs
  <2>1. LastIs /\ AddedIs
    BY <1>2 DEF GivenInv
  <2> QED BY <1>2, <2>1, LastStays
<1>4. CASE UNCHANGED <<authority, additional>>
  <2>1. Mentioning' = Mentioning /\ Targets(b)' = Targets(b) /\ bpos' = b
    BY <1>1, <1>2, <1>4, SameTargets
  <2>2. Targets(b) \subseteq Targets(bpos)'
    BY <2>1
  <2>3. \A i \in DOMAIN additional' : Extra(additional[i])'
    BY <1>1, <1>2, <1>3, <1>4, <2>2, AddedStays DEF AddedIs
  <2> QED BY <1>2, <1>3, <1>4, <2>1, <2>3 DEF GivenInv, AddedIs
<1>5. CASE additional' = <<>> /\ pc' = "idle"
  BY <1>2, <1>3, <1>5 DEF GivenInv
<1> QED BY <1>2, <1>4, <1>5

\* Nothing of it changes without a query.
LEMMA SameGivenInv == ASSUME GivenInv, UNCHANGED vars PROVE GivenInv'
<1> SUFFICES ASSUME Busy' PROVE GivenInv'
  BY DEF GivenInv
<1>1. UNCHANGED <<db, now, loc, q, qtype, answer, authority, additional, pc, reply, rest, bpos, wild, addr,
                  addrttl, flagfound>>
  BY DEF vars, asked, work
<1>2. Busy
  BY <1>1 DEF Busy
<1>3. PICK b, t : b = bpos /\ t = Target
  OBVIOUS
<1>4. Mentioning' = Mentioning /\ Targets(b)' = Targets(b) /\ TargetOf(b)' = TargetOf(b) /\ bpos' = b
  BY <1>1, <1>3, SameTargets
<1>5. Targets(bpos)' = Targets(b) /\ Target' = t
  BY <1>3, <1>4 DEF Target
<1>6. \A i \in DOMAIN additional : Extra(additional[i]) => Extra(additional[i])'
  BY <1>1, <1>3, <1>5, AddedStays
<1>7. Of(db, Target)' = Of(db, t)
  BY <1>1, <1>5
<1>8. AddedIs => AddedIs'
  BY <1>1, <1>3, <1>4, <1>5, <1>6, <1>7 DEF AddedIs
<1>9. LastIs => LastIs'
  <2>1. CASE pc = "answer"
    <3>1. PICK d, w, S, R : d = wild /\ w = (wild # q) /\ S = Seen(d, w) /\ R = OfType(S, "A")
      OBVIOUS
    <3>2. Seen(d, w)' = S
      BY <1>1, <3>1 DEF Seen, Shown, Of, Visible, Alive, Rec
    <3>3. Seen(wild, wild # q)' = S
      BY <1>1, <3>1, <3>2
    <3>4. Read' = R /\ Read = R
      BY <1>1, <3>1, <3>3, SameAnswers DEF Read
    <3>5. PICK h, r : h = Highest(R) /\ r = Rec(h)
      OBVIOUS
    <3>6. Highest(Read)' = h
      BY <3>4, <3>5 DEF Highest
    <3>7. Rec(Highest(Read))' = r /\ ttl(r)' = ttl(r)
      BY <1>1, <3>5, <3>6, SameRecords DEF Rec
    <3>8. (ttl(Rec(Highest(Read))))' = ttl(r) /\ ttl(Rec(Highest(Read))) = ttl(r)
      BY <3>4, <3>5, <3>7
    <3>9. Ordered(wild)' = Ordered(wild) /\ Asked("A")' = Asked("A")
      BY <1>1 DEF Ordered, Of, Asked
    <3> QED BY <1>1, <2>1, <3>8, <3>9 DEF LastIs
  <2>2. CASE pc = "control"
    BY <1>1, <2>2 DEF LastIs
  <2>3. CASE pc \notin {"control", "answer"}
    BY <1>1, <2>3, LastStays
  <2> QED BY <2>1, <2>2, <2>3
<1> QED BY <1>1, <1>2, <1>4, <1>6, <1>8, <1>9 DEF GivenInv

\* GivenInv holds in every state.
THEOREM TdLookupGivenInv == Spec => []GivenInv
<1>1. Init => GivenInv
  BY DEF Init, GivenInv, Busy
<1>2. OwnInv /\ GivenInv /\ [Next]_vars => GivenInv'
  <2> SUFFICES ASSUME OwnInv, GivenInv, [Next]_vars PROVE GivenInv'
    OBVIOUS
  <2>1. CASE Return \/ Publish \/ Tick \/ ClockSetBack
    <3>1. pc' = "idle" /\ reply' = "none"
      BY <2>1 DEF Return, Publish, Tick, ClockSetBack
    <3> QED BY <3>1, SilentGiven
  <2>2. ASSUME NEW client, NEW name, NEW t, Respond(client, name, t) PROVE GivenInv'
    <3>1. \/ pc' = "idle" /\ reply' = "silent"
          \/ pc' = "control" /\ additional' = <<>> /\ bpos' = 0
      BY <2>2 DEF Respond, Silent
    <3>2. CASE pc' = "control" /\ additional' = <<>> /\ bpos' = 0
      BY <3>2 DEF GivenInv, LastIs, AddedIs
    <3> QED BY <3>1, <3>2, SilentGiven
  <2>3. ASSUME Doit PROVE GivenInv'
    <3>1. ASSUME NEW at, NEW w, Fails(at, w) PROVE GivenInv'
      <4>1. pc' = "idle" /\ reply' = "silent"
        BY <3>1 DEF Fails, Silent
      <4> QED BY <4>1, SilentGiven
    <3>2. ASSUME NoRoom PROVE GivenInv'
      BY <3>2, SilentGiven DEF NoRoom, Silent
    <3>3. CASE Fails("answer", wild # q) \/ Fails("soa", FALSE) \/ Fails("ns", FALSE)
      BY <3>1, <3>3
    <3> QED BY <2>3, <3>2, <3>3, ControlGiven, AnswerTurnGiven, AnswerEndGiven, AuthorityGiven, GlueNameGiven,
               GlueTurnGiven, GlueEndGiven DEF Doit
  <2> QED BY <2>1, <2>2, <2>3, SameGivenInv DEF Next
<1> QED BY <1>1, <1>2, TdLookupOwn, PTL DEF Spec

\* Of what is sent all is genuine, or invented for a name that cannot be read.
LEMMA OwnShows == OwnInv /\ GivenInv => NothingForeign /\ TtlRight
<1> SUFFICES ASSUME OwnInv, GivenInv PROVE NothingForeign /\ TtlRight
  OBVIOUS
<1>1. TypeOK /\ WildBelowControl
  BY DEF OwnInv, NamesOK
<1>2. Sent => \A r \in ToSet(answer) \cup ToSet(authority) : r \in Item
  <2>1. ASSUME Sent PROVE answer \in Seq(Item) /\ authority \in Seq(Item)
    BY <2>1 DEF OwnInv, ItemsOK, Busy, Sent
  <2>2. \A s : s \in Seq(Item) => ToSet(s) \subseteq Item
    BY DEF ToSet
  <2> QED BY <2>1, <2>2
<1>3. Sent => \A r \in ToSet(additional) : Extra(r) /\ bpos = Len(Mentioning)
  BY DEF GivenInv, Busy, Sent, ToSet
<1>4. OnlyGenuine
  BY <1>2, <1>3 DEF OnlyGenuine, Item, Extra
<1>5. TtlRight
  <2>1. Sent => \A i \in AtA : answer[i].ttl = ttl(Rec(Highest(Beside(answer[i].place))))
    BY DEF GivenInv, LastIs, Busy, Sent
  <2> QED BY <1>2, <1>3, <2>1 DEF TtlRight, Item, LifeOK, Extra
<1> QED BY <1>1, <1>4, <1>5 DEF NothingForeign

\* Whatever cannot be read, types are kept, the search for an answer stays
\* between the name and its zone (tdlookup.c:201); answer and authority hold
\* only what is in the database for this client and this moment, and so does
\* the additional section but for names with a record that cannot be read.
THEOREM TdLookupNothingForeign == Spec => []NothingForeign
BY TdLookupOwn, TdLookupGivenInv, OwnShows, PTL

\* No answer is from a file that was replaced more than a second ago; no
\* record gets a lifetime beyond its end, but the addresses of an answer that
\* of the last of them; and of two versions that hand over just one is
\* visible (tdlookup.c:70-85, :164, :194, :289-300).
THEOREM TdLookupTimely == Spec => []Timely
<1>1. HandsOver
  BY DEF HandsOver, Alive
<1>2. OwnInv /\ GivenInv => TtlRight
  BY OwnShows
<1> QED BY <1>1, <1>2, TdLookupFresh, TdLookupOwn, TdLookupGivenInv, PTL DEF Timely
=============================================================================

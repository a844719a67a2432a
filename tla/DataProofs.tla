------------------------------ MODULE DataProofs ------------------------------
(***************************************************************************)
(* Proofs about data on the disk.  The constant database, for every number *)
(* of tables, width of positions, hash function, and set of keys and data: *)
(* the file, its tables, the searches, and that they are together a        *)
(* Multimap.  tinydns-edit, for any number of editors, letters and         *)
(* commands.  The publication of data.cdb, for files of any number of      *)
(* lines, any number of versions and readers, and any set of bad versions. *)
(***************************************************************************)
EXTENDS ZoneData, FiniteSetTheorems, SequenceTheorems, WellFoundedInduction, NaturalsInduction, TLAPS

Types ==
  /\ maker \in {"adding", "finishing", "filling", "done", "failed"}
  /\ hp \in Seq([h : Nat, p : Nat])
  /\ added \in Seq([key : Key, data : Datum])
  /\ pos \in Nat /\ pos < Wide /\ written \in Nat /\ written >= HeaderLen

(* A set of numbers has a least and, if it is bounded, a greatest.         *)
LEMMA LeastNatural ==
  ASSUME NEW S \in SUBSET Nat, S # {}
  PROVE  \E n \in S : \A m \in S : n <= m
<1> DEFINE less == OpToRel(<, Nat)
<1>1. \E n \in S : \A m \in S : ~(<<m, n>> \in less)
  BY NatLessThanWellFounded, WFMin
<1>2. less = {s \in Nat \X Nat : s[1] < s[2]}
  BY Zenon DEF OpToRel
<1>3. \A m, n \in Nat : m < n => <<m, n>> \in less
  <2> HIDE DEF less
  <2> QED  BY <1>2
<1> HIDE DEF less
<1>4. PICK n \in S : \A m \in S : ~(<<m, n>> \in less)
  BY <1>1
<1>5. \A m \in S : ~(m < n)
  BY <1>3, <1>4, Zenon
<1> QED
  BY <1>5

LEMMA GreatestNatural ==
  ASSUME NEW S \in SUBSET Nat, S # {}, NEW b \in Nat, \A n \in S : n <= b
  PROVE  \E n \in S : \A m \in S : m <= n
<1> DEFINE T == {b - n : n \in S}
<1>1. T \in SUBSET Nat /\ T # {}
  <2>1. \A n \in S : b - n \in Nat
    OBVIOUS
  <2> QED  BY <2>1
<1>2. PICK t \in T : \A u \in T : t <= u
  BY <1>1, LeastNatural
<1>3. PICK n \in S : t = b - n
  BY <1>2
<1>4. ASSUME NEW m \in S PROVE m <= n
  <2>1. b - n <= b - m
    BY <1>2, <1>3
  <2> QED  BY <2>1
<1> QED
  BY <1>4

LEMMA Appended ==
  ASSUME NEW S, NEW s \in Seq(S), NEW e \in S
  PROVE  /\ Append(s, e) \in Seq(S) /\ Len(Append(s, e)) = Len(s) + 1
         /\ Append(s, e)[Len(s) + 1] = e
         /\ \A i \in 1..Len(s) : Append(s, e)[i] = s[i]
OBVIOUS

LEMMA Element ==
  ASSUME NEW S, NEW s \in Seq(S), NEW i \in 1..Len(s)
  PROVE  s[i] \in S /\ Len(s) \in Nat
OBVIOUS

LEMMA SumSmall ==
  ASSUME NEW p \in Nat, NEW len \in Nat, p + len < Wide, Wide \in Nat
  PROVE  PosPlus(p, len) = p + len
BY DEF PosPlus

LEMMA SumWraps ==
  ASSUME NEW p \in Nat, NEW len \in Nat, p < Wide, len < Wide, p + len >= Wide, Wide \in Nat
  PROVE  PosPlus(p, len) = p + len - Wide
BY DEF PosPlus

(* uint32 sums.                                                            *)
LEMMA SumFits ==
  ASSUME NEW p \in Nat, NEW len \in Nat, p < Wide, len < Wide, ~Overflows(p, len),
         Wide \in Nat
  PROVE  PosPlus(p, len) = p + len /\ p + len < Wide
<1>1. CASE p + len < Wide
  BY <1>1 DEF PosPlus
<1>2. CASE p + len >= Wide
  <2>1. (p + len) % Wide = p + len - Wide
    BY <1>2
  <2> QED
    BY <1>2, <2>1 DEF Overflows, PosPlus
<1> QED
  BY <1>1, <1>2

LEMMA SumBounded ==
  ASSUME NEW p \in Nat, NEW len \in Nat, Wide \in Nat \ {0}
  PROVE  PosPlus(p, len) \in Nat /\ PosPlus(p, len) < Wide
BY DEF PosPlus

LEMMA Sizes ==
  ASSUME NEW k \in Key, NEW d \in Datum
  PROVE  /\ KeyLen[k] \in Nat /\ KeyLen[k] < Wide
         /\ DataLen[d] \in Nat /\ DataLen[d] < Wide
         /\ EntryLen(k, d) \in Nat /\ EntryLen(k, d) >= 8
         /\ Wide \in Nat \ {0} /\ HeaderLen \in Nat /\ HeaderLen < Wide /\ 8 < Wide
         /\ Hash[k] \in Nat
BY FileAssumption DEF EntryLen, HeaderLen

(* An entry that does not overflow ends inside the 32 bits.                *)
LEMMA EntryFits ==
  ASSUME NEW k \in Key, NEW d \in Datum, pos \in Nat, pos < Wide, ~EntryOverflows(k, d)
  PROVE  PosPlus(pos, EntryLen(k, d)) = pos + EntryLen(k, d)
<1> USE Sizes
<1>1. PosPlus(pos, 8) = pos + 8 /\ pos + 8 < Wide
  BY SumFits DEF EntryOverflows
<1>2. PosPlus(pos + 8, KeyLen[k]) = pos + 8 + KeyLen[k] /\ pos + 8 + KeyLen[k] < Wide
  BY <1>1, SumFits DEF EntryOverflows
<1>3. pos + 8 + KeyLen[k] + DataLen[d] < Wide
  BY <1>1, <1>2, SumFits DEF EntryOverflows
<1> QED
  BY <1>3 DEF PosPlus, EntryLen

(* What cdb_make_finish keeps of the tables: the header names tables that   *)
(* were written, one behind the other, with two slots for every entry.     *)
HeaderOK ==
  maker # "failed" =>
    /\ table \in 0..Tables /\ last \in Nat
    /\ final \in [0..Tables - 1 -> [pos : Nat, len : Nat]]
    /\ \A i \in 0..table - 1 :
         /\ final[i].len = TableLen(i)
         /\ final[i].pos + 8 * final[i].len <= written
         /\ \A n \in 0..final[i].len - 1 : final[i].pos + 8 * n \in DOMAIN slots
    /\ maker = "adding" => table = 0
    /\ maker = "filling" =>
         /\ table < Tables
         /\ final[table] = [pos |-> written, len |-> TableLen(table)]
         /\ DOMAIN hash = 0..final[table].len - 1
    /\ maker = "done" => table = Tables

(* The entries of a table are a finite set.                                *)
LEMMA MineFinite ==
  ASSUME Types, NEW i
  PROVE  /\ IsFiniteSet(Mine(i)) /\ Cardinality(Mine(i)) \in Nat
         /\ TableLen(i) \in Nat /\ Mine(i) \subseteq 1..Len(hp)
<1>1. Len(hp) \in Nat /\ DOMAIN hp = 1..Len(hp)
  BY DEF Types
<1>2. IsFiniteSet(1..Len(hp))
  BY <1>1, FS_Interval
<1>3. Mine(i) \in SUBSET (1..Len(hp))
  BY <1>1 DEF Mine
<1>4. IsFiniteSet(Mine(i)) /\ Cardinality(Mine(i)) \in Nat
  BY <1>2, <1>3, FS_Subset, FS_CardinalityType
<1> QED
  BY <1>3, <1>4 DEF TableLen

(* The entries of the tables change with the list only.                    *)
LEMMA MineSame ==
  ASSUME hp' = hp, NEW i
  PROVE  Mine(i)' = Mine(i) /\ TableLen(i)' = TableLen(i)
BY DEF Mine, TableLen, TableOf

LEMMA NotMaking ==
  ASSUME Find \/ Stopped \/ UNCHANGED vars
  PROVE  UNCHANGED makerVars
BY DEF Find, FindStart, FindNext, AllProbed, ProbeEmpty, ProbeOther,
       ProbeMatch, ReadFails, Stopped, vars

LEMMA LayoutInit == Init => Types /\ Layout
BY FileAssumption DEF Init, Types, Layout, Placed, HeaderLen

LEMMA LayoutAdd ==
  ASSUME Types, Layout, NEW k \in Key, NEW d \in Datum, Add(k, d)
  PROVE  Types' /\ Layout'
<1> USE Sizes
<1> DEFINE e == [h |-> Hash[k], p |-> pos]
           a == [key |-> k, data |-> d]
           H == [h : Nat, p : Nat]
           A == [key : Key, data : Datum]
<1>a. hp \in Seq(H) /\ added \in Seq(A) /\ e \in H /\ a \in A
  BY DEF Types
<1>b. hp' = Append(hp, e) /\ added' = Append(added, a)
  BY DEF Add
<1>c. /\ hp' \in Seq(H) /\ Len(hp') = Len(hp) + 1
      /\ hp'[Len(hp) + 1] = e /\ \A i \in 1..Len(hp) : hp'[i] = hp[i]
  <2> HIDE DEF e, H
  <2> QED  BY <1>a, <1>b, Appended
<1>d. /\ added' \in Seq(A) /\ Len(added') = Len(added) + 1
      /\ added'[Len(added) + 1] = a /\ \A i \in 1..Len(added) : added'[i] = added[i]
  <2> HIDE DEF a, A
  <2> QED  BY <1>a, <1>b, Appended
<1>e. Len(hp) \in Nat
  BY <1>a
<1>f. written \in Nat
  BY DEF Types
<1>1. Types'
  <2>1. maker' \in {"adding", "failed"} /\ pos' = PosPlus(pos, EntryLen(k, d))
        /\ written' = written + EntryLen(k, d)
    BY DEF Add
  <2>2. pos' \in Nat /\ pos' < Wide
    BY <2>1, SumBounded DEF Types
  <2>3. written' \in Nat /\ written' >= HeaderLen
    BY <2>1 DEF Types
  <2> QED
    BY <1>c, <1>d, <2>1, <2>2, <2>3 DEF Types
<1>2. ASSUME maker' # "failed" PROVE Layout'
  <2>1. /\ maker = "adding" /\ pos = written /\ Len(hp) = Len(added)
        /\ pos' = pos + EntryLen(k, d) /\ written' = written + EntryLen(k, d)
    BY <1>2, EntryFits DEF Types, Layout, Add
  <2>2. Len(hp') = Len(hp) + 1 /\ Len(added') = Len(hp')
    BY <2>1, <1>c, <1>d
  <2>3. ASSUME NEW i \in 1..Len(hp') PROVE Placed(i)'
    <3>1. CASE i = Len(hp) + 1
      <4>1. hp'[i] = [h |-> Hash[k], p |-> pos] /\ added'[i] = [key |-> k, data |-> d]
        BY <2>1, <3>1, <1>c, <1>d
      <4>2. written \in DOMAIN entries' /\ entries'[written] = [key |-> k, data |-> d]
        BY DEF Add
      <4> QED
        BY <2>1, <2>2, <3>1, <4>1, <4>2 DEF Placed, Types
    <3>2. CASE i \in 1..Len(hp)
      <4>1. hp'[i] = hp[i] /\ added'[i] = added[i] /\ Placed(i)
        BY <2>1, <3>2, <1>c, <1>d DEF Layout
      <4>2. added[i].key \in Key /\ added[i].data \in Datum /\ hp[i].p \in Nat
        <5>1. added[i] \in A /\ hp[i] \in H
          <6> HIDE DEF A, H
          <6> QED  BY <2>1, <3>2, <1>a, Element
        <5> QED  BY <5>1
      <4>3. hp[i].p < written
        <5>1. EntryLen(added[i].key, added[i].data) \in Nat
              /\ EntryLen(added[i].key, added[i].data) >= 8
          BY <4>2, Sizes
        <5>2. hp[i].p + EntryLen(added[i].key, added[i].data) <= written
          BY <4>1 DEF Placed
        <5> QED  BY <5>1, <5>2, <4>2, <1>f
      <4>4. hp[i].p \in DOMAIN entries' /\ entries'[hp[i].p] = entries[hp[i].p]
        BY <4>1, <4>2, <4>3 DEF Placed, Add
      <4>5. i < Len(hp') => hp'[i + 1].p = (IF i < Len(hp) THEN hp[i + 1].p ELSE pos)
        <5>1. CASE i < Len(hp)
          <6>1. i + 1 \in 1..Len(hp)
            BY <5>1, <3>2, <1>e
          <6> QED  BY <5>1, <6>1, <1>c
        <5>2. CASE i = Len(hp)
          BY <5>2, <1>c, <1>e
        <5> QED  BY <5>1, <5>2, <3>2, <1>e
      <4>6. EntryLen(added[i].key, added[i].data) \in Nat
        BY <4>2, Sizes
      <4>7. hp[i].p + EntryLen(added[i].key, added[i].data) <= written'
        <5>1. hp[i].p + EntryLen(added[i].key, added[i].data) <= written
          BY <4>1 DEF Placed
        <5>2. EntryLen(k, d) \in Nat
          BY Sizes
        <5> QED  BY <5>1, <5>2, <4>2, <4>6, <2>1, <1>f
      <4>8. i < Len(hp') => hp[i].p + EntryLen(added[i].key, added[i].data) <= hp'[i + 1].p
        BY <4>1, <4>5, <2>1, <2>2, <3>2, <1>e DEF Placed
      <4> QED
        BY <4>1, <4>4, <4>7, <4>8 DEF Placed
    <3> QED
      BY <2>2, <2>3, <3>1, <3>2 DEF Types
  <2> QED
    BY <2>1, <2>2, <2>3 DEF Layout
<1> QED
  BY <1>1, <1>2 DEF Layout

LEMMA LayoutWriteTable ==
  ASSUME Types, Layout, WriteTable, final[table].len \in Nat
  PROVE  Types' /\ Layout'
<1> DEFINE len == final[table].len
<1>1. len \in Nat
  OBVIOUS
<1>2. Types'
  <2>1. written' = written + 8 * len /\ pos' = PosPlus(pos, 8 * len)
    BY DEF WriteTable
  <2> QED
    <3> HIDE DEF len
    <3>1. pos' \in Nat /\ pos' < Wide
      BY <1>1, <2>1, SumBounded, FileAssumption DEF Types
    <3>2. written' \in Nat /\ written' >= HeaderLen
      BY <1>1, <2>1, FileAssumption DEF Types, HeaderLen
    <3> QED
      BY <3>1, <3>2 DEF Types, WriteTable
<1>3. ASSUME maker' # "failed" PROVE Layout'
  <2>1. pos = written /\ Len(hp) = Len(added) /\ \A i \in 1..Len(hp) : Placed(i)
    BY DEF WriteTable, Layout
  <2>2. written' = written + 8 * len /\ pos' = PosPlus(pos, 8 * len)
        /\ \A n \in 0..len - 1 : ~Overflows(PosPlus(pos, 8 * n), 8)
    BY <1>3 DEF WriteTable
  <2>3. pos' = pos + 8 * len
    <3>1. pos + 8 * len < Wide
      <4> SUFFICES ASSUME pos + 8 * len >= Wide PROVE FALSE
        BY <1>1, FileAssumption DEF Types
      <4> DEFINE n == (Wide - 1 - pos) \div 8
      <4>1. n \in 0..len - 1 /\ pos + 8 * n < Wide /\ pos + 8 * n + 8 >= Wide
        BY <1>1, FileAssumption DEF Types
      <4>2. PosPlus(pos, 8 * n) = pos + 8 * n
        BY <4>1, FileAssumption, SumSmall DEF Types
      <4>3. 8 < Wide
        BY FileAssumption
      <4>4. PosPlus(pos + 8 * n, 8) = pos + 8 * n + 8 - Wide
        <5>1. pos + 8 * n \in Nat
          BY <4>1 DEF Types
        <5> QED  BY <5>1, <4>1, <4>3, FileAssumption, SumWraps
      <4>5. Overflows(PosPlus(pos, 8 * n), 8)
        BY <4>1, <4>2, <4>4, FileAssumption DEF Overflows, Types
      <4> QED
        BY <2>2, <4>1, <4>5
    <3> HIDE DEF len
    <3> PICK size \in Nat : size = 8 * len
      BY <1>1
    <3>2. PosPlus(pos, size) = pos + size
      BY <3>1, SumSmall, FileAssumption DEF Types
    <3> QED
      BY <2>2, <3>2
  <2>4. ASSUME NEW i \in 1..Len(hp) PROVE Placed(i)'
    <3>1. Placed(i) /\ written' >= written
      BY <1>1, <2>1, <2>2 DEF Types
    <3>2. hp' = hp /\ added' = added /\ entries' = entries
      BY DEF WriteTable
    <3>3. hp[i].p \in Nat /\ added[i].key \in Key /\ added[i].data \in Datum
      <4>0. hp \in Seq([h : Nat, p : Nat]) /\ added \in Seq([key : Key, data : Datum])
            /\ i \in 1..Len(added)
        BY <2>1 DEF Types
      <4>1. hp[i] \in [h : Nat, p : Nat] /\ added[i] \in [key : Key, data : Datum]
        BY <4>0, Element
      <4> QED  BY <4>1
    <3>4. EntryLen(added[i].key, added[i].data) \in Nat
      BY <3>3, Sizes
    <3>5. hp[i].p + EntryLen(added[i].key, added[i].data) <= written'
      <4>1. hp[i].p + EntryLen(added[i].key, added[i].data) <= written
        BY <3>1 DEF Placed
      <4>2. written \in Nat /\ written' \in Nat
        BY <1>2 DEF Types
      <4> QED  BY <4>1, <4>2, <3>1, <3>3, <3>4
    <3> QED
      BY <3>1, <3>2, <3>5 DEF Placed
  <2> QED
    BY <2>1, <2>2, <2>3, <2>4 DEF Layout, WriteTable
<1> QED
  BY <1>2, <1>3 DEF Layout

LEMMA LayoutStep ==
  ASSUME Types, Layout, HeaderOK, [Next]_vars
  PROVE  Types' /\ Layout'
<1>1. ASSUME NEW k \in Key, NEW d \in Datum, Add(k, d) PROVE Types' /\ Layout'
  BY <1>1, LayoutAdd
<1>2. CASE WriteTable
  <2>1. final[table].len \in Nat
    BY <1>2, MineFinite DEF WriteTable, HeaderOK
  <2> QED
    BY <1>2, <2>1, LayoutWriteTable
<1>3. CASE MakerFails \/ Finish \/ ClearTable \/ PutEntry \/ WriteHeader
  BY <1>3 DEF MakerFails, Finish, ClearTable, PutEntry, WriteHeader, readerVars, Types,
              Layout, Placed
<1>4. CASE UNCHANGED makerVars
  BY <1>4 DEF makerVars, Types, Layout, Placed
<1>5. CASE Find \/ Stopped \/ UNCHANGED vars
  <2>1. UNCHANGED makerVars
    BY <1>5, NotMaking
  <2> QED
    BY <2>1, <1>4
<1> QED
  BY <1>1, <1>2, <1>3, <1>5 DEF Next, Make

-----------------------------------------------------------------------------
(* The header.                                                             *)
LEMMA HeaderInit == Init => HeaderOK
<1> SUFFICES ASSUME Init PROVE HeaderOK
  OBVIOUS
<1>1. Tables \in Nat
  BY FileAssumption
<1>2. final \in [0..Tables - 1 -> [pos : Nat, len : Nat]] /\ table = 0 /\ last = 0 /\ maker = "adding"
  BY DEF Init
<1> QED
  BY <1>1, <1>2 DEF HeaderOK

LEMMA HeaderStep ==
  ASSUME Types, Layout, HeaderOK, [Next]_vars
  PROVE  HeaderOK'
<1> SUFFICES ASSUME maker' # "failed" PROVE HeaderOK'
  BY DEF HeaderOK
<1>t. Tables \in Nat /\ written \in Nat
  BY FileAssumption DEF Types
<1>1. CASE WriteTable
  <2> DEFINE len == final[table].len
             offsets == {written + 8 * n : n \in 0..len - 1}
  <2>1. /\ maker = "filling" /\ maker' = "finishing" /\ table \in 0..Tables - 1
        /\ final \in [0..Tables - 1 -> [pos : Nat, len : Nat]] /\ last \in Nat
        /\ final[table] = [pos |-> written, len |-> TableLen(table)]
    BY <1>1, <1>t DEF HeaderOK, WriteTable
  <2>2. /\ final' = final /\ hp' = hp /\ last' = last /\ table' = table + 1
        /\ written' = written + 8 * len
        /\ DOMAIN slots' = DOMAIN slots \cup offsets
    BY <1>1 DEF WriteTable
  <2>3. len \in Nat /\ written' \in Nat /\ written' >= written
    BY <2>1, <2>2, <1>t, MineFinite
  <2>4. ASSUME NEW i \in 0..table' - 1
        PROVE  /\ final[i].len = TableLen(i)
               /\ final[i].pos + 8 * final[i].len <= written'
               /\ \A n \in 0..final[i].len - 1 : final[i].pos + 8 * n \in DOMAIN slots'
    <3>1. CASE i = table
      <4>1. final[i].pos = written /\ final[i].len = len /\ len = TableLen(i)
        BY <3>1, <2>1
      <4> HIDE DEF len
      <4>2. \A n \in 0..len - 1 : written + 8 * n \in offsets
        OBVIOUS
      <4> HIDE DEF offsets
      <4> QED
        BY <4>1, <4>2, <2>2, <2>3
    <3>2. CASE i # table
      <4>1. i \in 0..table - 1 /\ final[i] \in [pos : Nat, len : Nat]
        BY <3>2, <2>1, <2>2, <1>t
      <4>2. /\ final[i].len = TableLen(i) /\ final[i].pos + 8 * final[i].len <= written
            /\ \A n \in 0..final[i].len - 1 : final[i].pos + 8 * n \in DOMAIN slots
        BY <4>1, <2>1 DEF HeaderOK
      <4>3. final[i].pos + 8 * final[i].len \in Nat
        BY <4>1
      <4> HIDE DEF len, offsets
      <4> QED
        BY <4>2, <4>3, <2>2, <2>3, <1>t
    <3> QED  BY <3>1, <3>2
  <2>5. table' \in 0..Tables /\ maker' = "finishing" /\ \A i : TableLen(i)' = TableLen(i)
    BY <2>1, <2>2, <1>t, MineSame
  <2> HIDE DEF len, offsets
  <2> QED
    BY <2>1, <2>2, <2>4, <2>5 DEF HeaderOK
<1>2. CASE ClearTable
  <2> DEFINE len == TableLen(table)
  <2>1. /\ maker = "finishing" /\ maker' = "filling" /\ table \in 0..Tables - 1
        /\ final \in [0..Tables - 1 -> [pos : Nat, len : Nat]]
        /\ pos = written
    BY <1>2, <1>t DEF HeaderOK, ClearTable, Layout
  <2>2. len \in Nat
    BY MineFinite
  <2>3. /\ final' = [final EXCEPT ![table] = [pos |-> pos, len |-> len]]
        /\ UNCHANGED <<hp, table, slots, written>> /\ last' = 0
        /\ hash' = [n \in 0..len - 1 |-> Empty]
    BY <1>2 DEF ClearTable
  <2>4. \A i : TableLen(i)' = TableLen(i)
    BY <2>3, MineSame
  <2> HIDE DEF len
  <2>5. final' \in [0..Tables - 1 -> [pos : Nat, len : Nat]]
    BY <2>1, <2>2, <2>3, <1>t
  <2>6. final'[table] = [pos |-> written, len |-> len]
        /\ \A i \in 0..table - 1 : final'[i] = final[i]
    BY <2>1, <2>3, <1>t
  <2>7. \A i \in 0..table - 1 :
         /\ final[i].len = TableLen(i)
         /\ final[i].pos + 8 * final[i].len <= written
         /\ \A n \in 0..final[i].len - 1 : final[i].pos + 8 * n \in DOMAIN slots
    BY <2>1 DEF HeaderOK
  <2>8. DOMAIN hash' = 0..final'[table].len - 1 /\ len = TableLen(table)
    BY <2>3, <2>6 DEF len
  <2> QED
    BY <2>1, <2>3, <2>4, <2>5, <2>6, <2>7, <2>8, <1>t DEF HeaderOK
<1>3. CASE PutEntry
  <2>1. /\ UNCHANGED <<maker, hp, table, final, slots, written>>
        /\ DOMAIN hash' = DOMAIN hash /\ last' \in Left /\ maker = "filling"
    <3> DEFINE next == CHOOSE j \in Left : \A k \in Left : j <= k
    <3>1. last' = next /\ Left # {} /\ Left \subseteq Nat
      BY <1>3, MineFinite DEF PutEntry, Left
    <3>2. next \in Left
      BY <3>1, LeastNatural
    <3> QED
      BY <1>3, <3>1, <3>2 DEF PutEntry
  <2>2. last' \in Nat
    BY <2>1, MineFinite DEF Left
  <2>3. \A i : TableLen(i)' = TableLen(i)
    BY <2>1, MineSame
  <2> QED
    BY <2>1, <2>2, <2>3 DEF HeaderOK
<1>4. CASE WriteHeader
  <2>1. \A i : TableLen(i)' = TableLen(i)
    BY <1>4, MineSame DEF WriteHeader
  <2> QED
    BY <1>4, <2>1 DEF WriteHeader, HeaderOK
<1>5. ASSUME NEW k \in Key, NEW d \in Datum, Add(k, d) PROVE HeaderOK'
  <2>1. /\ table = 0 /\ UNCHANGED <<table, last, final>> /\ maker' = "adding"
    BY <1>5 DEF Add, HeaderOK
  <2>2. 0..table - 1 = {}
    BY <2>1
  <2> QED
    BY <1>5, <2>1, <2>2 DEF Add, HeaderOK
<1>6. CASE MakerFails \/ Finish
  <2>1. \A i : TableLen(i)' = TableLen(i)
    BY <1>6, MineSame DEF MakerFails, Finish
  <2> QED
    BY <1>6, <2>1 DEF MakerFails, Finish, HeaderOK
<1>7. CASE Find \/ Stopped \/ UNCHANGED vars
  <2>1. UNCHANGED makerVars
    BY <1>7, NotMaking
  <2>2. \A i : TableLen(i)' = TableLen(i)
    BY <2>1, MineSame DEF makerVars
  <2> QED
    BY <2>1, <2>2 DEF makerVars, HeaderOK
<1> QED
  BY <1>1, <1>2, <1>3, <1>4, <1>5, <1>6, <1>7 DEF Next, Make

(* For every number of tables, every width of positions and every sequence *)
(* of pairs: unless it reports failure, cdb_make keeps its 32-bit position *)
(* equal to the length of the file and knows where each pair lies.         *)
THEOREM CdbLayout == Spec => []Layout
<1>1. Init => Types /\ Layout /\ HeaderOK
  BY LayoutInit, HeaderInit
<1>2. Types /\ Layout /\ HeaderOK /\ [Next]_vars => (Types /\ Layout /\ HeaderOK)'
  BY LayoutStep, HeaderStep
<1> QED
  BY <1>1, <1>2, PTL DEF Spec

LEMMA ModStep ==
  ASSUME NEW L \in Nat \ {0}, NEW a \in Nat
  PROVE  a % L \in 0..L - 1
OBVIOUS

LEMMA ModSum ==
  ASSUME NEW L \in Nat \ {0}, NEW s \in 0..L - 1, NEW n \in 0..L
  PROVE  (s + n) % L = IF s + n < L THEN s + n ELSE s + n - L
<1>1. CASE s + n < L
  BY <1>1
<1>2. CASE s + n >= L
  BY <1>2
<1> QED
  BY <1>1, <1>2

LEMMA BehindPlace ==
  ASSUME NEW len \in Nat \ {0}, NEW h \in Nat, NEW n \in 0..len,
         NEW s, s = (h \div Tables) % len
  PROVE  /\ s \in 0..len - 1
         /\ Behind(h, len, n) = IF s + n < len THEN s + n ELSE s + n - len
         /\ Behind(h, len, n) \in 0..len - 1
<1>1. h \div Tables \in Nat
  BY FileAssumption
<1>2. s \in 0..len - 1
  BY <1>1, ModStep
<1>3. (s + n) % len = IF s + n < len THEN s + n ELSE s + n - len
  BY <1>2, ModSum
<1> QED
  BY <1>2, <1>3 DEF Behind

(* The slots behind the start of a search, around the end, are the table.  *)
LEMMA BehindOne ==
  ASSUME NEW len \in Nat, NEW h \in Nat, NEW m \in 0..len - 1, NEW n \in 0..len - 1
  PROVE  /\ Behind(h, len, n) \in 0..len - 1
         /\ Behind(h, len, m) = Behind(h, len, n) => m = n
<1> PICK s : s = (h \div Tables) % len
  OBVIOUS
<1>1. len \in Nat \ {0} /\ m \in 0..len /\ n \in 0..len
  OBVIOUS
<1>2. /\ s \in 0..len - 1 /\ Behind(h, len, n) \in 0..len - 1
      /\ Behind(h, len, n) = IF s + n < len THEN s + n ELSE s + n - len
      /\ Behind(h, len, m) = IF s + m < len THEN s + m ELSE s + m - len
  BY <1>1, BehindPlace
<1> QED
  BY <1>1, <1>2

LEMMA WrapOnce ==
  ASSUME NEW len \in Nat, NEW n \in 0..len - 1, NEW s \in 0..len - 1, NEW a, NEW b,
         a = IF s + n < len THEN s + n ELSE s + n - len,
         b = IF s + (n + 1) < len THEN s + (n + 1) ELSE s + (n + 1) - len
  PROVE  a \in 0..len - 1 /\ b = IF a + 1 = len THEN 0 ELSE a + 1
OBVIOUS

LEMMA BehindNext ==
  ASSUME NEW len \in Nat \ {0}, NEW h \in Nat, NEW n \in 0..len - 1
  PROVE  /\ Behind(h, len, n) \in 0..len - 1 /\ Behind(h, len, n + 1) \in 0..len - 1
         /\ Behind(h, len, n + 1) = IF Behind(h, len, n) + 1 = len THEN 0
                                    ELSE Behind(h, len, n) + 1
<1> PICK s : s = (h \div Tables) % len
  OBVIOUS
<1>1. n \in 0..len /\ n + 1 \in 0..len
  OBVIOUS
<1>2. /\ s \in 0..len - 1 /\ Behind(h, len, n) \in 0..len - 1
      /\ Behind(h, len, n) = IF s + n < len THEN s + n ELSE s + n - len
  BY <1>1, BehindPlace
<1>3. /\ Behind(h, len, n + 1) \in 0..len - 1
      /\ Behind(h, len, n + 1) = IF s + (n + 1) < len THEN s + (n + 1) ELSE s + (n + 1) - len
  BY <1>1, BehindPlace
<1> QED
  BY <1>2, <1>3, WrapOnce

LEMMA BehindAll ==
  ASSUME NEW len \in Nat, NEW h \in Nat, NEW at \in 0..len - 1
  PROVE  \E n \in 0..len - 1 : Behind(h, len, n) = at
<1> PICK s : s = (h \div Tables) % len
  OBVIOUS
<1>1. len \in Nat \ {0} /\ 0 \in 0..len
  OBVIOUS
<1>2. s \in 0..len - 1
  BY <1>1, BehindPlace
<1>3. PICK n \in 0..len - 1 : n = IF at >= s THEN at - s ELSE at - s + len
  BY <1>2
<1>4. n \in 0..len
  BY <1>3
<1>5. Behind(h, len, n) = IF s + n < len THEN s + n ELSE s + n - len
  BY <1>1, <1>4, BehindPlace
<1> QED
  BY <1>2, <1>3, <1>5

(* The entries begin at different positions, none of them at 0.            *)
LEMMA Ordered ==
  ASSUME Types, Layout, maker # "failed",
         NEW j \in 1..Len(hp), NEW k \in 1..Len(hp), j < k
  PROVE  hp[j].p < hp[k].p
<1>1. Len(hp) \in Nat /\ Len(hp) = Len(added)
  BY DEF Types, Layout
<1>2. ASSUME NEW i \in 1..Len(hp) PROVE hp[i].p \in Nat
  <2>1. hp[i] \in [h : Nat, p : Nat]
    BY Element DEF Types
  <2> QED  BY <2>1
<1>3. ASSUME NEW i \in 1..Len(hp), i < Len(hp) PROVE hp[i].p < hp[i + 1].p
  <2>1. added[i] \in [key : Key, data : Datum]
    BY <1>1, Element DEF Types
  <2> PICK len : len = EntryLen(added[i].key, added[i].data)
    OBVIOUS
  <2>2. len \in Nat /\ len >= 8
    BY <2>1, Sizes
  <2>3. hp[i].p + len <= hp[i + 1].p
    BY <1>3 DEF Layout, Placed
  <2>4. hp[i].p \in Nat /\ hp[i + 1].p \in Nat
    BY <1>1, <1>2, <1>3
  <2> QED  BY <2>2, <2>3, <2>4
<1> DEFINE Off == {i \in 1..Len(hp) : j < i /\ ~(hp[j].p < hp[i].p)}
<1>4. SUFFICES ASSUME Off # {} PROVE FALSE
  OBVIOUS
<1>5. PICK i \in Off : \A m \in Off : i <= m
  <2>1. Off \in SUBSET Nat
    BY <1>1
  <2> HIDE DEF Off
  <2> QED  BY <1>4, <2>1, LeastNatural
<1>6. PICK b : b = i - 1
  OBVIOUS
<1>7. b \in 1..Len(hp) /\ b < Len(hp) /\ i = b + 1 /\ j <= b /\ ~(b \in Off)
  <2>1. i \in 1..Len(hp) /\ j < i
    OBVIOUS
  <2>2. ~(b \in Off)
    <3> HIDE DEF Off
    <3>1. i \in Nat /\ b < i /\ b \in Int
      BY <2>1, <1>6, <1>1
    <3>2. b \in Off => b \in Nat
      BY <1>1 DEF Off
    <3> QED  BY <3>1, <3>2, <1>5
  <2> HIDE DEF Off
  <2> QED  BY <2>1, <2>2, <1>1, <1>6
<1>8. hp[b].p < hp[i].p
  BY <1>3, <1>7
<1>9. j = b \/ hp[j].p < hp[b].p
  BY <1>7, <1>1
<1> QED
  <2>1. hp[j].p \in Nat /\ hp[b].p \in Nat /\ hp[i].p \in Nat /\ ~(hp[j].p < hp[i].p)
    BY <1>2, <1>7
  <2> QED  BY <1>8, <1>9, <2>1

LEMMA Apart ==
  ASSUME Types, Layout, maker # "failed", NEW j \in 1..Len(hp)
  PROVE  /\ hp[j].p \in Nat \ {0} /\ hp[j].h \in Nat
         /\ added[j].key \in Key /\ hp[j].h = Hash[added[j].key]
         /\ entries[hp[j].p] = added[j]
         /\ \A k \in 1..Len(hp) : hp[k] = hp[j] => k = j
<1>1. hp[j] \in [h : Nat, p : Nat] /\ added[j] \in [key : Key, data : Datum] /\ Len(hp) \in Nat
  <2>1. Len(hp) = Len(added)
    BY DEF Layout
  <2> QED  BY <2>1, Element DEF Types
<1>2. Placed(j)
  BY DEF Layout
<1>3. HeaderLen \in Nat /\ HeaderLen > 0
  BY FileAssumption DEF HeaderLen
<1>4. ASSUME NEW k \in 1..Len(hp), hp[k] = hp[j] PROVE k = j
  <2>1. hp[j].p \in Nat
    BY <1>1
  <2>2. ~(j < k) /\ ~(k < j)
    BY <1>4, <2>1, Ordered
  <2> QED  BY <2>2, <1>1
<1> QED
  BY <1>1, <1>2, <1>3, <1>4 DEF Placed

(* A table with more slots than entries has a free slot.                   *)
Once(t, len, S) ==
  /\ \A n \in 0..len - 1 : t[n].p = 0 \/ \E j \in S : t[n] = hp[j]
  /\ \A m, n \in 0..len - 1 : t[m].p # 0 /\ t[m] = t[n] => m = n

LEMMA SomeFree ==
  ASSUME NEW len \in Nat, NEW t, NEW S, IsFiniteSet(S), Cardinality(S) < len, Once(t, len, S)
  PROVE  \E n \in 0..len - 1 : t[n].p = 0
<1> SUFFICES ASSUME \A n \in 0..len - 1 : t[n].p # 0 PROVE FALSE
  OBVIOUS
<1> DEFINE f == [n \in 0..len - 1 |-> CHOOSE j \in S : t[n] = hp[j]]
<1>1. \A n \in 0..len - 1 : f[n] \in S /\ t[n] = hp[f[n]]
  BY DEF Once
<1>2. \A m, n \in 0..len - 1 : f[m] = f[n] => m = n
  BY <1>1 DEF Once
<1>3. f \in Injection(0..len - 1, S)
  BY <1>1, <1>2 DEF Injection, IsInjective
<1> HIDE DEF f
<1>4. Cardinality(0..len - 1) <= Cardinality(S)
  BY <1>3, FS_Injection
<1>5. Cardinality(S) \in Nat
  BY FS_CardinalityType
<1>6. Cardinality(0..len - 1) = len
  <2>1. 0 \in Int /\ len - 1 \in Int /\ ~(0 > len - 1) /\ (len - 1) - 0 + 1 = len
    BY <1>5
  <2> QED  BY <2>1, FS_Interval
<1> QED
  BY <1>4, <1>5, <1>6

(* The first free slot behind a start.                                     *)
FreeFirst(t, h, len, n) ==
  t[Behind(h, len, n)].p = 0 /\ \A m \in 0..n - 1 : t[Behind(h, len, m)].p # 0

(* A table, its entries so far, and the place of the next.                 *)
Room(t, len, S, next, first) ==
  /\ S \subseteq 1..Len(hp) /\ next \in 1..Len(hp) /\ \A j \in S : j < next
  /\ Holds(t, len, S) /\ DOMAIN t = 0..len - 1
  /\ IsFiniteSet(S \cup {next}) /\ Cardinality(S \cup {next}) < len
  /\ first \in 0..len - 1 /\ FreeFirst(t, hp[next].h, len, first)

(* PutEntry keeps a table right.                                           *)
LEMMA Filled ==
  ASSUME Types, Layout, maker # "failed",
         NEW len \in Nat, NEW t, NEW S, NEW next, NEW first, Room(t, len, S, next, first)
  PROVE  Holds([t EXCEPT ![Behind(hp[next].h, len, first)] = hp[next]], len, S \cup {next})
<1> PICK u : u = [t EXCEPT ![Behind(hp[next].h, len, first)] = hp[next]]
  OBVIOUS
<1>s. /\ S \subseteq 1..Len(hp) /\ next \in 1..Len(hp) /\ \A j \in S : j < next
      /\ Holds(t, len, S) /\ DOMAIN t = 0..len - 1
      /\ first \in 0..len - 1 /\ FreeFirst(t, hp[next].h, len, first)
  BY DEF Room
<1> USE <1>s
<1> PICK at : at = Behind(hp[next].h, len, first)
  OBVIOUS
<1> DEFINE T == S \cup {next}
<1>n. Len(hp) \in Nat
  BY DEF Types
<1>h. \A j \in 1..Len(hp) : hp[j].h \in Nat /\ hp[j].p \in Nat \ {0}
  BY Apart
<1>1. at \in 0..len - 1 /\ t[at].p = 0
  BY <1>h, BehindOne DEF FreeFirst
<1>2. u[at] = hp[next] /\ \A n \in 0..len - 1 : n # at => u[n] = t[n]
  BY <1>1
<1>3. \A n \in 0..len - 1 : u[n].p = 0 \/ \E j \in T : u[n] = hp[j]
  BY <1>2 DEF Holds
<1>4. ASSUME NEW m \in 0..len - 1, NEW n \in 0..len - 1, u[m].p # 0, u[m] = u[n]
      PROVE  m = n
  <2>1. ASSUME NEW i \in 0..len - 1, i # at PROVE u[i] # hp[next]
    <3>1. u[i] = t[i] /\ (t[i].p = 0 \/ \E j \in S : t[i] = hp[j])
      BY <1>2, <2>1 DEF Holds
    <3>2. ASSUME NEW j \in S PROVE hp[j] # hp[next]
      <4>1. j \in 1..Len(hp) /\ j # next
        BY <1>n
      <4> QED  BY <4>1, Apart
    <3> QED  BY <3>1, <3>2, <1>h
  <2>2. CASE m = at \/ n = at
    BY <1>2, <1>4, <2>1, <2>2
  <2>3. CASE m # at /\ n # at
    BY <1>2, <1>4, <2>3 DEF Holds
  <2> QED  BY <2>2, <2>3
<1>5. ASSUME NEW j \in T
      PROVE  \E far \in 0..len - 1 :
               /\ u[Behind(hp[j].h, len, far)] = hp[j]
               /\ \A n \in 0..far : u[Behind(hp[j].h, len, n)].p # 0
               /\ \A k \in T : k < j /\ hp[k].h = hp[j].h =>
                    \E n \in 0..far - 1 : u[Behind(hp[j].h, len, n)] = hp[k]
  <2>b. \A k \in 1..Len(hp), n \in 0..len - 1 : Behind(hp[k].h, len, n) \in 0..len - 1
    BY <1>h, BehindOne
  <2>1. CASE j \in S
    <3>1. PICK far \in 0..len - 1 :
             /\ t[Behind(hp[j].h, len, far)] = hp[j]
             /\ \A n \in 0..far : t[Behind(hp[j].h, len, n)].p # 0
             /\ \A k \in S : k < j /\ hp[k].h = hp[j].h =>
                  \E n \in 0..far - 1 : t[Behind(hp[j].h, len, n)] = hp[k]
      BY <2>1 DEF Holds
    <3>2. ASSUME NEW n \in 0..far
          PROVE  u[Behind(hp[j].h, len, n)] = t[Behind(hp[j].h, len, n)]
      <4>1. n \in 0..len - 1 /\ j \in 1..Len(hp)
        BY <2>1
      <4>2. Behind(hp[j].h, len, n) \in 0..len - 1 /\ t[Behind(hp[j].h, len, n)].p # 0
        BY <4>1, <2>b, <3>1
      <4> QED  BY <4>2, <1>1, <1>2
    <3>3. ASSUME NEW k \in T, k < j, hp[k].h = hp[j].h
          PROVE  \E n \in 0..far - 1 : u[Behind(hp[j].h, len, n)] = hp[k]
      <4>1. k \in S
        <5>1. j < next /\ j \in Nat /\ next \in Nat
          BY <2>1, <1>n
        <5>2. k # next
          BY <5>1, <3>3
        <5> QED  BY <5>2
      <4>2. PICK n \in 0..far - 1 : t[Behind(hp[j].h, len, n)] = hp[k]
        BY <4>1, <3>1, <3>3
      <4>3. n \in 0..far
        OBVIOUS
      <4> QED  BY <4>2, <4>3, <3>2
    <3>4. far \in 0..far
      OBVIOUS
    <3>5. u[Behind(hp[j].h, len, far)] = hp[j]
      BY <3>1, <3>2, <3>4
    <3>6. \A n \in 0..far : u[Behind(hp[j].h, len, n)].p # 0
      BY <3>1, <3>2
    <3> HIDE DEF T
    <3> QED  BY <3>3, <3>5, <3>6
  <2>2. CASE j = next
    <3>1. u[Behind(hp[j].h, len, first)] = hp[j] /\ hp[j].p # 0
      BY <2>2, <1>2, <1>h
    <3>2. ASSUME NEW n \in 0..first - 1
          PROVE  u[Behind(hp[j].h, len, n)] = t[Behind(hp[j].h, len, n)]
      <4>1. n \in 0..len - 1 /\ t[Behind(hp[j].h, len, n)].p # 0
        BY <2>2 DEF FreeFirst
      <4>2. Behind(hp[j].h, len, n) \in 0..len - 1
        BY <4>1, <2>2, <2>b
      <4> QED  BY <4>1, <4>2, <1>1, <1>2
    <3>3. ASSUME NEW n \in 0..first PROVE u[Behind(hp[j].h, len, n)].p # 0
      <4>1. CASE n = first
        BY <4>1, <3>1
      <4>2. CASE n \in 0..first - 1
        BY <4>2, <2>2, <3>2 DEF FreeFirst
      <4> QED  BY <4>1, <4>2
    <3>4. ASSUME NEW k \in T, k < j, hp[k].h = hp[j].h
          PROVE  \E n \in 0..first - 1 : u[Behind(hp[j].h, len, n)] = hp[k]
      <4>1. k \in S
        <5>1. k # next
          BY <2>2, <3>4, <1>n
        <5> QED  BY <5>1
      <4>2. PICK far \in 0..len - 1 :
               /\ t[Behind(hp[k].h, len, far)] = hp[k]
               /\ \A n \in 0..far : t[Behind(hp[k].h, len, n)].p # 0
               /\ \A i \in S : i < k /\ hp[i].h = hp[k].h =>
                    \E n \in 0..far - 1 : t[Behind(hp[k].h, len, n)] = hp[i]
        BY <4>1 DEF Holds
      <4>3. far < first
        <5>1. t[Behind(hp[k].h, len, first)].p = 0
          BY <3>4, <2>2 DEF FreeFirst
        <5>2. ~(first \in 0..far)
          BY <5>1, <4>2
        <5> QED  BY <5>2
      <4>4. far \in 0..first - 1 /\ t[Behind(hp[j].h, len, far)] = hp[k]
        BY <4>2, <4>3, <3>4
      <4> QED  BY <4>4, <3>2
    <3> HIDE DEF T
    <3> QED  BY <3>1, <3>3, <3>4
  <2> QED  BY <2>1, <2>2
<1>6. len > 0 => \E n \in 0..len - 1 : u[n].p = 0
  <2> HIDE DEF T
  <2>1. IsFiniteSet(T) /\ Cardinality(T) < len
    BY DEF T, Room
  <2>2. Once(u, len, T)
    BY <1>3, <1>4 DEF Once
  <2> QED  BY <2>1, <2>2, SomeFree
<1> HIDE DEF T
<1>7. Holds(u, len, T)
  BY <1>3, <1>4, <1>5, <1>6 DEF Holds
<1> QED
  BY <1>7 DEF T

(* What a table holds is told by its slots and the list.                   *)
LEMMA HoldsAgree ==
  ASSUME Types, Layout, maker # "failed", NEW len \in Nat, NEW t, NEW u,
         NEW S \in SUBSET (1..Len(hp)), Holds(t, len, S),
         \A n \in 0..len - 1 : u[n] = t[n]
  PROVE  Holds(u, len, S)
<1>1. \A j \in S, n \in 0..len - 1 : Behind(hp[j].h, len, n) \in 0..len - 1
  BY Apart, BehindOne
<1>2. ASSUME NEW j \in S, NEW far \in 0..len - 1, NEW n \in 0..far
      PROVE  u[Behind(hp[j].h, len, n)] = t[Behind(hp[j].h, len, n)]
  <2>1. n \in 0..len - 1
    OBVIOUS
  <2>2. Behind(hp[j].h, len, n) \in 0..len - 1
    BY <2>1, <1>1
  <2> QED  BY <2>2
<1>3. ASSUME NEW j \in S
      PROVE  \E far \in 0..len - 1 :
               /\ u[Behind(hp[j].h, len, far)] = hp[j]
               /\ \A n \in 0..far : u[Behind(hp[j].h, len, n)].p # 0
               /\ \A k \in S : k < j /\ hp[k].h = hp[j].h =>
                    \E n \in 0..far - 1 : u[Behind(hp[j].h, len, n)] = hp[k]
  <2>1. PICK far \in 0..len - 1 :
          /\ t[Behind(hp[j].h, len, far)] = hp[j]
          /\ \A n \in 0..far : t[Behind(hp[j].h, len, n)].p # 0
          /\ \A k \in S : k < j /\ hp[k].h = hp[j].h =>
               \E n \in 0..far - 1 : t[Behind(hp[j].h, len, n)] = hp[k]
    BY DEF Holds
  <2>2. \A n \in 0..far : u[Behind(hp[j].h, len, n)] = t[Behind(hp[j].h, len, n)]
    BY <1>2
  <2>3. far \in 0..far /\ \A n \in 0..far - 1 : n \in 0..far
    OBVIOUS
  <2>4. u[Behind(hp[j].h, len, far)] = hp[j]
    BY <2>1, <2>2, <2>3
  <2>5. \A n \in 0..far : u[Behind(hp[j].h, len, n)].p # 0
    BY <2>1, <2>2
  <2>6. ASSUME NEW k \in S, k < j, hp[k].h = hp[j].h
        PROVE  \E n \in 0..far - 1 : u[Behind(hp[j].h, len, n)] = hp[k]
    <3>1. PICK n \in 0..far - 1 : t[Behind(hp[j].h, len, n)] = hp[k]
      BY <2>1, <2>6
    <3> QED  BY <3>1, <2>2, <2>3
  <2> QED  BY <2>4, <2>5, <2>6
<1>4. /\ \A n \in 0..len - 1 : u[n].p = 0 \/ \E j \in S : u[n] = hp[j]
      /\ \A m, n \in 0..len - 1 : u[m].p # 0 /\ u[m] = u[n] => m = n
      /\ len > 0 => \E n \in 0..len - 1 : u[n].p = 0
  BY DEF Holds
<1> QED
  BY <1>3, <1>4 DEF Holds

LEMMA HoldsSame ==
  ASSUME hp' = hp, NEW t, NEW len, NEW S, Holds(t, len, S)
  PROVE  Holds(t, len, S)'
BY DEF Holds

(* One step of cdb_make_finish.                                            *)
LEMMA CleanTable ==
  ASSUME Types, Layout, HeaderOK, maker # "failed", ClearTable
  PROVE  Holds(hash', final'[table'].len, (Mine(table) \ Left)')
<1>1. PICK len \in Nat : len = TableLen(table)
  BY MineFinite
<1>2. table \in 0..Tables - 1 /\ final \in [0..Tables - 1 -> [pos : Nat, len : Nat]]
  BY FileAssumption DEF ClearTable, HeaderOK
<1>3. table' = table /\ final'[table'].len = len /\ hp' = hp /\ last' = 0
  BY <1>1, <1>2 DEF ClearTable
<1>4. hash' = [n \in 0..len - 1 |-> Empty]
  BY <1>1 DEF ClearTable
<1>5. (Mine(table) \ Left)' = {}
  <2>1. Mine(table)' \subseteq 1..Len(hp) /\ Len(hp) \in Nat
    BY <1>3, MineFinite DEF Mine, TableOf, Types
  <2>2. Left' = Mine(table)'
    BY <1>3, <2>1 DEF Left
  <2> QED  BY <2>2
<1>6. \A n \in 0..len - 1 : hash'[n].p = 0
  BY <1>4 DEF Empty
<1>7. Holds(hash', len, {})
  BY <1>6 DEF Holds
<1> QED
  BY <1>3, <1>5, <1>7

LEMMA Following ==
  ASSUME NEW k \in Nat, NEW n \in Nat, NEW m \in Nat, n > m, k > m => n <= k
  PROVE  ~(k > n) <=> (~(k > m) \/ k = n)
OBVIOUS

LEMMA NextEntry ==
  ASSUME Types, Layout, HeaderOK, TablesOK, PutEntry
  PROVE  Holds(hash', final'[table'].len, (Mine(table) \ Left)')
<1> PICK len \in Nat : len = final[table].len /\ len = TableLen(table)
  BY MineFinite DEF PutEntry, HeaderOK
<1> PICK S : S = Mine(table) \ Left
  OBVIOUS
<1> PICK next : next = CHOOSE j \in Left : \A k \in Left : j <= k
  OBVIOUS
<1> PICK h : h = hp[next].h
  OBVIOUS
<1> DEFINE free(n) == hash[Behind(h, len, n)].p = 0
<1> PICK first : first = CHOOSE n \in 0..len - 1 : free(n) /\ \A m \in 0..n - 1 : ~free(m)
  OBVIOUS
<1>1. /\ maker = "filling" /\ Left # {} /\ last' = next /\ UNCHANGED <<maker, hp, table, final>>
      /\ hash' = [hash EXCEPT ![Behind(h, len, first)] = hp[next]]
  BY DEF PutEntry
<1>2. /\ Holds(hash, len, S) /\ DOMAIN hash = 0..len - 1 /\ last \in Nat
  BY <1>1 DEF TablesOK, HeaderOK
<1>3. /\ Mine(table) \subseteq 1..Len(hp) /\ Len(hp) \in Nat
      /\ IsFiniteSet(Mine(table)) /\ Cardinality(Mine(table)) \in Nat
      /\ len = 2 * Cardinality(Mine(table))
  BY MineFinite DEF Types, TableLen
<1>4. Left \subseteq Nat /\ Left \subseteq Mine(table)
  BY <1>3 DEF Left
<1>5. next \in Left /\ \A k \in Left : next <= k
  BY <1>1, <1>4, LeastNatural
<1>6. S \subseteq 1..Len(hp) /\ next \in 1..Len(hp) /\ \A j \in S : j < next
  BY <1>2, <1>3, <1>4, <1>5 DEF Left
<1>7. (Mine(table) \ Left)' = S \cup {next}
  <2>1. Mine(table)' = Mine(table)
    BY <1>1, MineSame
  <2>2. Left' = {j \in Mine(table) : j > next}
    BY <1>1, <2>1 DEF Left
  <2>3. S = {j \in Mine(table) : ~(j > last)}
    BY DEF Left
  <2>4. next > last /\ next \in Mine(table) /\ \A k \in Mine(table) : k > last => next <= k
    BY <1>5 DEF Left
  <2>5. ASSUME NEW k \in Mine(table) PROVE ~(k > next) <=> (~(k > last) \/ k = next)
    <3>1. k \in Nat /\ next \in Nat /\ last \in Nat
      BY <1>2, <1>3, <2>4
    <3>2. next > last /\ (k > last => next <= k)
      BY <2>4
    <3> QED  BY <3>1, <3>2, Following
  <2> QED  BY <2>1, <2>2, <2>3, <2>4, <2>5
<1>8. IsFiniteSet(S \cup {next}) /\ Cardinality(S \cup {next}) < len
  <2>1. S \cup {next} \in SUBSET Mine(table)
    BY <1>4, <1>5
  <2>2. IsFiniteSet(S \cup {next}) /\ Cardinality(S \cup {next}) <= Cardinality(Mine(table))
    BY <1>3, <2>1, FS_Subset
  <2>3. Cardinality(Mine(table)) # 0
    BY <1>3, <1>4, <1>5, FS_EmptySet
  <2>4. Cardinality(S \cup {next}) \in Nat
    BY <2>2, FS_CardinalityType
  <2> QED  BY <1>3, <2>2, <2>3, <2>4
<1>9. h \in Nat
  BY <1>1, <1>6, Apart
<1>10. first \in 0..len - 1 /\ free(first) /\ \A m \in 0..first - 1 : ~free(m)
  <2> DEFINE Frees == {n \in 0..len - 1 : free(n)}
  <2>0. len > 0
    BY <1>8, FS_CardinalityType
  <2>1. PICK at \in 0..len - 1 : hash[at].p = 0
    BY <1>2, <2>0 DEF Holds
  <2>2. \E n \in 0..len - 1 : free(n)
    BY <1>9, <2>1, BehindAll
  <2>3. Frees \in SUBSET Nat /\ Frees # {}
    <3> HIDE DEF free
    <3> QED  BY <2>2
  <2>4. PICK n \in Frees : \A m \in Frees : n <= m
    <3> HIDE DEF Frees
    <3> QED  BY <2>3, LeastNatural
  <2>5. n \in 0..len - 1 /\ free(n)
    <3> HIDE DEF free
    <3> QED  BY <2>4
  <2>6. ASSUME NEW m \in 0..n - 1 PROVE ~free(m)
    <3>1. m \in 0..len - 1 /\ ~(n <= m)
      BY <2>5
    <3>2. m \notin Frees
      <4> HIDE DEF Frees
      <4> QED  BY <2>4, <3>1
    <3> HIDE DEF free
    <3> QED  BY <3>1, <3>2
  <2> HIDE DEF Frees, free
  <2> QED  BY <2>5, <2>6
<1>11. Holds(hash', len, S \cup {next})
  <2>1. FreeFirst(hash, hp[next].h, len, first) /\ first \in 0..len - 1
    BY <1>10 DEF FreeFirst
  <2>2. Room(hash, len, S, next, first)
    <3> HIDE DEF free
    <3> QED  BY <1>2, <1>6, <1>8, <2>1 DEF Room
  <2>3. Holds([hash EXCEPT ![Behind(hp[next].h, len, first)] = hp[next]], len, S \cup {next})
    <3> HIDE DEF free
    <3> QED  BY <1>1, <2>2, Filled
  <2> QED
    BY <1>1, <2>3
<1> QED
  BY <1>1, <1>7, <1>11

LEMMA HoldsPrimed ==
  ASSUME hp' = hp, Holds(hash', final'[table'].len, (Mine(table) \ Left)')
  PROVE  Holds(hash, final[table].len, Mine(table) \ Left)'
<1> PICK t : t = hash'
  OBVIOUS
<1> PICK len : len = final'[table'].len
  OBVIOUS
<1> PICK S : S = (Mine(table) \ Left)'
  OBVIOUS
<1>1. Holds(t, len, S)'
  BY HoldsSame
<1> QED
  BY <1>1

(* A table that is in the file stays as it is.                             *)
LEMMA TableKept ==
  ASSUME Types, Layout, HeaderOK, TablesOK, maker # "failed", NEW i \in 0..table - 1, hp' = hp,
         final'[i] = final[i],
         \A n \in 0..final[i].len - 1 :
           slots'[final[i].pos + 8 * n] = slots[final[i].pos + 8 * n]
  PROVE  Holds(TableAt(i), final[i].len, Mine(i))'
<1> PICK t : t = TableAt(i)
  OBVIOUS
<1> PICK len : len = final[i].len
  OBVIOUS
<1> PICK S : S = Mine(i)
  OBVIOUS
<1>1. Holds(t, len, S)
  BY DEF TablesOK
<1>2. TableAt(i)' = t /\ final'[i].len = len
  BY DEF TableAt
<1>3. Mine(i)' = S
  BY MineSame
<1>4. Holds(t, len, S)'
  BY <1>1, HoldsSame
<1> QED
  BY <1>2, <1>3, <1>4

LEMMA TablesInit == Init => TablesOK
<1> SUFFICES ASSUME Init PROVE TablesOK
  OBVIOUS
<1>1. maker # "filling" /\ 0..table - 1 = {}
  BY DEF Init
<1> QED
  BY <1>1 DEF TablesOK

LEMMA TableWritten ==
  ASSUME Types, Layout, HeaderOK, TablesOK, WriteTable
  PROVE  \A i \in 0..table' - 1 : Holds(TableAt(i), final[i].len, Mine(i))'
<1> PICK len \in Nat : len = final[table].len
  BY MineFinite DEF WriteTable, HeaderOK
<1> DEFINE offsets == {written + 8 * n : n \in 0..len - 1}
<1>1. /\ maker = "filling" /\ Left = {} /\ final' = final /\ hp' = hp /\ table' = table + 1
      /\ slots' = [o \in DOMAIN slots \cup offsets |->
                     IF o \in offsets THEN hash[(o - written) \div 8] ELSE slots[o]]
  BY DEF WriteTable
<1>2. /\ table \in 0..Tables - 1 /\ final \in [0..Tables - 1 -> [pos : Nat, len : Nat]]
      /\ final[table].pos = written /\ written \in Nat /\ Tables \in Nat
  BY <1>1, FileAssumption DEF HeaderOK, Types
<1>3. ASSUME NEW i, i = table PROVE Holds(TableAt(i), final[i].len, Mine(i))'
  <2> PICK t : t = TableAt(i)'
    OBVIOUS
  <2> PICK S : S = Mine(i)
    OBVIOUS
  <2>1. final'[i].pos = written /\ final'[i].len = len
    BY <1>1, <1>2, <1>3
  <2>2. ASSUME NEW n \in 0..len - 1 PROVE t[n] = hash[n]
    <3>1. written + 8 * n \in offsets
      OBVIOUS
    <3>2. ((written + 8 * n) - written) \div 8 = n
      BY <1>2
    <3>3. slots'[written + 8 * n] = hash[n]
      <4> HIDE DEF offsets
      <4> QED  BY <1>1, <3>1, <3>2
    <3>4. t = [m \in 0..len - 1 |-> slots'[written + 8 * m]]
      BY <2>1 DEF TableAt
    <3> QED  BY <3>3, <3>4
  <2>3. Holds(hash, len, S)
    BY <1>1, <1>3 DEF TablesOK
  <2>4. S \subseteq 1..Len(hp)
    BY MineFinite
  <2>5. Holds(t, len, S)
    <3>1. \A n \in 0..len - 1 : t[n] = hash[n]
      BY <2>2
    <3> HIDE DEF offsets
    <3> QED  BY <1>1, <2>3, <2>4, <3>1, HoldsAgree
  <2>6. Holds(t, len, S)'
    BY <1>1, <2>5, HoldsSame
  <2>7. Mine(i)' = S
    BY <1>1, MineSame
  <2> QED  BY <2>1, <2>6, <2>7
<1>4. ASSUME NEW i \in 0..table - 1 PROVE Holds(TableAt(i), final[i].len, Mine(i))'
  <2>1. final[i] \in [pos : Nat, len : Nat] /\ final[i].pos + 8 * final[i].len <= written
    BY <1>1, <1>2 DEF HeaderOK
  <2>2. ASSUME NEW n \in 0..final[i].len - 1
        PROVE  slots'[final[i].pos + 8 * n] = slots[final[i].pos + 8 * n]
    <3> PICK o : o = final[i].pos + 8 * n
      OBVIOUS
    <3>1. o \in DOMAIN slots
      BY <1>1 DEF HeaderOK
    <3>2. o \in Nat /\ o < written
      BY <1>2, <2>1
    <3>3. o \notin offsets
      BY <1>2, <3>2
    <3> HIDE DEF offsets
    <3> QED  BY <1>1, <3>1, <3>3
  <2> QED
    BY <1>1, <2>2, TableKept
<1>5. \A i \in 0..table' - 1 : i = table \/ i \in 0..table - 1
  BY <1>1, <1>2
<1> QED
  BY <1>3, <1>4, <1>5

LEMMA TablesStep ==
  ASSUME Types, Layout, HeaderOK, TablesOK, [Next]_vars
  PROVE  TablesOK'
<1> SUFFICES ASSUME maker' # "failed" PROVE TablesOK'
  BY DEF TablesOK
<1>1. CASE WriteTable
  <2>1. maker' = "finishing"
    BY <1>1 DEF WriteTable
  <2> QED
    BY <1>1, <2>1, TableWritten DEF TablesOK
<1>2. CASE ClearTable
  <2>1. maker = "finishing" /\ hp' = hp /\ table' = table /\ slots' = slots
        /\ final' = [final EXCEPT ![table] = [pos |-> pos, len |-> TableLen(table)]]
        /\ table \in 0..Tables - 1 /\ final \in [0..Tables - 1 -> [pos : Nat, len : Nat]]
    BY <1>2, FileAssumption DEF ClearTable, HeaderOK
  <2>2. ASSUME NEW i \in 0..table - 1 PROVE Holds(TableAt(i), final[i].len, Mine(i))'
    <3>1. final'[i] = final[i]
      BY <2>1, FileAssumption
    <3> QED
      BY <2>1, <3>1, TableKept
  <2>3. Holds(hash', final'[table'].len, (Mine(table) \ Left)')
    BY <1>2, <2>1, CleanTable
  <2>4. Holds(hash, final[table].len, Mine(table) \ Left)'
    BY <2>1, <2>3, HoldsPrimed
  <2> QED
    BY <2>1, <2>2, <2>4 DEF TablesOK
<1>3. CASE PutEntry
  <2>1. maker = "filling" /\ maker' = maker /\ UNCHANGED <<hp, table, slots, final>>
    BY <1>3 DEF PutEntry
  <2>2. ASSUME NEW i \in 0..table - 1 PROVE Holds(TableAt(i), final[i].len, Mine(i))'
    BY <2>1, TableKept
  <2>3. Holds(hash', final'[table'].len, (Mine(table) \ Left)')
    BY <1>3, NextEntry
  <2>4. Holds(hash, final[table].len, Mine(table) \ Left)'
    BY <2>1, <2>3, HoldsPrimed
  <2> QED
    BY <2>1, <2>2, <2>4 DEF TablesOK
<1>4. ASSUME NEW k \in Key, NEW d \in Datum, Add(k, d) PROVE TablesOK'
  <2>1. maker' = "adding" /\ table' = 0
    BY <1>4 DEF Add, HeaderOK
  <2>2. 0..table' - 1 = {}
    BY <2>1
  <2> QED
    BY <2>1, <2>2 DEF TablesOK
<1>5. CASE UNCHANGED <<hp, table, slots, final>> /\ maker' # "filling" /\ maker # "failed"
  <2>1. ASSUME NEW i \in 0..table - 1 PROVE Holds(TableAt(i), final[i].len, Mine(i))'
    BY <1>5, TableKept
  <2> QED
    BY <1>5, <2>1 DEF TablesOK
<1>6. CASE MakerFails \/ Finish \/ WriteHeader
  BY <1>5, <1>6 DEF MakerFails, Finish, WriteHeader
<1>7. CASE Find \/ Stopped \/ UNCHANGED vars
  <2>1. UNCHANGED makerVars
    BY <1>7, NotMaking
  <2>2. CASE maker = "filling"
    <3>1. hash' = hash /\ final' = final /\ table' = table /\ hp' = hp /\ last' = last
          /\ slots' = slots /\ maker' = maker
      BY <2>1 DEF makerVars
    <3>2. Holds(hash, final[table].len, Mine(table) \ Left)
      BY <2>2 DEF TablesOK
    <3>3. (Mine(table) \ Left)' = Mine(table) \ Left
      BY <3>1 DEF Mine, TableOf, Left
    <3>4. Holds(hash, final[table].len, Mine(table) \ Left)'
      BY <3>1, <3>2, <3>3, HoldsPrimed
    <3>5. ASSUME NEW i \in 0..table - 1 PROVE Holds(TableAt(i), final[i].len, Mine(i))'
      BY <2>2, <3>1, TableKept
    <3> QED
      BY <3>1, <3>4, <3>5 DEF TablesOK
  <2>3. CASE maker # "filling"
    BY <1>5, <2>1, <2>3 DEF makerVars
  <2> QED
    BY <2>2, <2>3
<1> QED
  BY <1>1, <1>2, <1>3, <1>4, <1>6, <1>7 DEF Next, Make

(* For every number of tables and every sequence of pairs: a table holds   *)
(* its entries, also in the middle of being filled; a search for a free    *)
(* slot in it, or for a key, ends.                                         *)
THEOREM CdbTables == Spec => []TablesOK
<1>1. Init => Types /\ Layout /\ HeaderOK /\ TablesOK
  BY LayoutInit, HeaderInit, TablesInit
<1>2. Types /\ Layout /\ HeaderOK /\ TablesOK /\ [Next]_vars
        => (Types /\ Layout /\ HeaderOK /\ TablesOK)'
  BY LayoutStep, HeaderStep, TablesStep
<1> QED
  BY <1>1, <1>2, PTL DEF Spec

-----------------------------------------------------------------------------
(* The search.  A search runs on a finished file only.                     *)
SearchOK ==
  /\ loop \in Nat
  /\ key # "none" => key \in Key /\ maker = "done"
  /\ key = "none" => ret = "none"
  /\ pc = "probing" \/ loop > 0 => key # "none"
  /\ key # "none" => loop <= final[TableOf(Hash[key])].len

SearchInv == Types /\ Layout /\ HeaderOK /\ TablesOK /\ SearchOK /\ ReadsInside

LEMMA KeysTable ==
  ASSUME SearchInv, key # "none"
  PROVE  /\ TableOf(Hash[key]) \in 0..Tables - 1 /\ Hash[key] \in Nat
         /\ LET f == final[TableOf(Hash[key])] IN
              /\ f.pos \in Nat /\ f.len \in Nat
              /\ \A n \in 0..f.len - 1 : f.pos + 8 * n \in DOMAIN slots
<1>1. Hash[key] \in Nat /\ Tables \in Nat \ {0}
  BY FileAssumption DEF SearchInv, SearchOK
<1>2. TableOf(Hash[key]) \in 0..Tables - 1
  BY <1>1 DEF TableOf
<1>4. table = Tables /\ final \in [0..Tables - 1 -> [pos : Nat, len : Nat]]
  BY DEF SearchInv, SearchOK, HeaderOK
<1>5. final[TableOf(Hash[key])] \in [pos : Nat, len : Nat]
  BY <1>2, <1>4
<1> QED
  BY <1>1, <1>2, <1>4, <1>5 DEF SearchInv, SearchOK, HeaderOK

LEMMA FirstRead ==
  ASSUME SearchInv, FindNext
  PROVE  ReadsInside'
<1> DEFINE f == final[TableOf(Hash[key])]
<1>1. UNCHANGED makerVars /\ key' = key /\ loop' = loop /\ key # "none"
  BY DEF FindNext
<1>2. final' = final /\ slots' = slots
  BY <1>1 DEF makerVars
<1>3. CASE loop = 0 /\ f.len # 0
  <2>1. f.pos \in Nat /\ f.len \in Nat \ {0} /\ Hash[key] \in Nat
        /\ \A n \in 0..f.len - 1 : f.pos + 8 * n \in DOMAIN slots
    BY <1>1, <1>3, KeysTable
  <2> PICK start : start = (Hash[key] \div Tables) % f.len
    OBVIOUS
  <2>2. start \in 0..f.len - 1 /\ Behind(Hash[key], f.len, 0) = start
    <3>1. 0 \in 0..f.len
      BY <2>1
    <3>2. /\ start \in 0..f.len - 1
          /\ Behind(Hash[key], f.len, 0) = IF start + 0 < f.len THEN start + 0 ELSE start + 0 - f.len
      <4> HIDE DEF f
      <4> QED  BY <2>1, <3>1, BehindPlace
    <3> QED  BY <2>1, <3>2
  <2>3. hpos' = f.pos /\ hslots' = f.len /\ khash' = Hash[key] /\ kpos' = f.pos + 8 * start
    BY <1>3 DEF FindNext
  <2>4. kpos' \in DOMAIN slots
    BY <2>1, <2>2, <2>3
  <2>5. f.len > 0
    BY <2>1
  <2> QED
    BY <1>1, <1>2, <1>3, <2>2, <2>3, <2>4, <2>5 DEF ReadsInside, Reads
<1>4. CASE loop = 0 /\ f.len = 0
  BY <1>1, <1>4 DEF FindNext, ReadsInside
<1>5. CASE loop # 0
  <2>1. Reads
    BY <1>5 DEF SearchInv, SearchOK, ReadsInside
  <2>2. UNCHANGED <<hslots, hpos, khash, kpos>>
    BY <1>5 DEF FindNext
  <2> QED
    BY <1>1, <1>2, <2>1, <2>2 DEF ReadsInside, Reads
<1> QED
  BY <1>3, <1>4, <1>5

LEMMA NextRead ==
  ASSUME SearchInv, Looking, Advance,
         UNCHANGED <<makerVars, key, hslots, hpos, khash>>
  PROVE  ReadsInside'
<1> DEFINE f == final[TableOf(Hash[key])]
           at == Behind(Hash[key], f.len, loop)
           next == Behind(Hash[key], f.len, loop + 1)
<1>1. Reads /\ key # "none" /\ loop \in Nat
  BY DEF SearchInv, SearchOK, ReadsInside, Looking
<1>2. f.pos \in Nat /\ f.len \in Nat \ {0} /\ Hash[key] \in Nat
      /\ \A n \in 0..f.len - 1 : f.pos + 8 * n \in DOMAIN slots
  BY <1>1, KeysTable DEF Reads
<1>4. /\ at \in 0..f.len - 1 /\ next \in 0..f.len - 1
      /\ next = IF at + 1 = f.len THEN 0 ELSE at + 1
  <2>1. loop \in 0..f.len - 1
    <3>1. hslots = f.len /\ loop < hslots
      BY <1>1 DEF Looking, Reads
    <3> HIDE DEF f
    <3> QED  BY <3>1, <1>1, <1>2
  <2> HIDE DEF f
  <2> QED
    BY <1>2, <2>1, BehindNext
<1>5. kpos = f.pos + 8 * at /\ hpos = f.pos /\ hslots = f.len /\ khash = Hash[key]
  BY <1>1 DEF Reads
<1>6. loop' = loop + 1 /\ kpos' = f.pos + 8 * next
  <2>1. kpos + 8 = hpos + 8 * hslots <=> at + 1 = f.len
    <3> HIDE DEF at, f
    <3> QED  BY <1>2, <1>4, <1>5
  <2>2. CASE at + 1 = f.len
    <3>1. kpos' = f.pos /\ loop' = loop + 1
      BY <2>1, <2>2, <1>5 DEF Advance
    <3> HIDE DEF at, next, f
    <3> QED  BY <3>1, <2>2, <1>2, <1>4
  <2>3. CASE at + 1 # f.len
    <3>1. kpos' = f.pos + 8 * at + 8 /\ loop' = loop + 1
      BY <2>1, <2>3, <1>5 DEF Advance
    <3> HIDE DEF at, next, f
    <3> QED  BY <3>1, <2>3, <1>2, <1>4
  <2> QED
    BY <2>2, <2>3
<1>7. kpos' \in DOMAIN slots
  <2> HIDE DEF at, next
  <2> QED
    BY <1>2, <1>4, <1>6
<1>8. Reads'
  BY <1>1, <1>2, <1>5, <1>6, <1>7 DEF Reads, makerVars
<1> QED
  BY <1>8 DEF ReadsInside

LEMMA HomeLen ==
  ASSUME SearchInv, maker = "done", NEW k \in Key
  PROVE  /\ TableOf(Hash[k]) \in 0..table - 1
         /\ final[TableOf(Hash[k])].len \in Nat /\ final[TableOf(Hash[k])].pos \in Nat
<1>1. Hash[k] \in Nat /\ Tables \in Nat \ {0}
  BY FileAssumption
<1>2. TableOf(Hash[k]) \in 0..Tables - 1
  BY <1>1 DEF TableOf
<1>3. table = Tables /\ final \in [0..Tables - 1 -> [pos : Nat, len : Nat]]
  BY DEF SearchInv, HeaderOK
<1>4. final[TableOf(Hash[k])] \in [pos : Nat, len : Nat]
  BY <1>2, <1>3
<1> QED
  BY <1>2, <1>3, <1>4

LEMMA Counted ==
  ASSUME SearchInv, Looking, Advance, UNCHANGED <<makerVars, key, hslots>>
  PROVE  SearchOK'
<1>1. key # "none" /\ Reads /\ maker = "done" /\ key \in Key /\ loop \in Nat
  BY DEF SearchInv, SearchOK, Looking, ReadsInside
<1>2. final[TableOf(Hash[key])].len \in Nat /\ hslots = final[TableOf(Hash[key])].len
  BY <1>1, HomeLen DEF Reads
<1>3. loop' = loop + 1 /\ loop + 1 <= final[TableOf(Hash[key])].len
  BY <1>1, <1>2 DEF Looking, Advance
<1>4. key' = key /\ maker' = maker /\ final' = final
  BY DEF makerVars
<1> QED
  BY <1>1, <1>3, <1>4 DEF SearchOK

LEMMA SearchStep ==
  ASSUME SearchInv, [Next]_vars
  PROVE  SearchOK' /\ ReadsInside'
<1> USE DEF SearchInv, SearchOK
<1>1. CASE Make
  <2>1. UNCHANGED readerVars /\ maker \in {"adding", "finishing", "filling"}
    BY <1>1 DEF Make, Add, MakerFails, Finish, ClearTable, PutEntry, WriteTable, WriteHeader
  <2>2. key = "none" /\ pc # "probing" /\ ~(loop > 0)
    BY <2>1
  <2> QED
    BY <2>1, <2>2 DEF readerVars, ReadsInside
<1>2. ASSUME NEW k \in Key, FindStart(k) PROVE SearchOK' /\ ReadsInside'
  <2>1. /\ key' = k /\ loop' = 0 /\ ret' = "none" /\ pc' = "idle" /\ maker' = "done"
        /\ maker = "done" /\ final' = final
    BY <1>2 DEF FindStart, makerVars
  <2>2. 0 <= final[TableOf(Hash[k])].len
    BY <2>1, HomeLen
  <2> QED
    BY <2>1, <2>2, FileAssumption DEF ReadsInside
<1>3. CASE FindNext
  <2>1. SearchOK'
    BY <1>3 DEF FindNext, makerVars
  <2> QED
    BY <2>1, <1>3, FirstRead
<1>4. CASE AllProbed \/ ProbeEmpty
  BY <1>4 DEF AllProbed, ProbeEmpty, Looking, Return, makerVars, ReadsInside, Reads
<1>5. CASE ProbeOther \/ ProbeMatch
  <2>1. Looking /\ Advance /\ UNCHANGED <<makerVars, key, hslots, hpos, khash>>
    BY <1>5 DEF ProbeOther, ProbeMatch
  <2>2. SearchOK'
    BY <2>1, Counted
  <2> QED
    BY <2>1, <2>2, NextRead
<1>6. CASE ReadFails
  <2>1. CASE UNCHANGED <<loop, kpos>>
    BY <1>6, <2>1 DEF ReadFails, Looking, Return, makerVars, ReadsInside, Reads
  <2>2. CASE Looking /\ Advance
    <3>1. UNCHANGED <<makerVars, key, hslots, hpos, khash>>
      BY <1>6 DEF ReadFails
    <3>2. SearchOK'
      BY <3>1, <2>2, Counted
    <3> QED
      BY <3>1, <3>2, <2>2, NextRead
  <2> QED
    BY <1>6, <2>1, <2>2 DEF ReadFails
<1>7. CASE Stopped \/ UNCHANGED vars
  BY <1>7 DEF Stopped, vars, readerVars, makerVars, ReadsInside, Reads
<1> QED
  BY <1>1, <1>2, <1>3, <1>4, <1>5, <1>6, <1>7 DEF Next, Find

(* The invariant of maker and search.                                      *)
LEMMA CdbSearch == Spec => []SearchInv
<1>1. Init => SearchInv
  <2>1. ASSUME Init PROVE SearchOK /\ ReadsInside
    BY <2>1, FileAssumption DEF Init, SearchOK, ReadsInside
  <2> QED
    BY <2>1, LayoutInit, HeaderInit, TablesInit DEF SearchInv
<1>2. SearchInv /\ [Next]_vars => SearchInv'
  BY LayoutStep, HeaderStep, TablesStep, SearchStep DEF SearchInv
<1> QED
  BY <1>1, <1>2, PTL DEF Spec

(* In every search, however often it is resumed and whatever failed before,*)
(* the slot that is read next lies in the table of the key and was written.*)
THEOREM CdbReadsInside == Spec => []ReadsInside
<1>1. SearchInv => ReadsInside
  BY DEF SearchInv
<1> QED
  BY <1>1, CdbSearch, PTL

-----------------------------------------------------------------------------
(* Database and search are a multimap.                                     *)
SearchFor(k) == {j \in DOMAIN added : added[j].key = k}
PassedBy(n) ==
  {j \in DOMAIN added : added[j].key = key /\ \E m \in 0..n - 1 : Slot(m) = hp[j]}
Home == final[TableOf(Hash[key])]

(* What the slots behind the start of a search for the key hold.           *)
LEMMA HomeTable ==
  ASSUME SearchInv, key # "none"
  PROVE  /\ Home.len \in Nat /\ Hash[key] \in Nat /\ Len(hp) = Len(added) /\ Len(hp) \in Nat
         /\ \A n \in 0..Home.len - 1 :
              Behind(Hash[key], Home.len, n) \in 0..Home.len - 1
         /\ \A n \in 0..Home.len - 1 :
              Slot(n) = TableAt(TableOf(Hash[key]))[Behind(Hash[key], Home.len, n)]
         /\ Holds(TableAt(TableOf(Hash[key])), Home.len, Mine(TableOf(Hash[key])))
<1>1. maker = "done" /\ key \in Key /\ Hash[key] \in Nat
  BY FileAssumption DEF SearchInv, SearchOK
<1>2. TableOf(Hash[key]) \in 0..table - 1 /\ Home.len \in Nat
  BY <1>1, HomeLen DEF Home
<1>3. Holds(TableAt(TableOf(Hash[key])), Home.len, Mine(TableOf(Hash[key])))
  BY <1>1, <1>2 DEF SearchInv, TablesOK, Home
<1>4. \A n \in 0..Home.len - 1 : Behind(Hash[key], Home.len, n) \in 0..Home.len - 1
  BY <1>1, <1>2, BehindOne
<1>5. \A n \in 0..Home.len - 1 :
        Slot(n) = TableAt(TableOf(Hash[key]))[Behind(Hash[key], Home.len, n)]
  BY <1>4 DEF Slot, TableAt, Home
<1>6. Len(hp) = Len(added) /\ Len(hp) \in Nat
  BY <1>1 DEF SearchInv, Layout, Types
<1> QED
  BY <1>1, <1>2, <1>3, <1>4, <1>5, <1>6

LEMMA SlotHolds ==
  ASSUME SearchInv, key # "none", NEW n \in 0..Home.len - 1, Slot(n).p # 0
  PROVE  \E j \in DOMAIN added : Slot(n) = hp[j]
<1> PICK i : i = TableOf(Hash[key])
  OBVIOUS
<1> PICK at \in 0..Home.len - 1 : at = Behind(Hash[key], Home.len, n)
  BY HomeTable
<1>1. Slot(n) = TableAt(i)[at] /\ Holds(TableAt(i), Home.len, Mine(i))
  BY HomeTable
<1>2. \E j \in Mine(i) : TableAt(i)[at] = hp[j]
  BY <1>1 DEF Holds
<1>3. Mine(i) \subseteq 1..Len(hp) /\ DOMAIN added = 1..Len(added) /\ Len(hp) = Len(added)
  BY MineFinite, HomeTable DEF SearchInv, Types
<1> QED
  BY <1>1, <1>2, <1>3

LEMMA HeldOnce ==
  ASSUME NEW t, NEW len, NEW S, Holds(t, len, S), NEW m \in 0..len - 1, NEW n \in 0..len - 1,
         t[m].p # 0, t[m] = t[n]
  PROVE  m = n
BY DEF Holds

LEMMA SlotOnce ==
  ASSUME SearchInv, key # "none", NEW m \in 0..Home.len - 1, NEW n \in 0..Home.len - 1,
         Slot(m).p # 0, Slot(m) = Slot(n)
  PROVE  m = n
<1> PICK t : t = TableAt(TableOf(Hash[key]))
  OBVIOUS
<1> PICK len \in Nat : len = Home.len
  BY HomeTable
<1> PICK a \in 0..len - 1 : a = Behind(Hash[key], len, m)
  BY HomeTable
<1> PICK b \in 0..len - 1 : b = Behind(Hash[key], len, n)
  BY HomeTable
<1>1. Slot(m) = t[a] /\ Slot(n) = t[b] /\ Holds(t, len, Mine(TableOf(Hash[key])))
  BY HomeTable
<1>2. a = b
  BY <1>1, HeldOnce
<1>3. m \in 0..len - 1 /\ n \in 0..len - 1 /\ Hash[key] \in Nat
  BY HomeTable
<1> QED
  BY <1>2, <1>3, BehindOne

(* Every pair of the key lies behind the start of its search, with no free *)
(* slot in between and the earlier pairs before it.                        *)
LEMMA PairAhead ==
  ASSUME SearchInv, key # "none", NEW j \in SearchFor(key)
  PROVE  \E far \in 0..Home.len - 1 :
           /\ Slot(far) = hp[j]
           /\ \A n \in 0..far : Slot(n).p # 0
           /\ \A k \in SearchFor(key) : k < j => \E n \in 0..far - 1 : Slot(n) = hp[k]
<1> PICK i : i = TableOf(Hash[key])
  OBVIOUS
<1> PICK len \in Nat : len = Home.len
  BY HomeTable
<1>1. ASSUME NEW k \in SearchFor(key)
      PROVE  k \in 1..Len(hp) /\ hp[k].h = Hash[key] /\ k \in Mine(i)
  <2>1. k \in 1..Len(hp) /\ added[k].key = key /\ DOMAIN hp = 1..Len(hp)
    BY HomeTable DEF SearchFor, SearchInv, Types
  <2>2. hp[k].h = Hash[key]
    <3>1. Types /\ Layout /\ maker # "failed"
      BY DEF SearchInv, SearchOK
    <3> QED  BY <2>1, <3>1, Apart
  <2> QED  BY <2>1, <2>2 DEF Mine
<1>2. PICK far \in 0..len - 1 :
         /\ TableAt(i)[Behind(hp[j].h, len, far)] = hp[j]
         /\ \A n \in 0..far : TableAt(i)[Behind(hp[j].h, len, n)].p # 0
         /\ \A k \in Mine(i) : k < j /\ hp[k].h = hp[j].h =>
              \E n \in 0..far - 1 : TableAt(i)[Behind(hp[j].h, len, n)] = hp[k]
  <2>1. Holds(TableAt(i), len, Mine(i)) /\ j \in Mine(i)
    BY <1>1, HomeTable
  <2> QED  BY <2>1 DEF Holds
<1>3. ASSUME NEW n \in 0..far PROVE Slot(n) = TableAt(i)[Behind(hp[j].h, len, n)]
  <2>1. n \in 0..len - 1 /\ hp[j].h = Hash[key]
    BY <1>1
  <2> QED  BY <2>1, HomeTable
<1>4. far \in 0..far /\ \A n \in 0..far - 1 : n \in 0..far
  OBVIOUS
<1>5. Slot(far) = hp[j] /\ \A n \in 0..far : Slot(n).p # 0
  BY <1>2, <1>3, <1>4
<1>6. ASSUME NEW k \in SearchFor(key), k < j PROVE \E n \in 0..far - 1 : Slot(n) = hp[k]
  <2>1. k \in Mine(i) /\ hp[k].h = hp[j].h
    BY <1>1
  <2>2. PICK n \in 0..far - 1 : TableAt(i)[Behind(hp[j].h, len, n)] = hp[k]
    BY <1>2, <1>6, <2>1
  <2> QED  BY <2>2, <1>3, <1>4
<1> QED
  BY <1>5, <1>6

(* The place of the last pair passed.                                      *)
LEMMA LastPassed ==
  ASSUME NEW S \in SUBSET Nat, NEW b \in Nat, \A n \in S : n <= b,
         NEW c, c = CHOOSE j \in S \cup {0} : \A k \in S : k <= j
  PROVE  c \in S \cup {0} /\ \A k \in S : k <= c
<1>1. CASE S = {}
  BY <1>1
<1>2. CASE S # {}
  <2>1. \E n \in S : \A m \in S : m <= n
    BY <1>2, GreatestNatural
  <2> QED  BY <2>1
<1> QED
  BY <1>1, <1>2

LEMMA PassedNatural ==
  ASSUME SearchInv, NEW n
  PROVE  /\ PassedBy(n) \in SUBSET Nat /\ Len(added) \in Nat
         /\ \A j \in PassedBy(n) : j <= Len(added)
BY DEF PassedBy, SearchInv, Types

LEMMA CursorLast ==
  ASSUME SearchInv
  PROVE  Cursor \in Passed \cup {0} /\ (\A k \in Passed : k <= Cursor) /\ Passed = PassedBy(loop)
<1>1. Passed = PassedBy(loop)
  BY DEF Passed, PassedBy
<1>2. Passed \in SUBSET Nat /\ Len(added) \in Nat /\ \A j \in Passed : j <= Len(added)
  BY <1>1, PassedNatural
<1>3. Cursor = CHOOSE j \in Passed \cup {0} : \A k \in Passed : k <= j
  BY DEF Cursor
<1> QED
  BY <1>1, <1>2, <1>3, LastPassed

(* The next cursor, from the number of slots passed then.                  *)
LEMMA CursorNext ==
  ASSUME UNCHANGED <<makerVars, key>>
  PROVE  Passed' = PassedBy(loop')
BY DEF makerVars, Passed, PassedBy, Slot

LEMMA CursorSame ==
  ASSUME UNCHANGED <<makerVars, key>>, PassedBy(loop') = PassedBy(loop)
  PROVE  Cursor' = Cursor
<1>1. Passed' = Passed
  BY CursorNext DEF Passed, PassedBy
<1> QED
  BY <1>1 DEF Cursor

LEMMA CursorZero ==
  /\ loop = 0 => Cursor = 0
  /\ loop' = 0 => Cursor' = 0
<1>1. ASSUME loop = 0 PROVE Cursor = 0
  <2>1. Passed = {}
    BY <1>1 DEF Passed
  <2> QED  BY <2>1 DEF Cursor
<1>2. ASSUME loop' = 0 PROVE Cursor' = 0
  <2>1. Passed' = {}
    BY <1>2 DEF Passed
  <2> QED  BY <2>1 DEF Cursor
<1> QED
  BY <1>1, <1>2

(* Each pair is passed once.                                               *)
LEMMA PairApart ==
  ASSUME SearchInv, key # "none", NEW j \in SearchFor(key), NEW k \in DOMAIN added, hp[k] = hp[j]
  PROVE  k = j /\ hp[j].p # 0 /\ entries[hp[j].p] = added[j]
<1>1. Types /\ Layout /\ maker # "failed"
  BY DEF SearchInv, SearchOK
<1>2. j \in 1..Len(hp) /\ k \in 1..Len(hp)
  BY HomeTable DEF SearchFor, SearchInv, Types
<1> QED
  BY <1>1, <1>2, Apart

LEMMA NoneLeft ==
  ASSUME SearchInv, key # "none", loop >= Home.len \/ Slot(loop).p = 0
  PROVE  \A j \in SearchFor(key) : j <= Cursor
<1> SUFFICES ASSUME NEW j \in SearchFor(key) PROVE j <= Cursor
  OBVIOUS
<1>1. PICK far \in 0..Home.len - 1 : Slot(far) = hp[j] /\ \A n \in 0..far : Slot(n).p # 0
  BY PairAhead
<1>2. far < loop
  <2>1. Home.len \in Nat /\ loop \in Nat
    BY HomeTable DEF SearchInv, SearchOK
  <2>2. ~(loop \in 0..far)
    BY <1>1, <2>1
  <2> QED  BY <2>1, <2>2
<1>3. j \in PassedBy(loop)
  <2>1. far \in 0..loop - 1
    BY <1>2 DEF SearchInv, SearchOK
  <2> QED  BY <1>1, <2>1 DEF PassedBy, SearchFor
<1> QED
  BY <1>3, CursorLast

LEMMA OneMore ==
  ASSUME SearchInv
  PROVE  PassedBy(loop + 1) =
           PassedBy(loop) \cup {j \in SearchFor(key) : Slot(loop) = hp[j]}
<1>1. \A m : m \in 0..(loop + 1) - 1 <=> m \in 0..loop - 1 \/ m = loop
  BY DEF SearchInv, SearchOK
<1> QED
  BY <1>1 DEF PassedBy, SearchFor

LEMMA PassOther ==
  ASSUME SearchInv, \A j \in SearchFor(key) : Slot(loop) # hp[j]
  PROVE  PassedBy(loop + 1) = PassedBy(loop)
BY OneMore

(* The pair that a search passes is the first it had yet to pass.          *)
LEMMA PassFirst ==
  ASSUME SearchInv, key # "none", loop < Home.len, NEW j \in SearchFor(key), Slot(loop) = hp[j]
  PROVE  /\ PassedBy(loop + 1) = PassedBy(loop) \cup {j}
         /\ \A k \in PassedBy(loop) : k < j
         /\ \A k \in SearchFor(key) : k < j => k \in PassedBy(loop)
<1>t. Home.len \in Nat /\ loop \in Nat /\ loop \in 0..Home.len - 1
  BY HomeTable DEF SearchInv, SearchOK
<1>1. PassedBy(loop + 1) = PassedBy(loop) \cup {j}
  <2>1. {k \in SearchFor(key) : Slot(loop) = hp[k]} = {j}
    <3>1. ASSUME NEW k \in SearchFor(key), Slot(loop) = hp[k] PROVE k = j
      <4>1. k \in DOMAIN added
        BY DEF SearchFor
      <4> QED  BY <3>1, <4>1, PairApart
    <3> QED  BY <3>1
  <2> QED  BY <2>1, OneMore
<1>2. ASSUME NEW k \in SearchFor(key), k < j PROVE k \in PassedBy(loop)
  <2>1. PICK far \in 0..Home.len - 1 :
          /\ Slot(far) = hp[j]
          /\ \A n \in 0..far : Slot(n).p # 0
          /\ \A i \in SearchFor(key) : i < j => \E n \in 0..far - 1 : Slot(n) = hp[i]
    BY PairAhead
  <2>2. far = loop
    <3>1. Slot(far).p # 0
      BY <2>1, <1>t
    <3> QED  BY <2>1, <3>1, <1>t, SlotOnce
  <2>3. \E n \in 0..loop - 1 : Slot(n) = hp[k]
    BY <1>2, <2>1, <2>2
  <2> QED  BY <2>3 DEF PassedBy, SearchFor
<1>3. ASSUME NEW k \in PassedBy(loop) PROVE k < j
  <2>1. k \in SearchFor(key) /\ j \in Nat /\ k \in Nat
    BY DEF PassedBy, SearchFor, SearchInv, Types
  <2>2. PICK n \in 0..loop - 1 : Slot(n) = hp[k]
    BY DEF PassedBy
  <2>3. n \in 0..Home.len - 1 /\ n < loop
    BY <1>t
  <2>4. k # j
    <3> SUFFICES ASSUME k = j PROVE FALSE
      OBVIOUS
    <3>1. j \in DOMAIN added
      BY DEF SearchFor
    <3>2. Slot(n).p # 0 /\ Slot(n) = Slot(loop)
      BY <2>2, <3>1, PairApart
    <3>3. n = loop
      BY <2>3, <3>2, <1>t, SlotOnce
    <3> QED  BY <2>3, <3>3, <1>t
  <2>5. ~(j < k)
    <3> SUFFICES ASSUME j < k PROVE FALSE
      OBVIOUS
    <3>1. PICK far \in 0..Home.len - 1 :
            /\ Slot(far) = hp[k]
            /\ \A m \in 0..far : Slot(m).p # 0
            /\ \A i \in SearchFor(key) : i < k => \E m \in 0..far - 1 : Slot(m) = hp[i]
      BY <2>1, PairAhead
    <3>2. far = n
      <4>1. Slot(far).p # 0 /\ Slot(far) = Slot(n)
        BY <3>1, <2>2, <1>t
      <4> QED  BY <4>1, <2>3, SlotOnce
    <3>3. PICK m \in 0..far - 1 : Slot(m) = hp[j]
      BY <3>1
    <3>4. m \in 0..Home.len - 1 /\ m < loop /\ Slot(m).p # 0
      BY <3>1, <3>2, <2>3, <1>t
    <3>5. m = loop
      BY <3>3, <3>4, <1>t, SlotOnce
    <3> QED  BY <3>4, <3>5, <1>t
  <2> QED  BY <2>1, <2>4, <2>5
<1> QED
  BY <1>1, <1>2, <1>3

LEMMA CursorFirst ==
  ASSUME SearchInv, UNCHANGED <<makerVars, key>>, key # "none", loop < Home.len,
         NEW j \in SearchFor(key), Slot(loop) = hp[j], loop' = loop + 1
  PROVE  /\ Cursor' = j /\ j > Cursor
         /\ \A k \in SearchFor(key) : k > Cursor => j <= k
<1>1. /\ PassedBy(loop + 1) = PassedBy(loop) \cup {j}
      /\ \A k \in PassedBy(loop) : k < j
      /\ \A k \in SearchFor(key) : k < j => k \in PassedBy(loop)
  BY PassFirst
<1>2. /\ SearchFor(key) \subseteq Nat \ {0} /\ PassedBy(loop) \subseteq Nat
      /\ Cursor \in PassedBy(loop) \cup {0} /\ \A k \in PassedBy(loop) : k <= Cursor
  <2>1. SearchFor(key) \subseteq Nat \ {0}
    BY DEF SearchFor, SearchInv, Types
  <2> QED
    BY <2>1, CursorLast, PassedNatural
<1>3. Cursor' = j
  <2> PICK S : S = Passed'
    OBVIOUS
  <2> PICK c : c = Cursor'
    OBVIOUS
  <2>1. S = PassedBy(loop) \cup {j}
    BY <1>1, CursorNext
  <2>2. S \in SUBSET Nat /\ j \in Nat /\ \A n \in S : n <= j
    BY <1>1, <1>2, <2>1
  <2>3. c = CHOOSE i \in S \cup {0} : \A k \in S : k <= i
    BY DEF Cursor
  <2>4. c \in S \cup {0} /\ \A k \in S : k <= c
    BY <2>2, <2>3, LastPassed
  <2> QED
    BY <1>2, <2>1, <2>2, <2>4
<1>4. j > Cursor
  BY <1>1, <1>2
<1>5. ASSUME NEW k \in SearchFor(key), k > Cursor PROVE j <= k
  BY <1>1, <1>2, <1>5
<1> QED
  BY <1>3, <1>4, <1>5

LEMMA RestIs == Promise!Rest = {j \in SearchFor(key) : j > Cursor}
BY DEF Promise!Rest, SearchFor

(* The slot that a search looks at is the next one behind its start.       *)
LEMMA SlotRead ==
  ASSUME SearchInv, pc = "probing"
  PROVE  /\ key # "none" /\ maker = "done" /\ hslots = Home.len /\ khash = Hash[key]
         /\ slots[kpos] = Slot(loop)
<1>1. Reads /\ key # "none" /\ maker = "done"
  BY DEF SearchInv, SearchOK, ReadsInside
<1> QED
  BY <1>1 DEF Reads, Slot, Home

LEMMA LookedAt ==
  ASSUME SearchInv, Looking, slots[kpos].p # 0
  PROVE  \/ /\ slots[kpos].h = khash /\ Matches(entries[slots[kpos].p])
            /\ \E j \in SearchFor(key) : Slot(loop) = hp[j] /\ added[j] = entries[slots[kpos].p]
         \/ /\ slots[kpos].h = khash => ~Matches(entries[slots[kpos].p])
            /\ \A j \in SearchFor(key) : Slot(loop) # hp[j]
<1>1. /\ key # "none" /\ hslots = Home.len /\ slots[kpos] = Slot(loop) /\ khash = Hash[key]
      /\ loop < Home.len
  BY SlotRead DEF Looking
<1>2. loop \in 0..Home.len - 1
  BY <1>1, HomeTable DEF SearchInv, SearchOK
<1>3. PICK i \in DOMAIN added : Slot(loop) = hp[i]
  BY <1>1, <1>2, SlotHolds
<1>4. i \in 1..Len(hp) /\ Types /\ Layout /\ maker # "failed"
  BY <1>1, HomeTable DEF SearchInv, SearchOK, Types
<1>5. /\ entries[slots[kpos].p] = added[i] /\ hp[i].h = Hash[added[i].key]
      /\ \A k \in 1..Len(hp) : hp[k] = hp[i] => k = i
  BY <1>1, <1>3, <1>4, Apart
<1>6. CASE added[i].key = key
  <2>1. i \in SearchFor(key) /\ Matches(entries[slots[kpos].p]) /\ slots[kpos].h = khash
    BY <1>1, <1>3, <1>5, <1>6 DEF SearchFor, Matches
  <2> QED  BY <1>3, <1>5, <2>1
<1>7. CASE added[i].key # key
  <2>1. ~Matches(entries[slots[kpos].p])
    BY <1>5, <1>7 DEF Matches
  <2>2. ASSUME NEW j \in SearchFor(key), Slot(loop) = hp[j] PROVE FALSE
    <3>1. j \in 1..Len(hp) /\ added[j].key = key
      BY <1>1, HomeTable DEF SearchFor, SearchInv, Types
    <3> QED  BY <1>3, <1>5, <1>7, <2>2, <3>1
  <2> QED  BY <2>1, <2>2
<1> QED
  BY <1>6, <1>7

(* The steps of the search are those that the multimap promises.           *)
LEMMA EndsRight ==
  ASSUME SearchInv, key # "none", \A j \in SearchFor(key) : j <= Cursor,
         ret' = "end", UNCHANGED <<makerVars, key, loop>>
  PROVE  Promise!Ended
<1>1. Promise!Rest = {}
  <2>1. Cursor \in Nat /\ SearchFor(key) \subseteq Nat
    BY CursorLast, PassedNatural DEF SearchFor, SearchInv, Types
  <2> QED  BY <2>1, RestIs
<1>2. Cursor' = Cursor
  BY CursorSame
<1>3. Given' = "none"
  BY DEF Given
<1>4. added' = added /\ (maker = "done")' = (maker = "done") /\ key' = key
  BY DEF makerVars
<1> QED
  BY <1>1, <1>2, <1>3, <1>4 DEF Promise!Ended

LEMMA FindsRight ==
  ASSUME SearchInv, ProbeMatch
  PROVE  Promise!Found
<1>1. /\ Looking /\ slots[kpos].p # 0 /\ UNCHANGED <<makerVars, key>> /\ loop' = loop + 1
      /\ Matches(entries[slots[kpos].p]) /\ slots[kpos].h = khash
      /\ dpos' = slots[kpos].p /\ ret' = "found"
  BY DEF ProbeMatch, Advance, Return
<1>2. key # "none" /\ loop < Home.len
  BY <1>1, SlotRead DEF Looking
<1>3. PICK j \in SearchFor(key) : Slot(loop) = hp[j] /\ added[j] = entries[slots[kpos].p]
  BY <1>1, LookedAt
<1>4. Cursor' = j /\ j > Cursor /\ \A k \in SearchFor(key) : k > Cursor => j <= k
  BY <1>1, <1>2, <1>3, CursorFirst
<1>5. Promise!First(j) /\ Promise!Rest # {}
  BY <1>4, RestIs DEF Promise!First
<1>6. Given' = added[j].data
  BY <1>1, <1>3 DEF Given, makerVars
<1>7. added' = added /\ (maker = "done")' = (maker = "done") /\ key' = key
  BY <1>1 DEF makerVars
<1>8. Promise!First(Cursor') /\ Given' = added[Cursor'].data
  BY <1>4, <1>5, <1>6
<1> QED
  BY <1>1, <1>2, <1>5, <1>7, <1>8 DEF Promise!Found

LEMMA FailsRight ==
  ASSUME SearchInv, ReadFails
  PROVE  Promise!Failed
<1>1. UNCHANGED <<makerVars, key>> /\ ret' = "error"
  BY DEF ReadFails, Return
<1>2. key # "none"
  BY SlotRead DEF ReadFails, Looking
<1>3. Given' = "none" /\ added' = added /\ (maker = "done")' = (maker = "done")
  BY <1>1 DEF Given, makerVars
<1>4. Cursor' = Cursor \/ Promise!First(Cursor')
  <2>1. CASE loop' = loop
    BY <1>1, <2>1, CursorSame
  <2>2. CASE Looking /\ slots[kpos].p # 0 /\ Advance
    <3>1. loop' = loop + 1 /\ loop < Home.len
      BY <2>2, SlotRead DEF Looking, Advance
    <3>2. CASE \A j \in SearchFor(key) : Slot(loop) # hp[j]
      <4>1. PassedBy(loop') = PassedBy(loop)
        BY <3>1, <3>2, PassOther
      <4> QED  BY <1>1, <4>1, CursorSame
    <3>3. ASSUME NEW j \in SearchFor(key), Slot(loop) = hp[j] PROVE Promise!First(Cursor')
      <4>1. Cursor' = j /\ j > Cursor /\ \A k \in SearchFor(key) : k > Cursor => j <= k
        BY <1>1, <1>2, <3>1, <3>3, CursorFirst
      <4>2. Promise!First(j)
        BY <4>1, RestIs DEF Promise!First
      <4> QED  BY <4>1, <4>2
    <3> QED  BY <3>2, <3>3
  <2> QED
    BY <2>1, <2>2 DEF ReadFails
<1> QED
  BY <1>1, <1>2, <1>3, <1>4 DEF Promise!Failed

LEMMA Stutters ==
  ASSUME SearchInv, UNCHANGED <<makerVars, key, ret, dpos>>, PassedBy(loop') = PassedBy(loop)
  PROVE  UNCHANGED Promise!mvars
<1>1. Cursor' = Cursor
  BY CursorSame
<1>2. Given' = Given /\ added' = added /\ (maker = "done")' = (maker = "done")
  BY DEF Given, makerVars
<1> QED
  BY <1>1, <1>2 DEF Promise!mvars

LEMMA MakerStep ==
  ASSUME SearchInv, Make
  PROVE  Promise!Next \/ UNCHANGED Promise!mvars
<1>1. UNCHANGED readerVars /\ maker \in {"adding", "finishing", "filling"}
  BY DEF Make, Add, MakerFails, Finish, ClearTable, PutEntry, WriteTable, WriteHeader
<1>2. key' = key /\ ret' = ret /\ ret = "none" /\ loop = 0 /\ loop' = 0
  BY <1>1 DEF readerVars, SearchInv, SearchOK
<1>3. Cursor' = Cursor /\ Given' = Given
  BY <1>2, CursorZero DEF Given
<1>4. ASSUME NEW k \in Key, NEW d \in Datum, Add(k, d) PROVE Promise!Add(k, d)
  <2>1. ~(maker = "done") /\ ~(maker' = "done") /\ added' = Append(added, [key |-> k, data |-> d])
    BY <1>4 DEF Add
  <2> QED
    BY <1>2, <1>3, <2>1 DEF Promise!Add
<1>5. CASE WriteHeader
  <2>1. ~(maker = "done") /\ maker' = "done" /\ added' = added
    BY <1>5 DEF WriteHeader
  <2>2. Promise!Seal
    BY <1>2, <1>3, <2>1 DEF Promise!Seal
  <2> QED
    BY <2>2 DEF Promise!Next
<1>6. CASE MakerFails \/ Finish \/ ClearTable \/ PutEntry \/ WriteTable
  <2>1. ~(maker = "done") /\ ~(maker' = "done") /\ added' = added
    BY <1>6 DEF MakerFails, Finish, ClearTable, PutEntry, WriteTable
  <2> QED
    BY <1>2, <1>3, <2>1 DEF Promise!mvars
<1> QED
  BY <1>4, <1>5, <1>6 DEF Make, Promise!Next

LEMMA Implements ==
  ASSUME SearchInv, [Next]_vars
  PROVE  Promise!Next \/ UNCHANGED Promise!mvars
<1>1. CASE Make
  BY <1>1, MakerStep
<1>2. ASSUME NEW k \in Key, FindStart(k) PROVE Promise!Start(k)
  <2>1. /\ maker = "done" /\ (maker = "done")' = (maker = "done") /\ added' = added
        /\ key' = k /\ loop' = 0 /\ ret' = "none"
    BY <1>2 DEF FindStart, makerVars
  <2> QED
    BY <2>1, CursorZero DEF Promise!Start, Given
<1>3. CASE FindNext
  <2>1. UNCHANGED <<makerVars, key, loop, dpos>> /\ key # "none"
    BY <1>3 DEF FindNext
  <2>2. CASE ret' = "end" /\ loop = 0 /\ Home.len = 0
    <3>1. loop >= Home.len
      BY <2>2
    <3> QED
      BY <2>1, <2>2, <3>1, NoneLeft, EndsRight DEF Promise!Next
  <2>3. CASE ret' = ret
    BY <2>1, <2>3, Stutters
  <2> QED
    BY <1>3, <2>2, <2>3 DEF FindNext, Home
<1>4. CASE AllProbed \/ ProbeEmpty
  <2>1. UNCHANGED <<makerVars, key, loop>> /\ ret' = "end" /\ pc = "probing"
    BY <1>4 DEF AllProbed, ProbeEmpty, Return, Looking
  <2>2. loop >= Home.len \/ Slot(loop).p = 0
    BY <1>4, <2>1, SlotRead DEF AllProbed, ProbeEmpty
  <2>3. Promise!Ended
    BY <2>1, <2>2, SlotRead, NoneLeft, EndsRight
  <2> QED
    BY <2>3 DEF Promise!Next
<1>5. CASE ProbeOther
  <2>1. /\ Looking /\ slots[kpos].p # 0 /\ UNCHANGED <<makerVars, key, ret, dpos>>
        /\ loop' = loop + 1
        /\ ~(slots[kpos].h = khash /\ Matches(entries[slots[kpos].p]))
    BY <1>5 DEF ProbeOther, Advance
  <2>2. \A j \in SearchFor(key) : Slot(loop) # hp[j]
    BY <2>1, LookedAt
  <2>3. PassedBy(loop') = PassedBy(loop)
    BY <2>1, <2>2, PassOther
  <2> QED
    BY <2>1, <2>3, Stutters
<1>6. CASE ProbeMatch
  BY <1>6, FindsRight DEF Promise!Next
<1>7. CASE ReadFails
  BY <1>7, FailsRight DEF Promise!Next
<1>8. CASE Stopped \/ UNCHANGED vars
  <2>1. UNCHANGED <<makerVars, key, ret, dpos, loop>>
    BY <1>8 DEF Stopped, vars, readerVars
  <2> QED
    BY <2>1, Stutters
<1> QED
  BY <1>1, <1>2, <1>3, <1>4, <1>5, <1>6, <1>7, <1>8 DEF Next, Find, Promise!Next

(* For every number of tables, every hash function, every width of         *)
(* positions and every sequence of pairs: a search of a finished database  *)
(* gives the data of its key, each once and in the order of addition, and  *)
(* then the end; a call that fails loses one datum at most.                *)
THEOREM CdbIsMultimap == Spec => IsMultimap
<1>1. Init => Promise!Init
  <2> SUFFICES ASSUME Init PROVE Promise!Init
    OBVIOUS
  <2>1. Cursor = 0
    BY CursorZero DEF Init
  <2>2. Given = "none" /\ (maker = "done") = FALSE
    BY DEF Init, Given
  <2> QED
    BY <2>1, <2>2 DEF Init, Promise!Init
<1>2. SearchInv /\ [Next]_vars => [Promise!Next]_(Promise!mvars)
  BY Implements
<1> QED
  BY <1>1, <1>2, CdbSearch, PTL DEF Spec, IsMultimap, Promise!MultimapSpec

-----------------------------------------------------------------------------
(* tinydns-edit.c                                                          *)

Listed(f) == f \in Seq(E!ToSet(f))
Fields == {"pc", "mode", "target", "ip", "src", "linenum", "used", "ttl"}

(* The new file begins with n lines of the one that was read.              *)
Begins(f, g, n) == Listed(f) /\ Len(f) >= n /\ \A k \in 1..n : f[k] = g[k]

(* What an editor knows of the lines that it copied.                       *)
Known(r) ==
  \A k \in 1..r.linenum - 1 :
    /\ r.mode = "=" /\ r.src[k].c = "=" => r.src[k].target # r.target /\ r.src[k].ip # r.ip
    /\ E!Lettered(r.mode) /\ r.src[k].c = r.mode /\ r.src[k].target = r.target =>
         /\ r.src[k].server \in E!ToSet(Letters) => r.src[k].server \in r.used
         /\ E!Ttl(r.src[k]) = r.ttl

(* What an editor has written, and that its file would be in order.        *)
Editing(r, f) ==
  /\ Listed(r.src) /\ E!InOrder(r.src) /\ r.ttl # None
  /\ r.pc = "reading" => Len(f) = r.linenum - 1 /\ Begins(f, r.src, Len(f)) /\ Known(r)
  /\ r.pc = "added" => Len(f) = Len(r.src) + 1 /\ Begins(f, r.src, Len(r.src)) /\ E!InOrder(f)

Editors ==
  /\ DOMAIN ed = Editor /\ DOMAIN new = Editor
  /\ \A e \in Editor :
       /\ DOMAIN ed[e] = Fields /\ ed[e].pc \in {"idle", "reading", "added"}
       /\ ed[e].linenum \in 1..Len(ed[e].src) + 1 /\ ed[e].used \subseteq E!ToSet(Letters)
       /\ Listed(new[e])
       /\ ed[e].pc # "idle" => Editing(ed[e], new[e])

EditInv == edits \in 0..MaxEdits /\ Listed(edited) /\ E!InOrder(edited) /\ Editors
-----------------------------------------------------------------------------
(* Files.                                                                  *)
LEMMA Longer ==
  ASSUME NEW S, NEW s \in Seq(S), NEW e \in S
  PROVE  /\ Append(s, e) \in Seq(S) /\ Len(s) \in Nat /\ Len(Append(s, e)) = Len(s) + 1
         /\ \A k \in 1..Len(s) : Append(s, e)[k] = s[k]
         /\ Append(s, e)[Len(s) + 1] = e
  OBVIOUS

LEMMA Own ==
  ASSUME NEW S, NEW s \in Seq(S)
  PROVE  Listed(s)
<1>1. Len(s) \in Nat /\ s \in [1..Len(s) -> S] OBVIOUS
<1>2. s \in [1..Len(s) -> E!ToSet(s)] BY <1>1 DEF E!ToSet
<1> QED BY <1>1, <1>2 DEF Listed

LEMMA Lengthened ==
  ASSUME NEW s, Listed(s), NEW e
  PROVE  /\ Listed(Append(s, e)) /\ Len(s) \in Nat /\ Len(Append(s, e)) = Len(s) + 1
         /\ \A k \in 1..Len(s) : Append(s, e)[k] = s[k]
         /\ Append(s, e)[Len(s) + 1] = e
<1> DEFINE S == E!ToSet(s) \cup {e}
<1>1. s \in Seq(E!ToSet(s)) BY DEF Listed
<1>2. s \in Seq(S) /\ e \in S BY <1>1
<1> HIDE DEF S
<1>3. Append(s, e) \in Seq(S) BY <1>2, Longer
<1>4. Listed(Append(s, e)) BY <1>3, Own
<1> QED BY <1>2, <1>4, Longer

LEMMA EmptyFile == Listed(<<>>) /\ Len(<<>>) = 0
<1>1. <<>> \in Seq({}) /\ Len(<<>>) = 0 OBVIOUS
<1> QED BY <1>1, Own

LEMMA CutShort ==
  ASSUME NEW s, Listed(s), NEW n \in 0..Len(s)
  PROVE  Listed(SubSeq(s, 1, n))
<1>1. s \in Seq(E!ToSet(s)) /\ Len(s) \in Nat BY DEF Listed
<1>2. SubSeq(s, 1, n) \in Seq(E!ToSet(s)) BY <1>1, SubSeqProperties
<1> QED BY <1>2, Own

(* A line that differs from those before it as it should keeps the order.  *)
LEMMA OneMoreLine ==
  ASSUME NEW f, NEW g, NEW l, Listed(f), E!InOrder(f), Len(g) = Len(f) + 1, g[Len(f) + 1] = l,
         \A k \in 1..Len(f) : g[k] = f[k],
         \A k \in 1..Len(f) :
           /\ l.c = "=" /\ f[k].c = "=" => f[k].target # l.target /\ f[k].ip # l.ip
           /\ E!Lettered(l.c) /\ f[k].c = l.c /\ f[k].target = l.target =>
                f[k].server # l.server /\ E!Ttl(f[k]) = E!Ttl(l)
  PROVE  E!InOrder(g)
<1>1. Len(f) \in Nat BY DEF Listed
<1> SUFFICES ASSUME NEW p \in E!Pairs(g)
             PROVE  /\ E!Lettered(g[p[1]].c) /\ E!Like(g, p[1], p[2]) =>
                         g[p[1]].server # g[p[2]].server /\ E!Ttl(g[p[1]]) = E!Ttl(g[p[2]])
                    /\ g[p[1]].c = "=" /\ g[p[2]].c = "=" =>
                         g[p[1]].target # g[p[2]].target /\ g[p[1]].ip # g[p[2]].ip
  BY DEF E!InOrder, E!LettersDistinct, E!HostsDistinct, E!OneTtl
<1>2. p[1] \in 1..Len(f) + 1 /\ p[2] \in 1..Len(f) + 1 /\ p[1] < p[2] BY DEF E!Pairs
<1>3. p[1] \in 1..Len(f) /\ g[p[1]] = f[p[1]] BY <1>1, <1>2
<1>4. CASE p[2] \in 1..Len(f)
  <2>1. p \in E!Pairs(f) BY <1>2, <1>3, <1>4 DEF E!Pairs
  <2>2. g[p[2]] = f[p[2]] BY <1>4
  <2> QED BY <1>3, <2>1, <2>2 DEF E!InOrder, E!LettersDistinct, E!HostsDistinct, E!OneTtl, E!Like
<1>5. CASE p[2] = Len(f) + 1
  <2>1. g[p[2]] = l BY <1>5
  <2> QED BY <1>3, <2>1 DEF E!Like
<1> QED BY <1>1, <1>2, <1>4, <1>5
-----------------------------------------------------------------------------
(* An editor's step leaves the others where they were.                     *)
LEMMA OneEditor ==
  ASSUME EditInv, NEW e \in Editor, edits' \in 0..MaxEdits, Listed(edited'), E!InOrder(edited'),
         DOMAIN ed' = Editor, DOMAIN new' = Editor,
         \A o \in Editor \ {e} : ed'[o] = ed[o] /\ new'[o] = new[o],
         DOMAIN ed'[e] = Fields, ed'[e].pc \in {"idle", "reading", "added"},
         ed'[e].linenum \in 1..Len(ed'[e].src) + 1, ed'[e].used \subseteq E!ToSet(Letters), Listed(new'[e]),
         ed'[e].pc # "idle" => Editing(ed'[e], new'[e])
  PROVE  EditInv'
<1> SUFFICES ASSUME NEW o \in Editor
             PROVE  /\ DOMAIN ed'[o] = Fields /\ ed'[o].pc \in {"idle", "reading", "added"}
                    /\ ed'[o].linenum \in 1..Len(ed'[o].src) + 1 /\ ed'[o].used \subseteq E!ToSet(Letters)
                    /\ Listed(new'[o])
                    /\ ed'[o].pc # "idle" => Editing(ed'[o], new'[o])
  BY DEF EditInv, Editors, Listed, E!InOrder, Editing, E!LettersDistinct, E!HostsDistinct, E!OneTtl, Begins, Known,
         E!Like, E!Pairs, E!Ttl, E!Lettered
<1>1. CASE o = e BY <1>1
<1>2. CASE o # e BY <1>2 DEF EditInv, Editors
<1> QED BY <1>1, <1>2

LEMMA ExitKeeps ==
  ASSUME E!EditBounds, EditInv, NEW e \in Editor, E!Exit(e), edits' = edits, Listed(edited'), E!InOrder(edited'),
         DOMAIN new' = Editor, Listed(new'[e]), \A o \in Editor \ {e} : new'[o] = new[o]
  PROVE  EditInv'
<1>1. /\ DOMAIN ed' = Editor /\ ed'[e] = E!Idle /\ \A o \in Editor \ {e} : ed'[o] = ed[o]
  BY DEF E!Exit, EditInv, Editors
<1>2. /\ DOMAIN ed'[e] = Fields /\ ed'[e].pc = "idle" /\ ed'[e].linenum = 1 /\ ed'[e].src = <<>>
      /\ ed'[e].used = {}
  BY <1>1 DEF E!Idle, Fields
<1>3. ed'[e].linenum \in 1..Len(ed'[e].src) + 1 BY <1>2, EmptyFile
<1>4. edits' \in 0..MaxEdits BY DEF EditInv
<1> QED BY <1>1, <1>2, <1>3, <1>4, OneEditor

LEMMA OpenKeeps ==
  ASSUME E!EditBounds, EditInv, NEW e \in Editor, NEW cmd, E!Open(e, cmd)
  PROVE  EditInv'
<1>1. /\ edits < MaxEdits /\ edits' = edits + 1 /\ new' = [new EXCEPT ![e] = <<>>] /\ edited' = edited
      /\ ed' = [ed EXCEPT ![e] = [E!Idle EXCEPT !.pc = "reading", !.mode = cmd.mode, !.target = cmd.target,
                                          !.ip = cmd.ip, !.src = edited, !.ttl = E!Default(cmd.mode)]]
  BY DEF E!Open
<1>2. /\ DOMAIN ed' = Editor /\ DOMAIN new' = Editor /\ new'[e] = <<>>
      /\ \A o \in Editor \ {e} : ed'[o] = ed[o] /\ new'[o] = new[o]
      /\ ed'[e] = [E!Idle EXCEPT !.pc = "reading", !.mode = cmd.mode, !.target = cmd.target,
                                 !.ip = cmd.ip, !.src = edited, !.ttl = E!Default(cmd.mode)]
  BY <1>1 DEF EditInv, Editors
<1>3. /\ DOMAIN ed'[e] = Fields /\ ed'[e].pc = "reading" /\ ed'[e].src = edited /\ ed'[e].linenum = 1
      /\ ed'[e].used = {} /\ ed'[e].ttl = E!Default(cmd.mode)
  BY <1>2 DEF E!Idle, Fields
<1>4. Len(edited) \in Nat BY DEF EditInv, Listed
<1>5. edits' \in 0..MaxEdits BY <1>1 DEF EditInv, E!EditBounds
<1>6. Editing(ed'[e], new'[e])
  <2>1. ed'[e].ttl # None BY <1>3 DEF E!Default, E!TTL_NS, E!TTL_POSITIVE, E!EditBounds
  <2>2. Known(ed'[e]) BY <1>3 DEF Known
  <2>3. Begins(new'[e], ed'[e].src, Len(new'[e])) /\ Len(new'[e]) = ed'[e].linenum - 1
    BY <1>2, <1>3, EmptyFile DEF Begins
  <2> QED BY <1>3, <2>1, <2>2, <2>3 DEF Editing, EditInv
<1>7. Listed(new'[e]) BY <1>2, EmptyFile
<1>8. Listed(edited') /\ E!InOrder(edited') BY <1>1 DEF EditInv
<1>9. ed'[e].linenum \in 1..Len(ed'[e].src) + 1 BY <1>3, <1>4
<1> QED BY <1>2, <1>3, <1>5, <1>6, <1>7, <1>8, <1>9, OneEditor

LEMMA EditReadLineKeeps ==
  ASSUME E!EditBounds, EditInv, NEW e \in Editor, E!ReadLine(e)
  PROVE  EditInv'
<1> DEFINE r == ed[e]
           k == r.linenum
           l == r.src[k]
<1>1. /\ r.pc = "reading" /\ k <= Len(r.src) /\ new' = [new EXCEPT ![e] = Append(@, l)]
      /\ UNCHANGED <<edited, edits>>
  BY DEF E!ReadLine, E!AtLine, E!Line
<1>2. /\ DOMAIN r = Fields /\ k \in 1..Len(r.src) + 1 /\ Editing(r, new[e]) /\ Len(r.src) \in Nat
      /\ r.used \subseteq E!ToSet(Letters) /\ Listed(new[e])
  BY <1>1 DEF EditInv, Editors, Editing, Listed
<1>3. /\ DOMAIN new' = Editor /\ new'[e] = Append(new[e], l) /\ \A o \in Editor \ {e} : new'[o] = new[o]
  BY <1>1 DEF EditInv, Editors
<1>4. /\ Listed(new'[e]) /\ Len(new[e]) \in Nat /\ Len(new'[e]) = Len(new[e]) + 1
      /\ \A m \in 1..Len(new[e]) : new'[e][m] = new[e][m]
      /\ new'[e][Len(new[e]) + 1] = l
  BY <1>2, <1>3, Lengthened
<1>5. Listed(edited') /\ E!InOrder(edited') /\ edits' = edits BY <1>1 DEF EditInv
<1>6. CASE E!Refused(e)
  <2>1. E!Exit(e) BY <1>6 DEF E!ReadLine
  <2> QED BY <1>3, <1>4, <1>5, <2>1, ExitKeeps
<1>7. CASE ~E!Refused(e)
  <2> DEFINE u == ed'[e]
  <2>1. ed' = [ed EXCEPT ![e].linenum = @ + 1,
                           ![e].ttl = IF E!Matching(e) THEN E!LineTtl(e) ELSE @,
                           ![e].used = IF E!Matching(e) THEN @ \cup ({E!Line(e).server} \cap E!ToSet(Letters)) ELSE @]
    BY <1>7 DEF E!ReadLine
  <2>2. /\ DOMAIN ed' = Editor /\ \A o \in Editor \ {e} : ed'[o] = ed[o]
        /\ DOMAIN u = Fields /\ u.pc = r.pc /\ u.mode = r.mode /\ u.target = r.target /\ u.ip = r.ip
        /\ u.src = r.src /\ u.linenum = k + 1
        /\ u.ttl = (IF E!Matching(e) THEN E!LineTtl(e) ELSE r.ttl)
        /\ u.used = (IF E!Matching(e) THEN r.used \cup ({l.server} \cap E!ToSet(Letters)) ELSE r.used)
    BY <1>2, <2>1 DEF EditInv, Editors, Fields, E!Line
  <2>3. u.linenum \in 1..Len(u.src) + 1 BY <1>1, <1>2, <2>2
  <2>4. u.used \subseteq E!ToSet(Letters) BY <1>2, <2>2
  <2>5. E!Matching(e) <=> E!Lettered(r.mode) /\ l.c = r.mode /\ l.target = r.target BY DEF E!Matching, E!Line
  <2>6. E!Matching(e) => E!LineTtl(e) = E!Ttl(l) /\ E!LineTtl(e) # None
    BY <2>5 DEF E!LineTtl, E!Ttl, E!Line, E!Default, E!TTL_NS, E!TTL_POSITIVE, E!EditBounds
  <2>7. u.ttl # None BY <1>2, <2>2, <2>6 DEF Editing
  <2>8. Known(u)
    <3> SUFFICES ASSUME NEW m \in 1..u.linenum - 1
                 PROVE  /\ u.mode = "=" /\ u.src[m].c = "=" => u.src[m].target # u.target /\ u.src[m].ip # u.ip
                        /\ E!Lettered(u.mode) /\ u.src[m].c = u.mode /\ u.src[m].target = u.target =>
                             /\ u.src[m].server \in E!ToSet(Letters) => u.src[m].server \in u.used
                             /\ E!Ttl(u.src[m]) = u.ttl
      BY DEF Known
    <3>1. CASE m = k
      <4>1. u.src[m] = l BY <2>2, <3>1
      <4>2. r.mode = "=" /\ l.c = "=" => l.target # r.target /\ l.ip # r.ip BY <1>7 DEF E!Refused, E!Line
      <4> QED BY <2>2, <2>5, <2>6, <4>1, <4>2
    <3>2. CASE m # k
      <4>1. m \in 1..k - 1 /\ k \in 1..Len(r.src) BY <1>1, <1>2, <2>2, <3>2
      <4>2. Known(r) BY <1>1, <1>2 DEF Editing
      <4>3. ASSUME E!Lettered(r.mode), r.src[m].c = r.mode, r.src[m].target = r.target, E!Matching(e)
            PROVE  E!Ttl(r.src[m]) = E!Ttl(l)
        <5>1. <<m, k>> \in E!Pairs(r.src) BY <1>2, <4>1 DEF E!Pairs
        <5>2. E!Lettered(r.src[m].c) /\ E!Like(r.src, m, k) BY <2>5, <4>3 DEF E!Like
        <5>3. E!OneTtl(r.src) BY <1>2 DEF Editing, E!InOrder
        <5> HIDE DEF r, k
        <5>4. E!Ttl(r.src[<<m, k>>[1]]) = E!Ttl(r.src[<<m, k>>[2]]) BY <5>1, <5>2, <5>3 DEF E!OneTtl
        <5> QED BY <5>4
      <4> HIDE DEF u, r, l
      <4> QED BY <2>2, <2>6, <4>1, <4>2, <4>3 DEF Known
    <3> QED BY <3>1, <3>2
  <2>9. Len(new'[e]) = u.linenum - 1 /\ Begins(new'[e], u.src, Len(new'[e]))
    <3>1. Len(new[e]) = k - 1 /\ \A m \in 1..Len(new[e]) : new[e][m] = r.src[m]
      BY <1>1, <1>2 DEF Editing, Begins
    <3>2. Len(new'[e]) = k BY <1>2, <1>4, <3>1
    <3>3. \A m \in 1..k : new'[e][m] = r.src[m]
      <4> SUFFICES ASSUME NEW m \in 1..k PROVE new'[e][m] = r.src[m] OBVIOUS
      <4>1. CASE m = k BY <1>2, <1>4, <3>1, <4>1
      <4>2. CASE m # k
        <5>1. m \in 1..Len(new[e]) BY <1>2, <3>1, <4>2
        <5> HIDE DEF r, l
        <5> QED BY <1>4, <3>1, <5>1
      <4> QED BY <4>1, <4>2
    <3> QED BY <1>2, <1>4, <2>2, <3>2, <3>3 DEF Begins
  <2>10. Editing(u, new'[e]) BY <1>1, <1>2, <2>2, <2>7, <2>8, <2>9 DEF Editing
  <2>11. edits' \in 0..MaxEdits BY <1>5 DEF EditInv
  <2>12. u.pc \in {"idle", "reading", "added"} BY <1>1, <2>2
  <2> HIDE DEF u
  <2> QED BY <1>3, <1>4, <1>5, <2>2, <2>3, <2>4, <2>10, <2>11, <2>12, OneEditor DEF u
<1> QED BY <1>6, <1>7

(* The letter of a new line is no letter that a line of its kind has.      *)
LEMMA LetterFree ==
  ASSUME E!EditBounds, NEW e, E!Lettered(ed[e].mode), E!Free(e) # {}
  PROVE  E!Letter(e) \in E!ToSet(Letters) /\ E!Letter(e) \notin ed[e].used
<1>1. E!Free(e) \in SUBSET Nat BY DEF E!Free, E!EditBounds
<1>2. \E k \in E!Free(e) : \A m \in E!Free(e) : k <= m BY <1>1, LeastNatural
<1>3. PICK k \in E!Free(e) : E!Letter(e) = Letters[k] BY <1>2 DEF E!Letter
<1> QED BY <1>3 DEF E!Free, E!EditBounds, E!ToSet

LEMMA AddLineKeeps ==
  ASSUME E!EditBounds, EditInv, NEW e \in Editor, E!AddLine(e)
  PROVE  EditInv'
<1> DEFINE r == ed[e]
           l == E!Added(e)
<1>1. r.pc = "reading" /\ r.linenum = Len(r.src) + 1 /\ UNCHANGED <<edited, edits>> BY DEF E!AddLine
<1>2. /\ DOMAIN r = Fields /\ Editing(r, new[e]) /\ Len(r.src) \in Nat
      /\ r.used \subseteq E!ToSet(Letters) /\ Listed(new[e])
  BY <1>1 DEF EditInv, Editors, Editing, Listed
<1>3. Listed(edited') /\ E!InOrder(edited') /\ edits' = edits BY <1>1 DEF EditInv
<1>4. CASE E!Lettered(r.mode) /\ E!Free(e) = {}
  <2>1. E!Exit(e) /\ new' = new BY <1>4 DEF E!AddLine
  <2>2. DOMAIN new' = Editor BY <2>1 DEF EditInv, Editors
  <2> QED BY <1>2, <1>3, <2>1, <2>2, ExitKeeps
<1>5. CASE ~(E!Lettered(r.mode) /\ E!Free(e) = {})
  <2> DEFINE u == ed'[e]
  <2>1. new' = [new EXCEPT ![e] = Append(@, l)] /\ ed' = [ed EXCEPT ![e].pc = "added"]
    BY <1>5 DEF E!AddLine
  <2>2. /\ DOMAIN new' = Editor /\ new'[e] = Append(new[e], l) /\ DOMAIN ed' = Editor
        /\ \A o \in Editor \ {e} : ed'[o] = ed[o] /\ new'[o] = new[o]
        /\ DOMAIN u = Fields /\ u.pc = "added" /\ u.src = r.src /\ u.linenum = r.linenum
        /\ u.used = r.used /\ u.ttl = r.ttl
    BY <1>2, <2>1 DEF EditInv, Editors, Fields
  <2>3. /\ Listed(new'[e]) /\ Len(new[e]) \in Nat /\ Len(new'[e]) = Len(new[e]) + 1
        /\ \A m \in 1..Len(new[e]) : new'[e][m] = new[e][m]
        /\ new'[e][Len(new[e]) + 1] = l
    <3> HIDE DEF l
    <3> QED BY <1>2, <2>2, Lengthened
  <2>4. /\ Len(new[e]) = Len(r.src) /\ \A m \in 1..Len(r.src) : new[e][m] = r.src[m]
        /\ Known(r) /\ Listed(r.src) /\ E!InOrder(r.src) /\ r.ttl # None
    BY <1>1, <1>2 DEF Editing, Begins
  <2>5. /\ l.c = r.mode /\ l.target = r.target /\ l.ip = r.ip /\ l.server = E!Letter(e) /\ l.ttl = r.ttl
    BY DEF E!Added
  <2>6. E!Ttl(l) = r.ttl BY <2>4, <2>5 DEF E!Ttl
  <2>7. \A k \in 1..Len(r.src) :
           /\ l.c = "=" /\ r.src[k].c = "=" => r.src[k].target # l.target /\ r.src[k].ip # l.ip
           /\ E!Lettered(l.c) /\ r.src[k].c = l.c /\ r.src[k].target = l.target =>
                r.src[k].server # l.server /\ E!Ttl(r.src[k]) = E!Ttl(l)
    <3>1. E!Lettered(r.mode) => E!Letter(e) \in E!ToSet(Letters) /\ E!Letter(e) \notin r.used BY <1>5, LetterFree
    <3>2. \A k \in 1..Len(r.src) : k \in 1..r.linenum - 1 BY <1>1, <1>2
    <3> HIDE DEF l, r
    <3> QED BY <2>4, <2>5, <2>6, <3>1, <3>2 DEF Known
  <2>8. E!InOrder(new'[e])
    <3>1. /\ Len(new'[e]) = Len(r.src) + 1 /\ new'[e][Len(r.src) + 1] = l
          /\ \A k \in 1..Len(r.src) : new'[e][k] = r.src[k]
      BY <1>2, <2>3, <2>4
    <3> DEFINE f == new'[e]
    <3>2. Len(f) = Len(r.src) + 1 /\ f[Len(r.src) + 1] = l /\ \A k \in 1..Len(r.src) : f[k] = r.src[k]
      BY <3>1
    <3> DEFINE s == r.src
    <3>3. Listed(s) /\ E!InOrder(s) BY <2>4
    <3>4. E!InOrder(f)
      <4> HIDE DEF l, r, f, s
      <4>1. Len(f) = Len(s) + 1 /\ f[Len(s) + 1] = l /\ \A k \in 1..Len(s) : f[k] = s[k]
        BY <3>2 DEF s
      <4>2. \A k \in 1..Len(s) :
               /\ l.c = "=" /\ s[k].c = "=" => s[k].target # l.target /\ s[k].ip # l.ip
               /\ E!Lettered(l.c) /\ s[k].c = l.c /\ s[k].target = l.target =>
                    s[k].server # l.server /\ E!Ttl(s[k]) = E!Ttl(l)
        BY <2>7 DEF s
      <4> QED BY <3>3, <4>1, <4>2, OneMoreLine
    <3> QED BY <3>4
  <2>9. Editing(u, new'[e])
    <3>1. Begins(new'[e], u.src, Len(u.src)) /\ Len(new'[e]) = Len(u.src) + 1
      BY <1>2, <2>2, <2>3, <2>4 DEF Begins
    <3> QED BY <2>2, <2>4, <2>8, <3>1 DEF Editing
  <2>10. edits' \in 0..MaxEdits BY <1>3 DEF EditInv
  <2>11. u.linenum \in 1..Len(u.src) + 1 /\ u.used \subseteq E!ToSet(Letters) /\ u.pc \in {"idle", "reading", "added"}
    BY <1>1, <1>2, <2>2
  <2> HIDE DEF u
  <2> QED BY <1>3, <2>2, <2>3, <2>9, <2>10, <2>11, OneEditor DEF u
<1> QED BY <1>4, <1>5

LEMMA EditRenameKeeps ==
  ASSUME E!EditBounds, EditInv, NEW e \in Editor, E!Rename(e)
  PROVE  EditInv'
<1>1. ed[e].pc = "added" /\ edited' = new[e] /\ new' = [new EXCEPT ![e] = <<>>] /\ E!Exit(e) /\ edits' = edits
  BY DEF E!Rename
<1>2. Editing(ed[e], new[e]) /\ Listed(new[e]) BY <1>1 DEF EditInv, Editors
<1>3. E!InOrder(new[e]) BY <1>1, <1>2 DEF Editing
<1>4. Listed(edited') /\ E!InOrder(edited')
  BY <1>1, <1>2, <1>3 DEF Listed, E!InOrder, E!LettersDistinct, E!HostsDistinct, E!OneTtl, E!Like, E!Pairs, E!Ttl, E!Lettered
<1>5. DOMAIN new' = Editor /\ new'[e] = <<>> /\ \A o \in Editor \ {e} : new'[o] = new[o]
  BY <1>1 DEF EditInv, Editors
<1> QED BY <1>1, <1>4, <1>5, EmptyFile, ExitKeeps

LEMMA DieKeeps ==
  ASSUME E!EditBounds, EditInv, NEW e \in Editor, E!Die(e)
  PROVE  EditInv'
<1>1. PICK n \in 0..Len(new[e]) : new' = [new EXCEPT ![e] = SubSeq(@, 1, n)] BY DEF E!Die
<1>2. E!Exit(e) /\ edited' = edited /\ edits' = edits BY DEF E!Die
<1>3. /\ DOMAIN new' = Editor /\ new'[e] = SubSeq(new[e], 1, n) /\ \A o \in Editor \ {e} : new'[o] = new[o]
      /\ Listed(new[e])
  BY <1>1 DEF EditInv, Editors
<1>4. Listed(new'[e]) BY <1>3, CutShort
<1>5. Listed(edited') /\ E!InOrder(edited') BY <1>2 DEF EditInv
<1> QED BY <1>2, <1>3, <1>4, <1>5, ExitKeeps
-----------------------------------------------------------------------------
LEMMA EditStep ==
  ASSUME E!EditBounds, EditInv, [E!Next]_E!vars
  PROVE  EditInv'
<1>1. CASE E!Next BY <1>1, OpenKeeps, EditReadLineKeeps, AddLineKeeps, EditRenameKeeps, DieKeeps DEF E!Next, E!Step
<1>2. CASE UNCHANGED E!vars
  <2>1. edited' = edited /\ new' = new /\ ed' = ed /\ edits' = edits BY <1>2 DEF E!vars
  <2>2. Listed(edited') /\ E!InOrder(edited')
    BY <2>1 DEF EditInv, E!InOrder, E!LettersDistinct, E!HostsDistinct, E!OneTtl, E!Like, E!Pairs, E!Ttl, E!Lettered
  <2>3. Editors'
    BY <2>1 DEF EditInv, Editors, Editing, Listed, E!InOrder, E!LettersDistinct, E!HostsDistinct, E!OneTtl, E!Like,
                E!Pairs, E!Ttl, E!Lettered, Begins, Known
  <2> QED BY <2>1, <2>2, <2>3 DEF EditInv
<1> QED BY <1>1, <1>2

LEMMA EditInit == E!EditBounds /\ E!Init => EditInv
<1> SUFFICES ASSUME E!EditBounds, E!Init PROVE EditInv OBVIOUS
<1>1. Listed(edited) /\ E!InOrder(edited) BY DEF E!Init, E!EditBounds, Listed
<1>2. DOMAIN E!Idle = Fields /\ E!Idle.pc = "idle" /\ E!Idle.linenum = 1 /\ E!Idle.src = <<>> /\ E!Idle.used = {}
  BY DEF E!Idle, Fields
<1>3. Editors BY <1>2, EmptyFile DEF E!Init, Editors
<1>4. edits \in 0..MaxEdits BY DEF E!Init, E!EditBounds
<1> QED BY <1>1, <1>3, <1>4 DEF EditInv

(* tinydns-edit.c:174-239: whatever editors run beside each other, and     *)
(* wherever they die, the servers of a name that are of one kind have      *)
(* different letters and one lifetime, and a host has one address and an   *)
(* address one host.                                                       *)
THEOREM EditedAlways ==
  ASSUME E!EditBounds
  PROVE  E!Spec => []E!Edited
<1>1. EditInv /\ [E!Next]_E!vars => EditInv' BY EditStep
<1>2. E!Init => EditInv BY EditInit
<1>3. EditInv => E!Edited BY DEF EditInv, Editors, E!Edited, E!TypeOK
<1> QED BY <1>1, <1>2, <1>3, PTL DEF E!Spec

(* What becomes the file is what an editor read and one line more.         *)
LEMMA NewerStep ==
  ASSUME EditInv, NEW e \in Editor, E!Rename(e)
  PROVE  E!IsPrefix(ed[e].src, edited') /\ Len(edited') = Len(ed[e].src) + 1
<1> DEFINE f == ed[e].src
           g == new[e]
<1>1. edited' = g /\ Listed(f) /\ Listed(g) /\ Len(g) = Len(f) + 1 /\ \A k \in 1..Len(f) : g[k] = f[k]
  BY DEF E!Rename, EditInv, Editors, Editing, Begins
<1>2. E!IsPrefix(f, g)
  <2> HIDE DEF f, g
  <2> DEFINE n == Len(f)
  <2>1. f \in Seq(E!ToSet(f)) /\ g \in Seq(E!ToSet(g)) /\ n \in Nat /\ Len(g) = n + 1
    BY <1>1 DEF Listed
  <2>2. /\ SubSeq(f, 1, n) \in Seq(E!ToSet(f)) /\ Len(SubSeq(f, 1, n)) = n
        /\ \A k \in 1..n : SubSeq(f, 1, n)[k] = f[k]
    BY <2>1, SubSeqProperties
  <2>3. /\ SubSeq(g, 1, n) \in Seq(E!ToSet(g)) /\ Len(SubSeq(g, 1, n)) = n
        /\ \A k \in 1..n : SubSeq(g, 1, n)[k] = g[k]
    BY <2>1, SubSeqProperties
  <2>4. SubSeq(f, 1, n) = SubSeq(g, 1, n) BY <1>1, <2>2, <2>3, SeqEqual
  <2> QED BY <2>1, <2>4 DEF E!IsPrefix
<1> QED BY <1>1, <1>2

KeptStep ==
  edited' # edited => \/ Len(edited') = Len(edited) + 1 /\ E!IsPrefix(edited, edited')
                      \/ \E e \in Editor : E!Stale(e) /\ E!IsPrefix(ed[e].src, edited') /\ Len(edited') = Len(ed[e].src) + 1

LEMMA EditKeeps ==
  ASSUME EditInv, [E!Next]_E!vars
  PROVE  [KeptStep]_E!vars
<1> SUFFICES ASSUME edited' # edited PROVE KeptStep BY DEF KeptStep
<1>1. PICK e \in Editor : E!Rename(e) BY DEF E!Next, E!Step, E!Open, E!ReadLine, E!AddLine, E!Die, E!vars
<1>2. E!IsPrefix(ed[e].src, edited') /\ Len(edited') = Len(ed[e].src) + 1 BY <1>1, NewerStep
<1>3. ed[e].pc # "idle" BY <1>1 DEF E!Rename
<1>4. CASE ed[e].src = edited BY <1>2, <1>4 DEF KeptStep
<1>5. CASE ed[e].src # edited BY <1>2, <1>3, <1>5 DEF KeptStep, E!Stale
<1> QED BY <1>4, <1>5

(* tinydns-edit.c:111-254: a file that is replaced has all of its lines in *)
(* the new one, unless an editor read it before somebody else replaced it. *)
THEOREM KeptAlways ==
  ASSUME E!EditBounds
  PROVE  E!Spec => E!Kept
<1>1. EditInv /\ [E!Next]_E!vars => EditInv' BY EditStep
<1>2. E!Init => EditInv BY EditInit
<1>3. EditInv /\ [E!Next]_E!vars => [KeptStep]_E!vars BY EditKeeps
<1> QED BY <1>1, <1>2, <1>3, PTL DEF E!Spec, E!Kept, KeptStep
-----------------------------------------------------------------------------
(* tinydns-data.c, as a program that publishes data.cdb                    *)

Served(f) == f # P!Absent => P!Whole(f)

\* How far data.tmp has come when tinydns-data is at some point.
Written ==
  /\ compiler = "reading" => /\ tmp.version = version /\ tmp.lines = read
                             /\ version \in Bad => read < FileLines
  /\ compiler \in {"finish", "fsync", "rename"} => tmp.lines = FileLines /\ tmp.version \notin Bad
  /\ compiler \in {"fsync", "rename"} => tmp.whole
  /\ compiler = "rename" => tmp.synced

\* What has the name data.cdb is on the disk, so that a crash takes nothing off.
OnDisk ==
  /\ cdb.synced /\ disk.synced /\ Served(cdb) /\ Served(disk)
  /\ \A s \in Server : Served(open[s])

PublishInv == P!TypeOK /\ Written /\ OnDisk
-----------------------------------------------------------------------------
LEMMA AbsentType ==
  ASSUME P!PublishBounds
  PROVE  P!Absent \in P!Files /\ P!Absent.synced /\ Served(P!Absent)
BY DEF P!PublishBounds, P!Absent, P!Files, Served

LEMMA PublishInit ==
  ASSUME P!PublishBounds
  PROVE  P!Init => PublishInv
<1> SUFFICES ASSUME P!Init PROVE PublishInv OBVIOUS
<1>1. P!TypeOK
  BY AbsentType DEF P!PublishBounds, P!Init, P!TypeOK
<1>2. Written
  BY DEF P!Init, Written
<1>3. OnDisk
  BY AbsentType DEF P!Init, OnDisk
<1> QED BY <1>1, <1>2, <1>3 DEF PublishInv

\* The steps of tinydns-data that leave data.cdb alone.
LEMMA OnDiskKept == OnDisk /\ UNCHANGED <<cdb, disk, open>> => OnDisk'
BY DEF OnDisk, Served

LEMMA StartKeeps ==
  ASSUME P!PublishBounds, PublishInv, P!Start
  PROVE  PublishInv'
<1>1. P!TypeOK'
  BY DEF P!PublishBounds, PublishInv, P!Start, P!reader, P!TypeOK, P!Files
<1>2. Written'
  BY DEF P!PublishBounds, PublishInv, P!Start, Written
<1>3. OnDisk'
  BY OnDiskKept DEF PublishInv, P!Start, P!reader
<1> QED BY <1>1, <1>2, <1>3 DEF PublishInv

LEMMA ReadLineKeeps ==
  ASSUME P!PublishBounds, PublishInv, P!ReadLine
  PROVE  PublishInv'
<1>1. read + 1 \in 0..FileLines
  BY DEF P!PublishBounds, PublishInv, P!ReadLine, P!AtLine, P!TypeOK
<1>2. P!TypeOK'
  BY <1>1 DEF PublishInv, P!ReadLine, P!AtLine, P!reader, P!TypeOK, P!Files
<1>3. Written'
  BY <1>1 DEF PublishInv, P!ReadLine, P!AtLine, Written, P!TypeOK, P!Files
<1>4. OnDisk'
  BY OnDiskKept DEF PublishInv, P!ReadLine, P!reader
<1> QED BY <1>2, <1>3, <1>4 DEF PublishInv

LEMMA SyntaxErrorKeeps ==
  ASSUME P!PublishBounds, PublishInv, P!SyntaxError
  PROVE  PublishInv'
<1>1. OnDisk'
  BY OnDiskKept DEF PublishInv, P!SyntaxError, P!reader
<1> QED BY <1>1 DEF PublishInv, P!SyntaxError, P!reader, P!TypeOK, Written

LEMMA EndOfDataKeeps ==
  ASSUME P!PublishBounds, PublishInv, P!EndOfData
  PROVE  PublishInv'
<1>1. P!TypeOK' /\ Written'
  BY DEF P!PublishBounds, PublishInv, P!EndOfData, P!reader, P!TypeOK, Written
<1>2. OnDisk'
  BY OnDiskKept DEF PublishInv, P!EndOfData, P!reader
<1> QED BY <1>1, <1>2 DEF PublishInv

LEMMA FinishKeeps ==
  ASSUME P!PublishBounds, PublishInv, P!Finish
  PROVE  PublishInv'
<1>1. P!TypeOK'
  BY DEF PublishInv, P!Finish, P!reader, P!TypeOK, P!Files
<1>2. Written'
  BY DEF PublishInv, P!Finish, P!TypeOK, P!Files, Written
<1>3. OnDisk'
  BY OnDiskKept DEF PublishInv, P!Finish, P!reader
<1> QED BY <1>1, <1>2, <1>3 DEF PublishInv

LEMMA FsyncKeeps ==
  ASSUME P!PublishBounds, PublishInv, P!Fsync
  PROVE  PublishInv'
<1>1. P!TypeOK'
  BY DEF PublishInv, P!Fsync, P!reader, P!TypeOK, P!Files
<1>2. Written'
  BY DEF PublishInv, P!Fsync, P!TypeOK, P!Files, Written
<1>3. OnDisk'
  BY OnDiskKept DEF PublishInv, P!Fsync, P!reader
<1> QED BY <1>1, <1>2, <1>3 DEF PublishInv

LEMMA RenameKeeps ==
  ASSUME P!PublishBounds, PublishInv, P!Rename
  PROVE  PublishInv'
<1>1. Served(tmp) /\ tmp.synced
  BY DEF PublishInv, P!Rename, Written, Served, P!Whole
<1>2. P!TypeOK'
  BY AbsentType DEF PublishInv, P!Rename, P!reader, P!TypeOK
<1>3. Written'
  BY DEF PublishInv, P!Rename, Written
<1>4. OnDisk'
  BY <1>1 DEF PublishInv, P!Rename, P!reader, OnDisk, Served
<1> QED BY <1>2, <1>3, <1>4 DEF PublishInv

LEMMA DiesKeeps ==
  ASSUME P!PublishBounds, PublishInv, P!Dies
  PROVE  PublishInv'
<1>1. OnDisk'
  BY OnDiskKept DEF PublishInv, P!Dies
<1> QED BY <1>1 DEF PublishInv, P!Dies, P!TypeOK, Written

LEMMA SaveKeeps ==
  ASSUME P!PublishBounds, PublishInv, P!Save
  PROVE  PublishInv'
<1>1. source' \in 1..MaxVersion
  BY DEF P!PublishBounds, PublishInv, P!Save, P!TypeOK
<1>2. OnDisk'
  BY OnDiskKept DEF PublishInv, P!Save
<1> QED BY <1>1, <1>2 DEF PublishInv, P!Save, P!TypeOK, Written

LEMMA OpenReadKeeps ==
  ASSUME P!PublishBounds, PublishInv, NEW s \in Server, P!OpenRead(s)
  PROVE  PublishInv'
<1>1. open' = [open EXCEPT ![s] = cdb] /\ UNCHANGED <<source, tmp, cdb, disk, compiler, version, read>>
  BY DEF P!OpenRead
<1>2. P!TypeOK' /\ Written'
  BY <1>1 DEF PublishInv, P!TypeOK, Written
<1>3. \A t \in Server : open'[t] = cdb \/ open'[t] = open[t]
  BY <1>1 DEF PublishInv, P!TypeOK
<1>4. OnDisk'
  BY <1>1, <1>3 DEF PublishInv, OnDisk, Served
<1> QED BY <1>2, <1>4 DEF PublishInv

LEMMA RenameOnDiskKeeps ==
  ASSUME P!PublishBounds, PublishInv, P!RenameOnDisk
  PROVE  PublishInv'
<1>1. P!TypeOK' /\ Written'
  BY DEF PublishInv, P!RenameOnDisk, P!reader, P!TypeOK, Written
<1>2. OnDisk'
  BY DEF PublishInv, P!RenameOnDisk, P!reader, OnDisk, Served
<1> QED BY <1>1, <1>2 DEF PublishInv

LEMMA LeftType ==
  ASSUME P!PublishBounds, NEW f \in P!Files, NEW n \in 0..FileLines, NEW end \in BOOLEAN
  PROVE  P!Left(f, n, end) \in P!Files /\ (f.synced => P!Left(f, n, end) = f)
<1>1. CASE f.synced
  BY <1>1 DEF P!Left
<1>2. CASE ~f.synced
  <2>1. (IF n < f.lines THEN n ELSE f.lines) \in 0..FileLines
    BY DEF P!Files
  <2>2. (f.whole /\ end) \in BOOLEAN
    OBVIOUS
  <2> QED BY <1>2, <2>1, <2>2 DEF P!Left, P!Files
<1> QED BY <1>1, <1>2

LEMMA CrashKeeps ==
  ASSUME P!PublishBounds, PublishInv, P!Crash
  PROVE  PublishInv'
<1>1. disk' = disk /\ cdb' = disk
  BY LeftType DEF P!Crash, PublishInv, P!TypeOK, OnDisk
<1>2. tmp' \in P!Files
  BY LeftType DEF P!Crash, PublishInv, P!TypeOK
<1>3. compiler' = "idle" /\ open' = [s \in Server |-> P!Absent] /\ UNCHANGED <<source, version, read>>
  BY DEF P!Crash
<1>4. P!TypeOK' /\ Written'
  BY <1>1, <1>2, <1>3, AbsentType DEF PublishInv, P!TypeOK, Written
<1>5. OnDisk'
  BY <1>1, <1>3, AbsentType DEF PublishInv, OnDisk, Served
<1> QED BY <1>4, <1>5 DEF PublishInv

LEMMA PublishStep ==
  ASSUME P!PublishBounds
  PROVE  PublishInv /\ [P!Next]_P!vars => PublishInv'
<1> SUFFICES ASSUME P!PublishBounds, PublishInv, [P!Next]_P!vars PROVE PublishInv' OBVIOUS
<1>1. CASE P!Compile
  BY <1>1, StartKeeps, ReadLineKeeps, SyntaxErrorKeeps, EndOfDataKeeps, FinishKeeps, FsyncKeeps,
     RenameKeeps DEF P!Compile
<1>2. CASE P!Dies \/ P!Save \/ P!RenameOnDisk \/ P!Crash
  BY <1>2, DiesKeeps, SaveKeeps, RenameOnDiskKeeps, CrashKeeps
<1>3. CASE \E s \in Server : P!OpenRead(s)
  BY <1>3, OpenReadKeeps
<1>4. CASE UNCHANGED P!vars
  BY <1>4 DEF P!vars, PublishInv, P!TypeOK, Written, OnDisk, Served
<1> QED BY <1>1, <1>2, <1>3, <1>4 DEF P!Next

\* tinydns-data.c:487-491: whenever the program or the machine stops, what
\* servers find under data.cdb is all of one version that could be parsed.
THEOREM PublishServedWhole ==
  ASSUME P!PublishBounds
  PROVE  P!Spec => []P!ServedWhole
<1>1. PublishInv => P!ServedWhole
  BY DEF PublishInv, OnDisk, Served, P!ServedWhole
<1> QED BY <1>1, PublishInit, PublishStep, PTL DEF P!Spec

-----------------------------------------------------------------------------
(* The programs together: each does what it does alone, or nothing.        *)
LEMMA EditAlone == ZoneDataSpec => E!Spec
<1>1. ZoneDataInit => E!Init BY DEF ZoneDataInit, ZoneDataBegun
<1>2. [ZoneDataNext]_zonedata => [E!Next]_E!vars
  BY DEF ZoneDataNext, zonedata, editing, E!vars
<1> QED BY <1>1, <1>2, PTL DEF ZoneDataSpec, E!Spec

LEMMA PublishAlone == ZoneDataSpec => P!Spec
<1>1. ZoneDataInit => P!Init BY DEF ZoneDataInit, ZoneDataBegun
<1>2. [ZoneDataNext]_zonedata => [P!Next]_P!vars
  BY DEF ZoneDataNext, zonedata, publishing, P!vars
<1> QED BY <1>1, <1>2, PTL DEF ZoneDataSpec, P!Spec

(* tinydns-edit.c:174-239: whatever editors run beside each other, and     *)
(* wherever they die, the servers of a name that are of one kind have      *)
(* different letters and one lifetime, and a host has one address and an   *)
(* address one host.                                                       *)
THEOREM ZoneDataEdited ==
  ASSUME E!EditBounds
  PROVE  ZoneDataSpec => []Edited
<1>1. E!Spec => []E!Edited BY EditedAlways
<1> QED BY <1>1, EditAlone, PTL DEF Edited

(* tinydns-data.c:487-491: whenever the program or the machine stops, what *)
(* servers find under data.cdb is all of one version that could be parsed. *)
THEOREM ZoneDataServedWhole ==
  ASSUME P!PublishBounds
  PROVE  ZoneDataSpec => []ServedWhole
<1>1. P!Spec => []P!ServedWhole BY PublishServedWhole
<1> QED BY <1>1, PublishAlone, PTL DEF ServedWhole
=============================================================================

-------------------------------- MODULE Cdb --------------------------------
(***************************************************************************)
(* The constant database: cdb_make.c writes the file in one pass, keeping  *)
(* hash and position of every entry; cdb.c finds the entries of a key.     *)
(*                                                                         *)
(* A file has a header (a pair of numbers for each of Tables hash tables), *)
(* the entries, and the hash tables.  Keys and data are model values with  *)
(* a length; positions are bytes and have the width of the code: they are  *)
(* taken modulo Wide (2^32 in the code).                                   *)
(***************************************************************************)
EXTENDS Naturals, Sequences, FiniteSets

CONSTANTS
  Key, Datum,
  KeyLen, DataLen,   \* their lengths in bytes
  Hash,              \* cdb_hash of every key
  Tables,            \* number of hash tables, 256 in the code
  Wide,              \* 2^32, the values of a uint32
  MaxEntries         \* bound for the model checker: pairs added to a database

ASSUME FileAssumption ==
  /\ KeyLen \in [Key -> Nat] /\ DataLen \in [Datum -> Nat] /\ Hash \in [Key -> Nat]
  /\ Tables \in Nat \ {0}
  /\ Wide \in Nat /\ 8 * Tables < Wide
  /\ \A k \in Key : KeyLen[k] < Wide
  /\ \A d \in Datum : DataLen[d] < Wide
  /\ "none" \notin Key
  /\ MaxEntries \in Nat

VARIABLES
  maker,    \* "adding", "finishing" or "filling" (inside cdb_make_finish, between
            \* two tables or in one), "done" or "failed"
  hp,       \* the hplist, oldest first: hash and position of each entry
  pos,      \* c->pos
  table,    \* the next hash table that cdb_make_finish will write
  hash,     \* that table, in memory
  last,     \* the place in hp of the entry that was put into it last
  written,  \* bytes the file has got so far; the file itself does not wrap
  entries,  \* what is in the file at the offsets where an entry starts
  slots,    \* and where a slot of a hash table starts
  final,    \* the header: position and number of slots of each table
  added     \* the pairs given to cdb_make_add, for the properties

makerVars == <<maker, hp, pos, table, hash, last, written, entries, slots, final, added>>

VARIABLES
  pc,       \* "idle", or "probing" inside cdb_findnext
  key,      \* the key of the search, or "none"
  loop, hslots, hpos, kpos, khash,   \* fields of struct cdb
  dpos,     \* start of the entry found; c->dpos and c->dlen follow from it
  ret       \* result of the last call of cdb_findnext

readerVars == <<pc, key, loop, hslots, hpos, kpos, khash, dpos, ret>>
vars == <<makerVars, readerVars>>

HeaderLen == 8 * Tables
Empty == [h |-> 0, p |-> 0]

(* posplus: the sum as a uint32, and its test for overflow.                *)
PosPlus(p, len) == (p + len) % Wide

\* Mutant of Overflows.
OverflowsUnseen(p, len) == FALSE

Overflows(p, len) == PosPlus(p, len) < len

Init ==
  /\ maker = "adding" /\ hp = <<>> /\ pos = HeaderLen /\ table = 0
  /\ hash = [n \in {} |-> Empty] /\ last = 0
  /\ written = HeaderLen
  /\ entries = [o \in {} |-> Empty] /\ slots = [o \in {} |-> Empty]
  /\ final = [i \in 0..Tables - 1 |-> [pos |-> 0, len |-> 0]]
  /\ added = <<>>
  /\ pc = "idle" /\ key = "none" /\ loop = 0 /\ hslots = 0 /\ hpos = 0
  /\ kpos = 0 /\ khash = 0 /\ dpos = 0 /\ ret = "none"

-----------------------------------------------------------------------------
(* cdb_make.c                                                              *)

EntryLen(k, d) == 8 + KeyLen[k] + DataLen[d]

(* One of the three additions of cdb_make_addend leaves the 32 bits.       *)
EntryOverflows(k, d) ==
  LET afterLengths == PosPlus(pos, 8)
      afterKey == PosPlus(afterLengths, KeyLen[k])
  IN \/ Overflows(pos, 8)
     \/ Overflows(afterLengths, KeyLen[k])
     \/ Overflows(afterKey, DataLen[d])

(* cdb_make_add: the bytes go to the file, then cdb_make_addend notes the  *)
(* hash with the position before them.                                     *)
Add(k, d) ==
  /\ maker = "adding" /\ Len(hp) < MaxEntries
  /\ hp' = Append(hp, [h |-> Hash[k], p |-> pos])
  /\ pos' = PosPlus(pos, EntryLen(k, d))
  /\ entries' = [o \in DOMAIN entries \cup {written} |->
                   IF o = written THEN [key |-> k, data |-> d] ELSE entries[o]]
  /\ written' = written + EntryLen(k, d)
  /\ maker' = IF EntryOverflows(k, d) THEN "failed" ELSE "adding"
  /\ added' = Append(added, [key |-> k, data |-> d])
  /\ UNCHANGED <<table, hash, last, slots, final, readerVars>>

(* Writing fails, or memory is short: every caller stops.                  *)
MakerFails ==
  /\ maker \in {"adding", "finishing", "filling"}
  /\ maker' = "failed"
  /\ UNCHANGED <<hp, pos, table, hash, last, written, entries, slots, final, added, readerVars>>

TableOf(h) == h % Tables

(* The entries of table i, by their places in the list: the two loops that *)
(* split the list run backwards twice.                                     *)
Mine(i) == {j \in DOMAIN hp : TableOf(hp[j].h) = i}

(* The slots of table i: twice as many as entries.                         *)
TableLen(i) == 2 * Cardinality(Mine(i))

(* memsize, the room for the largest table and for all entries.            *)
MemSize ==
  LET doubled == {TableLen(i) : i \in 0..Tables - 1} \cup {1}
  IN Len(hp) + CHOOSE m \in doubled : \A n \in doubled : n <= m

(* cdb_make_finish up to the allocation of split.                          *)
Finish ==
  /\ maker = "adding"
  /\ maker' = IF MemSize > (Wide - 1) \div 8 THEN "failed" ELSE "finishing"
  /\ UNCHANGED <<hp, pos, table, hash, last, written, entries, slots, final, added, readerVars>>

(* Its last loop: the place of the table for the header, and a table of    *)
(* free slots.                                                             *)
ClearTable ==
  /\ maker = "finishing" /\ table < Tables
  /\ maker' = "filling"
  /\ final' = [final EXCEPT ![table] = [pos |-> pos, len |-> TableLen(table)]]
  /\ hash' = [n \in 0..TableLen(table) - 1 |-> Empty] /\ last' = 0
  /\ UNCHANGED <<hp, pos, table, written, entries, slots, added, readerVars>>

(* The slot n steps behind the start of the search for h, around the end.  *)
Behind(h, len, n) == (((h \div Tables) % len) + n) % len

(* The next entry goes to the first free slot behind its start.            *)
Left == {j \in Mine(table) : j > last}
PutEntry ==
  LET len == final[table].len
      next == CHOOSE j \in Left : \A k \in Left : j <= k
      free(n) == hash[Behind(hp[next].h, len, n)].p = 0
      first == CHOOSE n \in 0..len - 1 : free(n) /\ \A m \in 0..n - 1 : ~free(m)
  IN /\ maker = "filling" /\ Left # {}
     /\ hash' = [hash EXCEPT ![Behind(hp[next].h, len, first)] = hp[next]]
     /\ last' = next
     /\ UNCHANGED <<maker, hp, pos, table, written, entries, slots, final, added, readerVars>>

(* The table goes to the file.                                             *)
WriteTable ==
  LET len == final[table].len
      offsets == {written + 8 * n : n \in 0..len - 1}
  IN /\ maker = "filling" /\ Left = {}
     /\ slots' = [o \in DOMAIN slots \cup offsets |->
                    IF o \in offsets THEN hash[(o - written) \div 8] ELSE slots[o]]
     /\ written' = written + 8 * len
     /\ pos' = PosPlus(pos, 8 * len)
     /\ maker' = IF \E n \in 0..len - 1 : Overflows(PosPlus(pos, 8 * n), 8)
                 THEN "failed" ELSE "finishing"
     /\ table' = table + 1
     /\ UNCHANGED <<hp, hash, last, entries, final, added, readerVars>>

(* The header goes to the start of the file.                               *)
WriteHeader ==
  /\ maker = "finishing" /\ table = Tables
  /\ maker' = "done"
  /\ UNCHANGED <<hp, pos, table, hash, last, written, entries, slots, final, added, readerVars>>

-----------------------------------------------------------------------------
(* cdb.c                                                                   *)

(* cdb_findstart; the key comes with the calls of cdb_findnext.            *)
FindStart(k) ==
  /\ maker = "done" /\ pc = "idle"
  /\ key' = k /\ loop' = 0 /\ ret' = "none"
  /\ UNCHANGED <<makerVars, pc, hslots, hpos, kpos, khash, dpos>>

(* A call of cdb_findnext: at the start of a search it looks for the table *)
(* in the header.  tdlookup.c calls again after an error too.              *)
FindNext ==
  /\ pc = "idle" /\ key # "none" /\ ret # "end"
  /\ IF loop = 0
     THEN LET f == final[TableOf(Hash[key])] IN
          /\ hslots' = f.len
          /\ IF f.len = 0
             THEN ret' = "end" /\ UNCHANGED <<pc, hpos, khash, kpos>>
             ELSE /\ pc' = "probing"
                  /\ hpos' = f.pos /\ khash' = Hash[key]
                  /\ kpos' = f.pos + 8 * ((Hash[key] \div Tables) % f.len)
                  /\ UNCHANGED ret
     ELSE pc' = "probing" /\ UNCHANGED <<hslots, hpos, khash, kpos, ret>>
  /\ UNCHANGED <<makerVars, key, loop, dpos>>

Return(r) == ret' = r /\ pc' = "idle"

\* Mutant of Advance.
AdvanceNoWrap ==
  /\ loop' = loop + 1
  /\ kpos' = IF kpos + 8 = hpos + 8 * hslots THEN kpos ELSE kpos + 8

(* Past the slot: the loop count, and the position around the end.         *)
Advance ==
  /\ loop' = loop + 1
  /\ kpos' = IF kpos + 8 = hpos + 8 * hslots THEN hpos ELSE kpos + 8

Looking == pc = "probing" /\ loop < hslots
Matches(e) == KeyLen[e.key] = KeyLen[key] /\ e.key = key

AllProbed ==
  /\ pc = "probing" /\ loop >= hslots
  /\ Return("end")
  /\ UNCHANGED <<makerVars, key, loop, hslots, hpos, kpos, khash, dpos>>

ProbeEmpty ==
  /\ Looking /\ slots[kpos].p = 0
  /\ Return("end")
  /\ UNCHANGED <<makerVars, key, loop, hslots, hpos, kpos, khash, dpos>>

ProbeOther ==
  /\ Looking /\ slots[kpos].p # 0
  /\ slots[kpos].h = khash => ~Matches(entries[slots[kpos].p])
  /\ Advance
  /\ UNCHANGED <<makerVars, pc, key, hslots, hpos, khash, dpos, ret>>

ProbeMatch ==
  /\ Looking /\ slots[kpos].p # 0
  /\ slots[kpos].h = khash /\ Matches(entries[slots[kpos].p])
  /\ Advance
  /\ dpos' = slots[kpos].p
  /\ Return("found")
  /\ UNCHANGED <<makerVars, key, hslots, hpos, khash>>

(* The file cannot be read: at the header or a slot the search stays where *)
(* it is, at an entry it has passed it.                                    *)
ReadFails ==
  /\ \/ pc = "idle" /\ key # "none" /\ loop = 0 /\ ret # "end"
        /\ UNCHANGED <<loop, kpos>>
     \/ Looking /\ UNCHANGED <<loop, kpos>>
     \/ Looking /\ slots[kpos].p # 0 /\ slots[kpos].h = khash /\ Advance
  /\ Return("error")
  /\ UNCHANGED <<makerVars, key, hslots, hpos, khash, dpos>>

-----------------------------------------------------------------------------
Make ==
  \/ \E k \in Key, d \in Datum : Add(k, d)
  \/ MakerFails \/ Finish \/ ClearTable \/ PutEntry \/ WriteTable \/ WriteHeader

Find ==
  \/ \E k \in Key : FindStart(k)
  \/ FindNext \/ AllProbed \/ ProbeEmpty \/ ProbeOther \/ ProbeMatch \/ ReadFails

(* A compiler that failed exits and leaves data.cdb as it was.             *)
Stopped == maker = "failed" /\ UNCHANGED vars

Next == Make \/ Find \/ Stopped
Spec == Init /\ [][Next]_vars

-----------------------------------------------------------------------------
(* Positions, counters and the parts of the file have their types.         *)
TypeOK ==
  /\ maker \in {"adding", "finishing", "filling", "done", "failed"}
  /\ hp \in Seq([h : Nat, p : Nat]) /\ pos \in 0..Wide - 1 /\ table \in 0..Tables
  /\ last \in Nat /\ written \in Nat
  /\ final \in [0..Tables - 1 -> [pos : Nat, len : Nat]]
  /\ added \in Seq([key : Key, data : Datum])
  /\ pc \in {"idle", "probing"} /\ key \in Key \cup {"none"}
  /\ {loop, hslots, hpos, kpos, khash, dpos} \subseteq Nat
  /\ ret \in {"none", "found", "end", "error"}

(* cdb_make.c:21-27 posplus and :29-49 cdb_make_addend: until the maker    *)
(* gives up, its 32-bit position is the real length of the file, and the   *)
(* list holds for every pair its hash and the offset where it was written; *)
(* the entries lie one behind the other.                                   *)
Placed(i) ==
  /\ hp[i].h = Hash[added[i].key]
  /\ hp[i].p \in DOMAIN entries /\ entries[hp[i].p] = added[i]
  /\ hp[i].p >= HeaderLen
  /\ LET end == hp[i].p + EntryLen(added[i].key, added[i].data)
     IN end <= written /\ (i < Len(hp) => end <= hp[i + 1].p)

Layout ==
  maker # "failed" =>
    /\ pos = written
    /\ Len(hp) = Len(added)
    /\ \A i \in 1..Len(hp) : Placed(i)

(* A table t of len slots that holds the entries S: each in one slot, in   *)
(* the order of addition for those of one hash, and with no free slot      *)
(* between its start and itself; and some slot is free.                    *)
Holds(t, len, S) ==
  /\ \A n \in 0..len - 1 : t[n].p = 0 \/ \E j \in S : t[n] = hp[j]
  /\ \A m, n \in 0..len - 1 : t[m].p # 0 /\ t[m] = t[n] => m = n
  /\ \A j \in S :
       LET slot(n) == t[Behind(hp[j].h, len, n)] IN
       \E far \in 0..len - 1 :
         /\ slot(far) = hp[j]
         /\ \A n \in 0..far : slot(n).p # 0
         /\ \A k \in S : k < j /\ hp[k].h = hp[j].h => \E n \in 0..far - 1 : slot(n) = hp[k]
  /\ len > 0 => \E n \in 0..len - 1 : t[n].p = 0

(* cdb_make.c:111-139: the table that is filled and the tables that are    *)
(* written hold their entries, so that the searches for a free slot and    *)
(* for a missing key end.                                                  *)
TableAt(i) == [n \in 0..final[i].len - 1 |-> slots[final[i].pos + 8 * n]]
TablesOK ==
  /\ maker = "filling" => Holds(hash, final[table].len, Mine(table) \ Left)
  /\ maker # "failed" => \A i \in 0..table - 1 : Holds(TableAt(i), final[i].len, Mine(i))

(* cdb.c:93-112: during a search the slot read next is the one as many     *)
(* steps behind the start of the search as slots were passed, around the   *)
(* end of the table that the header names, and it was written.             *)
Reads ==
  LET f == final[TableOf(Hash[key])]
  IN /\ hpos = f.pos /\ hslots = f.len /\ khash = Hash[key] /\ f.len > 0
     /\ kpos = f.pos + 8 * Behind(Hash[key], f.len, loop)
     /\ kpos \in DOMAIN slots

ReadsInside == pc = "probing" \/ loop > 0 => Reads

(* cdb.c:87-130 with cdb_make.c:72-152: file and search together are a     *)
(* multimap: each datum of the key once, in the order of addition, then    *)
(* the end; colliding hashes and full tables make no difference.           *)
Slot(n) ==
  LET f == final[TableOf(Hash[key])] IN slots[f.pos + 8 * Behind(Hash[key], f.len, n)]
Passed == {j \in DOMAIN added : added[j].key = key /\ \E n \in 0..loop - 1 : Slot(n) = hp[j]}
Cursor == CHOOSE j \in Passed \cup {0} : \A k \in Passed : k <= j
Given == IF ret = "found" THEN entries[dpos].data ELSE "none"

Promise == INSTANCE Multimap WITH
  store <- added, sealed <- maker = "done", cursor <- Cursor, datum <- Given

IsMultimap == Promise!MultimapSpec
=============================================================================

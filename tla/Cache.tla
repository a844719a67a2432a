------------------------------ MODULE Cache ------------------------------
(***************************************************************************)
(* cache.c: the record cache of dnscache.  One block of memory x holds     *)
(* hash-chain heads in [0, HSize) and then a ring of variable-length       *)
(* entries:                                                                *)
(*     [HSize, writer)   entries, newest on the right                      *)
(*     [writer, oldest)  free                                              *)
(*     [oldest, unused)  entries, oldest on the left                       *)
(*     [unused, Size)    not used in this turn of the ring                 *)
(* Every head and entry carries one link, the xor of the positions of its  *)
(* neighbours in its chain: head, newest entry, ..., oldest entry.         *)
(*                                                                         *)
(* cache_set is several steps here: the call, one step per turn of a ring  *)
(* and per eviction of its while loop, and the final write or return; so   *)
(* is cache_get: the call, one step per entry of the chain that it walks   *)
(* past, and the return.  The program has one thread, so nothing but the   *)
(* clock moves in between.                                                 *)
(***************************************************************************)
EXTENDS Integers, FiniteSets

CONSTANTS
    CacheSize,            \* the argument of cache_init
    Keys, KeyLen,         \* names of records and their lengths in bytes
    Data, DataLen,        \* contents of records and their lengths in bytes
    RawHash,              \* the hash of a key before it is cut to the table
    BitXor(_, _),            \* bitwise exclusive or
    MaxChain,             \* entries cache_get walks past before it gives up
    MaxTTL,               \* one week: 604800 seconds
    TTLs,                 \* lifetimes callers ask for
    Times,                \* readings of the clock
    NoSet, NoGet, Miss    \* no cache_set, no cache_get in progress; it returned 0

ASSUME SizesAssumption ==
    /\ CacheSize \in Nat /\ MaxChain \in Nat
    /\ KeyLen \in [Keys -> Nat]
    /\ DataLen \in [Data -> Nat]
    /\ RawHash \in [Keys -> Nat]
    /\ NoSet \notin [key : Keys, data : Data, ttl : TTLs]

ASSUME TimesAssumption ==
    /\ Times \subseteq Nat /\ Times # {}
    /\ TTLs \subseteq Nat
    /\ MaxTTL \in Nat

VARIABLES
    writer, oldest, unused,  \* the borders of the ring
    link,                    \* position of a head or an entry -> its link
    entry,                   \* position -> the entry written there
    pending,                 \* arguments of the cache_set that is running
    get,                     \* key, prevpos, pos and loop of the cache_get that is running
    got,                     \* the answer, if the last step was its return
    now                      \* what tai_now reads

ring == <<writer, oldest, unused, link, entry>>
vars == <<ring, pending, get, got, now>>
--------------------------------------------------------------------------
MaxKeyLen == 1000
MaxDataLen == 1000000
Header == 20

Smaller(a, b) == IF a < b THEN a ELSE b
Clamp(lo, a, hi) == IF a < lo THEN lo ELSE Smaller(a, hi)

Size == Clamp(100, CacheSize, 1000000000)

ASSUME XorAssumption ==
    \A a, b \in 0 .. Size - 1 :
      /\ BitXor(a, 0) = a /\ BitXor(a, b) = BitXor(b, a)
      /\ BitXor(BitXor(a, b), b) = a /\ BitXor(a, BitXor(a, b)) = b

\* cache_init doubles hsize from 4 until it passes Size / 32.
TableSizes == {4, 8, 16, 32, 64, 128, 256, 512, 1024, 2048, 4096, 8192, 16384,
    32768, 65536, 131072, 262144, 524288, 1048576, 2097152, 4194304, 8388608,
    16777216, 33554432}
HSize == CHOOSE h \in TableSizes :
    h > Size \div 32 /\ (h = 4 \/ h \div 2 <= Size \div 32)

Heads == {p \in 0 .. HSize - 1 : p % 4 = 0}

\* Shifting left by two and masking with hsize - 4.
hash(k) == (4 * RawHash[k]) % HSize

EntryLen(k, d) == KeyLen[k] + DataLen[d] + Header
LenAt(p) == EntryLen(entry[p].key, entry[p].data)

Cacheable(k, d, t) == KeyLen[k] <= MaxKeyLen /\ DataLen[d] <= MaxDataLen /\ t > 0
--------------------------------------------------------------------------
Init ==
    /\ writer = HSize /\ oldest = Size /\ unused = Size
    /\ link = [p \in Heads |-> 0]
    /\ entry = [p \in {} |-> 0]
    /\ pending = NoSet /\ get = NoGet /\ got = NoGet
    /\ now \in Times

\* Entering cache_set past its early returns.
SetCall(k, d, t) ==
    /\ pending = NoSet /\ get = NoGet
    /\ Cacheable(k, d, t)
    /\ pending' = [key |-> k, data |-> d, ttl |-> t]
    /\ got' = NoGet
    /\ UNCHANGED <<ring, get, now>>

Full == writer + EntryLen(pending.key, pending.data) > oldest

\* Mutant of WrapAround: `unused` is not moved.
WrapAroundKeepsUnused ==
    /\ pending # NoSet /\ Full
    /\ oldest = unused /\ writer > HSize
    /\ oldest' = HSize /\ writer' = HSize
    /\ got' = NoGet /\ UNCHANGED <<unused, link, entry, pending, get, now>>

\* Mutant of WrapAround: it is not asked whether anything was written.
WrapAroundAgain ==
    /\ pending # NoSet /\ Full
    /\ oldest = unused
    /\ unused' = writer /\ oldest' = HSize /\ writer' = HSize
    /\ got' = NoGet /\ UNCHANGED <<link, entry, pending, get, now>>

\* No old entries are left on the right: the written part becomes the old part.
WrapAround ==
    /\ pending # NoSet /\ Full
    /\ oldest = unused /\ writer > HSize
    /\ unused' = writer /\ oldest' = HSize /\ writer' = HSize
    /\ got' = NoGet /\ UNCHANGED <<link, entry, pending, get, now>>

\* Mutant of EvictOldest: the dropped entry stays the tail of its chain.
EvictOldestKeepsLink ==
    /\ pending # NoSet /\ Full
    /\ oldest # unused
    /\ LET next == oldest + LenAt(oldest)
       IN  IF next = unused THEN oldest' = Size /\ unused' = Size
                            ELSE oldest' = next /\ UNCHANGED unused
    /\ got' = NoGet /\ UNCHANGED <<writer, link, entry, pending, get, now>>

\* Unlink the oldest entry from the tail of its chain and pass over it.  Its
\* bytes stay where they are until something is written over them.
EvictOldest ==
    /\ pending # NoSet /\ Full
    /\ oldest # unused
    /\ link' = [link EXCEPT ![link[oldest]] = BitXor(@, oldest)]
    /\ LET next == oldest + LenAt(oldest)
       IN  IF next = unused THEN oldest' = Size /\ unused' = Size
                            ELSE oldest' = next /\ UNCHANGED unused
    /\ got' = NoGet /\ UNCHANGED <<writer, entry, pending, get, now>>

\* Mutant of TooBig: give up at the right end instead of turning the ring.
TooBigAtEnd ==
    /\ pending # NoSet /\ Full
    /\ oldest = unused
    /\ pending' = NoSet
    /\ got' = NoGet /\ UNCHANGED <<ring, get, now>>

\* The entry does not fit in an empty ring: cache_set returns.
TooBig ==
    /\ pending # NoSet /\ Full
    /\ oldest = unused /\ writer <= HSize
    /\ pending' = NoSet
    /\ got' = NoGet /\ UNCHANGED <<ring, get, now>>

\* What is left of the entries when len bytes at p are overwritten.
Intact(p, len) == {q \in DOMAIN entry : q + LenAt(q) <= p \/ q >= p + len}

\* Write the entry at writer and link it in as the newest of its chain.
Write ==
    LET k    == pending.key
        len  == EntryLen(k, pending.data)
        head == hash(k)
        pos  == link[head]
        kept == Intact(writer, len)
    IN  /\ pending # NoSet /\ ~Full
        /\ link' = [q \in Heads \cup kept \cup {writer} |->
                      IF q = head THEN writer
                      ELSE IF q = writer THEN BitXor(pos, head)
                      ELSE IF q = pos /\ pos # 0 THEN BitXor(BitXor(link[pos], head), writer)
                      ELSE link[q]]
        /\ entry' = [q \in kept \cup {writer} |->
                       IF q = writer
                         THEN [key |-> k, data |-> pending.data,
                               expire |-> now + Smaller(pending.ttl, MaxTTL)]
                         ELSE entry[q]]
        /\ writer' = writer + len
        /\ pending' = NoSet
        /\ got' = NoGet /\ UNCHANGED <<oldest, unused, get, now>>

\* The wall clock; it may be set back.
Tick ==
    /\ now' \in Times
    /\ got' = NoGet /\ UNCHANGED <<ring, pending, get>>

--------------------------------------------------------------------------
(* cache_get: follow the chain from the head, past at most MaxChain entries *)
(* of other keys, to the newest entry of the key.                           *)

GetCall(k) ==
    /\ pending = NoSet /\ get = NoGet
    /\ get' = [key |-> k, prev |-> hash(k), loop |-> 0,
               pos |-> IF KeyLen[k] > MaxKeyLen THEN 0 ELSE link[hash(k)]]
    /\ got' = NoGet
    /\ UNCHANGED <<ring, pending, now>>

AtKey == get # NoGet /\ get.pos # 0 /\ entry[get.pos].key = get.key
Passing == get # NoGet /\ get.pos # 0 /\ entry[get.pos].key # get.key

GetNext ==
    /\ Passing /\ get.loop + 1 <= MaxChain
    /\ get' = [key |-> get.key, prev |-> get.pos, loop |-> get.loop + 1,
               pos |-> BitXor(get.prev, link[get.pos])]
    /\ got' = NoGet
    /\ UNCHANGED <<ring, pending, now>>

\* Mutant of Read: the lifetime is not looked at.
ReadForever(p) == [data |-> entry[p].data, ttl |-> Smaller(entry[p].expire - now, MaxTTL)]

\* What cache_get makes of the entry it found.
Read(p) ==
    IF entry[p].expire < now THEN Miss
    ELSE [data |-> entry[p].data, ttl |-> Smaller(entry[p].expire - now, MaxTTL)]

Return(answer) ==
    /\ got' = [key |-> get.key, answer |-> answer]
    /\ get' = NoGet
    /\ UNCHANGED <<ring, pending, now>>

GetFound == AtKey /\ Return(Read(get.pos))

\* To protect against hash flooding.
GetGivesUp == Passing /\ get.loop + 1 > MaxChain /\ Return(Miss)

GetNothing == get # NoGet /\ get.pos = 0 /\ Return(Miss)
--------------------------------------------------------------------------
SetStep == WrapAround \/ EvictOldest \/ TooBig \/ Write

GetStep == GetNext \/ GetFound \/ GetGivesUp \/ GetNothing

Next ==
    \/ \E k \in Keys, d \in Data, t \in TTLs : SetCall(k, d, t)
    \/ \E k \in Keys : GetCall(k)
    \/ SetStep
    \/ GetStep
    \/ Tick

Spec == Init /\ [][Next]_vars
--------------------------------------------------------------------------
EntryRecord == [key : Keys, data : Data, expire : Nat]
SetRecord == [key : Keys, data : Data, ttl : TTLs]

\* The state has its types.
TypeOK ==
    /\ writer \in Nat /\ oldest \in Nat /\ unused \in Nat
    /\ DOMAIN entry \subseteq Nat
    /\ entry \in [DOMAIN entry -> EntryRecord]
    /\ pending \in SetRecord \cup {NoSet}
    /\ get # NoGet => get.key \in Keys /\ get.loop \in 0 .. MaxChain
    /\ now \in Times

\* [lo, hi) is a row of whole entries without a gap.
Tiled(lo, hi) ==
    /\ lo # hi => lo \in DOMAIN entry
    /\ \A p \in DOMAIN entry : p >= lo /\ p < hi =>
          p + LenAt(p) = hi \/ (p + LenAt(p) < hi /\ p + LenAt(p) \in DOMAIN entry)

\* The comment at the top of cache.c: the borders of the ring are in order,
\* an empty old part means the whole right side is free, and both parts are
\* rows of whole entries, whatever the sequence of sizes and wraps was.
RingOK ==
    /\ HSize <= writer /\ writer <= oldest /\ oldest <= unused /\ unused <= Size
    /\ oldest = unused => unused = Size
    /\ Tiled(HSize, writer)
    /\ Tiled(oldest, unused)

\* The places where entries that count are written.
Live == {p \in DOMAIN entry : (HSize <= p /\ p < writer) \/ (oldest <= p /\ p < unused)}

\* cache_impossible() is never called: no eviction passes the end of the old
\* part (line 156), and no entry in the ring reaches past the memory block
\* when cache_get reads its key and its data (lines 53, 60, 100 and 112).
NeverImpossible ==
    /\ oldest # unused => oldest \in DOMAIN entry /\ oldest + LenAt(oldest) <= unused
    /\ \A p \in Live : p + LenAt(p) <= Size

\* cache_set ends (lines 144-161): a turn of its while loop lowers writer, or
\* keeps it and shortens the old part; both are natural numbers.
TurnLowers ==
    pending # NoSet /\ pending' = pending /\ now' = now =>
      \/ writer' < writer
      \/ writer' = writer /\ unused' - oldest' < unused - oldest
SetAdvances == [][TurnLowers]_vars
==========================================================================

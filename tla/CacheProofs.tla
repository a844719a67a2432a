---------------------------- MODULE CacheProofs ----------------------------
(***************************************************************************)
(* The record cache of dnscache, for every cache size, every set of keys   *)
(* and contents with any lengths, every hash and every clock: the ring     *)
(* keeps its layout, the chains list what is in the ring, a lookup answers *)
(* with the newest entry of its key, and the whole implements the log of   *)
(* CacheFifo.                                                              *)
(*                                                                         *)
(* The inductive invariant grows in that order: TypeOK and RingOK; the     *)
(* entries do not overlap (Apart) and the chains are right (Chains); the   *)
(* walk of cache_get is on its chain (Walk); the old part of the ring      *)
(* reaches within one entry of the end (OldReachesEnd).                    *)
(***************************************************************************)
EXTENDS CacheRefinement, FiniteSetTheorems, SequenceTheorems, WellFoundedInduction, TLAPS

RingInv == TypeOK /\ RingOK

\* The table is at least one head and leaves most of the memory to entries.
LEMMA HSizeBounds ==
    Size \in Nat /\ HSize \in Nat /\ 4 <= HSize /\ HSize < Size
<1>1. Size \in Nat /\ 100 <= Size /\ Size <= 1000000000
  BY SizesAssumption DEF Size, Clamp, Smaller
<1> DEFINE n == Size \div 32
<1>2. n \in Nat /\ 32 * n <= Size /\ n <= 31250000
  BY <1>1
<1>3. \E h \in TableSizes : h > n /\ (h = 4 \/ h \div 2 <= n)
  BY <1>2 DEF TableSizes
<1>4. HSize \in TableSizes /\ (HSize = 4 \/ HSize \div 2 <= n)
  BY <1>3 DEF HSize
<1>5. \A h \in TableSizes : h \in Nat /\ 4 <= h /\ h = 2 * (h \div 2)
  BY DEF TableSizes
<1> QED BY <1>1, <1>2, <1>4, <1>5

\* An entry takes at least its 20-byte header.
LEMMA EntryLenPositive ==
    ASSUME NEW k \in Keys, NEW d \in Data
    PROVE  EntryLen(k, d) \in Nat /\ EntryLen(k, d) >= 20
BY SizesAssumption DEF EntryLen, Header

\* So do the entries that were written.
LEMMA LenAtPositive ==
    ASSUME TypeOK, NEW p \in DOMAIN entry
    PROVE  LenAt(p) \in Nat /\ LenAt(p) >= 20
<1>1. entry[p].key \in Keys /\ entry[p].data \in Data
  BY DEF TypeOK, EntryRecord
<1> QED BY <1>1, EntryLenPositive DEF LenAt

\* And the one that is to be written.
LEMMA PendingLen ==
    ASSUME TypeOK, pending # NoSet
    PROVE  /\ pending \in SetRecord
           /\ EntryLen(pending.key, pending.data) \in Nat
           /\ EntryLen(pending.key, pending.data) >= 20
<1>1. pending \in SetRecord
  BY DEF TypeOK
<1>2. pending.key \in Keys /\ pending.data \in Data
  BY <1>1 DEF SetRecord
<1> QED BY <1>1, <1>2, EntryLenPositive

\* cache_init leaves an empty ring.
LEMMA InitRing == Init => RingInv
<1> SUFFICES ASSUME Init PROVE RingInv
  OBVIOUS
<1>1. TypeOK
  BY HSizeBounds DEF Init, TypeOK
<1>2. DOMAIN entry = {}
  BY DEF Init
<1>3. RingOK
  BY <1>2, HSizeBounds DEF Init, RingOK, Tiled
<1> QED BY <1>1, <1>3 DEF RingInv

\* Steps that leave the ring alone.
LEMMA SameRing ==
    ASSUME RingOK, UNCHANGED <<writer, oldest, unused, entry>>
    PROVE  RingOK'
BY DEF RingOK, Tiled, LenAt

\* Entering cache_set changes no border.
LEMMA SetCallRing ==
    ASSUME RingInv, NEW k \in Keys, NEW d \in Data, NEW t \in TTLs, SetCall(k, d, t)
    PROVE  RingInv'
<1>1. TypeOK'
  BY DEF RingInv, TypeOK, SetCall, SetRecord, ring
<1> QED BY <1>1, SameRing DEF RingInv, SetCall, ring

\* The steps of cache_get read the ring.
LEMMA GetRing ==
    ASSUME RingInv, (\E k \in Keys : GetCall(k)) \/ GetStep
    PROVE  RingInv'
<1>1. UNCHANGED <<writer, oldest, unused, entry, pending, now>>
  BY DEF GetCall, GetStep, GetNext, GetFound, GetGivesUp, GetNothing, Return, ring
<1>2. get' # NoGet => get'.key \in Keys /\ get'.loop \in 0 .. MaxChain
  <2>1. CASE \E k \in Keys : GetCall(k)
    BY <2>1, SizesAssumption DEF GetCall
  <2>2. CASE GetNext
    BY <2>2, SizesAssumption DEF GetNext, Passing, RingInv, TypeOK
  <2>3. CASE GetFound \/ GetGivesUp \/ GetNothing
    BY <2>3 DEF GetFound, GetGivesUp, GetNothing, Return
  <2> QED BY <2>1, <2>2, <2>3 DEF GetStep
<1>3. TypeOK'
  BY <1>1, <1>2 DEF RingInv, TypeOK
<1> QED BY <1>1, <1>3, SameRing DEF RingInv

\* Turning the ring makes the written part the old part, whole entries as it was.
LEMMA WrapAroundRing ==
    ASSUME RingInv, WrapAround
    PROVE  RingInv'
<1>1. TypeOK'
  BY HSizeBounds DEF RingInv, TypeOK, WrapAround
<1>2. /\ HSize <= writer' /\ writer' <= oldest' /\ oldest' <= unused' /\ unused' <= Size
      /\ oldest' # unused'
  BY HSizeBounds DEF RingInv, RingOK, TypeOK, WrapAround
<1>3. Tiled(HSize, writer)'
  BY HSizeBounds DEF RingInv, TypeOK, Tiled, WrapAround
<1>4. Tiled(oldest, unused)'
  BY DEF RingInv, RingOK, Tiled, LenAt, WrapAround
<1> QED BY <1>1, <1>2, <1>3, <1>4 DEF RingInv, RingOK

\* Passing over the oldest entry ends at the next one or at the end of the old part.
LEMMA EvictOldestRing ==
    ASSUME RingInv, EvictOldest
    PROVE  RingInv'
<1> DEFINE next == oldest + LenAt(oldest)
<1>1. oldest \in DOMAIN entry /\ oldest < unused
  BY DEF RingInv, TypeOK, RingOK, Tiled, EvictOldest
<1>2. LenAt(oldest) \in Nat /\ LenAt(oldest) >= 20
  BY <1>1, LenAtPositive DEF RingInv
<1>3. next = unused \/ (next < unused /\ next \in DOMAIN entry)
  BY <1>1 DEF RingInv, TypeOK, RingOK, Tiled
<1>4. TypeOK'
  BY <1>2, HSizeBounds DEF RingInv, TypeOK, EvictOldest
<1>5. UNCHANGED <<writer, entry>>
  BY DEF EvictOldest
<1>6. Tiled(HSize, writer)'
  BY <1>5 DEF RingInv, RingOK, Tiled, LenAt
<1>7. CASE next = unused
  <2>1. oldest' = Size /\ unused' = Size
    BY <1>7 DEF EvictOldest
  <2>2. Tiled(oldest, unused)'
    BY <1>5, <2>1, HSizeBounds DEF RingInv, TypeOK, Tiled
  <2>3. writer' <= oldest'
    BY <1>5, <2>1, HSizeBounds DEF RingInv, TypeOK, RingOK
  <2> QED BY <1>4, <1>5, <1>6, <2>1, <2>2, <2>3, HSizeBounds DEF RingInv, RingOK
<1>8. CASE next # unused
  <2>1. oldest' = next /\ unused' = unused
    BY <1>8 DEF EvictOldest
  <2>2. Tiled(next, unused)
    BY <1>2, <1>3, <1>8 DEF RingInv, TypeOK, RingOK, Tiled
  <2>3. Tiled(oldest, unused)'
    BY <1>5, <2>1, <2>2 DEF Tiled, LenAt
  <2>4. writer' <= oldest' /\ oldest' < unused' /\ unused' <= Size
    BY <1>2, <1>3, <1>5, <1>8, <2>1 DEF RingInv, TypeOK, RingOK
  <2>5. HSize <= writer'
    BY <1>5 DEF RingInv, RingOK
  <2>6. oldest' # unused'
    BY <2>4, <1>4, HSizeBounds DEF TypeOK
  <2> QED BY <1>4, <1>6, <2>3, <2>4, <2>5, <2>6, HSizeBounds DEF RingInv, RingOK, TypeOK
<1> QED BY <1>7, <1>8

\* A write extends the written part by one entry and spoils none of either part.
LEMMA WriteRing ==
    ASSUME RingInv, Write
    PROVE  RingInv'
<1> DEFINE k == pending.key
           d == pending.data
           len == EntryLen(k, d)
           kept == Intact(writer, len)
           new == [key |-> k, data |-> d, expire |-> now + Smaller(pending.ttl, MaxTTL)]
<1>1. /\ pending \in SetRecord /\ len \in Nat /\ len >= 20
      /\ writer + len <= oldest
  <2>1. pending \in SetRecord /\ len \in Nat /\ len >= 20
    BY PendingLen DEF RingInv, Write
  <2> QED BY <2>1 DEF RingInv, TypeOK, Write, Full
<1>2. entry' = [q \in kept \cup {writer} |-> IF q = writer THEN new ELSE entry[q]]
  BY DEF Write
<1>3. writer' = writer + len /\ UNCHANGED <<oldest, unused, get, now>> /\ pending' = NoSet
  BY DEF Write
<1>4. kept \subseteq DOMAIN entry
  BY DEF Intact
<1>5. new \in EntryRecord
  <2>1. now \in Nat /\ pending.ttl \in Nat /\ k \in Keys /\ d \in Data
    BY <1>1, TimesAssumption DEF RingInv, TypeOK, SetRecord
  <2>2. Smaller(pending.ttl, MaxTTL) \in Nat
    BY <2>1, TimesAssumption DEF Smaller
  <2> QED BY <2>1, <2>2 DEF EntryRecord
<1>6. DOMAIN entry' = kept \cup {writer}
  BY <1>2
<1>7. TypeOK'
  <2>1. \A q \in kept \cup {writer} : q \in Nat /\ entry'[q] \in EntryRecord
    BY <1>2, <1>4, <1>5 DEF RingInv, TypeOK
  <2>2. entry' \in [DOMAIN entry' -> EntryRecord]
    BY <1>2, <1>6, <2>1
  <2> QED BY <1>1, <1>3, <1>6, <2>1, <2>2 DEF RingInv, TypeOK
<1>8. \A q \in kept \cup {writer} : LenAt(q)' = IF q = writer THEN len ELSE LenAt(q)
  BY <1>2 DEF LenAt
<1>9. \A q \in DOMAIN entry : q \in Nat /\ LenAt(q) \in Nat /\ LenAt(q) >= 20
  BY LenAtPositive DEF RingInv, TypeOK
<1>10. \A q \in DOMAIN entry : q + LenAt(q) <= writer \/ q >= writer + len => q \in kept
  BY DEF Intact
<1>11. Tiled(HSize, writer)'
  <2>1. \A q \in DOMAIN entry : q >= HSize /\ q < writer => q \in kept
    BY <1>9, <1>10, HSizeBounds DEF RingInv, TypeOK, RingOK, Tiled
  <2>2. HSize \in DOMAIN entry'
    BY <1>6, <2>1, HSizeBounds DEF RingInv, TypeOK, RingOK, Tiled
  <2>3. ASSUME NEW p \in DOMAIN entry', p >= HSize, p < writer'
        PROVE  p + LenAt(p)' = writer'
               \/ (p + LenAt(p)' < writer' /\ p + LenAt(p)' \in DOMAIN entry')
    <3>1. CASE p = writer
      BY <1>1, <1>3, <1>6, <1>8, <3>1 DEF RingInv, TypeOK
    <3>2. CASE p # writer
      <4>1. p \in kept /\ p \in DOMAIN entry /\ LenAt(p)' = LenAt(p)
        BY <1>4, <1>6, <1>8, <3>2
      <4>2. p < writer
        BY <1>1, <1>3, <1>9, <2>3, <3>2, <4>1 DEF Intact, RingInv, TypeOK
      <4>3. p + LenAt(p) = writer \/ (p + LenAt(p) < writer /\ p + LenAt(p) \in DOMAIN entry)
        BY <2>3, <4>1, <4>2 DEF RingInv, RingOK, Tiled
      <4>4. p + LenAt(p) \in DOMAIN entry'
        BY <1>6, <1>9, <2>1, <2>3, <4>1, <4>3, HSizeBounds
      <4>5. p + LenAt(p) < writer'
        BY <1>1, <1>3, <1>9, <4>1, <4>3 DEF RingInv, TypeOK
      <4> QED BY <4>1, <4>4, <4>5
    <3> QED BY <3>1, <3>2
  <2> QED BY <2>2, <2>3 DEF Tiled
<1>12. Tiled(oldest, unused)'
  <2>1. \A q \in DOMAIN entry : q >= oldest => q \in kept
    BY <1>1, <1>9, <1>10 DEF RingInv, TypeOK
  <2>2. oldest # unused => oldest \in kept
    BY <2>1 DEF RingInv, TypeOK, RingOK, Tiled
  <2>3. ASSUME NEW p \in DOMAIN entry', p >= oldest, p < unused
        PROVE  p + LenAt(p)' = unused
               \/ (p + LenAt(p)' < unused /\ p + LenAt(p)' \in DOMAIN entry')
    <3>1. p # writer
      BY <1>1, <2>3 DEF RingInv, TypeOK
    <3>2. p \in kept /\ p \in DOMAIN entry /\ LenAt(p)' = LenAt(p)
      BY <1>4, <1>6, <1>8, <3>1
    <3>3. p + LenAt(p) = unused \/ (p + LenAt(p) < unused /\ p + LenAt(p) \in DOMAIN entry)
      BY <2>3, <3>2 DEF RingInv, RingOK, Tiled
    <3>4. p + LenAt(p) < unused => p + LenAt(p) \in kept
      BY <1>9, <2>1, <2>3, <3>2, <3>3 DEF RingInv, TypeOK
    <3> QED BY <1>6, <3>2, <3>3, <3>4
  <2> QED BY <1>3, <1>6, <2>2, <2>3 DEF Tiled
<1>13. /\ HSize <= writer' /\ writer' <= oldest' /\ oldest' <= unused' /\ unused' <= Size
       /\ oldest' = unused' => unused' = Size
  BY <1>1, <1>3, HSizeBounds DEF RingInv, TypeOK, RingOK
<1> QED BY <1>7, <1>11, <1>12, <1>13 DEF RingInv, RingOK

\* The layout is inductive.
LEMMA NextRing == RingInv /\ [Next]_vars => RingInv'
<1> SUFFICES ASSUME RingInv, [Next]_vars PROVE RingInv'
  OBVIOUS
<1>1. ASSUME NEW k \in Keys, NEW d \in Data, NEW t \in TTLs, SetCall(k, d, t)
      PROVE  RingInv'
  BY <1>1, SetCallRing
<1>2. CASE WrapAround
  BY <1>2, WrapAroundRing
<1>3. CASE EvictOldest
  BY <1>3, EvictOldestRing
<1>4. CASE TooBig
  <2>1. TypeOK'
    BY <1>4 DEF RingInv, TypeOK, TooBig, ring
  <2> QED BY <1>4, <2>1, SameRing DEF RingInv, TooBig, ring
<1>5. CASE Write
  BY <1>5, WriteRing
<1>6. CASE Tick
  <2>1. TypeOK'
    BY <1>6 DEF RingInv, TypeOK, Tick, ring
  <2> QED BY <1>6, <2>1, SameRing DEF RingInv, Tick, ring
<1>7. CASE UNCHANGED vars
  BY <1>7 DEF RingInv, TypeOK, RingOK, Tiled, LenAt, vars, ring
<1>8. CASE (\E k \in Keys : GetCall(k)) \/ GetStep
  BY <1>8, GetRing
<1> QED BY <1>1, <1>2, <1>3, <1>4, <1>5, <1>6, <1>7, <1>8 DEF Next, SetStep

\* The state has its types and the ring its layout in every reachable state.
THEOREM CacheRing == Spec => [](TypeOK /\ RingOK)
BY InitRing, NextRing, PTL DEF Spec, RingInv

\* cache_impossible() is not called by an eviction nor by a lookup that reads
\* an entry of the ring.
LEMMA RingImpliesPossible == TypeOK /\ RingOK => NeverImpossible
<1> SUFFICES ASSUME TypeOK, RingOK PROVE NeverImpossible
  OBVIOUS
<1>1. ASSUME oldest # unused
      PROVE  oldest \in DOMAIN entry /\ oldest + LenAt(oldest) <= unused
  <2>1. oldest \in DOMAIN entry /\ oldest < unused
    BY <1>1 DEF TypeOK, RingOK, Tiled
  <2>2. LenAt(oldest) \in Nat
    BY <2>1, LenAtPositive
  <2> QED BY <2>1, <2>2 DEF TypeOK, RingOK, Tiled
<1>2. ASSUME NEW p \in Live
      PROVE  p + LenAt(p) <= Size
  <2>1. p \in DOMAIN entry /\ p \in Nat /\ LenAt(p) \in Nat
    BY LenAtPositive DEF Live, TypeOK
  <2>2. CASE HSize <= p /\ p < writer
    BY <2>1, <2>2, HSizeBounds DEF TypeOK, RingOK, Tiled
  <2>3. CASE oldest <= p /\ p < unused
    BY <2>1, <2>3, HSizeBounds DEF TypeOK, RingOK, Tiled
  <2> QED BY <2>2, <2>3 DEF Live
<1> QED BY <1>1, <1>2 DEF NeverImpossible

\* The check of cache.c that calls cache_impossible() never fails.
THEOREM CacheNeverImpossible == Spec => []NeverImpossible
BY CacheRing, RingImpliesPossible, PTL

\* The program has one thread: it is in cache_set, in cache_get or in neither.
OneCall == pending # NoSet => get = NoGet /\ got = NoGet

\* Neither function is entered while the other runs.
LEMMA NextOneCall == OneCall /\ [Next]_vars => OneCall'
<1> SUFFICES ASSUME OneCall, [Next]_vars PROVE OneCall'
  OBVIOUS
<1>1. ASSUME NEW k \in Keys, NEW d \in Data, NEW t \in TTLs, SetCall(k, d, t)
      PROVE  OneCall'
  BY <1>1 DEF OneCall, SetCall
<1>2. ASSUME NEW k \in Keys, GetCall(k)
      PROVE  OneCall'
  BY <1>2 DEF OneCall, GetCall
<1>3. CASE SetStep
  BY <1>3 DEF OneCall, SetStep, WrapAround, EvictOldest, TooBig, Write, ring
<1>4. CASE GetStep
  BY <1>4 DEF OneCall, GetStep, GetNext, GetFound, GetGivesUp, GetNothing, Passing, AtKey, Return
<1>5. CASE Tick \/ UNCHANGED vars
  BY <1>5 DEF OneCall, Tick, vars
<1> QED BY <1>1, <1>2, <1>3, <1>4, <1>5 DEF Next

\* The same for every reachable state.
LEMMA CacheOneCall == Spec => []OneCall
<1>1. Init => OneCall
  BY DEF Init, OneCall
<1> QED BY <1>1, NextOneCall, PTL DEF Spec

\* Each turn of the loop of cache_set lowers its rank.
LEMMA TurnIsLower == RingInv /\ OneCall /\ [Next]_vars => [TurnLowers]_vars
<1> SUFFICES ASSUME RingInv, OneCall, Next, pending # NoSet, pending' = pending, now' = now,
                    vars' # vars
             PROVE  \/ writer' < writer
                    \/ writer' = writer /\ unused' - oldest' < unused - oldest
  BY DEF TurnLowers
<1>1. CASE WrapAround
  BY <1>1, HSizeBounds DEF WrapAround, RingInv, TypeOK
<1>2. CASE EvictOldest
  <2> DEFINE next == oldest + LenAt(oldest)
  <2>1. oldest \in DOMAIN entry /\ oldest < unused
    BY <1>2 DEF EvictOldest, RingInv, TypeOK, RingOK, Tiled
  <2>2. LenAt(oldest) \in Nat /\ LenAt(oldest) >= 20
    BY <2>1, LenAtPositive DEF RingInv
  <2>3. CASE next = unused
    <3>1. oldest' = Size /\ unused' = Size
      BY <1>2, <2>3 DEF EvictOldest
    <3> QED BY <1>2, <2>1, <3>1, HSizeBounds DEF EvictOldest, RingInv, TypeOK
  <2>4. CASE next # unused
    <3>1. oldest' = next /\ unused' = unused
      BY <1>2, <2>4 DEF EvictOldest
    <3> QED BY <1>2, <2>1, <2>2, <3>1 DEF EvictOldest, RingInv, TypeOK
  <2> QED BY <2>3, <2>4
<1>3. ~TooBig /\ ~Write
  BY DEF TooBig, Write
<1>4. \A k \in Keys, d \in Data, t \in TTLs : ~SetCall(k, d, t) /\ ~GetCall(k)
  BY DEF SetCall, GetCall
<1>5. ~Tick
  BY DEF Tick, vars, OneCall
<1>6. ~GetStep
  BY DEF OneCall, GetStep, GetNext, GetFound, GetGivesUp, GetNothing, Passing, AtKey
<1>7. (\E k \in Keys : GetCall(k)) => FALSE
  BY DEF GetCall
<1> QED BY <1>1, <1>2, <1>3, <1>4, <1>5, <1>6, <1>7 DEF Next, SetStep

\* cache_set returns: its rank is a pair of natural numbers that falls with
\* each turn.
THEOREM CacheSetAdvances == Spec => SetAdvances
<1>1. RingInv /\ OneCall /\ [Next]_vars => [TurnLowers]_vars
  BY TurnIsLower
<1> QED BY <1>1, CacheRing, CacheOneCall, PTL DEF Spec, RingInv, SetAdvances

\* What the ring and the request are made of.
THEOREM CacheTypes == Spec => []TypeOK
BY CacheRing, PTL

--------------------------------------------------------------------------
(* The entries of the ring, their ages, and the keys of the chains.        *)

\* A key belongs to one of the heads.
LEMMA HashIsHead == \A k \in Keys : hash(k) \in Heads
<1> SUFFICES ASSUME NEW k \in Keys PROVE hash(k) \in Heads
  OBVIOUS
<1>1. HSize \in TableSizes
  <2>1. \E h \in TableSizes : h > Size \div 32 /\ (h = 4 \/ h \div 2 <= Size \div 32)
    <3> DEFINE n == Size \div 32
    <3>1. n \in Nat /\ n <= 31250000
      BY SizesAssumption DEF Size, Clamp, Smaller
    <3> HIDE DEF n
    <3>2. \E h \in TableSizes : h > n /\ (h = 4 \/ h \div 2 <= n)
      BY <3>1 DEF TableSizes
    <3> QED BY <3>2 DEF n
  <2> QED BY <2>1 DEF HSize
<1> DEFINE m == HSize \div 4
<1>2. HSize = 4 * m /\ m \in Nat /\ m > 0
  <2>1. \A h \in TableSizes : h \in Nat /\ h > 0 /\ h % 4 = 0
    BY DEF TableSizes
  <2> QED BY <1>1, <2>1
<1> HIDE DEF m
<1>3. RawHash[k] \in Nat
  BY SizesAssumption
<1>4. ASSUME NEW a \in Nat, NEW n \in Nat, n > 0
      PROVE  (4 * a) % (4 * n) = 4 * (a % n)
  <2>1. a = n * (a \div n) + (a % n) /\ a % n \in 0 .. n - 1 /\ a \div n \in Nat
    BY <1>4
  <2> DEFINE q == a \div n
             r == a % n
             b == 4 * n
             x == 4 * a
             s == 4 * r
  <2>2. x = b * q + s /\ s < b /\ b > 0
    BY <1>4, <2>1
  <2>3. x \in Nat /\ q \in Nat /\ b \in Nat /\ s \in Nat
    BY <1>4, <2>1
  <2>4. \A i, j, l, o \in Nat : l > 0 /\ i = l * j + o /\ o < l => i % l = o
    OBVIOUS
  <2> HIDE DEF q, b, x, s
  <2>5. x % b = s
    BY <2>2, <2>3, <2>4
  <2> QED BY <2>5 DEF x, b, s
<1>5. hash(k) = 4 * (RawHash[k] % m)
  BY <1>2, <1>3, <1>4 DEF hash
<1>6. RawHash[k] % m \in 0 .. m - 1
  BY <1>2, <1>3
<1> QED BY <1>2, <1>5, <1>6 DEF Heads

\* Where the entries of the ring are: behind the heads, at different ages.
LEMMA Places ==
    ASSUME TypeOK, RingOK
    PROVE  /\ \A p \in Live : /\ p \in DOMAIN entry /\ p \in HSize .. Size - 1
                              /\ p \notin Heads /\ p # 0
                              /\ Age(p) \in 0 .. 2 * Size
                              /\ entry[p].key \in Keys /\ hash(entry[p].key) \in Heads
           /\ \A p, q \in Live : Age(p) = Age(q) => p = q
<1>1. ASSUME NEW p \in Live
      PROVE  /\ p \in DOMAIN entry /\ p \in HSize .. Size - 1 /\ p \in Nat
             /\ p < writer \/ (p >= writer /\ p < unused)
  BY HSizeBounds DEF TypeOK, RingOK, Live
<1>2. ASSUME NEW p \in Live
      PROVE  /\ p \notin Heads /\ p # 0 /\ Age(p) \in 0 .. 2 * Size
  BY <1>1, HSizeBounds DEF Heads, Age
<1>3. ASSUME NEW p \in Live
      PROVE  entry[p].key \in Keys /\ hash(entry[p].key) \in Heads
  BY <1>1, HashIsHead DEF TypeOK, EntryRecord
<1>4. ASSUME NEW p \in Live, NEW q \in Live, Age(p) = Age(q)
      PROVE  p = q
  BY <1>1, <1>4, HSizeBounds DEF Age, TypeOK
<1> QED BY <1>1, <1>2, <1>3, <1>4

LinksAt == link = [p \in Heads \cup DOMAIN entry |-> link[p]]

Chains == ChainsOK /\ LinksAt

\* The chains depend on the order of the ages only.
LEMMA SameChains ==
    ASSUME Chains, UNCHANGED <<link, entry>>, Live' = Live,
           \A p, q \in Live : Age(p)' < Age(q)' <=> Age(p) < Age(q),
           \A p \in Live : Age(p) \in Nat /\ Age(p)' \in Nat
    PROVE  Chains'
<1>1. LinksAt'
  BY DEF Chains, LinksAt
<1>2. \A h : Bucket(h)' = Bucket(h) /\ Bucket(h) \subseteq Live
  BY DEF Bucket
<1>3. ASSUME NEW p \in Live
      PROVE  /\ Later(p)' = Later(p) /\ Earlier(p)' = Earlier(p)
             /\ Later(p) \subseteq Live /\ Earlier(p) \subseteq Live
  BY <1>2 DEF Later, Earlier
<1>4. \A p, q \in Live : Age(p)' <= Age(q)' <=> Age(p) <= Age(q)
  OBVIOUS
<1>5. ASSUME NEW p, NEW S \in SUBSET Live, IsNewest(p, S)
      PROVE  IsNewest(p, S)'
  BY <1>4, <1>5 DEF IsNewest
<1>6. ASSUME NEW p \in Live, NEW n, IsBefore(n, p)
      PROVE  IsBefore(n, p)'
  BY <1>3, <1>4, <1>6 DEF IsBefore
<1>7. \A h \in Heads : IsNewest(link[h], Bucket(h))'
  BY <1>2, <1>5 DEF Chains, ChainsOK
<1>8. ASSUME NEW p \in Live
      PROVE  \E n \in Heads \cup Live, o \in Live \cup {0} :
               IsBefore(n, p)' /\ IsNewest(o, Earlier(p)) ' /\ link[p] = BitXor(n, o)
  <2>1. PICK n \in Heads \cup Live, o \in Live \cup {0} :
          IsBefore(n, p) /\ IsNewest(o, Earlier(p)) /\ link[p] = BitXor(n, o)
    BY DEF Chains, ChainsOK
  <2>2. IsBefore(n, p)' /\ IsNewest(o, Earlier(p))'
    BY <1>3, <1>5, <1>6, <2>1
  <2> QED BY <2>1, <2>2
<1> QED BY <1>1, <1>7, <1>8 DEF Chains, ChainsOK

\* The oldest entry of the ring.
LEMMA OldestIsFirst ==
    ASSUME RingInv, oldest # unused
    PROVE  oldest \in Live /\ \A q \in Live \ {oldest} : Age(oldest) < Age(q)
<1>1. oldest \in Live /\ oldest < Size /\ writer <= oldest
  BY HSizeBounds DEF RingInv, TypeOK, RingOK, Tiled, Live
<1>2. ASSUME NEW q \in Live, q # oldest
      PROVE  Age(oldest) < Age(q)
  <2>1. q \in HSize .. Size - 1
    BY Places DEF RingInv
  <2>2. q < writer \/ oldest < q
    BY <1>1, <1>2, <2>1, HSizeBounds DEF Live, RingInv, TypeOK
  <2> QED BY <1>1, <2>1, <2>2, HSizeBounds DEF Age, RingInv, TypeOK
<1> QED BY <1>1, <1>2


\* Entries do not overlap, those that were dropped and not yet overwritten included.
Apart == \A p, q \in DOMAIN entry : p < q => p + LenAt(p) <= q

\* A write drops from `entry` whatever it overlaps.
LEMMA NextApart == RingInv /\ Apart /\ [Next]_vars => Apart'
<1> SUFFICES ASSUME RingInv, Apart, [Next]_vars PROVE Apart'
  OBVIOUS
<1>1. CASE entry' = entry
  BY <1>1 DEF Apart, LenAt
<1>2. CASE Write
  <2> DEFINE len == EntryLen(pending.key, pending.data)
             kept == Intact(writer, len)
  <2>1. DOMAIN entry' = kept \cup {writer}
    BY <1>2 DEF Write
  <2>2. \A q \in kept : q \in DOMAIN entry /\ (q + LenAt(q) <= writer \/ q >= writer + len)
    BY DEF Intact
  <2>3. \A q \in kept \cup {writer} : LenAt(q)' = IF q = writer THEN len ELSE LenAt(q)
    BY <1>2 DEF Write, LenAt
  <2>4. \A q \in DOMAIN entry : q \in Nat /\ LenAt(q) \in Nat /\ LenAt(q) >= 20
    BY LenAtPositive DEF RingInv, TypeOK
  <2>5. len \in Nat /\ len >= 20 /\ writer \in Nat
    BY <1>2, PendingLen DEF RingInv, TypeOK, Write
  <2> HIDE DEF len, kept
  <2> QED BY <2>1, <2>2, <2>3, <2>4, <2>5 DEF Apart
<1>3. Write \/ entry' = entry
  <2>1. (\E k \in Keys, d \in Data, t \in TTLs : SetCall(k, d, t)) => entry' = entry
    BY DEF SetCall, ring
  <2>2. (\E k \in Keys : GetCall(k)) \/ GetStep => entry' = entry
    BY DEF GetCall, GetStep, GetNext, GetFound, GetGivesUp, GetNothing, Return, ring
  <2>3. WrapAround \/ EvictOldest \/ TooBig \/ Tick \/ UNCHANGED vars => entry' = entry
    BY DEF WrapAround, EvictOldest, TooBig, Tick, ring, vars
  <2> QED BY <2>1, <2>2, <2>3 DEF Next, SetStep
<1> QED BY <1>1, <1>2, <1>3

\* Evicting takes the oldest entry out of the ring.
LEMMA EvictLive ==
    ASSUME RingInv, Apart, EvictOldest
    PROVE  Live' = Live \ {oldest}
<1>1. oldest \in DOMAIN entry /\ oldest < unused /\ writer <= oldest
  BY DEF EvictOldest, RingInv, TypeOK, RingOK, Tiled
<1> DEFINE next == oldest + LenAt(oldest)
<1>2. LenAt(oldest) \in Nat /\ LenAt(oldest) >= 20 /\ next <= unused
  BY <1>1, LenAtPositive DEF RingInv, TypeOK, RingOK, Tiled
<1>3. UNCHANGED <<writer, entry>>
  BY DEF EvictOldest
<1>4. \A q \in DOMAIN entry : q \in Nat /\ (oldest < q => next <= q)
  BY <1>1 DEF Apart, RingInv, TypeOK
<1>5. CASE next = unused
  <2>1. oldest' = Size /\ unused' = Size
    BY <1>5 DEF EvictOldest
  <2> HIDE DEF next
  <2> QED BY <1>1, <1>2, <1>3, <1>4, <1>5, <2>1, HSizeBounds DEF Live, RingInv, TypeOK
<1>6. CASE next # unused
  <2>1. oldest' = next /\ unused' = unused
    BY <1>6 DEF EvictOldest
  <2>2. next \in Nat /\ oldest < next
    BY <1>1, <1>2 DEF RingInv, TypeOK
  <2> HIDE DEF next
  <2> QED BY <1>1, <1>2, <1>3, <1>4, <2>1, <2>2, HSizeBounds DEF Live, RingInv, TypeOK
<1> QED BY <1>5, <1>6

\* Writing puts one entry into the ring, behind all that are there.
LEMMA WriteLive ==
    ASSUME RingInv, Write, NEW w, w = writer
    PROVE  /\ w \notin Live /\ w \notin Heads /\ w \in 1 .. Size - 1
           /\ Live' = Live \cup {w}
           /\ Live \subseteq Intact(writer, EntryLen(pending.key, pending.data))
           /\ \A q \in Live : Age(q)' = Age(q) /\ Age(q) < Age(w)' /\ entry'[q] = entry[q]
           /\ entry'[w].key = pending.key
           /\ Age(w)' \in 0 .. 2 * Size
<1> DEFINE len == EntryLen(pending.key, pending.data)
           kept == Intact(writer, len)
<1>1. /\ w = writer /\ writer \in Nat /\ oldest \in Nat /\ unused \in Nat /\ len \in Nat /\ len >= 20
      /\ HSize <= writer /\ writer + len <= oldest /\ oldest <= unused /\ unused <= Size
  BY PendingLen DEF RingInv, TypeOK, RingOK, Write, Full
<1>2. writer' = writer + len /\ UNCHANGED <<oldest, unused>>
  BY DEF Write
<1>3. /\ DOMAIN entry' = kept \cup {writer}
      /\ entry'[w].key = pending.key
      /\ \A q \in kept : q # writer => entry'[q] = entry[q]
  BY DEF Write
<1>4. \A q \in DOMAIN entry : q \in Nat /\ LenAt(q) \in Nat /\ LenAt(q) >= 20
  BY LenAtPositive DEF RingInv, TypeOK
<1>5. \A q \in kept : q \in DOMAIN entry /\ (q + LenAt(q) <= writer \/ q >= writer + len)
  BY DEF Intact
<1>6. \A q \in DOMAIN entry : q + LenAt(q) <= writer \/ q >= writer + len => q \in kept
  BY DEF Intact
<1>7. \A q \in DOMAIN entry : HSize <= q /\ q < writer => q + LenAt(q) <= writer
  BY <1>1, <1>4 DEF RingInv, RingOK, Tiled
<1> HIDE DEF len, kept
<1>8. w \notin Live /\ w \notin Heads /\ w \in 1 .. Size - 1
  BY <1>1, HSizeBounds DEF Live, Heads
<1>9. Live \subseteq kept
  BY <1>1, <1>4, <1>6, <1>7 DEF Live
<1>10. Live' = Live \cup {w}
  BY <1>1, <1>2, <1>3, <1>4, <1>5, <1>9 DEF Live
<1>11. ASSUME NEW q \in Live
       PROVE  Age(q)' = Age(q) /\ Age(q) < Age(w)' /\ entry'[q] = entry[q]
  <2>1. q \in Nat /\ q < Size /\ (q < writer \/ q >= oldest)
    BY <1>1, <1>4, HSizeBounds DEF Live
  <2>2. Age(q)' = Age(q) /\ Age(q) < Age(w)'
    BY <1>1, <1>2, <2>1, HSizeBounds DEF Age
  <2>3. entry'[q] = entry[q]
    BY <1>3, <1>8, <1>9
  <2> QED BY <2>2, <2>3
<1>12. Age(w)' \in 0 .. 2 * Size
  BY <1>1, <1>2, <1>8, HSizeBounds DEF Age
<1> QED BY <1>3, <1>8, <1>9, <1>10, <1>11, <1>12 DEF len, kept

\* Turning the ring leaves the entries in it and their order as they were.
LEMMA WrapAroundLive ==
    ASSUME RingInv, WrapAround
    PROVE  Live' = Live /\ \A p \in Live : Age(p) = Size + Age(p)'
<1>1. /\ oldest = unused /\ writer > HSize /\ writer \in Nat
      /\ unused' = writer /\ oldest' = HSize /\ writer' = HSize /\ entry' = entry
  BY DEF WrapAround, RingInv, TypeOK
<1>2. \A p \in DOMAIN entry : p \in Nat
  BY DEF RingInv, TypeOK
<1>3. Live' = Live
  BY <1>1, <1>2, HSizeBounds DEF Live, RingInv, TypeOK
<1>4. ASSUME NEW p \in Live
      PROVE  Age(p) = Size + Age(p)'
  BY <1>1, <1>2, HSizeBounds DEF Live, Age, RingInv, TypeOK
<1> QED BY <1>3, <1>4

--------------------------------------------------------------------------
(* The chains: one lemma per action that changes them.                     *)

\* Turning the ring: the order of the ages is kept.
LEMMA WrapAroundChains ==
    ASSUME RingInv, RingInv', Chains, WrapAround
    PROVE  Chains'
<1>1. Live' = Live /\ \A p \in Live : Age(p) = Size + Age(p)'
  BY WrapAroundLive
<1>2. \A p \in Live : Age(p) \in Nat
  BY Places, HSizeBounds DEF RingInv
<1>3. \A p \in Live' : p \in Nat
  BY DEF Live, RingInv, TypeOK
<1>4. \A p \in Live : Age(p)' \in Nat
  BY <1>1, <1>3, HSizeBounds DEF WrapAround, Age
<1>5. UNCHANGED <<link, entry>>
  BY DEF WrapAround
<1>6. \A p, q \in Live : Age(p)' < Age(q)' <=> Age(p) < Age(q)
  BY <1>1, <1>2, <1>4, HSizeBounds
<1> QED BY <1>1, <1>2, <1>4, <1>5, <1>6, SameChains

\* What xor does that the chains rely on.
LEMMA Xor ==
    ASSUME NEW a \in 0 .. Size - 1, NEW b \in 0 .. Size - 1
    PROVE  /\ BitXor(a, 0) = a /\ BitXor(a, b) = BitXor(b, a)
           /\ BitXor(BitXor(a, b), b) = a
           /\ BitXor(BitXor(a, b), a) = b
           /\ BitXor(a, BitXor(a, b)) = b
           /\ BitXor(a, a) = 0
<1>1. 0 \in 0 .. Size - 1
  BY HSizeBounds
<1>2. \A x, y \in 0 .. Size - 1 :
        /\ BitXor(x, 0) = x /\ BitXor(x, y) = BitXor(y, x)
        /\ BitXor(BitXor(x, y), y) = x /\ BitXor(x, BitXor(x, y)) = y
  BY XorAssumption
<1>3. BitXor(a, b) = BitXor(b, a) /\ BitXor(BitXor(b, a), a) = b
  BY <1>2
<1>4. BitXor(a, a) = 0
  <2>1. BitXor(a, 0) = a /\ BitXor(a, BitXor(a, 0)) = 0
    BY <1>1, <1>2
  <2> QED BY <2>1
<1> QED BY <1>2, <1>3, <1>4

\* The newest and the one before are unique.
LEMMA OneNewest ==
    ASSUME TypeOK, RingOK, NEW S \in SUBSET Live, NEW p, NEW q, IsNewest(p, S), IsNewest(q, S)
    PROVE  p = q
<1>1. CASE S = {}
  BY <1>1 DEF IsNewest
<1>2. CASE S # {}
  <2>1. p \in Live /\ q \in Live /\ Age(p) <= Age(q) /\ Age(q) <= Age(p)
    BY <1>2 DEF IsNewest
  <2> QED BY <2>1, Places, HSizeBounds
<1> QED BY <1>1, <1>2

\* The one before an entry in its chain is unique.
LEMMA OneBefore ==
    ASSUME TypeOK, RingOK, NEW p \in Live, NEW m, NEW n, IsBefore(m, p), IsBefore(n, p)
    PROVE  m = n
<1>1. CASE Later(p) = {}
  BY <1>1 DEF IsBefore
<1>2. CASE Later(p) # {}
  <2>1. m \in Live /\ n \in Live /\ Age(m) <= Age(n) /\ Age(n) <= Age(m)
    BY <1>2 DEF IsBefore, Later, Bucket
  <2> QED BY <2>1, Places, HSizeBounds
<1> QED BY <1>1, <1>2

\* Evicting: the link of the oldest entry is the position before it, and taking
\* the oldest out of that one's link leaves the tail of the chain.
LEMMA EvictChains ==
    ASSUME RingInv, Apart, Chains, EvictOldest
    PROVE  Chains'
<1> DEFINE h0 == hash(entry[oldest].key)
           n == link[oldest]
<1>1. /\ oldest # unused /\ UNCHANGED <<writer, entry>>
      /\ link' = [link EXCEPT ![n] = BitXor(@, oldest)]
  BY DEF EvictOldest
<1>2. oldest \in Live /\ \A q \in Live \ {oldest} : Age(oldest) < Age(q)
  BY <1>1, OldestIsFirst
<1>3. Live' = Live \ {oldest}
  BY EvictLive
<1>4. \A p \in Live : /\ p \in DOMAIN entry /\ p \in 0 .. Size - 1 /\ p \notin Heads /\ p # 0
                      /\ Age(p) \in Nat /\ hash(entry[p].key) \in Heads
  BY Places, HSizeBounds DEF RingInv
<1>5. \A p, q \in Live : Age(p) = Age(q) => p = q
  BY Places DEF RingInv
<1>6. \A p : Age(p)' = Age(p)
  BY <1>1 DEF Age
<1>7. \A h : Bucket(h)' = Bucket(h) \ {oldest} /\ Bucket(h) \subseteq Live
  BY <1>1, <1>3 DEF Bucket
<1>8. ASSUME NEW p \in Live
      PROVE  Later(p) \subseteq Live /\ Earlier(p) \subseteq Live
  BY <1>7 DEF Later, Earlier
<1>9. ASSUME NEW p \in Live \ {oldest}
      PROVE  Later(p)' = Later(p) /\ Earlier(p)' = Earlier(p) \ {oldest} /\ oldest \notin Later(p)
  <2>1. oldest \notin Later(p)
    BY <1>2, <1>4 DEF Later
  <2>2. Later(p)' = Later(p)
    BY <1>1, <1>6, <1>7, <2>1 DEF Later
  <2>3. Earlier(p)' = Earlier(p) \ {oldest}
    BY <1>1, <1>6, <1>7 DEF Earlier
  <2> QED BY <2>1, <2>2, <2>3
<1>10. Heads \subseteq 0 .. Size - 1
  BY HSizeBounds DEF Heads
\* The link of the oldest entry leads to the one before it.
<1>11. IsBefore(n, oldest) /\ n \in Heads \cup Live
  <2>1. PICK m \in Heads \cup Live, o \in Live \cup {0} :
          IsBefore(m, oldest) /\ IsNewest(o, Earlier(oldest)) /\ link[oldest] = BitXor(m, o)
    BY <1>2 DEF Chains, ChainsOK
  <2>2. Earlier(oldest) = {}
    BY <1>2, <1>4, <1>7 DEF Earlier
  <2>3. o = 0 /\ m \in 0 .. Size - 1
    BY <1>4, <1>10, <2>1, <2>2 DEF IsNewest
  <2> QED BY <2>1, <2>3, Xor
<1> HIDE DEF h0, n
<1>12. DOMAIN link = Heads \cup DOMAIN entry /\ LinksAt'
  BY <1>1 DEF Chains, LinksAt
<1>13. \A q \in Heads \cup DOMAIN entry :
         link'[q] = IF q = n THEN BitXor(link[n], oldest) ELSE link[q]
  BY <1>1, <1>12
<1>14. ASSUME NEW p \in Live \ {oldest}, NEW m, IsBefore(m, p)
       PROVE  IsBefore(m, p)'
  BY <1>1, <1>6, <1>9, <1>14 DEF IsBefore
<1>15. ASSUME NEW S \in SUBSET Live, NEW p, p # oldest, IsNewest(p, S)
       PROVE  /\ p # 0 \/ S = {}
              /\ \A T : T = S \ {oldest} => IsNewest(p, T)'
  BY <1>4, <1>6, <1>15 DEF IsNewest
<1>16. oldest \in Bucket(h0) /\ h0 \in Heads
  BY <1>2, <1>4 DEF Bucket, h0
<1>17. ASSUME NEW h \in Heads
       PROVE  IsNewest(link[h], Bucket(h))'
  <2>1. IsNewest(link[h], Bucket(h))
    BY DEF Chains, ChainsOK
  <2>2. ASSUME h # n, link[h] # oldest
        PROVE  IsNewest(link[h], Bucket(h))'
    <3>1. link'[h] = link[h]
      BY <1>13, <2>2
    <3> QED BY <1>4, <1>6, <1>7, <2>1, <2>2, <3>1 DEF IsNewest
  <2>3. CASE h # h0
    <3>1. oldest \notin Bucket(h)
      BY <2>3 DEF Bucket, h0
    <3>2. link[h] # oldest
      BY <1>4, <1>2, <2>1, <3>1 DEF IsNewest
    <3>3. n # h
      BY <1>4, <1>8, <1>2, <1>11, <2>3 DEF IsBefore, h0
    <3> QED BY <2>2, <3>2, <3>3
  <2>4. CASE h = h0 /\ Later(oldest) = {}
    <3>1. n = h0
      BY <1>11, <2>4 DEF IsBefore, h0
    <3>2. Bucket(h0) = {oldest}
      BY <1>2, <1>7, <1>16, <2>4 DEF Later, h0
    <3>3. link[h0] = oldest
      BY <2>1, <2>4, <3>2 DEF IsNewest
    <3>4. link'[h0] = 0
      BY <1>2, <1>4, <1>13, <1>16, <3>1, <3>3, Xor
    <3>5. Bucket(h)' = {}
      BY <1>7, <2>4, <3>2
    <3> QED BY <2>4, <3>4, <3>5 DEF IsNewest
  <2>5. CASE h = h0 /\ Later(oldest) # {}
    <3>1. n \in Later(oldest) /\ n \in Live
      BY <1>8, <1>2, <1>11, <2>5 DEF IsBefore
    <3>2. n \in Bucket(h0) /\ Age(n) > Age(oldest)
      BY <3>1 DEF Later, h0
    <3>3. link[h0] # oldest
      BY <1>2, <1>4, <2>1, <2>5, <3>1, <3>2 DEF IsNewest
    <3> QED BY <1>4, <2>2, <2>5, <3>1, <3>3
  <2> QED BY <2>3, <2>4, <2>5
<1>18. ASSUME NEW p \in Live'
       PROVE  \E m \in Heads \cup Live', o \in Live' \cup {0} :
                IsBefore(m, p)' /\ IsNewest(o, Earlier(p))' /\ link'[p] = BitXor(m, o)
  <2>1. p \in Live \ {oldest} /\ p \in DOMAIN entry
    BY <1>3, <1>4
  <2>2. PICK m \in Heads \cup Live, o \in Live \cup {0} :
          IsBefore(m, p) /\ IsNewest(o, Earlier(p)) /\ link[p] = BitXor(m, o)
    BY <2>1 DEF Chains, ChainsOK
  <2>3. m \in Heads \cup Live' /\ IsBefore(m, p)'
    <3>1. m # oldest
      BY <1>2, <1>4, <1>9, <1>16, <2>1, <2>2 DEF IsBefore
    <3> QED BY <1>3, <1>14, <2>1, <2>2, <3>1
  <2>4. CASE p = n
    <3>1. n \in Later(oldest) /\ \A q \in Later(oldest) : Age(n) <= Age(q)
      BY <1>4, <1>11, <1>2, <2>1, <2>4 DEF IsBefore
    <3>2. Earlier(n) = {oldest}
      <4>1. oldest \in Earlier(n)
        BY <1>2, <3>1, <1>16 DEF Earlier, Later, Bucket, h0
      <4>2. \A q \in Earlier(n) : q = oldest
        BY <1>2, <1>4, <1>7, <3>1 DEF Earlier, Later, Bucket
      <4> QED BY <4>1, <4>2
    <3>3. o = oldest
      BY <2>2, <2>4, <3>2 DEF IsNewest
    <3>4. link'[p] = BitXor(BitXor(m, oldest), oldest)
      BY <1>13, <2>1, <2>2, <2>4, <3>3
    <3>5. m \in 0 .. Size - 1 /\ oldest \in 0 .. Size - 1
      BY <1>2, <1>4, <1>10
    <3>6. link'[p] = BitXor(m, 0)
      BY <3>4, <3>5, Xor
    <3>7. Earlier(p)' = {}
      BY <1>9, <2>1, <2>4, <3>2
    <3>8. IsNewest(0, Earlier(p))'
      BY <3>7 DEF IsNewest
    <3> QED BY <2>3, <3>6, <3>8
  <2>5. CASE p # n
    <3>1. link'[p] = link[p]
      BY <1>13, <2>1, <2>5
    <3>2. o # oldest
      <4> SUFFICES ASSUME o = oldest PROVE FALSE
        OBVIOUS
      <4>1. oldest \in Earlier(p) /\ \A q \in Earlier(p) : Age(q) <= Age(oldest)
        BY <1>2, <1>4, <2>2 DEF IsNewest
      <4>2. p \in Later(oldest)
        BY <2>1, <4>1 DEF Earlier, Later, Bucket
      <4>3. n \in Later(oldest) /\ n \in Live /\ Age(n) <= Age(p)
        BY <1>2, <1>8, <1>11, <4>2 DEF IsBefore
      <4>4. Age(n) < Age(p)
        BY <1>4, <1>5, <2>1, <2>5, <4>3
      <4>5. n \in Earlier(p)
        BY <2>1, <4>1, <4>3, <4>4 DEF Earlier, Later, Bucket
      <4>6. Age(n) <= Age(oldest) /\ Age(oldest) < Age(n)
        BY <4>1, <4>3, <4>5 DEF Later
      <4> QED BY <1>2, <1>4, <4>3, <4>6
    <3>3. IsNewest(o, Earlier(p))' /\ o \in Live' \cup {0}
      BY <1>3, <1>8, <1>9, <1>15, <2>1, <2>2, <3>2
    <3> QED BY <2>2, <2>3, <3>1, <3>3
  <2> QED BY <2>4, <2>5
<1> QED BY <1>12, <1>17, <1>18 DEF Chains, ChainsOK

\* Writing: the head leads to the new entry, the new entry to the former newest,
\* whose link trades the head for the new entry.
LEMMA WriteChains ==
    ASSUME RingInv, Chains, Write
    PROVE  Chains'
<1>1. PICK w : w = writer
  OBVIOUS
<1>2. PICK h0 : h0 = hash(pending.key)
  OBVIOUS
<1>3. PICK pos : pos = link[h0]
  OBVIOUS
<1> DEFINE kept == Intact(writer, EntryLen(pending.key, pending.data))
<1>4. /\ w \notin Live /\ w \notin Heads /\ w \in 1 .. Size - 1
      /\ Live' = Live \cup {w} /\ Live \subseteq kept
      /\ \A q \in Live : Age(q)' = Age(q) /\ Age(q) < Age(w)' /\ entry'[q] = entry[q]
      /\ entry'[w].key = pending.key
      /\ Age(w)' \in Nat
  BY <1>1, WriteLive, HSizeBounds
<1>5. \A p \in Live : /\ p \in DOMAIN entry /\ p \in 0 .. Size - 1 /\ p \notin Heads /\ p # 0
                      /\ Age(p) \in Nat /\ hash(entry[p].key) \in Heads
  BY Places, HSizeBounds DEF RingInv
<1>6. \A p, q \in Live : Age(p) = Age(q) => p = q
  BY Places DEF RingInv
<1>7. h0 \in Heads /\ Heads \subseteq 0 .. Size - 1
  <2>1. pending.key \in Keys
    BY PendingLen DEF RingInv, Write, SetRecord
  <2> QED BY <1>2, <2>1, HashIsHead, HSizeBounds DEF Heads
<1>8. IsNewest(pos, Bucket(h0))
  BY <1>3, <1>7 DEF Chains, ChainsOK
<1>9. \A h : Bucket(h) \subseteq Live /\ Bucket(h)' = IF h = h0 THEN Bucket(h) \cup {w} ELSE Bucket(h)
  <2>1. ASSUME NEW h
        PROVE  Bucket(h)' = IF h = h0 THEN Bucket(h) \cup {w} ELSE Bucket(h)
    <3>1. \A q \in Live : hash(entry[q].key)' = hash(entry[q].key)
      BY <1>4 DEF hash
    <3>2. hash(entry[w].key)' = h0
      BY <1>2, <1>4 DEF hash
    <3> QED BY <1>4, <3>1, <3>2 DEF Bucket
  <2> QED BY <2>1 DEF Bucket
<1>10. pos = 0 \/ pos \in Live
  BY <1>8, <1>9 DEF IsNewest
<1>11. /\ DOMAIN entry' = kept \cup {w}
       /\ link' = [q \in Heads \cup kept \cup {w} |->
                     IF q = h0 THEN w
                     ELSE IF q = w THEN BitXor(pos, h0)
                     ELSE IF q = pos /\ pos # 0 THEN BitXor(BitXor(link[pos], h0), w)
                     ELSE link[q]]
  BY <1>1, <1>2, <1>3 DEF Write
<1> HIDE DEF kept
<1>12. LinksAt'
  BY <1>11 DEF LinksAt
<1>13. /\ link'[h0] = w /\ link'[w] = BitXor(pos, h0)
       /\ pos # 0 => link'[pos] = BitXor(BitXor(link[pos], h0), w)
       /\ \A q \in (Heads \cup Live) \ {h0, w, pos} : link'[q] = link[q]
       /\ pos = 0 => \A q \in Live : link'[q] = link[q]
       /\ \A q \in Heads \ {h0} : link'[q] = link[q]
  BY <1>4, <1>5, <1>7, <1>10, <1>11
<1>14. ASSUME NEW S \in SUBSET Live, NEW p
       PROVE  IsNewest(p, S) => IsNewest(p, S)'
  BY <1>4 DEF IsNewest
<1>15. ASSUME NEW p \in Live
       PROVE  /\ Later(p)' = IF hash(entry[p].key) = h0 THEN Later(p) \cup {w} ELSE Later(p)
              /\ Earlier(p)' = Earlier(p)
              /\ Later(p) \subseteq Live /\ Earlier(p) \subseteq Live
  <2>1. hash(entry[p].key)' = hash(entry[p].key)
    BY <1>4 DEF hash
  <2>2. Bucket(hash(entry[p].key))' =
          IF hash(entry[p].key) = h0 THEN Bucket(hash(entry[p].key)) \cup {w}
                                     ELSE Bucket(hash(entry[p].key))
    <3>1. PICK h : h = hash(entry[p].key)
      OBVIOUS
    <3> QED BY <1>9, <2>1, <3>1
  <2>3. Later(p)' = IF hash(entry[p].key) = h0 THEN Later(p) \cup {w} ELSE Later(p)
    BY <1>4, <1>9, <2>2 DEF Later
  <2>4. Earlier(p)' = Earlier(p)
    BY <1>4, <1>5, <1>9, <2>2 DEF Earlier
  <2> QED BY <1>9, <2>3, <2>4 DEF Later, Earlier
<1>16. ASSUME NEW h \in Heads
       PROVE  IsNewest(link[h], Bucket(h))'
  <2>1. CASE h = h0
    BY <1>4, <1>5, <1>9, <1>13, <2>1 DEF IsNewest
  <2>2. CASE h # h0
    <3>1. PICK p : p = link[h]
      OBVIOUS
    <3>2. IsNewest(p, Bucket(h))
      BY <3>1 DEF Chains, ChainsOK
    <3>3. IsNewest(p, Bucket(h))'
      BY <1>4, <1>9, <2>2, <3>2 DEF IsNewest
    <3> QED BY <1>13, <2>2, <3>1, <3>3
  <2> QED BY <2>1, <2>2
<1>17. ASSUME NEW p \in Live'
       PROVE  \E n \in Heads \cup Live', o \in Live' \cup {0} :
                IsBefore(n, p)' /\ IsNewest(o, Earlier(p))' /\ link'[p] = BitXor(n, o)
  <2>1. CASE p = w
    <3>1. hash(entry[p].key)' = h0
      BY <1>2, <1>4, <2>1 DEF hash
    <3>2. Bucket(hash(entry[p].key))' = Bucket(h0) \cup {w}
      BY <1>9, <3>1
    <3>3. \A q \in Live : ~(Age(q)' > Age(p)') /\ Age(q)' < Age(p)'
      BY <1>4, <1>5, <2>1
    <3>4. Age(p)' \in Nat /\ Later(p)' = {}
      BY <1>4, <1>9, <2>1, <3>2, <3>3 DEF Later
    <3>8. Earlier(p)' = Bucket(h0)
      BY <1>9, <2>1, <3>2, <3>3, <3>4 DEF Earlier
    <3>5. IsBefore(h0, p)'
      BY <3>1, <3>4 DEF IsBefore
    <3>6. IsNewest(pos, Earlier(p))'
      <4>1. PICK S \in SUBSET Live : S = Bucket(h0)
        BY <1>9
      <4>2. IsNewest(pos, S)'
        BY <1>8, <1>14, <4>1
      <4> QED BY <3>8, <4>1, <4>2
    <3>7. link'[p] = BitXor(h0, pos)
      <4>1. pos \in 0 .. Size - 1
        BY <1>5, <1>10, HSizeBounds
      <4> QED BY <1>7, <1>13, <2>1, <4>1, Xor
    <3> QED BY <1>4, <1>7, <1>10, <3>5, <3>6, <3>7
  <2>2. ASSUME p # w
        PROVE  \E n \in Heads \cup Live, o \in Live \cup {0} :
                 /\ p \in Live /\ IsBefore(n, p) /\ IsNewest(o, Earlier(p))'
                 /\ link[p] = BitXor(n, o)
    <3>1. p \in Live
      BY <1>4, <2>2
    <3>2. PICK n \in Heads \cup Live, o \in Live \cup {0} :
            IsBefore(n, p) /\ IsNewest(o, Earlier(p)) /\ link[p] = BitXor(n, o)
      BY <3>1 DEF Chains, ChainsOK
    <3>3. IsNewest(o, Earlier(p))'
      <4>1. PICK S \in SUBSET Live : S = Earlier(p)
        BY <1>15, <3>1
      <4> QED BY <1>14, <1>15, <3>1, <3>2, <4>1
    <3> QED BY <3>1, <3>2, <3>3
  <2>3. CASE p = pos /\ p # w
    <3>1. PICK n \in Heads \cup Live, o \in Live \cup {0} :
            /\ p \in Live /\ IsBefore(n, p) /\ IsNewest(o, Earlier(p))'
            /\ link[p] = BitXor(n, o)
      BY <2>2, <2>3
    <3>2. p \in Bucket(h0) /\ \A q \in Bucket(h0) : Age(q) <= Age(p)
      BY <1>5, <1>8, <2>3, <3>1 DEF IsNewest
    <3>3. hash(entry[p].key) = h0
      BY <3>2 DEF Bucket
    <3>4. Later(p) = {}
      BY <1>5, <1>9, <3>1, <3>2, <3>3 DEF Later
    <3>5. n = h0
      BY <3>1, <3>3, <3>4 DEF IsBefore
    <3>6. Later(p)' = {w}
      BY <1>15, <3>1, <3>3, <3>4
    <3>7. IsBefore(w, p)'
      BY <1>4, <3>6 DEF IsBefore
    <3>8. link'[p] = BitXor(w, o)
      <4>1. o \in 0 .. Size - 1 /\ h0 \in 0 .. Size - 1 /\ w \in 0 .. Size - 1
        BY <1>4, <1>5, <1>7, HSizeBounds
      <4>2. link'[p] = BitXor(BitXor(BitXor(h0, o), h0), w)
        BY <1>5, <1>13, <2>3, <3>1, <3>5
      <4> QED BY <4>1, <4>2, Xor
    <3> QED BY <1>4, <3>1, <3>7, <3>8
  <2>4. CASE p # pos /\ p # w
    <3>1. PICK n \in Heads \cup Live, o \in Live \cup {0} :
            /\ p \in Live /\ IsBefore(n, p) /\ IsNewest(o, Earlier(p))'
            /\ link[p] = BitXor(n, o)
      BY <2>2, <2>4
    <3>2. link'[p] = link[p]
      BY <1>5, <1>7, <1>13, <2>4, <3>1
    <3>3. IsBefore(n, p)'
      <4>1. CASE hash(entry[p].key) = h0
        <5>1. p \in Bucket(h0) /\ pos \in Bucket(h0) /\ pos \in Live
          BY <1>5, <1>8, <1>9, <3>1, <4>1 DEF Bucket, IsNewest
        <5>2. Age(pos) > Age(p)
          BY <1>5, <1>6, <1>8, <2>4, <3>1, <5>1 DEF IsNewest
        <5>3. Later(p) # {}
          BY <4>1, <5>1, <5>2 DEF Later
        <5>4. n \in Later(p) /\ \A q \in Later(p) : Age(n) <= Age(q)
          BY <3>1, <5>3 DEF IsBefore
        <5>5. Later(p)' = Later(p) \cup {w} /\ n \in Live
          BY <1>15, <3>1, <4>1, <5>4
        <5> QED BY <1>4, <1>5, <1>15, <3>1, <5>4, <5>5 DEF IsBefore
      <4>2. CASE hash(entry[p].key) # h0
        <5>1. Later(p)' = Later(p)
          BY <1>15, <3>1, <4>2
        <5>2. hash(entry[p].key)' = hash(entry[p].key)
          BY <1>4, <3>1 DEF hash
        <5> QED BY <1>4, <1>15, <3>1, <5>1, <5>2 DEF IsBefore
      <4> QED BY <4>1, <4>2
    <3> QED BY <1>4, <3>1, <3>2, <3>3
  <2> QED BY <2>1, <2>3, <2>4
<1> QED BY <1>12, <1>16, <1>17 DEF Chains, ChainsOK

\* Every other step leaves the ring alone.
LEMMA RingSteps ==
    [Next]_vars => WrapAround \/ EvictOldest \/ Write \/ UNCHANGED <<writer, oldest, unused, link, entry>>
<1>1. (\E k \in Keys, d \in Data, t \in TTLs : SetCall(k, d, t)) =>
        UNCHANGED <<writer, oldest, unused, link, entry>>
  BY DEF SetCall, ring
<1>2. (\E k \in Keys : GetCall(k)) \/ GetStep => UNCHANGED <<writer, oldest, unused, link, entry>>
  BY DEF GetCall, GetStep, GetNext, GetFound, GetGivesUp, GetNothing, Return, ring
<1>3. TooBig \/ Tick \/ UNCHANGED vars => UNCHANGED <<writer, oldest, unused, link, entry>>
  BY DEF TooBig, Tick, ring, vars
<1> QED BY <1>1, <1>2, <1>3 DEF Next, SetStep

\* Steps that leave the borders and the entries alone keep the ages.
LEMMA SameLive ==
    ASSUME RingInv, UNCHANGED <<writer, oldest, unused, entry>>
    PROVE  Live' = Live /\ \A p : Age(p)' = Age(p)
BY DEF Live, Age

\* The chains are kept by every step.
LEMMA NextChains == RingInv /\ Apart /\ Chains /\ [Next]_vars => Chains'
<1> SUFFICES ASSUME RingInv, Apart, Chains, [Next]_vars PROVE Chains'
  OBVIOUS
<1>1. CASE WrapAround
  BY <1>1, NextRing, WrapAroundChains
<1>2. CASE EvictOldest
  BY <1>2, EvictChains
<1>3. CASE Write
  BY <1>3, WriteChains
<1>4. CASE UNCHANGED <<writer, oldest, unused, link, entry>>
  <2>1. Live' = Live /\ \A p : Age(p)' = Age(p)
    BY <1>4, SameLive
  <2>2. \A p \in Live : Age(p) \in Nat
    BY Places, HSizeBounds DEF RingInv
  <2> QED BY <1>4, <2>1, <2>2, SameChains
<1> QED BY <1>1, <1>2, <1>3, <1>4, RingSteps

\* At first there are no entries and every head is 0.
LEMMA InitChains == Init => Apart /\ Chains
<1> SUFFICES ASSUME Init PROVE Apart /\ Chains
  OBVIOUS
<1>1. DOMAIN entry = {} /\ Live = {}
  BY DEF Init, Live
<1>2. Apart
  BY <1>1 DEF Apart
<1>3. link = [p \in Heads |-> 0] /\ LinksAt
  BY <1>1 DEF Init, LinksAt
<1>4. ChainsOK
  BY <1>1, <1>3 DEF ChainsOK, IsNewest, Bucket
<1> QED BY <1>2, <1>3, <1>4 DEF Chains

\* The chains list exactly what is in the ring, newest first.
THEOREM CacheChains == Spec => []ChainsOK
<1>1. RingInv /\ Apart /\ Chains /\ [Next]_vars => (Apart /\ Chains)'
  BY NextApart, NextChains
<1>2. Chains => ChainsOK
  BY DEF Chains
<1> QED BY <1>1, <1>2, CacheRing, InitChains, PTL DEF Spec, RingInv

\* The invariant of the ring and its chains.
LEMMA CacheInv == Spec => [](RingInv /\ OneCall /\ Apart /\ Chains)
<1>1. RingInv /\ Apart /\ Chains /\ [Next]_vars => (Apart /\ Chains)'
  BY NextApart, NextChains
<1> QED BY <1>1, CacheRing, CacheOneCall, InitChains, PTL DEF Spec, RingInv

--------------------------------------------------------------------------
(* cache_get: how far the walk along a chain has come.                     *)

\* The well-foundedness of Nat, as a least element.
LEMMA LeastNatural ==
    ASSUME NEW T \in SUBSET Nat, T # {}
    PROVE  \E x \in T : \A y \in T : x <= y
<1> DEFINE less == OpToRel(<, Nat)
<1>1. \E x \in T : \A y \in T : ~(<<y, x>> \in less)
  BY NatLessThanWellFounded, WFMin
<1>2. less = {ss \in Nat \X Nat : ss[1] < ss[2]}
  BY Zenon DEF OpToRel
<1>3. \A x, y \in Nat : y < x => <<y, x>> \in less
  <2> HIDE DEF less
  <2> QED BY <1>2
<1> HIDE DEF less
<1>4. PICK x \in T : \A y \in T : ~(<<y, x>> \in less)
  BY <1>1
<1>5. \A y \in T : ~(y < x)
  BY <1>3, <1>4, Zenon
<1>6. \A y \in T : x <= y
  BY <1>5
<1> QED BY <1>6

\* Any entries of the ring have a newest one.
LEMMA NewestExists ==
    ASSUME TypeOK, RingOK, NEW S \in SUBSET Live, S # {}
    PROVE  \E p \in S : IsNewest(p, S)
<1>1. \A p \in S : Age(p) \in 0 .. 2 * Size
  BY Places
<1> DEFINE T == {n \in Nat : \E p \in S : n = 2 * Size - Age(p)}
<1>2. T # {}
  BY <1>1, HSizeBounds
<1>3. PICK n \in T : \A m \in T : n <= m
  BY <1>2, LeastNatural
<1>4. PICK p \in S : n = 2 * Size - Age(p)
  BY <1>3
<1>5. \A q \in S : 2 * Size - Age(q) \in T
  BY <1>1, HSizeBounds
<1>6. \A q \in S : Age(q) <= Age(p)
  BY <1>1, <1>3, <1>4, <1>5, HSizeBounds
<1> QED BY <1>6 DEF IsNewest

\* The ring holds finitely many entries.
LEMMA LiveFinite ==
    ASSUME TypeOK, RingOK
    PROVE  \A S \in SUBSET Live : IsFiniteSet(S)
<1>1. Live \subseteq HSize .. Size - 1
  BY Places
<1>2. IsFiniteSet(HSize .. Size - 1)
  BY FS_Interval, HSizeBounds
<1> QED BY <1>1, <1>2, FS_Subset

\* Only names and contents that pass the early returns of cache_set are stored.
Short(k, d) == KeyLen[k] <= MaxKeyLen /\ DataLen[d] <= MaxDataLen
AllShort ==
    /\ pending # NoSet => Short(pending.key, pending.data)
    /\ \A p \in DOMAIN entry : Short(entry[p].key, entry[p].data)

\* Every step keeps that.
LEMMA NextShort == AllShort /\ [Next]_vars => AllShort'
<1> SUFFICES ASSUME AllShort, [Next]_vars PROVE AllShort'
  OBVIOUS
<1>1. ASSUME NEW k \in Keys, NEW d \in Data, NEW t \in TTLs, SetCall(k, d, t)
      PROVE  AllShort'
  BY <1>1 DEF AllShort, Short, SetCall, Cacheable, ring
<1>2. CASE Write
  <2> DEFINE kept == Intact(writer, EntryLen(pending.key, pending.data))
  <2>1. kept \subseteq DOMAIN entry
    BY DEF Intact
  <2>2. /\ DOMAIN entry' = kept \cup {writer} /\ pending' = NoSet
        /\ entry'[writer].key = pending.key /\ entry'[writer].data = pending.data
        /\ \A q \in kept : q # writer => entry'[q] = entry[q]
    BY <1>2 DEF Write
  <2>3. Short(pending.key, pending.data)
    BY <1>2 DEF Write, AllShort
  <2> HIDE DEF kept
  <2> QED BY <2>1, <2>2, <2>3 DEF AllShort, Short
<1>3. CASE WrapAround \/ EvictOldest \/ TooBig \/ Tick \/ UNCHANGED vars
  BY <1>3 DEF WrapAround, EvictOldest, TooBig, Tick, AllShort, Short, ring, vars
<1>4. CASE (\E k \in Keys : GetCall(k)) \/ GetStep
  BY <1>4 DEF GetCall, GetStep, GetNext, GetFound, GetGivesUp, GetNothing, Return, AllShort,
              Short, ring
<1> QED BY <1>1, <1>2, <1>3, <1>4 DEF Next, SetStep

\* How far cache_get has come: the entries it has walked past are those that are
\* newer than the one it is at, and none of them is of its key.
WalkAt(k, prev, pos, loop) ==
    IF pos = 0 THEN Mine(k) = {}
    ELSE /\ pos \in Bucket(hash(k))
         /\ IsBefore(prev, pos)
         /\ loop = Cardinality(Later(pos))
         /\ \A q \in Later(pos) : entry[q].key # k

Walk == get # NoGet => pending = NoSet /\ WalkAt(get.key, get.prev, get.pos, get.loop)

\* The newest of a chain is right behind its head.
LEMMA NothingLater ==
    ASSUME RingInv, NEW h \in Heads, NEW p \in Bucket(h), IsNewest(p, Bucket(h))
    PROVE  Later(p) = {} /\ IsBefore(h, p)
<1>1. hash(entry[p].key) = h /\ Bucket(h) \subseteq Live
  BY DEF Bucket
<1>2. \A q \in Bucket(h) : Age(q) \in Nat /\ Age(q) <= Age(p)
  BY <1>1, Places, HSizeBounds DEF IsNewest, RingInv
<1>3. Later(p) = {}
  BY <1>1, <1>2 DEF Later
<1> QED BY <1>1, <1>3 DEF IsBefore

\* cache_get starts behind the head, at the newest of the chain.
LEMMA WalkStarts ==
    ASSUME RingInv, Chains, AllShort, NEW k \in Keys
    PROVE  WalkAt(k, hash(k), IF KeyLen[k] > MaxKeyLen THEN 0 ELSE link[hash(k)], 0)
<1>1. Mine(k) \subseteq Bucket(hash(k))
  BY DEF Mine, Bucket
<1>2. CASE KeyLen[k] > MaxKeyLen
  <2>1. Mine(k) = {}
    BY <1>2, SizesAssumption DEF AllShort, Short, Mine, Live, MaxKeyLen
  <2> QED BY <1>2, <2>1 DEF WalkAt
<1>3. CASE ~(KeyLen[k] > MaxKeyLen)
  <2> DEFINE h == hash(k)
             pos == link[h]
  <2>1. h \in Heads /\ IsNewest(pos, Bucket(h))
    BY HashIsHead DEF Chains, ChainsOK
  <2>2. CASE Bucket(h) = {}
    <3>1. pos = 0 /\ Mine(k) = {}
      BY <1>1, <2>1, <2>2 DEF IsNewest
    <3> QED BY <1>3, <3>1 DEF WalkAt
  <2>3. CASE Bucket(h) # {}
    <3>1. pos \in Bucket(h)
      BY <2>1, <2>3 DEF IsNewest
    <3>2. pos # 0
      BY <3>1, Places DEF RingInv, Bucket
    <3>3. Later(pos) = {} /\ IsBefore(h, pos)
      BY <2>1, <3>1, NothingLater
    <3> QED BY <1>3, <3>1, <3>2, <3>3, FS_EmptySet DEF WalkAt
  <2> QED BY <2>2, <2>3
<1> QED BY <1>2, <1>3

\* One step of cache_get leads to the next older entry of the chain, or to 0
\* behind the oldest.
LEMMA WalkGoesOn ==
    ASSUME RingInv, Chains, NEW k, NEW prev, NEW pos, NEW loop,
           WalkAt(k, prev, pos, loop), pos # 0, entry[pos].key # k
    PROVE  WalkAt(k, pos, BitXor(prev, link[pos]), loop + 1)
<1> DEFINE h == hash(k)
<1>1. /\ pos \in Bucket(h) /\ IsBefore(prev, pos)
      /\ loop = Cardinality(Later(pos))
      /\ \A q \in Later(pos) : entry[q].key # k
  BY DEF WalkAt
<1>2. pos \in Live /\ hash(entry[pos].key) = h /\ Bucket(h) \subseteq Live
  BY <1>1 DEF Bucket
<1>3. PICK n \in Heads \cup Live, o \in Live \cup {0} :
        IsBefore(n, pos) /\ IsNewest(o, Earlier(pos)) /\ link[pos] = BitXor(n, o)
  BY <1>2 DEF Chains, ChainsOK
<1>4. n = prev
  BY <1>1, <1>2, <1>3, OneBefore DEF RingInv
<1>5. \A p \in Live : p \in 0 .. Size - 1 /\ p # 0 /\ Age(p) \in Nat
  BY Places, HSizeBounds DEF RingInv
<1>6. n \in 0 .. Size - 1 /\ o \in 0 .. Size - 1
  BY <1>3, <1>5, HSizeBounds DEF Heads
<1>7. BitXor(prev, link[pos]) = o
  BY <1>3, <1>4, <1>6, Xor
<1>8. CASE o = 0
  <2>1. Earlier(pos) = {}
    BY <1>3, <1>5, <1>8 DEF IsNewest, Earlier, Bucket
  <2>2. \A q \in Mine(k) : q \in Later(pos) \/ q \in Earlier(pos) \/ q = pos
    <3> TAKE q \in Mine(k)
    <3>1. q \in Bucket(h) /\ q \in Live
      BY DEF Mine, Bucket
    <3>2. Age(q) > Age(pos) \/ Age(q) < Age(pos) \/ q = pos
      BY <1>2, <1>5, <3>1, Places DEF RingInv
    <3> QED BY <1>2, <3>1, <3>2 DEF Later, Earlier
  <2>3. Mine(k) = {}
    BY <1>1, <2>1, <2>2 DEF Mine
  <2> QED BY <1>7, <1>8, <2>3 DEF WalkAt
<1>9. CASE o # 0
  <2>1. o \in Earlier(pos) /\ \A q \in Earlier(pos) : Age(q) <= Age(o)
    BY <1>3, <1>9 DEF IsNewest
  <2>2. o \in Bucket(h) /\ o \in Live /\ hash(entry[o].key) = h /\ Age(o) < Age(pos)
    BY <1>2, <2>1 DEF Earlier, Bucket
  <2>3. Later(o) = Later(pos) \cup {pos}
    <3>1. ASSUME NEW q \in Bucket(h)
          PROVE  q \in Later(o) <=> q \in Later(pos) \cup {pos}
      <4>1. q \in Later(o) <=> Age(q) > Age(o)
        BY <2>2 DEF Later
      <4>2. q \in Later(pos) <=> Age(q) > Age(pos)
        BY <1>2 DEF Later
      <4>3. Age(q) < Age(pos) => Age(q) <= Age(o)
        BY <1>2, <2>1 DEF Earlier
      <4>4. q \in Live /\ (Age(q) = Age(pos) => q = pos)
        BY <1>2, Places DEF RingInv
      <4> QED BY <1>2, <1>5, <2>2, <4>1, <4>2, <4>3, <4>4
    <3> QED BY <1>1, <1>2, <2>2, <3>1 DEF Later
  <2>4. IsBefore(pos, o)
    <3>1. pos \in Later(o) /\ \A q \in Later(o) : Age(pos) <= Age(q)
      BY <1>2, <1>5, <2>3 DEF Later
    <3> QED BY <3>1 DEF IsBefore
  <2>5. Cardinality(Later(o)) = loop + 1
    <3>1. IsFiniteSet(Later(pos)) /\ pos \notin Later(pos)
      BY <1>2, <1>5, LiveFinite DEF Later, Bucket, RingInv
    <3> QED BY <1>1, <2>3, <3>1, FS_AddElement
  <2>6. \A q \in Later(o) : entry[q].key # k
    BY <1>1, <2>3
  <2> QED BY <1>7, <1>9, <2>2, <2>4, <2>5, <2>6 DEF WalkAt
<1> QED BY <1>8, <1>9

\* What has been walked does not change while the ring does not.
LEMMA SameWalk ==
    ASSUME RingInv, UNCHANGED <<writer, oldest, unused, link, entry>>
    PROVE  \A k, prev, pos, loop : WalkAt(k, prev, pos, loop) => WalkAt(k, prev, pos, loop)'
<1>1. Live' = Live /\ \A p : Age(p)' = Age(p)
  BY SameLive
<1>2. \A h : Bucket(h)' = Bucket(h) /\ Mine(h)' = Mine(h)
  BY <1>1 DEF Bucket, Mine
<1>3. \A p : Later(p)' = Later(p)
  BY <1>1, <1>2 DEF Later
<1>4. \A n, p : IsBefore(n, p)' <=> IsBefore(n, p)
  BY <1>1, <1>3 DEF IsBefore
<1>5. \A k : hash(k)' = hash(k)
  BY DEF hash
<1> QED BY <1>2, <1>3, <1>4, <1>5 DEF WalkAt

\* The walk is on its chain in every step.
LEMMA NextWalk ==
    RingInv /\ OneCall /\ Chains /\ AllShort /\ Walk /\ [Next]_vars => Walk'
<1> SUFFICES ASSUME RingInv, OneCall, Chains, AllShort, Walk, [Next]_vars PROVE Walk'
  OBVIOUS
<1>1. ASSUME NEW k \in Keys, NEW d \in Data, NEW t \in TTLs, SetCall(k, d, t)
      PROVE  Walk'
  BY <1>1 DEF Walk, SetCall
<1>2. CASE SetStep
  BY <1>2 DEF Walk, OneCall, SetStep, WrapAround, EvictOldest, TooBig, Write, ring
<1>3. ASSUME NEW k \in Keys, GetCall(k)
      PROVE  Walk'
  <2>1. PICK prev, pos : prev = hash(k) /\ pos = IF KeyLen[k] > MaxKeyLen THEN 0 ELSE link[hash(k)]
    OBVIOUS
  <2>2. WalkAt(k, prev, pos, 0)'
    BY <1>3, <2>1, WalkStarts, SameWalk DEF GetCall, ring
  <2>3. get' = [key |-> k, prev |-> prev, loop |-> 0, pos |-> pos] /\ pending' = NoSet
    BY <1>3, <2>1 DEF GetCall
  <2> QED BY <2>2, <2>3 DEF Walk
<1>4. CASE GetNext
  <2>1. PICK k, prev, pos, loop, next :
          /\ k = get.key /\ prev = get.prev /\ pos = get.pos /\ loop = get.loop
          /\ next = BitXor(prev, link[pos])
    OBVIOUS
  <2>2. WalkAt(k, pos, next, loop + 1)
    BY <1>4, <2>1, WalkGoesOn DEF GetNext, Passing, Walk
  <2>3. WalkAt(k, pos, next, loop + 1)'
    BY <1>4, <2>2, SameWalk DEF GetNext, ring
  <2>4. get' = [key |-> k, prev |-> pos, loop |-> loop + 1, pos |-> next] /\ pending' = NoSet
    BY <1>4, <2>1 DEF GetNext, Passing, Walk
  <2> QED BY <2>3, <2>4 DEF Walk
<1>5. CASE GetFound \/ GetGivesUp \/ GetNothing
  BY <1>5 DEF Walk, GetFound, GetGivesUp, GetNothing, Return
<1>6. CASE Tick \/ UNCHANGED vars
  <2>1. UNCHANGED <<writer, oldest, unused, link, entry, pending, get>>
    BY <1>6 DEF Tick, vars, ring
  <2>2. CASE get = NoGet
    BY <2>1, <2>2 DEF Walk
  <2>3. CASE get # NoGet
    <3>1. PICK k, prev, pos, loop : k = get.key /\ prev = get.prev /\ pos = get.pos /\ loop = get.loop
      OBVIOUS
    <3>2. WalkAt(k, prev, pos, loop)'
      BY <2>1, <2>3, <3>1, SameWalk DEF Walk
    <3> QED BY <2>1, <2>3, <3>1, <3>2 DEF Walk
  <2> QED BY <2>2, <2>3
<1> QED BY <1>1, <1>2, <1>3, <1>4, <1>5, <1>6 DEF Next, GetStep

\* The first entry of the key on the walk is the newest of the key.
LEMMA FoundRight ==
    ASSUME RingInv, Walk, AtKey
    PROVE  IsAnswer(get.key, Read(get.pos))
<1> DEFINE k == get.key
           p == get.pos
<1>1. /\ p \in Bucket(hash(k)) /\ p \in Live /\ get.loop = Cardinality(Later(p))
      /\ entry[p].key = k /\ \A q \in Later(p) : entry[q].key # k
  BY DEF Walk, WalkAt, AtKey, Bucket
<1>2. Cardinality(Later(p)) \in 0 .. MaxChain
  BY <1>1 DEF AtKey, RingInv, TypeOK
<1>3. ~(Cardinality(Later(p)) > MaxChain)
  BY <1>2, SizesAssumption
<1>4. p \in Mine(k)
  BY <1>1 DEF Mine
<1>5. IsNewest(p, Mine(k))
  <2>1. ASSUME NEW q \in Mine(k)
        PROVE  Age(q) <= Age(p)
    <3>1. q \in Live /\ q \in Bucket(hash(k)) /\ entry[q].key = k
      BY DEF Mine, Bucket
    <3>2. ~(Age(q) > Age(p))
      BY <1>1, <3>1 DEF Later
    <3> QED BY <1>1, <3>1, <3>2, Places, HSizeBounds DEF RingInv
  <2> QED BY <1>4, <2>1 DEF IsNewest
<1> HIDE DEF k, p
<1>6. Read(p) = IF Cardinality(Later(p)) > MaxChain \/ entry[p].expire < now THEN Miss
                ELSE [data |-> entry[p].data, ttl |-> Smaller(entry[p].expire - now, MaxTTL)]
  BY <1>3 DEF Read
<1>7. IsAnswer(k, Read(p))
  BY <1>4, <1>5, <1>6 DEF IsAnswer
<1> QED BY <1>7 DEF k, p

\* Giving up is right: the key is behind more than MaxChain entries, or nowhere.
LEMMA GivesUpRight ==
    ASSUME RingInv, Walk, Passing, get.loop + 1 > MaxChain
    PROVE  IsAnswer(get.key, Miss)
<1> DEFINE k == get.key
           p == get.pos
<1>1. /\ p \in Bucket(hash(k)) /\ p \in Live /\ get.loop = Cardinality(Later(p))
      /\ entry[p].key # k /\ \A q \in Later(p) : entry[q].key # k
      /\ get.loop \in 0 .. MaxChain
  BY DEF Walk, WalkAt, Passing, Bucket, RingInv, TypeOK
<1> HIDE DEF k, p
<1>2. CASE Mine(k) = {}
  BY <1>2 DEF IsAnswer, k
<1>3. CASE Mine(k) # {}
  <2>1. PICK m \in Mine(k) : IsNewest(m, Mine(k))
    BY <1>3, NewestExists DEF Mine, RingInv
  <2>2. m \in Live /\ m \in Bucket(hash(k)) /\ entry[m].key = k
    BY DEF Mine, Bucket
  <2>3. \A q \in Live : Age(q) \in Nat
    BY Places, HSizeBounds DEF RingInv
  <2>4. Age(m) < Age(p)
    <3>1. ~(Age(m) > Age(p))
      BY <1>1, <2>2 DEF Later, Bucket
    <3>2. Age(m) # Age(p)
      BY <1>1, <2>2, Places DEF RingInv
    <3> QED BY <1>1, <2>2, <2>3, <3>1, <3>2
  <2>5. Later(p) \cup {p} \subseteq Later(m) /\ p \notin Later(p) /\ Later(m) \in SUBSET Live
    BY <1>1, <2>2, <2>3, <2>4 DEF Later, Bucket
  <2>6. IsFiniteSet(Later(m)) /\ IsFiniteSet(Later(p))
    BY <2>5, LiveFinite DEF RingInv
  <2>7. Cardinality(Later(p) \cup {p}) = get.loop + 1
    BY <1>1, <2>5, <2>6, FS_AddElement
  <2>8. Cardinality(Later(m)) \in Nat /\ get.loop + 1 <= Cardinality(Later(m))
    BY <2>5, <2>6, <2>7, FS_Subset, FS_CardinalityType
  <2>9. Cardinality(Later(m)) > MaxChain
    BY <1>1, <2>8, SizesAssumption
  <2>10. IsAnswer(k, Miss)
    BY <2>1, <2>9 DEF IsAnswer
  <2> QED BY <2>10 DEF k
<1> QED BY <1>2, <1>3

\* Every return gives the right answer.
LEMMA ReturnRight ==
    ASSUME RingInv, GetIsNewest, Walk, [Next]_vars
    PROVE  GetIsNewest'
<1>1. CASE got' = NoGet
  BY <1>1 DEF GetIsNewest
<1>2. ASSUME NEW k, NEW answer, IsAnswer(k, answer), got' = [key |-> k, answer |-> answer],
             UNCHANGED <<writer, oldest, unused, link, entry, now>>
      PROVE  GetIsNewest'
  <2>1. Live' = Live /\ \A p : Age(p)' = Age(p)
    BY <1>2, SameLive
  <2>2. (\A h : Bucket(h)' = Bucket(h)) /\ Mine(k)' = Mine(k)
    BY <1>2, <2>1 DEF Bucket, Mine
  <2>3. \A p : Later(p)' = Later(p)
    BY <1>2, <2>1, <2>2 DEF Later
  <2>4. \A p : IsNewest(p, Mine(k))' <=> IsNewest(p, Mine(k))
    BY <2>1, <2>2 DEF IsNewest
  <2>5. IsAnswer(k, answer)'
    BY <1>2, <2>2, <2>3, <2>4 DEF IsAnswer
  <2>6. got'.key = k /\ got'.answer = answer
    BY <1>2
  <2> QED BY <2>5, <2>6 DEF IsAnswer, GetIsNewest
<1>3. CASE GetFound
  <2>1. PICK k, answer : k = get.key /\ answer = Read(get.pos)
    OBVIOUS
  <2> QED BY <1>2, <1>3, <2>1, FoundRight DEF GetFound, Return, ring
<1>4. CASE GetGivesUp
  <2>1. PICK k : k = get.key
    OBVIOUS
  <2> QED BY <1>2, <1>4, <2>1, GivesUpRight DEF GetGivesUp, Return, ring
<1>5. CASE GetNothing
  <2>1. PICK k : k = get.key
    OBVIOUS
  <2>2. IsAnswer(k, Miss)
    BY <1>5, <2>1 DEF GetNothing, Walk, WalkAt, IsAnswer
  <2> QED BY <1>2, <1>5, <2>1, <2>2 DEF GetNothing, Return, ring
<1>6. CASE UNCHANGED vars
  <2>1. Live' = Live /\ \A p : Age(p)' = Age(p)
    BY <1>6, SameLive DEF vars, ring
  <2>2. \A h : Bucket(h)' = Bucket(h) /\ Mine(h)' = Mine(h)
    BY <1>6, <2>1 DEF Bucket, Mine, vars, ring
  <2>3. \A p : Later(p)' = Later(p)
    BY <1>6, <2>1, <2>2 DEF Later, vars, ring
  <2>4. \A p, k : IsNewest(p, Mine(k))' <=> IsNewest(p, Mine(k))
    BY <2>1, <2>2 DEF IsNewest
  <2> QED BY <1>6, <2>2, <2>3, <2>4 DEF GetIsNewest, IsAnswer, vars, ring
<1>7. GetFound \/ GetGivesUp \/ GetNothing \/ UNCHANGED vars \/ got' = NoGet
  <2>1. (\E k \in Keys, d \in Data, t \in TTLs : SetCall(k, d, t)) => got' = NoGet
    BY DEF SetCall
  <2>2. (\E k \in Keys : GetCall(k)) \/ SetStep \/ GetNext \/ Tick => got' = NoGet
    BY DEF GetCall, SetStep, WrapAround, EvictOldest, TooBig, Write, GetNext, Tick
  <2> QED BY <2>1, <2>2 DEF Next, GetStep
<1> QED BY <1>1, <1>3, <1>4, <1>5, <1>6, <1>7

\* The invariant with what cache_get has walked.
LEMMA CacheWalk == Spec => [](RingInv /\ OneCall /\ Apart /\ Chains /\ AllShort /\ Walk)
<1>1. Init => AllShort /\ Walk
  BY DEF Init, AllShort, Walk
<1>2. RingInv /\ OneCall /\ Chains /\ AllShort /\ Walk /\ [Next]_vars => (AllShort /\ Walk)'
  BY NextShort, NextWalk
<1> QED BY <1>1, <1>2, CacheInv, PTL DEF Spec

\* A lookup answers with the newest entry of its key.
THEOREM CacheGetIsNewest == Spec => []GetIsNewest
<1>1. Init => GetIsNewest
  BY DEF Init, GetIsNewest
<1>2. RingInv /\ Walk /\ GetIsNewest /\ [Next]_vars => GetIsNewest'
  BY ReturnRight
<1> QED BY <1>1, <1>2, CacheWalk, PTL DEF Spec

--------------------------------------------------------------------------
(* The refinement: places in the ring are places in the log.               *)

UpTo(p) == {q \in Live : Age(q) <= Age(p)}

\* The places number the entries of the ring from the oldest to the newest.
PlacesOK ==
    /\ Cardinality(Live) \in Nat
    /\ \A p \in Live : Place(p) \in 1 .. Cardinality(Live)
    /\ \A p, q \in Live : Age(p) < Age(q) <=> Place(p) < Place(q)
    /\ \A i \in 1 .. Cardinality(Live) : At(i) \in Live /\ Place(At(i)) = i
    /\ \A p \in Live : At(Place(p)) = p

\* This follows from the layout alone: ages of different entries differ.
LEMMA PlaceFacts == RingInv => PlacesOK
<1> SUFFICES ASSUME TypeOK, RingOK PROVE PlacesOK
  BY DEF RingInv
<1> DEFINE n == Cardinality(Live)
<1>1. IsFiniteSet(Live) /\ n \in Nat
  BY LiveFinite, FS_CardinalityType
<1>2. \A p \in Live : Age(p) \in Nat
  BY Places, HSizeBounds
<1>3. \A p, q \in Live : Age(p) = Age(q) => p = q
  BY Places
<1>4. ASSUME NEW p \in Live
      PROVE  /\ UpTo(p) \subseteq Live /\ p \in UpTo(p) /\ IsFiniteSet(UpTo(p))
             /\ Place(p) = Cardinality(UpTo(p))
  BY <1>2, LiveFinite DEF UpTo, Place
<1>5. ASSUME NEW p \in Live
      PROVE  Place(p) \in 1 .. n
  <2>1. Place(p) \in Nat /\ Place(p) <= n
    BY <1>1, <1>4, FS_Subset, FS_CardinalityType
  <2>2. Place(p) # 0
    BY <1>4, FS_EmptySet
  <2> QED BY <1>1, <2>1, <2>2
<1>6. ASSUME NEW p \in Live, NEW q \in Live, Age(p) < Age(q)
      PROVE  Place(p) < Place(q)
  <2>1. UpTo(p) \subseteq UpTo(q) /\ q \notin UpTo(p)
    BY <1>2, <1>6 DEF UpTo
  <2>2. Cardinality(UpTo(p)) <= Cardinality(UpTo(q))
        /\ Cardinality(UpTo(p)) # Cardinality(UpTo(q))
    BY <1>4, <2>1, FS_Subset
  <2> QED BY <1>1, <1>4, <1>5, <2>2
<1>7. ASSUME NEW p \in Live, NEW q \in Live, Place(p) < Place(q)
      PROVE  Age(p) < Age(q)
  <2>1. ~(Age(q) < Age(p)) /\ p # q
    BY <1>1, <1>5, <1>6, <1>7
  <2> QED BY <1>2, <1>3, <2>1
<1>8. ASSUME NEW p \in Live, NEW q \in Live, Place(p) = Place(q)
      PROVE  p = q
  <2>1. ~(Age(p) < Age(q)) /\ ~(Age(q) < Age(p))
    BY <1>1, <1>5, <1>6, <1>8
  <2> QED BY <1>2, <1>3, <2>1
<1>9. ASSUME NEW i \in 1 .. n
      PROVE  \E p \in Live : Place(p) = i
  <2> DEFINE f == [p \in Live |-> Place(p)]
  <2>1. f \in Injection(Live, 1 .. n)
    BY <1>5, <1>8 DEF Injection, IsInjective
  <2>2. IsFiniteSet(1 .. n) /\ Cardinality(1 .. n) = n
    BY <1>1, FS_Interval
  <2> HIDE DEF f
  <2>3. f \in Surjection(Live, 1 .. n)
    BY <2>1, <2>2, FS_Injection
  <2>4. \E p \in Live : f[p] = i
    BY <2>3 DEF Surjection
  <2> QED BY <2>4 DEF f
<1>10. \A i \in 1 .. n : At(i) \in Live /\ Place(At(i)) = i
  BY <1>9 DEF At
<1>11. \A p \in Live : At(Place(p)) = p
  BY <1>5, <1>8, <1>10
<1> QED BY <1>1, <1>5, <1>6, <1>7, <1>10, <1>11 DEF PlacesOK

\* An eviction moves every other entry one place down.
LEMMA EvictPlaces ==
    ASSUME RingInv, PlacesOK, PlacesOK', Apart, EvictOldest
    PROVE  /\ Cardinality(Live) >= 1 /\ Cardinality(Live)' = Cardinality(Live) - 1
           /\ At(1) = oldest
           /\ \A i \in 1 .. Cardinality(Live) - 1 : At(i)' = At(i + 1)
<1>1. PICK o : o = oldest
  OBVIOUS
<1>2. Live' = Live \ {o} /\ o \in Live /\ \A q \in Live' : Age(o) < Age(q)
  BY <1>1, EvictLive, OldestIsFirst DEF EvictOldest
<1>3. IsFiniteSet(Live) /\ Cardinality(Live) \in Nat
  BY LiveFinite DEF RingInv, PlacesOK
<1>4. Cardinality(Live)' = Cardinality(Live) - 1
  BY <1>2, <1>3, FS_RemoveElement
<1>5. \A q : Age(q)' = Age(q)
  BY DEF EvictOldest, Age
<1>6. \A q \in Live : Age(q) \in Nat
  BY Places, HSizeBounds DEF RingInv
<1>7. Place(o) = 1
  <2>1. UpTo(o) = {o}
    BY <1>2, <1>6 DEF UpTo
  <2> QED BY <2>1, FS_Singleton DEF Place, UpTo
<1>8. ASSUME NEW q \in Live'
      PROVE  Place(q)' = Place(q) - 1
  <2>1. UpTo(q)' = UpTo(q) \ {o} /\ o \in UpTo(q) /\ UpTo(q) \in SUBSET Live
    BY <1>2, <1>5, <1>6 DEF UpTo
  <2>2. Cardinality(UpTo(q) \ {o}) = Cardinality(UpTo(q)) - 1
    BY <2>1, LiveFinite, FS_RemoveElement DEF RingInv
  <2> QED BY <2>1, <2>2 DEF Place, UpTo
<1>9. ASSUME NEW i \in 1 .. Cardinality(Live) - 1
      PROVE  At(i)' = At(i + 1)
  <2>1. PICK q : q = At(i + 1)
    OBVIOUS
  <2>2. q \in Live /\ Place(q) = i + 1
    BY <1>3, <2>1 DEF PlacesOK
  <2>3. q \in Live'
    BY <1>2, <1>7, <2>2
  <2>4. Place(q)' = i
    BY <1>8, <2>2, <2>3
  <2>5. At(Place(q))' = q
    BY <2>3 DEF PlacesOK
  <2> QED BY <2>1, <2>4, <2>5
<1>10. At(1) = o /\ Cardinality(Live) >= 1
  BY <1>2, <1>3, <1>7 DEF PlacesOK
<1> QED BY <1>1, <1>4, <1>9, <1>10

\* A write takes the place behind the last.
LEMMA WritePlaces ==
    ASSUME RingInv, PlacesOK, PlacesOK', Write
    PROVE  /\ Cardinality(Live)' = Cardinality(Live) + 1
           /\ \A i \in 1 .. Cardinality(Live) : At(i)' = At(i)
           /\ \A i : i = Cardinality(Live) + 1 => At(i)' = writer
<1>1. PICK w : w = writer
  OBVIOUS
<1>2. /\ w \notin Live /\ Live' = Live \cup {w}
      /\ \A q \in Live : Age(q)' = Age(q) /\ Age(q) < Age(w)'
      /\ Age(w)' \in Nat
  BY <1>1, WriteLive, HSizeBounds
<1>3. IsFiniteSet(Live) /\ Cardinality(Live) \in Nat
  BY LiveFinite DEF RingInv, PlacesOK
<1>4. Cardinality(Live)' = Cardinality(Live) + 1
  BY <1>2, <1>3, FS_AddElement
<1>5. \A q \in Live : Age(q) \in Nat
  BY Places, HSizeBounds DEF RingInv
<1>6. ASSUME NEW q \in Live
      PROVE  Place(q)' = Place(q)
  <2>1. UpTo(q)' = UpTo(q)
    BY <1>2, <1>5 DEF UpTo
  <2> QED BY <2>1 DEF Place, UpTo
<1>7. Place(w)' = Cardinality(Live) + 1
  <2>1. UpTo(w)' = Live'
    BY <1>2, <1>5 DEF UpTo
  <2> QED BY <1>4, <2>1 DEF Place, UpTo
<1>8. ASSUME NEW i \in 1 .. Cardinality(Live)
      PROVE  At(i)' = At(i)
  <2>1. PICK q : q = At(i)
    OBVIOUS
  <2>2. q \in Live /\ Place(q) = i
    BY <2>1 DEF PlacesOK
  <2>3. q \in Live' /\ Place(q)' = i
    BY <1>2, <1>6, <2>2
  <2> QED BY <2>1, <2>3 DEF PlacesOK
<1>9. ASSUME NEW i, i = Cardinality(Live) + 1
      PROVE  At(i)' = w
  BY <1>2, <1>7, <1>9 DEF PlacesOK
<1> QED BY <1>1, <1>4, <1>8, <1>9

\* Turning the ring and the steps that leave it alone keep the places.
LEMMA SamePlaces ==
    ASSUME RingInv, PlacesOK, PlacesOK', WrapAround \/ UNCHANGED <<writer, oldest, unused, entry>>
    PROVE  Cardinality(Live)' = Cardinality(Live)
           /\ \A i \in 1 .. Cardinality(Live) : At(i)' = At(i)
<1>1. Live' = Live /\ \A p, q \in Live : Age(q)' <= Age(p)' <=> Age(q) <= Age(p)
  <2>1. CASE WrapAround
    <3>1. Live' = Live /\ \A p \in Live : Age(p) = Size + Age(p)'
      BY <2>1, WrapAroundLive
    <3>2. writer' \in Nat /\ Size \in Nat /\ \A p \in Live' : p \in Nat
      BY <2>1, HSizeBounds DEF WrapAround, Live, RingInv, TypeOK
    <3>3. \A p \in Live : Age(p)' \in Nat
      BY <3>1, <3>2 DEF Age
    <3> QED BY <3>1, <3>2, <3>3
  <2>2. CASE UNCHANGED <<writer, oldest, unused, entry>>
    BY <2>2, SameLive
  <2> QED BY <2>1, <2>2
<1>2. ASSUME NEW p \in Live
      PROVE  Place(p)' = Place(p)
  <2>1. UpTo(p)' = UpTo(p)
    BY <1>1 DEF UpTo
  <2> QED BY <2>1 DEF Place, UpTo
<1>3. Cardinality(Live)' = Cardinality(Live)
  BY <1>1
<1>4. ASSUME NEW i \in 1 .. Cardinality(Live)
      PROVE  At(i)' = At(i)
  <2>1. PICK q : q = At(i)
    OBVIOUS
  <2>2. q \in Live /\ Place(q) = i
    BY <2>1 DEF PlacesOK
  <2>3. q \in Live' /\ Place(q)' = i
    BY <1>1, <1>2, <2>2
  <2> QED BY <2>1, <2>3 DEF PlacesOK
<1> QED BY <1>3, <1>4

LogOK ==
    /\ Log \in Seq(EntryRecord) /\ Len(Log) = Cardinality(Live)
    /\ \A i \in 1 .. Cardinality(Live) : Log[i] = entry[At(i)]
    /\ PlacesOK

\* The log is a sequence with one record per entry of the ring.
LEMMA LogFacts == RingInv => LogOK
<1> SUFFICES ASSUME RingInv PROVE LogOK
  OBVIOUS
<1> DEFINE n == Cardinality(Live)
<1>1. PlacesOK
  BY PlaceFacts
<1>2. \A i \in 1 .. n : entry[At(i)] \in EntryRecord
  BY <1>1 DEF PlacesOK, RingInv, TypeOK, Live
<1>3. Log \in [1 .. n -> EntryRecord] /\ \A i \in 1 .. n : Log[i] = entry[At(i)]
  BY <1>2 DEF Log
<1>4. n \in Nat
  BY <1>1 DEF PlacesOK
<1> HIDE DEF n
<1>5. Log \in Seq(EntryRecord)
  BY <1>3, <1>4, SeqDef
<1>6. DOMAIN Log = 1 .. n /\ DOMAIN Log = 1 .. Len(Log) /\ Len(Log) \in Nat
  BY <1>3, <1>5, LenProperties
<1>7. \A a, b \in Nat : 1 .. a = 1 .. b => a = b
  <2> SUFFICES ASSUME NEW a \in Nat, NEW b \in Nat, 1 .. a = 1 .. b PROVE a = b
    OBVIOUS
  <2>1. a # 0 => a \in 1 .. b
    OBVIOUS
  <2>2. b # 0 => b \in 1 .. a
    OBVIOUS
  <2> QED BY <2>1, <2>2
<1>8. Len(Log) = n
  BY <1>4, <1>6, <1>7
<1> QED BY <1>1, <1>3, <1>5, <1>8 DEF LogOK, n

\* The old part of the ring reaches within an entry of the end of the memory.
OldReachesEnd == oldest # unused => unused + LargestEntry > Size

\* The bound on entries holds for the one that is to be written.
LEMMA PendingFits ==
    ASSUME RingInv, AllShort, pending # NoSet
    PROVE  EntryLen(pending.key, pending.data) <= LargestEntry
<1>1. pending.key \in Keys /\ pending.data \in Data /\ Short(pending.key, pending.data)
  BY PendingLen DEF RingInv, SetRecord, AllShort
<1>2. Cacheable(pending.key, pending.data, 1)
  BY <1>1 DEF Short, Cacheable
<1> QED BY <1>1, <1>2, LargestAssumption

\* A turn of the ring happens only when the next entry does not fit behind writer.
LEMMA NextOldReachesEnd == RingInv /\ AllShort /\ OldReachesEnd /\ [Next]_vars => OldReachesEnd'
<1> SUFFICES ASSUME RingInv, AllShort, OldReachesEnd, [Next]_vars PROVE OldReachesEnd'
  OBVIOUS
<1>1. CASE WrapAround
  <2>1. /\ EntryLen(pending.key, pending.data) <= LargestEntry
        /\ EntryLen(pending.key, pending.data) \in Nat
    BY <1>1, PendingLen, PendingFits DEF WrapAround, RingInv
  <2>2. writer + EntryLen(pending.key, pending.data) > Size /\ unused' = writer
    BY <1>1 DEF WrapAround, Full, RingInv, RingOK
  <2> QED BY <2>1, <2>2, HSizeBounds, LargestAssumption DEF OldReachesEnd, RingInv, TypeOK
<1>2. CASE EvictOldest
  BY <1>2, HSizeBounds DEF EvictOldest, OldReachesEnd
<1>3. CASE Write \/ UNCHANGED <<writer, oldest, unused, link, entry>>
  BY <1>3 DEF Write, OldReachesEnd
<1> QED BY <1>1, <1>2, <1>3, RingSteps

FifoInv == RingInv /\ OneCall /\ Apart /\ Chains /\ AllShort /\ Walk /\ GetIsNewest /\ OldReachesEnd /\ LogOK

\* The invariant that the refinement needs.
LEMMA CacheFifoInv == Spec => []FifoInv
<1>1. Init => OldReachesEnd
  BY DEF Init, OldReachesEnd
<1>2. RingInv /\ AllShort /\ OldReachesEnd /\ [Next]_vars => OldReachesEnd'
  BY NextOldReachesEnd
<1> QED BY <1>1, <1>2, LogFacts, CacheWalk, CacheGetIsNewest, PTL DEF Spec, FifoInv

\* An empty ring is an empty log.
LEMMA InitFifo == Init /\ FifoInv => Fifo!Init
<1> SUFFICES ASSUME Init, FifoInv PROVE Fifo!Init
  OBVIOUS
<1>1. Live = {}
  BY DEF Init, Live
<1>2. Len(Log) = 0 /\ Log \in Seq(EntryRecord)
  BY <1>1, FS_EmptySet DEF FifoInv, LogOK
<1>3. Log = <<>>
  BY <1>2, EmptySeq
<1>4. Used = 0
  BY HSizeBounds DEF Init, Used
<1> QED BY <1>3, <1>4 DEF Init, Fifo!Init

\* An eviction drops the first record of the log, and only for want of space.
LEMMA EvictFifo ==
    ASSUME FifoInv, FifoInv', EvictOldest
    PROVE  Fifo!Evict
<1> DEFINE plen == EntryLen(pending.key, pending.data)
           next == oldest + LenAt(oldest)
<1>1. /\ Cardinality(Live) >= 1 /\ Cardinality(Live)' = Cardinality(Live) - 1
      /\ At(1) = oldest
      /\ \A i \in 1 .. Cardinality(Live) - 1 : At(i)' = At(i + 1)
  BY EvictPlaces DEF FifoInv, LogOK
<1>2. /\ pending # NoSet /\ oldest # unused /\ writer + plen > oldest
      /\ UNCHANGED <<writer, entry, pending, now>> /\ got' = NoGet
  BY DEF EvictOldest, Full
<1>3. /\ Log \in Seq(EntryRecord) /\ Len(Log) = Cardinality(Live)
      /\ \A i \in 1 .. Cardinality(Live) : Log[i] = entry[At(i)]
      /\ Cardinality(Live) \in Nat
  BY DEF FifoInv, LogOK, PlacesOK
<1>4. /\ Log' \in Seq(EntryRecord) /\ Len(Log') = Cardinality(Live)'
      /\ \A i \in 1 .. Cardinality(Live)' : Log'[i] = entry'[At(i)']
  BY DEF FifoInv, LogOK
<1>5. Log # <<>> /\ Log[1] = entry[oldest]
  BY <1>1, <1>3, EmptySeq
<1>6. Log' = Tail(Log)
  <2>1. /\ Tail(Log) \in Seq(EntryRecord) /\ Len(Tail(Log)) = Len(Log) - 1
        /\ \A i \in 1 .. Len(Tail(Log)) : Tail(Log)[i] = Log[i + 1]
    BY <1>3, <1>5, HeadTailProperties
  <2>2. Len(Log') = Len(Tail(Log))
    BY <1>1, <1>3, <1>4, <2>1
  <2>3. ASSUME NEW i \in 1 .. Len(Log')
        PROVE  Log'[i] = Tail(Log)[i]
    <3>1. i \in 1 .. Cardinality(Live) - 1 /\ i + 1 \in 1 .. Cardinality(Live)
      BY <1>1, <1>3, <1>4
    <3>2. Log'[i] = entry[At(i + 1)]
      BY <1>1, <1>2, <1>4, <3>1
    <3>3. Tail(Log)[i] = Log[i + 1]
      BY <2>1, <2>2
    <3> QED BY <1>3, <3>1, <3>2, <3>3
  <2> QED BY <1>4, <2>1, <2>2, <2>3, SeqEqual
<1>7. LenAt(oldest) = EntryLen(Log[1].key, Log[1].data)
  BY <1>5 DEF LenAt
<1>8. oldest \in DOMAIN entry /\ LenAt(oldest) \in Nat /\ plen \in Nat
  BY <1>2, LenAtPositive, PendingLen DEF FifoInv, RingInv, RingOK, Tiled
<1>9. Used' = Used - LenAt(oldest)
  <2>1. unused' - oldest' = (unused - oldest) - LenAt(oldest)
    <3>1. CASE next = unused
      BY <1>8, <3>1, HSizeBounds DEF EvictOldest, FifoInv, RingInv, TypeOK
    <3>2. CASE next # unused
      BY <1>8, <3>2 DEF EvictOldest, FifoInv, RingInv, TypeOK
    <3> QED BY <3>1, <3>2
  <2>2. writer \in Nat /\ oldest \in Nat /\ unused \in Nat /\ oldest' \in Nat /\ unused' \in Nat
    BY DEF FifoInv, RingInv, TypeOK
  <2> QED BY <1>2, <1>8, <2>1, <2>2, HSizeBounds DEF Used
<1>10. Used + plen + LargestEntry > Size - HSize
  <2>1. writer \in Nat /\ oldest \in Nat /\ unused \in Nat /\ unused + LargestEntry > Size
    BY <1>2 DEF FifoInv, RingInv, TypeOK, OldReachesEnd
  <2> QED BY <1>2, <1>8, <2>1, HSizeBounds, LargestAssumption DEF Used
<1> QED BY <1>2, <1>5, <1>6, <1>7, <1>9, <1>10 DEF Fifo!Evict, Fifo!PendingLen

\* A write appends a record to the log, within the capacity.
LEMMA WriteFifo ==
    ASSUME FifoInv, FifoInv', Write
    PROVE  Fifo!Store
<1> DEFINE plen == EntryLen(pending.key, pending.data)
           new == [key |-> pending.key, data |-> pending.data,
                   expire |-> now + Smaller(pending.ttl, MaxTTL)]
           n == Cardinality(Live)
<1>1. /\ n' = n + 1
      /\ \A i \in 1 .. n : At(i)' = At(i) /\ At(i) \in Live
      /\ \A i : i = n + 1 => At(i)' = writer
  BY WritePlaces DEF FifoInv, LogOK, PlacesOK
<1>2. /\ pending # NoSet /\ ~(writer + plen > oldest) /\ writer' = writer + plen
      /\ UNCHANGED <<oldest, unused, now>> /\ got' = NoGet /\ pending' = NoSet
      /\ entry'[writer] = new
  BY DEF Write, Full
<1>3. /\ Log \in Seq(EntryRecord) /\ Len(Log) = n
      /\ \A i \in 1 .. n : Log[i] = entry[At(i)]
      /\ n \in Nat
  BY DEF FifoInv, LogOK, PlacesOK
<1>4. /\ Log' \in Seq(EntryRecord) /\ Len(Log') = n'
      /\ \A i \in 1 .. n' : Log'[i] = entry'[At(i)']
  BY DEF FifoInv, LogOK
<1>5. \A q \in Live : entry'[q] = entry[q]
  BY WriteLive DEF FifoInv
<1>6. plen \in Nat /\ new \in EntryRecord
  <2>1. pending \in SetRecord /\ plen \in Nat
    BY <1>2, PendingLen DEF FifoInv, RingInv
  <2>2. now \in Nat /\ pending.ttl \in Nat /\ pending.key \in Keys /\ pending.data \in Data
    BY <2>1, TimesAssumption DEF FifoInv, RingInv, TypeOK, SetRecord
  <2>3. Smaller(pending.ttl, MaxTTL) \in Nat
    BY <2>2, TimesAssumption DEF Smaller
  <2> QED BY <2>1, <2>2, <2>3 DEF EntryRecord
<1> HIDE DEF new, n, plen
<1>7. Log' = Append(Log, new)
  <2>1. /\ Append(Log, new) \in Seq(EntryRecord) /\ Len(Append(Log, new)) = n + 1
        /\ \A i \in 1 .. n : Append(Log, new)[i] = Log[i]
        /\ Append(Log, new)[n + 1] = new
    BY <1>3, <1>6
  <2>2. ASSUME NEW i \in 1 .. n + 1
        PROVE  Log'[i] = Append(Log, new)[i]
    <3>1. CASE i = n + 1
      BY <1>1, <1>2, <1>3, <1>4, <2>1, <3>1
    <3>2. CASE i # n + 1
      <4>1. i \in 1 .. n
        BY <1>3, <3>2
      <4>2. Log'[i] = entry'[At(i)]
        BY <1>1, <1>3, <1>4, <4>1
      <4> QED BY <1>1, <1>3, <1>5, <2>1, <4>1, <4>2
    <3> QED BY <3>1, <3>2
  <2> QED BY <1>1, <1>3, <1>4, <2>1, <2>2, SeqEqual
<1>8. writer \in Nat /\ oldest \in Nat /\ unused \in Nat /\ unused <= Size
  BY DEF FifoInv, RingInv, TypeOK, RingOK
<1>9. Used' = Used + plen
  BY <1>2, <1>6, <1>8, HSizeBounds DEF Used
<1>10. Used + plen <= Size - HSize
  BY <1>2, <1>6, <1>8, HSizeBounds DEF Used
<1>11. Fifo!PendingLen = plen
  BY DEF Fifo!PendingLen, plen
<1>12. Log' = Append(Log, [key |-> pending.key, data |-> pending.data,
                           expire |-> now + Fifo!Smaller(pending.ttl, MaxTTL)])
  BY <1>7 DEF new, Smaller, Fifo!Smaller
<1> QED BY <1>2, <1>9, <1>10, <1>11, <1>12 DEF Fifo!Store

\* Turning the ring is not seen, nor is a step that leaves it alone.
LEMMA SameLog ==
    ASSUME FifoInv, FifoInv', WrapAround \/ UNCHANGED <<writer, oldest, unused, entry>>
    PROVE  UNCHANGED <<Log, Used>>
<1> DEFINE n == Cardinality(Live)
<1>1. n' = n /\ \A i \in 1 .. n : At(i)' = At(i)
  BY SamePlaces DEF FifoInv, LogOK
<1>2. entry' = entry
  BY DEF WrapAround
<1>3. /\ Log \in Seq(EntryRecord) /\ Len(Log) = n
      /\ \A i \in 1 .. n : Log[i] = entry[At(i)]
  BY DEF FifoInv, LogOK
<1>4. /\ Log' \in Seq(EntryRecord) /\ Len(Log') = n'
      /\ \A i \in 1 .. n' : Log'[i] = entry'[At(i)']
  BY DEF FifoInv, LogOK
<1> HIDE DEF n
<1>5. Log' = Log
  <2>1. \A i \in 1 .. Len(Log) : Log'[i] = Log[i]
    BY <1>1, <1>2, <1>3, <1>4
  <2> QED BY <1>1, <1>3, <1>4, <2>1, SeqEqual
<1>6. Used' = Used
  <2>1. CASE WrapAround
    <3>1. /\ oldest = unused /\ unused' = writer /\ oldest' = HSize /\ writer' = HSize
          /\ writer \in Nat /\ oldest \in Nat
      BY <2>1 DEF WrapAround, FifoInv, RingInv, TypeOK
    <3> QED BY <3>1, HSizeBounds DEF Used
  <2>2. CASE UNCHANGED <<writer, oldest, unused, entry>>
    BY <2>2 DEF Used
  <2> QED BY <2>1, <2>2
<1> QED BY <1>5, <1>6

\* An entry hides as many entries of its chain in the ring as in the log.
LEMMA SameHidden ==
    ASSUME FifoInv, NEW p \in Live
    PROVE  Cardinality(Fifo!After(entry[p].key, Place(p))) = Cardinality(Later(p))
<1> DEFINE S == Later(p)
           T == Fifo!After(entry[p].key, Place(p))
           f == [q \in S |-> Place(q)]
           n == Cardinality(Live)
<1>1. /\ n \in Nat /\ \A q \in Live : Place(q) \in 1 .. n
      /\ \A q, r \in Live : Age(q) < Age(r) <=> Place(q) < Place(r)
      /\ \A i \in 1 .. n : At(i) \in Live /\ Place(At(i)) = i /\ Log[i] = entry[At(i)]
      /\ \A q \in Live : At(Place(q)) = q
      /\ DOMAIN Log = 1 .. n
  BY LenProperties DEF FifoInv, LogOK, PlacesOK
<1>2. S \subseteq Live /\ \A q \in Live : q \in S <=> hash(entry[q].key) = hash(entry[p].key) /\ Age(q) > Age(p)
  BY DEF Later, Bucket
<1>3. \A i : i \in T <=> i \in 1 .. n /\ i > Place(p) /\ hash(Log[i].key) = hash(entry[p].key)
  BY <1>1 DEF Fifo!After
<1>4. \A q \in Live : Age(q) \in Nat
  BY Places, HSizeBounds DEF FifoInv, RingInv
<1>5. ASSUME NEW q \in S
      PROVE  Place(q) \in T
  BY <1>1, <1>2, <1>3, <1>4
<1>6. ASSUME NEW i \in T
      PROVE  At(i) \in S /\ Place(At(i)) = i
  BY <1>1, <1>2, <1>3, <1>4
<1> HIDE DEF S, T, n
<1>7. f \in Bijection(S, T)
  <2>1. f \in Injection(S, T)
    BY <1>1, <1>2, <1>5 DEF Injection, IsInjective
  <2>2. f \in Surjection(S, T)
    BY <1>5, <1>6 DEF Surjection
  <2> QED BY <2>1, <2>2 DEF Bijection
<1>8. IsFiniteSet(S)
  BY <1>2, LiveFinite DEF FifoInv, RingInv
<1> HIDE DEF f
<1>9. ExistsBijection(S, T)
  BY <1>7 DEF ExistsBijection
<1>10. Cardinality(T) = Cardinality(S)
  BY <1>8, <1>9, FS_Bijection
<1> QED BY <1>10 DEF S, T

\* CacheFifo counts as this module does.
LEMMA SameCount == \A S : Fifo!Cardinality(S) = Cardinality(S)
BY Zenon DEF Fifo!Cardinality, Cardinality

\* An answer of cache_get is one of the log.
LEMMA AnswerFifo ==
    ASSUME FifoInv, NEW k \in Keys, NEW answer, IsAnswer(k, answer),
           pending = NoSet, UNCHANGED <<Log, Used, pending, now>>,
           got' = [key |-> k, answer |-> answer]
    PROVE  Fifo!Get(k)
<1> DEFINE n == Cardinality(Live)
<1>1. /\ n \in Nat /\ \A q \in Live : Place(q) \in 1 .. n
      /\ \A q, r \in Live : Age(q) < Age(r) <=> Place(q) < Place(r)
      /\ \A i \in 1 .. n : At(i) \in Live /\ Place(At(i)) = i /\ Log[i] = entry[At(i)]
      /\ \A q \in Live : At(Place(q)) = q
      /\ DOMAIN Log = 1 .. n
  BY LenProperties DEF FifoInv, LogOK, PlacesOK
<1>2. \A i : i \in Fifo!Mine(k) <=> i \in 1 .. n /\ Log[i].key = k
  BY <1>1 DEF Fifo!Mine
<1>3. \A q : q \in Mine(k) <=> q \in Live /\ entry[q].key = k
  BY DEF Mine
<1> HIDE DEF n
<1>4. CASE Mine(k) = {}
  <2>1. Fifo!Mine(k) = {}
    BY <1>1, <1>2, <1>3, <1>4
  <2>2. answer = Miss
    BY <1>4 DEF IsAnswer
  <2> QED BY <2>1, <2>2 DEF Fifo!Get
<1>5. CASE Mine(k) # {}
  <2>1. PICK p \in Mine(k) :
           /\ IsNewest(p, Mine(k))
           /\ answer =
                IF Cardinality(Later(p)) > MaxChain \/ entry[p].expire < now THEN Miss
                ELSE [data |-> entry[p].data, ttl |-> Smaller(entry[p].expire - now, MaxTTL)]
    BY <1>5 DEF IsAnswer
  <2>2. p \in Live /\ entry[p].key = k
    BY <1>3
  <2>3. PICK i : i = Place(p)
    OBVIOUS
  <2>4. i \in Fifo!Mine(k) /\ Log[i] = entry[p]
    BY <1>1, <1>2, <2>2, <2>3
  <2>5. ASSUME NEW j \in Fifo!Mine(k)
        PROVE  j <= i
    <3>1. j \in 1 .. n /\ At(j) \in Mine(k) /\ At(j) \in Live /\ Place(At(j)) = j
      BY <1>1, <1>2, <1>3
    <3>2. Age(At(j)) <= Age(p)
      BY <2>1, <3>1 DEF IsNewest
    <3>3. \A q \in Live : Age(q) \in Nat
      BY Places, HSizeBounds DEF FifoInv, RingInv
    <3>4. ~(Age(p) < Age(At(j)))
      BY <2>2, <3>1, <3>2, <3>3
    <3> QED BY <1>1, <2>2, <2>3, <3>1, <3>4
  <2>6. Cardinality(Fifo!After(k, i)) = Cardinality(Later(p))
    BY <2>2, <2>3, SameHidden
  <2>7. answer = Fifo!Answer(k, i)
    BY <2>1, <2>4, <2>6, SameCount DEF Fifo!Answer, Smaller, Fifo!Smaller
  <2> QED BY <2>4, <2>5, <2>7 DEF Fifo!Get
<1> QED BY <1>4, <1>5

\* Every step is one of the log or is not seen there.
LEMMA StepFifo == FifoInv /\ FifoInv' /\ [Next]_vars => [Fifo!Next]_Fifo!vars
<1> SUFFICES ASSUME FifoInv, FifoInv', [Next]_vars
             PROVE  Fifo!Next \/ UNCHANGED Fifo!vars
  OBVIOUS
<1>1. ASSUME NEW k \in Keys, NEW d \in Data, NEW t \in TTLs, SetCall(k, d, t)
      PROVE  Fifo!Next
  <2>1. UNCHANGED <<Log, Used>>
    BY <1>1, SameLog DEF SetCall, ring
  <2>2. Fifo!Call(k, d, t)
    BY <1>1, <2>1 DEF SetCall, Fifo!Call
  <2> QED BY <2>2 DEF Fifo!Next
<1>2. CASE EvictOldest
  BY <1>2, EvictFifo DEF Fifo!Next
<1>3. CASE Write
  BY <1>3, WriteFifo DEF Fifo!Next
<1>4. CASE TooBig
  <2>1. UNCHANGED <<Log, Used>>
    BY <1>4, SameLog DEF TooBig, ring
  <2>2. EntryLen(pending.key, pending.data) > Size - HSize
    <3>1. EntryLen(pending.key, pending.data) \in Nat
      BY <1>4, PendingLen DEF TooBig, FifoInv, RingInv
    <3>2. oldest = Size /\ writer = HSize
      BY <1>4, HSizeBounds DEF TooBig, FifoInv, RingInv, TypeOK, RingOK
    <3> QED BY <1>4, <3>1, <3>2, HSizeBounds DEF TooBig, Full
  <2>3. Fifo!Refuse
    BY <1>4, <2>1, <2>2 DEF TooBig, Fifo!Refuse, Fifo!PendingLen
  <2> QED BY <2>3 DEF Fifo!Next
<1>5. CASE WrapAround \/ GetNext \/ \E k \in Keys : GetCall(k)
  <2>1. UNCHANGED <<Log, Used>>
    BY <1>5, SameLog DEF GetNext, GetCall, ring
  <2>2. Fifo!Rest
    BY <1>5, <2>1 DEF WrapAround, GetNext, GetCall, Fifo!Rest
  <2> QED BY <2>2 DEF Fifo!Next
<1>6. CASE GetFound \/ GetGivesUp \/ GetNothing
  <2>1. PICK k, answer :
          /\ k = get.key /\ IsAnswer(k, answer) /\ got' = [key |-> k, answer |-> answer]
          /\ get # NoGet
    <3>1. CASE GetFound
      BY <3>1, FoundRight DEF GetFound, Return, AtKey, FifoInv
    <3>2. CASE GetGivesUp
      BY <3>2, GivesUpRight DEF GetGivesUp, Return, Passing, FifoInv
    <3>3. CASE GetNothing
      <4>1. IsAnswer(get.key, Miss)
        BY <3>3 DEF GetNothing, FifoInv, Walk, WalkAt, IsAnswer
      <4> QED BY <3>3, <4>1 DEF GetNothing, Return
    <3> QED BY <1>6, <3>1, <3>2, <3>3
  <2>2. k \in Keys /\ pending = NoSet
    BY <2>1 DEF FifoInv, RingInv, TypeOK, Walk
  <2>3. UNCHANGED <<writer, oldest, unused, link, entry, pending, now>>
    BY <1>6 DEF GetFound, GetGivesUp, GetNothing, Return, ring
  <2>4. UNCHANGED <<Log, Used>>
    BY <2>3, SameLog
  <2>5. Fifo!Get(k)
    BY <2>1, <2>2, <2>3, <2>4, AnswerFifo
  <2> QED BY <2>2, <2>5 DEF Fifo!Next
<1>7. CASE Tick
  <2>1. UNCHANGED <<Log, Used>>
    BY <1>7, SameLog DEF Tick, ring
  <2>2. Fifo!Tick
    BY <1>7, <2>1 DEF Tick, Fifo!Tick
  <2> QED BY <2>2 DEF Fifo!Next
<1>8. CASE UNCHANGED vars
  <2>1. UNCHANGED <<Log, Used>>
    BY <1>8, SameLog DEF vars, ring
  <2> QED BY <1>8, <2>1 DEF vars, Fifo!vars
<1> QED BY <1>1, <1>2, <1>3, <1>4, <1>5, <1>6, <1>7, <1>8 DEF Next, SetStep, GetStep

\* The ring and its chains implement the log.
THEOREM CacheImplementsFifo == Spec => FifoSpec
<1>1. Init /\ FifoInv => Fifo!Init
  BY InitFifo
<1>2. FifoInv /\ FifoInv' /\ [Next]_vars => [Fifo!Next]_Fifo!vars
  BY StepFifo
<1> QED BY <1>1, <1>2, CacheFifoInv, PTL DEF Spec, FifoSpec, Fifo!Spec
============================================================================

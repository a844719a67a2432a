-------------------------- MODULE CacheRefinement --------------------------
(***************************************************************************)
(* The ring and the chains of Cache read as what they stand for: a log of  *)
(* entries, oldest first, and per bucket the list of its entries, newest   *)
(* first.  Cache implements CacheFifo under that reading.                  *)
(***************************************************************************)
EXTENDS Cache, Sequences

CONSTANT LargestEntry   \* no entry that is stored is larger

ASSUME LargestAssumption ==
    /\ LargestEntry \in Nat
    /\ \A k \in Keys, d \in Data : Cacheable(k, d, 1) => EntryLen(k, d) <= LargestEntry

\* The part [HSize, writer) of the ring is newer than the part behind it, and
\* in each the right end is.
Age(p) == IF p < writer THEN Size + p ELSE p

\* The entries of a chain, and those of the chain of an entry that are newer
\* and older.
Bucket(h) == {p \in Live : hash(entry[p].key) = h}
Later(p) == {q \in Bucket(hash(entry[p].key)) : Age(q) > Age(p)}
Earlier(p) == {q \in Bucket(hash(entry[p].key)) : Age(q) < Age(p)}

\* p is the newest of S, or 0 if there is none.
IsNewest(p, S) == IF S = {} THEN p = 0 ELSE p \in S /\ \A q \in S : Age(q) <= Age(p)

\* n comes before the entry p in its chain: an entry, or the head.
IsBefore(n, p) ==
    IF Later(p) = {} THEN n = hash(entry[p].key)
                     ELSE n \in Later(p) /\ \A q \in Later(p) : Age(n) <= Age(q)

\* cache.c:25-41, :152-153, :169-179: each chain lists exactly the entries of
\* its bucket that are in the ring, newest first, through every insertion at
\* the head, removal at the tail and reuse of the memory of entries that were
\* dropped.
ChainsOK ==
    /\ \A h \in Heads : IsNewest(link[h], Bucket(h))
    /\ \A p \in Live :
         \E n \in Heads \cup Live, o \in Live \cup {0} :
           IsBefore(n, p) /\ IsNewest(o, Earlier(p)) /\ link[p] = BitXor(n, o)

\* The place of an entry in the log, and the entry at a place.
Place(p) == Cardinality({q \in Live : Age(q) <= Age(p)})
At(i) == CHOOSE p \in Live : Place(p) = i

Log == [i \in 1 .. Cardinality(Live) |-> entry[At(i)]]
Used == (writer - HSize) + (unused - oldest)

Fifo == INSTANCE CacheFifo WITH log <- Log, used <- Used, Capacity <- Size - HSize

\* The ring drops entries oldest first, only for want of space, keeps within
\* its capacity, refuses only an entry larger than the whole cache, and answers
\* with the newest entry of the key, if any.
FifoSpec == Fifo!Spec

Mine(k) == {p \in Live : entry[p].key = k}

\* What cache_get may answer: what is stored under the key, unless it has
\* expired, or MaxChain newer entries of its chain hide it.
IsAnswer(k, answer) ==
    IF Mine(k) = {} THEN answer = Miss
    ELSE \E p \in Mine(k) :
           /\ IsNewest(p, Mine(k))
           /\ answer =
                IF Cardinality(Later(p)) > MaxChain \/ entry[p].expire < now THEN Miss
                ELSE [data |-> entry[p].data, ttl |-> Smaller(entry[p].expire - now, MaxTTL)]

\* cache.c:94-122: cache_get answers with the newest entry of the key that
\* cache_set stored and did not yet drop, not with an older one, an expired one
\* or one of another key of the bucket; the only further misses are behind
\* MaxChain newer entries of the bucket (line 121).
GetIsNewest == got # NoGet => IsAnswer(got.key, got.answer)
============================================================================

---------------------------- MODULE CacheFifo ----------------------------
(***************************************************************************)
(* What the record cache of dnscache promises to its callers, with the     *)
(* ring buffer and the hash chains of cache.c left out: a log of entries,  *)
(* oldest first, that holds at most Capacity bytes.  Storing an entry may  *)
(* drop entries, only from the old end and only when space is short; a     *)
(* lookup sees the newest entry of its key or nothing.                     *)
(***************************************************************************)
EXTENDS Integers, Sequences, FiniteSets

CONSTANTS
    Keys, Data,           \* what callers store, and under which name
    EntryLen(_, _),       \* bytes an entry <<key, data>> occupies
    LargestEntry,         \* no entry that callers store is larger
    Capacity,             \* bytes for entries
    hash(_),              \* keys that collide
    MaxChain,             \* newer entries that collide and do not hide an entry
    MaxTTL,               \* lifetimes are cut to this
    TTLs,                 \* lifetimes callers ask for
    Times,                \* readings of the clock
    NoSet, NoGet, Miss    \* no store in progress; no answer, or nothing found

VARIABLES
    log,                  \* the entries, oldest first
    used,                 \* bytes they occupy
    pending,              \* the store in progress, or NoSet
    got,                  \* the answer, if the last step was a lookup
    now                   \* the clock

vars == <<log, used, pending, got, now>>

Smaller(a, b) == IF a < b THEN a ELSE b

PendingLen == EntryLen(pending.key, pending.data)

Init == log = <<>> /\ used = 0 /\ pending = NoSet /\ got = NoGet /\ now \in Times

Call(k, d, t) ==
    /\ pending = NoSet
    /\ pending' = [key |-> k, data |-> d, ttl |-> t]
    /\ got' = NoGet /\ UNCHANGED <<log, used, now>>

\* An entry is lost only when the new one would not fit beside what is kept,
\* give or take the one gap a ring of unequal entries leaves at its end.
Evict ==
    /\ pending # NoSet
    /\ log # <<>>
    /\ used + PendingLen + LargestEntry > Capacity
    /\ log' = Tail(log) /\ used' = used - EntryLen(log[1].key, log[1].data)
    /\ got' = NoGet /\ UNCHANGED <<pending, now>>

Store ==
    /\ pending # NoSet
    /\ used + PendingLen <= Capacity
    /\ log' = Append(log, [key |-> pending.key, data |-> pending.data,
                           expire |-> now + Smaller(pending.ttl, MaxTTL)])
    /\ used' = used + PendingLen
    /\ pending' = NoSet
    /\ got' = NoGet /\ UNCHANGED now

\* Only an entry larger than the whole cache is refused.
Refuse ==
    /\ pending # NoSet
    /\ PendingLen > Capacity
    /\ pending' = NoSet
    /\ got' = NoGet /\ UNCHANGED <<log, used, now>>

\* The places of the entries of a key, and of those that collide with it and
\* came after the place i.
Mine(k) == {i \in DOMAIN log : log[i].key = k}
After(k, i) == {j \in DOMAIN log : j > i /\ hash(log[j].key) = hash(k)}

\* The newest entry of the key at i, unless it has expired or too many others
\* hide it.
Answer(k, i) ==
    IF Cardinality(After(k, i)) > MaxChain \/ log[i].expire < now THEN Miss
    ELSE [data |-> log[i].data, ttl |-> Smaller(log[i].expire - now, MaxTTL)]

Get(k) ==
    /\ pending = NoSet
    /\ \/ Mine(k) = {} /\ got' = [key |-> k, answer |-> Miss]
       \/ \E i \in Mine(k) :
            /\ \A j \in Mine(k) : j <= i
            /\ got' = [key |-> k, answer |-> Answer(k, i)]
    /\ UNCHANGED <<log, used, pending, now>>

\* Something else is done before the next call.
Rest == got' = NoGet /\ UNCHANGED <<log, used, pending, now>>

Tick == now' \in Times /\ got' = NoGet /\ UNCHANGED <<log, used, pending>>

Next ==
    \/ \E k \in Keys, d \in Data, t \in TTLs : Call(k, d, t)
    \/ \E k \in Keys : Get(k)
    \/ Evict \/ Store \/ Refuse \/ Rest \/ Tick

Spec == Init /\ [][Next]_vars
==========================================================================

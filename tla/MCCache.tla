------------------------------ MODULE MCCache ------------------------------
(* A small block of memory with two chains: up to four entries fit, two
   of three keys share a chain, and one content fits under a short name only. *)
EXTENDS CacheRefinement

CONSTANTS k1, k2, k3, short, long, huge

MCKeyLen == [k \in Keys |-> IF k = k3 THEN 12 ELSE 4]
MCDataLen == [d \in Data |-> CASE d = short -> 8 [] d = long -> 24 [] d = huge -> 104]
MCRawHash == [k \in Keys |-> CASE k = k1 -> 4 [] k = k2 -> 6 [] k = k3 -> 7]

XorTable[a, b \in 0 .. 1023] ==
    IF a = 0 THEN b ELSE IF b = 0 THEN a
    ELSE (2 * XorTable[a \div 2, b \div 2]) + ((a + b) % 2)
MCXor(a, b) == XorTable[a, b]
============================================================================

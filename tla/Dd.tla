--------------------------------- MODULE Dd ---------------------------------
(***************************************************************************)
(* dd.c: the numbers in front of a base name.  A name is a sequence of     *)
(* labels; the labels in Digits are the decimal numbers below 256 without  *)
(* a zero in front.                                                        *)
(***************************************************************************)
EXTENDS Integers, Sequences, SequencesExt

CONSTANTS
  Octets,      \* numbers in an address, 4
  Digits       \* labels that are numbers

(* How many numbers stand before the base: at most one element.            *)
Numbers(q, base) ==
  {j \in 0..Octets : /\ j + Len(base) = Len(q)
                     /\ SubSeq(q, j + 1, Len(q)) = base
                     /\ \A k \in 1..j : q[k] \in Digits}

dd(q, base) == IF Numbers(q, base) = {} THEN -1 ELSE CHOOSE j \in Numbers(q, base) : TRUE
=============================================================================

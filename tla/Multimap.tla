------------------------------ MODULE Multimap ------------------------------
(***************************************************************************)
(* What a constant database promises, whatever its file looks like: pairs  *)
(* are added, the database is sealed, and a search for a key then gives    *)
(* the data of that key in the order of their addition, one per call, and  *)
(* ends.  A call that fails may skip one datum, as cdb_findnext does.      *)
(***************************************************************************)
EXTENDS Naturals, Sequences

CONSTANTS Key, Datum

VARIABLES
  store,    \* the pairs in the order they were added
  sealed,   \* TRUE when the database is complete
  key,      \* the key searched for, or "none"
  cursor,   \* the place of the pair of key that the search has passed last, or 0
  ret,      \* result of the last call
  datum     \* and the datum it found, or "none"

mvars == <<store, sealed, key, cursor, ret, datum>>

(* The places of the pairs that the search has yet to pass.                *)
Rest == {i \in DOMAIN store : store[i].key = key /\ i > cursor}
First(i) == i \in Rest /\ \A j \in Rest : i <= j

Init ==
  /\ store = <<>> /\ sealed = FALSE
  /\ key = "none" /\ cursor = 0 /\ ret = "none" /\ datum = "none"

Add(k, d) ==
  /\ ~sealed
  /\ store' = Append(store, [key |-> k, data |-> d])
  /\ UNCHANGED <<sealed, key, cursor, ret, datum>>

Seal ==
  /\ ~sealed /\ sealed' = TRUE
  /\ UNCHANGED <<store, key, cursor, ret, datum>>

Start(k) ==
  /\ sealed
  /\ key' = k /\ cursor' = 0 /\ ret' = "none" /\ datum' = "none"
  /\ UNCHANGED <<store, sealed>>

Found ==
  /\ key # "none" /\ Rest # {}
  /\ First(cursor')
  /\ datum' = store[cursor'].data
  /\ ret' = "found"
  /\ UNCHANGED <<store, sealed, key>>

Ended ==
  /\ key # "none" /\ Rest = {}
  /\ ret' = "end" /\ datum' = "none"
  /\ UNCHANGED <<store, sealed, key, cursor>>

Failed ==
  /\ key # "none"
  /\ ret' = "error" /\ datum' = "none"
  /\ cursor' = cursor \/ First(cursor')
  /\ UNCHANGED <<store, sealed, key>>

Next ==
  \/ \E k \in Key, d \in Datum : Add(k, d)
  \/ Seal
  \/ \E k \in Key : Start(k)
  \/ Found \/ Ended \/ Failed

MultimapSpec == Init /\ [][Next]_mvars
=============================================================================

----------------------------- MODULE MCTdLookup -----------------------------
(* A zone z with a name a below it and c below a.  A database is a choice  *)
(* from a list of records that has each kind of neighbour: delegation,     *)
(* wildcards, alias, locations, records that die or start, records that    *)
(* are too long to be read.                                                *)
EXTENDS TdLookup

MCName == {".", "z", "a", "c"}
MCParent == [n \in MCName |-> CASE n = "." -> "none" [] n = "z" -> "." [] n = "a" -> "z" [] n = "c" -> "a"]
MCClient == {"near", "far"}
MCLocKeys == [near |-> <<"10.1", "10">>, far |-> <<"10">>]

Plain(owner, t, target) ==
  [owner |-> owner, type |-> t, target |-> target, wild |-> FALSE, loc |-> "any",
   life |-> "always", at |-> 0, long |-> FALSE]

ZoneNs == Plain("z", "NS", "a")
ZoneSoa == Plain("z", "SOA", "none")
List == <<
  ZoneSoa,
  [Plain("z", "SOA", "none") EXCEPT !.loc = "in"],
  Plain("z", "MX", "c"),
  [Plain("z", "A", "none") EXCEPT !.wild = TRUE],
  [Plain("z", "MX", "a") EXCEPT !.wild = TRUE],
  [Plain("a", "A", "4") EXCEPT !.life = "until", !.at = 4],
  Plain("a", "A", "1"),
  [Plain("a", "TXT", "none") EXCEPT !.long = TRUE],
  Plain("a", "A", "2"),
  [Plain("a", "A", "3") EXCEPT !.loc = "in"],
  Plain("a", "CNAME", "z"),
  Plain("a", "NS", "c"),
  Plain("c", "A", "5"),
  [Plain("a", "TXT", "none") EXCEPT !.wild = TRUE],
  [Plain("c", "TXT", "none") EXCEPT !.long = TRUE]>>

Database(chosen) ==
  [exists |-> TRUE, locs |-> [x \in {"10", "10.1"} |-> IF x = "10" THEN "ex" ELSE "in"],
   records |-> <<ZoneNs>> \o LET picked(r) == \E i \in chosen : List[i] = r
                             IN SelectSeq(List, picked)]

(* Two of them and the SOA, the first; or three of which two are           *)
(* neighbours in the list, without one but for a few.                      *)
MCDatabases == {Database({1, i, j}) : i, j \in DOMAIN List}
               \cup {Database({i, j, j - 1}) : i \in DOMAIN List, j \in DOMAIN List \ {1, 2}}

(* An answer that leaves no room for the authority section.                *)
MCFull ==
  [exists |-> TRUE, locs |-> <<>>,
   records |-> <<ZoneNs, ZoneSoa, Plain("a", "TXT", "1"), Plain("a", "MX", "c"), Plain("a", "TXT", "2"),
                 Plain("a", "A", "1"), Plain("c", "A", "5")>>]
MCBroken == {Database({1, i, j}) : i, j \in DOMAIN List}

Dying(t) == [Plain("a", "TXT", "old") EXCEPT !.life = "until", !.at = t]
Starting(t) == [Plain("a", "TXT", "new") EXCEPT !.life = "from", !.at = t]
MCReload ==
  {NoFile} \cup
  {[exists |-> TRUE, locs |-> <<>>,
    records |-> <<ZoneNs, ZoneSoa, Dying(t), Starting(t), Plain("a", "A", "1")>>] : t \in {2, 4}}
MCReplaced(f) == IF f \in MCReload THEN MCReload ELSE {}
MCAll == MCDatabases \cup {MCFull} \cup MCReload
=============================================================================

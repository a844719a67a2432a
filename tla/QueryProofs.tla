----------------------------- MODULE QueryProofs -----------------------------
(***************************************************************************)
(* Proofs about query.c.  Bailiwick is inductive together with the shape   *)
(* of the levels and with Authority; the zones with servers of their own   *)
(* above a name and above its zone must be the same SETS, of which         *)
(* roots_same only compares the nearest member.  The chain of aliases only *)
(* needs the names on level 0: each step leaves it alone, adds the target  *)
(* of its last name, or ends with it (Links).                              *)
(***************************************************************************)
EXTENDS Query, TLAPS

SameZones == \A l \in InUse : Above[name[l]] \cap RootZones = Above[control[l]] \cap RootZones

Shape == TypeOK /\ LevelsOK /\ Authority /\ SameZones

\* What a step may do to the two variables that every label sets for itself.
Fits(s) == \A x \in s : x.zone \in Above[x.owner] /\ roots_same(x.owner, x.zone)
Counted(n, s) == n \in 0 .. MAXLOOP - 1 /\ s \subseteq [owner : Names, zone : Names]

-----------------------------------------------------------------------------
\* The names above a name, and above its zone, agree on which servers to ask
\* first when the same configured zones are above both.
LEMMA SameRoots ==
    ASSUME NEW m \in Names, NEW n \in Names, Above[m] \cap RootZones = Above[n] \cap RootZones
    PROVE roots_same(m, n)
BY DEF roots_same, RootsOf

LEMMA Joined ==
    ASSUME NEW S, NEW a \in Seq(S), NEW b \in Seq(S)
    PROVE a \o b \in Seq(S) /\ Len(a \o b) = Len(a) + Len(b)
OBVIOUS

\* Taking one server out leaves a list of the others.
LEMMA Removed ==
    ASSUME NEW s \in Seq(Names), NEW i \in 1 .. Len(s), NEW z, \A k \in 1 .. Len(s) : s[k] = z
    PROVE /\ RemoveAt(s, i) \in Seq(Names) /\ Len(RemoveAt(s, i)) = Len(s) - 1
          /\ \A k \in 1 .. Len(RemoveAt(s, i)) : RemoveAt(s, i)[k] = z
<1> DEFINE a == SubSeq(s, 1, i - 1)
           b == SubSeq(s, i + 1, Len(s))
<1>1. a \in Seq(Names) /\ Len(a) = i - 1 /\ \A k \in 1 .. Len(a) : a[k] = s[k]
  OBVIOUS
<1>2. b \in Seq(Names) /\ Len(b) = Len(s) - i /\ \A k \in 1 .. Len(b) : b[k] = s[k + i]
  OBVIOUS
<1>3. RemoveAt(s, i) = a \o b
  BY DEF RemoveAt
<1> HIDE DEF a, b
<1>4. Len(a \o b) = Len(s) - 1 /\ a \o b \in Seq(Names)
  <2>1. Len(a \o b) = Len(a) + Len(b) /\ a \o b \in Seq(Names)
    BY <1>1, <1>2, Joined
  <2>2. Len(s) \in Nat /\ i \in Int
    OBVIOUS
  <2> QED BY <2>1, <2>2, <1>1, <1>2
<1>5. \A k \in 1 .. Len(a \o b) : (a \o b)[k] = z
  <2> TAKE k \in 1 .. Len(a \o b)
  <2>1. (a \o b)[k] = IF k <= Len(a) THEN a[k] ELSE b[k - Len(a)]
    BY <1>1, <1>2, <1>4
  <2>2. k <= Len(a) => a[k] = s[k] /\ k \in 1 .. Len(s)
    BY <1>1, <1>4
  <2>3. ~(k <= Len(a)) => b[k - Len(a)] = s[k - Len(a) + i] /\ k - Len(a) + i \in 1 .. Len(s)
    BY <1>1, <1>2, <1>4
  <2> QED BY <2>1, <2>2, <2>3
<1> QED BY <1>3, <1>4, <1>5

\* The list that AskZone starts with is one of z's servers.
LEMMA OfZone ==
    ASSUME NEW z \in Names, NEW n \in 0 .. MAXADDR
    PROVE LET s == [i \in 1 .. n |-> z] IN
            /\ s \in Seq(Names) /\ Len(s) = n /\ \A k \in DOMAIN s : s[k] = z
BY LimitsAssumption

LEMMA NsOfZone ==
    ASSUME NEW z \in Names, NEW list \in HostLists
    PROVE /\ NsOf(z, list) \in Seq(Slot) /\ Len(NsOf(z, list)) <= MAXNS
          /\ \A k \in DOMAIN NsOf(z, list) : NsOf(z, list)[k].zone = z
<1>1. PICK n \in 0 .. MAXNS : list \in [1 .. n -> Hosts]
  BY DEF HostLists
<1>2. NsOf(z, list) \in [1 .. n -> Slot]
  BY <1>1, NamesAssumption DEF NsOf, Slot
<1>3. NsOf(z, list) \in Seq(Slot) /\ Len(NsOf(z, list)) = n
  BY <1>2, LimitsAssumption
<1> QED BY <1>1, <1>3, LimitsAssumption DEF NsOf

LEMMA LongerList ==
    ASSUME NEW s \in Seq(Names), NEW n \in 0 .. MAXADDR, NEW z \in Names, \A k \in DOMAIN s : s[k] = z
    PROVE LET t == s \o [i \in 1 .. n |-> z] IN
            /\ t \in Seq(Names) /\ Len(t) = Len(s) + n /\ \A k \in DOMAIN t : t[k] = z
<1> DEFINE u == [i \in 1 .. n |-> z]
<1>1. u \in Seq(Names) /\ Len(u) = n /\ \A k \in 1 .. n : u[k] = z
  BY OfZone
<1> HIDE DEF u
<1>2. s \o u \in Seq(Names) /\ Len(s \o u) = Len(s) + n
  BY <1>1, Joined
<1>3. \A k \in 1 .. Len(s) + n : (s \o u)[k] = z
  BY <1>1
<1> QED BY <1>2, <1>3 DEF u

LEMMA TailOf ==
    ASSUME NEW S, NEW s \in Seq(S), s # <<>>
    PROVE /\ Tail(s) \in Seq(S) /\ Len(Tail(s)) = Len(s) - 1
          /\ \A k \in DOMAIN Tail(s) : k + 1 \in DOMAIN s /\ Tail(s)[k] = s[k + 1]
<1>1. Len(s) \in Nat /\ Len(s) > 0
  OBVIOUS
<1>2. Tail(s) \in Seq(S) /\ Len(Tail(s)) = Len(s) - 1
  BY <1>1
<1>3. DOMAIN Tail(s) = 1 .. Len(s) - 1 /\ DOMAIN s = 1 .. Len(s)
  BY <1>1, <1>2
<1>4. \A k \in 1 .. Len(s) - 1 : k + 1 \in 1 .. Len(s) /\ Tail(s)[k] = s[k + 1]
  BY <1>1
<1> QED BY <1>2, <1>3, <1>4

LEMMA rqaNames == ASSUME TypeOK, name[0] \in Names PROVE rqa \in Seq(Names)
<1> DEFINE s == <<name[0]>> \o alias
<1>1. s \in Seq(Names)
  BY DEF TypeOK
<1>2. Reverse(s) = [i \in 1 .. Len(s) |-> s[(Len(s) - i) + 1]]
  BY DEF Reverse
<1> HIDE DEF s
<1>3. Reverse(s) \in Seq(Names)
  BY <1>1, <1>2
<1> QED BY <1>3 DEF rqa, s
-----------------------------------------------------------------------------
\* The common ends of the labels keep the shape.
LEMMA Over ==
    ASSUME Shape, Counted(loop', stored'), Cleanup, pc' = "idle", UNCHANGED <<level, type, question>>,
           reply' \in Seq(Names)
    PROVE Shape'
<1>1. TypeOK'
  BY LimitsAssumption DEF Shape, TypeOK, Counted, Cleanup, NoNames, NoNs, Levels
<1>2. LevelsOK'
  BY LimitsAssumption DEF Shape, TypeOK, LevelsOK, Cleanup, NoNames, NoNs, Levels
<1>3. InUse' = {}
  BY DEF InUse
<1> QED BY <1>1, <1>2, <1>3 DEF Shape, Authority, SameZones

LEMMA AnswerShape ==
    ASSUME Shape, pc # "idle", Counted(loop', stored'), Answer
    PROVE Shape'
<1>1. name[0] \in Names
  BY LimitsAssumption, NamesAssumption DEF Shape, TypeOK, LevelsOK, Answer, Levels
<1>2. reply' \in Seq(Names)
  BY <1>1, rqaNames DEF Answer, Shape
<1> QED BY <1>2, Over DEF Answer

\* A level in use has a name, which has a zone from the level above it on.
LEMMA Named ==
    ASSUME Shape, pc # "idle"
    PROVE /\ level \in Levels /\ level \in Int
          /\ \A l \in 0 .. level : l \in Levels /\ name[l] \in Names
          /\ \A l \in 0 .. level - 1 :
               l \in InUse /\ control[l] \in Names /\ control[l] \in Above[name[l]] /\ serves[l + 1] = control[l]
<1>1. /\ level \in Levels /\ level \in Int
      /\ \A l \in 0 .. level : l \in Levels /\ name[l] \in Names
  BY LimitsAssumption, NamesAssumption DEF Shape, TypeOK, LevelsOK, Levels
<1>2. \A l \in 0 .. level - 1 : l \in InUse
  BY <1>1 DEF InUse, Levels
<1> QED BY <1>1, <1>2, NamesAssumption DEF Shape, Authority

LEMMA AddressesShape ==
    ASSUME Shape, pc # "idle", Counted(loop', stored'), NEW most \in 0 .. MAXADDR, Addresses(most)
    PROVE Shape'
<1> DEFINE m == level - 1
<1>1. PICK n \in 0 .. most :
        /\ Len(servers[m]) + n <= MAXADDR
        /\ servers' = [servers EXCEPT ![m] = @ \o [i \in 1 .. n |-> serves[level]]]
  BY DEF Addresses
<1>2. /\ m \in Levels /\ m \in InUse /\ level \in Levels /\ level > 0 /\ m \in Int
      /\ control[m] \in Names /\ serves[level] = control[m]
      /\ n \in 0 .. MAXADDR
  BY Named, LimitsAssumption DEF Addresses, Levels
<1>3. servers[m] \in Seq(Names) /\ \A k \in DOMAIN servers[m] : servers[m][k] = control[m]
  BY <1>2 DEF Shape, TypeOK, Authority
<1>4. /\ servers'[m] = servers[m] \o [i \in 1 .. n |-> control[m]]
      /\ \A l \in Levels : l # m => servers'[l] = servers[l]
      /\ DOMAIN servers' = Levels
  BY <1>1, <1>2 DEF Shape, TypeOK
<1>5. /\ servers'[m] \in Seq(Names) /\ Len(servers'[m]) = Len(servers[m]) + n
      /\ \A k \in DOMAIN servers'[m] : servers'[m][k] = control[m]
  BY <1>2, <1>3, <1>4, LongerList
<1>6. servers' \in [Levels -> Seq(Names)] /\ \A l \in Levels : Len(servers'[l]) <= MAXADDR
  <2>1. \A l \in Levels : servers'[l] \in Seq(Names) /\ Len(servers'[l]) <= MAXADDR
    BY <1>1, <1>4, <1>5 DEF Shape, TypeOK
  <2>2. servers' = [l \in Levels |-> servers'[l]]
    BY <1>1, <1>4 DEF Shape, TypeOK
  <2> QED BY <2>1, <2>2
<1>7. TypeOK'
  BY <1>6 DEF Shape, TypeOK, Counted, Addresses
<1>8. LevelsOK'
  BY DEF Shape, TypeOK, LevelsOK, Addresses
<1>9. InUse' \subseteq InUse
  BY DEF InUse, Addresses
<1>10. Authority'
  BY <1>4, <1>5, <1>9 DEF Shape, Authority, Addresses, roots_same, RootsOf, InUse
<1>11. SameZones'
  BY <1>9 DEF Shape, SameZones, Addresses
<1> QED BY <1>7, <1>8, <1>10, <1>11 DEF Shape
-----------------------------------------------------------------------------
LEMMA CNAMEShape ==
    ASSUME Shape, pc \in {"NEWNAME", "sent"}, Counted(loop', stored'), CNAME
    PROVE Shape'
<1>1. PICK target \in CnameOf[name[level]] : name' = [name EXCEPT ![level] = target]
  BY DEF CNAME
<1>2. /\ level \in Levels /\ level \in Int /\ name[level] \in Names /\ pc # "idle"
      /\ target \in Names
  <2>1. pc # "idle"
    OBVIOUS
  <2>2. level \in Levels /\ level \in Int /\ \A l \in 0 .. level : name[l] \in Names
    BY <2>1, Named
  <2>3. name[level] \in Names
    BY <2>2 DEF Levels
  <2>4. CnameOf[name[level]] \subseteq Names
    BY <2>3, NamesAssumption
  <2> QED BY <1>1, <2>1, <2>2, <2>3, <2>4
<1>3. alias' \in Seq(Names) /\ Len(alias') <= MAXALIAS
  <2>1. CASE level = 0
    BY <2>1, <1>2, LimitsAssumption DEF Shape, TypeOK, CNAME
  <2>2. CASE level # 0
    BY <2>2 DEF Shape, TypeOK, CNAME
  <2> QED BY <2>1, <2>2
<1>4. TypeOK'
  BY <1>1, <1>2, <1>3 DEF Shape, TypeOK, Counted, CNAME
<1>5. LevelsOK'
  BY <1>1, <1>2, NamesAssumption DEF Shape, TypeOK, LevelsOK, CNAME, Levels
<1>6. \A l \in InUse' : l \in InUse /\ l # level /\ l \in Int /\ l < level
  BY <1>2 DEF InUse, CNAME, Levels
<1>7. \A l \in InUse' : name'[l] = name[l]
  BY <1>1, <1>2, <1>6 DEF Shape, TypeOK, InUse
<1>8. Authority'
  BY <1>6, <1>7 DEF Shape, Authority, CNAME, roots_same, RootsOf
<1>9. SameZones'
  BY <1>6, <1>7 DEF Shape, SameZones, CNAME
<1> QED BY <1>4, <1>5, <1>8, <1>9 DEF Shape

LEMMA AskZoneShape ==
    ASSUME Shape, pc \in {"NEWNAME", "sent"}, Counted(loop', stored'),
           NEW z \in Above[name[level]], NEW n \in 0 .. MAXADDR, NEW hosts \in HostLists,
           Above[name[level]] \cap RootZones = Above[z] \cap RootZones,
           AskZone(z, n, hosts)
    PROVE Shape'
<1>1. /\ level \in Levels /\ level \in Int /\ name[level] \in Names /\ z \in Names /\ pc # "idle"
  <2>1. pc # "idle"
    OBVIOUS
  <2>2. level \in Levels /\ level \in Int /\ \A l \in 0 .. level : name[l] \in Names
    BY <2>1, Named
  <2>3. name[level] \in Names
    BY <2>2 DEF Levels
  <2>4. Above[name[level]] \subseteq Names
    BY <2>3, NamesAssumption
  <2> QED BY <2>1, <2>2, <2>3, <2>4
<1>2. /\ control' = [control EXCEPT ![level] = z]
      /\ servers' = [servers EXCEPT ![level] = [i \in 1 .. n |-> z]]
      /\ ns' = [ns EXCEPT ![level] = NsOf(z, hosts)]
      /\ pc' = "HAVENS"
      /\ UNCHANGED <<level, type, name, serves, alias, question, reply>>
  BY DEF AskZone
<1>3. /\ control'[level] = z /\ servers'[level] = [i \in 1 .. n |-> z] /\ ns'[level] = NsOf(z, hosts)
      /\ \A l \in Levels : l # level => /\ control'[l] = control[l]
                                        /\ servers'[l] = servers[l] /\ ns'[l] = ns[l]
      /\ DOMAIN servers' = Levels /\ DOMAIN ns' = Levels
  BY <1>1, <1>2 DEF Shape, TypeOK
<1>4. /\ servers'[level] \in Seq(Names) /\ Len(servers'[level]) = n
      /\ \A k \in DOMAIN servers'[level] : servers'[level][k] = z
  BY <1>1, <1>3, OfZone
<1>5. /\ ns'[level] \in Seq(Slot) /\ Len(ns'[level]) <= MAXNS
      /\ \A k \in DOMAIN ns'[level] : ns'[level][k].zone = z
  BY <1>1, <1>3, NsOfZone
<1>6. TypeOK'
  <2>1. servers' \in [Levels -> Seq(Names)] /\ \A l \in Levels : Len(servers'[l]) <= MAXADDR
    <3>1. Len(servers'[level]) <= MAXADDR
      BY <1>4, LimitsAssumption
    <3>2. \A l \in Levels : l # level => servers'[l] \in Seq(Names) /\ Len(servers'[l]) <= MAXADDR
      BY <1>3 DEF Shape, TypeOK
    <3>3. \A l \in Levels : servers'[l] \in Seq(Names) /\ Len(servers'[l]) <= MAXADDR
      BY <3>1, <3>2, <1>4
    <3>4. servers' = [l \in Levels |-> servers'[l]]
      BY <1>2, <1>3 DEF Shape, TypeOK
    <3> QED BY <3>3, <3>4
  <2>2. ns' \in [Levels -> Seq(Slot)] /\ \A l \in Levels : Len(ns'[l]) <= MAXNS
    <3>1. \A l \in Levels : ns'[l] \in Seq(Slot) /\ Len(ns'[l]) <= MAXNS
      BY <1>3, <1>5 DEF Shape, TypeOK
    <3>2. ns' = [l \in Levels |-> ns'[l]]
      BY <1>2, <1>3 DEF Shape, TypeOK
    <3> QED BY <3>1, <3>2
  <2>3. control' \in [Levels -> Names \cup {NoName}]
    BY <1>1, <1>2 DEF Shape, TypeOK
  <2> QED BY <1>2, <2>1, <2>2, <2>3 DEF Shape, TypeOK, Counted
<1>7. LevelsOK'
  <2>1. \A l \in Levels : ns'[l] # <<>> => l <= level
    BY <1>1, <1>3 DEF Shape, LevelsOK, Levels
  <2> QED BY <1>1, <1>2, <2>1 DEF Shape, LevelsOK
<1>8. \A l \in InUse' : l \in Levels /\ l \in Int /\ (l = level \/ (l # level /\ l < level /\ l \in InUse))
  BY <1>1, <1>2 DEF InUse, Levels
<1>9. Authority'
  <2> SUFFICES ASSUME NEW l \in InUse'
               PROVE /\ control'[l] \in Above[name'[l]]
                     /\ roots_same(name'[l], control'[l])
                     /\ \A i \in DOMAIN servers'[l] : servers'[l][i] = control'[l]
                     /\ \A i \in DOMAIN ns'[l] : ns'[l][i].zone = control'[l]
                     /\ l + 1 <= level' => serves'[l + 1] = control'[l]
    BY DEF Authority, roots_same, RootsOf
  <2>1. CASE l = level
    <3>1. roots_same(name[level], z)
      BY <1>1, SameRoots
    <3> QED BY <2>1, <3>1, <1>1, <1>2, <1>3, <1>4, <1>5
  <2>2. CASE l # level
    <3>1. l \in InUse /\ l \in Levels /\ l < level
      BY <2>2, <1>8
    <3>2. /\ control'[l] = control[l] /\ servers'[l] = servers[l] /\ ns'[l] = ns[l]
          /\ name'[l] = name[l] /\ serves' = serves /\ level' = level
      BY <1>2, <1>3, <2>2, <3>1
    <3> QED BY <3>1, <3>2 DEF Shape, Authority
  <2> QED BY <2>1, <2>2
<1>10. SameZones'
  BY <1>2, <1>3, <1>8 DEF Shape, SameZones
<1> QED BY <1>6, <1>7, <1>9, <1>10 DEF Shape
-----------------------------------------------------------------------------
\* Where a packet comes from, and that a set it has stored fits.
LEMMA Sender ==
    ASSUME Shape, NEW i, HAVEPACKET(i)
    PROVE /\ level \in Levels /\ level \in InUse /\ name[level] \in Names /\ control[level] \in Names
          /\ i \in 1 .. Len(servers[level]) /\ servers[level] \in Seq(Names)
          /\ servers[level][i] = control[level]
          /\ control[level] \in Above[name[level]] /\ roots_same(name[level], control[level])
          /\ loop' \in 0 .. MAXLOOP - 1 /\ pc = "sent"
<1>1. pc = "sent" /\ level \in Levels /\ i \in DOMAIN servers[level]
  BY DEF HAVEPACKET, Shape, TypeOK
<1>2. name[level] \in Names
  BY <1>1, Named DEF Levels
<1>3. level \in InUse
  BY <1>1 DEF InUse
<1>4. servers[level] \in Seq(Names)
  BY <1>1 DEF Shape, TypeOK
<1>5. /\ servers[level][i] = control[level] /\ control[level] \in Above[name[level]]
      /\ roots_same(name[level], control[level])
  BY <1>1, <1>3 DEF Shape, Authority
<1>6. control[level] \in Names
  BY <1>2, <1>5, NamesAssumption
<1>7. loop' \in 0 .. MAXLOOP - 1
  BY LimitsAssumption DEF HAVEPACKET, Shape, TypeOK
<1> QED BY <1>1, <1>2, <1>3, <1>4, <1>5, <1>6, <1>7

LEMMA StoreFits ==
    ASSUME Shape, NEW i, HAVEPACKET(i), Store(i) \/ StoreNone(i)
    PROVE Counted(loop', stored') /\ Fits(stored')
<1>1. CASE Store(i)
  BY <1>1, Sender DEF Store, Counted, Fits, roots_same
<1>2. CASE StoreNone(i)
  BY <1>2, Sender DEF StoreNone, Counted, Fits, roots_same
<1> QED BY <1>1, <1>2

LEMMA NothingStored ==
    ASSUME Shape, loop' \in 0 .. MAXLOOP - 1, stored' = {}
    PROVE Counted(loop', stored') /\ Fits(stored')
BY DEF Counted, Fits

LEMMA StartShape == ASSUME Shape, Start PROVE Shape' /\ Fits(stored')
<1>1. PICK n \in Names : name' = [NoNames EXCEPT ![0] = n] /\ question' = n
  BY DEF Start
<1>2. TypeOK'
  BY <1>1, LimitsAssumption DEF Start, Shape, TypeOK, NoNames, NoNs, Levels
<1>3. LevelsOK'
  BY <1>1, LimitsAssumption, NamesAssumption DEF Start, LevelsOK, NoNames, NoNs, Levels
<1>4. InUse' = {}
  BY DEF InUse, Start, Levels
<1> QED BY <1>2, <1>3, <1>4 DEF Shape, Authority, SameZones, Start, Fits

LEMMA NEWNAMEShape ==
    ASSUME Shape, NEWNAME, Known \/ Cached \/ CachedCname \/ AskRoots \/ AskCachedNs
    PROVE Shape' /\ Fits(stored')
<1>1. Counted(loop', stored') /\ Fits(stored') /\ pc = "NEWNAME"
  BY LimitsAssumption DEF Shape, TypeOK, NEWNAME, Counted, Fits
<1>2. ASSUME Known PROVE Shape'
  <2>1. 1 \in 0 .. MAXADDR
    BY LimitsAssumption
  <2> QED BY <1>1, <1>2, <2>1, AnswerShape, AddressesShape DEF Known
<1>3. ASSUME Cached PROVE Shape'
  <2>1. MAXADDR \in 0 .. MAXADDR
    BY LimitsAssumption
  <2> QED BY <1>1, <1>3, <2>1, AnswerShape, AddressesShape DEF Cached
<1>4. ASSUME CachedCname PROVE Shape'
  BY <1>1, <1>4, CNAMEShape DEF CachedCname
<1>5. <<>> \in HostLists
  <2>1. <<>> \in [1 .. 0 -> Hosts] /\ 0 \in 0 .. MAXNS
    BY LimitsAssumption
  <2> QED BY <2>1 DEF HostLists
<1>6. ASSUME AskRoots PROVE Shape'
  <2>1. PICK z \in RootsOf(name[level]), n \in 0 .. MAXADDR : AskZone(z, n, <<>>)
    BY <1>6 DEF AskRoots
  <2>2. name[level] \in Names
    BY <1>1, Named DEF Levels
  <2>3. z \in Above[name[level]] /\ Above[name[level]] \cap RootZones \subseteq Above[z]
    BY DEF RootsOf
  <2>4. Above[z] \subseteq Above[name[level]]
    BY <2>2, <2>3, NamesAssumption
  <2>5. Above[name[level]] \cap RootZones = Above[z] \cap RootZones
    BY <2>3, <2>4
  <2> QED BY <1>1, <1>5, <2>1, <2>3, <2>5, AskZoneShape
<1>7. ASSUME AskCachedNs PROVE Shape'
  <2>1. PICK z \in Above[name[level]], hosts \in HostLists :
          (Before(z) \cup {z}) \cap RootZones = {} /\ AskZone(z, 0, hosts)
    BY <1>7 DEF AskCachedNs
  <2>2. name[level] \in Names
    BY <1>1, Named DEF Levels
  <2>3. Above[z] \subseteq Above[name[level]]
    BY <2>2, NamesAssumption
  <2>4. Above[name[level]] \cap RootZones = Above[z] \cap RootZones
    BY <2>1, <2>3 DEF Before
  <2>5. 0 \in 0 .. MAXADDR
    BY LimitsAssumption
  <2> QED BY <1>1, <2>1, <2>4, <2>5, AskZoneShape
<1> QED BY <1>1, <1>2, <1>3, <1>4, <1>6, <1>7
-----------------------------------------------------------------------------
LEMMA LookUpNsShape == ASSUME Shape, LookUpNs PROVE Shape' /\ Fits(stored')
<1>1. /\ level \in Levels /\ level \in InUse /\ level + 1 \in Levels /\ level \in Int
      /\ pc = "HAVENS" /\ ns[level] # <<>>
      /\ loop' \in 0 .. MAXLOOP - 1
  BY LimitsAssumption DEF LookUpNs, HAVENS, Shape, TypeOK, InUse, Levels
<1> DEFINE first == Head(ns[level])
<1>2. /\ name' = [name EXCEPT ![level + 1] = first.host]
      /\ serves' = [serves EXCEPT ![level + 1] = first.zone]
      /\ ns' = [ns EXCEPT ![level] = Tail(@)]
      /\ level' = level + 1 /\ pc' = "NEWNAME"
      /\ UNCHANGED <<servers, loop, type, control, alias, question, reply>> /\ stored' = {}
  BY DEF LookUpNs, HAVENS
<1>3. ns[level] \in Seq(Slot) /\ Len(ns[level]) <= MAXNS
  BY <1>1 DEF Shape, TypeOK
<1>4. first \in Slot /\ first = ns[level][1] /\ 1 \in DOMAIN ns[level]
  BY <1>1, <1>3
<1>5. first.host \in Names /\ first.zone \in Names /\ first.zone = control[level]
  BY <1>1, <1>4 DEF Shape, Authority, Slot
<1>6. /\ Tail(ns[level]) \in Seq(Slot) /\ Len(Tail(ns[level])) <= MAXNS
      /\ \A k \in DOMAIN Tail(ns[level]) : k + 1 \in DOMAIN ns[level] /\ Tail(ns[level])[k] = ns[level][k + 1]
  <2>1. /\ Tail(ns[level]) \in Seq(Slot) /\ Len(Tail(ns[level])) = Len(ns[level]) - 1
        /\ \A k \in DOMAIN Tail(ns[level]) : k + 1 \in DOMAIN ns[level] /\ Tail(ns[level])[k] = ns[level][k + 1]
    BY <1>1, <1>3, TailOf
  <2> QED BY <2>1, <1>3, LimitsAssumption
<1> HIDE DEF first
<1>7. /\ ns'[level] = Tail(ns[level]) /\ \A l \in Levels : l # level => ns'[l] = ns[l]
      /\ name'[level + 1] = first.host /\ \A l \in Levels : l # level + 1 => name'[l] = name[l]
      /\ serves'[level + 1] = control[level] /\ \A l \in Levels : l # level + 1 => serves'[l] = serves[l]
  BY <1>1, <1>2, <1>5 DEF Shape, TypeOK
<1>8. TypeOK'
  <2>1. \A l \in Levels : ns'[l] \in Seq(Slot) /\ Len(ns'[l]) <= MAXNS
    BY <1>6, <1>7 DEF Shape, TypeOK
  <2>2. ns' = [l \in Levels |-> ns'[l]]
    BY <1>2 DEF Shape, TypeOK
  <2>3. ns' \in [Levels -> Seq(Slot)]
    BY <2>1, <2>2
  <2>4. name' \in [Levels -> Names \cup {NoName}] /\ serves' \in [Levels -> Names \cup {NoName}]
    BY <1>1, <1>2, <1>5 DEF Shape, TypeOK
  <2>5. level' \in Levels /\ loop' \in 0 .. MAXLOOP - 1
    BY <1>1, <1>2
  <2> QED BY <1>2, <2>1, <2>3, <2>4, <2>5 DEF Shape, TypeOK
<1>9. LevelsOK'
  <2>1. \A l \in Levels : l \in Int
    BY DEF Levels
  <2>2. \A l \in Levels : name'[l] # NoName <=> l <= level + 1
    BY <1>1, <1>5, <1>7, <2>1, NamesAssumption DEF Shape, LevelsOK
  <2>3. \A l \in Levels : ns'[l] # <<>> => l <= level
    BY <1>1, <1>7, <2>1 DEF Shape, LevelsOK
  <2>4. ns'[level + 1] = <<>>
    BY <1>1, <2>3
  <2> QED BY <1>1, <1>2, <2>1, <2>2, <2>3, <2>4 DEF Shape, LevelsOK
<1>10. \A l \in InUse' : l \in InUse /\ l \in Levels /\ l \in Int /\ l <= level /\ l # level + 1
  BY <1>1, <1>2 DEF InUse, Levels
<1>11. Authority'
  <2> SUFFICES ASSUME NEW l \in InUse'
               PROVE /\ control[l] \in Above[name[l]]
                     /\ roots_same(name[l], control[l])
                     /\ \A i \in DOMAIN servers[l] : servers[l][i] = control[l]
                     /\ \A i \in DOMAIN ns'[l] : ns'[l][i].zone = control[l]
                     /\ l + 1 <= level' => serves'[l + 1] = control[l]
    BY <1>2, <1>7, <1>10 DEF Authority, roots_same, RootsOf
  <2>1. \A i \in DOMAIN ns'[l] : ns'[l][i].zone = control[l]
    <3>1. CASE l = level
      BY <3>1, <1>6, <1>7, <1>10 DEF Shape, Authority
    <3>2. CASE l # level
      BY <3>2, <1>7, <1>10 DEF Shape, Authority
    <3> QED BY <3>1, <3>2
  <2>2. l + 1 <= level' => serves'[l + 1] = control[l]
    <3>1. CASE l = level
      BY <3>1, <1>7
    <3>2. CASE l # level
      <4>1. l + 1 <= level /\ l + 1 \in Levels /\ l + 1 # level + 1
        BY <3>2, <1>1, <1>10, LimitsAssumption DEF Levels
      <4> QED BY <4>1, <1>7, <1>10 DEF Shape, Authority
    <3> QED BY <3>1, <3>2
  <2> QED BY <2>1, <2>2, <1>10 DEF Shape, Authority
<1>12. SameZones'
  BY <1>2, <1>7, <1>10 DEF Shape, SameZones
<1> QED BY <1>2, <1>8, <1>9, <1>11, <1>12 DEF Shape, Fits

LEMMA NsDoneShape ==
    ASSUME Shape, NsDone, Transmit \/ NoServers
    PROVE Shape' /\ Fits(stored')
<1>1. /\ level \in Levels /\ level \in Int /\ pc = "HAVENS" /\ stored' = {}
      /\ ns' = [ns EXCEPT ![level] = <<>>]
      /\ UNCHANGED <<loop, type, control, alias, question, reply, level, name, serves, servers>>
      /\ pc' \in {"sent", "SERVFAIL"} /\ (pc' = "sent" => servers[level] # <<>>)
  BY DEF NsDone, HAVENS, Transmit, NoServers, Shape, TypeOK, Levels
<1>2. ns'[level] = <<>> /\ \A l \in Levels : l # level => ns'[l] = ns[l]
  BY <1>1 DEF Shape, TypeOK
<1>3. TypeOK'
  <2>1. \A l \in Levels : ns'[l] \in Seq(Slot) /\ Len(ns'[l]) <= MAXNS
    <3>1. <<>> \in Seq(Slot) /\ Len(<<>>) <= MAXNS
      BY LimitsAssumption
    <3>2. \A l \in Levels : l # level => ns'[l] \in Seq(Slot) /\ Len(ns'[l]) <= MAXNS
      BY <1>2 DEF Shape, TypeOK
    <3> QED BY <1>2, <3>1, <3>2
  <2>2. ns' = [l \in Levels |-> ns'[l]]
    BY <1>1 DEF Shape, TypeOK
  <2>3. ns' \in [Levels -> Seq(Slot)]
    BY <2>1, <2>2
  <2> QED BY <1>1, <2>1, <2>3 DEF Shape, TypeOK
<1>4. LevelsOK'
  BY <1>1, <1>2 DEF Shape, LevelsOK
<1>5. InUse' \subseteq InUse /\ InUse \subseteq Levels
  BY <1>1 DEF InUse
<1>6. \A l \in Levels : \A i \in DOMAIN ns'[l] : i \in DOMAIN ns[l] /\ ns'[l][i] = ns[l][i]
  BY <1>2
<1>7. Authority'
  BY <1>1, <1>5, <1>6 DEF Shape, Authority, roots_same, RootsOf
<1>8. SameZones'
  BY <1>1, <1>5 DEF Shape, SameZones
<1> QED BY <1>1, <1>3, <1>4, <1>7, <1>8 DEF Shape, Fits

LEMMA SERVFAILShape == ASSUME Shape, SERVFAIL PROVE Shape' /\ Fits(stored')
<1>1. Counted(loop', stored') /\ Fits(stored') /\ pc # "idle" /\ 0 \in 0 .. MAXADDR
  BY LimitsAssumption DEF SERVFAIL, Shape, TypeOK, Counted, Fits
<1> QED BY <1>1, AnswerShape, AddressesShape DEF SERVFAIL

LEMMA LOWERLEVELShape == ASSUME Shape, LOWERLEVEL PROVE Shape' /\ Fits(stored')
<1>1. /\ level \in Levels /\ level \in Int /\ level > 0 /\ level - 1 \in Levels
      /\ pc = "LOWERLEVEL" /\ stored' = {}
      /\ name' = [name EXCEPT ![level] = NoName]
      /\ serves' = [serves EXCEPT ![level] = NoName]
      /\ ns' = [ns EXCEPT ![level] = <<>>]
      /\ level' = level - 1 /\ pc' = "HAVENS"
      /\ UNCHANGED <<loop, type, control, servers, alias, question, reply>>
  BY LimitsAssumption DEF LOWERLEVEL, Shape, TypeOK, LevelsOK, Levels
<1>2. /\ ns'[level] = <<>> /\ \A l \in Levels : l # level => ns'[l] = ns[l]
      /\ name'[level] = NoName /\ \A l \in Levels : l # level => name'[l] = name[l]
      /\ \A l \in Levels : l # level => serves'[l] = serves[l]
  BY <1>1 DEF Shape, TypeOK
<1>3. TypeOK'
  <2>1. \A l \in Levels : ns'[l] \in Seq(Slot) /\ Len(ns'[l]) <= MAXNS
    <3>1. <<>> \in Seq(Slot) /\ Len(<<>>) <= MAXNS
      BY LimitsAssumption
    <3>2. \A l \in Levels : l # level => ns'[l] \in Seq(Slot) /\ Len(ns'[l]) <= MAXNS
      BY <1>2 DEF Shape, TypeOK
    <3> QED BY <1>2, <3>1, <3>2
  <2>2. ns' = [l \in Levels |-> ns'[l]]
    BY <1>1 DEF Shape, TypeOK
  <2>3. ns' \in [Levels -> Seq(Slot)]
    BY <2>1, <2>2
  <2>4. name' \in [Levels -> Names \cup {NoName}] /\ serves' \in [Levels -> Names \cup {NoName}]
    BY <1>1 DEF Shape, TypeOK
  <2> QED BY <1>1, <2>1, <2>3, <2>4 DEF Shape, TypeOK
<1>4. LevelsOK'
  <2>1. \A l \in Levels : l \in Int
    BY DEF Levels
  <2> QED BY <1>1, <1>2, <2>1 DEF Shape, LevelsOK
<1>5. \A l \in InUse' : l \in InUse /\ l \in Levels /\ l \in Int /\ l < level /\ l # level
  BY <1>1 DEF InUse, Levels
<1>6. Authority'
  <2> SUFFICES ASSUME NEW l \in InUse'
               PROVE /\ control[l] \in Above[name[l]]
                     /\ roots_same(name[l], control[l])
                     /\ \A i \in DOMAIN servers[l] : servers[l][i] = control[l]
                     /\ \A i \in DOMAIN ns[l] : ns[l][i].zone = control[l]
                     /\ l + 1 <= level' => serves'[l + 1] = control[l]
    BY <1>1, <1>2, <1>5 DEF Authority, roots_same, RootsOf
  <2>1. l + 1 <= level' => l + 1 <= level /\ l + 1 \in Levels /\ l + 1 # level
    BY <1>1, <1>5, LimitsAssumption DEF Levels
  <2> QED BY <2>1, <1>2, <1>5 DEF Shape, Authority
<1>7. SameZones'
  BY <1>1, <1>2, <1>5 DEF Shape, SameZones
<1> QED BY <1>1, <1>3, <1>4, <1>6, <1>7 DEF Shape, Fits

LEMMA SilentShape == ASSUME Shape, Silent PROVE Shape' /\ Fits(stored')
<1>1. InUse' \subseteq InUse
  BY DEF InUse, Silent, where
<1>2. TypeOK' /\ LevelsOK'
  BY DEF Silent, where, Shape, TypeOK, LevelsOK
<1>3. Authority' /\ SameZones'
  BY <1>1 DEF Silent, where, Shape, Authority, SameZones, roots_same, RootsOf
<1> QED BY <1>2, <1>3 DEF Shape, Silent, Fits

LEMMA DieShape ==
    ASSUME Shape, Cleanup, pc' = "idle", UNCHANGED <<level, type, question, reply>>,
           Counted(loop', stored')
    PROVE Shape'
BY Over DEF Shape, TypeOK
-----------------------------------------------------------------------------
LEMMA LameShape == ASSUME Shape, NEW i, Lame(i) PROVE Shape' /\ Fits(stored')
<1>1. HAVEPACKET(i)
  BY DEF Lame
<1>2. /\ level \in Levels /\ level \in InUse /\ i \in 1 .. Len(servers[level])
      /\ servers[level] \in Seq(Names) /\ loop' \in 0 .. MAXLOOP - 1 /\ pc = "sent"
  BY <1>1, Sender
<1>3. /\ stored' = {} /\ servers' = [servers EXCEPT ![level] = RemoveAt(@, i)] /\ pc' = "HAVENS"
      /\ UNCHANGED <<level, type, name, control, ns, serves, alias, question, reply>>
  BY DEF Lame
<1>4. \A k \in 1 .. Len(servers[level]) : servers[level][k] = control[level]
  BY <1>2 DEF Shape, Authority
<1>5. /\ RemoveAt(servers[level], i) \in Seq(Names)
      /\ Len(RemoveAt(servers[level], i)) = Len(servers[level]) - 1
      /\ \A k \in 1 .. Len(RemoveAt(servers[level], i)) : RemoveAt(servers[level], i)[k] = control[level]
  BY <1>2, <1>4, Removed
<1>6. /\ servers'[level] = RemoveAt(servers[level], i)
      /\ \A l \in Levels : l # level => servers'[l] = servers[l]
  BY <1>2, <1>3 DEF Shape, TypeOK
<1>7. TypeOK'
  <2>1. \A l \in Levels : servers'[l] \in Seq(Names) /\ Len(servers'[l]) <= MAXADDR
    <3>1. Len(servers'[level]) <= MAXADDR
      <4>1. Len(servers[level]) \in Nat /\ Len(servers[level]) <= MAXADDR
        BY <1>2 DEF Shape, TypeOK
      <4> QED BY <4>1, <1>5, <1>6, LimitsAssumption
    <3>2. \A l \in Levels : l # level => servers'[l] \in Seq(Names) /\ Len(servers'[l]) <= MAXADDR
      BY <1>6 DEF Shape, TypeOK
    <3> QED BY <1>5, <1>6, <3>1, <3>2
  <2>2. servers' = [l \in Levels |-> servers'[l]]
    BY <1>3 DEF Shape, TypeOK
  <2>3. servers' \in [Levels -> Seq(Names)]
    BY <2>1, <2>2
  <2> QED BY <1>2, <1>3, <2>1, <2>3 DEF Shape, TypeOK
<1>8. LevelsOK'
  BY <1>2, <1>3 DEF Shape, LevelsOK
<1>9. InUse' = InUse /\ InUse \subseteq Levels
  BY <1>2, <1>3 DEF InUse
<1>10. \A l \in InUse : \A k \in DOMAIN servers'[l] : servers'[l][k] = control[l]
  BY <1>5, <1>6, <1>9 DEF Shape, Authority
<1>11. Authority' /\ SameZones'
  BY <1>3, <1>9, <1>10 DEF Shape, Authority, SameZones, roots_same, RootsOf
<1> QED BY <1>3, <1>7, <1>8, <1>11 DEF Shape, Fits

LEMMA PacketShape == ASSUME Shape, NEW i, Packet(i) PROVE Shape' /\ Fits(stored')
<1>1. ASSUME Lame(i) PROVE Shape' /\ Fits(stored')
  BY <1>1, LameShape
<1>2. ASSUME PacketCname(i) PROVE Shape' /\ Fits(stored')
  <2>1. Counted(loop', stored') /\ Fits(stored') /\ pc = "sent"
    BY <1>2, StoreFits, Sender DEF PacketCname
  <2> QED BY <1>2, <2>1, CNAMEShape DEF PacketCname
<1>3. ASSUME PacketAnswer(i) PROVE Shape' /\ Fits(stored')
  <2>1. Counted(loop', stored') /\ Fits(stored') /\ pc = "sent" /\ MAXADDR \in 0 .. MAXADDR
    BY <1>3, StoreFits, Sender, LimitsAssumption DEF PacketAnswer
  <2> QED BY <1>3, <2>1, AnswerShape, AddressesShape DEF PacketAnswer
<1>4. ASSUME Referral(i) PROVE Shape' /\ Fits(stored')
  <2>1. Counted(loop', stored') /\ Fits(stored') /\ HAVEPACKET(i)
    BY <1>4, StoreFits DEF Referral
  <2>2. /\ level \in InUse /\ name[level] \in Names /\ control[level] \in Names
        /\ pc = "sent" /\ 0 \in 0 .. MAXADDR
    BY <2>1, Sender, LimitsAssumption
  <2>3. PICK z \in Above[name[level]], hosts \in HostLists :
          control[level] \in Above[z] /\ AskZone(z, 0, hosts)
    BY <1>4 DEF Referral
  <2>4. z \in Names /\ Above[z] \subseteq Above[name[level]] /\ Above[control[level]] \subseteq Above[z]
    BY <2>2, <2>3, NamesAssumption
  <2>5. Above[name[level]] \cap RootZones = Above[control[level]] \cap RootZones
    BY <2>2 DEF Shape, SameZones
  <2>6. Above[name[level]] \cap RootZones = Above[z] \cap RootZones
    BY <2>4, <2>5
  <2> QED BY <2>1, <2>2, <2>3, <2>6, AskZoneShape
<1>5. ASSUME BadPacket(i) PROVE Shape' /\ Fits(stored')
  <2>1. Counted(loop', stored') /\ Fits(stored')
    BY <1>5, StoreFits DEF BadPacket
  <2> QED BY <1>5, <2>1, DieShape DEF BadPacket
<1> QED BY <1>1, <1>2, <1>3, <1>4, <1>5 DEF Packet
-----------------------------------------------------------------------------
IInv == Shape /\ Fits(stored)

LEMMA InitShape == Init => IInv
<1> SUFFICES ASSUME Init PROVE IInv
  OBVIOUS
<1>1. TypeOK
  BY LimitsAssumption DEF Init, TypeOK, NoNames, NoNs, Levels
<1>2. LevelsOK
  BY DEF Init, LevelsOK, NoNames, NoNs
<1>3. InUse = {}
  BY DEF Init, InUse
<1> QED BY <1>1, <1>2, <1>3 DEF IInv, Shape, Authority, SameZones, Fits, Init

LEMMA StepShape == IInv /\ [Next]_vars => IInv'
<1> SUFFICES ASSUME IInv, [Next]_vars PROVE IInv'
  OBVIOUS
<1> USE DEF IInv
<1>1. ASSUME Start PROVE IInv'
  BY <1>1, StartShape DEF Fits, roots_same, RootsOf
<1>2. ASSUME Known \/ Cached \/ CachedCname \/ AskRoots \/ AskCachedNs PROVE IInv'
  <2>1. NEWNAME
    BY <1>2 DEF Known, Cached, CachedCname, AskRoots, AskCachedNs
  <2> QED BY <1>2, <2>1, NEWNAMEShape DEF Fits, roots_same, RootsOf
<1>3. ASSUME LookUpNs PROVE IInv'
  BY <1>3, LookUpNsShape DEF Fits, roots_same, RootsOf
<1>4. ASSUME Transmit \/ NoServers PROVE IInv'
  <2>1. NsDone
    BY <1>4 DEF Transmit, NoServers
  <2> QED BY <1>4, <2>1, NsDoneShape DEF Fits, roots_same, RootsOf
<1>5. ASSUME SERVFAIL PROVE IInv'
  BY <1>5, SERVFAILShape DEF Fits, roots_same, RootsOf
<1>6. ASSUME LOWERLEVEL PROVE IInv'
  BY <1>6, LOWERLEVELShape DEF Fits, roots_same, RootsOf
<1>7. ASSUME Silent PROVE IInv'
  BY <1>7, SilentShape DEF Fits, roots_same, RootsOf
<1>8. ASSUME NEW i \in 1 .. MAXADDR, Packet(i) PROVE IInv'
  BY <1>8, PacketShape DEF Fits, roots_same, RootsOf
<1>9. ASSUME Die, stored' = {} PROVE IInv'
  <2>1. loop' \in 0 .. MAXLOOP - 1
    BY <1>9 DEF Die, Shape, TypeOK
  <2>2. Counted(loop', stored') /\ Fits(stored')
    BY <1>9, <2>1, NothingStored
  <2> QED BY <1>9, <2>2, DieShape DEF Die, Fits, roots_same, RootsOf
<1>10. ASSUME UNCHANGED vars PROVE IInv'
  BY <1>10 DEF vars, where, Shape, TypeOK, LevelsOK, Authority, SameZones, InUse, Fits, roots_same, RootsOf
<1> QED BY <1>1, <1>2, <1>3, <1>4, <1>5, <1>6, <1>7, <1>8, <1>9, <1>10 DEF Next, Doit

LEMMA Inductive == Spec => []IInv
<1> QED BY InitShape, StepShape, PTL DEF Spec

\* For every tree of names, every list of configured servers and all limits:
\* names and name servers exist on the levels in use only, and a question goes
\* out only when there is a server to ask.
THEOREM QueryLevels == Spec => [](TypeOK /\ LevelsOK)
<1>1. IInv => TypeOK /\ LevelsOK
  BY DEF IInv, Shape
<1> QED BY <1>1, Inductive, PTL

\* The servers and name servers of every level are those of the zone that
\* control points to, which is above the name.
THEOREM QueryAuthority == Spec => []Authority
<1>1. IInv => Authority
  BY DEF IInv, Shape
<1> QED BY <1>1, Inductive, PTL

\* Nothing is stored but from a server of a zone above the owner.
THEOREM QueryInBailiwick == Spec => []InBailiwick
<1>1. IInv => InBailiwick
  BY DEF IInv, Fits, InBailiwick
<1> QED BY <1>1, Inductive, PTL

LEMMA StepNearer == ASSUME IInv, Next PROVE Start \/ Nearer
<1>1. level \in Int /\ level >= 0 /\ loop \in Int
  BY LimitsAssumption DEF IInv, Shape, TypeOK, Levels
<1>2. NEWNAME => Nearer
  BY <1>1 DEF NEWNAME, Nearer
<1>3. ASSUME NEW i, HAVEPACKET(i) PROVE Nearer
  BY <1>1, <1>3 DEF HAVEPACKET, Nearer
<1>4. LookUpNs => Nearer
  BY <1>1 DEF LookUpNs, HAVENS, Nearer, Rank
<1>5. ASSUME NsDone, pc' \in {"sent", "SERVFAIL"} PROVE Nearer
  BY <1>1, <1>5 DEF NsDone, HAVENS, Nearer, Rank
<1>6. SERVFAIL => Nearer
  BY <1>1 DEF SERVFAIL, Answer, Addresses, Nearer, Rank
<1>7. LOWERLEVEL => Nearer
  BY <1>1 DEF LOWERLEVEL, Nearer, Rank
<1>8. Silent => Nearer
  BY <1>1 DEF Silent, Nearer, Rank
<1>9. Die => Nearer
  BY DEF Die, Nearer
<1>10. Transmit \/ NoServers => Nearer
  BY <1>5 DEF Transmit, NoServers
<1>11. Known \/ Cached \/ CachedCname \/ AskRoots \/ AskCachedNs => Nearer
  BY <1>2 DEF Known, Cached, CachedCname, AskRoots, AskCachedNs
<1>12. ASSUME NEW i, Packet(i) PROVE Nearer
  BY <1>3, <1>12 DEF Packet, Lame, PacketCname, PacketAnswer, Referral, BadPacket
<1> QED BY <1>4, <1>6, <1>7, <1>8, <1>9, <1>10, <1>11, <1>12 DEF Next, Doit

\* A query never goes in circles: with no limit on what servers and cache say,
\* every step of it comes nearer to its end.
THEOREM QueryProgress == Spec => Progress
<1>1. IInv /\ [Next]_vars => [Start \/ Nearer]_vars
  BY StepNearer
<1> QED BY <1>1, Inductive, PTL DEF Spec, Progress
-----------------------------------------------------------------------------
\* The chain of aliases from its first name to a name n.
LEMMA ChainTo ==
    ASSUME NEW n \in Names, NEW a \in Seq(Names)
    PROVE LET c == Reverse(<<n>> \o a) IN
            /\ Len(c) = Len(a) + 1 /\ c[Len(a) + 1] = n
            /\ \A i \in 1 .. Len(a) : c[i] = a[Len(a) - i + 1]
            /\ Head(c) = c[1] /\ c # <<>>
<1> DEFINE s == <<n>> \o a
<1>1. /\ s \in Seq(Names) /\ Len(s) = Len(a) + 1 /\ Len(a) \in Nat /\ s[1] = n
      /\ \A i \in 1 .. Len(a) : s[i + 1] = a[i]
  OBVIOUS
<1>2. Reverse(s) = [i \in 1 .. Len(s) |-> s[(Len(s) - i) + 1]]
  BY DEF Reverse
<1> HIDE DEF s
<1>3. Reverse(s) \in Seq(Names) /\ Len(Reverse(s)) = Len(s)
  BY <1>1, <1>2
<1>4. \A i \in 1 .. Len(s) : Reverse(s)[i] = s[(Len(s) - i) + 1]
  BY <1>2
<1>5. Reverse(s)[Len(a) + 1] = n
  BY <1>1, <1>4
<1>6. \A i \in 1 .. Len(a) : Reverse(s)[i] = a[Len(a) - i + 1]
  <2> TAKE i \in 1 .. Len(a)
  <2>1. /\ i \in 1 .. Len(s) /\ Len(a) - i + 1 \in 1 .. Len(a)
        /\ (Len(s) - i) + 1 = (Len(a) - i + 1) + 1
    BY <1>1
  <2> QED BY <2>1, <1>1, <1>4
<1> QED BY <1>1, <1>3, <1>5, <1>6 DEF s

\* The chain grows at its end, by the target of the alias that was its end.
LEMMA ChainGrows ==
    ASSUME NEW n \in Names, NEW t \in Names, NEW a \in Seq(Names),
           t \in CnameOf[n], Linked(Reverse(<<n>> \o a))
    PROVE Linked(Reverse(<<t>> \o (<<n>> \o a)))
<1>1. PICK c : c = Reverse(<<n>> \o a)
  OBVIOUS
<1>2. PICK b \in Seq(Names) : b = <<n>> \o a
  <2>1. <<n>> \o a \in Seq(Names)
    OBVIOUS
  <2> QED BY <2>1, Zenon
<1>3. PICK d : d = Reverse(<<t>> \o b)
  OBVIOUS
<1>4. /\ Len(b) = Len(a) + 1 /\ Len(a) \in Nat /\ b[1] = n
      /\ \A i \in 1 .. Len(a) : b[i + 1] = a[i]
  BY <1>2
<1>5. /\ Len(c) = Len(a) + 1 /\ c[Len(a) + 1] = n /\ Head(c) = c[1]
      /\ \A i \in 1 .. Len(a) : c[i] = a[Len(a) - i + 1]
  BY <1>1, ChainTo
<1>6. /\ Len(d) = Len(b) + 1 /\ d[Len(b) + 1] = t /\ Head(d) = d[1]
      /\ \A i \in 1 .. Len(b) : d[i] = b[Len(b) - i + 1]
  BY <1>3, ChainTo
<1>7. \A i \in 1 .. Len(c) : d[i] = c[i]
  <2> TAKE i \in 1 .. Len(c)
  <2>1. i \in 1 .. Len(b) /\ i \in Int
    BY <1>4, <1>5
  <2>2. CASE i = Len(a) + 1
    BY <2>1, <2>2, <1>4, <1>5, <1>6
  <2>3. CASE i # Len(a) + 1
    <3>1. i \in 1 .. Len(a) /\ Len(a) - i + 1 \in 1 .. Len(a) /\ Len(b) - i + 1 = (Len(a) - i + 1) + 1
      BY <2>1, <2>3, <1>4
    <3>2. b[(Len(a) - i + 1) + 1] = a[Len(a) - i + 1]
      BY <3>1, <1>4
    <3>3. d[i] = b[Len(b) - i + 1]
      BY <2>1, <1>6
    <3> QED BY <3>1, <3>2, <3>3, <1>5
  <2> QED BY <2>2, <2>3
<1>8. /\ c[1] = question /\ \A i \in 1 .. Len(c) - 1 : c[i + 1] \in CnameOf[c[i]]
  BY <1>1, <1>5 DEF Linked
<1>9. d[1] = question
  BY <1>4, <1>5, <1>7, <1>8
<1>10. \A i \in 1 .. Len(d) - 1 : d[i + 1] \in CnameOf[d[i]]
  <2> TAKE i \in 1 .. Len(d) - 1
  <2>1. CASE i = Len(c)
    <3>1. d[i + 1] = t /\ d[i] = c[i] /\ c[i] = n
      BY <2>1, <1>4, <1>5, <1>6, <1>7
    <3> QED BY <3>1
  <2>2. CASE i # Len(c)
    <3>1. i \in 1 .. Len(c) - 1 /\ i \in 1 .. Len(c) /\ i + 1 \in 1 .. Len(c)
      BY <2>2, <1>4, <1>5, <1>6
    <3> QED BY <3>1, <1>7, <1>8
  <2> QED BY <2>1, <2>2
<1>11. Linked(d)
  BY <1>6, <1>9, <1>10 DEF Linked
<1> QED BY <1>2, <1>3, <1>11

\* What a step does to the chain: nothing, or a query begins or ends with it,
\* or the name at its end is replaced by the target of its alias.
SameChain == UNCHANGED <<alias, question, reply>> /\ name'[0] = name[0] /\ pc # "idle"
Begins == alias' = <<>> /\ reply' = <<>> /\ name'[0] = question'
Ends == pc' = "idle" /\ UNCHANGED question /\ pc # "idle" /\ reply' \in {reply, rqa}
Grows == /\ pc # "idle" /\ UNCHANGED <<question, reply>>
         /\ alias' = <<name[0]>> \o alias /\ name'[0] \in CnameOf[name[0]]
Links == SameChain \/ Begins \/ Ends \/ Grows \/ UNCHANGED <<pc, alias, question, reply, name>>

\* An alias of the client's name makes the chain longer, one of a server's not.
LEMMA FollowsChain == ASSUME Shape, pc # "idle", CNAME PROVE Links
<1>1. PICK target \in CnameOf[name[level]] : name' = [name EXCEPT ![level] = target]
  BY DEF CNAME
<1>2. 0 \in Levels /\ level \in Levels /\ level \in Int /\ DOMAIN name = Levels
  BY LimitsAssumption DEF Shape, TypeOK, Levels
<1>3. CASE level = 0
  BY <1>1, <1>2, <1>3 DEF CNAME, Links, Grows
<1>4. CASE level # 0
  BY <1>1, <1>2, <1>4 DEF CNAME, Links, SameChain
<1> QED BY <1>3, <1>4

\* The other ends of the labels leave the chain alone, or end with it.
LEMMA AnswersChain == ASSUME pc # "idle", Answer PROVE Links
BY DEF Answer, Links, Ends

LEMMA AddressesChain == ASSUME pc # "idle", NEW most, Addresses(most) PROVE Links
BY DEF Addresses, Links, SameChain

LEMMA AskZoneChain == ASSUME pc # "idle", NEW z, NEW n, NEW hosts, AskZone(z, n, hosts) PROVE Links
BY DEF AskZone, Links, SameChain

\* One by one, the steps do to the chain what Links says.
LEMMA StepLinks == ASSUME IInv, [Next]_vars PROVE Links
<1> USE DEF IInv
<1>0. /\ 0 \in Levels /\ level \in Levels /\ level \in Int /\ level >= 0 /\ DOMAIN name = Levels
      /\ pc = "LOWERLEVEL" => level > 0
  BY LimitsAssumption DEF Shape, TypeOK, LevelsOK, Levels
<1>1. ASSUME Start PROVE Links
  BY <1>0, <1>1, LimitsAssumption DEF Start, Links, Begins, NoNames
<1>2. ASSUME Known PROVE Links
  BY <1>2, AnswersChain, AddressesChain DEF Known, NEWNAME
<1>3. ASSUME Cached PROVE Links
  BY <1>3, AnswersChain, AddressesChain DEF Cached, NEWNAME
<1>4. ASSUME CachedCname PROVE Links
  BY <1>4, FollowsChain DEF CachedCname, NEWNAME
<1>5. ASSUME AskRoots PROVE Links
  BY <1>5, AskZoneChain DEF AskRoots, NEWNAME
<1>6. ASSUME AskCachedNs PROVE Links
  BY <1>6, AskZoneChain DEF AskCachedNs, NEWNAME
<1>7. ASSUME LookUpNs PROVE Links
  BY <1>7, <1>0 DEF LookUpNs, HAVENS, Links, SameChain
<1>8. ASSUME NsDone PROVE Links
  BY <1>8 DEF NsDone, HAVENS, Links, SameChain
<1>9. ASSUME SERVFAIL PROVE Links
  BY <1>9, AnswersChain, AddressesChain DEF SERVFAIL
<1>10. ASSUME LOWERLEVEL PROVE Links
  BY <1>10, <1>0 DEF LOWERLEVEL, Links, SameChain
<1>11. ASSUME Silent PROVE Links
  BY <1>11 DEF Silent, where, Links, SameChain
<1>12. ASSUME NEW i, Lame(i) PROVE Links
  BY <1>12 DEF Lame, HAVEPACKET, Links, SameChain
<1>13. ASSUME NEW i, PacketCname(i) PROVE Links
  BY <1>13, FollowsChain DEF PacketCname, HAVEPACKET
<1>14. ASSUME NEW i, PacketAnswer(i) PROVE Links
  BY <1>14, AnswersChain, AddressesChain DEF PacketAnswer, HAVEPACKET
<1>15. ASSUME NEW i, Referral(i) PROVE Links
  BY <1>15, AskZoneChain DEF Referral, HAVEPACKET
<1>16. ASSUME NEW i, BadPacket(i) PROVE Links
  BY <1>16 DEF BadPacket, HAVEPACKET, Links, Ends
<1>17. ASSUME Die PROVE Links
  BY <1>17 DEF Die, Links, Ends
<1>18. ASSUME UNCHANGED vars PROVE Links
  BY <1>18 DEF vars, where, Links
<1> QED BY <1>1, <1>2, <1>3, <1>4, <1>5, <1>6, <1>7, <1>8, <1>9, <1>10, <1>11, <1>12, <1>13,
           <1>14, <1>15, <1>16, <1>17, <1>18 DEF Next, Doit, Transmit, NoServers, Packet

\* And that keeps it linked.
LEMMA LinksChain == ASSUME IInv, Chain, Links PROVE Chain'
<1>0. pc # "idle" => name[0] \in Names /\ alias \in Seq(Names) /\ Linked(rqa)
  <2>1. level \in Levels => 0 \in 0 .. level
    BY DEF Levels
  <2> QED BY <2>1, Named DEF IInv, Shape, TypeOK, Chain
<1>1. ASSUME SameChain PROVE Chain'
  BY <1>1 DEF SameChain, Chain, Linked, rqa
<1>2. ASSUME Begins PROVE Chain'
  <2>1. PICK n : n = name'[0]
    OBVIOUS
  <2>2. rqa' = Reverse(<<n>> \o <<>>)
    BY <1>2, <2>1 DEF Begins, rqa
  <2>3. <<n>> \o <<>> = <<n>>
    OBVIOUS
  <2>4. Reverse(<<n>>) = [i \in 1 .. 1 |-> <<n>>[(1 - i) + 1]]
    BY DEF Reverse
  <2>5. [i \in 1 .. 1 |-> <<n>>[(1 - i) + 1]] = <<n>>
    OBVIOUS
  <2>6. rqa' = <<n>>
    BY <2>2, <2>3, <2>4, <2>5
  <2> QED BY <1>2, <2>1, <2>6 DEF Begins, Chain, Linked
<1>3. ASSUME Ends PROVE Chain'
  BY <1>0, <1>3 DEF Ends, Chain, Linked
<1>4. ASSUME Grows PROVE Chain'
  <2>1. PICK t, n, a : t = name'[0] /\ n = name[0] /\ a = alias
    OBVIOUS
  <2>2. n \in Names /\ a \in Seq(Names) /\ t \in CnameOf[n] /\ t \in Names /\ Linked(Reverse(<<n>> \o a))
    BY <1>0, <1>4, <2>1, NamesAssumption DEF Grows, rqa
  <2>3. Linked(Reverse(<<t>> \o (<<n>> \o a)))
    BY <2>2, ChainGrows
  <2>4. rqa' = Reverse(<<t>> \o (<<n>> \o a)) /\ question' = question /\ reply' = reply
    BY <1>4, <2>1 DEF Grows, rqa
  <2> QED BY <2>3, <2>4, <1>4 DEF Chain, Linked, Grows
<1>5. ASSUME UNCHANGED <<pc, alias, question, reply, name>> PROVE Chain'
  BY <1>5 DEF Chain, Linked, rqa
<1> QED BY <1>1, <1>2, <1>3, <1>4, <1>5 DEF Links

\* For every tree of names, every alias that servers and cache may give and
\* every mix of answers, referrals and failures: the client's question heads
\* the answer, and each alias of the answer leads to the next name.
THEOREM QueryChain == Spec => []Chain
<1>1. Init => Chain
  BY DEF Init, Chain
<1>2. IInv /\ Chain /\ [Next]_vars => Chain'
  BY StepLinks, LinksChain
<1> QED BY <1>1, <1>2, Inductive, PTL DEF Spec
=============================================================================

---------------------------- MODULE ClientProofs ----------------------------
(***************************************************************************)
(* Proofs about what the programs that ask have in common.  Whatever the   *)
(* packet is, the name read out of it fits into its buffer and is one that *)
(* ends where its labels say.  The client library uses configurations      *)
(* whole and for a while, for any configurations and times at which they   *)
(* change, and tries the names expected in their order.  loglol keeps      *)
(* lines and their order, for files of any size and any deaths.  dnsfilter *)
(* keeps every line whole and in its turn, for any text, slots, exchanges  *)
(* and order of their ends.                                                *)
(***************************************************************************)
EXTENDS Clients, SequenceTheorems, FiniteSetTheorems, WellFoundedInduction, NaturalsInduction, TLAPS

(* While a name is read: behind each label that was begun comes another,   *)
(* or it is the last, of which state bytes are left.                       *)
Begun(n, heads, rest) ==
  /\ n # <<>> => 1 \in heads
  /\ n = <<>> => rest = 0
  /\ \A h \in heads : n[h] \in 1..Lab - 1 /\ (h + n[h] + 1 \in heads \/ h + n[h] = Len(n) + rest)

Chain ==
  /\ Running => \E heads \in SUBSET (1..Len(name)) : Begun(name, heads, state)
  /\ WellFormed

IInv == TypeOK /\ Chain

(* Appending a byte to a name leaves its other bytes.                      *)
LEMMA Longer ==
  ASSUME NEW S, NEW s \in Seq(S), NEW e \in S
  PROVE /\ Append(s, e) \in Seq(S) /\ Len(Append(s, e)) = Len(s) + 1 /\ Append(s, e) # <<>>
        /\ \A k \in 1..Len(s) : Append(s, e)[k] = s[k]
        /\ Append(s, e)[Len(s) + 1] = e
  OBVIOUS

(* The byte at a position inside of the packet.                            *)
LEMMA ByteHere ==
  ASSUME PacketAssumption, buf \in Packets, NEW p \in Nat, p < len
  PROVE buf[p + 1] \in 0..Byte - 1
  <1>1. buf \in Seq(0..Byte - 1) BY DEF PacketAssumption
  <1>2. p + 1 \in 1..Len(buf) BY <1>1 DEF len
  <1> QED BY <1>1, <1>2

(* Init establishes the invariant.                                         *)
LEMMA InitChain == Init => IInv
  <1> USE PacketAssumption
  <1> SUFFICES ASSUME Init PROVE IInv OBVIOUS
  <1>1. Len(buf) \in Nat BY DEF Init, PacketAssumption
  <1>2. TypeOK BY <1>1 DEF Init, TypeOK, PacketAssumption, len
  <1>3. Begun(name, {}, state) BY DEF Init, Begun
  <1>4. Chain BY <1>3 DEF Chain, WellFormed, Init, Running
  <1> QED BY <1>2, <1>4 DEF IInv

(* A failure returns no name.                                              *)
LEMMA FailsChain == IInv /\ Fails => IInv'
  <1> SUFFICES ASSUME IInv, Fails PROVE IInv' OBVIOUS
  <1>1. result' = 0 /\ UNCHANGED <<buf, start, pos, loop, state, firstcompress, name>>
    BY DEF Fails, Proto
  <1>2. TypeOK' BY <1>1 DEF IInv, TypeOK, len
  <1>3. Chain' BY <1>1 DEF Chain, WellFormed, Running
  <1> QED BY <1>2, <1>3 DEF IInv

(* A byte of a label is one less to come.                                  *)
LEMMA LetterChain == IInv /\ Letter => IInv'
  <1> USE PacketAssumption
  <1> SUFFICES ASSUME IInv, Letter PROVE IInv' OBVIOUS
  <1>1. Here \in 0..Byte - 1 BY ByteHere DEF IInv, TypeOK, Letter, Fetch, Here
  <1>2. name \in Seq(0..Byte - 1) BY DEF IInv, TypeOK
  <1>3. name' = Append(name, Here) BY DEF Letter
  <1>4. /\ name' \in Seq(0..Byte - 1) /\ Len(name') = Len(name) + 1 /\ name' # <<>>
        /\ \A k \in 1..Len(name) : name'[k] = name[k]
    BY <1>1, <1>2, <1>3, Longer
  <1>5. TypeOK'
    <2>1. buf' = buf /\ start' = start /\ firstcompress' = firstcompress /\ result' = result
          /\ pos' = pos + 1 /\ loop' = loop + 1 /\ state' = state - 1 /\ state > 0 /\ Len(name) + 1 <= NameMax
      BY DEF Letter, Fetch, Counted, Room
    <2>2. state' \in 0..Lab - 1 /\ pos' \in Nat /\ loop' \in Nat
      BY <2>1 DEF IInv, TypeOK, PacketAssumption
    <2> QED BY <1>4, <2>1, <2>2 DEF IInv, TypeOK, len
  <1>6. Chain'
    <2>1. PICK heads \in SUBSET (1..Len(name)) : Begun(name, heads, state)
      BY DEF IInv, Chain, Letter, Fetch
    <2>2. state \in Nat /\ Len(name) \in Nat /\ state' = state - 1 /\ state > 0 /\ result' = result /\ result = -1
      BY <1>2 DEF IInv, TypeOK, Letter, Fetch, Running, PacketAssumption
    <2>3. name # <<>> BY <2>1, <2>2 DEF Begun
    <2>4. \A h \in heads : name'[h] = name[h] BY <2>1, <1>4
    <2>5. Begun(name', heads, state')
      <3>1. 1 \in heads BY <2>1, <2>3 DEF Begun
      <3>2. ASSUME NEW h \in heads
            PROVE name'[h] \in 1..Lab - 1 /\ (h + name'[h] + 1 \in heads \/ h + name'[h] = Len(name') + state')
        <4>1. name'[h] = name[h] BY <2>4
        <4>2. name[h] \in 1..Lab - 1 /\ (h + name[h] + 1 \in heads \/ h + name[h] = Len(name) + state)
          BY <2>1 DEF Begun
        <4>3. Len(name') + state' = Len(name) + state BY <2>2, <1>4
        <4> QED BY <4>1, <4>2, <4>3
      <3>3. name' # <<>> BY <1>4
      <3> QED BY <3>1, <3>2, <3>3 DEF Begun
    <2>6. heads \in SUBSET (1..Len(name')) BY <2>1, <2>2, <1>4
    <2> QED BY <2>2, <2>5, <2>6 DEF Chain, WellFormed, Running
  <1> QED BY <1>5, <1>6 DEF IInv

(* A pointer leaves the name alone.                                        *)
LEMMA PointerChain == IInv /\ Pointer => IInv'
  <1> USE PacketAssumption
  <1> SUFFICES ASSUME IInv, Pointer PROVE IInv' OBVIOUS
  <1>1. pos \in Nat /\ pos < len /\ pos + 1 < len /\ buf \in Packets /\ len \in Nat
    BY DEF IInv, TypeOK, Pointer, Fetch, PacketAssumption, len
  <1>2. Here \in 0..Byte - 1 BY <1>1, ByteHere DEF Here
  <1>3. buf[pos + 2] \in 0..Byte - 1
    <2>1. pos + 1 \in Nat /\ (pos + 1) + 1 = pos + 2 BY <1>1
    <2>2. buf[(pos + 1) + 1] \in 0..Byte - 1 BY <1>1, <2>1, ByteHere
    <2> QED BY <2>1, <2>2
  <1>4. /\ buf' = buf /\ start' = start /\ name' = name /\ state' = state /\ result' = result
        /\ loop' = loop + 1 /\ Here >= Ptr /\ pos' = (Here - Ptr) * Byte + buf[pos + 2]
        /\ firstcompress' = IF firstcompress = 0 THEN pos + 2 ELSE firstcompress
    BY DEF Pointer, Fetch, Counted, Behind
  <1>5. pos' \in Nat
    <2>1. Here - Ptr \in Nat /\ Byte \in Nat BY <1>2, <1>4 DEF PacketAssumption
    <2>2. (Here - Ptr) * Byte \in Nat BY <2>1
    <2> QED BY <1>3, <1>4, <2>2
  <1>6. firstcompress' \in 0..len
    <2>1. firstcompress \in 0..len BY DEF IInv, TypeOK
    <2>2. pos + 2 \in 0..len BY <1>1
    <2> QED BY <1>4, <2>1, <2>2
  <1>7. TypeOK' BY <1>4, <1>5, <1>6 DEF IInv, TypeOK, len
  <1>8. Chain' BY <1>4 DEF IInv, Chain, WellFormed, Running
  <1> QED BY <1>7, <1>8 DEF IInv

(* A length comes where the label before it ends, and the empty label ends *)
(* the name.                                                               *)
LEMMA LengthChain == IInv /\ Length => IInv'
  <1> USE PacketAssumption
  <1> SUFFICES ASSUME IInv, Length PROVE IInv' OBVIOUS
  <1> DEFINE last == Len(name) + 1
  <1>1. pos \in Nat /\ pos < len /\ len \in Nat /\ result = -1 /\ state = 0
    BY DEF IInv, TypeOK, Length, Fetch, PacketAssumption, len, Running
  <1>2. Here \in 0..Byte - 1 /\ Here < Lab
    BY <1>1, ByteHere DEF IInv, TypeOK, Length, Here
  <1>3. name \in Seq(0..Byte - 1) BY DEF IInv, TypeOK
  <1>4. name' = Append(name, Here) BY DEF Length, Copied
  <1>5. /\ name' \in Seq(0..Byte - 1) /\ Len(name') = last /\ name' # <<>>
        /\ (\A k \in 1..Len(name) : name'[k] = name[k]) /\ name'[last] = Here
    BY <1>2, <1>3, <1>4, Longer
  <1>6. /\ buf' = buf /\ start' = start /\ firstcompress' = firstcompress
        /\ pos' = pos + 1 /\ loop' = loop + 1 /\ state' = Here /\ Len(name) + 1 <= NameMax
        /\ result' = IF Here # 0 THEN -1 ELSE IF firstcompress # 0 THEN firstcompress ELSE pos + 1
    BY DEF Length, Fetch, Counted, Room
  <1>7. TypeOK'
    <2>1. state' \in 0..Lab - 1 /\ pos' \in Nat /\ loop' \in Nat /\ result' \in -1..len
      BY <1>1, <1>2, <1>6 DEF IInv, TypeOK, PacketAssumption
    <2> QED BY <1>5, <1>6, <2>1 DEF IInv, TypeOK, len
  <1>8. Chain'
    <2>1. PICK heads \in SUBSET (1..Len(name)) : Begun(name, heads, 0)
      BY <1>1 DEF IInv, Chain, Running
    <2>2. Len(name) \in Nat BY <1>3
    <2> DEFINE more == heads \cup {last}
    <2>3. more \in SUBSET (1..Len(name'))
      <3>1. 1..Len(name) \subseteq 1..last /\ last \in 1..last BY <2>2
      <3> QED BY <2>1, <3>1, <1>5
    <2>4. 1 \in more BY <2>1, <2>2 DEF Begun
    <2>5. \A h \in heads : name'[h] = name[h] /\ name'[h] \in 1..Lab - 1 /\ h + name'[h] + 1 \in more
      <3>1. \A h \in heads : name'[h] = name[h] BY <2>1, <1>5
      <3>2. \A h \in heads : name[h] \in 1..Lab - 1 /\ (h + name[h] + 1 \in heads \/ h + name[h] = Len(name))
        BY <2>1, <2>2 DEF Begun
      <3> QED BY <3>1, <3>2, <2>2
    <2>6. CASE Here # 0
      <3>1. result' = -1 /\ state' = Here /\ Here \in 1..Lab - 1 BY <2>6, <1>2, <1>6 DEF PacketAssumption
      <3>2. last + name'[last] = Len(name') + state' BY <1>5, <3>1
      <3>3. \A h \in more : name'[h] \in 1..Lab - 1 /\ (h + name'[h] + 1 \in more \/ h + name'[h] = Len(name') + state')
        BY <2>5, <3>1, <3>2, <1>5
      <3>4. Begun(name', more, state') BY <2>4, <3>3, <1>5 DEF Begun
      <3> QED BY <2>3, <3>1, <3>4 DEF Chain, WellFormed, Running
    <2>7. CASE Here = 0
      <3>1. result' # -1 BY <2>7, <1>1, <1>6 DEF IInv, TypeOK
      <3>2. \A h \in more : name'[h] < Lab /\ IF name'[h] = 0 THEN h = Len(name') ELSE h + name'[h] + 1 \in more
        <4>1. name'[last] = 0 /\ last = Len(name') BY <2>7, <1>5
        <4>2. 0 < Lab /\ Lab \in Nat BY DEF PacketAssumption
        <4> QED BY <2>5, <4>1, <4>2
      <3>3. Labels(name', more) BY <2>4, <3>2 DEF Labels
      <3> QED BY <2>3, <3>1, <3>3 DEF Chain, WellFormed, Running
    <2> QED BY <2>6, <2>7
  <1> QED BY <1>7, <1>8 DEF IInv

(* The invariant holds throughout.                                         *)
LEMMA PacketInvariant == Spec => []IInv
  <1>1. Init => IInv BY InitChain
  <1>2. IInv /\ [Next]_vars => IInv'
    <2> SUFFICES ASSUME IInv, [Next]_vars PROVE IInv' OBVIOUS
    <2>1. CASE Fails BY <2>1, FailsChain
    <2>2. CASE Letter BY <2>2, LetterChain
    <2>3. CASE Pointer BY <2>3, PointerChain
    <2>4. CASE Length BY <2>4, LengthChain
    <2>5. CASE UNCHANGED vars BY <2>5 DEF vars, IInv, TypeOK, Chain, WellFormed, Running, len
    <2> QED BY <2>1, <2>2, <2>3, <2>4, <2>5 DEF Next
  <1> QED BY <1>1, <1>2, PTL DEF Spec

(* dns_packet.c:42-64: for every packet and every size of the buffer, what *)
(* is written fits, and every position is one the code may look at or      *)
(* refuses.                                                                *)
THEOREM PacketTypes == Spec => []TypeOK
  BY PacketInvariant, PTL DEF IInv

(* dns_packet.c:50, :63: every name that is returned is a chain of labels  *)
(* with its end at its end.                                                *)
THEOREM PacketWellFormed == Spec => []WellFormed
  <1>1. IInv => WellFormed BY DEF IInv, Chain
  <1> QED BY <1>1, PacketInvariant, PTL

-----------------------------------------------------------------------------
(* What several of the proofs below need.                                  *)
LEMMA LeastNatural ==
  ASSUME NEW S \in SUBSET Nat, S # {}
  PROVE  \E n \in S : \A m \in S : n <= m
<1> DEFINE less == OpToRel(<, Nat)
<1>1. \E n \in S : \A m \in S : ~(<<m, n>> \in less)
  BY NatLessThanWellFounded, WFMin
<1>2. less = {s \in Nat \X Nat : s[1] < s[2]}
  BY Zenon DEF OpToRel
<1>3. \A m, n \in Nat : m < n => <<m, n>> \in less
  <2> HIDE DEF less
  <2> QED  BY <1>2
<1> HIDE DEF less
<1>4. PICK n \in S : \A m \in S : ~(<<m, n>> \in less)
  BY <1>1
<1>5. \A m \in S : ~(m < n)
  BY <1>3, <1>4, Zenon
<1> QED
  BY <1>5

-----------------------------------------------------------------------------
(* What FlattenSeq makes of the first sequences, place by place.           *)
Flattens(f, s, n) == f = [i \in 1..n |-> IF i = 1 THEN s[i] ELSE f[i - 1] \o s[i]]

LEMMA FlattensExists ==
  ASSUME NEW s, NEW n \in Nat
  PROVE  \E f : Flattens(f, s, n)
<1> DEFINE Bad == {k \in Nat : ~\E f : Flattens(f, s, k)}
<1> SUFFICES ASSUME Bad # {} PROVE FALSE OBVIOUS
<1>1. PICK k \in Bad : \A j \in Bad : k <= j
  BY LeastNatural, Bad \in SUBSET Nat
<1>2. k # 0
  <2>1. Flattens([i \in 1..0 |-> 0], s, 0)
    BY DEF Flattens
  <2> QED BY <2>1
<1>3. k \in Nat /\ k - 1 \in Nat /\ k - 1 \notin Bad
  BY <1>1, <1>2
<1>4. PICK f : Flattens(f, s, k - 1)
  BY <1>3
<1> DEFINE g == [i \in 1..k |-> IF i < k THEN f[i] ELSE IF i = 1 THEN s[i] ELSE f[i - 1] \o s[i]]
<1>5. \A i \in 1..k : g[i] = IF i = 1 THEN s[i] ELSE g[i - 1] \o s[i]
  <2> SUFFICES ASSUME NEW i \in 1..k PROVE g[i] = IF i = 1 THEN s[i] ELSE g[i - 1] \o s[i]
    OBVIOUS
  <2>1. i # 1 => i - 1 \in 1..k /\ i - 1 < k
    BY <1>3
  <2>2. i # 1 => g[i - 1] = f[i - 1]
    BY <2>1
  <2>3. i < k => f[i] = IF i = 1 THEN s[i] ELSE f[i - 1] \o s[i]
    <3>1. i < k => i \in 1..k - 1
      BY <1>3
    <3> HIDE DEF g
    <3> QED BY <1>4, <3>1, Zenon DEF Flattens
  <2>4. g[i] = IF i < k THEN f[i] ELSE IF i = 1 THEN s[i] ELSE f[i - 1] \o s[i]
    OBVIOUS
  <2> HIDE DEF g
  <2> QED BY <2>2, <2>3, <2>4, Zenon
<1>6. g = [i \in 1..k |-> g[i]]
  OBVIOUS
<1> HIDE DEF g
<1>7. Flattens(g, s, k)
  <2>1. [i \in 1..k |-> g[i]] = [i \in 1..k |-> IF i = 1 THEN s[i] ELSE g[i - 1] \o s[i]]
    BY <1>5, Zenon
  <2> QED BY <1>6, <2>1, Zenon DEF Flattens
<1> QED BY <1>1, <1>7

LEMMA FlattensStep ==
  ASSUME NEW s, NEW n \in Nat, NEW f, Flattens(f, s, n), NEW i \in 1..n
  PROVE  f[i] = IF i = 1 THEN s[i] ELSE f[i - 1] \o s[i]
<1> DEFINE h == [j \in 1..n |-> IF j = 1 THEN s[j] ELSE f[j - 1] \o s[j]]
<1>1. h[i] = IF i = 1 THEN s[i] ELSE f[i - 1] \o s[i]
  BY Zenon
<1>2. f = h BY Zenon DEF Flattens
<1> QED BY <1>1, <1>2, Zenon

LEMMA FlattensTypes ==
  ASSUME NEW Element, NEW s, NEW n \in Nat, NEW f, Flattens(f, s, n), \A i \in 1..n : s[i] \in Seq(Element)
  PROVE  \A i \in 1..n : f[i] \in Seq(Element)
<1>1. \A u, v \in Seq(Element) : u \o v \in Seq(Element)
  BY ConcatProperties
<1> DEFINE Bad == {k \in 1..n : f[k] \notin Seq(Element)}
<1> SUFFICES ASSUME Bad # {} PROVE FALSE OBVIOUS
<1>2. PICK k \in Bad : \A j \in Bad : k <= j
  <2>1. Bad \in SUBSET (1..n) BY Zenon
  <2> HIDE DEF Bad
  <2>2. Bad \in SUBSET Nat BY <2>1
  <2> QED BY <2>2, LeastNatural
<1>3. k \in 1..n /\ f[k] \notin Seq(Element)
  BY Zenon
<1>4. f[k] = IF k = 1 THEN s[k] ELSE f[k - 1] \o s[k]
  BY <1>3, FlattensStep
<1>5. k # 1 => f[k - 1] \in Seq(Element)
  <2> SUFFICES ASSUME k # 1 PROVE f[k - 1] \in Seq(Element) OBVIOUS
  <2>1. k - 1 \in 1..n /\ ~(k <= k - 1) BY <1>3
  <2>2. k - 1 \notin Bad BY <1>2, <2>1
  <2> QED BY <2>1, <2>2
<1> QED BY <1>1, <1>3, <1>4, <1>5, Zenon

LEMMA FlattensAgree ==
  ASSUME NEW s, NEW t, NEW n \in Nat, NEW m \in Nat, n <= m, NEW f, NEW g,
         Flattens(f, s, n), Flattens(g, t, m), \A i \in 1..n : s[i] = t[i]
  PROVE  \A i \in 1..n : f[i] = g[i]
<1> DEFINE Bad == {k \in 1..n : f[k] # g[k]}
<1> SUFFICES ASSUME Bad # {} PROVE FALSE OBVIOUS
<1>1. PICK k \in Bad : \A j \in Bad : k <= j
  <2>1. Bad \in SUBSET Nat OBVIOUS
  <2> HIDE DEF Bad
  <2> QED BY <2>1, LeastNatural
<1>2. k \in 1..n /\ k \in 1..m /\ f[k] # g[k] BY <1>1
<1>3. f[k] = IF k = 1 THEN s[k] ELSE f[k - 1] \o s[k]
  BY <1>2, FlattensStep
<1>4. g[k] = IF k = 1 THEN t[k] ELSE g[k - 1] \o t[k]
  BY <1>2, FlattensStep
<1>5. k # 1 => f[k - 1] = g[k - 1]
  <2>1. k # 1 => k - 1 \in 1..n /\ ~(k <= k - 1) BY <1>2
  <2> QED BY <1>1, <2>1
<1> QED BY <1>2, <1>3, <1>4, <1>5, Zenon

-----------------------------------------------------------------------------
(* dns_rcrw.c, dns_rcip.c                                                  *)

\* A reading has the fields that it has.
Reading(r) ==
  /\ r = [ok |-> r.ok, uses |-> r.uses, deadline |-> r.deadline, data |-> r.data]
  /\ r.deadline \in Int

\* Time and the configurations: those from the one in force on have not been left.
Clock ==
  /\ rnow \in Nat /\ rnow <= MaxTime /\ version \in 1..Len(Configs)
  /\ left \in [1..Len(Configs) -> Int]
  /\ \A v \in version..Len(Configs) : left[v] = MaxTime

\* What was read was in force as a whole when it was read, or later.
InForce(v, deadline) == v \in 1..version /\ left[v] >= deadline - Life
RewriteRead ==
  /\ Reading(rewrite) /\ rewrite.deadline <= rnow + Life
  /\ rewrite.ok = 1 => \E v : /\ InForce(v, rewrite.deadline)
                              /\ R!RulesReadable(Configs[v]) /\ rewrite.data = R!Rules(Configs[v])
ResolvRead ==
  /\ Reading(resolv) /\ resolv.deadline <= rnow + Life
  /\ resolv.ok = 1 => \E v : /\ InForce(v, resolv.deadline)
                             /\ R!IpsReadable(Configs[v]) /\ resolv.data = R!Ips(Configs[v])

Readings == Clock /\ RewriteRead /\ ResolvRead

LEMMA BoundsAre ==
  ASSUME R!ResolveBounds
  PROVE  Len(Configs) \in Nat /\ Len(Configs) >= 1 /\ DOMAIN Configs = 1..Len(Configs) /\ Life \in Nat /\ MaxTime \in Nat
<1>1. Configs \in Seq(R!ToSet(Configs)) /\ Configs # <<>>
  BY DEF R!ResolveBounds
<1> HIDE DEF R!ToSet
<1> QED BY <1>1 DEF R!ResolveBounds

\* A reading that is used, and one that failed.
LEMMA UsedKept ==
  ASSUME NEW r, Reading(r)
  PROVE  Reading(R!Used(r)) /\ R!Used(r).ok = r.ok /\ R!Used(r).deadline = r.deadline /\ R!Used(r).data = r.data
<1>1. PICK o, u, e, d : r = [ok |-> o, uses |-> u, deadline |-> e, data |-> d] /\ e \in Int
  BY DEF Reading
<1>2. R!Used(r) = [ok |-> o, uses |-> u - 1, deadline |-> e, data |-> d]
  BY <1>1 DEF R!Used
<1> QED BY <1>1, <1>2 DEF Reading

LEMMA FailedKept ==
  ASSUME NEW r, Reading(r), NEW a
  PROVE  Reading(R!Failed(r, a)) /\ R!Failed(r, a).ok = 0 /\ R!Failed(r, a).deadline = r.deadline
<1>1. PICK o, u, e, d : r = [ok |-> o, uses |-> u, deadline |-> e, data |-> d] /\ e \in Int
  BY DEF Reading
<1>2. R!Failed(r, a) = [ok |-> 0, uses |-> u, deadline |-> e, data |-> a]
  <2>1. [[ok |-> o, uses |-> u, deadline |-> e, data |-> d] EXCEPT !.ok = 0]
          = [ok |-> 0, uses |-> u, deadline |-> e, data |-> d]
    OBVIOUS
  <2>2. [[ok |-> 0, uses |-> u, deadline |-> e, data |-> d] EXCEPT !.data = a]
          = [ok |-> 0, uses |-> u, deadline |-> e, data |-> a]
    OBVIOUS
  <2>3. R!Failed(r, a) = [[r EXCEPT !.ok = 0] EXCEPT !.data = a]
    BY DEF R!Failed
  <2> QED BY <1>1, <2>1, <2>2, <2>3
<1> QED BY <1>1, <1>2 DEF Reading

LEMMA ReadNow ==
  ASSUME R!ResolveBounds, Clock, NEW d
  PROVE  /\ Reading(R!Read(d)) /\ R!Read(d).ok = 1 /\ R!Read(d).deadline = rnow + Life /\ R!Read(d).data = d
         /\ InForce(version, rnow + Life)
<1>1. R!Read(d).ok = 1 /\ R!Read(d).deadline = rnow + Life /\ R!Read(d).data = d
  BY DEF R!Read
<1>2. Reading(R!Read(d))
  BY BoundsAre DEF R!Read, Reading, Clock
<1>3. InForce(version, rnow + Life)
  BY BoundsAre DEF InForce, Clock
<1> QED BY <1>1, <1>2, <1>3

LEMMA InitReadings == ASSUME R!ResolveBounds, R!Init PROVE Readings
<1>1. Clock
  BY BoundsAre DEF R!Init, Clock
<1>2. RewriteRead /\ ResolvRead
  BY BoundsAre DEF R!Init, R!Unread, RewriteRead, ResolvRead, Reading
<1> QED BY <1>1, <1>2 DEF Readings

\* A call that takes a step with the clock and the configurations left alone.
LEMMA ClockKept == Clock /\ UNCHANGED R!world => Clock'
BY DEF Clock, R!world

LEMMA RewriteKept ==
  ASSUME RewriteRead, UNCHANGED R!world,
         \/ rewrite' = rewrite \/ rewrite' = R!Used(rewrite)
         \/ \E d : rewrite' = R!Failed(rewrite, d)
  PROVE  RewriteRead'
<1>1. Reading(rewrite) /\ rewrite.deadline <= rnow + Life
  BY DEF RewriteRead
<1>2. /\ Reading(rewrite') /\ rewrite'.deadline = rewrite.deadline
      /\ rewrite'.ok = 0 \/ (rewrite'.ok = rewrite.ok /\ rewrite'.data = rewrite.data)
  BY <1>1, UsedKept, FailedKept
<1>3. \A v, d : InForce(v, d)' <=> InForce(v, d)
  BY DEF InForce, R!world
<1> QED BY <1>1, <1>2, <1>3 DEF RewriteRead, R!world

LEMMA ResolvKept ==
  ASSUME ResolvRead, UNCHANGED R!world,
         \/ resolv' = resolv \/ resolv' = R!Used(resolv)
         \/ \E d : resolv' = R!Failed(resolv, d)
  PROVE  ResolvRead'
<1>1. Reading(resolv) /\ resolv.deadline <= rnow + Life
  BY DEF ResolvRead
<1>2. /\ Reading(resolv') /\ resolv'.deadline = resolv.deadline
      /\ resolv'.ok = 0 \/ (resolv'.ok = resolv.ok /\ resolv'.data = resolv.data)
  BY <1>1, UsedKept, FailedKept
<1>3. \A v, d : InForce(v, d)' <=> InForce(v, d)
  BY DEF InForce, R!world
<1> QED BY <1>1, <1>2, <1>3 DEF ResolvRead, R!world

\* A reading that is made now is one of the configuration in force.
LEMMA RewriteNew ==
  ASSUME R!ResolveBounds, Clock, UNCHANGED R!world,
         R!RulesReadable(Configs[version]), rewrite' = R!Read(R!Rules(Configs[version]))
  PROVE  RewriteRead'
<1>1. \A v, d : InForce(v, d)' <=> InForce(v, d)
  BY DEF InForce, R!world
<1>2. /\ Reading(rewrite') /\ rewrite'.deadline = rnow + Life /\ rewrite'.data = R!Rules(Configs[version])
      /\ InForce(version, rnow + Life)
  BY ReadNow
<1>3. rnow' = rnow /\ rnow + Life \in Int
  BY BoundsAre DEF R!world, Clock
<1> QED BY <1>1, <1>2, <1>3 DEF RewriteRead

LEMMA ResolvNew ==
  ASSUME R!ResolveBounds, Clock, UNCHANGED R!world,
         R!IpsReadable(Configs[version]), resolv' = R!Read(R!Ips(Configs[version]))
  PROVE  ResolvRead'
<1>1. \A v, d : InForce(v, d)' <=> InForce(v, d)
  BY DEF InForce, R!world
<1>2. /\ Reading(resolv') /\ resolv'.deadline = rnow + Life /\ resolv'.data = R!Ips(Configs[version])
      /\ InForce(version, rnow + Life)
  BY ReadNow
<1>3. rnow' = rnow /\ rnow + Life \in Int
  BY BoundsAre DEF R!world, Clock
<1> QED BY <1>1, <1>2, <1>3 DEF ResolvRead

LEMMA QualifyKeeps ==
  ASSUME R!ResolveBounds, Readings, NEW n \in Names, R!Qualify(n)
  PROVE  Readings'
<1>1. UNCHANGED R!world /\ UNCHANGED resolv
  BY DEF R!Qualify
<1>2. RewriteRead'
  <2>1. CASE rewrite' = R!Used(rewrite)
    BY <1>1, <2>1, RewriteKept DEF Readings
  <2>2. CASE R!RulesReadable(Configs[version]) /\ rewrite' = R!Read(R!Rules(Configs[version]))
    BY <1>1, <2>2, RewriteNew DEF Readings
  <2>3. CASE \E d : rewrite' = R!Failed(rewrite, d)
    BY <1>1, <2>3, RewriteKept DEF Readings
  <2> QED BY <2>1, <2>2, <2>3 DEF R!Qualify
<1> QED BY <1>1, <1>2, ClockKept, ResolvKept DEF Readings

LEMMA TryKeeps ==
  ASSUME R!ResolveBounds, Readings, R!Try \/ R!Fail
  PROVE  Readings'
<1>1. UNCHANGED R!world /\ UNCHANGED rewrite
  BY DEF R!Try, R!Fail
<1>2. ResolvRead'
  <2>1. CASE resolv' = R!Used(resolv) \/ \E d : resolv' = R!Failed(resolv, d)
    BY <1>1, <2>1, ResolvKept DEF Readings
  <2>2. CASE R!IpsReadable(Configs[version]) /\ resolv' = R!Read(R!Ips(Configs[version]))
    BY <1>1, <2>2, ResolvNew DEF Readings
  <2> QED BY <2>1, <2>2 DEF R!Try, R!Fail
<1> QED BY <1>1, <1>2, ClockKept, RewriteKept DEF Readings

LEMMA RestKeeps ==
  ASSUME Readings, UNCHANGED <<R!world, rewrite, resolv>>
  PROVE  Readings'
BY ClockKept, RewriteKept, ResolvKept DEF Readings

\* A configuration that goes out of force now was in force when it was read.
LEMMA ReconfigureKeeps ==
  ASSUME R!ResolveBounds, Readings, R!Reconfigure
  PROVE  Readings'
<1>1. /\ version < Len(Configs) /\ version' = version + 1 /\ left' = [left EXCEPT ![version] = rnow]
      /\ rnow' = rnow /\ rewrite' = rewrite /\ resolv' = resolv
  BY DEF R!Reconfigure
<1>2. Clock'
  BY <1>1, BoundsAre DEF Readings, Clock
<1>3. ASSUME NEW v, NEW d \in Int, d <= rnow + Life, InForce(v, d)
      PROVE  InForce(v, d)'
  BY <1>1, <1>3, BoundsAre DEF InForce, Readings, Clock
<1>4. RewriteRead'
  BY <1>1, <1>3 DEF Readings, RewriteRead, Reading
<1>5. ResolvRead'
  BY <1>1, <1>3 DEF Readings, ResolvRead, Reading
<1> QED BY <1>2, <1>4, <1>5 DEF Readings

LEMMA TickKeeps ==
  ASSUME R!ResolveBounds, Readings, R!Tick
  PROVE  Readings'
<1>1. /\ rnow < MaxTime /\ rnow' = rnow + 1 /\ UNCHANGED <<version, left, rewrite, resolv>>
  BY DEF R!Tick
<1>2. Clock'
  BY <1>1, BoundsAre DEF Readings, Clock
<1>3. \A d \in Int : d <= rnow + Life => d <= rnow' + Life
  BY <1>1, BoundsAre DEF Readings, Clock
<1>4. \A v, d : InForce(v, d)' <=> InForce(v, d)
  BY <1>1 DEF InForce
<1>5. RewriteRead'
  BY <1>1, <1>3, <1>4 DEF Readings, RewriteRead, Reading
<1>6. ResolvRead'
  BY <1>1, <1>3, <1>4 DEF Readings, ResolvRead, Reading
<1> QED BY <1>2, <1>5, <1>6 DEF Readings

LEMMA ReadingsKept == ASSUME R!ResolveBounds PROVE Readings /\ [R!Next]_R!vars => Readings'
<1> SUFFICES ASSUME Readings, [R!Next]_R!vars PROVE Readings' OBVIOUS
<1>1. CASE \E n \in Names : R!Qualify(n)
  BY <1>1, QualifyKeeps
<1>2. CASE R!Try \/ R!Fail
  BY <1>2, TryKeeps
<1>3. CASE R!TryLiteral \/ R!Return \/ UNCHANGED R!vars
  BY <1>3, RestKeeps DEF R!TryLiteral, R!Return, R!vars
<1>4. CASE R!Reconfigure
  BY <1>4, ReconfigureKeeps
<1>5. CASE R!Tick
  BY <1>5, TickKeeps
<1> QED BY <1>1, <1>2, <1>3, <1>4, <1>5 DEF R!Next

\* A reading that is used is not older than Life.
LEMMA GoodRecent ==
  ASSUME R!ResolveBounds, Readings, NEW r, r.deadline \in Int, ~(r.deadline < rnow), NEW v, InForce(v, r.deadline)
  PROVE  Configs[v] \in R!Recent
<1>1. v \in 1..version /\ left[v] >= r.deadline - Life
  BY DEF InForce
<1>2. left[v] \in Int /\ rnow \in Int /\ Life \in Int
  BY <1>1, BoundsAre DEF Readings, Clock
<1>3. left[v] >= rnow - Life
  BY <1>1, <1>2
<1> QED BY <1>1, <1>3, Zenon DEF R!Recent

LEMMA NowRecent ==
  ASSUME R!ResolveBounds, Readings
  PROVE  Configs[version] \in R!Recent
BY BoundsAre DEF R!Recent, Readings, Clock

(* dns_rcrw.c:117-126, dns_rcip.c:71-81: for all configurations, and any   *)
(* times at which they change, what a lookup uses is one of them as a      *)
(* whole, no older than Life.                                              *)
THEOREM FreshAlways == ASSUME R!ResolveBounds PROVE R!Spec => R!Fresh
<1>1. R!Init => Readings
  BY InitReadings
<1>2. Readings /\ [R!Next]_R!vars => Readings'
  BY ReadingsKept
<1> DEFINE Step ==
      /\ (rpc = "idle" /\ rpc' = "try") => \E c \in R!Recent : R!RulesReadable(c) /\ rewrite'.data = R!Rules(c)
      /\ R!Try => \E c \in R!Recent : R!IpsReadable(c) /\ resolv'.data = R!Ips(c)
<1>3. Readings /\ [R!Next]_R!vars => [Step]_R!vars
  <2> SUFFICES ASSUME Readings, R!Next PROVE Step
    OBVIOUS
  <2>1. ASSUME rpc = "idle", rpc' = "try"
        PROVE  \E c \in R!Recent : R!RulesReadable(c) /\ rewrite'.data = R!Rules(c)
    <3>1. PICK n \in Names : R!Qualify(n)
      BY <2>1 DEF R!Next, R!TryLiteral, R!Try, R!Fail, R!Return, R!Reconfigure, R!Tick, R!call
    <3>2. \/ R!Good(rewrite) /\ rewrite' = R!Used(rewrite)
          \/ R!RulesReadable(Configs[version]) /\ rewrite' = R!Read(R!Rules(Configs[version]))
      BY <2>1, <3>1 DEF R!Qualify
    <3>3. CASE R!Good(rewrite) /\ rewrite' = R!Used(rewrite)
      <4>1. PICK v : /\ InForce(v, rewrite.deadline)
                     /\ R!RulesReadable(Configs[v]) /\ rewrite.data = R!Rules(Configs[v])
        BY <3>3 DEF R!Good, Readings, RewriteRead
      <4>2. Configs[v] \in R!Recent
        BY <3>3, <4>1, GoodRecent DEF R!Good, Readings, RewriteRead, Reading
      <4>3. rewrite'.data = rewrite.data
        BY <3>3, UsedKept DEF Readings, RewriteRead
      <4> QED BY <4>1, <4>2, <4>3
    <3>4. CASE R!RulesReadable(Configs[version]) /\ rewrite' = R!Read(R!Rules(Configs[version]))
      <4>1. rewrite'.data = R!Rules(Configs[version])
        BY <3>4 DEF R!Read
      <4> QED BY <3>4, <4>1, NowRecent
    <3> QED BY <3>2, <3>3, <3>4
  <2>2. ASSUME R!Try
        PROVE  \E c \in R!Recent : R!IpsReadable(c) /\ resolv'.data = R!Ips(c)
    <3>2. \/ R!Good(resolv) /\ resolv' = R!Used(resolv)
          \/ R!IpsReadable(Configs[version]) /\ resolv' = R!Read(R!Ips(Configs[version]))
      BY <2>2 DEF R!Try
    <3>3. CASE R!Good(resolv) /\ resolv' = R!Used(resolv)
      <4>1. PICK v : /\ InForce(v, resolv.deadline)
                     /\ R!IpsReadable(Configs[v]) /\ resolv.data = R!Ips(Configs[v])
        BY <3>3 DEF R!Good, Readings, ResolvRead
      <4>2. Configs[v] \in R!Recent
        BY <3>3, <4>1, GoodRecent DEF R!Good, Readings, ResolvRead, Reading
      <4>3. resolv'.data = resolv.data
        BY <3>3, UsedKept DEF Readings, ResolvRead
      <4> QED BY <4>1, <4>2, <4>3
    <3>4. CASE R!IpsReadable(Configs[version]) /\ resolv' = R!Read(R!Ips(Configs[version]))
      <4>1. resolv'.data = R!Ips(Configs[version])
        BY <3>4 DEF R!Read
      <4> QED BY <3>4, <4>1, NowRecent
    <3> QED BY <3>2, <3>3, <3>4
  <2> QED BY <2>1, <2>2
<1> QED BY <1>1, <1>2, <1>3, PTL DEF R!Spec, R!Fresh

-----------------------------------------------------------------------------
(* dns_ipq.c: the names that are tried.                                     *)

(* Sequences of sequences joined: what is written and what is on its way   *)
(* in dnsfilter.c:100-211.                                                 *)
LEMMA Assembled ==
  ASSUME NEW s, NEW n \in Nat, n # 0, Len(s) = n
  PROVE  \E f : Flattens(f, s, n) /\ R!FlattenSeq(s) = f[n]
<1> DEFINE f == CHOOSE g : g = [h \in 1..Len(s) |-> IF h = 1 THEN s[h] ELSE g[h - 1] \o s[h]]
<1>1. \E g : g = [h \in 1..Len(s) |-> IF h = 1 THEN s[h] ELSE g[h - 1] \o s[h]]
  BY FlattensExists DEF Flattens
<1>2. f = [h \in 1..Len(s) |-> IF h = 1 THEN s[h] ELSE f[h - 1] \o s[h]]
  BY <1>1, Zenon
<1>3. R!FlattenSeq(s) = f[Len(s)]
  BY Zenon DEF R!FlattenSeq
<1> HIDE DEF f
<1> QED BY <1>2, <1>3 DEF Flattens

\* What is joined has the places of both.
JoinOf(w, u, v) ==
  /\ Len(u) \in Nat /\ Len(v) \in Nat /\ Len(w) = Len(u) + Len(v)
  /\ \A j \in 1..Len(u) : w[j] = u[j]
  /\ \A j \in 1..Len(v) : w[Len(u) + j] = v[j]

LEMMA ConcatJoined ==
  ASSUME NEW Element, NEW u \in Seq(Element), NEW v \in Seq(Element)
  PROVE  JoinOf(u \o v, u, v)
<1>1. Len(u \o v) = Len(u) + Len(v) /\ Len(u) \in Nat /\ Len(v) \in Nat OBVIOUS
<1>2. \A j \in 1..Len(u) : (u \o v)[j] = u[j] OBVIOUS
<1>3. \A j \in 1..Len(v) : (u \o v)[Len(u) + j] = v[j] OBVIOUS
<1> QED BY <1>1, <1>2, <1>3, Zenon DEF JoinOf

\* Where the parts of what was joined begin.
Offsets(o, f, s, n) ==
  /\ o = [k \in 1..n + 1 |-> IF k = 1 THEN 0 ELSE Len(f[k - 1])]
  /\ \A k \in 1..n + 1 : o[k] \in Nat
  /\ \A k \in 1..n : /\ o[k + 1] = o[k] + Len(s[k])
                     /\ \A j \in 1..Len(s[k]) : f[n][o[k] + j] = s[k][j]

LEMMA FlattensBegins ==
  ASSUME NEW Element, NEW s, NEW n \in Nat, NEW f, Flattens(f, s, n), \A h \in 1..n : s[h] \in Seq(Element)
  PROVE  \A k \in 1..n : \A m \in k..n : Len(f[k]) <= Len(f[m]) /\ \A j \in 1..Len(f[k]) : f[m][j] = f[k][j]
<1>0. \A h \in 1..n : f[h] = IF h = 1 THEN s[h] ELSE f[h - 1] \o s[h]
  BY FlattensStep
<1>1. \A m \in 1..n : f[m] \in Seq(Element)
  BY FlattensTypes
<1> SUFFICES ASSUME NEW k \in 1..n
             PROVE  \A m \in k..n : Len(f[k]) <= Len(f[m]) /\ \A j \in 1..Len(f[k]) : f[m][j] = f[k][j]
  OBVIOUS
<1> DEFINE Fine(m) == Len(f[k]) <= Len(f[m]) /\ \A j \in 1..Len(f[k]) : f[m][j] = f[k][j]
           Bad == {m \in k..n : ~Fine(m)}
<1> SUFFICES ASSUME Bad # {} PROVE FALSE
  BY Zenon
<1>2. PICK m \in Bad : \A j \in Bad : m <= j
  <2>1. Bad \in SUBSET Nat
    <3> HIDE DEF Fine
    <3> QED OBVIOUS
  <2> HIDE DEF Bad
  <2> QED BY <2>1, LeastNatural
<1>3. m \in k..n /\ ~Fine(m)
  BY Zenon
<1>4. Fine(k)
  BY <1>1
<1> HIDE DEF Fine
<1>5. m - 1 \in k..n /\ m \in 1..n /\ m - 1 \in 1..n /\ m # 1 /\ ~(m <= m - 1)
  BY <1>3, <1>4
<1>6. Fine(m - 1)
  BY <1>2, <1>5, Zenon
<1>7. f[m] = IF m = 1 THEN s[m] ELSE f[m - 1] \o s[m]
  BY <1>0, <1>5, Zenon
<1>8. f[m] = f[m - 1] \o s[m]
  BY <1>5, <1>7, Zenon
<1>9. f[m - 1] \in Seq(Element) /\ s[m] \in Seq(Element) /\ f[k] \in Seq(Element)
  BY <1>1, <1>5
<1>10. JoinOf(f[m], f[m - 1], s[m])
  <2>1. JoinOf(f[m - 1] \o s[m], f[m - 1], s[m]) BY <1>9, ConcatJoined
  <2> QED BY <1>8, <2>1, Zenon
<1>11. Fine(m)
  <2>1. Len(f[k]) \in Nat BY <1>9, LenProperties
  <2>2. Len(f[k]) <= Len(f[m - 1]) /\ \A j \in 1..Len(f[k]) : f[m - 1][j] = f[k][j]
    BY <1>6, Zenon DEF Fine
  <2>3. /\ Len(f[m - 1]) \in Nat /\ Len(s[m]) \in Nat /\ Len(f[m]) = Len(f[m - 1]) + Len(s[m])
        /\ \A j \in 1..Len(f[m - 1]) : f[m][j] = f[m - 1][j]
    BY <1>10, Zenon DEF JoinOf
  <2>4. Len(f[k]) <= Len(f[m]) /\ \A j \in 1..Len(f[k]) : j \in 1..Len(f[m - 1])
    <3> DEFINE a == Len(f[k])
               b == Len(f[m - 1])
               c == Len(s[m])
    <3>1. a \in Nat /\ b \in Nat /\ c \in Nat /\ a <= b /\ Len(f[m]) = b + c
      BY <2>1, <2>2, <2>3, Zenon
    <3> HIDE DEF a, b, c
    <3>2. a <= b + c /\ \A j \in 1..a : j \in 1..b
      BY <3>1
    <3> QED BY <3>1, <3>2, Zenon DEF a, b
  <2> QED BY <2>2, <2>3, <2>4, Zenon DEF Fine
<1> QED BY <1>3, <1>11

LEMMA FlattenPlaces ==
  ASSUME NEW Element, NEW s, NEW n \in Nat, n # 0, NEW f, Flattens(f, s, n), \A h \in 1..n : s[h] \in Seq(Element)
  PROVE  \E o : Offsets(o, f, s, n)
<1>1. \A m \in 1..n : f[m] \in Seq(Element)
  BY FlattensTypes
<1> DEFINE o == [k \in 1..n + 1 |-> IF k = 1 THEN 0 ELSE Len(f[k - 1])]
<1>2. \A k \in 1..n + 1 : o[k] \in Nat
  BY <1>1
<1>3. ASSUME NEW k \in 1..n
      PROVE  o[k + 1] = o[k] + Len(s[k]) /\ \A j \in 1..Len(s[k]) : f[n][o[k] + j] = s[k][j]
  <2>0. k \in 1..n + 1 /\ k + 1 \in 1..n + 1 /\ (k + 1) - 1 = k /\ n \in k..n /\ k + 1 # 1 /\ k \in Nat OBVIOUS
  <2>1. o[k + 1] = Len(f[k]) BY <2>0, Zenon
  <2>2. f[k] = IF k = 1 THEN s[k] ELSE f[k - 1] \o s[k]
    BY FlattensStep
  <2>3. s[k] \in Seq(Element) /\ f[k] \in Seq(Element) /\ f[n] \in Seq(Element) BY <1>1
  <2>4. \A j \in 1..Len(f[k]) : f[n][j] = f[k][j]
    BY <2>0, FlattensBegins
  <2>5. Len(f[k]) = o[k] + Len(s[k]) /\ \A j \in 1..Len(s[k]) : f[k][o[k] + j] = s[k][j]
    <3>1. CASE k = 1
      <4>1. f[k] = s[k] /\ o[k] = 0 BY <2>0, <2>2, <3>1, Zenon
      <4> HIDE DEF o
      <4> QED BY <2>3, <4>1, LenProperties
    <3>2. CASE k # 1
      <4>1. f[k] = f[k - 1] \o s[k] /\ o[k] = Len(f[k - 1]) BY <2>0, <2>2, <3>2, Zenon
      <4>2. f[k - 1] \in Seq(Element) BY <1>1, <3>2
      <4> HIDE DEF o
      <4>3. JoinOf(f[k], f[k - 1], s[k])
        <5>1. JoinOf(f[k - 1] \o s[k], f[k - 1], s[k]) BY <2>3, <4>2, ConcatJoined
        <5> QED BY <4>1, <5>1, Zenon
      <4> QED BY <4>1, <4>3, Zenon DEF JoinOf
    <3> QED BY <3>1, <3>2
  <2>6. o[k] \in Nat /\ Len(s[k]) \in Nat BY <1>2, <2>0, <2>3, LenProperties
  <2> HIDE DEF o
  <2>7. \A j \in 1..Len(s[k]) : o[k] + j \in 1..Len(f[k])
    BY <2>5, <2>6
  <2> QED BY <2>1, <2>4, <2>5, <2>7, Zenon
<1>4. o = [k \in 1..n + 1 |-> IF k = 1 THEN 0 ELSE Len(f[k - 1])]
  OBVIOUS
<1>5. Offsets(o, f, s, n)
  <2> HIDE DEF o
  <2> QED BY <1>2, <1>3, <1>4, Zenon DEF Offsets
<1> QED BY <1>5, Zenon

\* The parts of names and of domains.
Lists == {R!DomainList(c) : c \in {b \in R!ToSet(Configs) : R!Searched(b)}}
PartsOf(l) == UNION {R!ToSet(d) : d \in R!ToSet(l)}
Parts == {"+", "."} \cup (UNION {R!ToSet(n) : n \in Names}) \cup (UNION {PartsOf(l) : l \in Lists})
PlainName(n) == n \in Seq(Parts) /\ \A k \in 1..Len(n) : n[k] # "+"
PlainList(l) ==
  /\ l \in Seq(Seq(Parts))
  /\ \A k \in 1..Len(l) : PlainName(l[k]) /\ Len(l[k]) # 0 /\ l[k][Len(l[k])] # "."

Segment(d) == <<"+", ".">> \o d
Segments(l) == [k \in DOMAIN l |-> <<"+", ".">> \o l[k]]

\* Where in w, which is n and the domains behind it, the domains begin.
Places(w, n, l, o) ==
  /\ w \in Seq(Parts) /\ \A k \in 1..Len(l) + 1 : o[k] \in Nat /\ Len(n) <= o[k] /\ o[k] <= Len(w)
  /\ o[1] = Len(n) /\ o[Len(l) + 1] = Len(w)
  /\ \A j \in 1..Len(n) : w[j] = n[j]
  /\ \A k \in 1..Len(l) :
       /\ o[k + 1] = o[k] + 2 + Len(l[k]) /\ w[o[k] + 1] = "+" /\ w[o[k] + 2] = "."
       /\ \A j \in 1..Len(l[k]) : w[o[k] + 2 + j] = l[k][j]

LEMMA SegmentPlaces ==
  ASSUME NEW d \in Seq(Parts)
  PROVE  /\ Segment(d) \in Seq(Parts) /\ Len(Segment(d)) = 2 + Len(d) /\ Len(d) \in Nat
         /\ Segment(d)[1] = "+" /\ Segment(d)[2] = "." /\ \A j \in 1..Len(d) : Segment(d)[2 + j] = d[j]
<1> DEFINE m == <<"+", ".">>
<1>1. m \in Seq(Parts) /\ Len(m) = 2 /\ m[1] = "+" /\ m[2] = "."
  <2>1. "+" \in Parts /\ "." \in Parts BY Zenon DEF Parts
  <2> HIDE DEF Parts
  <2> QED BY <2>1
<1>2. Segment(d) = m \o d
  BY DEF Segment
<1> HIDE DEF m
<1>3. m \o d \in Seq(Parts)
  BY <1>1
<1>4. JoinOf(m \o d, m, d)
  BY <1>1, ConcatJoined
<1>5. 1 \in 1..Len(m) /\ 2 \in 1..Len(m)
  BY <1>1
<1>6. \A j \in 1..Len(d) : (m \o d)[Len(m) + j] = d[j]
  BY <1>4, Zenon DEF JoinOf
<1>7. (m \o d)[1] = m[1] /\ (m \o d)[2] = m[2] /\ Len(m \o d) = Len(m) + Len(d) /\ Len(d) \in Nat
  BY <1>4, <1>5, Zenon DEF JoinOf
<1> QED BY <1>1, <1>2, <1>3, <1>6, <1>7, Zenon

LEMMA QualifiedPlaces ==
  ASSUME NEW n, PlainName(n), NEW l, PlainList(l), Len(l) # 0
  PROVE  \E o : Places(n \o R!FlattenSeq(Segments(l)), n, l, o)
<1> DEFINE s == Segments(l)
           N == Len(l)
<1>1. N \in Nat /\ N # 0 /\ l \in Seq(Seq(Parts)) /\ DOMAIN l = 1..N /\ n \in Seq(Parts) /\ Len(n) \in Nat
  BY LenProperties DEF PlainList, PlainName
<1>2. \A k \in 1..N : l[k] \in Seq(Parts)
  BY <1>1
<1>3. \A k \in 1..N : s[k] = Segment(l[k])
  BY <1>1, Zenon DEF Segments, Segment
<1>4. s = [k \in 1..N |-> s[k]]
  BY <1>1 DEF Segments
<1> HIDE DEF s, N
<1>5. \A k \in 1..N : s[k] \in Seq(Parts)
  BY <1>2, <1>3, SegmentPlaces
<1>6. Len(s) = N
  <2>1. [k \in 1..N |-> s[k]] \in Seq(Seq(Parts)) /\ Len([k \in 1..N |-> s[k]]) = N
    BY <1>1, <1>5
  <2> QED BY <1>4, <2>1, Zenon
<1>7. PICK f : Flattens(f, s, N) /\ R!FlattenSeq(s) = f[N]
  BY <1>1, <1>6, Assembled
<1>8. Flattens(f, s, N) /\ R!FlattenSeq(s) = f[N]
  BY <1>7
<1>9. PICK p : Offsets(p, f, s, N)
  BY <1>1, <1>5, <1>8, FlattenPlaces
<1>10. f[N] \in Seq(Parts)
  <2>1. \A k \in 1..N : f[k] \in Seq(Parts)
    BY <1>1, <1>5, <1>8, FlattensTypes
  <2> QED BY <1>1, <2>1
<1> DEFINE w == n \o R!FlattenSeq(s)
           o == [k \in 1..N + 1 |-> Len(n) + p[k]]
<1>11. JoinOf(w, n, f[N])
  <2>1. JoinOf(n \o f[N], n, f[N])
    BY <1>1, <1>10, ConcatJoined
  <2> QED BY <1>8, <2>1, Zenon
<1>12. w \in Seq(Parts)
  <2>1. n \o f[N] \in Seq(Parts) BY <1>1, <1>10
  <2> QED BY <1>8, <2>1, Zenon
<1>13. \A k \in 1..N + 1 : p[k] \in Nat /\ o[k] = Len(n) + p[k]
  BY <1>9, Zenon DEF Offsets
<1> HIDE DEF w, o
<1>20. \A k \in 1..N + 1 : p[k] <= Len(f[N])
  <2> SUFFICES ASSUME NEW k \in 1..N + 1 PROVE p[k] <= Len(f[N])
    OBVIOUS
  <2>1. p[k] = IF k = 1 THEN 0 ELSE Len(f[k - 1])
    BY <1>9, Zenon DEF Offsets
  <2>2. Len(f[N]) \in Nat BY <1>10, LenProperties
  <2>3. CASE k = 1 BY <2>1, <2>2, <2>3
  <2>4. CASE k # 1
    <3>1. k - 1 \in 1..N /\ N \in k - 1..N BY <1>1, <2>4
    <3>2. Len(f[k - 1]) <= Len(f[N])
      BY <1>1, <1>5, <1>8, <3>1, FlattensBegins
    <3> QED BY <2>1, <2>4, <3>2
  <2> QED BY <2>3, <2>4
<1>14. \A k \in 1..N + 1 : o[k] \in Nat /\ Len(n) <= o[k] /\ o[k] <= Len(w)
  <2> SUFFICES ASSUME NEW k \in 1..N + 1 PROVE o[k] \in Nat /\ Len(n) <= o[k] /\ o[k] <= Len(w)
    OBVIOUS
  <2> DEFINE width == Len(n)
             all == Len(f[N])
             at == p[k]
  <2>1. width \in Nat /\ all \in Nat /\ at \in Nat /\ at <= all /\ o[k] = width + at /\ Len(w) = width + all
    BY <1>11, <1>13, <1>20, Zenon DEF JoinOf
  <2> HIDE DEF width, all, at
  <2>2. o[k] \in Nat /\ width <= o[k] /\ o[k] <= Len(w)
    BY <2>1
  <2> QED BY <2>2, Zenon DEF width
<1>15. o[1] = Len(n) /\ o[N + 1] = Len(w)
  <2>1. 1 \in 1..N + 1 /\ N + 1 \in 1..N + 1 /\ N \in 1..N /\ N + 1 # 1 /\ (N + 1) - 1 = N BY <1>1
  <2>2. p[1] = 0 /\ p[N + 1] = Len(f[N])
    BY <1>9, <2>1, Zenon DEF Offsets
  <2>3. Len(w) = Len(n) + Len(f[N])
    BY <1>11, Zenon DEF JoinOf
  <2>4. o[1] = Len(n) + p[1] /\ o[N + 1] = Len(n) + p[N + 1]
    BY <1>13, <2>1
  <2> QED BY <1>1, <2>2, <2>3, <2>4
<1>16. \A j \in 1..Len(n) : w[j] = n[j]
  BY <1>11, Zenon DEF JoinOf
<1>17. ASSUME NEW k \in 1..N
       PROVE  /\ o[k + 1] = o[k] + 2 + Len(l[k]) /\ w[o[k] + 1] = "+" /\ w[o[k] + 2] = "."
              /\ \A j \in 1..Len(l[k]) : w[o[k] + 2 + j] = l[k][j]
  <2>1. k \in 1..N + 1 /\ k + 1 \in 1..N + 1 BY <1>1
  <2>2. p[k] \in Nat /\ o[k] = Len(n) + p[k] /\ o[k + 1] = Len(n) + p[k + 1]
    BY <1>13, <2>1, Zenon
  <2>3. p[k + 1] = p[k] + Len(s[k]) /\ \A j \in 1..Len(s[k]) : f[N][p[k] + j] = s[k][j]
    BY <1>9, Zenon DEF Offsets
  <2>4. /\ Len(s[k]) = 2 + Len(l[k]) /\ Len(l[k]) \in Nat
        /\ s[k][1] = "+" /\ s[k][2] = "." /\ \A j \in 1..Len(l[k]) : s[k][2 + j] = l[k][j]
    <3>1. /\ Len(Segment(l[k])) = 2 + Len(l[k]) /\ Len(l[k]) \in Nat
          /\ Segment(l[k])[1] = "+" /\ Segment(l[k])[2] = "." /\ \A j \in 1..Len(l[k]) : Segment(l[k])[2 + j] = l[k][j]
      BY <1>2, SegmentPlaces
    <3>2. s[k] = Segment(l[k]) BY <1>3
    <3> HIDE DEF Segment
    <3> QED BY <3>1, <3>2, Zenon
  <2>5. \A m \in 1..Len(s[k]) : p[k] + m \in 1..Len(f[N])
    <3>1. p[k + 1] <= Len(f[N])
      <4>1. p[N + 1] = Len(f[N])
        <5>1. N + 1 \in 1..N + 1 /\ N + 1 # 1 /\ (N + 1) - 1 = N BY <1>1
        <5> QED BY <1>9, <5>1, Zenon DEF Offsets
      <4>2. p[k + 1] = Len(f[k])
        <5>1. k + 1 # 1 /\ (k + 1) - 1 = k OBVIOUS
        <5> QED BY <1>9, <2>1, <5>1, Zenon DEF Offsets
      <4>3. N \in k..N BY <1>1
      <4>4. Len(f[k]) <= Len(f[N])
        BY <1>1, <1>5, <1>8, <4>3, FlattensBegins
      <4> QED BY <4>2, <4>4
    <3>2. Len(f[N]) \in Nat BY <1>10, LenProperties
    <3> DEFINE b == p[k]
               c == Len(s[k])
               g == p[k + 1]
               e == Len(f[N])
    <3>5. c \in Nat BY <2>4
    <3>3. b \in Nat /\ c \in Nat /\ g = b + c /\ g <= e /\ e \in Nat
      BY <2>2, <2>3, <3>1, <3>2, <3>5
    <3> HIDE DEF b, c, e, g
    <3>4. \A m \in 1..c : b + m \in 1..e BY <3>3
    <3> QED BY <3>4, Zenon DEF b, c, e
  <2>6. \A m \in 1..Len(s[k]) : w[o[k] + m] = s[k][m]
    <3> SUFFICES ASSUME NEW m \in 1..Len(s[k]) PROVE w[o[k] + m] = s[k][m] OBVIOUS
    <3>1. w[Len(n) + (p[k] + m)] = f[N][p[k] + m]
      BY <1>11, <2>5, Zenon DEF JoinOf
    <3>2. Len(n) + (p[k] + m) = o[k] + m
      BY <1>1, <2>2, <2>4
    <3> QED BY <2>3, <3>1, <3>2, Zenon
  <2> DEFINE Wide == Len(l[k])
             S == Len(s[k])
             at == p[k]
             width == Len(n)
  <2>11. Wide \in Nat /\ S = 2 + Wide /\ at \in Nat /\ width \in Nat /\ o[k] = width + at /\ o[k + 1] = width + p[k + 1] /\ p[k + 1] = at + S
    BY <1>1, <2>2, <2>3, <2>4, Zenon
  <2>7. 1 \in 1..Len(s[k]) /\ 2 \in 1..Len(s[k]) /\ \A j \in 1..Len(l[k]) : 2 + j \in 1..Len(s[k]) /\ o[k] + (2 + j) = o[k] + 2 + j
    <3> HIDE DEF Wide, S, at, width
    <3>1. 1 \in 1..S /\ 2 \in 1..S /\ \A j \in 1..Wide : 2 + j \in 1..S /\ o[k] + (2 + j) = o[k] + 2 + j
      BY <2>11
    <3> QED BY <3>1, Zenon DEF Wide, S
  <2>8. o[k + 1] = o[k] + 2 + Len(l[k])
    <3> HIDE DEF Wide, S, at, width
    <3>1. o[k + 1] = o[k] + 2 + Wide
      BY <2>11
    <3> QED BY <3>1, Zenon DEF Wide
  <2>9. w[o[k] + 1] = "+" /\ w[o[k] + 2] = "."
    BY <2>4, <2>6, <2>7, Zenon
  <2>10. \A j \in 1..Len(l[k]) : w[o[k] + 2 + j] = l[k][j]
    BY <2>4, <2>6, <2>7, Zenon
  <2> QED BY <2>8, <2>9, <2>10
<1>18. Places(w, n, l, o)
  BY <1>12, <1>14, <1>15, <1>16, <1>17, Zenon DEF Places, N
<1> QED BY <1>18, Zenon DEF w, s

LEMMA ReverseIs ==
  ASSUME NEW Element, NEW w \in Seq(Element)
  PROVE  R!Reverse(w) \in Seq(Element) /\ Len(R!Reverse(w)) = Len(w) /\ Len(w) \in Nat /\ (Len(w) # 0 => R!Reverse(w)[1] = w[Len(w)])
<1>1. Len(w) \in Nat /\ \A h \in 1..Len(w) : w[h] \in Element OBVIOUS
<1>2. R!Reverse(w) = [h \in 1..Len(w) |-> w[(Len(w) - h) + 1]]
  BY Zenon DEF R!Reverse
<1>3. \A h \in 1..Len(w) : (Len(w) - h) + 1 \in 1..Len(w)
  BY <1>1
<1>4. \A h \in 1..Len(w) : w[(Len(w) - h) + 1] \in Element
  BY <1>1, <1>3, Zenon
<1>5. [h \in 1..Len(w) |-> w[(Len(w) - h) + 1]] \in Seq(Element)
  BY <1>1, <1>4, IsASeq
<1>6. Len([h \in 1..Len(w) |-> w[(Len(w) - h) + 1]]) = Len(w)
  BY <1>1
<1>7. Len(w) # 0 => [h \in 1..Len(w) |-> w[(Len(w) - h) + 1]][1] = w[Len(w)]
  BY <1>1
<1> QED BY <1>1, <1>2, <1>5, <1>6, <1>7, Zenon

LEMMA NothingEnds ==
  ASSUME NEW w \in Seq(Parts)
  PROVE  R!IsSuffix(<<>>, w)
<1>1. <<>> \in Seq({}) /\ Len(<<>>) = 0 OBVIOUS
<1>2. R!Reverse(<<>>) \in Seq({}) /\ Len(R!Reverse(<<>>)) = 0
  BY <1>1, ReverseIs, Zenon
<1>3. R!Reverse(w) \in Seq(Parts) /\ Len(R!Reverse(w)) \in Nat
  BY ReverseIs, Zenon
<1>4. R!Reverse(<<>>) = <<>> BY <1>2, EmptySeq
<1>5. SubSeq(R!Reverse(w), 1, 0) = <<>> BY <1>3
<1>6. SubSeq(<<>>, 1, 0) = <<>> BY <1>1
<1>7. 0 <= Len(R!Reverse(w)) BY <1>3
<1> QED BY <1>1, <1>4, <1>5, <1>6, <1>7, Zenon DEF R!IsSuffix, R!IsPrefix

LEMMA FirstAlone ==
  ASSUME NEW Element, NEW q \in Seq(Element), Len(q) # 0
  PROVE  SubSeq(q, 1, 1) \in Seq(Element) /\ Len(SubSeq(q, 1, 1)) = 1 /\ SubSeq(q, 1, 1)[1] = q[1]
<1>1. 1 \in Int /\ \A h \in 1..1 : q[h] \in Element /\ 1 <= 1 /\ 1 - 1 + 1 = 1 /\ 1 + 1 - 1 = 1
  BY LenProperties
<1>2. /\ SubSeq(q, 1, 1) \in Seq(Element)
      /\ Len(SubSeq(q, 1, 1)) = IF 1 <= 1 THEN 1 - 1 + 1 ELSE 0
      /\ \A h \in 1..1 - 1 + 1 : SubSeq(q, 1, 1)[h] = q[1 + h - 1]
  BY <1>1, SubSeqProperties
<1>3. Len(SubSeq(q, 1, 1)) = 1
  BY <1>2
<1>4. SubSeq(q, 1, 1)[1] = q[1]
  <2> DEFINE p == SubSeq(q, 1, 1)
  <2>1. \A h \in 1..1 - 1 + 1 : p[h] = q[1 + h - 1] BY <1>2, Zenon
  <2> HIDE DEF p
  <2>2. p[1] = q[1] BY <2>1
  <2> QED BY <2>2, Zenon DEF p
<1> QED BY <1>2, <1>3, <1>4

LEMMA SameFirst ==
  ASSUME NEW Element, NEW q \in Seq(Element), NEW r \in Seq(Element), Len(q) # 0, Len(r) # 0
  PROVE  SubSeq(q, 1, 1) = SubSeq(r, 1, 1) <=> q[1] = r[1]
<1> DEFINE a == SubSeq(q, 1, 1)
           b == SubSeq(r, 1, 1)
<1>1. a \in Seq(Element) /\ Len(a) = 1 /\ a[1] = q[1] /\ b \in Seq(Element) /\ Len(b) = 1 /\ b[1] = r[1]
  BY FirstAlone
<1> HIDE DEF a, b
<1>2. a[1] = b[1] => a = b
  <2>1. \A h \in 1..1 : h = 1 OBVIOUS
  <2>2. a[1] = b[1] => \A h \in 1..Len(a) : a[h] = b[h] BY <1>1, <2>1, Zenon
  <2> QED BY <1>1, <2>2, SeqEqual
<1>3. a = b <=> q[1] = r[1]
  BY <1>1, <1>2, Zenon
<1> QED BY <1>3, Zenon DEF a, b

LEMMA DotEnds ==
  ASSUME NEW w \in Seq(Parts)
  PROVE  R!IsSuffix(<<".">>, w) <=> Len(w) # 0 /\ w[Len(w)] = "."
<1> DEFINE d == <<".">>
           r == R!Reverse(w)
           q == R!Reverse(d)
<1>1. d \in Seq(Parts) /\ Len(d) = 1 /\ d[1] = "."
  <2>1. "." \in Parts BY Zenon DEF Parts
  <2> HIDE DEF Parts
  <2> QED BY <2>1
<1> HIDE DEF d
<1>2. q \in Seq(Parts) /\ Len(q) = 1 /\ q[1] = "."
  <2>1. 1 # 0 OBVIOUS
  <2> QED BY <1>1, <2>1, ReverseIs, Zenon
<1>3. r \in Seq(Parts) /\ Len(r) = Len(w) /\ Len(w) \in Nat /\ (Len(w) # 0 => r[1] = w[Len(w)])
  BY ReverseIs, Zenon
<1> HIDE DEF q, r
<1>4. Len(r) # 0 => (SubSeq(q, 1, 1) = SubSeq(r, 1, 1) <=> q[1] = r[1])
  <2>1. Len(q) # 0 BY <1>2
  <2> QED BY <1>2, <1>3, <2>1, SameFirst
<1>6. 1 <= Len(r) <=> Len(w) # 0
  BY <1>3
<1>8. R!IsPrefix(q, r) <=> 1 <= Len(r) /\ SubSeq(q, 1, 1) = SubSeq(r, 1, 1)
  BY <1>2, Zenon DEF R!IsPrefix
<1>9. R!IsPrefix(q, r) <=> Len(w) # 0 /\ w[Len(w)] = "."
  BY <1>2, <1>3, <1>4, <1>6, <1>8, Zenon
<1> QED BY <1>9, Zenon DEF R!IsSuffix, q, r, d

Dotted(n) == \E k \in DOMAIN n : n[k] \in {".", "[", "]"}

LEMMA QuestionOpen ==
  ASSUME NEW n \in Seq(Parts), ~Dotted(n), NEW new
  PROVE  R!Apply(n, R!Rule("?", <<>>, new)) = n \o new
<1> DEFINE r == R!Rule("?", <<>>, new)
<1>1. r.kind = "?" /\ r.ending = <<>> /\ r.new = new
  BY DEF R!Rule
<1> HIDE DEF r
<1>2. Len(<<>>) = 0 /\ Len(n) \in Nat /\ DOMAIN n = 1..Len(n) /\ "?" # "=" /\ "?" # "-" OBVIOUS
<1>3. Len(n) - 0 = Len(n) BY <1>2
<1>4. R!Applies(n, r)
  <2>1. R!IsSuffix(<<>>, n) BY NothingEnds
  <2>2. \A k \in 1..Len(n) - 0 : n[k] \notin {".", "[", "]"}
    BY <1>2, <1>3, Zenon DEF Dotted
  <2> QED BY <1>1, <1>2, <2>1, <2>2, Zenon DEF R!Applies
<1>5. SubSeq(n, 1, Len(n)) = n BY SubSeqFull
<1>6. R!Apply(n, r) = SubSeq(n, 1, Len(n) - Len(r.ending)) \o r.new
  BY <1>1, <1>2, <1>4, Zenon DEF R!Apply
<1>7. R!Apply(n, r) = n \o new
  BY <1>1, <1>2, <1>3, <1>5, <1>6, Zenon
<1> QED BY <1>7, Zenon DEF r

LEMMA QuestionClosed ==
  ASSUME NEW n \in Seq(Parts), Dotted(n), NEW new
  PROVE  R!Apply(n, R!Rule("?", <<>>, new)) = n
<1> DEFINE r == R!Rule("?", <<>>, new)
<1>1. r.kind = "?" /\ r.ending = <<>> /\ r.new = new
  BY DEF R!Rule
<1> HIDE DEF r
<1>2. Len(<<>>) = 0 /\ Len(n) \in Nat /\ DOMAIN n = 1..Len(n) OBVIOUS
<1>3. Len(n) - 0 = Len(n) BY <1>2
<1>4. ~R!Applies(n, r)
  <2>1. \E k \in 1..Len(n) - 0 : n[k] \in {".", "[", "]"}
    BY <1>2, <1>3, Zenon DEF Dotted
  <2> QED BY <1>1, <1>2, <2>1, Zenon DEF R!Applies
<1>5. R!Apply(n, r) = n
  BY <1>4, Zenon DEF R!Apply
<1> QED BY <1>5, Zenon DEF r

LEMMA LastDot ==
  ASSUME NEW w \in Seq(Parts)
  PROVE  /\ (Len(w) # 0 /\ w[Len(w)] = ".") => R!Apply(w, R!NoDot) = R!Front(w)
         /\ ~(Len(w) # 0 /\ w[Len(w)] = ".") => R!Apply(w, R!NoDot) = w
<1>1. R!NoDot.kind = "*" /\ R!NoDot.ending = <<".">> /\ R!NoDot.new = <<>>
  BY DEF R!NoDot, R!Rule
<1>2. Len(<<".">>) = 1 /\ "*" # "=" /\ "*" # "?" /\ "*" # "-" OBVIOUS
<1>3. R!Applies(w, R!NoDot) <=> Len(w) # 0 /\ w[Len(w)] = "."
  BY <1>1, <1>2, DotEnds, Zenon DEF R!Applies
<1>4. ASSUME R!Applies(w, R!NoDot) PROVE R!Apply(w, R!NoDot) = R!Front(w)
  <2>1. R!Apply(w, R!NoDot) = SubSeq(w, 1, Len(w) - 1) \o <<>>
    BY <1>1, <1>2, <1>4, Zenon DEF R!Apply
  <2>2. SubSeq(w, 1, Len(w) - 1) \in Seq(Parts)
    <3>1. Len(w) \in Nat /\ Len(w) # 0 BY <1>3, <1>4
    <3> HIDE DEF Parts
    <3> QED BY <3>1
  <2>3. SubSeq(w, 1, Len(w) - 1) \o <<>> = SubSeq(w, 1, Len(w) - 1)
    BY <2>2, ConcatEmptySeq
  <2> QED BY <2>1, <2>3, Zenon DEF R!Front
<1>5. ~R!Applies(w, R!NoDot) => R!Apply(w, R!NoDot) = w
  BY Zenon DEF R!Apply
<1> QED BY <1>3, <1>4, <1>5

LEMMA NextPlusIs ==
  ASSUME NEW s, Len(s) \in Nat, NEW k \in Nat, NEW p \in Nat, k <= p, p <= Len(s) + 1,
         \A m \in k..p - 1 : s[m] # "+", p <= Len(s) => s[p] = "+"
  PROVE  R!NextPlus(s, k) = p
<1>1. CASE p <= Len(s)
  <2>1. p \in k..Len(s) /\ s[p] = "+" /\ \A m \in k..p - 1 : s[m] # "+" BY <1>1
  <2>2. ASSUME NEW n \in k..Len(s), s[n] = "+", \A m \in k..n - 1 : s[m] # "+" PROVE n = p
    <3>1. n \notin k..p - 1 /\ p \notin k..n - 1 BY <2>1, <2>2
    <3> QED BY <2>1, <3>1
  <2>3. (CHOOSE n \in k..Len(s) : s[n] = "+" /\ \A m \in k..n - 1 : s[m] # "+") = p
    BY <2>1, <2>2, Zenon
  <2> QED BY <2>1, <2>3, Zenon DEF R!NextPlus
<1>2. CASE ~(p <= Len(s))
  <2>1. p = Len(s) + 1 /\ \A n \in k..Len(s) : n \in k..p - 1 BY <1>2
  <2>2. ~\E n \in k..Len(s) : s[n] = "+" BY <2>1
  <2> QED BY <2>1, <2>2, Zenon DEF R!NextPlus
<1> QED BY <1>1, <1>2

\* The rules, one after the other.
Rewritten(n, rules) == R!FoldLeft(R!Apply, n, rules)

LEMMA TwoRules ==
  ASSUME NEW n, NEW r, NEW s
  PROVE  Rewritten(n, <<r, s>>) = R!Apply(R!Apply(n, r), s)
<1> DEFINE data == <<r, s>>
           Largest(S) == CHOOSE z \in S : \A y \in S : z >= y
           Fold(f) == f = [S \in SUBSET {1, 2} |-> IF S = {} THEN n ELSE R!Apply(f[S \ {Largest(S)}], data[Largest(S)])]
<1>1. DOMAIN data = {1, 2} /\ data[1] = r /\ data[2] = s
  OBVIOUS
<1>2. Rewritten(n, data) = (CHOOSE f : Fold(f))[{1, 2}]
  BY <1>1, Zenon DEF Rewritten, R!FoldLeft, R!MapThenFoldSet, R!Max
<1> DEFINE a == R!Apply(n, r)
           b == R!Apply(n, s)
           c == R!Apply(a, s)
           g == [S \in SUBSET {1, 2} |-> IF S = {} THEN n ELSE IF S = {1} THEN a ELSE IF S = {2} THEN b ELSE c]
<1>3. \A S \in SUBSET {1, 2} : S = {} \/ S = {1} \/ S = {2} \/ S = {1, 2}
  OBVIOUS
<1>4. Largest({1}) = 1 /\ Largest({2}) = 2 /\ Largest({1, 2}) = 2
  <2>1. 1 >= 1 /\ 2 >= 2 /\ 2 >= 1 /\ ~(1 >= 2) OBVIOUS
  <2> QED BY <2>1, Zenon
<1>5. {1} \ {1} = {} /\ {2} \ {2} = {} /\ {1, 2} \ {2} = {1} /\ {1} # {} /\ {2} # {} /\ {1, 2} # {} /\ {2} # {1} /\ {1, 2} # {1} /\ {1, 2} # {2}
  OBVIOUS
<1>6. g[{}] = n /\ g[{1}] = a /\ g[{2}] = b /\ g[{1, 2}] = c
  <2>1. {} \in SUBSET {1, 2} /\ {1} \in SUBSET {1, 2} /\ {2} \in SUBSET {1, 2} /\ {1, 2} \in SUBSET {1, 2} OBVIOUS
  <2> QED BY <1>5, <2>1, Zenon
<1>7. g = [S \in SUBSET {1, 2} |-> g[S]]
  OBVIOUS
<1> HIDE DEF g, Largest, data
<1>8. \A S \in SUBSET {1, 2} : g[S] = IF S = {} THEN n ELSE R!Apply(g[S \ {Largest(S)}], data[Largest(S)])
  <2> SUFFICES ASSUME NEW S \in SUBSET {1, 2} PROVE g[S] = IF S = {} THEN n ELSE R!Apply(g[S \ {Largest(S)}], data[Largest(S)])
    OBVIOUS
  <2>1. CASE S = {} BY <1>6, <2>1, Zenon
  <2>2. CASE S = {1} BY <1>1, <1>4, <1>5, <1>6, <2>2, Zenon
  <2>3. CASE S = {2} BY <1>1, <1>4, <1>5, <1>6, <2>3, Zenon
  <2>4. CASE S = {1, 2} BY <1>1, <1>4, <1>5, <1>6, <2>4, Zenon
  <2> QED BY <1>3, <2>1, <2>2, <2>3, <2>4, Zenon
<1>9. Fold(g)
  <2>1. [S \in SUBSET {1, 2} |-> g[S]] = [S \in SUBSET {1, 2} |-> IF S = {} THEN n ELSE R!Apply(g[S \ {Largest(S)}], data[Largest(S)])]
    BY <1>8, Zenon
  <2> QED BY <1>7, <2>1, Zenon
<1> DEFINE f == CHOOSE h : Fold(h)
<1>10. Fold(f)
  <2> HIDE DEF Fold
  <2> QED BY <1>9, Zenon
<1> HIDE DEF f
<1>11. \A S \in SUBSET {1, 2} : f[S] = IF S = {} THEN n ELSE R!Apply(f[S \ {Largest(S)}], data[Largest(S)])
  <2> DEFINE H == [S \in SUBSET {1, 2} |-> IF S = {} THEN n ELSE R!Apply(f[S \ {Largest(S)}], data[Largest(S)])]
  <2>1. f = H BY <1>10, Zenon
  <2>2. \A S \in SUBSET {1, 2} : H[S] = IF S = {} THEN n ELSE R!Apply(f[S \ {Largest(S)}], data[Largest(S)]) BY Zenon
  <2> HIDE DEF H
  <2> QED BY <2>1, <2>2, Zenon
<1>12. {} \in SUBSET {1, 2} /\ {1} \in SUBSET {1, 2} /\ {1, 2} \in SUBSET {1, 2} OBVIOUS
<1>13. f[{}] = n
  BY <1>11, <1>12, Zenon
<1>14. f[{1}] = a
  BY <1>1, <1>4, <1>5, <1>11, <1>12, <1>13, Zenon
<1>15. f[{1, 2}] = c
  <2>1. f[{1, 2}] = IF {1, 2} = {} THEN n ELSE R!Apply(f[{1, 2} \ {Largest({1, 2})}], data[Largest({1, 2})])
    BY <1>11, <1>12, Zenon
  <2>2. f[{1, 2}] = R!Apply(f[{1, 2} \ {2}], data[2])
    BY <1>4, <1>5, <2>1, Zenon
  <2> QED BY <1>1, <1>5, <1>14, <2>2, Zenon
<1> QED BY <1>2, <1>15, Zenon DEF f, data

\* What a name becomes: as it is, or with all domains behind it.
Single(n, l) == Dotted(n) \/ Len(l) = 0
Whole(n) == IF Dotted(n) /\ R!Last(n) = "." THEN R!Front(n) ELSE n

LEMMA QualifiedSingle ==
  ASSUME NEW n, PlainName(n), NEW l, PlainList(l), Single(n, l)
  PROVE  Rewritten(n, R!Domains(l)) = Whole(n)
<1> DEFINE new == R!FlattenSeq(Segments(l))
<1>0. n \in Seq(Parts) /\ Len(n) \in Nat /\ DOMAIN n = 1..Len(n)
  BY LenProperties, Zenon DEF PlainName
<1>1. R!Domains(l) = <<R!Rule("?", <<>>, new), R!NoDot>>
  BY Zenon DEF R!Domains, Segments
<1>2. Rewritten(n, R!Domains(l)) = R!Apply(R!Apply(n, R!Rule("?", <<>>, new)), R!NoDot)
  <2> DEFINE r == R!Rule("?", <<>>, new)
             s == R!NoDot
  <2>1. Rewritten(n, <<r, s>>) = R!Apply(R!Apply(n, r), s)
    <3> HIDE DEF r, s
    <3> QED BY TwoRules
  <2> QED BY <1>1, <2>1, Zenon
<1>3. CASE Dotted(n)
  <2>1. R!Apply(n, R!Rule("?", <<>>, new)) = n BY <1>0, <1>3, QuestionClosed, Zenon
  <2>2. Len(n) # 0
    <3>1. \E k \in 1..Len(n) : TRUE BY <1>0, <1>3, Zenon DEF Dotted
    <3> QED BY <1>0, <3>1
  <2>3. R!Apply(n, R!NoDot) = Whole(n)
    BY <1>0, <1>3, <2>2, LastDot, Zenon DEF Whole, R!Last
  <2> QED BY <1>2, <2>1, <2>3, Zenon
<1>4. CASE ~Dotted(n) /\ Len(l) = 0
  <2>1. new = <<>>
    <3>1. l \in Seq(Seq(Parts)) BY Zenon DEF PlainList
    <3>2. l = <<>> BY <1>4, <3>1, EmptySeq
    <3>3. Segments(l) = <<>> /\ Len(<<>>) = 0
      <4>1. DOMAIN l = {} BY <3>2
      <4>2. Segments(l) = [k \in {} |-> <<"+", ".">> \o l[k]] BY <4>1, Zenon DEF Segments
      <4>3. [k \in {} |-> <<"+", ".">> \o l[k]] = <<>> OBVIOUS
      <4> QED BY <4>2, <4>3
    <3> QED BY <3>3, Zenon DEF R!FlattenSeq
  <2>2. R!Apply(n, R!Rule("?", <<>>, new)) = n \o new BY <1>0, <1>4, QuestionOpen, Zenon
  <2>3. n \o new = n BY <1>0, <2>1, ConcatEmptySeq
  <2>4. ~(Len(n) # 0 /\ n[Len(n)] = ".")
    <3>1. Len(n) # 0 => Len(n) \in DOMAIN n BY <1>0
    <3> QED BY <1>4, <3>1, Zenon DEF Dotted
  <2>5. R!Apply(n, R!NoDot) = n BY <1>0, <2>4, LastDot, Zenon
  <2> QED BY <1>2, <1>4, <2>2, <2>3, <2>5, Zenon DEF Whole
<1> QED BY <1>3, <1>4, Zenon DEF Single

LEMMA QualifiedMany ==
  ASSUME NEW n, PlainName(n), NEW l, PlainList(l), ~Single(n, l)
  PROVE  \E o : Places(Rewritten(n, R!Domains(l)), n, l, o)
<1> DEFINE new == R!FlattenSeq(Segments(l))
           w == n \o new
<1>0. n \in Seq(Parts) /\ ~Dotted(n) /\ Len(l) # 0 /\ Len(l) \in Nat /\ Len(n) \in Nat
  BY LenProperties, Zenon DEF PlainName, PlainList, Single
<1>1. R!Domains(l) = <<R!Rule("?", <<>>, new), R!NoDot>>
  BY Zenon DEF R!Domains, Segments
<1>2. Rewritten(n, R!Domains(l)) = R!Apply(R!Apply(n, R!Rule("?", <<>>, new)), R!NoDot)
  <2> DEFINE r == R!Rule("?", <<>>, new)
             s == R!NoDot
  <2>1. Rewritten(n, <<r, s>>) = R!Apply(R!Apply(n, r), s)
    <3> HIDE DEF r, s
    <3> QED BY TwoRules
  <2> QED BY <1>1, <2>1, Zenon
<1>3. R!Apply(n, R!Rule("?", <<>>, new)) = w BY <1>0, QuestionOpen, Zenon
<1>4. PICK o : Places(w, n, l, o)
  BY <1>0, QualifiedPlaces, Zenon
<1> HIDE DEF new, w
<1>5. R!Apply(w, R!NoDot) = w
  <2> DEFINE K == Len(l)
             d == Len(l[K])
             e == o[K]
  <2>1. K \in 1..K /\ K \in 1..K + 1 BY <1>0
  <2>2. w \in Seq(Parts) /\ e \in Nat /\ Len(w) = e + 2 + d /\ \A j \in 1..d : w[e + 2 + j] = l[K][j]
    BY <1>4, <2>1, Zenon DEF Places
  <2>3. d \in Nat /\ d # 0 /\ l[K][d] # "."
    <3>1. l[K] \in Seq(Parts) /\ d # 0 /\ l[K][d] # "." BY <2>1, Zenon DEF PlainList, PlainName
    <3> QED BY <3>1, LenProperties
  <2> HIDE DEF d, e
  <2>4. d \in 1..d BY <2>3
  <2>5. w[Len(w)] # "."
    BY <2>2, <2>3, <2>4, Zenon
  <2> QED BY <2>2, <2>5, LastDot, Zenon
<1> QED BY <1>2, <1>3, <1>4, <1>5, Zenon

\* The names expected, and what a name has.
Expect(n, l) ==
  IF Dotted(n) THEN <<IF R!Last(n) = "." THEN R!Front(n) ELSE n>>
  ELSE IF l = <<>> THEN <<n>>
  ELSE [k \in DOMAIN l |-> n \o <<".">> \o l[k]]
HasOf(s) == IF R!Numeric(s) THEN R!ToSet(R!Literal(s)) ELSE R!Addresses(s)

\* The name to try, and where that is.
Cand(w, p, k) == IF p > Len(w) THEN w ELSE SubSeq(w, 1, p - 1) \o SubSeq(w, k, R!NextPlus(w, k) - 1)
Final(w, p, k) == p > Len(w) \/ R!NextPlus(w, k) > Len(w)
At(n, l, w, p, at, k) ==
  IF Single(n, l) THEN w = Whole(n) /\ p = Len(w) + 1 /\ k = 1
  ELSE \E o : Places(w, n, l, o) /\ p = Len(n) + 1 /\ at = o[k] + 2

LEMMA ExpectSingle ==
  ASSUME NEW n, NEW l, PlainList(l), Single(n, l)
  PROVE  Expect(n, l) = <<Whole(n)>>
<1>1. CASE Dotted(n)
  BY <1>1, Zenon DEF Expect, Whole
<1>2. CASE ~Dotted(n)
  <2>1. l = <<>> BY <1>2, EmptySeq DEF Single, PlainList
  <2> QED BY <1>2, <2>1, Zenon DEF Expect, Whole
<1> QED BY <1>1, <1>2

LEMMA ExpectMany ==
  ASSUME NEW n, NEW l, PlainList(l), ~Single(n, l)
  PROVE  /\ Len(Expect(n, l)) = Len(l) /\ DOMAIN Expect(n, l) = 1..Len(l) /\ Len(l) \in Nat
         /\ \A k \in 1..Len(l) : Expect(n, l)[k] = n \o <<".">> \o l[k]
<1>1. ~Dotted(n) /\ Len(l) # 0 /\ l \in Seq(Seq(Parts))
  BY Zenon DEF Single, PlainList
<1>2. Len(l) \in Nat /\ DOMAIN l = 1..Len(l)
  BY <1>1
<1>3. l # <<>>
  <2>1. Len(<<>>) = 0 OBVIOUS
  <2> QED BY <1>1, <2>1, Zenon
<1>4. Expect(n, l) = [k \in 1..Len(l) |-> n \o <<".">> \o l[k]]
  BY <1>1, <1>2, <1>3, Zenon DEF Expect
<1>5. \A e : Len([k \in 1..Len(l) |-> e]) = Len(l)
  BY <1>2
<1>6. Len([k \in 1..Len(l) |-> n \o <<".">> \o l[k]]) = Len(l)
  BY <1>2
<1> QED BY <1>2, <1>4, <1>6, Zenon

\* A piece of w that is known place by place.
LEMMA PieceIs ==
  ASSUME NEW Element, NEW w \in Seq(Element), NEW d \in Seq(Element), NEW a \in Nat,
         a + Len(d) <= Len(w), \A j \in 1..Len(d) : w[a + j] = d[j]
  PROVE  SubSeq(w, a + 1, a + Len(d)) = d
<1>1. Len(d) \in Nat /\ Len(w) \in Nat /\ \A j \in 1..Len(w) : w[j] \in Element
  OBVIOUS
<1> DEFINE q == SubSeq(w, a + 1, a + Len(d))
<1>2. \A j \in a + 1..a + Len(d) : j \in 1..Len(w)
  BY <1>1
<1>3. \A j \in a + 1..a + Len(d) : w[j] \in Element
  BY <1>1, <1>2, Zenon
<1>4. a + 1 \in Int /\ a + Len(d) \in Int BY <1>1
<1>5. /\ q \in Seq(Element) /\ Len(q) = (IF a + 1 <= a + Len(d) THEN (a + Len(d)) - (a + 1) + 1 ELSE 0)
      /\ \A j \in 1..(a + Len(d)) - (a + 1) + 1 : q[j] = w[(a + 1) + j - 1]
  BY <1>3, <1>4, SubSeqProperties
<1> HIDE DEF q
<1>6. Len(q) = Len(d)
  BY <1>1, <1>5
<1>7. \A j \in 1..Len(d) : (a + 1) + j - 1 = a + j /\ j \in 1..(a + Len(d)) - (a + 1) + 1
  BY <1>1
<1>8. \A j \in 1..Len(q) : q[j] = d[j]
  BY <1>5, <1>6, <1>7, Zenon
<1>9. q = d
  BY <1>5, <1>6, <1>8, SeqEqual
<1> QED BY <1>9, Zenon DEF q

AtEnd(w, p, k, l) == (p > Len(w)) <=> (k = Len(l))

LEMMA ManyNextPlus ==
  ASSUME NEW n, NEW l, PlainList(l), NEW w, NEW o, Places(w, n, l, o), NEW k \in 1..Len(l)
  PROVE  /\ R!NextPlus(w, o[k] + 2) = o[k + 1] + 1
         /\ AtEnd(w, o[k + 1] + 1, k, l)
<1> DEFINE K == Len(l)
           a == o[k]
           b == o[k + 1]
           d == Len(l[k])
           width == Len(w)
<1>1. K \in Nat /\ k \in 1..K /\ k \in 1..K + 1 /\ k + 1 \in 1..K + 1 /\ w \in Seq(Parts)
  <2>1. l \in Seq(Seq(Parts)) BY Zenon DEF PlainList
  <2>2. w \in Seq(Parts) BY Zenon DEF Places
  <2> QED BY <2>1, <2>2
<1>2. width \in Nat
  BY <1>1
<1>3. /\ a \in Nat /\ b \in Nat /\ b <= width /\ b = a + 2 + d /\ w[a + 2] = "."
      /\ \A j \in 1..d : w[a + 2 + j] = l[k][j]
  BY <1>1, Zenon DEF Places
<1>4. d \in Nat /\ \A j \in 1..d : l[k][j] # "+"
  <2>1. l[k] \in Seq(Parts) /\ \A j \in 1..d : l[k][j] # "+"
    BY <1>1, Zenon DEF PlainList, PlainName
  <2> QED BY <2>1, LenProperties
<1>5. b + 1 <= width => w[b + 1] = "+"
  <2>1. CASE k = K
    <3>1. b = width BY <2>1, Zenon DEF Places
    <3> HIDE DEF b, width
    <3> QED BY <1>2, <3>1
  <2>2. CASE k # K
    <3>1. k + 1 \in 1..K BY <1>1, <2>2
    <3> QED BY <3>1, Zenon DEF Places
  <2> QED BY <2>1, <2>2
<1>6. \A m \in a + 2..(b + 1) - 1 : w[m] # "+"
  <2> SUFFICES ASSUME NEW m \in a + 2..(b + 1) - 1 PROVE w[m] # "+" OBVIOUS
  <2>0. a \in Nat /\ b \in Nat /\ d \in Nat /\ b = a + 2 + d BY <1>3, <1>4, Zenon
  <2> HIDE DEF a, b, d
  <2>1. m = a + 2 \/ (m - (a + 2) \in 1..d /\ a + 2 + (m - (a + 2)) = m)
    BY <2>0
  <2> DEFINE j == m - (a + 2)
  <2> HIDE DEF j
  <2>2. m = a + 2 \/ (j \in 1..d /\ a + 2 + j = m) BY <2>1, Zenon DEF j
  <2>3. w[a + 2] # "+"
    <3>1. "." # "+" OBVIOUS
    <3> QED BY <1>3, <3>1, Zenon
  <2> QED BY <1>3, <1>4, <2>2, <2>3, Zenon
<1>7. b + 1 > width <=> k = K
  <2>1. CASE k = K
    <3>1. b = width BY <2>1, Zenon DEF Places
    <3> HIDE DEF b, width
    <3> QED BY <1>2, <2>1, <3>1
  <2>2. CASE k # K
    <3>1. k + 1 \in 1..K /\ k + 1 \in 1..K + 1 /\ (k + 1) + 1 \in 1..K + 1 BY <1>1, <2>2
    <3> DEFINE c == o[(k + 1) + 1]
               e == Len(l[k + 1])
    <3>2. c <= width /\ c = b + 2 + e /\ c \in Nat
      BY <3>1, Zenon DEF Places
    <3>3. l[k + 1] \in Seq(Parts) BY <3>1, Zenon DEF PlainList, PlainName
    <3>4. e \in Nat BY <3>3
    <3>5. b \in Nat BY <1>3
    <3> HIDE DEF c, e, b, width
    <3> QED BY <1>2, <2>2, <3>2, <3>4, <3>5
  <2> QED BY <2>1, <2>2
<1>8. a \in Nat /\ b \in Nat /\ d \in Nat /\ b = a + 2 + d /\ b <= width /\ width \in Nat
  BY <1>2, <1>3, <1>4, Zenon
<1> HIDE DEF a, b, d, width
<1>9. a + 2 \in Nat /\ b + 1 \in Nat /\ a + 2 <= b + 1 /\ b + 1 <= width + 1
  BY <1>8
<1>10. R!NextPlus(w, a + 2) = b + 1
  BY <1>5, <1>6, <1>8, <1>9, NextPlusIs DEF width
<1> QED BY <1>7, <1>10, Zenon DEF a, b, width, K, AtEnd

LEMMA ManyCandidate ==
  ASSUME NEW n, PlainName(n), NEW l, PlainList(l), NEW w, NEW o, Places(w, n, l, o), NEW k \in 1..Len(l)
  PROVE  /\ Cand(w, Len(n) + 1, o[k] + 2) = n \o <<".">> \o l[k]
         /\ Len(n) + 1 <= Len(w)
<1> DEFINE a == o[k]
           b == o[k + 1]
           d == l[k]
           m == <<".">> \o d
           width == Len(n)
           all == Len(w)
           dl == Len(d)
<1>1. n \in Seq(Parts) /\ w \in Seq(Parts) /\ d \in Seq(Parts) /\ l \in Seq(Seq(Parts))
  <2>1. l \in Seq(Seq(Parts)) /\ d \in Seq(Parts) /\ n \in Seq(Parts) BY Zenon DEF PlainList, PlainName
  <2>2. w \in Seq(Parts) BY Zenon DEF Places
  <2> QED BY <2>1, <2>2
<1>2. k \in 1..Len(l) + 1 /\ k + 1 \in 1..Len(l) + 1
  <2>1. Len(l) \in Nat BY <1>1
  <2> QED BY <2>1
<1>3. /\ a \in Nat /\ b \in Nat /\ width <= a /\ b <= all /\ b = a + 2 + dl /\ w[a + 2] = "."
      /\ \A j \in 1..dl : w[a + 2 + j] = d[j]
      /\ \A j \in 1..width : w[j] = n[j]
  BY <1>2, Zenon DEF Places
<1>4. width \in Nat /\ all \in Nat /\ dl \in Nat
  BY <1>1, LenProperties, Zenon
<1>5. R!NextPlus(w, a + 2) = b + 1
  BY ManyNextPlus
<1>6. m \in Seq(Parts) /\ Len(m) = 1 + dl /\ m[1] = "." /\ \A j \in 1..dl : m[1 + j] = d[j]
  <2> DEFINE u == <<".">>
  <2>1. u \in Seq(Parts) /\ Len(u) = 1 /\ u[1] = "."
    <3>1. "." \in Parts BY Zenon DEF Parts
    <3> HIDE DEF Parts
    <3> QED BY <3>1
  <2> HIDE DEF u, d
  <2>2. u \o d \in Seq(Parts) BY <1>1, <2>1
  <2>3. JoinOf(u \o d, u, d) BY <1>1, <2>1, ConcatJoined
  <2>4. 1 \in 1..Len(u) BY <2>1
  <2> QED BY <2>1, <2>2, <2>3, <2>4, Zenon DEF JoinOf, u
<1> HIDE DEF m, a, b, d, width, all, dl
<1>7. width + 1 <= all /\ 0 + width <= all /\ (a + 1) + (1 + dl) <= all /\ a + 1 \in Nat /\ (a + 1) + 1 = a + 2 /\ (a + 1) + (1 + dl) = b
      /\ (b + 1) - 1 = b /\ (width + 1) - 1 = width /\ 0 + width = width /\ ~(width + 1 > all) /\ 0 + 1 = 1 /\ 0 \in Nat
      /\ \A j \in 1..width : 0 + j = j
  BY <1>3, <1>4
<1>8. \A j \in 1..Len(m) : w[(a + 1) + j] = m[j]
  <2> SUFFICES ASSUME NEW j \in 1..Len(m) PROVE w[(a + 1) + j] = m[j] OBVIOUS
  <2>1. j \in 1..1 + dl BY <1>6
  <2>2. CASE j = 1
    BY <1>3, <1>6, <1>7, <2>2, Zenon
  <2>3. CASE j # 1
    <3>1. j - 1 \in 1..dl /\ 1 + (j - 1) = j /\ a + 2 + (j - 1) = (a + 1) + j BY <1>3, <1>4, <2>1, <2>3
    <3> DEFINE h == j - 1
    <3> HIDE DEF h
    <3>2. h \in 1..dl /\ 1 + h = j /\ a + 2 + h = (a + 1) + j BY <3>1, Zenon DEF h
    <3> QED BY <1>3, <1>6, <3>2, Zenon
  <2> QED BY <2>2, <2>3
<1>9. SubSeq(w, (a + 1) + 1, (a + 1) + Len(m)) = m
  <2>1. (a + 1) + Len(m) <= Len(w) BY <1>6, <1>7, Zenon DEF all
  <2> QED BY <1>1, <1>6, <1>7, <1>8, <2>1, PieceIs
<1>10. SubSeq(w, 1, width) = n
  <2>1. SubSeq(w, 0 + 1, 0 + Len(n)) = n
    <3>1. 0 + Len(n) <= Len(w) /\ \A j \in 1..Len(n) : w[0 + j] = n[j]
      BY <1>3, <1>7, Zenon DEF width, all
    <3> QED BY <1>1, <1>7, <3>1, PieceIs
  <2> QED BY <1>7, <2>1, Zenon DEF width
<1>11. SubSeq(w, a + 2, b) = m
  BY <1>6, <1>7, <1>9, Zenon
<1>12. Cand(w, width + 1, a + 2) = SubSeq(w, 1, (width + 1) - 1) \o SubSeq(w, a + 2, R!NextPlus(w, a + 2) - 1)
  BY <1>7, Zenon DEF Cand, all
<1>13. Cand(w, width + 1, a + 2) = n \o m
  BY <1>5, <1>7, <1>10, <1>11, <1>12, Zenon
<1>14. (n \o <<".">>) \o d = n \o (<<".">> \o d)
  <2> DEFINE dot == <<".">>
  <2>1. dot \in Seq(Parts)
    <3>1. "." \in Parts BY Zenon DEF Parts
    <3> HIDE DEF Parts
    <3> QED BY <3>1
  <2> HIDE DEF dot
  <2>2. n \in Seq(Parts) /\ d \in Seq(Parts) BY <1>1, Zenon
  <2>3. (n \o dot) \o d = n \o (dot \o d) BY <2>1, <2>2, ConcatAssociative
  <2> QED BY <2>3, Zenon DEF dot
<1> QED BY <1>7, <1>13, <1>14, Zenon DEF m, a, d, width, all

LEMMA WholePlain ==
  ASSUME NEW n, PlainName(n)
  PROVE  PlainName(Whole(n))
<1>1. n \in Seq(Parts) /\ Len(n) \in Nat /\ DOMAIN n = 1..Len(n) /\ \A k \in 1..Len(n) : n[k] # "+"
  <2>1. n \in Seq(Parts) /\ \A k \in 1..Len(n) : n[k] # "+" BY Zenon DEF PlainName
  <2> QED BY <2>1
<1>2. ASSUME Dotted(n) PROVE PlainName(R!Front(n))
  <2>1. Len(n) # 0
    <3>1. \E k \in 1..Len(n) : TRUE BY <1>1, <1>2, Zenon DEF Dotted
    <3> QED BY <1>1, <3>1
  <2> DEFINE q == SubSeq(n, 1, Len(n) - 1)
  <2>2. q \in Seq(Parts) /\ Len(q) = Len(n) - 1 /\ \A k \in 1..Len(n) - 1 : q[k] = n[k]
    <3>1. Len(n) - 1 \in Nat /\ \A k \in 1..Len(n) - 1 : k \in 1..Len(n) BY <1>1, <2>1
    <3>2. \A k \in 1..Len(n) : n[k] \in Parts BY <1>1
    <3>3. \A k \in 1..Len(n) - 1 : n[k] \in Parts BY <3>1, <3>2, Zenon
    <3>4. 1 \in Int /\ Len(n) - 1 \in Int BY <3>1
    <3>5. /\ q \in Seq(Parts) /\ Len(q) = (IF 1 <= Len(n) - 1 THEN (Len(n) - 1) - 1 + 1 ELSE 0)
          /\ \A k \in 1..(Len(n) - 1) - 1 + 1 : q[k] = n[1 + k - 1]
      BY <3>3, <3>4, SubSeqProperties
    <3>6. \A k \in 1..Len(n) - 1 : k \in 1..(Len(n) - 1) - 1 + 1 /\ 1 + k - 1 = k BY <3>1
    <3>7. \A k \in 1..Len(n) - 1 : q[k] = n[k] BY <3>5, <3>6, Zenon
    <3> HIDE DEF q
    <3>8. Len(q) = Len(n) - 1
      <4> DEFINE y == Len(n)
      <4>1. y - 1 \in Nat /\ Len(q) = (IF 1 <= y - 1 THEN (y - 1) - 1 + 1 ELSE 0)
        BY <3>1, <3>5, Zenon
      <4>2. y \in Nat BY <1>1
      <4> HIDE DEF y
      <4>3. Len(q) = y - 1 BY <4>1, <4>2
      <4> QED BY <4>3, Zenon DEF y
    <3> QED BY <3>5, <3>7, <3>8
  <2>3. \A k \in 1..Len(n) - 1 : k \in 1..Len(n) BY <1>1
  <2> HIDE DEF q
  <2>4. \A k \in 1..Len(q) : q[k] # "+" BY <1>1, <2>2, <2>3, Zenon
  <2>5. PlainName(q) BY <2>2, <2>4, Zenon DEF PlainName
  <2> QED BY <2>5, Zenon DEF R!Front, q
<1> QED BY <1>2, Zenon DEF Whole

LEMMA AtFirst ==
  ASSUME NEW n, PlainName(n), NEW l, PlainList(l), NEW w, w = Rewritten(n, R!Domains(l)),
         NEW p, p = R!NextPlus(w, 1), NEW at, at = p + 1
  PROVE  At(n, l, w, p, at, 1)
<1>1. CASE Single(n, l)
  <2>1. w = Whole(n) BY <1>1, QualifiedSingle, Zenon
  <2>2. PlainName(w) BY <2>1, WholePlain, Zenon
  <2>3. Len(w) \in Nat
    <3>1. w \in Seq(Parts) BY <2>2, Zenon DEF PlainName
    <3> QED BY <3>1
  <2>4. \A m \in 1..Len(w) : w[m] # "+" BY <2>2, Zenon DEF PlainName
  <2>5. R!NextPlus(w, 1) = Len(w) + 1
    <3> DEFINE width == Len(w)
    <3>1. width \in Nat BY <2>3
    <3> HIDE DEF width
    <3>2. 1 \in Nat /\ width + 1 \in Nat /\ 1 <= width + 1 /\ width + 1 <= width + 1 /\ (width + 1) - 1 = width /\ ~(width + 1 <= width)
      BY <3>1
    <3>3. \A m \in 1..(width + 1) - 1 : w[m] # "+" BY <2>4, <3>2, Zenon DEF width
    <3> QED BY <2>3, <3>2, <3>3, NextPlusIs DEF width
  <2> QED BY <1>1, <2>1, <2>5, Zenon DEF At
<1>2. CASE ~Single(n, l)
  <2>1. PICK o : Places(w, n, l, o) BY <1>2, QualifiedMany, Zenon
  <2> DEFINE width == Len(n)
             all == Len(w)
  <2>2. Len(l) \in Nat /\ 1 \in 1..Len(l) /\ n \in Seq(Parts) /\ w \in Seq(Parts)
    <3>1. l \in Seq(Seq(Parts)) /\ Len(l) # 0 /\ n \in Seq(Parts) /\ w \in Seq(Parts)
      BY <1>2, <2>1, Zenon DEF Single, PlainList, PlainName, Places
    <3> QED BY <3>1
  <2>3. width \in Nat /\ all \in Nat BY <2>2
  <2>4. o[1] = width /\ w[width + 1] = "+" /\ \A j \in 1..width : w[j] # "+"
    <3>1. o[1] = width /\ w[o[1] + 1] = "+" /\ \A j \in 1..width : w[j] = n[j] BY <2>1, <2>2, Zenon DEF Places
    <3>2. \A j \in 1..width : n[j] # "+" BY Zenon DEF PlainName
    <3> QED BY <3>1, <3>2, Zenon
  <2>5. width + 1 <= all
    BY <2>1, <2>2, ManyCandidate
  <2> HIDE DEF width
  <2>6. 1 \in Nat /\ width + 1 \in Nat /\ 1 <= width + 1 /\ width + 1 <= all + 1 /\ (width + 1) - 1 = width /\ (width + 1) + 1 = width + 2
    <3> HIDE DEF all
    <3> QED BY <2>3, <2>5
  <2>7. \A m \in 1..(width + 1) - 1 : w[m] # "+" BY <2>4, <2>6, Zenon
  <2>8. R!NextPlus(w, 1) = width + 1
    BY <2>3, <2>4, <2>6, <2>7, NextPlusIs
  <2>9. p = width + 1 /\ at = o[1] + 2
    BY <2>4, <2>6, <2>8, Zenon
  <2> QED BY <1>2, <2>1, <2>9, Zenon DEF At, width
<1> QED BY <1>1, <1>2

LEMMA AtCandidate ==
  ASSUME NEW n, PlainName(n), NEW l, PlainList(l), NEW w, NEW p, NEW at,
         NEW k \in 1..Len(Expect(n, l)), At(n, l, w, p, at, k)
  PROVE  /\ Cand(w, p, at) = Expect(n, l)[k]
         /\ Final(w, p, at) <=> k = Len(Expect(n, l))
         /\ k # Len(Expect(n, l)) => At(n, l, w, p, R!NextPlus(w, at) + 1, k + 1)
<1>1. CASE Single(n, l)
  <2>1. w = Whole(n) /\ p = Len(w) + 1 /\ k = 1 BY <1>1, Zenon DEF At
  <2>2. Expect(n, l) = <<w>> BY <1>1, <2>1, ExpectSingle, Zenon
  <2>3. Len(<<w>>) = 1 /\ <<w>>[1] = w OBVIOUS
  <2>4. p > Len(w)
    <3>1. w \in Seq(Parts) BY <2>1, WholePlain, Zenon DEF PlainName
    <3>2. Len(w) \in Nat BY <3>1
    <3> QED BY <2>1, <3>2
  <2>5. Cand(w, p, at) = w /\ Final(w, p, at) BY <2>4, Zenon DEF Cand, Final
  <2> QED BY <2>1, <2>2, <2>3, <2>5, Zenon
<1>2. CASE ~Single(n, l)
  <2>1. PICK o : Places(w, n, l, o) /\ p = Len(n) + 1 /\ at = o[k] + 2 BY <1>2, Zenon DEF At
  <2>2. /\ Len(Expect(n, l)) = Len(l) /\ Len(l) \in Nat
        /\ \A j \in 1..Len(l) : Expect(n, l)[j] = n \o <<".">> \o l[j]
    BY <1>2, ExpectMany, Zenon
  <2>3. k \in 1..Len(l) BY <2>2, Zenon
  <2>4. Cand(w, p, at) = n \o <<".">> \o l[k] /\ p <= Len(w)
    <3>1. /\ Cand(w, Len(n) + 1, o[k] + 2) = n \o <<".">> \o l[k]
          /\ Len(n) + 1 <= Len(w)
      BY <2>1, <2>3, ManyCandidate
    <3> QED BY <2>1, <3>1, Zenon
  <2>5. R!NextPlus(w, at) = o[k + 1] + 1 /\ AtEnd(w, o[k + 1] + 1, k, l)
    <3>1. Places(w, n, l, o) BY <2>1
    <3>2. R!NextPlus(w, o[k] + 2) = o[k + 1] + 1 /\ AtEnd(w, o[k + 1] + 1, k, l)
      BY <2>3, <3>1, ManyNextPlus, Zenon
    <3> QED BY <2>1, <3>2, Zenon
  <2>6. ~(p > Len(w))
    <3>1. n \in Seq(Parts) /\ w \in Seq(Parts) BY <2>1, Zenon DEF PlainName, Places
    <3>2. Len(n) \in Nat /\ Len(w) \in Nat BY <3>1
    <3> QED BY <2>1, <2>4, <3>2
  <2>7. Final(w, p, at) <=> k = Len(l) BY <2>5, <2>6, Zenon DEF Final, AtEnd
  <2>8. k # Len(l) => At(n, l, w, p, R!NextPlus(w, at) + 1, k + 1)
    <3>1. k + 1 \in 1..Len(l) + 1 BY <2>2, <2>3
    <3>2. o[k + 1] \in Nat BY <2>1, <3>1, Zenon DEF Places
    <3>3. (o[k + 1] + 1) + 1 = o[k + 1] + 2 BY <3>2
    <3> QED BY <1>2, <2>1, <2>5, <3>3, Zenon DEF At
  <2> QED BY <2>2, <2>3, <2>4, <2>7, <2>8, Zenon
<1> QED BY <1>1, <1>2

TriedUpto(t, e, k) == t = [j \in 1..k |-> e[j]]
NoneBefore(e, k) == \A j \in 1..k - 1 : HasOf(e[j]) = {}

\* The names before the next one have been tried for nothing; or so many
\* were tried, and the last one decides.
TryingAt(n, l, w, p, at, t) ==
  \E k \in 1..Len(Expect(n, l)) :
     NoneBefore(Expect(n, l), k) /\ At(n, l, w, p, at, k) /\ TriedUpto(t, Expect(n, l), k - 1)
DoneAt(e, t, found) ==
  \E k \in 1..Len(e) :
     /\ NoneBefore(e, k) /\ TriedUpto(t, e, k)
     /\ found = HasOf(e[k]) /\ (found # {} \/ k = Len(e))

LEMMA AppendUpto ==
  ASSUME NEW e, NEW k \in Nat, k # 0, NEW t, TriedUpto(t, e, k - 1)
  PROVE  TriedUpto(Append(t, e[k]), e, k)
<1> DEFINE S == {e[j] : j \in 1..k}
           s == [j \in 1..k - 1 |-> e[j]]
           r == [j \in 1..k |-> e[j]]
           q == Append(s, e[k])
<1>1. k - 1 \in Nat /\ k \in 1..k /\ (k - 1) + 1 = k /\ \A j \in 1..k : j \in 1..k - 1 \/ j = k
  OBVIOUS
<1>2. \A j \in 1..k : e[j] \in S OBVIOUS
<1> HIDE DEF S
<1>3. s \in Seq(S) /\ Len(s) = k - 1 /\ \A j \in 1..k - 1 : s[j] = e[j]
  BY <1>1, <1>2
<1>4. r \in Seq(S) /\ Len(r) = k /\ \A j \in 1..k : r[j] = e[j]
  BY <1>1, <1>2
<1> HIDE DEF s, r
<1>5. q \in Seq(S) /\ Len(q) = Len(s) + 1 /\ (\A j \in 1..Len(s) : q[j] = s[j]) /\ q[Len(s) + 1] = e[k]
  <2>1. e[k] \in S BY <1>1, <1>2, Zenon
  <2> QED BY <1>3, <2>1, AppendProperties
<1> HIDE DEF q
<1>6. Len(q) = Len(r) /\ \A j \in 1..Len(q) : q[j] = r[j]
  BY <1>1, <1>3, <1>4, <1>5, Zenon
<1>7. q = r
  BY <1>4, <1>5, <1>6, SeqEqual
<1> QED BY <1>7, Zenon DEF TriedUpto, q, r, s

LEMMA FirstTried ==
  ASSUME NEW n, PlainName(n), NEW l, PlainList(l), NEW w, w = Rewritten(n, R!Domains(l)),
         NEW p, p = R!NextPlus(w, 1), NEW at, at = p + 1
  PROVE  TryingAt(n, l, w, p, at, <<>>)
<1>1. At(n, l, w, p, at, 1)
  BY AtFirst
<1>2. 1 \in 1..Len(Expect(n, l))
  <2>1. CASE Single(n, l)
    <3>1. Expect(n, l) = <<Whole(n)>> BY <2>1, ExpectSingle
    <3>2. Len(<<Whole(n)>>) = 1 OBVIOUS
    <3> HIDE DEF Whole
    <3> QED BY <3>1, <3>2
  <2>2. CASE ~Single(n, l)
    <3>1. Len(Expect(n, l)) = Len(l) /\ Len(l) \in Nat BY <2>2, ExpectMany
    <3>2. Len(l) # 0 BY <2>2, Zenon DEF Single
    <3> QED BY <3>1, <3>2
  <2> QED BY <2>1, <2>2
<1>3. NoneBefore(Expect(n, l), 1)
  <2>1. \A j \in 1..1 - 1 : FALSE OBVIOUS
  <2> QED BY <2>1, Zenon DEF NoneBefore
<1>4. TriedUpto(<<>>, Expect(n, l), 1 - 1)
  BY DEF TriedUpto
<1> QED BY <1>1, <1>2, <1>3, <1>4, Zenon DEF TryingAt

LEMMA NextTried ==
  ASSUME NEW n, PlainName(n), NEW l, PlainList(l), NEW w, NEW p, NEW at, NEW t, TryingAt(n, l, w, p, at, t),
         NEW found, found = HasOf(Cand(w, p, at))
  PROVE  /\ (found # {} \/ Final(w, p, at)) => DoneAt(Expect(n, l), Append(t, Cand(w, p, at)), found)
         /\ ~(found # {} \/ Final(w, p, at)) => TryingAt(n, l, w, p, R!NextPlus(w, at) + 1, Append(t, Cand(w, p, at)))
<1> DEFINE e == Expect(n, l)
           K == Len(e)
<1>1. PICK k \in 1..K : NoneBefore(e, k) /\ At(n, l, w, p, at, k) /\ TriedUpto(t, e, k - 1)
  BY Zenon DEF TryingAt
<1>2. /\ Cand(w, p, at) = e[k]
      /\ Final(w, p, at) <=> k = K
      /\ k # K => At(n, l, w, p, R!NextPlus(w, at) + 1, k + 1)
  BY <1>1, AtCandidate
<1>3. TriedUpto(Append(t, Cand(w, p, at)), e, k)
  <2>1. k \in Nat /\ k # 0 OBVIOUS
  <2>2. TriedUpto(Append(t, e[k]), e, k) BY <1>1, <2>1, AppendUpto
  <2> QED BY <1>2, <2>2, Zenon
<1>4. ASSUME found # {} \/ Final(w, p, at) PROVE DoneAt(e, Append(t, Cand(w, p, at)), found)
  <2>1. found = HasOf(e[k]) /\ (found # {} \/ k = K) BY <1>2, <1>4, Zenon
  <2> QED BY <1>1, <1>3, <2>1, Zenon DEF DoneAt
<1>5. ASSUME ~(found # {} \/ Final(w, p, at)) PROVE TryingAt(n, l, w, p, R!NextPlus(w, at) + 1, Append(t, Cand(w, p, at)))
  <2>1. k # K /\ HasOf(e[k]) = {} BY <1>2, <1>5, Zenon
  <2>2. k + 1 \in 1..K /\ (k + 1) - 1 = k /\ \A j \in 1..k : j \in 1..k - 1 \/ j = k
    <3>1. k # K BY <2>1
    <3>2. K \in Nat
      <4>1. CASE Single(n, l)
        <5>1. e = <<Whole(n)>> BY <4>1, ExpectSingle
        <5>2. Len(<<Whole(n)>>) = 1 OBVIOUS
        <5>3. K = 1 BY <5>1, <5>2, Zenon
        <5> HIDE DEF K
        <5> QED BY <5>3
      <4>2. CASE ~Single(n, l) BY <4>2, ExpectMany, Zenon
      <4> QED BY <4>1, <4>2
    <3> HIDE DEF K
    <3> QED BY <3>1, <3>2
  <2>3. NoneBefore(e, k + 1)
    BY <1>1, <2>1, <2>2, Zenon DEF NoneBefore
  <2>4. At(n, l, w, p, R!NextPlus(w, at) + 1, k + 1) BY <1>2, <2>1, Zenon
  <2>5. TriedUpto(Append(t, Cand(w, p, at)), e, (k + 1) - 1) BY <1>3, <2>2, Zenon
  <2> QED BY <2>2, <2>3, <2>4, <2>5, Zenon DEF TryingAt
<1> QED BY <1>4, <1>5

\* What was tried is what is expected, up to the first that has addresses.
LEMMA DoneRight ==
  ASSUME NEW Element, NEW e \in Seq(Element), NEW t, NEW found, DoneAt(e, t, found)
  PROVE  LET good == {k \in DOMAIN e : HasOf(e[k]) # {}} IN
         /\ R!IsPrefix(t, e) /\ found = HasOf(R!Last(t))
         /\ IF good = {} THEN t = e ELSE Len(t) \in good /\ \A k \in good : Len(t) <= k
<1> DEFINE good == {k \in DOMAIN e : HasOf(e[k]) # {}}
           K == Len(e)
<1>1. PICK k \in 1..K : /\ NoneBefore(e, k) /\ TriedUpto(t, e, k)
                        /\ found = HasOf(e[k]) /\ (found # {} \/ k = K)
  BY Zenon DEF DoneAt
<1>2. K \in Nat /\ DOMAIN e = 1..K /\ \A j \in 1..K : e[j] \in Element
  OBVIOUS
<1>3. k \in Nat /\ k # 0 /\ k <= K /\ \A j \in 1..k : j \in 1..K
  BY <1>2
<1>4. t \in Seq(Element) /\ Len(t) = k /\ \A j \in 1..k : t[j] = e[j]
  <2>1. \A j \in 1..k : e[j] \in Element BY <1>2, <1>3, Zenon
  <2>2. [h \in 1..k |-> e[h]] \in Seq(Element) /\ Len([h \in 1..k |-> e[h]]) = k /\ \A j \in 1..k : [h \in 1..k |-> e[h]][j] = e[j]
    BY <1>3, <2>1
  <2> QED BY <1>1, <2>2, Zenon DEF TriedUpto
<1>5. R!IsPrefix(t, e)
  <2>1. 0 + Len(t) <= Len(e) /\ 0 \in Nat /\ 0 + 1 = 1 /\ 0 + k = k /\ Len(t) <= Len(e) BY <1>3, <1>4
  <2>2. \A j \in 1..Len(t) : e[0 + j] = t[j] BY <1>4
  <2>3. SubSeq(e, 0 + 1, 0 + Len(t)) = t BY <1>4, <2>1, <2>2, PieceIs
  <2>4. SubSeq(t, 1, Len(t)) = t BY <1>4, SubSeqFull
  <2>5. SubSeq(e, 1, Len(t)) = t BY <1>4, <2>1, <2>3, Zenon
  <2> QED BY <2>1, <2>4, <2>5, Zenon DEF R!IsPrefix
<1>6. found = HasOf(R!Last(t))
  <2>1. t[k] = e[k]
    <3>1. k \in 1..k BY <1>3
    <3> QED BY <1>4, <3>1
  <2> QED BY <1>1, <1>4, <2>1, Zenon DEF R!Last
<1>7. ASSUME good = {} PROVE t = e
  <2>1. HasOf(e[k]) = {} BY <1>2, <1>7, Zenon
  <2>2. k = K BY <1>1, <2>1, Zenon
  <2>3. Len(t) = Len(e) /\ \A j \in 1..Len(t) : t[j] = e[j] BY <1>4, <2>2, Zenon
  <2> QED BY <1>4, <2>3, SeqEqual
<1>8. ASSUME good # {} PROVE Len(t) \in good /\ \A g \in good : Len(t) <= g
  <2>1. \A g \in good : g \in 1..K /\ g \notin 1..k - 1
    BY <1>1, <1>2, Zenon DEF NoneBefore
  <2>2. \A g \in good : k <= g
    <3> HIDE DEF good
    <3> QED BY <1>2, <1>3, <2>1
  <2>3. HasOf(e[k]) # {}
    <3> SUFFICES ASSUME HasOf(e[k]) = {} PROVE FALSE OBVIOUS
    <3>1. k = K BY <1>1, Zenon
    <3>2. PICK g \in good : TRUE BY <1>8, Zenon
    <3>3. g \in 1..K /\ k <= g /\ HasOf(e[g]) # {} BY <2>1, <2>2, Zenon
    <3>4. g = k
      <4> HIDE DEF good, K
      <4> QED BY <1>2, <3>1, <3>3
    <3> QED BY <3>3, <3>4
  <2>4. k \in good BY <1>2, <1>3, <2>3, Zenon
  <2> QED BY <1>4, <2>2, <2>4, Zenon
<1> QED BY <1>5, <1>6, <1>7, <1>8, Zenon

TriedInv ==
  /\ rpc \in {"try", "done"} => rname \in Names
  /\ rpc = "try" => \A l : (PlainList(l) /\ rewrite.data = R!Domains(l)) => TryingAt(rname, l, fqdn, plus, ri, tried)
  /\ rpc = "done" => \A l : (PlainList(l) /\ rewrite.data = R!Domains(l)) => DoneAt(Expect(rname, l), tried, out)

LEMMA NamesPlain ==
  ASSUME R!SearchBounds, NEW n \in Names
  PROVE  PlainName(n)
<1>1. n \in Seq(R!ToSet(n)) /\ "+" \notin R!ToSet(n)
  BY Zenon DEF R!SearchBounds
<1>2. \A y \in R!ToSet(n) : y \in Parts BY Zenon DEF Parts
<1>3. Len(n) \in Nat /\ \A k \in 1..Len(n) : n[k] \in R!ToSet(n)
  <2> HIDE DEF R!ToSet
  <2> QED BY <1>1
<1>4. n = [k \in 1..Len(n) |-> n[k]] BY <1>1
<1>5. \A k \in 1..Len(n) : n[k] \in Parts /\ n[k] # "+" BY <1>1, <1>2, <1>3, Zenon
<1>6. n \in Seq(Parts)
  <2> HIDE DEF Parts
  <2> QED BY <1>3, <1>4, <1>5
<1> QED BY <1>5, <1>6, Zenon DEF PlainName

LEMMA ListsPlain ==
  ASSUME R!SearchBounds, NEW c \in R!ToSet(Configs), R!Searched(c)
  PROVE  PlainList(R!DomainList(c))
<1> DEFINE l == R!DomainList(c)
<1>1. /\ l \in Seq(R!ToSet(l))
      /\ \A d \in R!ToSet(l) : d \in Seq(R!ToSet(d)) /\ d # <<>> /\ "+" \notin R!ToSet(d) /\ R!Last(d) # "."
  BY Zenon DEF R!SearchBounds
<1>2. l \in Lists BY Zenon DEF Lists
<1> HIDE DEF l
<1>3. ASSUME NEW d \in R!ToSet(l) PROVE PlainName(d) /\ Len(d) # 0 /\ d[Len(d)] # "."
  <2>1. d \in Seq(R!ToSet(d)) /\ d # <<>> /\ "+" \notin R!ToSet(d) /\ R!Last(d) # "." BY <1>1
  <2>2. \A y \in R!ToSet(d) : y \in Parts
    <3> SUFFICES ASSUME NEW y \in R!ToSet(d) PROVE y \in Parts OBVIOUS
    <3>1. y \in PartsOf(l) BY Zenon DEF PartsOf
    <3>2. y \in UNION {PartsOf(m) : m \in Lists} BY <1>2, <3>1, Zenon
    <3> QED BY <3>2, Zenon DEF Parts
  <2>3. Len(d) \in Nat /\ \A k \in 1..Len(d) : d[k] \in R!ToSet(d)
    <3> HIDE DEF R!ToSet
    <3> QED BY <2>1
  <2>4. \A k \in 1..Len(d) : d[k] \in Parts /\ d[k] # "+" BY <2>1, <2>2, <2>3, Zenon
  <2>5. d = [k \in 1..Len(d) |-> d[k]] BY <2>1
  <2>6. d \in Seq(Parts)
    <3> HIDE DEF Parts
    <3> QED BY <2>3, <2>4, <2>5
  <2>7. Len(d) # 0 BY <2>1, EmptySeq
  <2> QED BY <2>1, <2>4, <2>6, <2>7, Zenon DEF PlainName, R!Last
<1>4. Len(l) \in Nat /\ \A k \in 1..Len(l) : l[k] \in R!ToSet(l)
  <2> HIDE DEF R!ToSet
  <2> QED BY <1>1
<1>5. l = [k \in 1..Len(l) |-> l[k]] BY <1>1
<1>6. \A k \in 1..Len(l) : l[k] \in Seq(Parts) BY <1>3, <1>4, Zenon DEF PlainName
<1>7. l \in Seq(Seq(Parts)) BY <1>4, <1>5, <1>6
<1>8. \A k \in 1..Len(l) : PlainName(l[k]) /\ Len(l[k]) # 0 /\ l[k][Len(l[k])] # "."
  BY <1>3, <1>4, Zenon
<1> QED BY <1>7, <1>8, Zenon DEF PlainList, l

LEMMA TriedStays ==
  ASSUME TriedInv, UNCHANGED <<rpc, rname, fqdn, plus, ri, tried, out>>, rewrite' = rewrite
  PROVE  TriedInv'
BY Zenon DEF TriedInv

LEMMA FoundKeeps ==
  ASSUME R!SearchBounds, TriedInv, rpc = "try", NEW found, found = HasOf(R!Candidate), R!Found(found), rewrite' = rewrite
  PROVE  TriedInv'
<1>1. rname \in Names /\ rname' = rname /\ fqdn' = fqdn /\ plus' = plus /\ out' = found /\ tried' = Append(tried, R!Candidate)
      /\ rpc' = (IF R!Enough(found) THEN "done" ELSE "try") /\ ri' = R!NextPlus(fqdn, ri) + 1
  BY Zenon DEF TriedInv, R!Found, R!Next1
<1>2. R!Candidate = Cand(fqdn, plus, ri)
  BY Zenon DEF R!Candidate, Cand
<1>3. R!Enough(found) <=> (found # {} \/ Final(fqdn, plus, ri))
  BY Zenon DEF R!Enough, Final
<1>4. PlainName(rname) BY <1>1, NamesPlain
<1>5. "try" # "done" OBVIOUS
<1>6. ASSUME NEW l, PlainList(l), rewrite.data = R!Domains(l)
      PROVE  /\ R!Enough(found) => DoneAt(Expect(rname, l), tried', out')
             /\ ~R!Enough(found) => TryingAt(rname, l, fqdn, plus, ri', tried')
  <2>1. TryingAt(rname, l, fqdn, plus, ri, tried) BY <1>6, Zenon DEF TriedInv
  <2>2. found = HasOf(Cand(fqdn, plus, ri)) BY <1>2, Zenon
  <2>3. /\ (found # {} \/ Final(fqdn, plus, ri)) => DoneAt(Expect(rname, l), Append(tried, Cand(fqdn, plus, ri)), found)
        /\ ~(found # {} \/ Final(fqdn, plus, ri)) => TryingAt(rname, l, fqdn, plus, R!NextPlus(fqdn, ri) + 1, Append(tried, Cand(fqdn, plus, ri)))
    BY <1>4, <1>6, <2>1, <2>2, NextTried
  <2> QED BY <1>1, <1>2, <1>3, <2>3, Zenon
<1>7. rpc' = "try" => \A l : (PlainList(l) /\ rewrite'.data = R!Domains(l)) => TryingAt(rname', l, fqdn', plus', ri', tried')
  BY <1>1, <1>5, <1>6, Zenon
<1>8. rpc' = "done" => \A l : (PlainList(l) /\ rewrite'.data = R!Domains(l)) => DoneAt(Expect(rname', l), tried', out')
  BY <1>1, <1>5, <1>6, Zenon
<1> QED BY <1>1, <1>7, <1>8, Zenon DEF TriedInv

LEMMA QualifyTries ==
  ASSUME R!SearchBounds, NEW n \in Names, R!Qualify(n)
  PROVE  TriedInv'
<1>1. rname' = n /\ tried' = <<>> /\ PlainName(n)
  BY NamesPlain DEF R!Qualify
<1>2. \/ fqdn' = R!FoldLeft(R!Apply, n, rewrite'.data) /\ rpc' = "try" /\ plus' = R!NextPlus(fqdn', 1) /\ ri' = plus' + 1
      \/ rpc' = "failed"
  BY Zenon DEF R!Qualify
<1>3. "failed" # "try" /\ "failed" # "done" /\ "try" # "done" OBVIOUS
<1>4. CASE rpc' = "failed"
  BY <1>3, <1>4, Zenon DEF TriedInv
<1>5. CASE fqdn' = R!FoldLeft(R!Apply, n, rewrite'.data) /\ rpc' = "try" /\ plus' = R!NextPlus(fqdn', 1) /\ ri' = plus' + 1
  <2>1. fqdn' = Rewritten(n, rewrite'.data) BY <1>5, Zenon DEF Rewritten
  <2>2. ASSUME NEW l, PlainList(l), rewrite'.data = R!Domains(l)
        PROVE  TryingAt(n, l, fqdn', plus', ri', <<>>)
    <3>1. fqdn' = Rewritten(n, R!Domains(l)) BY <2>1, <2>2, Zenon
    <3> DEFINE w == fqdn'
               p == plus'
               at == ri'
    <3>2. w = Rewritten(n, R!Domains(l)) /\ p = R!NextPlus(w, 1) /\ at = p + 1 BY <1>5, <3>1, Zenon
    <3> HIDE DEF w, p, at
    <3>3. TryingAt(n, l, w, p, at, <<>>) BY <1>1, <2>2, <3>2, FirstTried
    <3> QED BY <3>3, Zenon DEF w, p, at
  <2> QED BY <1>1, <1>3, <1>5, <2>2, Zenon DEF TriedInv
<1> QED BY <1>2, <1>4, <1>5

LEMMA TriedKept == ASSUME R!SearchBounds PROVE TriedInv /\ [R!Next]_R!vars => TriedInv'
<1> SUFFICES ASSUME TriedInv, [R!Next]_R!vars PROVE TriedInv'
  OBVIOUS
<1>1. CASE \E n \in Names : R!Qualify(n)
  BY <1>1, QualifyTries
<1>2. CASE R!TryLiteral
  <2>1. rpc = "try" /\ R!Numeric(R!Candidate) /\ R!Found(R!ToSet(R!Literal(R!Candidate))) /\ rewrite' = rewrite
    BY <1>2, Zenon DEF R!TryLiteral
  <2>2. R!ToSet(R!Literal(R!Candidate)) = HasOf(R!Candidate)
    BY <2>1, Zenon DEF HasOf
  <2> QED BY <2>1, <2>2, FoundKeeps
<1>3. CASE R!Try
  <2>1. rpc = "try" /\ ~R!Numeric(R!Candidate) /\ R!Found(R!Addresses(R!Candidate)) /\ rewrite' = rewrite
    BY <1>3, Zenon DEF R!Try
  <2>2. R!Addresses(R!Candidate) = HasOf(R!Candidate)
    BY <2>1, Zenon DEF HasOf
  <2> QED BY <2>1, <2>2, FoundKeeps
<1>4. CASE R!Fail \/ R!Return
  <2>1. rpc' \in {"failed", "idle"} BY <1>4 DEF R!Fail, R!Return
  <2>2. "failed" # "try" /\ "failed" # "done" /\ "idle" # "try" /\ "idle" # "done" OBVIOUS
  <2>3. rpc' # "try" /\ rpc' # "done" BY <2>1, <2>2
  <2> QED BY <2>3, Zenon DEF TriedInv
<1>5. CASE R!Reconfigure \/ R!Tick \/ UNCHANGED R!vars
  <2>1. UNCHANGED <<rpc, rname, fqdn, plus, ri, tried, out>> /\ rewrite' = rewrite
    BY <1>5, Zenon DEF R!Reconfigure, R!Tick, R!vars, R!call
  <2> QED BY <2>1, TriedStays
<1> QED BY <1>1, <1>2, <1>3, <1>4, <1>5, Zenon DEF R!Next

\* The lists that a configuration gives are those that a name is tried with.
LEMMA TriedIsRight ==
  ASSUME R!SearchBounds, R!ResolveBounds, Clock, TriedInv
  PROVE  R!TriedRight
<1> SUFFICES ASSUME rpc = "done", NEW v \in 1..version, R!Searched(Configs[v]), rewrite.data = R!Rules(Configs[v])
             PROVE  LET expected == R!Expected(rname, Configs[v])
                        has(s) == IF R!Numeric(s) THEN R!ToSet(R!Literal(s)) ELSE R!Addresses(s)
                        good == {k \in DOMAIN expected : has(expected[k]) # {}}
                    IN /\ R!IsPrefix(tried, expected) /\ out = has(R!Last(tried))
                       /\ IF good = {} THEN tried = expected
                          ELSE Len(tried) \in good /\ \A k \in good : Len(tried) <= k
  BY Zenon DEF R!TriedRight
<1> DEFINE c == Configs[v]
           l == R!DomainList(c)
<1>1. c \in R!ToSet(Configs)
  <2>1. Configs \in Seq(R!ToSet(Configs)) /\ version \in 1..Len(Configs) BY DEF R!ResolveBounds, Clock
  <2>2. Len(Configs) \in Nat BY <2>1
  <2>3. v \in 1..Len(Configs) BY <2>1, <2>2
  <2> HIDE DEF R!ToSet
  <2> QED BY <2>1, <2>3
<1>2. PlainList(l) BY <1>1, ListsPlain
<1>3. R!Rules(c) = R!Domains(l)
  BY Zenon DEF R!Searched, R!Rules, R!DomainList
<1>4. R!Expected(rname, c) = Expect(rname, l)
  BY Zenon DEF R!Expected, Expect, Dotted
<1>5. DoneAt(Expect(rname, l), tried, out)
  BY <1>2, <1>3, Zenon DEF TriedInv
<1> DEFINE e == Expect(rname, l)
<1>6. \E Element : e \in Seq(Element)
  <2>1. CASE Single(rname, l)
    <3>1. e = <<Whole(rname)>> BY <1>2, <2>1, ExpectSingle
    <3>2. <<Whole(rname)>> \in Seq({Whole(rname)}) OBVIOUS
    <3> QED BY <3>1, <3>2, Zenon
  <2>2. CASE ~Single(rname, l)
    <3>1. Len(e) = Len(l) /\ DOMAIN e = 1..Len(l) /\ Len(l) \in Nat BY <1>2, <2>2, ExpectMany
    <3>2. e = [k \in DOMAIN l |-> rname \o <<".">> \o l[k]]
      <4>1. l # <<>>
        <5>1. Len(<<>>) = 0 OBVIOUS
        <5> QED BY <2>2, <5>1, Zenon DEF Single
      <4> QED BY <2>2, <4>1, Zenon DEF Expect, Single
    <3>3. l \in Seq(Seq(Parts)) BY <1>2, Zenon DEF PlainList
    <3>4. DOMAIN l = 1..Len(l) BY <3>3
    <3> DEFINE S == {rname \o <<".">> \o l[k] : k \in 1..Len(l)}
               a(k) == rname \o <<".">> \o l[k]
    <3>5. \A k \in 1..Len(l) : a(k) \in S OBVIOUS
    <3> HIDE DEF S, a
    <3>6. [k \in 1..Len(l) |-> a(k)] \in Seq(S) BY <3>1, <3>5
    <3>7. e = [k \in 1..Len(l) |-> a(k)] BY <3>2, <3>4, Zenon DEF a
    <3> QED BY <3>6, <3>7, Zenon
  <2> QED BY <2>1, <2>2
<1>7. PICK Element : e \in Seq(Element) BY <1>6
<1> HIDE DEF e
<1>8. LET good == {k \in DOMAIN e : HasOf(e[k]) # {}} IN
      /\ R!IsPrefix(tried, e) /\ out = HasOf(R!Last(tried))
      /\ IF good = {} THEN tried = e ELSE Len(tried) \in good /\ \A k \in good : Len(tried) <= k
  <2>1. DoneAt(e, tried, out) BY <1>5, Zenon DEF e
  <2> QED BY <1>7, <2>1, DoneRight
<1> QED BY <1>4, <1>8, Zenon DEF HasOf, e

\* What is kept of the addresses fits, and is something.
LEMMA IpsFit ==
  ASSUME R!SearchBounds, NEW c \in R!ToSet(Configs), R!IpsReadable(c)
  PROVE  Len(R!Ips(c)) \in 1..MaxIps
<1> DEFINE s == IF c.cacheip # <<>> THEN c.cacheip ELSE R!Nameservers(c)
           m == IF Len(s) > MaxIps THEN MaxIps ELSE Len(s)
           a == SubSeq(s, 1, m)
<1>1. s \in Seq(R!ToSet(s))
  <2>1. c.cacheip \in Seq(R!ToSet(c.cacheip)) /\ (c.cacheip = <<>> => R!Nameservers(c) \in Seq(R!ToSet(R!Nameservers(c))))
    BY Zenon DEF R!SearchBounds
  <2> QED BY <2>1, Zenon
<1>2. R!Ips(c) = IF a = <<>> THEN <<Local>> ELSE a
  BY Zenon DEF R!Ips, R!AtMost
<1>3. MaxIps \in Nat \ {0} BY DEF R!SearchBounds
<1> HIDE DEF s, R!ToSet
<1>4. Len(s) \in Nat BY <1>1
<1>5. m \in 0..Len(s) /\ m <= MaxIps /\ m \in Nat BY <1>3, <1>4
<1> HIDE DEF m
<1>6. a \in Seq(R!ToSet(s)) /\ Len(a) = m
  <2>1. 1 \in 1..Len(s) + 1 BY <1>4
  <2>2. m - 1 + 1 = m BY <1>5
  <2> QED BY <1>1, <1>4, <1>5
<1> HIDE DEF a
<1>7. CASE a = <<>>
  <2>1. Len(<<Local>>) = 1 OBVIOUS
  <2> QED BY <1>2, <1>3, <1>7, <2>1
<1>8. CASE a # <<>>
  <2>1. Len(a) # 0 BY <1>6, <1>8
  <2> QED BY <1>2, <1>5, <1>6, <1>8, <2>1
<1> QED BY <1>7, <1>8

LEMMA UsedCounts ==
  ASSUME NEW r, Reading(r), NEW a
  PROVE  R!Used(r).uses = r.uses - 1 /\ R!Failed(r, a).uses = r.uses
<1>1. PICK o, u, e, d : r = [ok |-> o, uses |-> u, deadline |-> e, data |-> d] /\ e \in Int
  BY DEF Reading
<1>2. R!Used(r) = [ok |-> o, uses |-> u - 1, deadline |-> e, data |-> d]
  BY <1>1 DEF R!Used
<1>3. [[ok |-> o, uses |-> u, deadline |-> e, data |-> d] EXCEPT !.ok = 0]
        = [ok |-> 0, uses |-> u, deadline |-> e, data |-> d]
  OBVIOUS
<1>4. R!Failed(r, a) = [ok |-> 0, uses |-> u, deadline |-> e, data |-> a]
  <2>1. [[ok |-> 0, uses |-> u, deadline |-> e, data |-> d] EXCEPT !.data = a]
          = [ok |-> 0, uses |-> u, deadline |-> e, data |-> a]
    OBVIOUS
  <2>2. R!Failed(r, a) = [[r EXCEPT !.ok = 0] EXCEPT !.data = a]
    BY DEF R!Failed
  <2> QED BY <1>1, <1>3, <2>1, <2>2
<1> QED BY <1>1, <1>2, <1>4

\* A reading is used, fails or is made anew, and its uses stay in their bounds.
UsesFit(r) == r.uses \in 0..Uses

LEMMA CountedKept ==
  ASSUME R!SearchBounds, NEW r, Reading(r), UsesFit(r), NEW s,
         \/ s = r \/ (R!Good(r) /\ s = R!Used(r)) \/ \E a : s = R!Failed(r, a) \/ \E d : s = R!Read(d)
  PROVE  UsesFit(s)
<1>1. Uses \in Nat \ {0} BY DEF R!SearchBounds
<1>2. ASSUME R!Good(r), s = R!Used(r) PROVE UsesFit(s)
  <2>1. r.uses # 0 BY <1>2 DEF R!Good
  <2>2. s.uses = r.uses - 1 BY <1>2, UsedCounts
  <2> QED BY <1>1, <2>1, <2>2 DEF UsesFit
<1>3. ASSUME NEW a, s = R!Failed(r, a) PROVE UsesFit(s)
  <2>1. s.uses = r.uses BY <1>3, UsedCounts
  <2> QED BY <2>1 DEF UsesFit
<1>4. ASSUME NEW d, s = R!Read(d) PROVE UsesFit(s)
  <2>1. s.uses = Uses - 1 BY <1>4 DEF R!Read
  <2> QED BY <1>1, <2>1 DEF UsesFit
<1> QED BY <1>2, <1>3, <1>4, Zenon

LEMMA TypeKept == ASSUME R!ResolveBounds, R!SearchBounds PROVE Readings /\ R!TypeOK /\ [R!Next]_R!vars => R!TypeOK'
<1> SUFFICES ASSUME Readings, R!TypeOK, [R!Next]_R!vars PROVE R!TypeOK'
  OBVIOUS
<1> DEFINE Fits(r) == r.ok = 1 => Len(r.data) \in 1..MaxIps
           Step(r, s) == s = r \/ (R!Good(r) /\ s = R!Used(r)) \/ \E a : s = R!Failed(r, a) \/ \E d : s = R!Read(d)
           Asked(s) == s = resolv \/ s = R!Used(resolv) \/ (\E a : s = R!Failed(resolv, a))
                       \/ (R!IpsReadable(Configs[version]) /\ s = R!Read(R!Ips(Configs[version])))
<1>1. Reading(rewrite) /\ Reading(resolv) BY Zenon DEF Readings, RewriteRead, ResolvRead
<1>2. UsesFit(rewrite) /\ UsesFit(resolv) /\ Fits(resolv) BY Zenon DEF R!TypeOK, UsesFit
<1>3. Configs[version] \in R!ToSet(Configs)
  <2>1. Configs \in Seq(R!ToSet(Configs)) /\ version \in 1..Len(Configs) BY DEF R!ResolveBounds, Readings, Clock
  <2> HIDE DEF R!ToSet
  <2> QED BY <2>1
<1>4. Step(rewrite, rewrite') /\ Step(resolv, resolv') /\ Asked(resolv')
  <2>1. CASE \E n \in Names : R!Qualify(n)
    BY <2>1, Zenon DEF R!Qualify
  <2>2. CASE R!Try \/ R!Fail
    BY <2>2, Zenon DEF R!Try, R!Fail
  <2>3. CASE R!TryLiteral \/ R!Return \/ R!Reconfigure \/ R!Tick \/ UNCHANGED R!vars
    BY <2>3, Zenon DEF R!TryLiteral, R!Return, R!Reconfigure, R!Tick, R!vars
  <2> QED BY <2>1, <2>2, <2>3, Zenon DEF R!Next
<1>5. UsesFit(rewrite') /\ UsesFit(resolv')
  <2> DEFINE a == rewrite'
             b == resolv'
  <2>1. Step(rewrite, a) /\ Step(resolv, b) BY <1>4, Zenon
  <2> HIDE DEF a, b
  <2>2. UsesFit(a) BY <1>1, <1>2, <2>1, CountedKept
  <2>3. UsesFit(b) BY <1>1, <1>2, <2>1, CountedKept
  <2> QED BY <2>2, <2>3, Zenon DEF a, b
<1>6. Fits(resolv')
  <2>1. CASE resolv' = resolv BY <1>2, <2>1, Zenon
  <2>2. CASE resolv' = R!Used(resolv)
    <3>1. R!Used(resolv).ok = resolv.ok /\ R!Used(resolv).data = resolv.data BY <1>1, UsedKept
    <3> QED BY <1>2, <2>2, <3>1, Zenon
  <2>3. CASE \E a : resolv' = R!Failed(resolv, a)
    <3>1. PICK a : resolv' = R!Failed(resolv, a) BY <2>3
    <3>2. R!Failed(resolv, a).ok = 0 BY <1>1, FailedKept
    <3>3. 0 # 1 OBVIOUS
    <3> QED BY <3>1, <3>2, <3>3, Zenon
  <2>4. CASE R!IpsReadable(Configs[version]) /\ resolv' = R!Read(R!Ips(Configs[version]))
    <3>1. Len(R!Ips(Configs[version])) \in 1..MaxIps BY <1>3, <2>4, IpsFit
    <3>2. resolv'.data = R!Ips(Configs[version]) BY <2>4 DEF R!Read
    <3> QED BY <3>1, <3>2, Zenon
  <2> QED BY <1>4, <2>1, <2>2, <2>3, <2>4, Zenon
<1> QED BY <1>5, <1>6, Zenon DEF R!TypeOK, UsesFit

(* dns_ipq.c:48-62: for all configurations, names and answers, the names   *)
(* tried are those expected, in their order, up to the first that has      *)
(* addresses; a reading is used no more often than it may be, and has some *)
(* servers but no more than there is room for.                             *)
THEOREM TriedRightAlways == ASSUME R!ResolveBounds, R!SearchBounds PROVE R!Spec => [](R!TypeOK /\ R!TriedRight)
<1>1. R!Init => Readings /\ TriedInv /\ R!TypeOK
  <2> SUFFICES ASSUME R!Init PROVE Readings /\ TriedInv /\ R!TypeOK OBVIOUS
  <2>1. Readings BY InitReadings
  <2>2. TriedInv
    <3>1. rpc = "idle" /\ "idle" # "try" /\ "idle" # "done" BY DEF R!Init
    <3> QED BY <3>1, Zenon DEF TriedInv
  <2>3. R!TypeOK
    <3>1. Uses \in Nat \ {0} BY DEF R!SearchBounds
    <3> QED BY <3>1 DEF R!Init, R!Unread, R!TypeOK
  <2> QED BY <2>1, <2>2, <2>3
<1>2. Readings /\ TriedInv /\ R!TypeOK /\ [R!Next]_R!vars => (Readings /\ TriedInv /\ R!TypeOK)'
  BY ReadingsKept, TriedKept, TypeKept
<1>3. Readings /\ TriedInv /\ R!TypeOK => R!TypeOK /\ R!TriedRight
  <2> SUFFICES ASSUME Readings, TriedInv, R!TypeOK PROVE R!TriedRight OBVIOUS
  <2>1. Clock BY Zenon DEF Readings
  <2> QED BY <2>1, TriedIsRight
<1> QED BY <1>1, <1>2, <1>3, PTL DEF R!Spec
-----------------------------------------------------------------------------
(* loglol.c                                                                *)

File == [lines : Seq(Int), mtime : Int, own : BOOLEAN]

\* What current has when everything held back is written.
All == current.lines \o buffer

\* The state.
Types ==
  /\ lnow \in Begin..MaxLog /\ came \in 0..MaxLines
  /\ current \in File /\ buffer \in Seq(Int)
  /\ DOMAIN old \subseteq Int /\ old \in [DOMAIN old -> File]
  /\ lpc \in {"down", "full", "close", "rename", "open", "clean", "run"}
  /\ lines \in 0..LOGLINES + 2 /\ (lpc = "run" => lines <= LOGLINES + 1)
  /\ flush_time \in {0, 1} /\ alarm \in {0, 1}

\* How far a rotation has come, and names that are seconds gone by.
Rotating ==
  /\ ~current.own => current = L!Absent
  /\ lpc \in {"full", "close", "rename", "clean", "run"} => current.own
  /\ lpc = "open" => current = L!Absent
  /\ lpc \in {"down", "rename", "open"} => buffer = <<>>
  /\ \A n \in L!Own : n <= lnow
  /\ lpc \in {"close", "rename"} =>
       oldfilename \in Int \ DOMAIN old /\ oldfilename <= lnow /\ \A n \in L!Own : n <= oldfilename

\* The order, and that no line has a number that is to come.
Upto(s, n) == \A k \in 1..Len(s) : s[k] <= n
Ordered ==
  /\ L!InOrder /\ Upto(All, came)
  /\ \A n \in L!Own : Upto(old[n].lines, came)

\* Lines one after the other, in all and at the end.
Short(s) == \A k, m \in 1..Len(s) : (\A h \in k..m : s[h] > 0) => m - k < LOGLINES + 2
Ends(s, n) == \A k \in 1..Len(s) : (\A h \in k..Len(s) : s[h] > 0) => Len(s) - k < n
Counting ==
  /\ Short(All) /\ \A n \in DOMAIN old : Short(old[n].lines)
  /\ lpc = "clean" => Ends(All, 0)
  /\ lpc \in {"full", "close", "run"} => Ends(All, lines)

LogInv == Types /\ Rotating /\ Ordered /\ Counting

-----------------------------------------------------------------------------
(* Sequences of lines.                                                     *)

LEMMA Joined ==
  ASSUME NEW s \in Seq(Int), NEW t \in Seq(Int)
  PROVE  /\ s \o t \in Seq(Int) /\ Len(s) \in Nat /\ Len(t) \in Nat /\ Len(s \o t) = Len(s) + Len(t)
         /\ \A k \in 1..Len(s) : (s \o t)[k] = s[k]
         /\ \A k \in Len(s) + 1..Len(s) + Len(t) : (s \o t)[k] = t[k - Len(s)]
         /\ \A k \in 1..Len(t) : (s \o t)[Len(s) + k] = t[k]
<1>1. /\ s \o t \in Seq(Int) /\ Len(s \o t) = Len(s) + Len(t)
      /\ \A k \in 1..Len(s) + Len(t) : (s \o t)[k] = IF k <= Len(s) THEN s[k] ELSE t[k - Len(s)]
  BY ConcatProperties
<1>2. Len(s) \in Nat /\ Len(t) \in Nat
  OBVIOUS
<1>3. \A k \in 1..Len(t) : (s \o t)[Len(s) + k] = t[k]
  <2> TAKE k \in 1..Len(t)
  <2>1. Len(s) + k \in 1..Len(s) + Len(t) /\ ~(Len(s) + k <= Len(s)) /\ (Len(s) + k) - Len(s) = k
    BY <1>2
  <2> QED BY <1>1, <2>1
<1> QED BY <1>1, <1>2, <1>3

LEMMA OneMore ==
  ASSUME NEW s \in Seq(Int), NEW e \in Int
  PROVE  /\ Append(s, e) \in Seq(Int) /\ Len(s) \in Nat /\ Len(Append(s, e)) = Len(s) + 1
         /\ \A k \in 1..Len(s) : Append(s, e)[k] = s[k] /\ s[k] \in Int
         /\ Append(s, e)[Len(s) + 1] = e
  OBVIOUS

LEMMA AppendJoined ==
  ASSUME NEW s \in Seq(Int), NEW t \in Seq(Int), NEW e \in Int
  PROVE  /\ s \o Append(t, e) = Append(s \o t, e)
         /\ (s \o t) \o <<e>> = Append(s \o t, e)
<1>1. <<e>> \in Seq(Int) /\ s \o t \in Seq(Int)
  OBVIOUS
<1>2. Append(t, e) = t \o <<e>> /\ Append(s \o t, e) = (s \o t) \o <<e>>
  BY <1>1, AppendIsConcat
<1> QED BY <1>1, <1>2, ConcatAssociative

LEMMA WholePart ==
  ASSUME NEW s \in Seq(Int)
  PROVE  /\ SubSeq(s, 1, Len(s)) = s /\ SubSeq(s, 0 + 1, Len(s)) = s
         /\ SubSeq(s, 1, 0) = <<>> /\ SubSeq(s, Len(s) + 1, Len(s)) = <<>>
         /\ s \o <<>> = s /\ <<>> \o s = s /\ <<>> \in Seq(Int)
<1>1. Len(s) \in Nat
  OBVIOUS
<1>2. SubSeq(s, 1, 0) = <<>>
  BY SubSeqEmpty
<1>3. SubSeq(s, Len(s) + 1, Len(s)) = <<>>
  <2>1. Len(s) + 1 \in Int /\ Len(s) \in Int /\ Len(s) < Len(s) + 1
    BY <1>1
  <2> QED BY <2>1, SubSeqEmpty
<1>4. SubSeq(s, 1, Len(s)) = s
  BY SubSeqFull
<1>5. 0 + 1 = 1
  OBVIOUS
<1> QED BY <1>2, <1>3, <1>4, <1>5, ConcatEmptySeq

\* What is passed on and what is not.
LEMMA Parted ==
  ASSUME NEW s \in Seq(Int), NEW n \in 0..Len(s)
  PROVE  /\ SubSeq(s, 1, n) \in Seq(Int) /\ SubSeq(s, n + 1, Len(s)) \in Seq(Int)
         /\ SubSeq(s, 1, n) \o SubSeq(s, n + 1, Len(s)) = s
<1>1. Len(s) \in Nat /\ n \in Int /\ n + 1 \in Int
  OBVIOUS
<1>2. SubSeq(s, 1, n) \in Seq(Int)
  BY <1>1, SubSeqProperties
<1>3. SubSeq(s, n + 1, Len(s)) \in Seq(Int)
  BY <1>1, SubSeqProperties
<1>4. 1 \in 1..Len(s) + 1 /\ n \in 1 - 1..Len(s) /\ Len(s) \in n..Len(s)
  BY <1>1
<1>5. SubSeq(s, 1, n) \o SubSeq(s, n + 1, Len(s)) = SubSeq(s, 1, Len(s))
  BY <1>4, ConcatAdjacentSubSeq
<1> QED BY <1>2, <1>3, <1>5, WholePart

(* Order and number of lines when there is one more, or fewer.             *)

LEMMA IncreasingMore ==
  ASSUME NEW s \in Seq(Int), NEW n \in Int, NEW e \in Int, L!Increasing(s), Upto(s, n), e <= 0 \/ e > n
  PROVE  L!Increasing(Append(s, e))
<1>1. /\ Len(Append(s, e)) = Len(s) + 1 /\ Append(s, e)[Len(s) + 1] = e /\ Len(s) \in Nat
      /\ \A k \in 1..Len(s) : Append(s, e)[k] = s[k] /\ s[k] \in Int
  BY OneMore
<1>2. SUFFICES ASSUME NEW k \in 1..Len(s) + 1, NEW m \in 1..Len(s) + 1, k < m,
                      Append(s, e)[k] > 0, Append(s, e)[m] > 0
               PROVE  Append(s, e)[k] < Append(s, e)[m]
  BY <1>1 DEF L!Increasing
<1>3. CASE m = Len(s) + 1
  <2>1. k \in 1..Len(s)
    BY <1>1, <1>2, <1>3
  <2>2. s[k] <= n
    BY <2>1 DEF Upto
  <2> QED BY <1>1, <1>2, <1>3, <2>1, <2>2
<1>4. CASE m # Len(s) + 1
  <2>1. k \in 1..Len(s) /\ m \in 1..Len(s)
    BY <1>1, <1>2, <1>4
  <2> QED BY <1>1, <1>2, <2>1 DEF L!Increasing
<1> QED BY <1>3, <1>4

LEMMA BeforeMore ==
  ASSUME NEW s \in Seq(Int), NEW t \in Seq(Int), NEW n \in Int, NEW e \in Int, L!Before(t, s), Upto(t, n), e <= 0 \/ e > n
  PROVE  L!Before(t, Append(s, e))
<1>1. /\ Len(Append(s, e)) = Len(s) + 1 /\ Append(s, e)[Len(s) + 1] = e /\ Len(s) \in Nat
      /\ \A k \in 1..Len(s) : Append(s, e)[k] = s[k] /\ s[k] \in Int
  BY OneMore
<1>2. SUFFICES ASSUME NEW k \in 1..Len(t), NEW m \in 1..Len(s) + 1,
                      t[k] > 0, Append(s, e)[m] > 0
               PROVE  t[k] < Append(s, e)[m]
  BY <1>1 DEF L!Before
<1>3. t[k] \in Int /\ t[k] <= n
  BY DEF Upto
<1>4. CASE m = Len(s) + 1
  BY <1>1, <1>2, <1>3, <1>4
<1>5. CASE m # Len(s) + 1
  <2>1. m \in 1..Len(s)
    BY <1>1, <1>5
  <2> QED BY <1>1, <1>2, <2>1 DEF L!Before
<1> QED BY <1>4, <1>5

LEMMA UptoMore ==
  ASSUME NEW s \in Seq(Int), NEW n \in Nat, NEW e \in Int, Upto(s, n), NEW m \in Nat, n <= m, e <= m
  PROVE  Upto(Append(s, e), m) /\ Upto(s, m)
<1>1. /\ Len(Append(s, e)) = Len(s) + 1 /\ Append(s, e)[Len(s) + 1] = e /\ Len(s) \in Nat
      /\ \A k \in 1..Len(s) : Append(s, e)[k] = s[k] /\ s[k] \in Int
  BY OneMore
<1>2. Upto(s, m)
  BY <1>1 DEF Upto
<1>3. \A k \in 1..Len(s) + 1 : k \in 1..Len(s) \/ k = Len(s) + 1
  BY <1>1
<1> QED BY <1>1, <1>2, <1>3 DEF Upto

LEMMA FrontKept ==
  ASSUME NEW s \in Seq(Int), NEW t \in Seq(Int)
  PROVE  /\ L!Increasing(s \o t) => L!Increasing(s)
         /\ \A u, n : (L!Before(u, s \o t) => L!Before(u, s)) /\ (Upto(s \o t, n) => Upto(s, n))
         /\ Short(s \o t) => Short(s)
<1>1. /\ Len(s) \in Nat /\ Len(t) \in Nat /\ Len(s \o t) = Len(s) + Len(t)
      /\ \A k \in 1..Len(s) : (s \o t)[k] = s[k] /\ k \in 1..Len(s \o t)
  BY Joined
<1>2. L!Increasing(s \o t) => L!Increasing(s)
  BY <1>1 DEF L!Increasing
<1>3. ASSUME NEW u, NEW n
      PROVE  (L!Before(u, s \o t) => L!Before(u, s)) /\ (Upto(s \o t, n) => Upto(s, n))
  BY <1>1 DEF L!Before, Upto
<1>4. ASSUME Short(s \o t), NEW k \in 1..Len(s), NEW m \in 1..Len(s), \A h \in k..m : s[h] > 0
      PROVE  m - k < LOGLINES + 2
  <2>1. \A h \in k..m : h \in 1..Len(s)
    BY <1>1
  <2>2. \A h \in k..m : (s \o t)[h] > 0
    BY <1>1, <1>4, <2>1
  <2> QED BY <1>1, <1>4, <2>2 DEF Short
<1>5. Short(s \o t) => Short(s)
  BY <1>4 DEF Short
<1> QED BY <1>2, <1>3, <1>5

\* A run of lines ends at a line of the program's own, or is one longer.
LEMMA ShortMore ==
  ASSUME NEW s \in Seq(Int), NEW e \in Int, Short(s), NEW n \in Nat, Ends(s, n), LOGLINES \in Nat, n < LOGLINES + 2
  PROVE  Short(Append(s, e)) /\ Ends(Append(s, e), n + 1) /\ (e <= 0 => Ends(Append(s, e), 0))
<1> DEFINE a == Append(s, e)
           size == Len(s)
<1>1. /\ Len(a) = size + 1 /\ a[size + 1] = e /\ size \in Nat
      /\ \A k \in 1..size : a[k] = s[k] /\ s[k] \in Int
  BY OneMore
<1> HIDE DEF a
<1>2. ASSUME NEW k \in 1..size + 1, \A h \in k..size + 1 : a[h] > 0
      PROVE  size + 1 - k < n + 1 /\ ~(e <= 0)
  <2>1. e > 0
    BY <1>1, <1>2
  <2>2. CASE k = size + 1
    BY <1>1, <2>1, <2>2
  <2>3. CASE k # size + 1
    <3>1. k \in 1..size
      BY <1>1, <2>3
    <3>2. \A h \in k..size : s[h] > 0
      BY <1>1, <1>2, <3>1
    <3>3. size - k < n
      BY <3>1, <3>2 DEF Ends
    <3> QED BY <1>1, <2>1, <3>1, <3>3
  <2> QED BY <2>2, <2>3
<1>3. Ends(a, n + 1) /\ (e <= 0 => Ends(a, 0))
  BY <1>1, <1>2 DEF Ends
<1>4. ASSUME NEW k \in 1..size + 1, NEW m \in 1..size + 1, \A h \in k..m : a[h] > 0
      PROVE  m - k < LOGLINES + 2
  <2>1. CASE m = size + 1
    <3>1. size + 1 - k < n + 1
      BY <1>2, <1>4, <2>1
    <3> QED BY <1>1, <2>1, <3>1
  <2>2. CASE m # size + 1 /\ k <= m
    <3>1. m \in 1..size /\ k \in 1..size
      BY <1>1, <2>2
    <3>2. \A h \in k..m : h \in 1..size /\ s[h] > 0
      BY <1>1, <1>4, <3>1
    <3> QED BY <3>1, <3>2 DEF Short
  <2>3. CASE k > m
    BY <1>1, <2>3
  <2> QED BY <1>1, <2>1, <2>2, <2>3
<1>5. Short(a)
  BY <1>1, <1>4 DEF Short
<1> QED BY <1>3, <1>5 DEF a

\* A line of the program's own ends a run.
LEMMA ShortStop ==
  ASSUME NEW s \in Seq(Int), NEW e \in Int, Short(s), LOGLINES \in Nat, e <= 0
  PROVE  Short(Append(s, e)) /\ Ends(Append(s, e), 0)
<1> DEFINE a == Append(s, e)
           size == Len(s)
<1>1. /\ Len(a) = size + 1 /\ a[size + 1] = e /\ size \in Nat
      /\ \A k \in 1..size : a[k] = s[k] /\ s[k] \in Int
  BY OneMore
<1> HIDE DEF a
<1>2. Ends(a, 0)
  <2>1. ASSUME NEW k \in 1..size + 1, \A h \in k..size + 1 : a[h] > 0
        PROVE  FALSE
    <3>1. size + 1 \in k..size + 1
      BY <1>1
    <3> QED BY <1>1, <2>1, <3>1
  <2> QED BY <1>1, <2>1 DEF Ends
<1>3. ASSUME NEW k \in 1..size + 1, NEW m \in 1..size + 1, \A h \in k..m : a[h] > 0
      PROVE  m - k < LOGLINES + 2
  <2>1. CASE m = size + 1
    <3>1. m \in k..m
      BY <1>1, <2>1
    <3> QED BY <1>1, <1>3, <2>1, <3>1
  <2>2. CASE m # size + 1 /\ k <= m
    <3>1. m \in 1..size /\ k \in 1..size
      BY <1>1, <2>2
    <3>2. \A h \in k..m : h \in 1..size /\ s[h] > 0
      BY <1>1, <1>3, <3>1
    <3> QED BY <3>1, <3>2 DEF Short
  <2>3. CASE k > m
    BY <1>1, <2>3
  <2> QED BY <1>1, <2>1, <2>2, <2>3
<1>4. Short(a)
  BY <1>1, <1>3 DEF Short
<1> QED BY <1>2, <1>4 DEF a

LEMMA NothingRight ==
  /\ L!Increasing(<<>>) /\ (LOGLINES \in Nat => Short(<<>>))
  /\ \A n : Upto(<<>>, n) /\ Ends(<<>>, n)
  /\ \A t : L!Before(t, <<>>)
BY DEF L!Increasing, Short, Upto, Ends, L!Before

-----------------------------------------------------------------------------
(* The order and the number of lines, for what a step does to All.         *)

\* Nothing becomes of the lines.
LEMMA SameLines ==
  ASSUME Ordered, All' = All, old' = old, came' = came
  PROVE  Ordered'
BY DEF Ordered, L!InOrder, All, L!Own, Upto

LEMMA AllTyped ==
  ASSUME Types
  PROVE  All \in Seq(Int) /\ Len(All) \in Nat /\ current.lines \in Seq(Int) /\ buffer \in Seq(Int)
<1>1. current.lines \in Seq(Int) /\ buffer \in Seq(Int)
  BY DEF Types, File
<1> QED BY <1>1, Joined DEF All

LEMMA OldTyped ==
  ASSUME Types, NEW n \in DOMAIN old
  PROVE  old[n].lines \in Seq(Int) /\ old[n].mtime \in Int /\ old[n].own \in BOOLEAN /\ n \in Int
BY DEF Types, File

\* One line more.
LEMMA OneLine ==
  ASSUME L!LoglolBounds, Types, Ordered, NEW e \in Int, All' = Append(All, e), old' = old,
         \/ e <= 0 /\ came' = came
         \/ e = came + 1 /\ came' = came + 1
  PROVE  Ordered'
<1>1. All \in Seq(Int) /\ came \in Nat /\ came' \in Nat /\ came <= came' /\ e <= came' /\ (e <= 0 \/ e > came)
  BY AllTyped DEF L!LoglolBounds, Types
<1>2. L!Own' = L!Own
  BY DEF L!Own
<1>3. L!Increasing(Append(All, e))
  <2>1. L!Increasing(All) /\ Upto(All, came)
    BY DEF Ordered, L!InOrder, All
  <2> QED BY <1>1, <2>1, IncreasingMore DEF L!LoglolBounds
<1>4. Upto(Append(All, e), came')
  BY <1>1, UptoMore DEF Ordered
<1>5. ASSUME NEW n \in L!Own
      PROVE  /\ L!Increasing(old[n].lines) /\ L!Before(old[n].lines, Append(All, e))
             /\ Upto(old[n].lines, came')
  <2>1. old[n].lines \in Seq(Int)
    BY OldTyped DEF L!Own
  <2>2. L!Increasing(old[n].lines) /\ L!Before(old[n].lines, All) /\ Upto(old[n].lines, came)
    BY DEF Ordered, L!InOrder, All
  <2>3. L!Before(old[n].lines, Append(All, e))
    BY <1>1, <2>1, <2>2, BeforeMore
  <2>4. Upto(old[n].lines, came')
    BY <1>1, <2>1, <2>2, UptoMore
  <2> QED BY <2>2, <2>3, <2>4
<1>6. \A n, later \in L!Own : n < later => L!Before(old[n].lines, old[later].lines)
  BY DEF Ordered, L!InOrder
<1> QED BY <1>2, <1>3, <1>4, <1>5, <1>6 DEF Ordered, L!InOrder, All

\* Of what was held back the end is lost.
LEMMA LinesLost ==
  ASSUME Types, Ordered, current'.lines \in Seq(Int), NEW lost \in Seq(Int), All = current'.lines \o lost,
         buffer' = <<>>, old' = old, came' = came
  PROVE  Ordered'
<1>2. All' = current'.lines
  BY WholePart DEF All
<1>3. L!Own' = L!Own
  BY DEF L!Own
<1> DEFINE s == current'.lines
<1>4. /\ L!Increasing(s \o lost) /\ Upto(s \o lost, came)
      /\ \A n \in L!Own : L!Before(old[n].lines, s \o lost)
  BY DEF Ordered, L!InOrder, All
<1>5. s \in Seq(Int) OBVIOUS
<1> HIDE DEF s
<1>6. L!Increasing(s) /\ Upto(s, came) /\ \A n \in L!Own : L!Before(old[n].lines, s)
  BY <1>4, <1>5, FrontKept
<1>7. \A n \in L!Own : L!Increasing(old[n].lines) /\ Upto(old[n].lines, came)
  BY DEF Ordered, L!InOrder
<1>8. \A n, later \in L!Own : n < later => L!Before(old[n].lines, old[later].lines)
  BY DEF Ordered, L!InOrder
<1>9. All' = s BY <1>2 DEF s
<1> QED BY <1>3, <1>6, <1>7, <1>8, <1>9 DEF Ordered, L!InOrder, All

\* current gets a name that is greater than all others.
LEMMA OneFile ==
  ASSUME Types, Rotating, Ordered, lpc = "rename", old' = L!Add(oldfilename, current), current' = L!Absent,
         buffer' = buffer, came' = came
  PROVE  Ordered'
<1>1. current.lines \in Seq(Int) /\ buffer = <<>> /\ current.own /\ oldfilename \in Int
  BY AllTyped DEF Rotating
<1>2. All = current.lines /\ All' = <<>>
  BY <1>1, WholePart, EmptySeq DEF All, L!Absent
<1>3. oldfilename \notin DOMAIN old /\ \A n \in L!Own : n \in Int /\ n < oldfilename
  BY <1>1 DEF Rotating, L!Own, Types
<1>4. /\ DOMAIN old' = DOMAIN old \cup {oldfilename} /\ old'[oldfilename] = current
      /\ \A n \in DOMAIN old : old'[n] = old[n]
  BY <1>3 DEF L!Add
<1>5. L!Own' = L!Own \cup {oldfilename}
  BY <1>1, <1>3, <1>4 DEF L!Own
<1>6. \A n \in L!Own : old'[n] = old[n]
  BY <1>4 DEF L!Own
<1>7. \A n \in L!Own' : /\ L!Increasing(old'[n].lines) /\ L!Before(old'[n].lines, <<>>)
                        /\ Upto(old'[n].lines, came)
  BY <1>2, <1>4, <1>5, <1>6, NothingRight DEF Ordered, L!InOrder, All
<1>8. ASSUME NEW n \in L!Own', NEW later \in L!Own', n < later
      PROVE  L!Before(old'[n].lines, old'[later].lines)
  <2>1. n \in L!Own
    BY <1>1, <1>3, <1>5, <1>8
  <2>2. CASE later \in L!Own
    BY <1>6, <1>8, <2>1, <2>2 DEF Ordered, L!InOrder
  <2>3. CASE later = oldfilename
    BY <1>2, <1>4, <1>6, <2>1, <2>3 DEF Ordered, L!InOrder, All
  <2> QED BY <1>5, <2>2, <2>3
<1>9. L!Increasing(<<>>) /\ Upto(<<>>, came)
  BY NothingRight
<1> QED BY <1>2, <1>7, <1>8, <1>9 DEF Ordered, L!InOrder, All

LEMMA FileGone ==
  ASSUME Ordered, NEW file \in DOMAIN old, old' = L!Restrict(old, DOMAIN old \ {file}),
         UNCHANGED <<current, buffer, came>>
  PROVE  Ordered'
<1>1. DOMAIN old' = DOMAIN old \ {file} /\ \A n \in DOMAIN old' : old'[n] = old[n]
  BY DEF L!Restrict
<1>2. L!Own' \subseteq L!Own /\ \A n \in L!Own' : old'[n] = old[n]
  BY <1>1 DEF L!Own
<1>3. All' = All /\ came' = came
  BY DEF All
<1> QED BY <1>2, <1>3 DEF Ordered, L!InOrder, All, Upto

-----------------------------------------------------------------------------
(* Every step keeps the invariant.                                         *)

LEMMA StartKeeps ==
  ASSUME L!LoglolBounds, LogInv, L!Start
  PROVE  LogInv'
<1>1. /\ lpc = "down" /\ oldfilename' = lnow
      /\ lpc' = IF L!Stat(lnow) THEN "down" ELSE IF current = L!Absent THEN "open" ELSE "rename"
      /\ UNCHANGED <<lnow, current, old, buffer, lines, flush_time, alarm, came>>
  BY DEF L!Start
<1>2. Types'
  BY <1>1 DEF LogInv, Types
<1>3. Rotating'
  BY <1>1 DEF LogInv, Rotating, Types, L!Own, L!Stat, L!LoglolBounds
<1>4. Ordered'
  BY <1>1, SameLines DEF LogInv, All
<1>5. Counting'
  BY <1>1 DEF LogInv, Counting, All, Short
<1> QED BY <1>2, <1>3, <1>4, <1>5 DEF LogInv

LEMMA RotateKeeps ==
  ASSUME L!LoglolBounds, LogInv, L!Rotate
  PROVE  LogInv'
<1>1. /\ lpc = "full" /\ oldfilename' = lnow
      /\ UNCHANGED <<lnow, current, old, lines, flush_time, alarm, came>>
  BY DEF L!Rotate
<1>2. CASE L!Exists
  <2>1. buffer' = Append(buffer, L!TooFast) /\ lpc' = "clean"
    BY <1>2 DEF L!Rotate
  <2>2. L!TooFast \in Int /\ L!TooFast <= 0
    BY DEF L!TooFast
  <2>3. current.lines \in Seq(Int) /\ buffer \in Seq(Int) /\ All \in Seq(Int)
    BY AllTyped DEF LogInv
  <2>4. buffer' \in Seq(Int) /\ All' = Append(All, L!TooFast)
    BY <1>1, <2>1, <2>2, <2>3, OneMore, AppendJoined DEF All
  <2>5. Types'
    BY <1>1, <2>1, <2>4 DEF LogInv, Types
  <2>6. Rotating'
    BY <1>1, <2>1 DEF LogInv, Rotating, L!Own
  <2>7. Ordered'
    BY <1>1, <2>2, <2>4, OneLine DEF LogInv
  <2>8. Counting'
    <3>1. Short(All) /\ Ends(All, lines) /\ lines \in Nat
      BY <1>1 DEF LogInv, Counting, Types, L!LoglolBounds
    <3>2. Short(Append(All, L!TooFast)) /\ Ends(Append(All, L!TooFast), 0)
      BY <2>2, <2>3, <3>1, ShortStop DEF L!LoglolBounds
    <3> QED BY <1>1, <2>1, <2>4, <3>2 DEF LogInv, Counting, Short
  <2> QED BY <2>5, <2>6, <2>7, <2>8 DEF LogInv
<1>3. CASE ~L!Exists
  <2>1. buffer' = buffer /\ lpc' = "close"
    BY <1>3 DEF L!Rotate
  <2>2. Types'
    BY <1>1, <2>1 DEF LogInv, Types
  <2>3. Rotating'
    BY <1>1, <1>3, <2>1 DEF LogInv, Rotating, Types, L!Own, L!Exists, L!Stat, L!LoglolBounds
  <2>4. Ordered'
    BY <1>1, <2>1, SameLines DEF LogInv, All
  <2>5. Counting'
    BY <1>1, <2>1 DEF LogInv, Counting, All, Short, Ends
  <2> QED BY <2>2, <2>3, <2>4, <2>5 DEF LogInv
<1> QED BY <1>2, <1>3

LEMMA CloseKeeps ==
  ASSUME L!LoglolBounds, LogInv, L!CloseOld
  PROVE  LogInv' /\ All' = All /\ old' = old
<1>1. /\ lpc = "close" /\ lpc' = "rename"
      /\ current' = L!Flushed(current, Len(buffer)) /\ buffer' = <<>>
      /\ UNCHANGED <<lnow, old, oldfilename, lines, flush_time, alarm, came>>
  BY DEF L!CloseOld
<1>2. current.lines \in Seq(Int) /\ buffer \in Seq(Int) /\ All \in Seq(Int)
  BY AllTyped DEF LogInv
<1>3. current \in File /\ lnow \in Int /\ current.own
  BY <1>1 DEF LogInv, Types, Rotating, L!LoglolBounds
<1>4. current' \in File /\ current'.lines = All /\ current'.own = current.own
  <2>1. CASE Len(buffer) = 0
    <3>1. buffer = <<>>
      BY <1>2, <2>1
    <3>2. current' = current
      BY <1>1, <2>1 DEF L!Flushed
    <3> QED BY <1>2, <1>3, <3>1, <3>2, WholePart DEF All
  <2>2. CASE Len(buffer) # 0
    <3>1. current' = [current EXCEPT !.lines = @ \o SubSeq(buffer, 1, Len(buffer)), !.mtime = lnow]
      BY <1>1, <2>2 DEF L!Flushed
    <3>2. current' = [current EXCEPT !.lines = All, !.mtime = lnow]
      BY <1>2, <3>1, WholePart DEF All
    <3> QED BY <1>2, <1>3, <3>2 DEF File
  <2> QED BY <2>1, <2>2
<1>5. All' = All
  BY <1>1, <1>2, <1>4, WholePart DEF All
<1>6. Types'
  BY <1>1, <1>4 DEF LogInv, Types
<1>7. Rotating'
  BY <1>1, <1>3, <1>4 DEF LogInv, Rotating, L!Own
<1>8. Ordered'
  BY <1>1, <1>5, SameLines DEF LogInv
<1>9. Counting'
  BY <1>1, <1>5 DEF LogInv, Counting, Short
<1> QED BY <1>1, <1>5, <1>6, <1>7, <1>8, <1>9 DEF LogInv

LEMMA RenameKeeps ==
  ASSUME L!LoglolBounds, LogInv, L!Rename
  PROVE  LogInv'
<1>1. /\ lpc = "rename" /\ lpc' = "open"
      /\ old' = L!Add(oldfilename, current) /\ current' = L!Absent
      /\ UNCHANGED <<lnow, oldfilename, buffer, lines, flush_time, alarm, came>>
  BY DEF L!Rename
<1>2. L!Absent \in File /\ L!Absent.lines = <<>> /\ ~L!Absent.own
  BY DEF L!Absent, File
<1>3. oldfilename \in Int /\ oldfilename <= lnow /\ buffer = <<>> /\ current \in File
  BY <1>1 DEF LogInv, Rotating, Types
<1>4. /\ DOMAIN old' = DOMAIN old \cup {oldfilename}
      /\ old' \in [DOMAIN old' -> File]
      /\ \A n \in DOMAIN old' : old'[n] = current \/ (n \in DOMAIN old /\ old'[n] = old[n])
  BY <1>1, <1>3 DEF L!Add, LogInv, Types
<1>5. Types'
  BY <1>1, <1>2, <1>3, <1>4 DEF LogInv, Types
<1>6. Rotating'
  <2>1. \A n \in L!Own' : n = oldfilename \/ n \in L!Own
    BY <1>1, <1>4 DEF L!Own, L!Add
  <2> QED BY <1>1, <1>2, <1>3, <2>1 DEF LogInv, Rotating
<1>7. Ordered'
  BY <1>1, OneFile DEF LogInv
<1>8. Counting'
  <2>1. current.lines \in Seq(Int)
    BY AllTyped DEF LogInv
  <2>2. All = current.lines /\ All' = <<>>
    BY <1>1, <1>2, <1>3, <2>1, WholePart, EmptySeq DEF All
  <2>3. \A n \in DOMAIN old' : Short(old'[n].lines)
    BY <1>4, <2>2 DEF LogInv, Counting
  <2> QED BY <1>1, <2>2, <2>3, NothingRight DEF Counting, L!LoglolBounds, Short
<1> QED BY <1>5, <1>6, <1>7, <1>8 DEF LogInv

LEMMA OpenKeeps ==
  ASSUME L!LoglolBounds, LogInv, L!Open
  PROVE  LogInv' /\ All' = All /\ old' = old
<1>1. /\ lpc = "open" /\ lpc' = "clean"
      /\ current' = [lines |-> <<>>, mtime |-> lnow, own |-> TRUE]
      /\ UNCHANGED <<lnow, old, oldfilename, buffer, lines, flush_time, alarm, came>>
  BY DEF L!Open
<1>2. current = L!Absent /\ buffer = <<>>
  BY <1>1 DEF LogInv, Rotating
<1>3. All' = <<>> /\ All = <<>>
  BY <1>1, <1>2, WholePart, EmptySeq DEF All, L!Absent
<1>4. Types'
  BY <1>1 DEF LogInv, Types, File, L!LoglolBounds
<1>5. Rotating'
  BY <1>1 DEF LogInv, Rotating, L!Own
<1>6. Ordered'
  BY <1>1, <1>3, SameLines DEF LogInv
<1>7. Counting'
  BY <1>1, <1>3, NothingRight DEF LogInv, Counting, Short
<1> QED BY <1>1, <1>3, <1>4, <1>5, <1>6, <1>7 DEF LogInv

LEMMA UnlinkKeeps ==
  ASSUME L!LoglolBounds, LogInv, L!Unlink
  PROVE  LogInv'
<1>1. PICK file \in DOMAIN old : L!Dies(file) /\ old' = L!Restrict(old, DOMAIN old \ {file})
  BY DEF L!Unlink
<1>2. lpc = "clean" /\ UNCHANGED <<lnow, current, lpc, oldfilename, buffer, lines, flush_time, alarm, came>>
  BY DEF L!Unlink, L!process
<1>3. DOMAIN old' = DOMAIN old \ {file} /\ \A n \in DOMAIN old' : old'[n] = old[n]
  BY <1>1 DEF L!Restrict
<1>4. Types'
  <2>1. old' \in [DOMAIN old' -> File]
    BY <1>1, <1>3 DEF LogInv, Types, L!Restrict
  <2> QED BY <1>2, <1>3, <2>1 DEF LogInv, Types
<1>5. Rotating'
  BY <1>2, <1>3 DEF LogInv, Rotating, L!Own
<1>6. Ordered'
  BY <1>1, <1>2, FileGone DEF LogInv
<1>7. Counting'
  BY <1>2, <1>3 DEF LogInv, Counting, All, Short, Ends
<1> QED BY <1>4, <1>5, <1>6, <1>7 DEF LogInv

LEMMA CleanedKeeps ==
  ASSUME L!LoglolBounds, LogInv, L!Cleaned
  PROVE  LogInv'
<1>1. /\ lpc = "clean" /\ lpc' = "run" /\ lines' = 0
      /\ alarm' = IF lines = 0 THEN 1 ELSE alarm
      /\ UNCHANGED <<lnow, current, old, oldfilename, buffer, flush_time, came>>
  BY DEF L!Cleaned
<1>2. Types'
  BY <1>1 DEF LogInv, Types, L!LoglolBounds
<1>3. Rotating'
  BY <1>1 DEF LogInv, Rotating, L!Own
<1>4. Ordered'
  BY <1>1, SameLines DEF LogInv, All
<1>5. Counting'
  BY <1>1 DEF LogInv, Counting, All, Short, Ends
<1> QED BY <1>2, <1>3, <1>4, <1>5 DEF LogInv

\* A line that comes is the last of all, whatever stdio passes on.
LEMMA ThreeParts == \A s, t, u \in Seq(Int) : (s \o t) \o u = s \o (t \o u)
<1> SUFFICES ASSUME NEW s \in Seq(Int), NEW t \in Seq(Int), NEW u \in Seq(Int)
             PROVE  (s \o t) \o u = s \o (t \o u)
  BY Zenon
<1> QED BY ConcatAssociative

LEMMA ReadLineAppends ==
  ASSUME L!LoglolBounds, LogInv, L!ReadLine
  PROVE  /\ All' = Append(All, came + 1) /\ current' \in File /\ buffer' \in Seq(Int)
         /\ current'.own = current.own
<1> DEFINE flushed == IF flush_time = 1 THEN Len(buffer) ELSE 0
           rest == Append(SubSeq(buffer, flushed + 1, Len(buffer)), came + 1)
           c == came + 1
<1>1. PICK spilt \in 0..Len(rest) :
        /\ current' = [current EXCEPT
             !.lines = @ \o SubSeq(buffer, 1, flushed) \o SubSeq(rest, 1, spilt),
             !.mtime = IF flushed + spilt > 0 THEN lnow ELSE @]
        /\ buffer' = SubSeq(rest, spilt + 1, Len(rest))
  BY DEF L!ReadLine
<1>2. /\ current.lines \in Seq(Int) /\ buffer \in Seq(Int) /\ All \in Seq(Int) /\ c \in Int
      /\ current \in File /\ lnow \in Int
  BY AllTyped DEF LogInv, Types, L!LoglolBounds
<1> DEFINE front == SubSeq(buffer, 1, flushed)
           back == SubSeq(buffer, flushed + 1, Len(buffer))
<1>3. front \in Seq(Int) /\ back \in Seq(Int) /\ front \o back = buffer
  <2>1. CASE flush_time = 1
    BY <1>2, <2>1, WholePart
  <2>2. CASE flush_time # 1
    BY <1>2, <2>2, WholePart
  <2> HIDE DEF front, back
  <2> QED BY <2>1, <2>2, Zenon
<1>4. rest = Append(back, c)
  OBVIOUS
<1> HIDE DEF front, back, c
<1> HIDE DEF rest
<1>5. rest \in Seq(Int)
  BY <1>2, <1>3, <1>4, OneMore
<1> USE DEF rest
<1> DEFINE told == SubSeq(rest, 1, spilt)
<1>6. told \in Seq(Int) /\ buffer' \in Seq(Int) /\ told \o buffer' = rest
  <2> HIDE DEF rest
  <2> QED BY <1>1, <1>5, Parted
<1>7. /\ current'.lines = (current.lines \o front) \o told
      /\ current'.own = current.own
      /\ current' \in File
  <2> HIDE DEF rest, told, flushed
  <2>1. (current.lines \o front) \o told \in Seq(Int)
    BY <1>2, <1>3, <1>6
  <2>2. PICK time \in Int : current' = [current EXCEPT !.lines = (current.lines \o front) \o told, !.mtime = time]
    <3>1. current.mtime \in Int
      BY <1>2 DEF File
    <3> QED BY <1>1, <1>2, <3>1 DEF front, told
  <2> QED BY <1>2, <2>1, <2>2 DEF File
<1>8. ((current.lines \o front) \o told) \o buffer' = Append(current.lines \o buffer, c)
  <2> HIDE DEF rest, told, flushed
  <2>1. ((current.lines \o front) \o told) \o buffer' = current.lines \o (front \o (told \o buffer'))
    <3>1. current.lines \in Seq(Int) /\ front \in Seq(Int) /\ told \in Seq(Int) /\ buffer' \in Seq(Int)
      BY <1>2, <1>3, <1>6
    <3> DEFINE begun == current.lines \o front
               end == told \o buffer'
    <3>2. begun \in Seq(Int) /\ end \in Seq(Int)
      BY <3>1
    <3>3. begun \o end = current.lines \o (front \o end)
      <4> HIDE DEF end
      <4>1. \A s, t \in Seq(Int) : (s \o t) \o end = s \o (t \o end)
        BY <3>2, ThreeParts, Zenon
      <4> QED BY <3>1, <4>1, Zenon
    <3>4. (begun \o told) \o buffer' = begun \o end
      <4> HIDE DEF begun
      <4>1. \A s \in Seq(Int) : (s \o told) \o buffer' = s \o (told \o buffer')
        <5> SUFFICES ASSUME NEW s \in Seq(Int)
                     PROVE  (s \o told) \o buffer' = s \o (told \o buffer')
          OBVIOUS
        <5>1. told \in Seq(Int) /\ buffer' \in Seq(Int) BY <3>1
        <5> QED BY <5>1, ThreeParts
      <4> QED BY <3>2, <4>1, Zenon
    <3> QED BY <3>3, <3>4
  <2>3. front \o rest = Append(buffer, c)
    BY <1>2, <1>3, <1>4, AppendJoined
  <2>4. current.lines \o Append(buffer, c) = Append(current.lines \o buffer, c)
    BY <1>2, AppendJoined
  <2> QED BY <1>6, <2>1, <2>3, <2>4
<1> QED BY <1>6, <1>7, <1>8 DEF All, c

LEMMA ReadLineKeeps ==
  ASSUME L!LoglolBounds, LogInv, L!ReadLine
  PROVE  LogInv'
<1>1. /\ lpc = "run" /\ came < MaxLines /\ came' = came + 1
      /\ alarm' = IF flush_time = 1 THEN 1 ELSE alarm
      /\ lines' = lines + 1 /\ lpc' = IF L!Full THEN "full" ELSE "run"
      /\ UNCHANGED <<lnow, old, oldfilename, flush_time>>
  BY DEF L!ReadLine
<1>2. /\ All' = Append(All, came + 1) /\ current' \in File /\ buffer' \in Seq(Int)
      /\ current'.own = current.own
  BY ReadLineAppends
<1>3. came \in Nat /\ lines \in Nat /\ LOGLINES \in Nat /\ MaxLines \in Nat /\ All \in Seq(Int) /\ lines < LOGLINES + 2
  BY <1>1, AllTyped DEF LogInv, Types, L!LoglolBounds
<1>4. Types'
  <2>1. lines' \in 0..LOGLINES + 2 /\ (lpc' = "run" => lines' <= LOGLINES + 1)
    BY <1>1, <1>3 DEF L!Full
  <2>2. came' \in 0..MaxLines
    BY <1>1, <1>3
  <2> QED BY <1>1, <1>2, <2>1, <2>2 DEF LogInv, Types
<1>5. Rotating'
  BY <1>1, <1>2 DEF LogInv, Rotating, L!Own
<1>6. Ordered'
  BY <1>1, <1>2, <1>3, OneLine DEF LogInv
<1>7. Counting'
  <2>1. Short(All) /\ Ends(All, lines)
    BY <1>1 DEF LogInv, Counting
  <2>2. Short(Append(All, came + 1)) /\ Ends(Append(All, came + 1), lines + 1)
    BY <1>3, <2>1, ShortMore
  <2> QED BY <1>1, <1>2, <2>2 DEF LogInv, Counting, Short
<1> QED BY <1>4, <1>5, <1>6, <1>7 DEF LogInv

LEMMA EndKeeps ==
  ASSUME L!LoglolBounds, LogInv, L!EndOfInput
  PROVE  LogInv' /\ All' = Append(All, L!Shutdown) /\ old' = old
<1>1. /\ lpc = "run" /\ lpc' = "down"
      /\ current' = [current EXCEPT !.lines = @ \o buffer \o <<L!Shutdown>>, !.mtime = lnow]
      /\ buffer' = <<>> /\ lines' = 0 /\ flush_time' = 0 /\ alarm' = 0 /\ oldfilename' = 0
      /\ UNCHANGED <<lnow, old, came>>
  BY DEF L!EndOfInput
<1>2. /\ current.lines \in Seq(Int) /\ buffer \in Seq(Int) /\ All \in Seq(Int)
      /\ current \in File /\ lnow \in Int /\ current.own /\ L!Shutdown \in Int /\ L!Shutdown <= 0
  BY <1>1, AllTyped DEF LogInv, Types, Rotating, L!LoglolBounds, L!Shutdown
<1>3. (current.lines \o buffer) \o <<L!Shutdown>> = Append(All, L!Shutdown) /\ Append(All, L!Shutdown) \in Seq(Int)
  BY <1>2, AppendJoined, OneMore DEF All
<1>4. current'.lines = Append(All, L!Shutdown) /\ current' \in File /\ current'.own
  <2>1. current' = [current EXCEPT !.lines = Append(All, L!Shutdown), !.mtime = lnow]
    BY <1>1, <1>3
  <2> QED BY <1>2, <1>3, <2>1 DEF File
<1>5. All' = Append(All, L!Shutdown)
  BY <1>1, <1>3, <1>4, WholePart DEF All
<1>6. Types'
  BY <1>1, <1>4, WholePart DEF LogInv, Types, L!LoglolBounds
<1>7. Rotating'
  BY <1>1, <1>4 DEF LogInv, Rotating, L!Own
<1>8. Ordered'
  BY <1>1, <1>2, <1>5, OneLine DEF LogInv
<1>9. Counting'
  <2>1. Short(Append(All, L!Shutdown))
    <3>1. Short(All) /\ Ends(All, lines) /\ lines \in Nat
      BY <1>1 DEF LogInv, Counting, Types, L!LoglolBounds
    <3> QED BY <1>2, <3>1, ShortStop DEF L!LoglolBounds
  <2> QED BY <1>1, <1>5, <2>1 DEF LogInv, Counting, Short
<1> QED BY <1>1, <1>5, <1>6, <1>7, <1>8, <1>9 DEF LogInv

LEMMA DieWrites ==
  ASSUME L!LoglolBounds, LogInv, L!Die
  PROVE  /\ current' \in File /\ current'.own = current.own /\ (current = L!Absent /\ buffer = <<>> => current' = current)
         /\ \E told, lost \in Seq(Int) :
              /\ current'.lines = current.lines \o told /\ buffer = told \o lost
              /\ All = current'.lines \o lost
<1>1. PICK n \in 0..Len(buffer) : current' = L!Flushed(current, n)
  BY DEF L!Die
<1>2. /\ current.lines \in Seq(Int) /\ buffer \in Seq(Int) /\ current \in File /\ lnow \in Int
  BY AllTyped DEF LogInv, Types, L!LoglolBounds
<1> DEFINE told == SubSeq(buffer, 1, n)
           lost == SubSeq(buffer, n + 1, Len(buffer))
<1>3. told \in Seq(Int) /\ lost \in Seq(Int) /\ told \o lost = buffer
  BY <1>2, Parted
<1>4. current' \in File /\ current'.own = current.own /\ current'.lines = current.lines \o told
  <2>1. CASE n = 0
    <3>1. told = <<>>
      BY <1>2, <2>1, WholePart
    <3>2. current' = current
      BY <1>1, <2>1 DEF L!Flushed
    <3> QED BY <1>2, <3>1, <3>2, WholePart
  <2>2. CASE n # 0
    <3>1. current' = [current EXCEPT !.lines = current.lines \o told, !.mtime = lnow]
      BY <1>1, <2>2 DEF L!Flushed
    <3> HIDE DEF told
    <3>2. current.lines \o told \in Seq(Int)
      BY <1>2, <1>3
    <3> QED BY <1>2, <3>1, <3>2 DEF File
  <2> QED BY <2>1, <2>2
<1>5. buffer = <<>> => n = 0
  BY <1>2
<1>6. buffer = <<>> => current' = current
  BY <1>1, <1>5 DEF L!Flushed
<1> HIDE DEF told, lost
<1>7. All = current'.lines \o lost
  <2>1. (current.lines \o told) \o lost = current.lines \o (told \o lost)
    BY <1>2, <1>3, ThreeParts
  <2> QED BY <1>3, <1>4, <2>1 DEF All
<1> QED BY <1>3, <1>4, <1>6, <1>7

LEMMA DieKeeps ==
  ASSUME L!LoglolBounds, LogInv, L!Die
  PROVE  LogInv'
<1>1. /\ lpc # "down" /\ lpc' = "down" /\ buffer' = <<>>
      /\ lines' = 0 /\ flush_time' = 0 /\ alarm' = 0 /\ oldfilename' = 0
      /\ UNCHANGED <<lnow, old, came>>
  BY DEF L!Die
<1>2. PICK told \in Seq(Int), lost \in Seq(Int) :
        /\ current'.lines = current.lines \o told /\ All = current'.lines \o lost
  BY DieWrites
<1>3. /\ current' \in File /\ current'.own = current.own
      /\ (current = L!Absent /\ buffer = <<>> => current' = current)
  BY DieWrites
<1>4. current'.lines \in Seq(Int)
  <2>1. current.lines \in Seq(Int)
    BY AllTyped DEF LogInv
  <2> QED BY <1>2, <2>1
<1>5. Types'
  BY <1>1, <1>3, WholePart DEF LogInv, Types, L!LoglolBounds
<1>6. Rotating'
  <2>1. ~current.own => current = L!Absent /\ buffer = <<>>
    BY <1>1 DEF LogInv, Rotating, Types
  <2> QED BY <1>1, <1>3, <2>1 DEF LogInv, Rotating, L!Own
<1>7. Ordered'
  BY <1>1, <1>2, <1>4, LinesLost DEF LogInv
<1>8. Counting'
  <2>1. All' = current'.lines
    BY <1>1, <1>4, WholePart DEF All
  <2>2. Short(current'.lines)
    <3> DEFINE s == current'.lines
    <3>1. s \in Seq(Int) /\ Short(s \o lost)
      BY <1>2, <1>4 DEF LogInv, Counting
    <3> HIDE DEF s
    <3>2. Short(s)
      BY <3>1, FrontKept
    <3> QED BY <3>2 DEF s
  <2> QED BY <1>1, <2>1, <2>2 DEF LogInv, Counting, Short
<1> QED BY <1>5, <1>6, <1>7, <1>8 DEF LogInv

LEMMA TimeKeeps ==
  ASSUME L!LoglolBounds, LogInv, L!CatchAlarm \/ L!Tick \/ UNCHANGED L!vars
  PROVE  LogInv' /\ All' = All /\ old' = old
<1>1. UNCHANGED <<current, old, lpc, oldfilename, buffer, lines, came>>
  BY DEF L!CatchAlarm, L!Tick, L!vars, L!process
<1>2. lnow' \in Begin..MaxLog /\ lnow <= lnow'
  BY DEF L!CatchAlarm, L!Tick, L!vars, LogInv, Types, L!LoglolBounds
<1>3. flush_time' \in {0, 1} /\ alarm' \in {0, 1}
  BY DEF L!CatchAlarm, L!Tick, L!vars, L!process, LogInv, Types
<1>4. Types'
  BY <1>1, <1>2, <1>3 DEF LogInv, Types
<1>5. Rotating'
  <2>1. lnow \in Int /\ lnow' \in Int /\ DOMAIN old \subseteq Int
    BY <1>2 DEF LogInv, Types, L!LoglolBounds
  <2>2. L!Own \subseteq Int /\ L!Own' = L!Own
    BY <1>1, <2>1 DEF L!Own
  <2> QED BY <1>1, <1>2, <2>1, <2>2 DEF LogInv, Rotating
<1>6. All' = All
  BY <1>1 DEF All
<1>7. Ordered'
  BY <1>1, <1>6, SameLines DEF LogInv
<1>8. Counting'
  BY <1>1, <1>6 DEF LogInv, Counting, Short, Ends
<1> QED BY <1>1, <1>4, <1>5, <1>6, <1>7, <1>8 DEF LogInv

LEMMA InitLog ==
  ASSUME L!LoglolBounds, L!Init
  PROVE  LogInv
<1>1. /\ old \in [DOMAIN old -> [lines : Seq(Int), mtime : Int, own : BOOLEAN]]
      /\ DOMAIN old \subseteq Int
      /\ \A n \in DOMAIN old : /\ old[n].own => n <= Begin
                               /\ \A k \in 1..Len(old[n].lines) : old[n].lines[k] <= 0
  BY DEF L!LoglolBounds, L!Init
<1>2. /\ lnow = Begin /\ current = L!Absent /\ lpc = "down" /\ oldfilename = 0 /\ buffer = <<>> /\ lines = 0
      /\ flush_time = 0 /\ alarm = 0 /\ came = 0
  BY DEF L!Init
<1>3. L!Absent \in File /\ L!Absent.lines = <<>> /\ ~L!Absent.own
  BY DEF L!Absent, File
<1>4. Types
  BY <1>1, <1>2, <1>3, EmptySeq DEF Types, L!LoglolBounds, File
<1>5. Rotating
  BY <1>1, <1>2, <1>3 DEF Rotating, L!Own
<1>6. All = <<>>
  BY <1>2, <1>3, WholePart, EmptySeq DEF All
<1>7. ASSUME NEW n \in DOMAIN old
      PROVE  /\ L!Increasing(old[n].lines) /\ Upto(old[n].lines, 0) /\ Short(old[n].lines)
             /\ \A s : L!Before(old[n].lines, s)
  <2>1. old[n].lines \in Seq(Int) /\ Len(old[n].lines) \in Nat
    BY <1>1
  <2>2. \A k \in 1..Len(old[n].lines) : old[n].lines[k] \in Int /\ old[n].lines[k] <= 0 /\ ~(old[n].lines[k] > 0)
    <3> TAKE k \in 1..Len(old[n].lines)
    <3>1. old[n].lines[k] \in Int
      BY <2>1
    <3>2. old[n].lines[k] <= 0
      BY <1>1
    <3> QED BY <3>1, <3>2
  <2>3. ASSUME NEW k \in 1..Len(old[n].lines), NEW m \in 1..Len(old[n].lines),
               \A h \in k..m : old[n].lines[h] > 0
        PROVE  m - k < LOGLINES + 2
    <3>1. ~(k \in k..m)
      BY <2>2, <2>3
    <3> QED BY <2>1, <3>1 DEF L!LoglolBounds
  <2> QED BY <2>2, <2>3 DEF L!Increasing, Upto, Short, L!Before
<1>8. Ordered
  BY <1>2, <1>6, <1>7, NothingRight DEF Ordered, L!InOrder, All, L!Own
<1>9. Counting
  BY <1>2, <1>6, <1>7, NothingRight DEF Counting, L!LoglolBounds
<1> QED BY <1>4, <1>5, <1>8, <1>9 DEF LogInv

LEMMA LogStep ==
  ASSUME L!LoglolBounds
  PROVE  LogInv /\ [L!Next]_L!vars => LogInv'
<1> SUFFICES ASSUME LogInv, [L!Next]_L!vars PROVE LogInv' OBVIOUS
<1> QED BY StartKeeps, RotateKeeps, CloseKeeps, RenameKeeps, OpenKeeps, UnlinkKeeps, CleanedKeeps,
           ReadLineKeeps, EndKeeps, DieKeeps, TimeKeeps DEF L!Next

LEMMA LogAlways == ASSUME L!LoglolBounds PROVE L!Spec => []LogInv
<1>1. L!Init => LogInv
  BY InitLog
<1>2. LogInv /\ [L!Next]_L!vars => LogInv'
  BY LogStep
<1> QED BY <1>1, <1>2, PTL DEF L!Spec

(* loglol.c:66, :139-159: for files of any length, any clock and any death, *)
(* lines stand in the order they came in, within each of our files and from *)
(* one to the next, and no file has more than two over LOGLINES in a row.  *)
THEOREM OrderKeptAlways == ASSUME L!LoglolBounds PROVE L!Spec => []L!OrderKept
<1>1. LogInv => L!OrderKept
  <2> SUFFICES ASSUME LogInv PROVE L!OrderKept OBVIOUS
  <2>1. L!TypeOK
    BY DEF LogInv, Types, Rotating, L!TypeOK, L!Absent
  <2>2. L!InOrder
    BY DEF LogInv, Ordered
  <2>3. L!Sized
    <3>1. current.lines \in Seq(Int) /\ buffer \in Seq(Int)
      BY AllTyped DEF LogInv
    <3>2. Short(current.lines)
      BY <3>1, FrontKept DEF LogInv, Counting, All
    <3> QED BY <3>2 DEF LogInv, Counting, Short, L!Sized
  <2> QED BY <2>1, <2>2, <2>3 DEF L!OrderKept
<1> QED BY <1>1, LogAlways, PTL

-----------------------------------------------------------------------------
(* No line is lost.                                                        *)

Held == L!OnDisk \cup L!Range(buffer)

\* What is in two sequences is in both together.
LEMMA InEither ==
  \A n : \A s, t \in Seq(Int) : n \in L!Range(s) \/ n \in L!Range(t) <=> \E k \in 1..Len(s \o t) : (s \o t)[k] = n
<1> SUFFICES ASSUME NEW n, NEW s \in Seq(Int), NEW t \in Seq(Int)
             PROVE  n \in L!Range(s) \/ n \in L!Range(t) <=> \E k \in 1..Len(s \o t) : (s \o t)[k] = n
  OBVIOUS
<1>1. L!Range(s) = {s[k] : k \in 1..Len(s)} /\ L!Range(t) = {t[k] : k \in 1..Len(t)}
  BY DEF L!Range
<1>2. ASSUME NEW k \in 1..Len(s \o t), (s \o t)[k] = n
      PROVE  n \in L!Range(s) \/ n \in L!Range(t)
  <2>1. CASE k <= Len(s)
    BY <1>1, <1>2, <2>1, Joined
  <2>2. CASE ~(k <= Len(s))
    <3>1. k - Len(s) \in 1..Len(t) /\ (s \o t)[k] = t[k - Len(s)]
      BY <2>2, Joined
    <3> QED BY <1>1, <1>2, <3>1
  <2> QED BY <2>1, <2>2
<1>3. ASSUME n \in L!Range(s)
      PROVE  \E k \in 1..Len(s \o t) : (s \o t)[k] = n
  <2>1. PICK k \in 1..Len(s) : s[k] = n
    BY <1>1, <1>3
  <2>2. k \in 1..Len(s \o t) /\ (s \o t)[k] = n
    BY <2>1, Joined
  <2> QED BY <2>2
<1>4. ASSUME n \in L!Range(t)
      PROVE  \E k \in 1..Len(s \o t) : (s \o t)[k] = n
  <2>1. PICK k \in 1..Len(t) : t[k] = n
    BY <1>1, <1>4
  <2>2. Len(s) + k \in 1..Len(s \o t) /\ (s \o t)[Len(s) + k] = n
    BY <2>1, Joined
  <2> QED BY <2>2
<1> QED BY <1>2, <1>3, <1>4

LEMMA HeldIs ==
  ASSUME Types, NEW n
  PROVE  n \in Held <=> \/ \E k \in 1..Len(All) : All[k] = n
                        \/ \E file \in DOMAIN old : n \in L!Range(old[file].lines)
<1>1. current.lines \in Seq(Int) /\ buffer \in Seq(Int)
  BY AllTyped
<1>2. n \in L!OnDisk <=> n \in L!Range(current.lines) \/ \E file \in DOMAIN old : n \in L!Range(old[file].lines)
  BY DEF L!OnDisk
<1>3. n \in L!Range(current.lines) \/ n \in L!Range(buffer) <=> \E k \in 1..Len(All) : All[k] = n
  <2>1. All = current.lines \o buffer
    BY DEF All
  <2> QED BY <1>1, <2>1, InEither, Zenon
<1>4. n \in Held <=> n \in L!OnDisk \/ n \in L!Range(buffer)
  BY DEF Held
<1> QED BY <1>2, <1>3, <1>4

LEMMA HeldThen ==
  ASSUME Types', NEW n
  PROVE  n \in Held' <=> \/ \E k \in 1..Len(All') : All'[k] = n
                         \/ \E file \in DOMAIN old' : n \in L!Range(old'[file].lines)
<1>1. current'.lines \in Seq(Int) /\ buffer' \in Seq(Int)
  BY DEF Types, File
<1>2. n \in L!OnDisk' <=> n \in L!Range(current'.lines) \/ \E file \in DOMAIN old' : n \in L!Range(old'[file].lines)
  BY DEF L!OnDisk
<1>3. n \in L!Range(current'.lines) \/ n \in L!Range(buffer') <=> \E k \in 1..Len(All') : All'[k] = n
  <2>1. All' = current'.lines \o buffer'
    BY DEF All
  <2> QED BY <1>1, <2>1, InEither, Zenon
<1>4. n \in Held' <=> n \in L!OnDisk' \/ n \in L!Range(buffer')
  BY DEF Held
<1> QED BY <1>2, <1>3, <1>4

\* A step that leaves All, or a longer one, and the other files.
LEMMA NoneLost ==
  ASSUME Types, Types', Len(All) <= Len(All'), \A k \in 1..Len(All) : All'[k] = All[k],
         \A file \in DOMAIN old : file \in DOMAIN old' /\ old'[file] = old[file]
  PROVE  Held \subseteq Held'
<1>1. Len(All) \in Nat /\ Len(All)' \in Nat
  <2>1. Len(All) \in Nat
    BY AllTyped
  <2>2. Len(All)' \in Nat
    BY AllTyped
  <2> QED BY <2>1, <2>2
<1>2. ASSUME NEW n \in Held
      PROVE  n \in Held'
  <2>1. \/ \E k \in 1..Len(All) : All[k] = n
        \/ \E file \in DOMAIN old : n \in L!Range(old[file].lines)
    BY HeldIs
  <2>2. n \in Held' <=> \/ \E k \in 1..Len(All') : All'[k] = n
                        \/ \E file \in DOMAIN old' : n \in L!Range(old'[file].lines)
    BY HeldThen
  <2>3. CASE \E k \in 1..Len(All) : All[k] = n
    BY <1>1, <2>2, <2>3
  <2>4. CASE \E file \in DOMAIN old : n \in L!Range(old[file].lines)
    BY <2>2, <2>4
  <2> QED BY <2>1, <2>3, <2>4
<1> QED BY <1>2

(* loglol.c:161-176, :186-250: no step loses a line that came, but a file of *)
(* ours that was last written to KEEPTIME ago, or a death of the program   *)
(* before stdio passed the line on.                                        *)
THEOREM LastingAlways == ASSUME L!LoglolBounds PROVE L!Spec => L!Lasting
<1>1. LogInv /\ [L!Next]_L!vars => [L!Lasts]_L!vars
  <2> SUFFICES ASSUME LogInv, L!Next PROVE L!Lasts
    OBVIOUS
  <2>1. LogInv' /\ Types /\ Types'
    <3>1. LogInv'
      BY LogStep
    <3> QED BY <3>1 DEF LogInv
  <2>2. All \in Seq(Int) /\ Len(All) \in Nat /\ came \in Int
    BY <2>1, AllTyped DEF Types, L!LoglolBounds
  <2>3. ASSUME Held \subseteq Held'
        PROVE  L!Lasts
    BY <2>3 DEF Held, L!Lasts
  <2>4. CASE L!CloseOld \/ L!Open \/ L!CatchAlarm \/ L!Tick
    <3>1. All' = All /\ old' = old
      BY <2>4, CloseKeeps, OpenKeeps, TimeKeeps
    <3> QED BY <2>1, <2>2, <2>3, <3>1, NoneLost
  <2>5. CASE L!ReadLine \/ L!EndOfInput
    <3>1. \E e \in Int : All' = Append(All, e)
      BY <2>2, <2>5, ReadLineAppends, EndKeeps DEF L!Shutdown
    <3>2. old' = old
      BY <2>5, EndKeeps DEF L!ReadLine
    <3> QED BY <2>1, <2>2, <2>3, <3>1, <3>2, NoneLost, OneMore
  <2>6. CASE L!Start \/ L!Cleaned
    <3>1. All' = All /\ old' = old
      BY <2>6 DEF L!Start, L!Cleaned, All
    <3> QED BY <2>1, <2>2, <2>3, <3>1, NoneLost
  <2>7. CASE L!Rotate
    <3>1. old' = old /\ current' = current
      BY <2>7 DEF L!Rotate
    <3>2. All' = All \/ All' = Append(All, L!TooFast)
      <4>1. buffer' = buffer \/ buffer' = Append(buffer, L!TooFast)
        BY <2>7 DEF L!Rotate
      <4>2. current.lines \in Seq(Int) /\ buffer \in Seq(Int) /\ L!TooFast \in Int
        BY <2>1, AllTyped DEF L!TooFast
      <4> QED BY <3>1, <4>1, <4>2, AppendJoined DEF All
    <3>3. L!TooFast \in Int
      BY DEF L!TooFast
    <3> QED BY <2>1, <2>2, <2>3, <3>1, <3>2, <3>3, NoneLost, OneMore
  <2>8. CASE L!Rename
    <3>1. /\ lpc = "rename" /\ old' = L!Add(oldfilename, current) /\ buffer = <<>>
          /\ oldfilename \notin DOMAIN old
      BY <2>8 DEF L!Rename, LogInv, Rotating
    <3>2. /\ DOMAIN old' = DOMAIN old \cup {oldfilename} /\ old'[oldfilename] = current
          /\ \A file \in DOMAIN old : old'[file] = old[file]
      BY <3>1 DEF L!Add
    <3>3. All = current.lines
      <4>1. current.lines \in Seq(Int)
        BY <2>1, AllTyped
      <4> QED BY <3>1, <4>1, WholePart DEF All
    <3>4. \A n : (\E k \in 1..Len(All) : All[k] = n) => n \in L!Range(old'[oldfilename].lines)
      BY <2>2, <3>2, <3>3 DEF L!Range
    <3>5. ASSUME NEW n \in Held
          PROVE  n \in Held'
      <4>1. \/ \E k \in 1..Len(All) : All[k] = n
            \/ \E file \in DOMAIN old : n \in L!Range(old[file].lines)
        BY <2>1, HeldIs
      <4>2. (\E file \in DOMAIN old' : n \in L!Range(old'[file].lines)) => n \in Held'
        BY <2>1, HeldThen
      <4> QED BY <3>2, <3>4, <4>1, <4>2
    <3> QED BY <2>3, <3>5
  <2>9. CASE L!Unlink
    <3>1. PICK file \in DOMAIN old : L!Dies(file) /\ old' = L!Restrict(old, DOMAIN old \ {file})
      BY <2>9 DEF L!Unlink
    <3>2. All' = All
      BY <2>9 DEF L!Unlink, L!process, All
    <3>3. ASSUME NEW n \in Held, n \notin L!Range(old[file].lines)
          PROVE  n \in Held'
      <4>1. \/ \E k \in 1..Len(All) : All[k] = n
            \/ \E m \in DOMAIN old : n \in L!Range(old[m].lines)
        BY <2>1, HeldIs
      <4>2. n \in Held' <=> \/ \E k \in 1..Len(All') : All'[k] = n
                            \/ \E m \in DOMAIN old' : n \in L!Range(old'[m].lines)
        BY <2>1, HeldThen
      <4>3. \A m \in DOMAIN old : m # file => m \in DOMAIN old' /\ old'[m] = old[m]
        BY <3>1 DEF L!Restrict
      <4> QED BY <3>2, <3>3, <4>1, <4>2, <4>3
    <3> QED BY <3>1, <3>3 DEF Held, L!Dies, L!Lasts
  <2>10. CASE L!Die
    <3>1. PICK told \in Seq(Int), lost \in Seq(Int) : current'.lines = current.lines \o told
      BY <2>10, DieWrites
    <3>2. old' = old /\ current.lines \in Seq(Int)
      BY <2>1, <2>10, AllTyped DEF L!Die
    <3>3. \A n : n \in L!Range(current.lines) => n \in L!Range(current'.lines)
      <4>1. /\ Len(current.lines \o told) = Len(current.lines) + Len(told) /\ Len(current.lines) \in Nat /\ Len(told) \in Nat
            /\ \A k \in 1..Len(current.lines) : (current.lines \o told)[k] = current.lines[k]
        BY <3>2, Joined
      <4>2. DOMAIN (current.lines \o told) = 1..Len(current.lines \o told) /\ DOMAIN current.lines = 1..Len(current.lines)
        BY <3>2
      <4>3. \A k \in DOMAIN current.lines : k \in DOMAIN current'.lines /\ current'.lines[k] = current.lines[k]
        BY <3>1, <4>1, <4>2
      <4> QED BY <4>3 DEF L!Range
    <3>4. L!OnDisk \subseteq L!OnDisk'
      <4>1. \A n : n \in L!OnDisk => n \in L!OnDisk'
        BY <3>2, <3>3 DEF L!OnDisk
      <4> QED BY <4>1
    <3> QED BY <2>10, <3>4 DEF L!Lasts
  <2> QED BY <2>4, <2>5, <2>6, <2>7, <2>8, <2>9, <2>10 DEF L!Next
<1> QED BY <1>1, LogAlways, PTL DEF L!Spec, L!Lasting
-----------------------------------------------------------------------------
(* dnsfilter.c                                                             *)
LEMMA SameCount == \A S : F!Cardinality(S) = Cardinality(S)
  BY Zenon DEF F!Cardinality, Cardinality

(* Sequences of sequences joined: what is written and what is on its way   *)
(* in dnsfilter.c:100-211.                                                 *)
LEMMA Flattened ==
  ASSUME NEW s, NEW n \in Nat, n # 0, Len(s) = n
  PROVE  \E f : Flattens(f, s, n) /\ F!FlattenSeq(s) = f[n]
<1> DEFINE f == CHOOSE g : g = [i \in 1..Len(s) |-> IF i = 1 THEN s[i] ELSE g[i - 1] \o s[i]]
<1>1. \E g : g = [i \in 1..Len(s) |-> IF i = 1 THEN s[i] ELSE g[i - 1] \o s[i]]
  BY FlattensExists DEF Flattens
<1>2. f = [i \in 1..Len(s) |-> IF i = 1 THEN s[i] ELSE f[i - 1] \o s[i]]
  BY <1>1, Zenon
<1>3. F!FlattenSeq(s) = f[Len(s)]
  BY Zenon DEF F!FlattenSeq
<1> HIDE DEF f
<1> QED BY <1>2, <1>3 DEF Flattens

LEMMA FlattenEmpty ==
  ASSUME NEW s, Len(s) = 0
  PROVE  F!FlattenSeq(s) = s
BY Zenon DEF F!FlattenSeq

LEMMA FlattenType ==
  ASSUME NEW Element, NEW s \in Seq(Seq(Element))
  PROVE  F!FlattenSeq(s) \in Seq(Element)
<1>0. Len(s) \in Nat OBVIOUS
<1>1. CASE Len(s) = 0
  <2>1. s = <<>> BY <1>1, EmptySeq
  <2>2. F!FlattenSeq(s) = s BY <1>1, FlattenEmpty
  <2>3. <<>> \in Seq(Element) BY EmptySeq
  <2> QED BY <2>1, <2>2, <2>3, Zenon
<1>2. CASE Len(s) # 0
  <2>1. PICK f : Flattens(f, s, Len(s)) /\ F!FlattenSeq(s) = f[Len(s)]
    BY <1>0, <1>2, Flattened
  <2>2. Len(s) \in 1..Len(s) BY <1>0, <1>2
  <2>3. \A i \in 1..Len(s) : s[i] \in Seq(Element) OBVIOUS
  <2>4. \A i \in 1..Len(s) : f[i] \in Seq(Element) BY <1>0, <2>1, <2>3, FlattensTypes, Zenon
  <2> QED BY <2>1, <2>2, <2>4, Zenon
<1> QED BY <1>1, <1>2

(* The last sequence, or the first, and the rest.                          *)
LEMMA FlattenLast ==
  ASSUME NEW s, NEW t, NEW n \in Nat, n # 0, Len(s) = n + 1, Len(t) = n, \A i \in 1..n : t[i] = s[i]
  PROVE  F!FlattenSeq(s) = F!FlattenSeq(t) \o s[n + 1]
<1>0. n + 1 \in Nat /\ n + 1 # 0 /\ n + 1 \in 1..n + 1 /\ (n + 1) - 1 = n /\ n <= n + 1 /\ n \in 1..n /\ n + 1 # 1
  OBVIOUS
<1>1. PICK f : Flattens(f, s, n + 1) /\ F!FlattenSeq(s) = f[n + 1]
  BY <1>0, Flattened
<1>2. f[n + 1] = IF n + 1 = 1 THEN s[n + 1] ELSE f[(n + 1) - 1] \o s[n + 1]
  <2>1. Flattens(f, s, n + 1) BY <1>1, Zenon
  <2>2. \A i \in 1..n + 1 : f[i] = IF i = 1 THEN s[i] ELSE f[i - 1] \o s[i]
    BY <1>0, <2>1, FlattensStep
  <2> QED BY <1>0, <2>2, Zenon
<1>3. PICK g : Flattens(g, t, n) /\ F!FlattenSeq(t) = g[n]
  BY Flattened
<1>4. \A i \in 1..n : g[i] = f[i]
  BY <1>0, <1>1, <1>3, FlattensAgree
<1> QED BY <1>0, <1>1, <1>2, <1>3, <1>4, Zenon

(* s is a sequence before those of t.                                      *)
StartsAs(Element, s, t, n) == s[1] \in Seq(Element) /\ \A i \in 1..n : t[i] \in Seq(Element) /\ t[i] = s[i + 1]

(* f has what g has, behind the first of s.                                *)
Shifted(f, g, s, n) == \A i \in 1..n : f[i + 1] = s[1] \o g[i]

LEMMA FlattensShift ==
  ASSUME NEW Element, NEW s, NEW t, NEW n \in Nat, NEW f, NEW g, Flattens(f, s, n + 1), Flattens(g, t, n), StartsAs(Element, s, t, n)
  PROVE  Shifted(f, g, s, n)
<1>8. n + 1 \in Nat /\ 1 \in 1..n + 1 OBVIOUS
<1>9. \A i \in 1..n + 1 : f[i] = IF i = 1 THEN s[i] ELSE f[i - 1] \o s[i]
  BY <1>8, FlattensStep
<1>10. \A u, v, w \in Seq(Element) : (u \o v) \o w = u \o (v \o w)
  BY ConcatAssociative
<1>11. \A i \in 1..n : g[i] = IF i = 1 THEN t[i] ELSE g[i - 1] \o t[i]
  BY FlattensStep
<1>12. \A i \in 1..n : g[i] \in Seq(Element)
  <2>1. \A i \in 1..n : t[i] \in Seq(Element) BY Zenon DEF StartsAs
  <2> QED BY <2>1, FlattensTypes
<1>13. \A i \in 1..n : t[i] \in Seq(Element) /\ t[i] = s[i + 1]
  BY Zenon DEF StartsAs
<1>14. s[1] \in Seq(Element)
  BY Zenon DEF StartsAs
<1> DEFINE Bad == {k \in 1..n : f[k + 1] # s[1] \o g[k]}
<1> SUFFICES ASSUME Bad # {} PROVE FALSE
  <2>1. Bad = {} => \A i \in 1..n : f[i + 1] = s[1] \o g[i]
    BY Zenon
  <2> QED BY <2>1, Zenon DEF Shifted
<1>1. PICK k \in Bad : \A j \in Bad : k <= j
  <2>0. Bad \in SUBSET (1..n) BY Zenon
  <2> HIDE DEF Bad
  <2>1. Bad \in SUBSET Nat BY <2>0
  <2> QED BY <2>1, LeastNatural
<1>2. k \in 1..n /\ k + 1 \in 1..n + 1 /\ k + 1 # 1 /\ (k + 1) - 1 = k
  OBVIOUS
<1>3. f[k + 1] # s[1] \o g[k]
  BY Zenon
<1>4. f[k + 1] = f[k] \o t[k]
  <2>1. f[k + 1] = IF k + 1 = 1 THEN s[k + 1] ELSE f[(k + 1) - 1] \o s[k + 1]
    BY <1>2, <1>9, Zenon
  <2>2. t[k] = s[k + 1] BY <1>2, <1>13, Zenon
  <2> QED BY <1>2, <2>1, <2>2, Zenon
<1>5. g[k] = IF k = 1 THEN t[k] ELSE g[k - 1] \o t[k]
  BY <1>2, <1>11, Zenon
<1>6. CASE k = 1
  <2>1. f[1] = s[1] BY <1>8, <1>9, Zenon
  <2> QED BY <1>3, <1>4, <1>5, <1>6, <2>1, Zenon
<1>7. CASE k # 1
  <2>1. k - 1 \in 1..n /\ ~(k <= k - 1) /\ (k - 1) + 1 = k
    BY <1>2, <1>7
  <2>2. f[(k - 1) + 1] = s[1] \o g[k - 1]
    BY <1>1, <2>1, Zenon
  <2>3. f[k] = s[1] \o g[k - 1]
    BY <2>1, <2>2, Zenon
  <2>4. g[k - 1] \in Seq(Element) /\ t[k] \in Seq(Element)
    BY <1>2, <1>12, <1>13, <2>1, Zenon
  <2>5. (s[1] \o g[k - 1]) \o t[k] = s[1] \o (g[k - 1] \o t[k])
    BY <1>10, <1>14, <2>4, Zenon
  <2> QED BY <1>3, <1>4, <1>5, <1>7, <2>3, <2>5, Zenon
<1> QED BY <1>6, <1>7

LEMMA FlattenFirst ==
  ASSUME NEW Element, NEW s, NEW t, NEW n \in Nat, n # 0, Len(s) = n + 1, Len(t) = n, StartsAs(Element, s, t, n)
  PROVE  F!FlattenSeq(s) = s[1] \o F!FlattenSeq(t)
<1>0. n + 1 \in Nat /\ n + 1 # 0 /\ n \in 1..n
  OBVIOUS
<1>1. PICK f : Flattens(f, s, n + 1) /\ F!FlattenSeq(s) = f[n + 1]
  BY <1>0, Flattened
<1>2. PICK g : Flattens(g, t, n) /\ F!FlattenSeq(t) = g[n]
  BY Flattened
<1>3. f[n + 1] = s[1] \o g[n]
  <2>1. Flattens(f, s, n + 1) BY <1>1, Zenon
  <2>2. Flattens(g, t, n) BY <1>2, Zenon
  <2>3. Shifted(f, g, s, n)
    BY <2>1, <2>2, FlattensShift
  <2> QED BY <1>0, <2>3, Zenon DEF Shifted
<1> QED BY <1>1, <1>2, <1>3, Zenon

LEMMA FlattenOne ==
  ASSUME NEW s, Len(s) = 1
  PROVE  F!FlattenSeq(s) = s[1]
<1>0. 1 \in Nat /\ 1 # 0 /\ 1 \in 1..1 OBVIOUS
<1>1. PICK f : Flattens(f, s, 1) /\ F!FlattenSeq(s) = f[1]
  BY <1>0, Flattened, Zenon
<1>2. f[1] = s[1]
  BY <1>0, <1>1, FlattensStep, Zenon
<1> QED BY <1>1, <1>2

-----------------------------------------------------------------------------
Tokens == UNION {F!ToSet(tokens) : tokens \in Inputs}
Middles == {<<>>, <<":error">>, <<"=", ":error">>} \cup {<<"=", ip>> : ip \in Address}
TextLines == [left : Seq(Tokens), middle : Middles, right : Seq(Tokens)]
TextSlots == [cell : 1..xmax, active : BOOLEAN, ip : Address \cup {F!NoIp}]

FilterTypes ==
  /\ input \in Seq(Tokens) /\ stdin \in Seq(Tokens)
  /\ inbuf \in Seq(Tokens) /\ partial \in Seq(Tokens) /\ flag0 \in BOOLEAN
  /\ x \in [1..xmax -> TextSlots] /\ numactive \in Nat
  /\ text \in [1..xmax -> TextLines]
  /\ stdout \in Seq(TextLines)
  /\ xnum \in 0..xmax /\ Len(inbuf) <= Size

(* A name stands behind its own address.                                   *)
NamedRight(line) ==
  line.middle # <<>> =>
    /\ F!Scans(line.left)
    /\ line.middle \in {<<":error">>, <<"=", ":error">>, <<"=", line.left[1]>>}

(* Every slot has buffers of its own, those of an exchange its address.    *)
Apart == \A i, j \in 1..xmax : x[i].cell = x[j].cell => i = j
Asked == \A i \in 1..xmax : x[i].active => x[i].ip \in Address /\ F!Scans(text[x[i].cell].left) /\ text[x[i].cell].left[1] = x[i].ip
AllRight == (\A i \in 1..xnum : NamedRight(text[x[i].cell])) /\ (\A i \in 1..Len(stdout) : NamedRight(stdout[i]))

FilterInv == FilterTypes /\ Apart /\ F!ActiveCounted /\ Asked /\ AllRight /\ F!Whole

-----------------------------------------------------------------------------
(* dnsfilter.c:67-98, :171-205: lines, and what is left of them.           *)
LEMMA LeftWhole ==
  ASSUME NEW line \in Seq(Tokens)
  PROVE  /\ F!Left(line) \in Seq(Tokens)
         /\ SubSeq(line, Len(F!Left(line)) + 1, Len(line)) \in Seq(Tokens)
         /\ F!Left(line) \o SubSeq(line, Len(F!Left(line)) + 1, Len(line)) = line
<1> DEFINE ends == {i \in 1..Len(line) : line[i] \in {NewLine, Blank}}
           first == CHOOSE i \in ends : \A k \in ends : i <= k
<1>0. Len(line) \in Nat BY LenProperties
<1>1. F!Left(line) = IF ends = {} THEN line ELSE SubSeq(line, 1, first - 1)
  BY Zenon DEF F!Left
<1>2. ends \in SUBSET (1..Len(line))
  BY Zenon
<1>3. ends # {} => first \in 1..Len(line)
  <2> HIDE DEF ends
  <2>1. ends \in SUBSET Nat BY <1>0, <1>2
  <2>2. ends # {} => \E i \in ends : \A k \in ends : i <= k
    BY <2>1, LeastNatural
  <2>3. ends # {} => first \in ends
    BY <2>2, Zenon
  <2> QED BY <1>2, <2>3, Zenon
<1> HIDE DEF ends, first
<1>4. \E k \in 0..Len(line) : F!Left(line) = SubSeq(line, 1, k)
  <2>1. CASE ends = {}
    <3>1. line = SubSeq(line, 1, Len(line)) BY SubSeqFull
    <3>2. Len(line) \in 0..Len(line) BY <1>0
    <3> QED BY <1>1, <2>1, <3>1, <3>2, Zenon
  <2>2. CASE ends # {}
    <3>1. first - 1 \in 0..Len(line) BY <1>0, <1>3, <2>2
    <3> QED BY <1>1, <2>2, <3>1, Zenon
  <2> QED BY <2>1, <2>2
<1>5. PICK k \in 0..Len(line) : F!Left(line) = SubSeq(line, 1, k)
  BY <1>4
<1>6. \A i \in 1..Len(line) : line[i] \in Tokens
  BY ElementOfSeq
<1>7. SubSeq(line, 1, k) \in Seq(Tokens) /\ Len(SubSeq(line, 1, k)) = k
  <2>1. k \in Int /\ \A i \in 1..k : line[i] \in Tokens BY <1>0, <1>6
  <2>2. Len(SubSeq(line, 1, k)) = IF 1 <= k THEN k - 1 + 1 ELSE 0
    BY <2>1, SubSeqProperties
  <2> QED BY <2>1, <2>2, SubSeqProperties
<1>8. SubSeq(line, k + 1, Len(line)) \in Seq(Tokens)
  <2>1. k + 1 \in Int /\ Len(line) \in Int /\ \A i \in k + 1..Len(line) : line[i] \in Tokens BY <1>0, <1>6
  <2> QED BY <2>1, SubSeqProperties
<1>9. SubSeq(line, 1, k) \o SubSeq(line, k + 1, Len(line)) = line
  <2>1. 1 \in 1..Len(line) + 1 /\ k \in 1 - 1..Len(line) /\ Len(line) \in k..Len(line) BY <1>0
  <2>2. SubSeq(line, 1, k) \o SubSeq(line, k + 1, Len(line)) = SubSeq(line, 1, Len(line))
    BY <2>1, ConcatAdjacentSubSeq
  <2> QED BY <2>2, SubSeqFull
<1> QED BY <1>5, <1>7, <1>8, <1>9

LEMMA NewLinePlace ==
  ASSUME inbuf \in Seq(Tokens)
  PROVE  F!NewLineAt \in 0..Len(inbuf) /\ (F!HasLine => F!NewLineAt > 0)
<1>0. Len(inbuf) \in Nat BY LenProperties
<1>1. CASE NewLine \in F!ToSet(inbuf)
  <2> DEFINE ends == {i \in 1..Len(inbuf) : inbuf[i] = NewLine}
  <2>1. \E i \in 1..Len(inbuf) : inbuf[i] = NewLine
    <3>1. DOMAIN inbuf = 1..Len(inbuf) BY LenProperties
    <3> QED BY <1>1, <3>1, Zenon DEF F!ToSet
  <2>2. ends # {} /\ ends \in SUBSET (1..Len(inbuf))
    BY <2>1, Zenon
  <2>3. PICK i \in ends : \A k \in ends : i <= k
    <3> HIDE DEF ends
    <3>1. ends \in SUBSET Nat BY <1>0, <2>2
    <3> QED BY <2>2, <3>1, LeastNatural
  <2>4. i \in 1..Len(inbuf) /\ inbuf[i] = NewLine /\ \A k \in 1..i - 1 : inbuf[k] # NewLine
    <3>1. i \in 1..Len(inbuf) /\ inbuf[i] = NewLine BY Zenon
    <3>2. \A k \in 1..i - 1 : k \in 1..Len(inbuf) /\ ~(i <= k) BY <1>0, <3>1
    <3>3. \A k \in 1..i - 1 : k \notin ends BY <2>3, <3>2, Zenon
    <3> QED BY <3>1, <3>2, <3>3, Zenon
  <2>5. F!NewLineAt \in 1..Len(inbuf)
    BY <1>1, <2>4, Zenon DEF F!NewLineAt
  <2> HIDE DEF ends
  <2> QED BY <1>0, <2>5
<1>2. CASE NewLine \notin F!ToSet(inbuf)
  BY <1>0, <1>2 DEF F!NewLineAt, F!HasLine
<1> QED BY <1>1, <1>2

(* dnsfilter.c:143-205: the tokens of lines.                               *)
LEMMA WrittenType ==
  ASSUME NEW line \in TextLines
  PROVE  F!Written(line) \in Seq(Tokens)
<1>1. line.left \in Seq(Tokens) /\ line.right \in Seq(Tokens)
  BY DEF TextLines
<1>2. line.left \o line.right \in Seq(Tokens)
  BY <1>1, ConcatProperties
<1> QED BY <1>2 DEF F!Written

Writtens(texts) == [i \in DOMAIN texts |-> F!Written(texts[i])]

LEMMA WrittensType ==
  ASSUME NEW texts \in Seq(TextLines)
  PROVE  /\ Writtens(texts) \in Seq(Seq(Tokens))
         /\ Len(Writtens(texts)) = Len(texts)
         /\ \A i \in 1..Len(texts) : Writtens(texts)[i] = F!Written(texts[i]) /\ Writtens(texts)[i] \in Seq(Tokens)
<1>1. Len(texts) \in Nat /\ DOMAIN texts = 1..Len(texts)
  BY LenProperties
<1>2. \A i \in 1..Len(texts) : texts[i] \in TextLines
  BY ElementOfSeq
<1>3. \A i \in 1..Len(texts) : F!Written(texts[i]) \in Seq(Tokens)
  BY <1>2, WrittenType
<1>4. Writtens(texts) = [i \in 1..Len(texts) |-> F!Written(texts[i])]
  BY <1>1, Zenon DEF Writtens
<1>5. [i \in 1..Len(texts) |-> F!Written(texts[i])] \in Seq(Seq(Tokens))
  BY <1>1, <1>3, IsASeq
<1>6. DOMAIN Writtens(texts) = 1..Len(texts)
  BY <1>4, Zenon
<1>7. Writtens(texts) \in Seq(Seq(Tokens))
  BY <1>4, <1>5, Zenon
<1>8. Len(Writtens(texts)) \in Nat /\ DOMAIN Writtens(texts) = 1..Len(Writtens(texts))
  BY <1>7, LenProperties
<1>9. Len(Writtens(texts)) = Len(texts)
  BY <1>1, <1>6, <1>8
<1>10. \A i \in 1..Len(texts) : Writtens(texts)[i] = F!Written(texts[i])
  BY <1>4, Zenon
<1> QED BY <1>3, <1>7, <1>9, <1>10, Zenon

LEMMA FlatType ==
  ASSUME NEW texts \in Seq(TextLines)
  PROVE  F!Flat(texts) \in Seq(Tokens)
<1>1. F!Flat(texts) = F!FlattenSeq(Writtens(texts))
  BY Zenon DEF F!Flat, Writtens
<1>2. F!FlattenSeq(Writtens(texts)) \in Seq(Tokens)
  BY WrittensType, FlattenType, Zenon
<1> QED BY <1>1, <1>2, Zenon

LEMMA FlatSame ==
  ASSUME NEW texts, NEW others, DOMAIN texts = DOMAIN others,
         \A i \in DOMAIN texts : F!Written(texts[i]) = F!Written(others[i])
  PROVE  F!Flat(texts) = F!Flat(others)
<1>1. [i \in DOMAIN texts |-> F!Written(texts[i])] = [i \in DOMAIN others |-> F!Written(others[i])]
  BY Zenon
<1> QED BY <1>1, Zenon DEF F!Flat

LEMMA FlatLast ==
  ASSUME NEW texts \in Seq(TextLines), NEW all \in Seq(TextLines), Len(all) = Len(texts) + 1,
         \A i \in 1..Len(texts) : all[i] = texts[i]
  PROVE  F!Flat(all) = F!Flat(texts) \o F!Written(all[Len(texts) + 1])
<1> DEFINE n == Len(texts)
           s == Writtens(all)
           t == Writtens(texts)
<1>0. n \in Nat /\ n + 1 \in 1..Len(all) /\ Len(all) = n + 1 /\ \A i \in 1..n : i \in 1..Len(all)
  <2>1. n \in Nat BY LenProperties
  <2> QED BY <2>1
<1>1. Len(s) = n + 1 /\ Len(t) = n
  BY <1>0, WrittensType
<1>2. \A i \in 1..n : t[i] = s[i]
  <2>1. \A i \in 1..n : t[i] = F!Written(texts[i])
    BY WrittensType
  <2>2. \A i \in 1..n : s[i] = F!Written(all[i])
    BY <1>0, WrittensType
  <2> QED BY <2>1, <2>2, Zenon
<1>3. s[n + 1] = F!Written(all[n + 1])
  BY <1>0, WrittensType
<1>4. n = 0 => t = <<>>
  <2>1. t \in Seq(Seq(Tokens)) BY WrittensType
  <2> QED BY <1>1, <2>1, EmptySeq
<1>5. s[n + 1] \in Seq(Tokens)
  BY <1>0, WrittensType
<1> HIDE DEF n, s, t
<1>6. F!FlattenSeq(s) = F!FlattenSeq(t) \o s[n + 1]
  <2>1. CASE n = 0
    <3>1. F!FlattenSeq(s) = s[n + 1] BY <1>1, <2>1, FlattenOne
    <3>2. F!FlattenSeq(t) = t BY <1>1, <2>1, FlattenEmpty
    <3>3. <<>> \o s[n + 1] = s[n + 1] BY <1>5, ConcatEmptySeq
    <3> QED BY <1>4, <2>1, <3>1, <3>2, <3>3, Zenon
  <2>2. CASE n # 0
    BY <1>0, <1>1, <1>2, <2>2, FlattenLast
  <2> QED BY <2>1, <2>2
<1>7. F!Flat(all) = F!FlattenSeq(s) /\ F!Flat(texts) = F!FlattenSeq(t)
  BY Zenon DEF F!Flat, Writtens, s, t
<1> QED BY <1>3, <1>6, <1>7, Zenon DEF n

LEMMA FlatFirst ==
  ASSUME NEW texts \in Seq(TextLines), NEW all \in Seq(TextLines), Len(all) = Len(texts) + 1,
         \A i \in 1..Len(texts) : texts[i] = all[i + 1]
  PROVE  F!Flat(all) = F!Written(all[1]) \o F!Flat(texts)
<1> DEFINE n == Len(texts)
           s == Writtens(all)
           t == Writtens(texts)
<1>0. n \in Nat /\ 1 \in 1..Len(all) /\ Len(all) = n + 1 /\ \A i \in 1..n : i + 1 \in 1..Len(all)
  <2>1. n \in Nat BY LenProperties
  <2> QED BY <2>1
<1>1. Len(s) = n + 1 /\ Len(t) = n
  BY <1>0, WrittensType
<1>2. \A i \in 1..n : t[i] = s[i + 1] /\ t[i] \in Seq(Tokens)
  <2>1. \A i \in 1..n : t[i] = F!Written(texts[i]) /\ t[i] \in Seq(Tokens)
    BY WrittensType
  <2>2. \A i \in 1..n : s[i + 1] = F!Written(all[i + 1])
    BY <1>0, WrittensType
  <2> QED BY <2>1, <2>2, Zenon
<1>3. s[1] = F!Written(all[1]) /\ s[1] \in Seq(Tokens)
  BY <1>0, WrittensType
<1>4. n = 0 => t = <<>>
  <2>1. t \in Seq(Seq(Tokens)) BY WrittensType
  <2> QED BY <1>1, <2>1, EmptySeq
<1> HIDE DEF n, s, t
<1>7. F!Flat(all) = F!FlattenSeq(s) /\ F!Flat(texts) = F!FlattenSeq(t)
  BY Zenon DEF F!Flat, Writtens, s, t
<1>8. CASE n = 0
  <2>1. F!FlattenSeq(s) = s[1] BY <1>1, <1>8, FlattenOne
  <2>2. F!FlattenSeq(t) = t BY <1>1, <1>8, FlattenEmpty
  <2>3. s[1] \o <<>> = s[1] BY <1>3, ConcatEmptySeq
  <2> QED BY <1>3, <1>4, <1>7, <1>8, <2>1, <2>2, <2>3, Zenon
<1>9. CASE n # 0
  <2>1. StartsAs(Tokens, s, t, n) BY <1>2, <1>3, Zenon DEF StartsAs
  <2>2. F!FlattenSeq(s) = s[1] \o F!FlattenSeq(t)
    BY <1>0, <1>1, <1>9, <2>1, FlattenFirst
  <2> QED BY <1>3, <1>7, <2>2, Zenon
<1> QED BY <1>8, <1>9

-----------------------------------------------------------------------------
(* dnsfilter.c:100-205: pieces of the text change hands.                   *)
Associate(p, q, r) == (p \o q) \o r = p \o (q \o r)

LEMMA Associative ==
  ASSUME NEW Element, NEW p \in Seq(Element), NEW q \in Seq(Element), NEW r \in Seq(Element)
  PROVE  Associate(p, q, r)
BY ConcatAssociative DEF Associate

LEMMA ConcatClosed ==
  ASSUME NEW Element, NEW p \in Seq(Element), NEW q \in Seq(Element)
  PROVE  p \o q \in Seq(Element)
BY ConcatProperties

Joins(a, b, c, d, e) ==
  /\ (a \o (b \o c)) \o d = (a \o b) \o (c \o d)
  /\ ((a \o (b \o c)) \o <<>>) \o d = ((a \o b) \o c) \o d
  /\ (((a \o (b \o (c \o d))) \o <<>>) \o e) = ((a \o b) \o c) \o (d \o e)

LEMMA Joining ==
  ASSUME NEW Element, NEW a \in Seq(Element), NEW b \in Seq(Element), NEW c \in Seq(Element), NEW d \in Seq(Element), NEW e \in Seq(Element)
  PROVE  Joins(a, b, c, d, e)
<1> DEFINE ab == a \o b
           bc == b \o c
           cd == c \o d
           abc == ab \o c
           abcd == abc \o d
<1>1. ab \in Seq(Element) /\ bc \in Seq(Element) /\ cd \in Seq(Element)
  BY ConcatClosed
<1>2. Associate(a, b, c) /\ Associate(b, c, d) /\ Associate(a, b, c)
  BY Associative
<1>3. Associate(a, b, cd) /\ Associate(ab, c, d)
  <2> HIDE DEF ab, cd
  <2> QED BY <1>1, Associative
<1>4. abc \in Seq(Element)
  <2> HIDE DEF ab
  <2> QED BY <1>1, ConcatClosed
<1>5. abcd \in Seq(Element) /\ Associate(abc, d, e)
  <2> HIDE DEF abc
  <2> QED BY <1>4, ConcatClosed, Associative
<1>6. abcd \o <<>> = abcd /\ abc \o <<>> = abc
  <2> HIDE DEF abcd, abc
  <2> QED BY <1>4, <1>5, ConcatEmptySeq
<1>7. (a \o (b \o c)) \o d = (a \o b) \o (c \o d)
  BY <1>2, <1>3, Zenon DEF Associate
<1>8. ((a \o (b \o c)) \o <<>>) \o d = ((a \o b) \o c) \o d
  BY <1>2, <1>6, Zenon DEF Associate
<1>9. (((a \o (b \o (c \o d))) \o <<>>) \o e) = ((a \o b) \o c) \o (d \o e)
  BY <1>3, <1>5, <1>6, Zenon DEF Associate
<1> QED BY <1>7, <1>8, <1>9, Zenon DEF Joins

(* The lines in the slots.                                                 *)
Way(buffers, slots, n) == [i \in 1..n |-> buffers[slots[i].cell]]

LEMMA WayType ==
  ASSUME xmax \in Nat, NEW buffers \in [1..xmax -> TextLines], NEW slots \in [1..xmax -> TextSlots], NEW n \in 0..xmax
  PROVE  /\ Way(buffers, slots, n) \in Seq(TextLines) /\ Len(Way(buffers, slots, n)) = n
         /\ DOMAIN Way(buffers, slots, n) = 1..n
         /\ \A i \in 1..n : Way(buffers, slots, n)[i] = buffers[slots[i].cell]
<1> DEFINE way == Way(buffers, slots, n)
<1>1. n \in Nat /\ \A i \in 1..n : i \in 1..xmax
  OBVIOUS
<1>2. \A i \in 1..xmax : slots[i].cell \in 1..xmax
  BY DEF TextSlots
<1>3. \A i \in 1..n : buffers[slots[i].cell] \in TextLines
  BY <1>1, <1>2
<1>4. [i \in 1..n |-> buffers[slots[i].cell]] \in Seq(TextLines)
  BY <1>1, <1>3, IsASeq
<1>5. way \in Seq(TextLines) /\ DOMAIN way = 1..n /\ \A i \in 1..n : way[i] = buffers[slots[i].cell]
  BY <1>4, Zenon DEF Way
<1>6. Len(way) \in Nat /\ DOMAIN way = 1..Len(way)
  BY <1>5, LenProperties
<1>7. Len(way) = n
  <2> HIDE DEF way
  <2> QED BY <1>1, <1>5, <1>6
<1> QED BY <1>5, <1>7, Zenon

LEMMA AllType ==
  ASSUME F!FilterBounds, FilterTypes
  PROVE  /\ F!OnTheWay = Way(text, x, xnum)
         /\ F!OnTheWay \in Seq(TextLines) /\ Len(F!OnTheWay) = xnum /\ DOMAIN F!OnTheWay = 1..xnum
         /\ F!Flat(stdout) \in Seq(Tokens) /\ F!Flat(F!OnTheWay) \in Seq(Tokens)
         /\ F!Flat(stdout) \o F!Flat(F!OnTheWay) \in Seq(Tokens)
         /\ F!Flat(stdout) \o F!Flat(F!OnTheWay) \o partial \in Seq(Tokens)
<1>1. F!OnTheWay = Way(text, x, xnum)
  BY Zenon DEF F!OnTheWay, Way
<1>2. Way(text, x, xnum) \in Seq(TextLines) /\ Len(Way(text, x, xnum)) = xnum /\ DOMAIN Way(text, x, xnum) = 1..xnum
  BY WayType DEF FilterTypes, F!FilterBounds
<1>3. F!Flat(stdout) \in Seq(Tokens) /\ F!Flat(F!OnTheWay) \in Seq(Tokens)
  BY <1>1, <1>2, FlatType DEF FilterTypes
<1>4. \A p, q \in Seq(Tokens) : p \o q \in Seq(Tokens)
  BY ConcatProperties
<1>5. partial \in Seq(Tokens)
  BY DEF FilterTypes
<1> QED BY <1>1, <1>2, <1>3, <1>4, <1>5, Zenon

-----------------------------------------------------------------------------
LEMMA FilterStarts ==
  ASSUME F!FilterBounds, F!Init
  PROVE  FilterInv
<1>1. input \in Seq(Tokens)
  <2>1. input \in Inputs /\ input \in Seq(F!ToSet(input)) BY DEF F!Init, F!FilterBounds
  <2>2. F!ToSet(input) \subseteq Tokens BY <2>1, Zenon DEF Tokens
  <2> QED BY <2>1, <2>2, SeqMonotonic
<1>2. <<>> \in Seq(Tokens) /\ <<>> \in Seq(TextLines) /\ Len(<<>>) = 0
  BY EmptySeq
<1>3. text \in [1..xmax -> TextLines]
  <2>1. F!NoText \in TextLines BY <1>2, Zenon DEF F!NoText, TextLines, Middles
  <2> QED BY <2>1 DEF F!Init
<1>4. x = [i \in 1..xmax |-> [cell |-> i, active |-> FALSE, ip |-> F!NoIp]]
  BY DEF F!Init
<1>5. x \in [1..xmax -> TextSlots]
  <2>1. \A i \in 1..xmax : [cell |-> i, active |-> FALSE, ip |-> F!NoIp] \in TextSlots BY DEF TextSlots
  <2> QED BY <1>4, <2>1, Zenon
<1>6. \A i \in 1..xmax : x[i].cell = i /\ x[i].active = FALSE
  BY <1>4
<1>7. FilterTypes
  <2>1. stdin = input /\ inbuf = <<>> /\ partial = <<>> /\ flag0 = TRUE /\ xnum = 0 /\ numactive = 0 /\ stdout = <<>>
    BY DEF F!Init
  <2>2. 0 \in 0..xmax /\ 0 <= Size /\ 0 \in Nat BY DEF F!FilterBounds
  <2> QED BY <1>1, <1>2, <1>3, <1>5, <2>1, <2>2, Zenon DEF FilterTypes
<1>8. Apart /\ Asked
  BY <1>6, Zenon DEF Apart, Asked
<1>9. F!ActiveCounted
  <2>1. {i \in 1..xmax : x[i].active} = {} BY <1>6, Zenon
  <2>2. Cardinality({}) = 0 BY FS_EmptySet
  <2>3. \A i \in xnum + 1..xmax : ~x[i].active
    BY <1>6 DEF F!Init
  <2>4. numactive = 0 /\ 0 <= maxactive BY DEF F!Init, F!FilterBounds
  <2> QED BY <2>1, <2>2, <2>3, <2>4, SameCount, Zenon DEF F!ActiveCounted
<1>10. AllRight
  <2>1. xnum = 0 /\ Len(stdout) = 0 BY <1>2 DEF F!Init
  <2> QED BY <2>1 DEF AllRight
<1>11. F!Whole
  <2>1. F!OnTheWay = <<>> /\ stdout = <<>> /\ partial = <<>> /\ inbuf = <<>> /\ stdin = input
    BY DEF F!OnTheWay, F!Init
  <2>2. F!Flat(<<>>) = <<>>
    <3>1. [i \in DOMAIN <<>> |-> F!Written(<<>>[i])] = <<>>
      OBVIOUS
    <3>2. F!FlattenSeq(<<>>) = <<>> BY <1>2, FlattenEmpty
    <3> QED BY <3>1, <3>2, Zenon DEF F!Flat
  <2>3. <<>> \o <<>> = <<>> /\ <<>> \o input = input
    BY <1>1, <1>2, ConcatEmptySeq
  <2> QED BY <2>1, <2>2, <2>3, Zenon DEF F!Whole
<1> QED BY <1>7, <1>8, <1>9, <1>10, <1>11 DEF FilterInv

LEMMA ExitKeeps ==
  ASSUME FilterInv, F!Break \/ F!Exit
  PROVE  FilterInv'
<1>1. UNCHANGED <<input, stdin, inbuf, partial, flag0, x, xnum, numactive, text, stdout>> /\ filter # "died" /\ filter' # "died"
  BY DEF F!Break, F!Exit
<1>2. FilterTypes' /\ Apart' /\ F!ActiveCounted' /\ Asked' /\ AllRight'
  BY <1>1, Zenon DEF FilterInv, FilterTypes, Apart, F!ActiveCounted, Asked, AllRight
<1>3. F!Whole'
  BY <1>1, Zenon DEF FilterInv, F!Whole, F!OnTheWay
<1> QED BY <1>2, <1>3, Zenon DEF FilterInv

LEMMA PartKeeps ==
  ASSUME F!FilterBounds, FilterInv, F!TakePart
  PROVE  FilterInv'
<1>1. UNCHANGED <<input, stdin, flag0, x, xnum, numactive, text, stdout, filter>> /\ filter # "died"
  BY DEF F!TakePart
<1>2. partial' = partial \o inbuf /\ inbuf' = <<>>
  BY DEF F!TakePart
<1>3. FilterTypes'
  <2>1. partial' \in Seq(Tokens) BY <1>2, ConcatClosed DEF FilterInv, FilterTypes
  <2>2. inbuf' \in Seq(Tokens) /\ Len(inbuf') = 0 BY <1>2, EmptySeq
  <2>3. Len(inbuf') <= Size BY <2>2 DEF F!FilterBounds
  <2> QED BY <1>1, <2>1, <2>2, <2>3, Zenon DEF FilterInv, FilterTypes
<1>4. Apart' /\ F!ActiveCounted' /\ Asked' /\ AllRight'
  BY <1>1, Zenon DEF FilterInv, Apart, F!ActiveCounted, Asked, AllRight
<1>5. F!Whole'
  <2> DEFINE a == F!Flat(stdout) \o F!Flat(F!OnTheWay)
  <2>1. a \in Seq(Tokens) BY AllType DEF FilterInv
  <2>2. partial \in Seq(Tokens) /\ inbuf \in Seq(Tokens) /\ stdin \in Seq(Tokens)
    BY DEF FilterInv, FilterTypes
  <2>3. ((a \o (partial \o inbuf)) \o <<>>) \o stdin = ((a \o partial) \o inbuf) \o stdin
    <3> HIDE DEF a
    <3>1. Joins(a, partial, inbuf, stdin, stdin) BY <2>1, <2>2, Joining
    <3> QED BY <3>1, Zenon DEF Joins
  <2>4. F!OnTheWay' = F!OnTheWay BY <1>1, Zenon DEF F!OnTheWay
  <2>5. ((a \o partial) \o inbuf) \o stdin = input
    BY <1>1, Zenon DEF FilterInv, F!Whole
  <2>6. F!Flat(stdout') = F!Flat(stdout) /\ F!Flat(F!OnTheWay') = F!Flat(F!OnTheWay)
    BY <1>1, <2>4, Zenon
  <2>7. ((a \o partial') \o inbuf') \o stdin' = input'
    BY <1>1, <1>2, <2>3, <2>5, Zenon
  <2> QED BY <2>6, <2>7, <1>1, <2>4, Zenon DEF F!Whole, F!Flat
<1> QED BY <1>3, <1>4, <1>5, Zenon DEF FilterInv

(* dnsfilter.c:132-199: the first line leaves.                             *)
LEMMA WriteKeeps ==
  ASSUME F!FilterBounds, FilterInv, F!Write
  PROVE  FilterInv'
<1> DEFINE line == text[x[1].cell]
<1>1. UNCHANGED <<input, stdin, inbuf, partial, flag0, numactive, text, filter>> /\ filter # "died"
  BY DEF F!Write
<1>2. stdout' = Append(stdout, line) /\ x' = F!Moved /\ xnum' = xnum - 1
  BY DEF F!Write
<1>3. xnum \in 1..xmax /\ xmax \in Nat /\ 1 \in 1..xmax /\ 1 \in 1..xnum /\ ~x[1].active /\ xnum' \in 0..xmax
  BY <1>2 DEF F!Write, F!Ready, FilterInv, FilterTypes, F!FilterBounds
<1>4. x \in [1..xmax -> TextSlots] /\ text \in [1..xmax -> TextLines] /\ stdout \in Seq(TextLines)
  BY DEF FilterInv, FilterTypes
<1>5. line \in TextLines /\ x[1].cell \in 1..xmax
  BY <1>3, <1>4 DEF TextSlots
<1>6. x' = [i \in 1..xmax |-> IF i < xnum THEN x[i + 1] ELSE IF i = xnum THEN x[1] ELSE x[i]]
  BY <1>2, Zenon DEF F!Moved
<1>7. \A i \in 1..xmax : x'[i] = IF i < xnum THEN x[i + 1] ELSE IF i = xnum THEN x[1] ELSE x[i]
  BY <1>6, Zenon
<1>8. \A i \in 1..xmax : i < xnum => i + 1 \in 1..xmax
  BY <1>3
<1>9. x' \in [1..xmax -> TextSlots]
  BY <1>3, <1>4, <1>6, <1>8
<1>10. stdout' \in Seq(TextLines) /\ Len(stdout') = Len(stdout) + 1 /\ Len(stdout) \in Nat
       /\ (\A i \in 1..Len(stdout) : stdout'[i] = stdout[i]) /\ stdout'[Len(stdout) + 1] = line
  <2> HIDE DEF line
  <2> QED BY <1>2, <1>4, <1>5, AppendProperties, LenProperties
<1> HIDE DEF line
<1>11. FilterTypes'
  BY <1>1, <1>3, <1>9, <1>10, Zenon DEF FilterInv, FilterTypes
<1>12. Apart'
  <2> SUFFICES ASSUME NEW i \in 1..xmax, NEW j \in 1..xmax, x'[i].cell = x'[j].cell PROVE i = j
    BY DEF Apart
  <2>1. \A k, m \in 1..xmax : x[k].cell = x[m].cell => k = m
    BY DEF FilterInv, Apart
  <2> DEFINE from(k) == IF k < xnum THEN k + 1 ELSE IF k = xnum THEN 1 ELSE k
  <2>2. \A k \in 1..xmax : from(k) \in 1..xmax /\ x'[k] = x[from(k)]
    BY <1>3, <1>7
  <2>3. from(i) = from(j)
    BY <2>1, <2>2
  <2> QED BY <1>3, <2>3
<1>13. Asked'
  <2>1. \A i \in 1..xmax : \E k \in 1..xmax : x'[i] = x[k]
    BY <1>3, <1>7, <1>8
  <2> QED BY <1>1, <2>1, Zenon DEF FilterInv, Asked
<1>14. AllRight'
  <2>1. \A i \in 1..xnum : NamedRight(text[x[i].cell])
    BY DEF FilterInv, AllRight
  <2>2. \A i \in 1..xnum' : x'[i] = x[i + 1] /\ i + 1 \in 1..xnum
    BY <1>2, <1>3, <1>7
  <2>3. \A i \in 1..xnum' : NamedRight(text'[x'[i].cell])
    BY <1>1, <2>1, <2>2, Zenon
  <2>4. \A i \in 1..Len(stdout) : NamedRight(stdout[i])
    BY DEF FilterInv, AllRight
  <2>5. NamedRight(line)
    BY <1>3, <2>1, Zenon DEF line
  <2>6. \A i \in 1..Len(stdout') : i \in 1..Len(stdout) \/ i = Len(stdout) + 1
    BY <1>10
  <2>7. \A i \in 1..Len(stdout') : NamedRight(stdout'[i])
    BY <1>10, <2>4, <2>5, <2>6, Zenon
  <2> QED BY <2>3, <2>7, Zenon DEF AllRight
<1>15. F!ActiveCounted'
  <2> DEFINE A == {i \in 1..xmax : x[i].active}
             B == {i \in 1..xmax : x'[i].active}
  <2>1. \A i \in xnum + 1..xmax : ~x[i].active
    BY DEF FilterInv, F!ActiveCounted
  <2>2. \A i \in xnum'+ 1..xmax : ~x'[i].active
    <3> SUFFICES ASSUME NEW i \in xnum' + 1..xmax PROVE ~x'[i].active
      OBVIOUS
    <3>1. i \in 1..xmax /\ ~(i < xnum) /\ (i = xnum \/ i \in xnum + 1..xmax)
      BY <1>2, <1>3
    <3>2. CASE i = xnum
      <4>1. x'[i] = x[1] BY <1>7, <3>1, <3>2, Zenon
      <4> QED BY <1>3, <4>1, Zenon
    <3>3. CASE i # xnum
      <4>1. x'[i] = x[i] BY <1>7, <3>1, <3>3, Zenon
      <4> QED BY <2>1, <3>1, <3>3, <4>1, Zenon
    <3> QED BY <3>2, <3>3
  <2>3. A \in SUBSET (2..xnum) /\ B \in SUBSET (1..xnum - 1)
    <3>1. \A i \in 1..xmax : i \in 2..xnum \/ i = 1 \/ i \in xnum + 1..xmax BY <1>3
    <3>2. \A i \in 1..xmax : i \in 1..xnum - 1 \/ i \in xnum' + 1..xmax BY <1>2, <1>3
    <3>3. A \in SUBSET (2..xnum) BY <1>3, <2>1, <3>1, Zenon
    <3>4. B \in SUBSET (1..xnum - 1) BY <2>2, <3>2, Zenon
    <3> QED BY <3>3, <3>4
  <2>4. \A i \in 1..xnum - 1 : i \in B <=> i + 1 \in A
    <3>1. \A i \in 1..xnum - 1 : i \in 1..xmax /\ i + 1 \in 1..xmax /\ i < xnum BY <1>3
    <3> QED BY <1>7, <3>1, Zenon
  <2> DEFINE f == [i \in B |-> i + 1]
  <2> HIDE DEF A, B
  <2>5. IsFiniteSet(A) /\ IsFiniteSet(B)
    <3>2. 1 \in Int /\ 2 \in Int /\ xnum \in Int /\ xnum - 1 \in Int BY <1>3
    <3>1. IsFiniteSet(2..xnum) /\ IsFiniteSet(1..xnum - 1) BY <3>2, FS_Interval
    <3> QED BY <2>3, <3>1, FS_Subset
  <2>6. Cardinality(A) = Cardinality(B)
    <3>1. f \in Bijection(B, A)
      <4>1. \A i \in B : i + 1 \in A BY <2>3, <2>4
      <4>2. \A j \in A : j - 1 \in B /\ f[j - 1] = j
        <5>1. \A j \in A : j - 1 \in 1..xnum - 1 /\ (j - 1) + 1 = j BY <1>3, <2>3
        <5>2. \A j \in A : j - 1 \in B BY <2>4, <5>1
        <5> QED BY <5>1, <5>2
      <4>3. \A i, j \in B : f[i] = f[j] => i = j BY <2>3
      <4>4. f \in [B -> A] BY <4>1
      <4> QED BY <4>2, <4>3, <4>4 DEF Bijection, Injection, Surjection, IsInjective
    <3>2. ExistsBijection(B, A) BY <3>1, Zenon DEF ExistsBijection
    <3> QED BY <2>5, <3>2, FS_Bijection
  <2>7. numactive = Cardinality(A) /\ numactive <= maxactive
    BY SameCount, Zenon DEF FilterInv, F!ActiveCounted, A
  <2>8. numactive' = Cardinality(B) /\ numactive' <= maxactive
    BY <1>1, <2>6, <2>7, Zenon
  <2> QED BY <2>2, <2>8, SameCount, Zenon DEF F!ActiveCounted, B
<1>16. F!Whole'
  <2> DEFINE rest == Way(text, x', xnum - 1)
  <2>1. F!OnTheWay = Way(text, x, xnum) /\ F!OnTheWay' = rest
    BY <1>1, <1>2, Zenon DEF F!OnTheWay, Way
  <2>2. F!OnTheWay \in Seq(TextLines) /\ Len(F!OnTheWay) = xnum /\ \A i \in 1..xnum : F!OnTheWay[i] = text[x[i].cell]
    BY <1>3, <1>4, <2>1, WayType DEF FilterInv, FilterTypes
  <2>3. rest \in Seq(TextLines) /\ Len(rest) = xnum - 1 /\ \A i \in 1..xnum - 1 : rest[i] = text[x'[i].cell]
    BY <1>2, <1>3, <1>4, <1>9, WayType
  <2>4. \A i \in 1..xnum - 1 : i + 1 \in 1..xnum /\ i \in 1..xmax /\ i < xnum
    BY <1>3
  <2> HIDE DEF rest
  <2>5. \A i \in 1..Len(rest) : rest[i] = F!OnTheWay[i + 1]
    <3> SUFFICES ASSUME NEW i \in 1..xnum - 1 PROVE rest[i] = F!OnTheWay[i + 1]
      BY <2>3
    <3>1. i + 1 \in 1..xnum /\ i \in 1..xmax /\ i < xnum BY <2>4
    <3>2. x'[i] = x[i + 1] BY <1>7, <3>1, Zenon
    <3>3. rest[i] = text[x[i + 1].cell] BY <2>3, <3>2, Zenon
    <3> QED BY <2>2, <3>1, <3>3, Zenon
  <2>6. Len(F!OnTheWay) = Len(rest) + 1
    BY <1>3, <2>2, <2>3
  <2>7. F!Flat(F!OnTheWay) = F!Written(F!OnTheWay[1]) \o F!Flat(rest)
    BY <2>2, <2>3, <2>5, <2>6, FlatFirst
  <2>8. F!OnTheWay[1] = line
    BY <1>3, <2>2, Zenon DEF line
  <2>9. F!Flat(stdout') = F!Flat(stdout) \o F!Written(line)
    BY <1>4, <1>10, FlatLast
  <2>10. F!Flat(stdout) \in Seq(Tokens) /\ F!Flat(rest) \in Seq(Tokens) /\ F!Written(line) \in Seq(Tokens)
    BY <1>4, <1>5, <2>3, FlatType, WrittenType
  <2>11. Associate(F!Flat(stdout), F!Written(line), F!Flat(rest))
    BY <2>10, Associative
  <2>12. F!Flat(stdout') \o F!Flat(rest) = F!Flat(stdout) \o F!Flat(F!OnTheWay)
    BY <2>7, <2>8, <2>9, <2>11, Zenon DEF Associate
  <2>13. F!Flat(stdout) \o F!Flat(F!OnTheWay) \o partial \o inbuf \o stdin = input
    BY <1>1, Zenon DEF FilterInv, F!Whole
  <2>14. F!Flat(stdout') \o F!Flat(rest) \o partial' \o inbuf' \o stdin' = input'
    BY <1>1, <2>12, <2>13, Zenon
  <2>15. F!Flat(F!OnTheWay)' = F!Flat(rest) /\ F!Flat(stdout)' = F!Flat(stdout')
    BY <2>1, Zenon DEF F!Flat
  <2> QED BY <2>14, <2>15, Zenon DEF F!Whole
<1> QED BY <1>11, <1>12, <1>13, <1>14, <1>15, <1>16, Zenon DEF FilterInv

LEMMA SplitAt ==
  ASSUME NEW Element, NEW s \in Seq(Element), NEW n \in 0..Len(s)
  PROVE  /\ SubSeq(s, 1, n) \in Seq(Element) /\ SubSeq(s, n + 1, Len(s)) \in Seq(Element)
         /\ Len(SubSeq(s, 1, n)) = n /\ Len(SubSeq(s, n + 1, Len(s))) = Len(s) - n
         /\ SubSeq(s, 1, n) \o SubSeq(s, n + 1, Len(s)) = s
<1>1. Len(s) \in Nat /\ \A i \in 1..Len(s) : s[i] \in Element
  BY LenProperties, ElementOfSeq
<1>2. SubSeq(s, 1, n) \in Seq(Element) /\ Len(SubSeq(s, 1, n)) = n
  <2>1. n \in Int /\ \A i \in 1..n : s[i] \in Element BY <1>1
  <2>2. Len(SubSeq(s, 1, n)) = IF 1 <= n THEN n - 1 + 1 ELSE 0
    BY <2>1, SubSeqProperties
  <2> QED BY <1>1, <2>1, <2>2, SubSeqProperties
<1>3. SubSeq(s, n + 1, Len(s)) \in Seq(Element) /\ Len(SubSeq(s, n + 1, Len(s))) = Len(s) - n
  <2>1. n + 1 \in Int /\ Len(s) \in Int /\ \A i \in n + 1..Len(s) : s[i] \in Element BY <1>1
  <2>2. Len(SubSeq(s, n + 1, Len(s))) = IF n + 1 <= Len(s) THEN Len(s) - (n + 1) + 1 ELSE 0
    BY <2>1, SubSeqProperties
  <2> QED BY <1>1, <2>1, <2>2, SubSeqProperties
<1>4. SubSeq(s, 1, n) \o SubSeq(s, n + 1, Len(s)) = s
  <2>1. 1 \in 1..Len(s) + 1 /\ n \in 1 - 1..Len(s) /\ Len(s) \in n..Len(s) BY <1>1
  <2>2. SubSeq(s, 1, n) \o SubSeq(s, n + 1, Len(s)) = SubSeq(s, 1, Len(s))
    BY <2>1, ConcatAdjacentSubSeq
  <2> QED BY <2>2, SubSeqFull
<1> QED BY <1>2, <1>3, <1>4

LEMMA PreparedRight ==
  ASSUME NEW line \in Seq(Tokens)
  PROVE  /\ F!Prepared(line) \in TextLines /\ F!Written(F!Prepared(line)) = line /\ NamedRight(F!Prepared(line))
         /\ [F!Prepared(line) EXCEPT !.middle = <<":error">>] \in TextLines
         /\ F!Written([F!Prepared(line) EXCEPT !.middle = <<":error">>]) = line
         /\ F!Scans(F!Left(line)) => NamedRight([F!Prepared(line) EXCEPT !.middle = <<":error">>])
         /\ F!Prepared(line).left = F!Left(line)
<1> DEFINE right == SubSeq(line, Len(F!Left(line)) + 1, Len(line))
           ready == [left |-> F!Left(line), middle |-> <<>>, right |-> right]
           failed == [left |-> F!Left(line), middle |-> <<":error">>, right |-> right]
<1>1. F!Left(line) \in Seq(Tokens) /\ right \in Seq(Tokens) /\ F!Left(line) \o right = line
  BY LeftWhole
<1>2. F!Prepared(line) = ready
  BY Zenon DEF F!Prepared
<1> HIDE DEF right
<1>3. [ready EXCEPT !.middle = <<":error">>] = failed
  OBVIOUS
<1>4. <<>> \in Middles /\ <<":error">> \in Middles
  BY Zenon DEF Middles
<1>5. ready \in TextLines /\ failed \in TextLines
  BY <1>1, <1>4, Zenon DEF TextLines
<1>6. ready.left = F!Left(line) /\ ready.right = right /\ ready.middle = <<>>
  BY Zenon
<1>7. failed.left = F!Left(line) /\ failed.right = right /\ failed.middle = <<":error">>
  BY Zenon
<1>8. F!Written(ready) = line /\ F!Written(failed) = line
  BY <1>1, <1>6, <1>7, Zenon DEF F!Written
<1>9. NamedRight(ready)
  BY <1>6, Zenon DEF NamedRight
<1>10. F!Scans(F!Left(line)) => NamedRight(failed)
  BY <1>7, Zenon DEF NamedRight
<1> HIDE DEF ready, failed
<1> QED BY <1>2, <1>3, <1>5, <1>6, <1>8, <1>9, <1>10, Zenon

(* dnsfilter.c:143-199: what a line that is taken does to the slots.       *)
Taken(line, cell) ==
  /\ x' \in [1..xmax -> TextSlots] /\ text' \in [1..xmax -> TextLines]
  /\ \A i \in 1..xmax : x'[i].cell = x[i].cell
  /\ \A i \in 1..xmax : i # xnum + 1 => x'[i] = x[i]
  /\ \A c \in 1..xmax : c # cell => text'[c] = text[c]
  /\ F!Written(text'[cell]) = line /\ NamedRight(text'[cell])
  /\ xnum' = xnum + 1
  /\ IF x'[xnum + 1].active
     THEN numactive' = numactive + 1 /\ x'[xnum + 1].ip \in Address /\ F!Scans(text'[cell].left) /\ text'[cell].left[1] = x'[xnum + 1].ip
     ELSE numactive' = numactive
  /\ filter' = filter

LEMMA LineTaken ==
  ASSUME F!FilterBounds, FilterInv, F!TakeLine, filter' # "died", NEW line, line = partial \o SubSeq(inbuf, 1, F!NewLineAt),
         line \in Seq(Tokens)
  PROVE  Taken(line, x[xnum + 1].cell)
<1> DEFINE next == xnum + 1
           cell == x[xnum + 1].cell
<1>1. x \in [1..xmax -> TextSlots] /\ text \in [1..xmax -> TextLines] /\ next \in 1..xmax /\ cell \in 1..xmax
  <2>1. x \in [1..xmax -> TextSlots] /\ text \in [1..xmax -> TextLines]
    BY DEF FilterInv, FilterTypes
  <2>2. next \in 1..xmax
    BY DEF F!TakeLine, F!Room, FilterInv, FilterTypes, F!FilterBounds
  <2> QED BY <2>1, <2>2 DEF TextSlots
<1>2. F!Prepared(line) \in TextLines /\ F!Written(F!Prepared(line)) = line /\ NamedRight(F!Prepared(line)) /\ F!Prepared(line).left = F!Left(line)
  BY PreparedRight
<1> DEFINE broken == [F!Prepared(line) EXCEPT !.middle = <<":error">>]
<1>3. broken \in TextLines /\ F!Written(broken) = line /\ (F!Scans(F!Left(line)) => NamedRight(broken))
  BY PreparedRight
<1>4. \/ /\ text' = [text EXCEPT ![cell] = F!Prepared(line)]
         /\ x' = [x EXCEPT ![next].active = FALSE] /\ xnum' = xnum + 1
         /\ UNCHANGED <<numactive, filter>>
      \/ /\ F!Scans(F!Left(line))
         /\ text' = [text EXCEPT ![cell] = F!Prepared(line)]
         /\ x' = [x EXCEPT ![next].active = TRUE, ![next].ip = F!Left(line)[1]] /\ xnum' = xnum + 1
         /\ numactive' = numactive + 1 /\ UNCHANGED filter
      \/ /\ F!Scans(F!Left(line))
         /\ text' = [text EXCEPT ![cell] = [F!Prepared(line) EXCEPT !.middle = F!Middle("failed", F!NoIp)]]
         /\ x' = [x EXCEPT ![next].active = FALSE] /\ xnum' = xnum + 1
         /\ UNCHANGED <<numactive, filter>>
  BY Zenon DEF F!TakeLine
<1>5. F!Middle("failed", F!NoIp) = <<":error">>
  BY DEF F!Middle
<1>6. x[next] \in TextSlots
  BY <1>1
<1> HIDE DEF next, cell
<1>7. \A new : text' = [text EXCEPT ![cell] = new] =>
        text'[cell] = new /\ (\A c \in 1..xmax : c # cell => text'[c] = text[c])
        /\ (new \in TextLines => text' \in [1..xmax -> TextLines])
  BY <1>1
<1>8. CASE text' = [text EXCEPT ![cell] = F!Prepared(line)] /\ x' = [x EXCEPT ![next].active = FALSE]
           /\ xnum' = xnum + 1 /\ UNCHANGED <<numactive, filter>>
  <2>1. x'[next].active = FALSE /\ (\A i \in 1..xmax : x'[i].cell = x[i].cell)
        /\ (\A i \in 1..xmax : i # next => x'[i] = x[i]) /\ x' \in [1..xmax -> TextSlots]
    BY <1>1, <1>6, <1>8 DEF TextSlots
  <2>2. text'[cell] = F!Prepared(line) /\ (\A c \in 1..xmax : c # cell => text'[c] = text[c])
        /\ text' \in [1..xmax -> TextLines]
    BY <1>2, <1>7, <1>8, Zenon
  <2> QED BY <1>2, <1>8, <2>1, <2>2, Zenon DEF Taken, next, cell
<1>9. CASE /\ F!Scans(F!Left(line))
           /\ text' = [text EXCEPT ![cell] = F!Prepared(line)]
           /\ x' = [x EXCEPT ![next].active = TRUE, ![next].ip = F!Left(line)[1]] /\ xnum' = xnum + 1
           /\ numactive' = numactive + 1 /\ UNCHANGED filter
  <2>1. PICK a \in Address : F!Left(line)[1] = a
    BY <1>9, Zenon DEF F!Scans
  <2>3. x' = [x EXCEPT ![next].active = TRUE, ![next].ip = a]
    BY <1>9, <2>1, Zenon
  <2>4. x'[next].active = TRUE /\ x'[next].ip = a /\ (\A i \in 1..xmax : x'[i].cell = x[i].cell)
        /\ (\A i \in 1..xmax : i # next => x'[i] = x[i]) /\ x' \in [1..xmax -> TextSlots]
    BY <1>1, <1>6, <2>3 DEF TextSlots
  <2>5. text'[cell] = F!Prepared(line) /\ (\A c \in 1..xmax : c # cell => text'[c] = text[c])
        /\ text' \in [1..xmax -> TextLines]
    BY <1>2, <1>7, <1>9, Zenon
  <2>6. F!Written(text'[cell]) = line /\ NamedRight(text'[cell])
        /\ F!Scans(text'[cell].left) /\ text'[cell].left[1] = x'[next].ip
    BY <1>2, <1>9, <2>1, <2>4, <2>5, Zenon
  <2>7. xnum' = xnum + 1 /\ numactive' = numactive + 1 /\ filter' = filter
    BY <1>9, Zenon
  <2> QED BY <2>4, <2>5, <2>6, <2>7, Zenon DEF Taken, next, cell
<1>10. CASE /\ F!Scans(F!Left(line))
            /\ text' = [text EXCEPT ![cell] = [F!Prepared(line) EXCEPT !.middle = F!Middle("failed", F!NoIp)]]
            /\ x' = [x EXCEPT ![next].active = FALSE] /\ xnum' = xnum + 1
            /\ UNCHANGED <<numactive, filter>>
  <2>1. x'[next].active = FALSE /\ (\A i \in 1..xmax : x'[i].cell = x[i].cell)
        /\ (\A i \in 1..xmax : i # next => x'[i] = x[i]) /\ x' \in [1..xmax -> TextSlots]
    BY <1>1, <1>6, <1>10 DEF TextSlots
  <2>3. text' = [text EXCEPT ![cell] = broken]
    BY <1>5, <1>10, Zenon
  <2> HIDE DEF broken
  <2>2. text'[cell] = broken /\ (\A c \in 1..xmax : c # cell => text'[c] = text[c])
        /\ text' \in [1..xmax -> TextLines]
    BY <1>3, <1>7, <2>3, Zenon
  <2> QED BY <1>3, <1>10, <2>1, <2>2, Zenon DEF Taken, next, cell
<1> QED BY <1>4, <1>8, <1>9, <1>10, Zenon

LEMMA LineKeeps ==
  ASSUME F!FilterBounds, FilterInv, F!TakeLine
  PROVE  FilterInv'
<1> DEFINE n == F!NewLineAt
           piece == SubSeq(inbuf, 1, n)
           behind == SubSeq(inbuf, n + 1, Len(inbuf))
           line == partial \o piece
           cell == x[xnum + 1].cell
<1>0. /\ inbuf \in Seq(Tokens) /\ partial \in Seq(Tokens) /\ stdin \in Seq(Tokens) /\ stdout \in Seq(TextLines)
      /\ x \in [1..xmax -> TextSlots] /\ text \in [1..xmax -> TextLines] /\ Len(inbuf) <= Size /\ Len(inbuf) \in Nat
      /\ xnum \in 0..xmax /\ xmax \in Nat /\ numactive \in Nat
  BY LenProperties DEF FilterInv, FilterTypes, F!FilterBounds
<1>1. UNCHANGED <<input, stdin, flag0, stdout>> /\ filter = "lines" /\ partial' = <<>> /\ inbuf' = behind
  BY DEF F!TakeLine
<1>2. n \in 0..Len(inbuf)
  BY <1>0, NewLinePlace
<1> HIDE DEF n
<1>3. piece \in Seq(Tokens) /\ behind \in Seq(Tokens) /\ Len(behind) = Len(inbuf) - n /\ piece \o behind = inbuf
  BY <1>0, <1>2, SplitAt
<1> HIDE DEF piece, behind
<1>4. line \in Seq(Tokens)
  BY <1>0, <1>3, ConcatClosed
<1>5. xnum + 1 \in 1..xmax /\ cell \in 1..xmax
  <2>1. xnum + 1 \in 1..xmax
    BY <1>0 DEF F!TakeLine, F!Room
  <2> QED BY <1>0, <2>1 DEF TextSlots
<1>6. inbuf' \in Seq(Tokens) /\ partial' \in Seq(Tokens) /\ Len(inbuf') <= Size
  <2>1. Len(inbuf') <= Size BY <1>0, <1>1, <1>2, <1>3 DEF F!FilterBounds
  <2> QED BY <1>1, <1>3, <2>1, EmptySeq
<1>7. CASE filter' = "died"
  <2>1. UNCHANGED <<text, x, xnum, numactive>>
    BY <1>1, <1>7 DEF F!TakeLine
  <2>2. FilterTypes'
    BY <1>1, <1>6, <2>1, Zenon DEF FilterInv, FilterTypes
  <2>3. Apart' /\ F!ActiveCounted' /\ Asked' /\ AllRight'
    BY <1>1, <2>1, Zenon DEF FilterInv, Apart, F!ActiveCounted, Asked, AllRight
  <2>4. F!Whole' BY <1>7 DEF F!Whole
  <2> QED BY <2>2, <2>3, <2>4, Zenon DEF FilterInv
<1>8. CASE filter' # "died"
  <2>1. Taken(line, cell)
    BY <1>4, <1>8, LineTaken DEF line, piece, n, cell
  <2> HIDE DEF line, cell
  <2>2. /\ x' \in [1..xmax -> TextSlots] /\ text' \in [1..xmax -> TextLines]
        /\ \A i \in 1..xmax : x'[i].cell = x[i].cell
        /\ \A i \in 1..xmax : i # xnum + 1 => x'[i] = x[i]
        /\ \A c \in 1..xmax : c # cell => text'[c] = text[c]
        /\ F!Written(text'[cell]) = line /\ NamedRight(text'[cell])
        /\ xnum' = xnum + 1
    BY <2>1, Zenon DEF Taken
  <2>3. /\ filter' = filter
        /\ x'[xnum + 1].active => numactive' = numactive + 1 /\ x'[xnum + 1].ip \in Address
                                  /\ F!Scans(text'[cell].left) /\ text'[cell].left[1] = x'[xnum + 1].ip
        /\ ~x'[xnum + 1].active => numactive' = numactive
    BY <2>1, Zenon DEF Taken
  <2>4. numactive' \in Nat
    BY <1>0, <2>3
  <2>5. xnum' \in 0..xmax
    BY <1>0, <1>5, <2>2
  <2>6. FilterTypes'
    BY <1>0, <1>1, <1>6, <2>2, <2>4, <2>5, Zenon DEF FilterInv, FilterTypes
  <2>7. Apart'
    BY <2>2, Zenon DEF FilterInv, Apart
  <2>8. \A i \in 1..xmax : i # xnum + 1 => x[i].cell # cell /\ x[i].cell \in 1..xmax
    <3>1. \A i \in 1..xmax : x[i].cell \in 1..xmax BY <1>0 DEF TextSlots
    <3> QED BY <1>5, <3>1, Zenon DEF FilterInv, Apart, cell
  <2>9. \A i \in 1..xmax : i # xnum + 1 => text'[x'[i].cell] = text[x[i].cell]
    BY <2>2, <2>8, Zenon
  <2>10. x'[xnum + 1].cell = cell
    BY <1>5, <2>2, Zenon DEF cell
  <2>11. Asked'
    <3> SUFFICES ASSUME NEW i \in 1..xmax, x'[i].active
                 PROVE  x'[i].ip \in Address /\ F!Scans(text'[x'[i].cell].left) /\ text'[x'[i].cell].left[1] = x'[i].ip
      BY Zenon DEF Asked
    <3>1. CASE i = xnum + 1
      BY <2>3, <2>10, <3>1, Zenon
    <3>2. CASE i # xnum + 1
      BY <2>2, <2>9, <3>2, Zenon DEF FilterInv, Asked
    <3> QED BY <3>1, <3>2
  <2>12. AllRight'
    <3>1. \A i \in 1..xnum' : i = xnum + 1 \/ (i \in 1..xnum /\ i \in 1..xmax /\ i # xnum + 1)
      BY <1>0, <1>5, <2>2
    <3>2. \A i \in 1..xnum' : NamedRight(text'[x'[i].cell])
      BY <2>2, <2>9, <2>10, <3>1, Zenon DEF FilterInv, AllRight
    <3> QED BY <1>1, <3>2, Zenon DEF FilterInv, AllRight
  <2>13. F!ActiveCounted'
    <3> DEFINE A == {i \in 1..xmax : x[i].active}
               B == {i \in 1..xmax : x'[i].active}
    <3>1. \A i \in xnum + 1..xmax : ~x[i].active
      BY DEF FilterInv, F!ActiveCounted
    <3>2. xnum + 1 \notin A
      BY <1>0, <1>5, <3>1
    <3>3. B = IF x'[xnum + 1].active THEN A \cup {xnum + 1} ELSE A
      BY <1>5, <2>2, <3>2
    <3>4. \A i \in xnum' + 1..xmax : ~x'[i].active
      <4>1. \A i \in xnum' + 1..xmax : i \in xnum + 1..xmax /\ i \in 1..xmax /\ i # xnum + 1
        BY <1>0, <2>2
      <4> QED BY <2>2, <3>1, <4>1, Zenon
    <3>5. A \in SUBSET (1..xmax)
      BY Zenon
    <3>6. numactive = Cardinality(A) /\ numactive < maxactive
      BY SameCount, Zenon DEF FilterInv, F!ActiveCounted, F!TakeLine, F!Room
    <3> HIDE DEF A, B
    <3>7. IsFiniteSet(A)
      <4>1. 1 \in Int /\ xmax \in Int BY <1>0
      <4>2. IsFiniteSet(1..xmax) BY <4>1, FS_Interval
      <4> QED BY <3>5, <4>2, FS_Subset
    <3>8. Cardinality(A \cup {xnum + 1}) = Cardinality(A) + 1
      BY <3>2, <3>7, FS_AddElement
    <3>9. numactive' = Cardinality(B)
      BY <2>3, <3>3, <3>6, <3>8
    <3>10. numactive' <= maxactive
      BY <1>0, <2>3, <3>6 DEF F!FilterBounds
    <3> QED BY <3>4, <3>9, <3>10, SameCount, Zenon DEF F!ActiveCounted, B
  <2>14. F!Whole'
    <3> DEFINE new == Way(text', x', xnum')
    <3>1. F!OnTheWay = Way(text, x, xnum) /\ F!OnTheWay' = new
      BY Zenon DEF F!OnTheWay, Way
    <3>2. F!OnTheWay \in Seq(TextLines) /\ Len(F!OnTheWay) = xnum /\ \A i \in 1..xnum : F!OnTheWay[i] = text[x[i].cell]
      BY <1>0, <3>1, WayType
    <3>3. new \in Seq(TextLines) /\ Len(new) = xnum + 1 /\ \A i \in 1..xnum + 1 : new[i] = text'[x'[i].cell]
      BY <1>0, <2>2, <2>5, WayType
    <3> HIDE DEF new
    <3>4. \A i \in 1..Len(F!OnTheWay) : new[i] = F!OnTheWay[i]
      <4>1. \A i \in 1..xnum : i \in 1..xnum + 1 /\ i # xnum + 1 /\ i \in 1..xmax
        BY <1>0, <1>5
      <4> QED BY <2>9, <3>2, <3>3, <4>1, Zenon
    <3>5. Len(new) = Len(F!OnTheWay) + 1 /\ xnum + 1 \in 1..xnum + 1
      BY <1>0, <3>2, <3>3
    <3>6. F!Flat(new) = F!Flat(F!OnTheWay) \o F!Written(new[Len(F!OnTheWay) + 1])
      BY <3>2, <3>3, <3>4, <3>5, FlatLast
    <3>7. F!Written(new[Len(F!OnTheWay) + 1]) = line
      BY <2>2, <2>10, <3>2, <3>3, <3>5, Zenon
    <3> DEFINE a == F!Flat(stdout)
               b == F!Flat(F!OnTheWay)
    <3>8. a \in Seq(Tokens) /\ b \in Seq(Tokens)
      BY <1>0, <3>2, FlatType
    <3>9. Joins(a, b, partial, piece, behind)
      <4> HIDE DEF a, b
      <4> QED BY <1>0, <1>3, <3>8, Joining
    <3>10. ((a \o F!Flat(new)) \o <<>>) \o behind = ((a \o b) \o partial) \o inbuf
      BY <1>3, <3>6, <3>7, <3>9, Zenon DEF Joins, line
    <3>11. a \o b \o partial \o inbuf \o stdin = input
      BY <1>1, Zenon DEF FilterInv, F!Whole
    <3>12. F!Flat(stdout') \o F!Flat(new) \o partial' \o inbuf' \o stdin' = input'
      BY <1>1, <3>10, <3>11, Zenon
    <3>13. F!Flat(F!OnTheWay)' = F!Flat(new) /\ F!Flat(stdout)' = F!Flat(stdout')
      BY <3>1, Zenon DEF F!Flat
    <3> QED BY <3>12, <3>13, Zenon DEF F!Whole
  <2> QED BY <2>6, <2>7, <2>11, <2>12, <2>13, <2>14, Zenon DEF FilterInv
<1> QED BY <1>7, <1>8

(* dnsfilter.c:132-161: an exchange that ends changes the middle of its    *)
(* own line.                                                               *)
LEMMA MiddleRight ==
  ASSUME NEW outcome \in F!Outcome \ {"wait"}, NEW ip \in Address, NEW line \in TextLines, F!Scans(line.left), line.left[1] = ip
  PROVE  /\ [line EXCEPT !.middle = F!Middle(outcome, ip)] \in TextLines
         /\ F!Written([line EXCEPT !.middle = F!Middle(outcome, ip)]) = F!Written(line)
         /\ [line EXCEPT !.middle = F!Middle(outcome, ip)].left = line.left
         /\ NamedRight([line EXCEPT !.middle = F!Middle(outcome, ip)])
<1> DEFINE mid == F!Middle(outcome, ip)
           new == [line EXCEPT !.middle = mid]
<1>1. mid \in {<<>>, <<":error">>, <<"=", ":error">>, <<"=", ip>>}
  BY DEF F!Outcome, F!Middle
<1>2. mid \in Middles
  BY <1>1, Zenon DEF Middles
<1> HIDE DEF mid
<1>3. line.left \in Seq(Tokens) /\ line.right \in Seq(Tokens) /\ line = [left |-> line.left, middle |-> line.middle, right |-> line.right]
  BY DEF TextLines
<1>4. new.left = line.left /\ new.right = line.right /\ new.middle = mid
  BY DEF TextLines
<1>5. new = [left |-> line.left, middle |-> mid, right |-> line.right]
  BY DEF TextLines
<1>6. new \in TextLines
  BY <1>2, <1>3, <1>5, Zenon DEF TextLines
<1>7. F!Written(new) = F!Written(line)
  BY <1>4, Zenon DEF F!Written
<1>8. line.left[1] = ip
  OBVIOUS
<1>9. NamedRight(new)
  BY <1>1, <1>4, <1>8, Zenon DEF NamedRight
<1> QED BY <1>4, <1>6, <1>7, <1>9, Zenon DEF mid

ExchangeEnds(line, new) == new \in TextLines /\ F!Written(new) = F!Written(line) /\ new.left = line.left /\ NamedRight(new)
MiddleFits(outcome, ip, line) == ExchangeEnds(line, [line EXCEPT !.middle = F!Middle(outcome, ip)])

LEMMA MiddleEnds ==
  \A outcome \in F!Outcome \ {"wait"}, ip \in Address, line \in TextLines :
     F!Scans(line.left) /\ line.left[1] = ip => MiddleFits(outcome, ip, line)
<1> SUFFICES ASSUME NEW outcome \in F!Outcome \ {"wait"}, NEW ip \in Address, NEW line \in TextLines, F!Scans(line.left), line.left[1] = ip
             PROVE  MiddleFits(outcome, ip, line)
  BY Zenon
<1>1. /\ [line EXCEPT !.middle = F!Middle(outcome, ip)] \in TextLines
      /\ F!Written([line EXCEPT !.middle = F!Middle(outcome, ip)]) = F!Written(line)
      /\ [line EXCEPT !.middle = F!Middle(outcome, ip)].left = line.left
      /\ NamedRight([line EXCEPT !.middle = F!Middle(outcome, ip)])
  BY MiddleRight
<1> QED BY <1>1, Zenon DEF MiddleFits, ExchangeEnds

LEMMA InputKept ==
  ASSUME F!FilterBounds, FilterInv, F!Input
  PROVE  /\ inbuf' \in Seq(Tokens) /\ stdin' \in Seq(Tokens) /\ flag0' \in BOOLEAN /\ Len(inbuf') <= Size
         /\ inbuf' \o stdin' = inbuf \o stdin
<1>0. /\ inbuf \in Seq(Tokens) /\ stdin \in Seq(Tokens) /\ flag0 \in BOOLEAN /\ Len(inbuf) <= Size
      /\ Len(inbuf) \in Nat /\ Len(stdin) \in Nat
  BY LenProperties DEF FilterInv, FilterTypes
<1>1. CASE UNCHANGED <<inbuf, stdin, flag0>>
  BY <1>0, <1>1, Zenon
<1>2. CASE flag0' = FALSE /\ UNCHANGED <<inbuf, stdin>>
  BY <1>0, <1>2, Zenon
<1>3. CASE flag0 /\ \E n \in 1..Len(stdin) : n <= Size - Len(inbuf) /\ F!Read(n)
  <2>1. PICK n \in 1..Len(stdin) : n <= Size - Len(inbuf) /\ F!Read(n)
    BY <1>3
  <2>2. n \in 0..Len(stdin) /\ n \in Nat
    BY <1>0
  <2> DEFINE piece == SubSeq(stdin, 1, n)
             behind == SubSeq(stdin, n + 1, Len(stdin))
  <2>3. piece \in Seq(Tokens) /\ behind \in Seq(Tokens) /\ Len(piece) = n /\ piece \o behind = stdin
    BY <1>0, <2>2, SplitAt
  <2>4. inbuf' = inbuf \o piece /\ stdin' = behind /\ flag0' = flag0
    BY <2>1, Zenon DEF F!Read
  <2> HIDE DEF piece, behind
  <2>5. inbuf' \in Seq(Tokens) /\ Len(inbuf') = Len(inbuf) + n
    BY <1>0, <2>3, <2>4, ConcatProperties
  <2>6. Associate(inbuf, piece, behind)
    BY <1>0, <2>3, Associative
  <2>7. inbuf' \o stdin' = inbuf \o stdin
    BY <2>3, <2>4, <2>6, Zenon DEF Associate
  <2>8. Len(inbuf') <= Size
    BY <1>0, <2>1, <2>2, <2>5 DEF F!FilterBounds
  <2> QED BY <1>0, <2>3, <2>4, <2>5, <2>7, <2>8, Zenon
<1> QED BY <1>1, <1>2, <1>3 DEF F!Input

LEMMA PollKeeps ==
  ASSUME F!FilterBounds, FilterInv, F!Poll
  PROVE  FilterInv'
<1>0. /\ inbuf \in Seq(Tokens) /\ partial \in Seq(Tokens) /\ stdin \in Seq(Tokens) /\ stdout \in Seq(TextLines)
      /\ x \in [1..xmax -> TextSlots] /\ text \in [1..xmax -> TextLines]
      /\ xnum \in 0..xmax /\ xmax \in Nat /\ numactive \in Nat
  BY DEF FilterInv, FilterTypes, F!FilterBounds
<1>1. UNCHANGED <<input, partial, xnum, stdout>> /\ filter = "poll" /\ filter' = "lines" /\ F!Input /\ F!Exchanges
  BY DEF F!Poll
<1>2. /\ inbuf' \in Seq(Tokens) /\ stdin' \in Seq(Tokens) /\ flag0' \in BOOLEAN /\ Len(inbuf') <= Size
      /\ inbuf' \o stdin' = inbuf \o stdin
  BY <1>1, InputKept
<1>3. PICK r \in [F!Active -> F!Outcome] :
        LET ended == {i \in F!Active : r[i] # "wait"} IN
        /\ text' = [c \in 1..xmax |->
                      IF \E i \in ended : x[i].cell = c
                      THEN LET i == CHOOSE k \in ended : x[k].cell = c
                           IN [text[c] EXCEPT !.middle = F!Middle(r[i], x[i].ip)]
                      ELSE text[c]]
        /\ x' = [i \in 1..xmax |-> IF i \in ended THEN [x[i] EXCEPT !.active = FALSE] ELSE x[i]]
        /\ numactive' = numactive - F!Cardinality(ended)
  BY <1>1, Zenon DEF F!Exchanges
<1> DEFINE ended == {i \in F!Active : r[i] # "wait"}
           A == {i \in 1..xmax : x[i].active}
           B == {i \in 1..xmax : x'[i].active}
<1>4. text' = [c \in 1..xmax |->
                 IF \E i \in ended : x[i].cell = c
                 THEN [text[c] EXCEPT !.middle = F!Middle(r[CHOOSE k \in ended : x[k].cell = c], x[CHOOSE k \in ended : x[k].cell = c].ip)]
                 ELSE text[c]]
  BY <1>3, Zenon
<1>5. x' = [i \in 1..xmax |-> IF i \in ended THEN [x[i] EXCEPT !.active = FALSE] ELSE x[i]]
  BY <1>3, Zenon
<1>6. numactive' = numactive - Cardinality(ended)
  BY <1>3, SameCount, Zenon
<1>7. \A i \in ended : i \in 1..xnum /\ x[i].active /\ r[i] \in F!Outcome \ {"wait"}
  BY Zenon DEF F!Active
<1>8. \A i \in 1..xnum : i \in 1..xmax
  BY <1>0
<1>9. \A i \in 1..xmax : x[i].cell \in 1..xmax
  BY <1>0 DEF TextSlots
<1> HIDE DEF ended, A, B
<1>10. \A i \in 1..xmax : x'[i].cell = x[i].cell /\ x'[i].ip = x[i].ip /\ (x'[i].active <=> x[i].active /\ i \notin ended)
       /\ x'[i] \in TextSlots
  <2> SUFFICES ASSUME NEW i \in 1..xmax
               PROVE  x'[i].cell = x[i].cell /\ x'[i].ip = x[i].ip /\ (x'[i].active <=> x[i].active /\ i \notin ended)
                      /\ x'[i] \in TextSlots
    OBVIOUS
  <2>1. x[i] \in TextSlots BY <1>0
  <2>2. x'[i] = IF i \in ended THEN [x[i] EXCEPT !.active = FALSE] ELSE x[i] BY <1>5, Zenon
  <2> QED BY <2>1, <2>2 DEF TextSlots
<1>11. x' \in [1..xmax -> TextSlots]
  <2>1. x' = [i \in 1..xmax |-> x'[i]] BY <1>5
  <2> QED BY <1>10, <2>1, Zenon
<1>12. \A i \in 1..xmax : i \notin ended => text'[x[i].cell] = text[x[i].cell]
  <2> SUFFICES ASSUME NEW i \in 1..xmax, i \notin ended PROVE text'[x[i].cell] = text[x[i].cell]
    OBVIOUS
  <2>1. ~\E k \in ended : x[k].cell = x[i].cell
    BY <1>7, <1>8, Zenon DEF FilterInv, Apart
  <2> QED BY <1>4, <1>9, <2>1, Zenon
<1>13. \A i \in ended : text'[x[i].cell] = [text[x[i].cell] EXCEPT !.middle = F!Middle(r[i], x[i].ip)]
  <2> SUFFICES ASSUME NEW i \in ended PROVE text'[x[i].cell] = [text[x[i].cell] EXCEPT !.middle = F!Middle(r[i], x[i].ip)]
    OBVIOUS
  <2> DEFINE k == CHOOSE j \in ended : x[j].cell = x[i].cell
  <2>1. k \in ended /\ x[k].cell = x[i].cell
    BY Zenon
  <2>2. k = i
    <3> HIDE DEF k
    <3> QED BY <1>7, <1>8, <2>1, Zenon DEF FilterInv, Apart
  <2>3. \E j \in ended : x[j].cell = x[i].cell
    BY Zenon
  <2>4. x[i].cell \in 1..xmax
    BY <1>7, <1>8, <1>9, Zenon
  <2>5. text'[x[i].cell] = [text[x[i].cell] EXCEPT !.middle = F!Middle(r[k], x[k].ip)]
    BY <1>4, <2>3, <2>4, Zenon
  <2> QED BY <2>2, <2>5, Zenon
<1>14. \A i \in ended : /\ text'[x[i].cell] \in TextLines /\ F!Written(text'[x[i].cell]) = F!Written(text[x[i].cell])
                        /\ text'[x[i].cell].left = text[x[i].cell].left /\ NamedRight(text'[x[i].cell])
  <2> SUFFICES ASSUME NEW i \in ended
               PROVE  /\ text'[x[i].cell] \in TextLines /\ F!Written(text'[x[i].cell]) = F!Written(text[x[i].cell])
                      /\ text'[x[i].cell].left = text[x[i].cell].left /\ NamedRight(text'[x[i].cell])
    OBVIOUS
  <2>1. i \in 1..xmax /\ x[i].active /\ r[i] \in F!Outcome \ {"wait"}
    BY <1>7, <1>8, Zenon
  <2>2. text[x[i].cell] \in TextLines
    BY <1>0, <1>9, <2>1
  <2>3. x[i].ip \in Address /\ F!Scans(text[x[i].cell].left) /\ text[x[i].cell].left[1] = x[i].ip
    BY <2>1, Zenon DEF FilterInv, Asked
  <2>4. MiddleFits(r[i], x[i].ip, text[x[i].cell])
    BY <2>1, <2>2, <2>3, MiddleEnds, Zenon
  <2>5. ExchangeEnds(text[x[i].cell], text'[x[i].cell])
    BY <1>13, <2>4, Zenon DEF MiddleFits
  <2> QED BY <2>5, Zenon DEF ExchangeEnds
<1>15. text' \in [1..xmax -> TextLines]
  <2>1. \A c \in 1..xmax : text'[c] \in TextLines
    <3> SUFFICES ASSUME NEW c \in 1..xmax PROVE text'[c] \in TextLines
      OBVIOUS
    <3>1. CASE \E i \in ended : x[i].cell = c
      BY <1>14, <3>1, Zenon
    <3>2. CASE ~\E i \in ended : x[i].cell = c
      <4>1. text'[c] = text[c] BY <1>4, <3>2, Zenon
      <4> QED BY <1>0, <4>1
    <3> QED BY <3>1, <3>2
  <2>2. text' = [c \in 1..xmax |-> text'[c]] BY <1>4
  <2> QED BY <2>1, <2>2, Zenon
<1>16. /\ A \in SUBSET (1..xmax) /\ ended \in SUBSET A /\ B = A \ ended
       /\ numactive = Cardinality(A) /\ numactive <= maxactive
  <2>1. A \in SUBSET (1..xmax) BY Zenon DEF A
  <2>2. ended \in SUBSET A BY <1>7, <1>8, Zenon DEF A
  <2>3. B = A \ ended BY <1>10, Zenon DEF A, B
  <2>4. numactive = Cardinality(A) /\ numactive <= maxactive
    BY SameCount, Zenon DEF FilterInv, F!ActiveCounted, A
  <2> QED BY <2>1, <2>2, <2>3, <2>4
<1>17. numactive' = Cardinality(B) /\ numactive' <= maxactive /\ numactive' \in Nat
  <2>1. IsFiniteSet(A)
    <3>1. 1 \in Int /\ xmax \in Int BY <1>0
    <3>2. IsFiniteSet(1..xmax) BY <3>1, FS_Interval
    <3> QED BY <1>16, <3>2, FS_Subset
  <2>2. IsFiniteSet(ended) /\ Cardinality(ended) \in Nat
    BY <1>16, <2>1, FS_Subset, FS_CardinalityType
  <2>3. IsFiniteSet(B) /\ Cardinality(B) = Cardinality(A) - Cardinality(A \cap ended)
    BY <1>16, <2>1, FS_Difference
  <2>4. A \cap ended = ended
    BY <1>16
  <2>5. Cardinality(B) \in Nat
    BY <2>3, FS_CardinalityType
  <2>6. numactive' = Cardinality(B)
    BY <1>6, <1>16, <2>3, <2>4, Zenon
  <2>7. Cardinality(B) <= numactive
    <3> DEFINE n == Cardinality(ended)
    <3>1. n \in Nat /\ Cardinality(B) = numactive - n
      BY <1>16, <2>2, <2>3, <2>4, Zenon
    <3> HIDE DEF n
    <3> QED BY <1>0, <2>5, <3>1
  <2>8. maxactive \in Nat
    BY DEF F!FilterBounds
  <2> QED BY <1>0, <1>16, <2>5, <2>6, <2>7, <2>8
<1>18. FilterTypes'
  BY <1>0, <1>1, <1>2, <1>11, <1>15, <1>17, Zenon DEF FilterInv, FilterTypes
<1>19. Apart'
  BY <1>10, Zenon DEF FilterInv, Apart
<1>20. F!ActiveCounted'
  <2>1. \A i \in xnum + 1..xmax : i \in 1..xmax BY <1>0
  <2>2. \A i \in xnum' + 1..xmax : ~x'[i].active
    BY <1>1, <1>10, <2>1, Zenon DEF FilterInv, F!ActiveCounted
  <2> QED BY <1>17, <2>2, SameCount, Zenon DEF F!ActiveCounted, B
<1>21. Asked'
  <2> SUFFICES ASSUME NEW i \in 1..xmax, x'[i].active
               PROVE  x'[i].ip \in Address /\ F!Scans(text'[x'[i].cell].left) /\ text'[x'[i].cell].left[1] = x'[i].ip
    BY Zenon DEF Asked
  <2> QED BY <1>10, <1>12, Zenon DEF FilterInv, Asked
<1>22. AllRight'
  <2>1. \A i \in 1..xnum' : NamedRight(text'[x'[i].cell])
    BY <1>1, <1>8, <1>10, <1>12, <1>14, Zenon DEF FilterInv, AllRight
  <2> QED BY <1>1, <2>1, Zenon DEF FilterInv, AllRight
<1>23. F!Whole'
  <2> DEFINE was == Way(text, x, xnum)
             new == Way(text', x', xnum)
  <2>1. F!OnTheWay = was /\ F!OnTheWay' = new
    BY <1>1, Zenon DEF F!OnTheWay, Way
  <2>2. was \in Seq(TextLines) /\ DOMAIN was = 1..xnum /\ \A i \in 1..xnum : was[i] = text[x[i].cell]
    BY <1>0, WayType
  <2>3. new \in Seq(TextLines) /\ DOMAIN new = 1..xnum /\ \A i \in 1..xnum : new[i] = text'[x'[i].cell]
    <3> DEFINE newX == x'
               newText == text'
    <3>1. newX \in [1..xmax -> TextSlots] /\ newText \in [1..xmax -> TextLines]
      BY <1>11, <1>15, Zenon
    <3> HIDE DEF newX, newText
    <3>2. Way(newText, newX, xnum) \in Seq(TextLines) /\ DOMAIN Way(newText, newX, xnum) = 1..xnum /\ \A i \in 1..xnum : Way(newText, newX, xnum)[i] = newText[newX[i].cell]
      <4>1. xnum \in 0..xmax /\ xmax \in Nat BY <1>0
      <4>2. \A buffers \in [1..xmax -> TextLines], slots \in [1..xmax -> TextSlots] :
              /\ Way(buffers, slots, xnum) \in Seq(TextLines) /\ DOMAIN Way(buffers, slots, xnum) = 1..xnum
              /\ \A i \in 1..xnum : Way(buffers, slots, xnum)[i] = buffers[slots[i].cell]
        BY <4>1, WayType
      <4> QED BY <3>1, <4>2, Zenon
    <3>3. Way(newText, newX, xnum) = new
      BY <1>1, Zenon DEF newX, newText
    <3> QED BY <3>2, <3>3, Zenon DEF newX, newText
  <2> HIDE DEF was, new
  <2>4. \A i \in DOMAIN new : F!Written(new[i]) = F!Written(was[i])
    <3> SUFFICES ASSUME NEW i \in 1..xnum PROVE F!Written(new[i]) = F!Written(was[i])
      BY <2>3, Zenon
    <3>1. i \in 1..xmax /\ x'[i].cell = x[i].cell
      BY <1>8, <1>10, Zenon
    <3>2. new[i] = text'[x[i].cell] /\ was[i] = text[x[i].cell]
      BY <2>2, <2>3, <3>1, Zenon
    <3>3. CASE i \in ended
      BY <1>14, <3>2, <3>3, Zenon
    <3>4. CASE i \notin ended
      <4>1. text'[x[i].cell] = text[x[i].cell] BY <1>12, <3>1, <3>4, Zenon
      <4> QED BY <3>2, <4>1, Zenon
    <3> QED BY <3>3, <3>4
  <2>5. F!Flat(new) = F!Flat(was)
    BY <2>2, <2>3, <2>4, FlatSame, Zenon
  <2> DEFINE p == F!Flat(stdout) \o F!Flat(was) \o partial
  <2>6. p \in Seq(Tokens)
    BY <2>1, AllType, Zenon DEF FilterInv
  <2>7. Associate(p, inbuf, stdin) /\ Associate(p, inbuf', stdin')
    <3> HIDE DEF p
    <3> QED BY <1>0, <1>2, <2>6, Associative
  <2>8. p \o inbuf' \o stdin' = p \o inbuf \o stdin
    BY <1>2, <2>7, Zenon DEF Associate
  <2>9. p \o inbuf \o stdin = input
    BY <1>1, <2>1, Zenon DEF FilterInv, F!Whole
  <2>10. F!Flat(stdout') \o F!Flat(new) \o partial' \o inbuf' \o stdin' = input'
    BY <1>1, <2>5, <2>8, <2>9, Zenon
  <2>11. F!Flat(F!OnTheWay)' = F!Flat(new) /\ F!Flat(stdout)' = F!Flat(stdout')
    BY <2>1, Zenon DEF F!Flat
  <2> QED BY <2>10, <2>11, Zenon DEF F!Whole
<1> QED BY <1>18, <1>19, <1>20, <1>21, <1>22, <1>23, Zenon DEF FilterInv

(* dnsfilter.c:67-211: for every text, whatever is read at a time, however *)
(* many slots and exchanges there may be and in whatever order these end,  *)
(* no token is lost, repeated or moved, exchanges are counted, and a name  *)
(* stands behind its own address.                                          *)
THEOREM FilterLines ==
  ASSUME F!FilterBounds
  PROVE  F!Init /\ [][F!Next]_F!vars => [](F!TypeOK /\ F!ActiveCounted /\ F!Whole /\ F!NameRight)
<1> DEFINE FilterMore == FilterInv /\ filter \in {"poll", "lines", "exit", "died"}
<1>1. F!Init => FilterMore
  BY FilterStarts DEF F!Init
<1>2. FilterMore /\ [F!Next]_F!vars => FilterMore'
  <2> SUFFICES ASSUME FilterMore, [F!Next]_F!vars PROVE FilterMore'
    OBVIOUS
  <2>1. filter' \in {"poll", "lines", "exit", "died"}
    BY DEF F!Next, F!Poll, F!Write, F!TakePart, F!TakeLine, F!Break, F!Exit, F!vars
  <2>2. CASE F!Poll BY <2>1, <2>2, PollKeeps
  <2>3. CASE F!Write BY <2>1, <2>3, WriteKeeps
  <2>4. CASE F!TakePart BY <2>1, <2>4, PartKeeps
  <2>5. CASE F!TakeLine BY <2>1, <2>5, LineKeeps
  <2>6. CASE F!Break \/ F!Exit BY <2>1, <2>6, ExitKeeps
  <2>7. CASE UNCHANGED F!vars
    <3>1. UNCHANGED <<input, stdin, inbuf, partial, flag0, x, xnum, numactive, text, stdout, filter>>
      BY <2>7 DEF F!vars
    <3>2. FilterTypes' /\ Apart' /\ F!ActiveCounted' /\ Asked' /\ AllRight'
      BY <3>1, Zenon DEF FilterInv, FilterTypes, Apart, F!ActiveCounted, Asked, AllRight
    <3>3. F!Whole'
      BY <3>1, Zenon DEF FilterInv, F!Whole, F!OnTheWay
    <3> QED BY <2>1, <3>2, <3>3, Zenon DEF FilterInv
  <2> QED BY <2>2, <2>3, <2>4, <2>5, <2>6, <2>7 DEF F!Next
<1>3. FilterMore => F!TypeOK /\ F!ActiveCounted /\ F!Whole /\ F!NameRight
  <2>1. FilterMore => F!TypeOK BY DEF FilterInv, FilterTypes, F!TypeOK
  <2>2. AllRight => F!NameRight BY Zenon DEF AllRight, F!NameRight, NamedRight
  <2> QED BY <2>1, <2>2, Zenon DEF FilterInv
<1> QED BY <1>1, <1>2, <1>3, PTL
-----------------------------------------------------------------------------
(* The programs together: each does what it does alone, or nothing.        *)
LEMMA ResolveAlone == ClientsSpec => R!Spec
<1>1. ClientsInit => R!Init BY DEF ClientsInit
<1>2. [ClientsNext]_clients => [R!Next]_R!vars
  BY DEF ClientsNext, clients, resolving, R!vars, R!world, R!call
<1> QED BY <1>1, <1>2, PTL DEF ClientsSpec, R!Spec

LEMMA LoglolAlone == ClientsSpec => L!Spec
<1>1. ClientsInit => L!Init BY DEF ClientsInit
<1>2. [ClientsNext]_clients => [L!Next]_L!vars
  BY DEF ClientsNext, clients, logging, L!vars, L!process
<1> QED BY <1>1, <1>2, PTL DEF ClientsSpec, L!Spec

LEMMA FilterAlone == ClientsSpec => F!Init /\ [][F!Next]_F!vars
<1>1. ClientsInit => F!Init BY DEF ClientsInit
<1>2. [ClientsNext]_clients => [F!Next]_F!vars
  BY DEF ClientsNext, clients, filtering, F!vars
<1> QED BY <1>1, <1>2, PTL DEF ClientsSpec

(* dns_rcrw.c:117-126, dns_rcip.c:71-81, loglol.c:161-176: for all         *)
(* configurations, times and deaths, a configuration is used whole and for *)
(* a while, and a line that came is not lost but to age or with the        *)
(* program.                                                                *)
THEOREM ClientsFreshAndLasting ==
  ASSUME R!ResolveBounds, L!LoglolBounds
  PROVE  ClientsSpec => FreshAndLasting
<1>1. R!Spec => R!Fresh
  BY FreshAlways
<1>2. L!Spec => L!Lasting
  BY LastingAlways
<1> QED BY <1>1, <1>2, ResolveAlone, LoglolAlone DEF FreshAndLasting

(* dnsfilter.c:67-211: for every text, whatever is read of it at a time,   *)
(* however many slots and exchanges there may be and in whatever order     *)
(* these end, every line leaves as it came and in its turn, with the name  *)
(* of its own address.                                                     *)
THEOREM ClientsLinesWhole ==
  ASSUME F!FilterBounds
  PROVE  ClientsSpec => []LinesWhole
<1>1. F!Init /\ [][F!Next]_F!vars => [](F!TypeOK /\ F!ActiveCounted /\ F!Whole /\ F!NameRight)
  BY FilterLines
<1> QED BY <1>1, FilterAlone DEF LinesWhole

(* dns_ipq.c:48-62, loglol.c:66, :139-159: for all configurations, names,  *)
(* answers and lines, the names tried are those expected in their order,   *)
(* and no line overtakes another over all the files, of which there are no *)
(* more than there may be.                                                 *)
THEOREM ClientsOrderKept ==
  ASSUME R!ResolveBounds, R!SearchBounds, L!LoglolBounds
  PROVE  ClientsSpec => []OrderKept
<1>1. R!Spec => [](R!TypeOK /\ R!TriedRight)
  BY TriedRightAlways
<1>2. L!Spec => []L!OrderKept
  BY OrderKeptAlways
<1> QED BY <1>1, <1>2, ResolveAlone, LoglolAlone, PTL DEF OrderKept
=============================================================================

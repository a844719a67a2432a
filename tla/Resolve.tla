------------------------------ MODULE Resolve ------------------------------
(***************************************************************************)
(* The client library: what resolv.conf, dnsrewrite and the environment    *)
(* say (dns_rcip.c, dns_rcrw.c) is kept for a while, a name is rewritten   *)
(* and tried with one ending after the other (dns_ipq.c), and its          *)
(* addresses are taken from the answer (dns_ip.c, dns_resolve.c).          *)
(*                                                                         *)
(* A name is a sequence of parts: words, numbers and the marks . + [ ].    *)
(* A rule has its kind, the ending it is for, and what replaces that.      *)
(***************************************************************************)
EXTENDS Integers, Sequences, FiniteSets, SequencesExt

CONSTANTS
  Configs,      \* what files and environment say, one after the other
  Names,        \* names to look up
  Numbers,      \* parts that are digits
  Answer,       \* for a name, the records of its answer; for others there are none
  Uses, Life,   \* 10000 and 600: how often and how long a reading is used
  MaxIps,       \* 16 servers
  MaxTime, MaxCalls,  \* bounds
  None, Error, Zero, Local

(* There is a configuration, and time goes on from 0 to its bound.         *)
ResolveBounds ==
  /\ Configs \in Seq(ToSet(Configs)) /\ Configs # <<>>
  /\ Life \in Nat /\ MaxTime \in Nat

VARIABLES
  version, left,   \* the configuration in force, and when each went out of it
  now, calls,
  rewrite, resolv, \* the two readings: ok, uses, deadline, and the data
  pc, name, fqdn,  \* a call of dns_ip4_qualify
  plus, i,         \* its place in fqdn
  tried, out

world == <<version, left, now>>
call == <<pc, name, fqdn, plus, i, tried, out>>
vars == <<world, calls, rewrite, resolv, call>>

Unread == [ok |-> 0, uses |-> 0, deadline |-> -1, data |-> <<>>]

Init ==
  /\ version = 1 /\ left = [v \in DOMAIN Configs |-> MaxTime] /\ now = 0 /\ calls = 0
  /\ rewrite = Unread /\ resolv = Unread
  /\ pc = "idle" /\ name = <<>> /\ fqdn = <<>> /\ plus = 0 /\ i = 0 /\ tried = <<>> /\ out = {}

-----------------------------------------------------------------------------
(* init() of dns_rcrw.c and of dns_rcip.c.                                 *)

Rule(kind, ending, new) == [kind |-> kind, ending |-> ending, new |-> new]
NoDot == Rule("*", <<".">>, <<>>)
Domains(list) == <<Rule("?", <<>>, FlattenSeq([n \in DOMAIN list |-> <<"+", ".">> \o list[n]])), NoDot>>

(* The first line that lists domains to search; host is what follows the   *)
(* first word of the machine's name.                                       *)
Searches(c) == SelectSeq(c.lines, LAMBDA line : line.word \in {"search", "domain"})
Rules(c) ==
  CASE c.rewritefile # None -> c.rewritefile
    [] c.rewritefile = None /\ c.localdomain # None -> Domains(c.localdomain)
    [] OTHER -> IF Searches(c) # <<>> THEN Domains(Searches(c)[1].list)
                ELSE IF c.host # <<>> THEN <<Rule("?", <<>>, c.host), NoDot>> ELSE <<NoDot>>

RulesReadable(c) ==
  c.rewritefile # Error /\ (c.rewritefile = None /\ c.localdomain = None => c.lines # Error)
IpsReadable(c) == c.cacheip = <<>> => c.lines # Error

AtMost(ips) == SubSeq(ips, 1, IF Len(ips) > MaxIps THEN MaxIps ELSE Len(ips))

Nameservers(c) ==
  LET lines == SelectSeq(c.lines, LAMBDA line : line.word = "nameserver")
  IN [n \in DOMAIN lines |-> IF lines[n].ip = Zero THEN Local ELSE lines[n].ip]
Ips(c) ==
  LET ips == AtMost(IF c.cacheip # <<>> THEN c.cacheip ELSE Nameservers(c))
  IN IF ips = <<>> THEN <<Local>> ELSE ips

\* Mutant of Good: the reading is never too old.
GoodForever(r) == r.ok = 1 /\ r.uses # 0

Good(r) == r.ok = 1 /\ ~(r.deadline < now) /\ r.uses # 0

Failed(r, data) == [r EXCEPT !.ok = 0, !.data = data]
Used(r) == [r EXCEPT !.uses = @ - 1]
Read(data) == [ok |-> 1, uses |-> Uses - 1, deadline |-> now + Life, data |-> data]

-----------------------------------------------------------------------------
(* doit() of dns_ipq.c: one rule.                                          *)

Applies(work, rule) ==
  /\ rule.kind \in {"?", "=", "*", "-"} /\ IsSuffix(rule.ending, work)
  /\ rule.kind = "=" => Len(work) = Len(rule.ending)
  /\ rule.kind = "?" => \A n \in 1..Len(work) - Len(rule.ending) : work[n] \notin {".", "[", "]"}

Apply(work, rule) ==
  IF ~Applies(work, rule) THEN work
  ELSE (IF rule.kind = "-" THEN <<>> ELSE SubSeq(work, 1, Len(work) - Len(rule.ending))) \o rule.new

(* byte_chr for the next plus, from place k on.                            *)
NextPlus(s, k) ==
  IF \E n \in k..Len(s) : s[n] = "+" THEN CHOOSE n \in k..Len(s) : s[n] = "+" /\ \A m \in k..n - 1 : s[m] # "+"
  ELSE Len(s) + 1

(* dns_ip4_qualify: the rules are read anew or used again.  When a reading *)
(* fails, part of what it read is left.                                    *)
Qualify(n) ==
  /\ pc = "idle" /\ calls < MaxCalls /\ calls' = calls + 1
  /\ name' = n /\ tried' = <<>> /\ out' = {}
  /\ LET c == Configs[version]
         fresh == RulesReadable(c)
     IN \/ /\ IF Good(rewrite) THEN rewrite' = Used(rewrite)
              ELSE fresh /\ rewrite' = Read(Rules(c))
           /\ fqdn' = FoldLeft(Apply, n, rewrite'.data)
           /\ pc' = "try" /\ plus' = NextPlus(fqdn', 1) /\ i' = plus' + 1
        \/ /\ ~Good(rewrite)
           /\ \E part \in IF fresh THEN {SubSeq(Rules(c), 1, k) : k \in 0..Len(Rules(c)) - 1} ELSE {<<>>} :
                rewrite' = Failed(rewrite, part)
           /\ pc' = "failed" /\ UNCHANGED <<fqdn, plus, i>>
  /\ UNCHANGED <<world, resolv>>

(* The name to try: fqdn without what is between the first plus and i.     *)
Candidate ==
  IF plus > Len(fqdn) THEN fqdn ELSE SubSeq(fqdn, 1, plus - 1) \o SubSeq(fqdn, i, NextPlus(fqdn, i) - 1)

Numeric(s) == \A n \in DOMAIN s : s[n] \in Numbers \cup {".", "[", "]"}
(* The numbers of an address, four of them each.                           *)
Literal(s) == [n \in 1..(Cardinality({k \in DOMAIN s : s[k] = "."}) + 1) \div 4 |-> s]

(* dns_ip4_packet: whose record it is does not matter.                     *)
Addresses(s) ==
  IF s \notin DOMAIN Answer THEN {}
  ELSE {rec.ip : rec \in {r \in ToSet(Answer[s]) : r.type = "A" /\ r.in /\ r.len = 4}}

Next1 == NextPlus(fqdn, i) + 1

Enough(found) == found # {} \/ plus > Len(fqdn) \/ NextPlus(fqdn, i) > Len(fqdn)

Found(found) ==
  /\ out' = found /\ tried' = Append(tried, Candidate)
  /\ pc' = IF Enough(found) THEN "done" ELSE "try"
  /\ i' = Next1
  /\ UNCHANGED <<name, fqdn, plus>>

TryLiteral ==
  /\ pc = "try" /\ Numeric(Candidate)
  /\ Found(ToSet(Literal(Candidate)))
  /\ UNCHANGED <<world, calls, rewrite, resolv>>

(* dns_resolve: the servers are read, and the exchange succeeds or not.    *)
Try ==
  /\ pc = "try" /\ ~Numeric(Candidate)
  /\ LET c == Configs[version]
     IN IF Good(resolv) THEN resolv' = Used(resolv)
        ELSE IpsReadable(c) /\ resolv' = Read(Ips(c))
  /\ Found(Addresses(Candidate))
  /\ UNCHANGED <<world, calls, rewrite>>

Fail ==
  /\ pc = "try" /\ ~Numeric(Candidate) /\ pc' = "failed"
  /\ resolv' = IF Good(resolv) THEN Used(resolv)
               ELSE IF ~IpsReadable(Configs[version]) THEN Failed(resolv, resolv.data)
               ELSE Read(Ips(Configs[version]))
  /\ UNCHANGED <<world, calls, rewrite, name, fqdn, plus, i, tried, out>>

Return ==
  /\ pc \in {"done", "failed"} /\ pc' = "idle"
  /\ name' = <<>> /\ fqdn' = <<>> /\ plus' = 0 /\ i' = 0 /\ tried' = <<>> /\ out' = {}
  /\ UNCHANGED <<world, calls, rewrite, resolv>>

Reconfigure ==
  /\ version < Len(Configs) /\ version' = version + 1
  /\ left' = [left EXCEPT ![version] = now]
  /\ UNCHANGED <<now, calls, rewrite, resolv, call>>

\* A clock that is set back is left out: a reading would be good for longer.
Tick ==
  /\ now < MaxTime /\ now' = now + 1
  /\ UNCHANGED <<version, left, calls, rewrite, resolv, call>>

Next == (\E n \in Names : Qualify(n)) \/ TryLiteral \/ Try \/ Fail \/ Return \/ Reconfigure \/ Tick

Spec == Init /\ [][Next]_vars

-----------------------------------------------------------------------------
TypeOK ==
  /\ rewrite.uses \in 0..Uses /\ resolv.uses \in 0..Uses
  /\ resolv.ok = 1 => Len(resolv.data) \in 1..MaxIps

Recent == {Configs[v] : v \in {u \in 1..version : left[u] >= now - Life}}

(* dns_rcrw.c:117-126, dns_rcip.c:71-81: what a call works with was in     *)
(* force as a whole within the last ten minutes, though a reading may      *)
(* fail half way and files may change at any time.                         *)
Fresh ==
  [][/\ (pc = "idle" /\ pc' = "try") => \E c \in Recent : RulesReadable(c) /\ rewrite'.data = Rules(c)
     /\ Try => \E c \in Recent : IpsReadable(c) /\ resolv'.data = Ips(c)]_vars

(* The names that somebody expects to be tried for a name without a plus,  *)
(* when domains to search are given: as it is if it has a dot or brackets, *)
(* without a last dot, else with each domain in turn.                      *)
Searched(c) == RulesReadable(c) /\ c.rewritefile = None /\ (c.localdomain # None \/ Searches(c) # <<>>)
DomainList(c) == IF c.localdomain # None THEN c.localdomain ELSE Searches(c)[1].list
Expected(n, c) ==
  IF \E k \in DOMAIN n : n[k] \in {".", "[", "]"}
  THEN <<IF Last(n) = "." THEN Front(n) ELSE n>>
  ELSE IF DomainList(c) = <<>> THEN <<n>>
  ELSE [k \in DOMAIN DomainList(c) |-> n \o <<".">> \o DomainList(c)[k]]

(* Names have no plus, nor have domains, which do not end with a dot       *)
(* either; lists are sequences, and there are places in them.              *)
SearchBounds ==
  /\ \A n \in Names : n \in Seq(ToSet(n)) /\ "+" \notin ToSet(n)
  /\ \A c \in ToSet(Configs) :
       /\ Searched(c) =>
            /\ DomainList(c) \in Seq(ToSet(DomainList(c)))
            /\ \A d \in ToSet(DomainList(c)) :
                 d \in Seq(ToSet(d)) /\ d # <<>> /\ "+" \notin ToSet(d) /\ Last(d) # "."
       /\ c.cacheip \in Seq(ToSet(c.cacheip))
       /\ (IpsReadable(c) /\ c.cacheip = <<>>) => Nameservers(c) \in Seq(ToSet(Nameservers(c)))
  /\ Uses \in Nat \ {0} /\ MaxIps \in Nat \ {0}

(* dns_ipq.c:48-62: the names tried are those expected, in their order, up *)
(* to the first that has addresses or to the last; the result is what that *)
(* one has.                                                                *)
TriedRight ==
  LET read == {v \in 1..version : Searched(Configs[v]) /\ rewrite.data = Rules(Configs[v])}
  IN (pc = "done" /\ read # {}) => \E v \in read :
      LET expected == Expected(name, Configs[v])
          has(s) == IF Numeric(s) THEN ToSet(Literal(s)) ELSE Addresses(s)
          good == {k \in DOMAIN expected : has(expected[k]) # {}}
      IN /\ IsPrefix(tried, expected) /\ out = has(Last(tried))
         /\ IF good = {} THEN tried = expected
            ELSE Len(tried) \in good /\ \A k \in good : Len(tried) <= k
=============================================================================

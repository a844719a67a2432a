----------------------------- MODULE MCClients -----------------------------
(* Small packets, names, configurations, directories, texts and answers    *)
(* for each of the programs that ask, and for two more: names are written  *)
(* as text and read again (Domain), and traced from server to server       *)
(* (DnsTrace).                                                             *)
EXTENDS Clients

CONSTANTS ip1, ip2, localip, Broken

VARIABLES
  dpc, given, dtext, dname,
  query, ns, address, qt, ti, verdict

converting == <<dpc, given, dtext, dname>>
tracing == <<query, ns, address, qt, ti, verdict>>

(* Every packet of up to five bytes out of five values: the end, labels of *)
(* one and two bytes, a byte that is neither, and a pointer; and one that  *)
(* leads out of the packet in those of up to four bytes.                   *)
MCPackets == UNION {[1..n -> 0..5] : n \in 1..4} \cup [1..5 -> 0..4]

(* Names of up to two labels of up to two bytes and texts of up to five    *)
(* out of the bytes that are special to either side; the longest of both   *)
(* are longer than there is room for.                                      *)
Bytes == {0, 10, 45, 46, 48, 55, 56, 58, 65, 92, 97, 200, 255}
Singles == {<<b>> : b \in Bytes}
Words == Singles \cup {<<b, c>> : b \in Bytes, c \in Bytes}
MCNames == {<<>>} \cup {<<l>> : l \in Words} \cup {<<l, m>> : l \in Singles, m \in Words}
MCTexts == UNION {[1..n -> {46, 55, 56, 92}] : n \in 0..5}
D == INSTANCE Domain WITH
  pc <- dpc, text <- dtext, name <- dname, LabelMax <- 2, NameMax <- 6, Names <- MCNames, Texts <- MCTexts

(* Domains from the environment, from resolv.conf and from the machine's   *)
(* name, a file of rules, files that cannot be read; more servers than     *)
(* there is room for.                                                      *)
Conf == [rewritefile |-> None, localdomain |-> None, lines |-> <<>>, host |-> <<>>, cacheip |-> <<>>]
Keyword(word, list, ip) == [word |-> word, list |-> list, ip |-> ip]
Rule(kind, ending, new) == [kind |-> kind, ending |-> ending, new |-> new]
de == <<"d", ".", "e">>
f == <<"f">>
MCConfigs == <<
  [Conf EXCEPT !.localdomain = <<de, f>>, !.cacheip = <<"1", "2", "3">>],
  [Conf EXCEPT !.lines = Error],
  [Conf EXCEPT !.lines = <<Keyword("nameserver", <<>>, Zero), Keyword("search", <<f, de, <<"g">>>>, None),
                           Keyword("domain", <<de>>, None)>>, !.host = <<".", "h">>],
  [Conf EXCEPT !.host = <<".", "h">>],
  [Conf EXCEPT !.rewritefile = Error],
  [Conf EXCEPT !.rewritefile = <<Rule("=", <<"a">>, <<"b", "+", "f", "+", ".", "f">>), Rule("-", f, <<"1">>),
                                 Rule("#", <<>>, f), Rule("*", <<".">>, <<>>)>>]>>
MCAsked == {<<"a">>, <<"a", ".">>, <<"b", ".", "f">>, <<"1", ".", "1", ".", "1", ".", "1">>, <<"[", "1", "]">>}
Rec(type, ip) == [type |-> type, in |-> TRUE, len |-> 4, ip |-> ip]
MCAnswer ==
  [n \in {<<"a", ".", "f">>, <<"b", ".", "f">>, <<"a", ".">> \o de} |->
     IF n[1] = "b" THEN <<Rec("A", "5"), Rec("CNAME", "6"), Rec("A", "7")>>
     ELSE IF Len(n) = 3 THEN <<Rec("A", "8")>> ELSE <<[Rec("A", "9") EXCEPT !.len = 3]>>]

(* Files of two lines, an empty directory and one with old files of ours   *)
(* and one of somebody else that is in the way.                            *)
File(line, time, mine) == [lines |-> <<line>>, mtime |-> time, own |-> mine]
MCLeft ==
  {<<>>, <<File(-2, 2, TRUE), File(-3, 1, TRUE), File(-4, 3, FALSE)>>}

(* Addresses alone, before other words and at the beginning of a longer    *)
(* word, empty lines, lines longer than the buffer, a last line without    *)
(* its end; more addresses than exchanges and more lines than slots.       *)
MCInputs ==
  {<<"ip1", "nl", "ip2", " ", "w", "nl", "ip3">>,
   <<"w", "nl", "ip1", " ", "ip2", "nl", "nl", "ip2", "nl">>,
   <<"ip1", " ", "w", "w", "nl", "ip2", "nl", "w", "nl", "ip1", "nl">>,
   <<" ", "ip1", "nl", "ip2", "w">>, <<>>}
MCAddress == {"ip1", "ip2", "ip3"}

(* Referrals down, up and beside, glue in and out of the zone, aliases     *)
(* that lead around, records that cannot be read.                          *)
a == <<"a">>
xa == <<"x", "a">>
local == <<"localhost">>
RR(owner, type, about) == [owner |-> owner, type |-> type, data |-> about, in |-> TRUE]
Reply(nx, answers, authority, glue) ==
  [nxdomain |-> nx, answers |-> answers, authority |-> authority, glue |-> glue]
Replies == {
  Reply(FALSE, <<>>, <<RR(a, "NS", xa)>>, <<RR(xa, "A", ip2)>>),
  Reply(FALSE, <<>>, <<RR(a, "NS", local), RR(<<>>, "NS", a)>>, <<>>),
  Reply(FALSE, <<>>, <<RR(xa, "NS", Broken)>>, <<>>),
  Reply(FALSE, <<>>, <<[RR(a, "NS", xa) EXCEPT !.in = FALSE]>>, <<>>),
  Reply(FALSE, <<>>, <<RR(xa, "NS", <<"1">>)>>, <<RR(local, "A", Broken), RR(xa, "A", ip2)>>),
  Reply(FALSE, <<RR(xa, "CNAME", a), RR(a, "A", ip1)>>, <<>>, <<>>),
  Reply(TRUE, <<RR(xa, "CNAME", Broken)>>, <<RR(<<>>, "SOA", Broken)>>, <<>>),
  Reply(FALSE, <<RR(xa, "MX", Broken)>>, <<RR(<<>>, "NS", a)>>, <<[RR(a, "A", ip2) EXCEPT !.in = FALSE]>>)}
Begins == [owner |-> xa, type |-> "MX"]
T == INSTANCE DnsTrace WITH
  Packet <- Replies, Start <- Begins, RootIps <- <<ip1>>, Localhost <- local,
  Literal <- [n \in {<<"1">>} |-> localip], LocalIp <- localip, i <- ti

ASSUME ClientsAssumption == R!ResolveBounds /\ R!SearchBounds /\ L!LoglolBounds /\ F!FilterBounds

-----------------------------------------------------------------------------
(* The others begin in one way.                                            *)
MCInit ==
  /\ prog \in Programs
  /\ IF prog = "packet" THEN TRUE ELSE buf = <<0>> /\ start = 0
  /\ IF prog = "domain" THEN TRUE ELSE dpc = "name" /\ given = <<>>
  /\ IF prog = "loglol" THEN TRUE ELSE old = <<>>
  /\ IF prog = "dnsfilter" THEN TRUE ELSE input = <<>>
  /\ T!Init /\ D!Init /\ ClientsInit

MCNext ==
  \/ ClientsNext /\ UNCHANGED <<converting, tracing>>
  \/ prog = "domain" /\ D!Next /\ UNCHANGED <<clients, tracing>>
  \/ prog = "dnstrace" /\ T!Next /\ UNCHANGED <<clients, converting>>

MCSpec == MCInit /\ [][MCNext]_<<clients, converting, tracing>>

-----------------------------------------------------------------------------
(* dns_packet.c:18-71, dns_dfd.c:8-60, dns_dtda.c:18-31: those who read a  *)
(* name and those who pass over it go on at one place; a name written as   *)
(* text stands between the colons of a line and is read as itself; no text *)
(* becomes a name that a packet could not hold.                            *)
NamesAgree == TypeOK /\ Agrees /\ D!TypeOK /\ D!RoundTrip /\ D!OneField

(* dnstrace.c:31-160, :300-430: every pair of name and server that follows *)
(* from what was answered is asked once, and no referral leads up.         *)
Closed == T!TypeOK /\ T!Closed /\ T!Once /\ T!Followed /\ T!Closer
=============================================================================

----------------------------- MODULE MCServers -----------------------------
(* Small files, names and clients for each of the servers, and one module  *)
(* more: the writer of answers (Response).                                 *)
EXTENDS Servers

VARIABLES message, name, name_ptr, tctarget, dpos, count, apc, todo, truncated, starts, records

writing == <<message, name, name_ptr, tctarget, dpos, count, apc, todo, truncated, starts, records>>

(* Two servers with two addresses each; questions that differ in what      *)
(* doit() tests, from a client or with a server as their sender.           *)
MCAsk == [id |-> 1, qr |-> 0, qdcount |-> 1, parses |-> TRUE, name |-> "n", type |-> "A",
          class |-> "IN", opcode |-> 0, aa |-> 0, rd |-> 0, ra |-> 0, tc |-> 0,
          rcode |-> "ok", len |-> 30, qlen |-> 30]
MCQuestion == {
  [MCAsk EXCEPT !.rd = 1],
  [MCAsk EXCEPT !.id = 2, !.class = "ANY"],
  [MCAsk EXCEPT !.class = "CH", !.type = "AXFR"],
  [MCAsk EXCEPT !.type = "AXFR"],
  [MCAsk EXCEPT !.opcode = 2],
  [MCAsk EXCEPT !.qr = 1],
  [MCAsk EXCEPT !.qdcount = 2],
  [MCAsk EXCEPT !.len = 513]}
MCClient == {<<"c", 1>>}

(* Addresses of two numbers; names of up to five labels, with labels that  *)
(* are no number, and with the base in front, in the middle or at the end. *)
Parts == UNION {[1..n -> {"0", "3", "x"}] : n \in 0..3}
Arpa == <<"in-addr", "arpa">>
MCWallName == {n \o s : n \in Parts, s \in {<<>>, Arpa, <<"arpa">>, Arpa \o <<"3">>}}

(* Numbers of two bits each; networks of every length, one with bits       *)
(* behind it and one longer than an address; texts that do and do not end  *)
(* in "$", in time or too late.                                            *)
MCValue == [d \in {"0", "1", "2", "3"} |->
  CASE d = "0" -> <<0, 0>> [] d = "1" -> <<0, 1>> [] d = "2" -> <<1, 0>> [] d = "3" -> <<1, 1>>]
MCDigits == DOMAIN MCValue
MCBase == <<"b">>
Net(labels, bits) == [c |-> "0", octets |-> [k \in DOMAIN labels |-> MCValue[labels[k]]], bits |-> bits, a |-> <<>>, text |-> <<>>]
Txt(text) == [c |-> ":", octets |-> <<>>, bits |-> 0, a |-> <<1>>, text |-> text]
MCRblLine ==
  {Net(<<"1">>, 2), Net(<<"2", "1">>, 4), Net(<<"2", "1", "1">>, 9), Net(<<"2", "2">>, 3), Net(<<"1", "1">>, 3),
   Net(<<"0">>, 1), Net(<<"0">>, 0),
   Txt(<<"u", "$">>), Txt(<<"v", "$", "w">>), Txt(<<>>),
   [Net(<<>>, 0) EXCEPT !.c = "#"], [Net(<<>>, 0) EXCEPT !.c = "?"]}
MCRblName ==
  {<<"0", "1", "b">>, <<"2", "1", "b">>, <<"1", "2", "b">>, <<"3", "2", "b">>, <<"1", "1", "b">>,
   <<"1", "b">>, <<"1", "1", "1", "b">>, <<"x", "1", "b">>}

(* Five kinds of address, two of one name and place, one of a name as long *)
(* and one of none; networks in each other, one of no octets.              *)
Placed(location, owner, ip) ==
  [c |-> "+", address |-> [location |-> location, name |-> owner, ip |-> ip], prefix |-> <<>>, location |-> 0]
Place(prefix, location) == [Placed(0, <<0, 0>>, 0) EXCEPT !.c = "%", !.prefix = prefix, !.location = location]
MCPickLine ==
  {Placed(1, <<1, 1>>, 1), Placed(1, <<1, 1>>, 2), Placed(1, <<1, 2>>, 3), Placed(1, <<2, 1>>, 4),
   Placed(0, <<1, 1>>, 5), Place(<<1>>, 1), Place(<<1, 1>>, 2), Place(<<>>, 1), [Place(<<>>, 0) EXCEPT !.c = "?"]}
MCPickName == {<<1, 1>>, <<2, 1>>}
MCPickClient == {<<1, 1>>, <<1, 2>>}

(* Labels in capitals and not; names that end in each other; positions     *)
(* beyond those a pointer reaches; a table that fills.                     *)
Labels == {"a", "A", "b", "z"}
M == INSTANCE Response WITH
  response <- message, pc <- apc,
  Label <- Labels, Size <- [l \in Labels |-> IF l = "b" THEN 3 ELSE 2],
  Lower <- [l \in Labels |-> IF l = "A" THEN "a" ELSE l],
  Name <- {<<>>, <<"z">>, <<"a", "z">>, <<"A", "z">>, <<"b", "a", "z">>},
  Limit <- 50, PtrLimit <- 30, NAMES <- 3, NameLimit <- 7, Byte <- 2, MaxRecords <- 2, MaxData <- 2

ASSUME ServersAssumption == ServerBounds /\ W!WallBounds /\ R!RblBounds /\ P!PickBounds

-----------------------------------------------------------------------------
(* The others begin in one way.                                            *)
MCInit ==
  /\ prog \in Programs
  /\ IF prog = "rbldns" THEN TRUE ELSE rdata = <<>>
  /\ IF prog = "pickdns" THEN TRUE ELSE pdata = <<>>
  /\ M!Init /\ ServersInit

MCNext ==
  \/ ServersNext /\ UNCHANGED writing
  \/ prog = "response" /\ M!Next /\ UNCHANGED servers

MCSpec == MCInit /\ [][MCNext]_<<servers, writing>>

(* response.c:23-121: a reader of the answer finds every name as it was    *)
(* written, through pointers that fit and lead back, meets as many records *)
(* as are counted, and has the whole question when the answer was cut.     *)
NamesRead == M!TypeOK /\ M!NamesRead /\ M!PointersFit /\ M!RecordsMeet /\ M!TruncatedWhole
=============================================================================

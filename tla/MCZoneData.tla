---------------------------- MODULE MCZoneData ----------------------------
(* Small databases, files, editors and versions; and zones that are        *)
(* transferred (Axfr), from axfrdns or from some other server.             *)
EXTENDS ZoneData

CONSTANTS e1, e2, host, other, one, two, far

VARIABLES zversion, now, request, stream, server, client, fntmp, fn

copying == <<zversion, now, request, stream, server, client, fntmp, fn>>

-----------------------------------------------------------------------------
(* Two keys of the same 32-bit hash, one of them as long as the other, and *)
(* one in the same table; with three entries all of them start their       *)
(* searches at the last slot.  A few pairs fill all positions.             *)
MCKey == {"a", "b", "c", "d"}
MCDatum == {"empty", "small", "huge"}
MCKeyLen == [k \in MCKey |-> IF k = "c" THEN 2 ELSE 1]
MCDataLen == [empty |-> 0, small |-> 1, huge |-> Wide - 10]
MCHash == [a |-> 10, b |-> 10, c |-> 22, d |-> 1]

(* Lines of every kind, with fields given and left out, lifetimes of zero, *)
(* times, locations, and numbers and lifetimes that wrap.                  *)
N(labels) == [labels |-> labels, dot |-> Len(labels) > 1]
Base ==
  [c |-> "#", name |-> N(<<"a", "z">>), x |-> N(<<"b">>), y |-> N(<<"h", "z">>), ip |-> "1",
   ttl |-> None, ttd |-> 0, loc |-> "00", serial |-> None, dist |-> 10, weight |-> None,
   port |-> 5, type |-> 99, len |-> 3]
Of(c) == [Base EXCEPT !.c = c]
Lives(l) ==
  {l, [l EXCEPT !.ttl = 0, !.ttd = 3], [l EXCEPT !.ttl = 9, !.ttd = 3], [l EXCEPT !.ttl = 0],
   [l EXCEPT !.loc = "in"]}
MCLine ==
  UNION {Lives(Of(c)) : c \in {".", "&", "=", "@"}}
  \cup {Of(c) : c \in {"#", "-", "%", "+", "Z", "S", "C", "^", "'", "?"}}
  \cup {[Of(":") EXCEPT !.type = n] : n \in {None, 0, 1, 15, 16, 6 + 1024, 1024, 1024 + 99}}
  \cup {[Of("'") EXCEPT !.len = n] : n \in {0, 4, 5, 8}}
  \cup {[Of("=") EXCEPT !.ip = None], [Of(".") EXCEPT !.ip = None],
        [Of("+") EXCEPT !.name = N(<<"*", "z">>)],
        [Of(".") EXCEPT !.x = [labels |-> <<"b">>, dot |-> TRUE]],
        [Of("S") EXCEPT !.port = None]}
  \cup {[Of("Z") EXCEPT !.serial = n] : n \in {0, 7, 262144}}
  \cup {[Of(c) EXCEPT !.ttl = n, !.ttd = 3] : c \in {".", "&", "="}, n \in {262144, 262144 + 9}}

(* Two editors and commands of every mode for one or two names; files in   *)
(* which servers have letters, names of their own or no lifetime.          *)
MCEditor == {e1, e2}
MCLetters == <<"a", "b", "c">>
Owned(c, target, ip, letter, ttl) ==
  [c |-> c, target |-> target, ip |-> ip, server |-> letter, ttl |-> ttl]
Cmd(mode, target, ip) == [mode |-> mode, target |-> target, ip |-> ip]
MCCommand ==
  {Cmd(".", host, one), Cmd("&", host, two), Cmd("@", host, one), Cmd("=", host, one),
   Cmd("=", other, one), Cmd("=", other, two), Cmd("+", host, one)}
NsTtl == 259200
HostTtl == 86400
MCOld ==
  {<<>>,
   <<Owned(".", host, one, "b", 600), Owned("=", host, one, None, 60)>>,
   <<Owned("@", host, one, far, None), Owned("@", host, two, "a", HostTtl), Owned("&", host, two, far, None)>>,
   <<Owned("&", other, one, "a", 9), Owned("&", host, one, "a", 600), Owned("&", host, two, "c", 600)>>,
   <<Owned("@", host, one, "a", None), Owned("+", host, one, None, 600)>>,
   <<Owned("#", host, two, None, None), Owned(".", host, one, "a", NsTtl), Owned(".", host, two, "b", None)>>}

(* Versions of a zone with records that appear, go, live for a time or in  *)
(* another place, wildcards, and names beside the zone; serials also move  *)
(* back.  And a server that is not axfrdns.                                *)
z == <<"z">>
Apex == [Of(".") EXCEPT !.name = N(z), !.x = N(<<"a">>)]
Zones == <<
  [mtime |-> 5, lines |-> <<Apex, Of("="), [Of("+") EXCEPT !.name = N(<<"*", "z">>), !.ttd = 1, !.ttl = 0],
                            [Of("@") EXCEPT !.x = N(<<"m">>), !.dist = 3]>>],
  [mtime |-> 6, lines |-> <<[Of("+") EXCEPT !.name = N(<<"b">>)], [Of("+") EXCEPT !.ttd = 1, !.ttl = 9], Apex,
                            [Of("'") EXCEPT !.len = 5], [Of("C") EXCEPT !.loc = "ex"], [Of("S") EXCEPT !.x = N(<<"s">>), !.port = 7, !.dist = 1]>>],
  [mtime |-> 4, lines |-> <<[Of("Z") EXCEPT !.name = N(z), !.x = N(<<"n", "z">>), !.serial = 3],
                            [Of("&") EXCEPT !.name = N(z), !.x = N(<<"n", "z">>), !.ip = None],
                            [Of("&") EXCEPT !.name = N(<<"*", "c", "z">>), !.x = N(<<"n", "z">>), !.loc = "ex"],
                            [Of(":") EXCEPT !.type = 99, !.len = 2]>>]>>
X == INSTANCE Axfr WITH
  version <- zversion, ZoneName <- z, Versions <- Zones, ClientLoc <- "in", Peers <- {"axfrdns"}, Strange <- {},
  MaxLines <- 0, MaxTime <- 2, MaxString <- 4, Short <- 1024, Long <- 4096
Rr(owner, type) ==
  [owner |-> owner, type |-> type, ttl |-> 1,
   rdata |-> [names |-> <<z, z>>, serial |-> 1, bytes |-> 4, ip |-> "1", numbers |-> <<1, 2, 3>>]]
O == INSTANCE Axfr WITH
  version <- zversion, ZoneName <- z, Versions <- Zones, ClientLoc <- "in", Peers <- {"other"},
  Strange <- {Rr(o, t) : o \in {z, <<"b">>, <<"*", "z">>}, t \in {1, 2, 6}},
  MaxLines <- 4, MaxTime <- 0, MaxString <- 4, Short <- 1024, Long <- 4096

ASSUME ZoneDataAssumption == E!EditBounds /\ P!PublishBounds

-----------------------------------------------------------------------------
(* The others begin in one way.                                            *)
MCInit ==
  /\ prog \in Programs \cup {"axfr-get", "strange"}
  /\ IF prog = "compile" THEN TRUE ELSE data = <<>> /\ mtime = 0
  /\ IF prog = "tinydns-edit" THEN TRUE ELSE edited = <<>>
  /\ ZoneDataBegun /\ X!Init

MCNext ==
  \/ ZoneDataNext /\ UNCHANGED copying
  \/ prog = "axfr-get" /\ X!Next /\ UNCHANGED zonedata
  \/ prog = "strange" /\ O!Next /\ UNCHANGED zonedata

MCSpec == MCInit /\ [][MCNext]_<<zonedata, copying>>

(* axfrdns.c:250-296, axfr-get.c:150-398: a copy is one version of the     *)
(* zone at one moment with its serial in front, and says nothing about     *)
(* other zones, whoever sent it.                                           *)
Copied ==
  /\ prog = "axfr-get" => X!OneVersion /\ X!SerialTrue
  /\ prog = "strange" => O!TypeOK /\ O!InZone

(* tinydns-edit.c:111-254, axfr-get.c:356-358: a line is lost only to an   *)
(* editor that read the file before, and a transfer is left out only when  *)
(* the copy is what the master has just told the serial of.                *)
KeptAndSkipped == E!Kept /\ X!Skipped
=============================================================================

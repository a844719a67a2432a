------------------------------- MODULE MCAxfr -------------------------------
(* Versions of a zone with records that appear, go, live for a time or in  *)
(* another place, wildcards, and names beside the zone; serials also move  *)
(* back.                                                                   *)
EXTENDS Axfr
z == <<"z">>
N(labels) == [labels |-> labels, dot |-> Len(labels) > 1]
Base == [Blank EXCEPT !.name = N(<<"a", "z">>), !.ip = "1"]
L(c) == [Base EXCEPT !.c = c]
Apex == [L(".") EXCEPT !.name = N(z), !.x = N(<<"a">>)]
MCVersions == <<
  [mtime |-> 5, lines |-> <<Apex, L("="), [L("+") EXCEPT !.name = N(<<"*", "z">>), !.ttd = 1, !.ttl = 0],
                            [L("@") EXCEPT !.x = N(<<"m">>), !.dist = 3]>>],
  [mtime |-> 6, lines |-> <<[L("+") EXCEPT !.name = N(<<"b">>)], [L("+") EXCEPT !.ttd = 1, !.ttl = 9], Apex,
                            [L("'") EXCEPT !.len = 5], [L("C") EXCEPT !.loc = "ex"], [L("S") EXCEPT !.x = N(<<"s">>), !.port = 7, !.dist = 1]>>],
  [mtime |-> 4, lines |-> <<[L("Z") EXCEPT !.name = N(z), !.x = N(<<"n", "z">>), !.serial = 3], [L("&") EXCEPT !.name = N(z), !.x = N(<<"n", "z">>), !.ip = None],
                            [L("&") EXCEPT !.name = N(<<"*", "c", "z">>), !.x = N(<<"n", "z">>), !.loc = "ex"],
                            [L(":") EXCEPT !.type = 99, !.len = 2]>>] >>
=============================================================================

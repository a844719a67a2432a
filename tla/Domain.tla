------------------------------- MODULE Domain -------------------------------
(***************************************************************************)
(* dns_dfd.c and dns_dtda.c: names are written as text and read again, on  *)
(* the way through the files of the data compilers, the arguments of       *)
(* programs and what they print.                                           *)
(*                                                                         *)
(* A name is a sequence of labels, those and texts are sequences of bytes. *)
(***************************************************************************)
EXTENDS Integers, Sequences, FiniteSets, SequencesExt

CONSTANTS
  LabelMax, NameMax,  \* 63 and 255
  Names, Texts        \* names from packets, texts from people

VARIABLES
  pc, given,   \* "name" or "text", and what there was
  text, name   \* what it has become

vars == <<pc, given, text, name>>

Dot == 46
Backslash == 92
Octal == 48..55
Failure == <<"failure">>

Init ==
  /\ \/ pc = "name" /\ given \in Names
     \/ pc = "text" /\ given \in Texts
  /\ text = <<>> /\ name = <<>>

-----------------------------------------------------------------------------
(* dns_domain_todot_cat                                                    *)

lower(ch) == IF ch \in 65..90 THEN ch + 32 ELSE ch

Plain(ch) == ch \in 97..122 \cup 48..57 \cup {45, 95}

Digits(ch) == <<48 + (ch \div 64), 48 + ((ch \div 8) % 8), 48 + (ch % 8)>>
Written(ch) == IF Plain(lower(ch)) THEN <<lower(ch)>> ELSE <<Backslash>> \o Digits(lower(ch))
Label(l) == FlattenSeq([k \in DOMAIN l |-> Written(l[k])])

ToDot(d) ==
  IF d = <<>> THEN <<Dot>>
  ELSE FlattenSeq([k \in DOMAIN d |-> IF k = 1 THEN Label(d[k]) ELSE <<Dot>> \o Label(d[k])])

-----------------------------------------------------------------------------
(* dns_domain_fromdot.  digits counts the octal digits read of a number,   *)
(* escape is 1 behind a backslash.                                         *)

Reading == [name |-> <<>>, label |-> <<>>, escape |-> 0, digits |-> 0, ch |-> 0, ok |-> TRUE]

namelen(d) == FoldLeft(LAMBDA n, l : n + Len(l) + 1, 0, d)

Fits(d) == namelen(d) + 1 <= NameMax

EndLabel(r) ==
  IF r.label = <<>> THEN r
  ELSE [r EXCEPT !.name = Append(@, r.label), !.label = <<>>, !.ok = @ /\ namelen(Append(r.name, r.label)) <= NameMax]

Put(r, ch) == [r EXCEPT !.ok = @ /\ Len(r.label) < LabelMax, !.label = Append(@, ch), !.digits = 0, !.ch = 0]

(* A number is over.                                                       *)
EndNumber(r) == IF r.digits = 0 THEN r ELSE Put(r, r.ch)

Take(r, ch) ==
  CASE r.escape = 1 ->
         IF ch \in Octal THEN [r EXCEPT !.escape = 0, !.digits = 1, !.ch = ch - 48]
         ELSE [Put(r, ch) EXCEPT !.escape = 0]
    [] r.escape = 0 /\ r.digits \in 1..2 /\ ch \in Octal ->
         LET more == [r EXCEPT !.digits = @ + 1, !.ch = (@ * 8 + ch - 48) % 256]
         IN IF more.digits = 3 THEN EndNumber(more) ELSE more
    [] OTHER ->
         LET before == EndNumber(r)
         IN CASE ch = Dot -> EndLabel(before)
              [] ch = Backslash -> [before EXCEPT !.escape = 1]
              [] OTHER -> Put(before, ch)

(* A backslash at the end is left out.                                     *)
FromDot(t) ==
  LET end == EndLabel(EndNumber(FoldLeft(Take, Reading, t)))
  IN IF end.ok /\ Fits(end.name) THEN end.name ELSE Failure

todot_cat ==
  /\ pc = "name" /\ text' = ToDot(given) /\ pc' = "written"
  /\ UNCHANGED <<given, name>>

fromdot ==
  /\ \/ pc = "written" /\ name' = FromDot(text)
     \/ pc = "text" /\ name' = FromDot(given)
  /\ pc' = IF pc = "text" THEN "read" ELSE "back"
  /\ UNCHANGED <<given, text>>

Next == todot_cat \/ fromdot
Spec == Init /\ [][Next]_vars

-----------------------------------------------------------------------------
(* dns_dfd.c:8-60: a text becomes no name that a packet could not hold.    *)
TypeOK ==
  pc \in {"read", "back"} /\ name # Failure =>
    namelen(name) < NameMax /\ \A k \in DOMAIN name : Len(name[k]) \in 1..LabelMax

(* dns_dtda.c:18-31, dns_dfd.c:30-46: a name that was written is read as   *)
(* itself, in small letters, whatever bytes it has.                        *)
RoundTrip == pc = "back" => name = [k \in DOMAIN given |-> [m \in DOMAIN given[k] |-> lower(given[k][m])]]

(* dns_dtda.c:20-30: a name that is written can stand between the colons   *)
(* of a line, whoever made the packet that it came from.                   *)
OneField ==
  pc = "written" =>
    \A k \in DOMAIN text : text[k] \in 97..122 \cup 48..57 \cup {45, 95, Dot, Backslash}
=============================================================================

----------------------------- MODULE DnsFilter -----------------------------
(***************************************************************************)
(* dnsfilter.c: lines that begin with an address get the address's name    *)
(* behind it.  Several names are asked for at a time; lines leave in the   *)
(* order they came.                                                        *)
(*                                                                         *)
(* Text is a sequence of tokens: newline, blank, addresses and words; what *)
(* follows an address is no digit, so that it does not make it longer.  The*)
(* exchange of a line (dns_transmit) ends in one of the ways in Outcome.   *)
(* A slot of x has the buffers left, middle and right of its own; cell     *)
(* tells which, as slots are moved by copying.                             *)
(***************************************************************************)
EXTENDS Integers, Sequences, FiniteSets, SequencesExt

CONSTANTS
  Inputs,       \* what may be given to read
  Address,      \* tokens that are addresses
  NewLine, Blank,
  xmax,         \* slots
  maxactive,    \* exchanges at a time
  Size          \* of inbuf

(* Numbers are numbers, and a text is a sequence of tokens.                *)
FilterBounds ==
  /\ xmax \in Nat /\ maxactive \in Nat /\ Size \in Nat
  /\ \A tokens \in Inputs : tokens \in Seq(ToSet(tokens))

Outcome == {"wait", "failed", "badpacket", "noname", "name"}

VARIABLES
  given, stdin,     \* the whole input and what is left of it
  inbuf, partial, flag0,
  x, xnum, numactive,
  text,             \* contents of the buffers
  stdout,           \* lines written
  pc

vars == <<given, stdin, inbuf, partial, flag0, x, xnum, numactive, text, stdout, pc>>

NoText == [left |-> <<>>, middle |-> <<>>, right |-> <<>>]
NoIp == "none"

Init ==
  /\ given \in Inputs /\ stdin = given
  /\ inbuf = <<>> /\ partial = <<>> /\ flag0 = TRUE
  /\ x = [i \in 1..xmax |-> [cell |-> i, active |-> FALSE, ip |-> NoIp]]
  /\ xnum = 0 /\ numactive = 0
  /\ text = [c \in 1..xmax |-> NoText]
  /\ stdout = <<>> /\ pc = "poll"

-----------------------------------------------------------------------------
(* What an end of the exchange makes of a line; errors have no "=" in      *)
(* front unless a packet came.                                             *)
Middle(outcome, ip) ==
  CASE outcome = "failed" -> <<":error">>
    [] outcome = "badpacket" -> <<"=", ":error">>
    [] outcome = "name" -> <<"=", ip>>
    [] OTHER -> <<>>

Read(n) ==
  /\ inbuf' = inbuf \o SubSeq(stdin, 1, n) /\ stdin' = SubSeq(stdin, n + 1, Len(stdin))
  /\ flag0' = flag0

(* read() has data, none yet, or comes to the end or an error.             *)
Input ==
  \/ flag0 /\ \E n \in 1..Len(stdin) : n <= Size - Len(inbuf) /\ Read(n)
  \/ flag0 /\ Len(inbuf) < Size /\ flag0' = FALSE /\ UNCHANGED <<inbuf, stdin>>
  \/ UNCHANGED <<inbuf, stdin, flag0>>

Active == {i \in 1..xnum : x[i].active}

(* Any of the exchanges under way may end.                                 *)
Exchanges ==
  \E r \in [Active -> Outcome] :
    LET ended == {i \in Active : r[i] # "wait"} IN
    /\ text' = [c \in 1..xmax |->
                  IF \E i \in ended : x[i].cell = c
                  THEN LET i == CHOOSE k \in ended : x[k].cell = c
                       IN [text[c] EXCEPT !.middle = Middle(r[i], x[i].ip)]
                  ELSE text[c]]
    /\ x' = [i \in 1..xmax |-> IF i \in ended THEN [x[i] EXCEPT !.active = FALSE] ELSE x[i]]
    /\ numactive' = numactive - Cardinality(ended)

(* One turn of the loop up to the lines that can be written.               *)
Poll ==
  /\ pc = "poll"
  /\ flag0 \/ inbuf # <<>> \/ partial # <<>> \/ xnum > 0
  /\ Input /\ Exchanges
  /\ pc' = "lines"
  /\ UNCHANGED <<given, partial, xnum, stdout>>

Ready == xnum > 0 /\ ~x[1].active

\* Mutant of Moved: the slot of the line written is not kept.
MovedOver == [i \in 1..xmax |-> IF i < xnum THEN x[i + 1] ELSE x[i]]

(* The slots behind the first move up and it takes the place of the last.  *)
Moved == [i \in 1..xmax |-> IF i < xnum THEN x[i + 1] ELSE IF i = xnum THEN x[1] ELSE x[i]]

Write ==
  /\ pc = "lines" /\ Ready
  /\ stdout' = Append(stdout, text[x[1].cell])
  /\ x' = Moved /\ xnum' = xnum - 1
  /\ UNCHANGED <<given, stdin, inbuf, partial, flag0, numactive, text, pc>>

Room == ~Ready /\ xnum < xmax /\ numactive < maxactive

(* Where the newline is in inbuf, or its length.                           *)
NewLineAt ==
  IF NewLine \in ToSet(inbuf)
  THEN CHOOSE i \in 1..Len(inbuf) : inbuf[i] = NewLine /\ \A k \in 1..i - 1 : inbuf[k] # NewLine
  ELSE Len(inbuf)
HasLine == NewLine \in ToSet(inbuf)

TakePart ==
  /\ pc = "lines" /\ Room /\ inbuf # <<>> /\ ~HasLine
  /\ partial' = partial \o inbuf /\ inbuf' = <<>>
  /\ UNCHANGED <<given, stdin, flag0, x, xnum, numactive, text, stdout, pc>>

(* A line ends with its first newline or blank.                            *)
Left(line) ==
  LET ends == {i \in 1..Len(line) : line[i] \in {NewLine, Blank}}
  IN IF ends = {} THEN line ELSE SubSeq(line, 1, (CHOOSE i \in ends : \A k \in ends : i <= k) - 1)

Prepared(line) ==
  [left |-> Left(line), middle |-> <<>>, right |-> SubSeq(line, Len(Left(line)) + 1, Len(line))]

\* Mutant of Unended: a last line without its end is forgotten.
UnendedForgotten == FALSE

Unended == ~flag0 /\ partial # <<>>

(* ip4_scan(): the word begins with an address, whatever comes behind it.  *)
Scans(word) == word # <<>> /\ word[1] \in Address

(* A whole line, or what the input ended with, gets the next slot and an   *)
(* exchange when it begins with an address.  Reading resolv.conf or        *)
(* starting the exchange may fail.                                         *)
TakeLine ==
  /\ pc = "lines" /\ Room
  /\ HasLine \/ (inbuf = <<>> /\ Unended)
  /\ LET line == partial \o SubSeq(inbuf, 1, NewLineAt)
         cell == x[xnum + 1].cell IN
     /\ inbuf' = SubSeq(inbuf, NewLineAt + 1, Len(inbuf)) /\ partial' = <<>>
     /\ \/ /\ ~Scans(Left(line))
           /\ text' = [text EXCEPT ![cell] = Prepared(line)]
           /\ x' = [x EXCEPT ![xnum + 1].active = FALSE] /\ xnum' = xnum + 1
           /\ UNCHANGED <<numactive, pc>>
        \/ /\ Scans(Left(line))
           /\ text' = [text EXCEPT ![cell] = Prepared(line)]
           /\ x' = [x EXCEPT ![xnum + 1].active = TRUE, ![xnum + 1].ip = Left(line)[1]] /\ xnum' = xnum + 1
           /\ numactive' = numactive + 1 /\ UNCHANGED pc
        \/ /\ Scans(Left(line))
           /\ text' = [text EXCEPT ![cell] = [Prepared(line) EXCEPT !.middle = Middle("failed", NoIp)]]
           /\ x' = [x EXCEPT ![xnum + 1].active = FALSE] /\ xnum' = xnum + 1
           /\ UNCHANGED <<numactive, pc>>
        \/ /\ Scans(Left(line))
           /\ pc' = "died" /\ UNCHANGED <<text, x, xnum, numactive>>
  /\ UNCHANGED <<given, stdin, flag0, stdout>>

Break ==
  /\ pc = "lines" /\ ~Ready
  /\ ~Room \/ (inbuf = <<>> /\ ~Unended)
  /\ pc' = "poll"
  /\ UNCHANGED <<given, stdin, inbuf, partial, flag0, x, xnum, numactive, text, stdout>>

Exit ==
  /\ pc = "poll" /\ ~flag0 /\ inbuf = <<>> /\ partial = <<>> /\ xnum = 0
  /\ pc' = "exit"
  /\ UNCHANGED <<given, stdin, inbuf, partial, flag0, x, xnum, numactive, text, stdout>>

Next == Poll \/ Write \/ TakePart \/ TakeLine \/ Break \/ Exit

(* A turn that finds nothing to do and waits for somebody: for an exchange *)
(* or for input that there is room for.                                    *)
Waits ==
  /\ Poll /\ UNCHANGED <<numactive, inbuf, flag0>>
  /\ numactive > 0 \/ (flag0 /\ Len(inbuf) < Size)

Spec == Init /\ [][Next]_vars /\ WF_vars(Next)

-----------------------------------------------------------------------------
TypeOK ==
  /\ xnum \in 0..xmax /\ pc \in {"poll", "lines", "exit", "died"}
  /\ Len(inbuf) <= Size

(* dnsfilter.c:143-199: numactive counts the exchanges under way, at most  *)
(* maxactive, and none is in a slot that is not in use.                    *)
ActiveCounted ==
  /\ numactive = Cardinality({i \in 1..xmax : x[i].active}) /\ numactive <= maxactive
  /\ \A i \in xnum + 1..xmax : ~x[i].active

Written(line) == line.left \o line.right
OnTheWay == [i \in 1..xnum |-> text[x[i].cell]]
Flat(lines) == FlattenSeq([i \in DOMAIN lines |-> Written(lines[i])])

(* dnsfilter.c:150-205: what came in goes out in the same order without a  *)
(* token lost or repeated, wherever a line is cut by reads and whatever    *)
(* buffers its slot has had before.                                        *)
Whole == pc # "died" => Flat(stdout) \o Flat(OnTheWay) \o partial \o inbuf \o stdin = given

(* dnsfilter.c:132-161, :190: a name stands behind a word that begins with *)
(* the address it belongs to, and behind no other.                         *)
NameRight ==
  \A i \in 1..Len(stdout) :
    stdout[i].middle # <<>> =>
      /\ Scans(stdout[i].left)
      /\ stdout[i].middle \in {<<":error">>, <<"=", ":error">>, <<"=", stdout[i].left[1]>>}

(* dnsfilter.c:100-211: the loop comes to its end, with all that was read  *)
(* written, or waits for ever for an exchange or for input that does not   *)
(* come; neither full slots nor a full buffer nor a last line without an   *)
(* end keep it.                                                            *)
Ends ==
  \/ <>(pc = "died" \/ (pc = "exit" /\ Flat(stdout) \o stdin = given))
  \/ []<><<Waits>>_vars
=============================================================================

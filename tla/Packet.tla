------------------------------- MODULE Packet -------------------------------
(***************************************************************************)
(* dns_packet.c: a name is read out of a packet that anybody may have      *)
(* made.  Labels follow each other; a byte of Ptr or more is the first of  *)
(* two that point to where the name goes on, forwards as well as back.     *)
(*                                                                         *)
(* Positions count from 0, so that byte p of the packet is buf[p + 1].     *)
(***************************************************************************)
EXTENDS Integers, Sequences

CONSTANTS
  Byte,        \* values of a byte, 256
  Ptr, Lab,    \* 192 and 64
  NameMax,     \* sizeof name, 255
  LoopMax,     \* 1000
  Packets      \* what is received

ASSUME PacketAssumption ==
  /\ {Byte, Ptr, Lab, NameMax, LoopMax} \subseteq Nat
  /\ 0 < Lab /\ Lab < Ptr /\ Ptr < Byte
  /\ Packets \subseteq Seq(0..Byte - 1)

VARIABLES
  buf, start,           \* the packet, and where the name is
  pos, loop, state, firstcompress,
  name,                 \* what was copied into name
  result                \* the position returned, 0 for a failure, -1 before

vars == <<buf, start, pos, loop, state, firstcompress, name, result>>

len == Len(buf)
Running == result = -1
Here == buf[pos + 1]

Init ==
  /\ buf \in Packets /\ start \in 0..len
  /\ pos = start /\ loop = 0 /\ state = 0 /\ firstcompress = 0
  /\ name = <<>> /\ result = -1

Room == Len(name) + 1 <= NameMax

Counted == loop + 1

More == loop + 1 < LoopMax

Proto == result' = 0 /\ UNCHANGED <<buf, start, pos, loop, state, firstcompress, name>>

(* Every byte is fetched inside of the packet, and counted.                *)
Fetch ==
  /\ Running /\ pos < len /\ More
  /\ loop' = Counted
  /\ UNCHANGED <<buf, start>>

Fails ==
  /\ Running
  /\ \/ pos >= len \/ ~More
     \/ state > 0 /\ ~Room
     \/ /\ state = 0 /\ pos < len
        /\ \/ Here >= Ptr /\ pos + 1 >= len
           \/ Here >= Lab /\ Here < Ptr
           \/ Here < Lab /\ ~Room
  /\ Proto

(* A byte of a label.                                                      *)
Letter ==
  /\ Fetch /\ state > 0 /\ Room
  /\ name' = Append(name, Here) /\ pos' = pos + 1 /\ state' = state - 1
  /\ UNCHANGED <<firstcompress, result>>

\* Mutant of Behind: the position behind the last pointer is returned.
BehindLast == pos + 2

Behind == IF firstcompress = 0 THEN pos + 2 ELSE firstcompress

Pointer ==
  /\ Fetch /\ state = 0 /\ Here >= Ptr /\ pos + 1 < len
  /\ firstcompress' = Behind
  /\ pos' = (Here - Ptr) * Byte + buf[pos + 2]
  /\ UNCHANGED <<state, name, result>>

\* Mutant of Copied: the end is not copied.
CopiedOpen == IF Here = 0 THEN name ELSE Append(name, Here)

Copied == Append(name, Here)

(* The length of a label, 0 for the end.                                   *)
Length ==
  /\ Fetch /\ state = 0 /\ Here < Lab /\ Room
  /\ name' = Copied /\ pos' = pos + 1 /\ state' = Here
  /\ result' = IF Here # 0 THEN -1 ELSE IF firstcompress # 0 THEN firstcompress ELSE pos + 1
  /\ UNCHANGED firstcompress

Next == Fails \/ Letter \/ Pointer \/ Length

Spec == Init /\ [][Next]_vars

-----------------------------------------------------------------------------
(* dns_packet_skipname.                                                    *)
SkipName(b, p) ==
  LET skip[q \in 0..Len(b)] ==
        IF q = Len(b) THEN 0
        ELSE IF b[q + 1] >= Ptr THEN q + 2
        ELSE IF b[q + 1] >= Lab THEN 0
        ELSE IF b[q + 1] = 0 THEN q + 1
        ELSE IF q + 1 + b[q + 1] > Len(b) THEN 0
        ELSE skip[q + 1 + b[q + 1]]
  IN skip[p]

-----------------------------------------------------------------------------
TypeOK ==
  /\ buf \in Packets /\ start \in 0..len
  /\ pos \in Nat /\ loop \in Nat /\ state \in 0..Lab - 1 /\ firstcompress \in 0..len
  /\ name \in Seq(0..Byte - 1) /\ Len(name) <= NameMax
  /\ result \in -1..len

(* Where the labels of a name are: behind each comes the next, and the     *)
(* last one is empty and ends the name.                                    *)
Labels(n, heads) ==
  /\ 1 \in heads
  /\ \A h \in heads : n[h] < Lab /\ IF n[h] = 0 THEN h = Len(n) ELSE h + n[h] + 1 \in heads

(* dns_packet.c:50, :63: a name that is returned ends where its labels say *)
(* that it ends, so that everybody who goes through it stops there.        *)
WellFormed == result > 0 => \E heads \in SUBSET (1..Len(name)) : Labels(name, heads)

(* dns_packet.c:18-33, :71: those who read a name and those who pass over  *)
(* it go on at one place of the packet.                                    *)
Agrees == result > 0 => result = SkipName(buf, start)

=============================================================================

-------------------------------- MODULE Wall --------------------------------
(***************************************************************************)
(* walldns.c: every address has a name, itself backwards below             *)
(* in-addr.arpa, and that name this address.                               *)
(***************************************************************************)
EXTENDS Dd

CONSTANTS
  Name,        \* names asked for
  QType        \* types asked for, "A", "PTR" and "ANY" among them

Arpa == <<"in-addr", "arpa">>

(* Names are sequences of labels; Octets numbers make an address.          *)
WallBounds == Octets \in Nat /\ \A d \in Name : d \in Seq(ToSet(d))

VARIABLES q, qtype, answer, rcode, aa
vars == <<q, qtype, answer, rcode, aa>>

Init == q = <<>> /\ qtype = "none" /\ answer = <<>> /\ rcode = "none" /\ aa = FALSE

flaga(t) == t \in {"A", "ANY"}
flagptr(t) == t \in {"PTR", "ANY"}

(* The address of a name made of numbers, or of a whole reverse name.      *)
Forward(d) ==
  CASE dd(d, <<>>) = Octets -> <<SubSeq(d, 1, Octets)>>
    [] dd(d, Arpa) = Octets -> <<Reverse(SubSeq(d, 1, Octets))>>
    [] OTHER -> <<>>

(* A reverse name, of a part of an address too, is its own name.           *)
Backward(d) == IF dd(d, <<>>) # Octets /\ dd(d, Arpa) >= 0 THEN <<d>> ELSE <<>>

InZone(d) == dd(d, <<>>) = Octets \/ dd(d, Arpa) >= 0

Respond(d, t) ==
  /\ q' = d /\ qtype' = t
  /\ IF (flaga(t) \/ flagptr(t)) /\ InZone(d)
     THEN /\ answer' = (IF flaga(t) THEN [n \in DOMAIN Forward(d) |-> [type |-> "A", data |-> Forward(d)[n]]] ELSE <<>>)
                       \o (IF flagptr(t) THEN [n \in DOMAIN Backward(d) |-> [type |-> "PTR", data |-> Backward(d)[n]]] ELSE <<>>)
          /\ rcode' = "ok" /\ aa' = TRUE
     ELSE answer' = <<>> /\ rcode' = "refused" /\ aa' = FALSE

Next == \E d \in Name, t \in QType : Respond(d, t)
Spec == Init /\ [][Next]_vars

-----------------------------------------------------------------------------
(* walldns.c:25-51: the name of an address leads back to that address, and *)
(* forward and reverse lookups of it agree.                                *)
RoundTrip ==
  /\ \A i \in 1..Len(answer) :
       answer[i].type = "A" => q \in {answer[i].data, Reverse(answer[i].data) \o Arpa}
  /\ \A i \in 1..Len(answer) : answer[i].type = "PTR" => answer[i].data = q
  /\ (rcode = "ok" /\ Len(q) = Octets + 2 /\ flaga(qtype)) =>
       \E i \in 1..Len(answer) : answer[i].type = "A"

(* walldns.c:53-56: what is no address is refused, and nothing else is.    *)
RefusedRight ==
  rcode # "none" =>
    (rcode = "refused" <=>
       ~ /\ qtype \in {"A", "PTR", "ANY"}
         /\ \/ Len(q) = Octets /\ ToSet(q) \subseteq Digits
            \/ \E n \in 0..Octets : /\ Len(q) = n + 2
                                    /\ ToSet(SubSeq(q, 1, n)) \subseteq Digits
                                    /\ SubSeq(q, n + 1, n + 2) = Arpa)

(* walldns.c:25-56: the address of a name leads back to it, and what is    *)
(* no address is refused.                                                  *)
ServedRight == RoundTrip /\ RefusedRight
=============================================================================

--------------------------- MODULE MCDnsTransmit ---------------------------
(* Two slots, each of which may be empty; a query of two bytes; answers
   without a byte and longer than the query. *)
EXTENDS DnsTransmit
============================================================================

----------------------------- MODULE MCDnscache -----------------------------
(* Two connections, so that the older loses its slot, beside a datagram     *)
(* client.                                                                 *)
EXTENDS Dnscache
=============================================================================

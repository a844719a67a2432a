------------------------------- MODULE MCQuery -------------------------------
(* A small tree of names: "x.c" has servers of its own in servers/, as the    *)
(* root has.  "a.c" and "w.x.c" may be aliases of each other, so that chains  *)
(* grow to the limit and lookups of name servers change zones.                *)
EXTENDS Query

MCNames == {".", "c", "a.c", "x.c", "w.x.c", "lo"}
MCAbove ==
    [n \in MCNames |->
       CASE n = "w.x.c" -> {"w.x.c", "x.c", "c", "."}
         [] n \in {"a.c", "x.c"} -> {n, "c", "."}
         [] OTHER -> {n, "."}]
MCCnameOf ==
    [n \in MCNames |->
       CASE n = "a.c" -> {"w.x.c", "lo"} [] n = "w.x.c" -> {"a.c"} [] OTHER -> {}]
=============================================================================

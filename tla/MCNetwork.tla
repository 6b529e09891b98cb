----------------------------- MODULE MCNetwork -----------------------------
(* The metadata node md1 and the storage node st1, which md1 connects to.  *)
EXTENDS Network

md1 == 1
st1 == 2
Nodes == {md1, st1}
Roles == [n \in Nodes |-> IF n = md1 THEN "METADATA" ELSE "STORAGE"]
=============================================================================

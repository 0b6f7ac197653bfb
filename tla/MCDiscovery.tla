---------------------------- MODULE MCDiscovery ----------------------------
(* Two slices with one Pod each.                                           *)
EXTENDS Discovery

MCPlaced == [n \in Slices |-> IF n = "s1" THEN {"p1"} ELSE {"p2"}]
=============================================================================

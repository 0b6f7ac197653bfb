----------------------------- MODULE PermitPool -----------------------------
(***************************************************************************)
(* What internal/serving/admission promises: a pool of at most MaxInflight *)
(* permits.  A permit is granted only when one is free, and only its       *)
(* holder's Release takes it back.                                         *)
(***************************************************************************)
EXTENDS Naturals, FiniteSets

CONSTANTS Requests, MaxInflight
VARIABLE held

Grant(r) == r \notin held /\ Cardinality(held) < MaxInflight /\ held' = held \cup {r}
GiveBack(r) == r \in held /\ held' = held \ {r}

Init == held = {}
Next == \E r \in Requests : Grant(r) \/ GiveBack(r)
Spec == Init /\ [][Next]_held
=============================================================================

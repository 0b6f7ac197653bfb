----------------------------- MODULE MCRuntime -----------------------------
(* Runtime for TLC: three requests dial Render at once, two are in flight  *)
(* when the process stops, and the predictor sees one after the other.     *)
EXTENDS Runtime

MCInFlight == [dial |-> Callers, train |-> {1}, stop |-> {1, 2}]
=============================================================================

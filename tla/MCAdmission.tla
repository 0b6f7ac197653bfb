---------------------------- MODULE MCAdmission ----------------------------
(* Admission with interchangeable requests.                                *)
EXTENDS Admission, TLC

Symmetry == Permutations(Requests)
=============================================================================

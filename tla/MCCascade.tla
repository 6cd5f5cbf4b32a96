----------------------------- MODULE MCCascade -----------------------------
(* Model-checking instance of Cascade: requests and apps are alike. *)
EXTENDS Cascade, TLC

Symmetry == Permutations(Task) \cup Permutations(App)
=============================================================================

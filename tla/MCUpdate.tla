------------------------------ MODULE MCUpdate ------------------------------
(* Model-checking instance of Update: requests are alike. *)
EXTENDS Update, TLC

Symmetry == Permutations(Req)
=============================================================================

------------------------------ MODULE MCBackup ------------------------------
(* Model-checking instances of Backup: each definition has a repository of its own. *)
EXTENDS Backup, TLC

CONSTANTS d1, r1, r2

TwoRepos == [d \in Defs |-> IF d = d1 THEN r1 ELSE r2]

Symmetry == Permutations(Jobs) \cup Permutations(Profiles)
=============================================================================

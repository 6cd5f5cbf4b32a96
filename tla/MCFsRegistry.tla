---------------------------- MODULE MCFsRegistry ----------------------------
(* Model-checking instance of FsRegistry: tasks, devices and names are alike. *)
EXTENDS FsRegistry, TLC

Symmetry == Permutations(Task) \cup Permutations(Dev) \cup Permutations(UserName)
=============================================================================

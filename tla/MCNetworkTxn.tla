----------------------------- MODULE MCNetworkTxn -----------------------------
(* Model-checking instances of NetworkTxn: handlers and transaction ids are   *)
(* interchangeable.                                                           *)
EXTENDS NetworkTxn, TLC

Symmetry == Permutations(Handlers) \cup Permutations(TxnIds)
===============================================================================

------------------------------- MODULE MCMVCC -------------------------------
(* MVCC on a small instance. *)
EXTENDS MVCC, TLC

\* Keys, values and transactions are interchangeable.
Symmetry == Permutations(Keys) \cup Permutations(Values) \cup Permutations(Txs)
=============================================================================

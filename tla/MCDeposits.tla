----------------------------- MODULE MCDeposits -----------------------------
(* Deposits on small instances: the number of keys bounds the number of deposits. *)
EXTENDS Deposits, TLC

Symmetry == Permutations(Items) \cup Permutations(Keys) \cup Permutations(Handlers)
=============================================================================

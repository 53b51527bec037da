-------------------------- MODULE MCLawyerSession --------------------------
(* LawyerSession on small instances: the number of tokens bounds the renewals. *)
EXTENDS LawyerSession, TLC

Symmetry == Permutations(Tokens) \cup Permutations(Tabs) \cup Permutations(Calls)
=============================================================================

--------------------------- MODULE MCLawyerScreens ---------------------------
(* LawyerScreens on small instances. *)
EXTENDS LawyerScreens, TLC

Symmetry == Permutations(Requests) \cup Permutations(Loads)
=============================================================================

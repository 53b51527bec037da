--------------------------- MODULE MCPublicLinks ---------------------------
(* PublicLinks on small instances. Only the clock is bounded by a guard (Tick). *)
EXTENDS PublicLinks, TLC

Symmetry == Permutations(Links) \cup Permutations(Handlers)
=============================================================================

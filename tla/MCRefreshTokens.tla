-------------------------- MODULE MCRefreshTokens --------------------------
(* RefreshTokens on small instances. Only the clock is bounded by a guard (Tick). *)
EXTENDS RefreshTokens, TLC

Symmetry == Permutations(Tokens) \cup Permutations(Handlers)
=============================================================================

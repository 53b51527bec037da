--------------------------- MODULE MCClientAccess ---------------------------
(* ClientAccess on small instances: two dossiers, of which one has the     *)
(* pieces and may have several links.                                      *)
EXTENDS ClientAccess, TLC

CONSTANTS kB, dA, dB

MCDossierOf == [k \in Links |-> IF k = kB THEN dB ELSE dA]
MCPieceOf == [i \in Items |-> dA]
Symmetry == Permutations(Tabs) \cup Permutations(Handlers) \cup Permutations(Items)
                \cup Permutations(Links \ {kB})
=============================================================================

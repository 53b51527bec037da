----------------------------- MODULE DepositBox -----------------------------
(***************************************************************************)
(* What a deposit request promises about its pieces, with every deposit    *)
(* atomic: a piece has no document or one that can be opened, a deposit    *)
(* replaces it in a single step by a document never held before, and a     *)
(* piece that has a document is not left without one. The exception is a   *)
(* document recorded in doubt, by a deposit that was told it had failed.   *)
(***************************************************************************)
CONSTANTS Items, Keys, Null

VARIABLES
    document,    \* the document of each piece, Null while it has none
    held,        \* every document a piece ever had
    doubtful     \* those recorded by a deposit that was told it had failed

bvars == <<document, held, doubtful>>

BInit ==
    /\ document = [i \in Items |-> Null]
    /\ held = {} /\ doubtful = {}

Accept(i, k) ==
    /\ k \notin held
    /\ document' = [document EXCEPT ![i] = k]
    /\ held' = held \cup {k}
    /\ doubtful' \in {doubtful, doubtful \cup {k}}

Lose(i) ==
    /\ document[i] \in doubtful
    /\ document' = [document EXCEPT ![i] = Null]
    /\ UNCHANGED <<held, doubtful>>

BNext == \E i \in Items : Lose(i) \/ \E k \in Keys : Accept(i, k)

BSpec == BInit /\ [][BNext]_bvars

-----------------------------------------------------------------------------
\* A piece that has a document, not one in doubt, is never without one again; and what takes its
\* place is new: a document that was replaced does not come back.
OnlyNewOnes ==
    \A i \in Items :
        /\ document[i] # Null /\ document'[i] = Null => document[i] \in doubtful
        /\ document'[i] # Null /\ document'[i] # document[i] => document'[i] \notin held
DocumentsAreKept == [][OnlyNewOnes]_bvars
=============================================================================

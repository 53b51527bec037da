---------------------------- MODULE SessionChain ----------------------------
(***************************************************************************)
(* What RefreshTokenService promises, with every operation atomic: a login *)
(* opens a chain of one token, a renewal replaces the chain's only usable  *)
(* token by a new one in a single step, and a logout, a detected reuse, a  *)
(* purge or the deletion of the account ends chains for good.              *)
(***************************************************************************)
CONSTANTS Tokens, Null

VARIABLES
    heads,      \* the tokens that can be renewed
    familyOf    \* the chain each token ever issued belongs to, Null before

svars == <<heads, familyOf>>

SInit ==
    /\ heads = {}
    /\ familyOf = [t \in Tokens |-> Null]

Open(s) ==
    /\ familyOf[s] = Null
    /\ heads' = heads \cup {s}
    /\ familyOf' = [familyOf EXCEPT ![s] = s]

Renew(t, s) ==
    /\ t \in heads
    /\ familyOf[s] = Null
    /\ heads' = (heads \ {t}) \cup {s}
    /\ familyOf' = [familyOf EXCEPT ![s] = familyOf[t]]

End(ended) ==
    /\ ended # {}
    /\ heads' = heads \ ended
    /\ UNCHANGED familyOf

SNext ==
    \/ \E s \in Tokens : Open(s)
    \/ \E t, s \in Tokens : Renew(t, s)
    \/ \E ended \in SUBSET heads : End(ended)

SSpec == SInit /\ [][SNext]_svars

-----------------------------------------------------------------------------
ChainOf(f) == {t \in heads : familyOf[t] = f}

\* A session has at most one usable token.
OneHeadPerChain == \A t, u \in heads : familyOf[t] = familyOf[u] => t = u

\* A session that was opened and has no usable token left never has one again.
NoneComesBack == \A f \in Tokens : familyOf[f] # Null /\ ChainOf(f) = {} => ChainOf(f)' = {}
EndedForGood == [][NoneComesBack]_svars

\* A token belongs to one session for ever, and once spent is never usable again.
SpentStays ==
    \A t \in Tokens : familyOf[t] # Null =>
        familyOf'[t] = familyOf[t] /\ (t \notin heads => t \notin heads')
SpentForGood == [][SpentStays]_svars
=============================================================================

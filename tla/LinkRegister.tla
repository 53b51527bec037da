---------------------------- MODULE LinkRegister ----------------------------
(***************************************************************************)
(* What PublicLinksService promises, with every operation atomic: a        *)
(* request has at most one link that opens it, issuing a link replaces the *)
(* one before in a single step, and a link that stopped being the current  *)
(* one never is again.                                                     *)
(***************************************************************************)
CONSTANTS Links, Requests

VARIABLES
    current,    \* for each request, the set of its usable links: none, or one
    issued      \* every link ever issued

rvars == <<current, issued>>

RInit ==
    /\ current = [r \in Requests |-> {}]
    /\ issued = {}

IssueLink(r, k) ==
    /\ k \notin issued
    /\ current' = [current EXCEPT ![r] = {k}]
    /\ issued' = issued \cup {k}

Cut(r) ==
    /\ current' = [current EXCEPT ![r] = {}]
    /\ UNCHANGED issued

RNext == \E r \in Requests : Cut(r) \/ \E k \in Links : IssueLink(r, k)

RSpec == RInit /\ [][RNext]_rvars

-----------------------------------------------------------------------------
\* A link that stopped opening its request never opens one again.
CutStays == \A k \in issued, r \in Requests : k \notin current[r] => k \notin current'[r]
CutForGood == [][CutStays]_rvars
=============================================================================

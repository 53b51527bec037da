---------------------------- MODULE RefreshTokens ----------------------------
(***************************************************************************)
(* Sessions of a lawyer: RefreshTokenService (issue, rotate, logout, purge) *)
(* with the AuthService and AuthController steps around it, run by         *)
(* concurrent request handlers over one PostgreSQL table at READ COMMITTED.*)
(*                                                                         *)
(* `table` is the COMMITTED content of "RefreshToken". A handler between    *)
(* Claim and Append is inside the rotation's $transaction: it holds the     *)
(* lock of the row it claimed, and nobody sees its two writes before the    *)
(* commit. updateMany and deleteMany take many steps: the statement's       *)
(* snapshot chooses the rows, then it waits for them and locks them one by  *)
(* one, in an order PostgreSQL does not promise, re-evaluating its WHERE on *)
(* the row it finds, and commits.                                           *)
(*                                                                         *)
(* A token stands for itself and for its hash. A family is named by the     *)
(* first token issued in it. Time is a clock all handlers read.             *)
(***************************************************************************)
EXTENDS Naturals

CONSTANTS
    Tokens,       \* every token the generator may draw (each drawn once)
    Lawyers,      \* the accounts
    Handlers,     \* the HTTP requests that can be in flight at once
    SessionTtl,   \* SESSION_EXPIRES, in ticks
    IdleTtl,      \* SESSION_IDLE_EXPIRES, in ticks
    RaceWindow,   \* RACE_WINDOW_MS, in ticks
    MaxTime,      \* bound of the clock
    Null

ASSUME TtlAssumption ==
    /\ SessionTtl \in Nat /\ IdleTtl \in Nat /\ RaceWindow \in Nat /\ MaxTime \in Nat
    /\ IdleTtl < SessionTtl

VARIABLES
    clock,
    accounts,     \* the rows of "Lawyer"
    table,        \* the committed rows of "RefreshToken", by token
    closing,      \* the accounts with an open DELETE: it has locked the row of "Lawyer"
    req,          \* what each handler is doing
    minted        \* history: what each token was created as, kept after its row is purged

vars == <<clock, accounts, table, closing, req, minted>>

Row == [family : Tokens, lawyer : Lawyers, expiresAt : Nat, idleExpiresAt : Nat,
        revokedAt : Nat \cup {Null}]

Birth == [family : Tokens, parent : Tokens \cup {Null}, lawyer : Lawyers, ceiling : Nat]

ASSUME NullAssumption ==
    /\ Null \notin Nat /\ Null \notin Tokens /\ Null \notin Lawyers
    /\ Null \notin Row /\ Null \notin Birth

\* Answers by what they do to the cookies: set (a login, a renewal), left alone (a 401 'raced'),
\* or cleared (a 401 'unknown', 'expired' or 'reused', and the 204 of a logout).
Outcomes == {"set", "raced", "ended"}

\* A pc names the await the handler is suspended on.
Request == [pc : {"idle", "purge", "issue", "read", "claim", "append", "reread",
                  "revoke", "revoking", "answered"},
            lawyer : Lawyers \cup {Null},
            token : Tokens \cup {Null},      \* the token presented
            row : Row \cup {Null},           \* the row as it was read
            family : Tokens \cup {Null},     \* the family to revoke
            at : Nat,                        \* the `new Date()` a statement carries
            targets : SUBSET Tokens,         \* the rows a statement's snapshot chose, still to lock
            held : SUBSET Tokens,            \* the rows its open transaction has locked
            seen : SUBSET Tokens,            \* history: the family's tokens at that moment
            outcome : Outcomes \cup {Null}]

Free == [pc |-> "idle", lawyer |-> Null, token |-> Null, row |-> Null,
         family |-> Null, at |-> 0, targets |-> {}, held |-> {}, seen |-> {},
         outcome |-> Null]

Stored(t) == table[t] # Null
Live(t) == Stored(t) /\ table[t].revokedAt = Null
Fresh(t) == minted[t] = Null

LockedForOthers(h, t) == \E g \in Handlers \ {h} : t \in req[g].held

Init ==
    /\ clock = 0
    /\ accounts = Lawyers
    /\ closing = {}
    /\ table = [t \in Tokens |-> Null]
    /\ req = [h \in Handlers |-> Free]
    /\ minted = [t \in Tokens |-> Null]

Await(h, r) == req' = [req EXCEPT ![h] = r]

Answer(h, outcome) == Await(h, [Free EXCEPT !.pc = "answered", !.outcome = outcome])

\* Faulty variant: the idle deadline is never set.
NewRowWithoutIdle(family, lawyer, expiresAt) ==
    [family |-> family, lawyer |-> lawyer, expiresAt |-> expiresAt,
     idleExpiresAt |-> Null, revokedAt |-> Null]

\* `append`: expiresAt is what it is given, the idle deadline is dated from now.
NewRow(family, lawyer, expiresAt) ==
    [family |-> family, lawyer |-> lawyer, expiresAt |-> expiresAt,
     idleExpiresAt |-> clock + IdleTtl, revokedAt |-> Null]

-----------------------------------------------------------------------------
(* Operations with a plausible mistake, against which the properties are tried. *)

\* Faulty variant: purges on the idle deadline.
LoginPurgingIdle(h, l) ==
    LET expired == {t \in Tokens : /\ Stored(t)
                                   /\ table[t].lawyer = l
                                   /\ table[t].idleExpiresAt < clock}
    IN
    /\ req[h].pc = "idle"
    /\ l \in accounts
    /\ Await(h, [Free EXCEPT !.pc = IF expired = {} THEN "issue" ELSE "purge",
                             !.lawyer = l, !.targets = expired])
    /\ UNCHANGED <<clock, accounts, table, closing, minted>>

\* Faulty variant: read-then-write, the update does not repeat `revokedAt: null`.
ClaimWithoutCompare(h) ==
    /\ req[h].pc = "claim"
    /\ ~LockedForOthers(h, req[h].token)
    /\ Stored(req[h].token)
    /\ Await(h, [req[h] EXCEPT !.pc = "append", !.held = {req[h].token}])
    /\ UNCHANGED <<clock, accounts, table, closing, minted>>

\* Faulty variant: the claim is committed on its own, outside the transaction.
ClaimCommitted(h) ==
    LET t == req[h].token IN
    /\ req[h].pc = "claim"
    /\ ~LockedForOthers(h, t)
    /\ Live(t)
    /\ table' = [table EXCEPT ![t].revokedAt = req[h].at]
    /\ Await(h, [req[h] EXCEPT !.pc = "append"])
    /\ UNCHANGED <<clock, accounts, closing, minted>>

\* Faulty variant: the ceiling is dated from the renewal.
AppendWithNewCeiling(h, s) ==
    LET t == req[h].token
        row == req[h].row
    IN
    /\ req[h].pc = "append"
    /\ Fresh(s)
    /\ table' = [table EXCEPT ![t].revokedAt = req[h].at,
                              ![s] = NewRow(row.family, row.lawyer, clock + SessionTtl)]
    /\ minted' = [minted EXCEPT ![s] = [family |-> row.family, parent |-> t,
                                        lawyer |-> row.lawyer, ceiling |-> clock + SessionTtl]]
    /\ Await(h, [Free EXCEPT !.pc = "reread", !.lawyer = row.lawyer])
    /\ UNCHANGED <<clock, accounts, closing>>

\* Faulty variant: revokes the token the family is named by, not the family.
RevokeStartOfToken(h) ==
    LET seen == {t \in Tokens : Stored(t) /\ table[t].family = req[h].family} IN
    /\ req[h].pc = "revoke"
    /\ Await(h, [req[h] EXCEPT !.pc = "revoking", !.at = clock, !.seen = seen,
                               !.targets = {t \in seen : Live(t) /\ t = req[h].family}])
    /\ UNCHANGED <<clock, accounts, table, closing, minted>>

\* Faulty variant: the updateMany of revokeFamily leaves `revokedAt: null` out of its where.
RevokeStartOfAll(h) ==
    LET seen == {t \in Tokens : Stored(t) /\ table[t].family = req[h].family} IN
    /\ req[h].pc = "revoke"
    /\ Await(h, [req[h] EXCEPT !.pc = "revoking", !.at = clock, !.seen = seen,
                               !.targets = seen])
    /\ UNCHANGED <<clock, accounts, table, closing, minted>>

-----------------------------------------------------------------------------
(* POST /auth/login: purgeExpired, then issue. *)

\* Credentials accepted; the deleteMany of purgeExpired takes its snapshot.
Login(h, l) ==
    LET expired == {t \in Tokens : /\ Stored(t)
                                   /\ table[t].lawyer = l
                                   /\ table[t].expiresAt < clock}
    IN
    /\ req[h].pc = "idle"
    /\ l \in accounts
    /\ Await(h, [Free EXCEPT !.pc = IF expired = {} THEN "issue" ELSE "purge",
                             !.lawyer = l, !.targets = expired])
    /\ UNCHANGED <<clock, accounts, table, closing, minted>>

\* The statement comes to a row of its snapshot, once nobody else holds it; a row deleted in
\* the meantime is passed over.
Lock(h) ==
    /\ req[h].pc \in {"purge", "revoking"}
    /\ \E t \in req[h].targets :
          /\ ~LockedForOthers(h, t)
          /\ Await(h, [req[h] EXCEPT !.targets = @ \ {t},
                                     !.held = IF Stored(t) THEN @ \cup {t} ELSE @])
    /\ UNCHANGED <<clock, accounts, table, closing, minted>>

Purge(h) ==
    /\ req[h].pc = "purge"
    /\ req[h].targets = {}
    /\ table' = [t \in Tokens |-> IF t \in req[h].held THEN Null ELSE table[t]]
    /\ Await(h, [req[h] EXCEPT !.pc = "issue", !.held = {}])
    /\ UNCHANGED <<clock, accounts, closing, minted>>

\* The foreign key of an INSERT locks the row of the account: it waits for a DELETE of it, and
\* fails (see Fail) when the account is gone.
CanReference(l) == l \in accounts \ closing

Issue(h, s) ==
    /\ req[h].pc = "issue"
    /\ CanReference(req[h].lawyer)
    /\ Fresh(s)
    /\ table' = [table EXCEPT ![s] = NewRow(s, req[h].lawyer, clock + SessionTtl)]
    /\ minted' = [minted EXCEPT ![s] = [family |-> s, parent |-> Null, lawyer |-> req[h].lawyer,
                                        ceiling |-> clock + SessionTtl]]
    /\ Answer(h, "set")
    /\ UNCHANGED <<clock, accounts, closing>>

-----------------------------------------------------------------------------
(* POST /auth/refresh: rotate, then the account is re-read. *)

Present(h, t) ==
    /\ req[h].pc = "idle"
    /\ Await(h, [Free EXCEPT !.pc = "read", !.token = t, !.row = table[t]])
    /\ UNCHANGED <<clock, accounts, table, closing, minted>>

\* The row is back from findUnique: every refusal is decided on it, at the clock of now.
Decide(h) ==
    LET row == req[h].row IN
    /\ req[h].pc = "read"
    /\ \/ /\ row = Null
          /\ Answer(h, "ended")
       \/ /\ row # Null
          /\ row.revokedAt # Null
          /\ clock < row.revokedAt + RaceWindow
          /\ Answer(h, "raced")
       \/ /\ row # Null
          /\ row.revokedAt # Null
          /\ clock >= row.revokedAt + RaceWindow
          /\ Await(h, [Free EXCEPT !.pc = "revoke", !.family = row.family])
       \/ /\ row # Null
          /\ row.revokedAt = Null
          /\ row.expiresAt <= clock \/ row.idleExpiresAt <= clock
          /\ Answer(h, "ended")
       \/ /\ row # Null
          /\ row.revokedAt = Null
          /\ row.expiresAt > clock /\ row.idleExpiresAt > clock
          /\ Await(h, [req[h] EXCEPT !.pc = "claim", !.at = clock])
    /\ UNCHANGED <<clock, accounts, table, closing, minted>>

\* updateMany where {tokenHash, revokedAt: null}: waits for the row, then re-evaluates. Its
\* `new Date()` was read once the transaction had begun.
Claim(h) ==
    LET t == req[h].token IN
    /\ req[h].pc = "claim"
    /\ ~LockedForOthers(h, t)
    /\ \/ /\ Live(t)
          /\ \E at \in req[h].at .. clock :
                Await(h, [req[h] EXCEPT !.pc = "append", !.at = at, !.held = {t}])
       \/ /\ ~Live(t)
          /\ Answer(h, "raced")
    /\ UNCHANGED <<clock, accounts, table, closing, minted>>

\* The successor is inserted and the transaction commits: both writes become visible.
Append(h, s) ==
    LET t == req[h].token
        row == req[h].row
    IN
    /\ req[h].pc = "append"
    /\ CanReference(row.lawyer)
    /\ Fresh(s)
    /\ table' = [table EXCEPT ![t].revokedAt = req[h].at,
                              ![s] = NewRow(row.family, row.lawyer, row.expiresAt)]
    /\ minted' = [minted EXCEPT ![s] = [family |-> row.family, parent |-> t,
                                        lawyer |-> row.lawyer, ceiling |-> row.expiresAt]]
    /\ Await(h, [Free EXCEPT !.pc = "reread", !.lawyer = row.lawyer])
    /\ UNCHANGED <<clock, accounts, closing>>

Reread(h) ==
    /\ req[h].pc = "reread"
    /\ \/ /\ req[h].lawyer \in accounts
          /\ Answer(h, "set")
       \/ /\ req[h].lawyer \notin accounts
          /\ Answer(h, "ended")
    /\ UNCHANGED <<clock, accounts, table, closing, minted>>

-----------------------------------------------------------------------------
(* POST /auth/logout, and revokeFamily, which a detected reuse calls too. *)

Logout(h, t) ==
    /\ req[h].pc = "idle"
    /\ \/ /\ ~Stored(t)
          /\ Answer(h, "ended")
       \/ /\ Stored(t)
          /\ Await(h, [Free EXCEPT !.pc = "revoke", !.family = table[t].family])
    /\ UNCHANGED <<clock, accounts, table, closing, minted>>

\* The updateMany of revokeFamily is called and takes its snapshot, in one step; when that
\* holds no row to update, it is over.
RevokeStart(h) ==
    LET seen == {t \in Tokens : Stored(t) /\ table[t].family = req[h].family}
        live == {t \in seen : Live(t)}
    IN
    /\ req[h].pc = "revoke"
    /\ \/ /\ live # {}
          /\ Await(h, [req[h] EXCEPT !.pc = "revoking", !.at = clock, !.seen = seen,
                                     !.targets = live])
       \/ /\ live = {}
          /\ Answer(h, "ended")
    /\ UNCHANGED <<clock, accounts, table, closing, minted>>

RevokeApply(h) ==
    /\ req[h].pc = "revoking"
    /\ req[h].targets = {}
    /\ table' = [t \in Tokens |-> IF t \in req[h].held /\ Live(t)
                                  THEN [table[t] EXCEPT !.revokedAt = req[h].at]
                                  ELSE table[t]]
    /\ Answer(h, "ended")
    /\ UNCHANGED <<clock, accounts, closing, minted>>

-----------------------------------------------------------------------------
(* Failures and the surroundings. *)

\* A statement fails (a deadlock PostgreSQL breaks, a foreign key to an account that is gone),
\* or the backend dies: the open transaction rolls back, nothing else is undone, and the caller
\* gets a 500, or nothing at all.
Fail(h) ==
    /\ req[h].pc \notin {"idle", "answered"}
    /\ Await(h, Free)
    /\ UNCHANGED <<clock, accounts, table, closing, minted>>

\* The response leaves; the handler is free for another request.
Respond(h) ==
    /\ req[h].pc = "answered"
    /\ Await(h, Free)
    /\ UNCHANGED <<clock, accounts, table, closing, minted>>

\* External: no route deletes an account, but an operator may. The DELETE locks the row of the
\* account: from then on nothing can reference it.
DeleteAccount(l) ==
    /\ l \in accounts \ closing
    /\ closing' = closing \cup {l}
    /\ UNCHANGED <<clock, accounts, table, req, minted>>

\* Its cascade then waits for the account's rows, and it commits. The rows the cascade already
\* has while it waits for another only delay who wants them, so it takes them all here.
Deleted(l) ==
    LET rows == {t \in Tokens : Stored(t) /\ table[t].lawyer = l} IN
    /\ l \in closing
    /\ \A h \in Handlers : req[h].held \cap rows = {}
    /\ accounts' = accounts \ {l}
    /\ table' = [t \in Tokens |-> IF t \in rows THEN Null ELSE table[t]]
    /\ closing' = closing \ {l}
    /\ UNCHANGED <<clock, req, minted>>

\* It rolls back: given up, or chosen to break the deadlock with a rotation, which waits for
\* the account's row while the cascade waits for the token it has claimed.
DeletionFails(l) ==
    /\ l \in closing
    /\ closing' = closing \ {l}
    /\ UNCHANGED <<clock, accounts, table, req, minted>>

Tick ==
    /\ clock < MaxTime
    /\ clock' = clock + 1
    /\ UNCHANGED <<accounts, table, closing, req, minted>>

Progress(h) ==
    \/ Lock(h) \/ Purge(h) \/ (\E s \in Tokens : Issue(h, s))
    \/ Decide(h) \/ Claim(h) \/ (\E s \in Tokens : Append(h, s)) \/ Reread(h)
    \/ RevokeStart(h) \/ RevokeApply(h)

Arrive(h) ==
    \/ \E l \in Lawyers : Login(h, l)
    \/ \E t \in Tokens : Present(h, t) \/ Logout(h, t)

Next ==
    \/ \E h \in Handlers : Arrive(h) \/ Progress(h) \/ Fail(h) \/ Respond(h)
    \/ \E l \in Lawyers : DeleteAccount(l) \/ Deleted(l) \/ DeletionFails(l)
    \/ Tick

Spec == Init /\ [][Next]_vars

-----------------------------------------------------------------------------
TypeOK ==
    /\ clock \in Nat
    /\ accounts \in SUBSET Lawyers
    /\ closing \in SUBSET Lawyers
    /\ table \in [Tokens -> Row \cup {Null}]
    /\ req \in [Handlers -> Request]
    /\ minted \in [Tokens -> Birth \cup {Null}]

\* Two requests presenting one cookie never both win: a family has at most one token that
\* can still be rotated (the compare-and-set of `rotate`).
OneLiveTokenPerFamily ==
    \A s, t \in Tokens :
        Live(s) /\ Live(t) /\ table[s].family = table[t].family => s = t

\* The chain never forks: a token is succeeded at most once, whatever happened since.
ChainNeverForks ==
    \A s, t \in Tokens :
        /\ ~Fresh(s) /\ ~Fresh(t)
        /\ minted[s].parent # Null
        /\ minted[s].parent = minted[t].parent
        => s = t

\* `append` copies the ceiling: however often it is renewed, no token of a session outlives
\* SESSION_EXPIRES counted from the login that opened it, nor changes hands.
CeilingNeverMoves ==
    \A s \in Tokens : ~Fresh(s) =>
        LET first == minted[minted[s].family] IN
        /\ first # Null
        /\ minted[s].ceiling = first.ceiling /\ minted[s].lawyer = first.lawyer
        /\ Stored(s) => table[s].expiresAt = first.ceiling /\ table[s].lawyer = first.lawyer

\* A replayed token is recognised as long as its session may last: purgeExpired never takes
\* a row of a session whose ceiling is still ahead.
ReuseRecognisable ==
    \A t \in Tokens :
        ~Fresh(t) /\ minted[t].ceiling >= clock /\ minted[t].lawyer \in accounts => Stored(t)

\* The claim and the successor are one transaction: a token is never spent for nothing. It
\* stops being live in the step that commits its successor, or in a revocation of its family.
NoTokenSpentForNothing ==
    [][\A t \in Tokens :
          Live(t) /\ ~Live(t)' /\ Stored(t)' =>
              \/ \E s \in Tokens : Fresh(s) /\ ~Fresh(s)' /\ minted'[s].parent = t
              \/ \E h \in Handlers : req[h].pc = "revoking" /\ t \in req[h].held]_vars

\* Once a logout or a detected reuse is answered, every token its snapshot could see is dead;
\* only the successor of a rotation that committed after the snapshot can be alive.
RevocationKillsWhatItSaw ==
    [][\A h \in Handlers :
          req[h].pc = "revoking" /\ req'[h].pc = "answered" =>
              \A t \in req[h].seen : ~Live(t)']_vars

\* "a copied cookie stops working immediately" (auth.controller.ts, logout) and "the chain
\* goes" (rotate): when a revocation is answered, no token of the family is live. Violated: a
\* rotation that holds its claim commits a successor the revocation's snapshot cannot see.
RevocationEndsSession ==
    [][\A h \in Handlers :
          req[h].pc = "revoking" /\ req'[h].pc = "answered" =>
              \A t \in Tokens : Live(t)' => table'[t].family # req[h].family]_vars

\* The rows h still has to lock, and what g holds of them.
Wanted(h) ==
    req[h].targets \cup {t \in Tokens : req[h].pc = "claim" /\ req[h].token = t}
WaitsFor(h, g) == g # h /\ Wanted(h) \cap req[g].held # {}

\* Requests in a cycle of waits are all purges of one account: what stands between two others
\* is a purge. A rotation locks its one row and then waits for no other (refresh-token.service.ts
\* `rotate`), and a revocation has one row to lock at most, because its family has at most one
\* live token; so two tabs that renew, log out and replay each other's cookies never deadlock.
OnlyPurgesDeadlock ==
    \A g, h, k \in Handlers :
        WaitsFor(g, h) /\ WaitsFor(h, k) =>
            /\ req[h].pc = "purge"
            /\ req[k].pc = "purge" => req[k].lawyer = req[h].lawyer

-----------------------------------------------------------------------------
Chain == INSTANCE SessionChain WITH
    heads <- {t \in Tokens : Live(t)},
    familyOf <- [t \in Tokens |-> IF Fresh(t) THEN Null ELSE minted[t].family]

\* Claim, successor, commit, revocation and purge, interleaved with the reads that precede
\* them, amount to atomic operations on chains: in particular a chain that has no live token
\* left never has one again, whatever a handler read before.
ImplementsSessionChain == Chain!SSpec
=============================================================================

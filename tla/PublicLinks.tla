----------------------------- MODULE PublicLinks -----------------------------
(***************************************************************************)
(* The public links of a deposit request: RequestsService.create, the      *)
(* regenerate and revoke of PublicLinksService, and the seed, run by        *)
(* concurrent handlers over one PostgreSQL table at READ COMMITTED; and the *)
(* two readings of that table, resolve (a client's token) and LAST_LINK     *)
(* (the lawyer's dashboard).                                               *)
(*                                                                         *)
(* `links` is the COMMITTED content of "PublicLink". A handler at "insert"  *)
(* is inside regenerate's $transaction: it has dated the revocation of its  *)
(* targets, holds their locks, and nobody sees that before the commit. The  *)
(* updateMany is two steps, as in RefreshTokens: the snapshot chooses the   *)
(* rows, then it waits for their locks and re-evaluates its WHERE.          *)
(***************************************************************************)
EXTENDS Naturals

CONSTANTS
    Links,       \* a link stands for its row, its token and the token's hash
    Requests,
    Demo,        \* the request the seed looks for by its title
    Lawyers,
    Seeder,      \* the demonstration account
    Handlers,    \* HTTP requests, or a run of the seed, in flight at once
    Validities,  \* the values of expiresInDays, in ticks
    MaxTime,     \* bound of the clock
    Null

VARIABLES
    clock,
    owner,       \* the rows of "DepositRequest": the lawyer, or Null while it is not created
    links,       \* the committed rows of "PublicLink"
    job          \* what each handler is doing

vars == <<clock, owner, links, job>>

Row == [request : Requests, createdAt : Nat, expiresAt : Nat, revokedAt : Nat \cup {Null}]

\* A 2xx, or one of the refusals: 404 not owned, 409 raced.
Answers == {"done", "refused"}

Job == [pc : {"idle", "create", "seed", "seeded", "update", "updating", "insert", "answered"},
        op : {"regenerate", "revoke"} \cup {Null},
        request : Requests \cup {Null},
        lawyer : Lawyers \cup {Null},
        at : Nat,                \* the `now` the operation read
        validity : Nat,
        targets : SUBSET Links,  \* the rows a statement's snapshot chose, then those it locks
        seen : SUBSET Links,     \* history: the links that worked when the operation was asked
        answer : Answers \cup {Null}]

ASSUME ConstantsAssumption ==
    /\ Demo \in Requests /\ Seeder \in Lawyers
    /\ Validities \subseteq Nat /\ MaxTime \in Nat

ASSUME NullAssumption ==
    /\ Null \notin Nat /\ Null \notin Links /\ Null \notin Requests /\ Null \notin Lawyers
    /\ Null \notin Row

Free == [pc |-> "idle", op |-> Null, request |-> Null, lawyer |-> Null, at |-> 0, validity |-> 0,
         targets |-> {}, seen |-> {}, answer |-> Null]

Issued(k) == links[k] # Null
Active(k) == Issued(k) /\ links[k].revokedAt = Null
LinksOf(r) == {k \in Links : Issued(k) /\ links[k].request = r}
ActiveOf(r) == {k \in LinksOf(r) : Active(k)}

\* g's transaction has updated the row of k and has not committed.
LockedForOthers(h, k) == \E g \in Handlers \ {h} : job[g].pc = "insert" /\ k \in job[g].targets

-----------------------------------------------------------------------------
(* The two readings. *)

IsExpired(expiresAt, now) == now > expiresAt

\* Faulty variant: at the exact deadline the link no longer opens, for the client only.
ResolveAtTheDeadline(k, now) ==
    IF ~Issued(k) THEN "unknown"
    ELSE IF links[k].revokedAt # Null THEN "revoked"
    ELSE IF now >= links[k].expiresAt THEN "expired"
    ELSE "ok"

\* PublicLinksService.resolve: a revocation is reported before an expiry.
Resolve(k, now) ==
    IF ~Issued(k) THEN "unknown"
    ELSE IF links[k].revokedAt # Null THEN "revoked"
    ELSE IF IsExpired(links[k].expiresAt, now) THEN "expired"
    ELSE "ok"

\* Faulty variant: ordered on createdAt alone.
SortsBeforeByCreation(j, k) == links[j].createdAt > links[k].createdAt

\* orderBy: revokedAt desc nulls first, then createdAt desc.
SortsBefore(j, k) ==
    LET rj == links[j]
        rk == links[k]
    IN
    \/ rj.revokedAt = Null /\ rk.revokedAt # Null
    \/ rj.revokedAt # Null /\ rk.revokedAt # Null /\ rj.revokedAt > rk.revokedAt
    \/ rj.revokedAt = rk.revokedAt /\ rj.createdAt > rk.createdAt

\* The rows LAST_LINK's `take: 1` may return: PostgreSQL orders ties as it likes.
LastLinks(r) == {k \in LinksOf(r) : \A j \in LinksOf(r) : ~SortsBefore(j, k)}

-----------------------------------------------------------------------------
Init ==
    /\ clock = 0
    /\ owner = [r \in Requests |-> Null]
    /\ links = [k \in Links |-> Null]
    /\ job = [h \in Handlers |-> Free]

Become(h, j) == job' = [job EXCEPT ![h] = j]
Answer(h, answer) == Become(h, [Free EXCEPT !.pc = "answered", !.answer = answer])

\* Faulty variant: the deadline is never set.
NewRowWithoutDeadline(h, r, createdAt) ==
    [request |-> r, createdAt |-> createdAt, expiresAt |-> Null, revokedAt |-> Null]

\* A row inserted now. PostgreSQL or Prisma dates it from somewhere between the operation's
\* own clock reading and the insert.
NewRow(h, r, createdAt) ==
    [request |-> r, createdAt |-> createdAt, expiresAt |-> job[h].at + job[h].validity,
     revokedAt |-> Null]

-----------------------------------------------------------------------------
(* Operations with a plausible mistake, against which the properties are tried. *)

\* Faulty variant: there is no partial unique index, an insert never conflicts.
InsertWithoutIndex(h, k) ==
    LET r == job[h].request IN
    /\ job[h].pc = "insert"
    /\ ~Issued(k)
    /\ \E createdAt \in job[h].at .. clock :
          links' = [j \in Links |->
                      IF j = k THEN NewRow(h, r, createdAt)
                      ELSE IF j \in job[h].targets THEN [links[j] EXCEPT !.revokedAt = job[h].at]
                      ELSE links[j]]
    /\ Answer(h, "done")
    /\ UNCHANGED <<clock, owner>>

\* Faulty variant: rows another transaction has locked are skipped instead of waited for.
UpdateSkippingLocked(h) ==
    LET found == {k \in job[h].targets : Active(k) /\ ~LockedForOthers(h, k)} IN
    /\ job[h].pc = "updating"
    /\ \/ /\ job[h].op = "revoke"
          /\ links' = [k \in Links |-> IF k \in found
                                       THEN [links[k] EXCEPT !.revokedAt = job[h].at]
                                       ELSE links[k]]
          /\ Answer(h, "done")
       \/ /\ job[h].op = "regenerate"
          /\ Become(h, [job[h] EXCEPT !.pc = "insert", !.targets = found])
          /\ UNCHANGED links
    /\ UNCHANGED <<clock, owner>>

\* Faulty variant: the WHERE is not evaluated again on the rows found behind a lock.
UpdateWithoutRecheck(h) ==
    LET found == job[h].targets IN
    /\ job[h].pc = "updating"
    /\ \A k \in job[h].targets : ~LockedForOthers(h, k)
    /\ \/ /\ job[h].op = "revoke"
          /\ links' = [k \in Links |-> IF k \in found
                                       THEN [links[k] EXCEPT !.revokedAt = job[h].at]
                                       ELSE links[k]]
          /\ Answer(h, "done")
       \/ /\ job[h].op = "regenerate"
          /\ Become(h, [job[h] EXCEPT !.pc = "insert", !.targets = found])
          /\ UNCHANGED links
    /\ UNCHANGED <<clock, owner>>

\* Faulty variant: regenerate's two writes are not one transaction.
UpdateOutsideTransaction(h) ==
    LET found == {k \in job[h].targets : Active(k)} IN
    /\ job[h].pc = "updating"
    /\ links' = [k \in Links |-> IF k \in found
                                 THEN [links[k] EXCEPT !.revokedAt = job[h].at]
                                 ELSE links[k]]
    /\ \/ job[h].op = "revoke" /\ Answer(h, "done")
       \/ /\ job[h].op = "regenerate"
          /\ Become(h, [job[h] EXCEPT !.pc = "insert", !.targets = {}])
    /\ UNCHANGED <<clock, owner>>

-----------------------------------------------------------------------------
(* RequestsService.create: one nested write. *)

Create(h, l, v) ==
    /\ job[h].pc = "idle"
    /\ Become(h, [Free EXCEPT !.pc = "create", !.lawyer = l, !.at = clock,
                              !.validity = v])
    /\ UNCHANGED <<clock, owner, links>>

CreateCommit(h, r, k) ==
    /\ job[h].pc = "create"
    /\ r # Demo /\ owner[r] = Null
    /\ ~Issued(k)
    /\ owner' = [owner EXCEPT ![r] = job[h].lawyer]
    /\ \E createdAt \in job[h].at .. clock : links' = [links EXCEPT ![k] = NewRow(h, r, createdAt)]
    /\ Answer(h, "done")
    /\ UNCHANGED clock

-----------------------------------------------------------------------------
(* PublicLinksService.regenerate and revoke: the same updateMany, alone or followed by the
   insert of the new link in one transaction. *)

\* ownedRequestId, then `now`; the statement itself runs later.
Ask(h, op, l, r, v) ==
    \/ /\ owner[r] # l
       /\ Answer(h, "refused")
    \/ /\ owner[r] = l
       /\ Become(h, [Free EXCEPT !.pc = "update", !.op = op, !.request = r, !.at = clock,
                                 !.validity = v, !.seen = ActiveOf(r)])

Regenerate(h, l, r, v) ==
    /\ job[h].pc = "idle"
    /\ Ask(h, "regenerate", l, r, v)
    /\ UNCHANGED <<clock, owner, links>>

Revoke(h, l, r) ==
    /\ job[h].pc = "idle"
    /\ Ask(h, "revoke", l, r, 0)
    /\ UNCHANGED <<clock, owner, links>>

\* The snapshot of updateMany where {requestId, revokedAt: null}.
Snapshot(h) ==
    /\ job[h].pc = "update"
    /\ Become(h, [job[h] EXCEPT !.pc = "updating", !.targets = ActiveOf(job[h].request)])
    /\ UNCHANGED <<clock, owner, links>>

\* The rows' locks are free. Alone, the statement commits; in the transaction it keeps them.
Update(h) ==
    LET found == {k \in job[h].targets : Active(k)} IN
    /\ job[h].pc = "updating"
    /\ \A k \in job[h].targets : ~LockedForOthers(h, k)
    /\ \/ /\ job[h].op = "revoke"
          /\ links' = [k \in Links |-> IF k \in found
                                       THEN [links[k] EXCEPT !.revokedAt = job[h].at]
                                       ELSE links[k]]
          /\ Answer(h, "done")
       \/ /\ job[h].op = "regenerate"
          /\ Become(h, [job[h] EXCEPT !.pc = "insert", !.targets = found])
          /\ UNCHANGED links
    /\ UNCHANGED <<clock, owner>>

\* No active link is left but those this transaction has revoked: the insert and the commit.
Insert(h, k) ==
    LET r == job[h].request IN
    /\ job[h].pc = "insert"
    /\ ActiveOf(r) \subseteq job[h].targets
    /\ ~Issued(k)
    /\ \E createdAt \in job[h].at .. clock :
          links' = [j \in Links |->
                      IF j = k THEN NewRow(h, r, createdAt)
                      ELSE IF j \in job[h].targets THEN [links[j] EXCEPT !.revokedAt = job[h].at]
                      ELSE links[j]]
    /\ Answer(h, "done")
    /\ UNCHANGED <<clock, owner>>

\* The partial unique index refuses the insert: the transaction rolls back, a 409.
InsertConflicts(h) ==
    /\ job[h].pc = "insert"
    /\ ~(ActiveOf(job[h].request) \subseteq job[h].targets)
    /\ \A k \in ActiveOf(job[h].request) : ~LockedForOthers(h, k)
    /\ Answer(h, "refused")
    /\ UNCHANGED <<clock, owner, links>>

-----------------------------------------------------------------------------
(* The seed. install.sh runs it once at a time. *)

Seed(h) ==
    /\ job[h].pc = "idle"
    /\ \A g \in Handlers : job[g].pc \notin {"seed", "seeded"}
    /\ Become(h, [Free EXCEPT !.pc = IF owner[Demo] = Null THEN "seed" ELSE "seeded"])
    /\ UNCHANGED <<clock, owner, links>>

\* The request and its items, without a link.
SeedCreate(h) ==
    /\ job[h].pc = "seed"
    /\ owner' = [owner EXCEPT ![Demo] = Seeder]
    /\ Become(h, [job[h] EXCEPT !.pc = "seeded"])
    /\ UNCHANGED <<clock, links>>

\* Delegated to regenerate.
SeedLink(h, v) ==
    /\ job[h].pc = "seeded"
    /\ Ask(h, "regenerate", owner[Demo], Demo, v)
    /\ UNCHANGED <<clock, owner, links>>

-----------------------------------------------------------------------------
\* A statement fails, or the process dies: the open transaction rolls back, nothing else is undone.
Fail(h) ==
    /\ job[h].pc \notin {"idle", "answered"}
    /\ Become(h, Free)
    /\ UNCHANGED <<clock, owner, links>>

Respond(h) ==
    /\ job[h].pc = "answered"
    /\ Become(h, Free)
    /\ UNCHANGED <<clock, owner, links>>

Tick ==
    /\ clock < MaxTime
    /\ clock' = clock + 1
    /\ UNCHANGED <<owner, links, job>>

Called(h) ==
    \/ \E l \in Lawyers, v \in Validities :
          Create(h, l, v) \/ \E r \in Requests : Regenerate(h, l, r, v)
    \/ \E l \in Lawyers, r \in Requests : Revoke(h, l, r)
    \/ Seed(h)

Progress(h) ==
    \/ \E r \in Requests, k \in Links : CreateCommit(h, r, k)
    \/ Snapshot(h) \/ Update(h) \/ (\E k \in Links : Insert(h, k)) \/ InsertConflicts(h)
    \/ SeedCreate(h) \/ (\E v \in Validities : SeedLink(h, v))

Next ==
    \/ \E h \in Handlers : Called(h) \/ Progress(h) \/ Fail(h) \/ Respond(h)
    \/ Tick

Spec == Init /\ [][Next]_vars

-----------------------------------------------------------------------------
TypeOK ==
    /\ clock \in Nat
    /\ owner \in [Requests -> Lawyers \cup {Null}]
    /\ links \in [Links -> Row \cup {Null}]
    /\ job \in [Handlers -> Job]

\* "A single active link per request" (the migration's partial index, and the transaction of
\* regenerate that must work under it): an old token and its PIN never open a request that has
\* a newer link.
OneActiveLink ==
    \A j, k \in Links :
        Active(j) /\ Active(k) /\ links[j].request = links[k].request => j = k

\* What the lawyer reads and what the client meets agree: the dashboard shows an active link
\* within its deadline exactly when some link of the request resolves, and then shows its deadline.
DashboardAgreesWithClient ==
    \A r \in Requests : \A shown \in LastLinks(r) :
        LET opens == {k \in LinksOf(r) : Resolve(k, clock) = "ok"} IN
        /\ (links[shown].revokedAt = Null /\ ~IsExpired(links[shown].expiresAt, clock))
             <=> opens # {}
        /\ opens # {} => opens = {shown}

\* A revocation is a dated fact: once set, no operation moves its date, clears it or deletes
\* the link, whatever waits on its row.
RevocationIsFinal ==
    [][\A k \in Links : Issued(k) /\ ~Active(k) => links'[k] = links[k]]_vars

\* Regenerate is all or nothing: a link stops working in the step that commits the link which
\* replaces it, or in a revocation the lawyer asked for.
NoLinkLostToARegeneration ==
    [][\A k \in Links : Active(k) /\ ~Active(k)' =>
          \/ \E j \in Links : ~Issued(j) /\ Active(j)' /\ links'[j].request = links[k].request
          \/ \E h \in Handlers : job[h].op = "revoke" /\ k \in job[h].targets]_vars

\* When revoke or regenerate has succeeded, no link that worked when it was asked still works,
\* whatever ran in between.
SuccessCutsWhatWorked ==
    [][\A h \in Handlers :
          job[h].pc # "answered" /\ job'[h].pc = "answered" /\ job'[h].answer = "done" =>
              \A k \in job[h].seen : ~Active(k)']_vars

-----------------------------------------------------------------------------
Register == INSTANCE LinkRegister WITH
    current <- [r \in Requests |-> ActiveOf(r)],
    issued <- {k \in Links : Issued(k)}

\* Ownership reads, snapshots, locks and conflicts amount to atomic replacements of a
\* request's only usable link.
ImplementsLinkRegister == Register!RSpec
=============================================================================

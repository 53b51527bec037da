------------------------ MODULE RefreshTokensProofs ------------------------
(***************************************************************************)
(* Safety of RefreshTokens for every number of tokens, accounts and        *)
(* concurrent requests, and every duration: its invariants, what its steps *)
(* never do, that it implements SessionChain, and what dates and locks     *)
(* that are held across an await can lead to.                              *)
(***************************************************************************)
EXTENDS RefreshTokens, TLAPS

-----------------------------------------------------------------------------
(* The inductive invariant, first what it says of the tables. *)

\* A committed row is as it was created, but for its revocation.
RowsAsMinted ==
    \A t \in Tokens : Stored(t) =>
        /\ ~Fresh(t)
        /\ table[t].family = minted[t].family
        /\ table[t].lawyer = minted[t].lawyer
        /\ table[t].expiresAt = minted[t].ceiling

\* A token that has a successor is spent.
ParentsAreSpent ==
    \A s \in Tokens : ~Fresh(s) /\ minted[s].parent # Null =>
        ~Fresh(minted[s].parent) /\ ~Live(minted[s].parent)

\* Lineage: a family is named by its first token, and all its tokens share its ceiling.
OneCeilingPerFamily ==
    \A s \in Tokens : ~Fresh(s) =>
        /\ ~Fresh(minted[s].family)
        /\ minted[minted[s].family].family = minted[s].family
        /\ minted[s].ceiling = minted[minted[s].family].ceiling
        /\ minted[s].lawyer = minted[minted[s].family].lawyer

TableInv ==
    /\ RowsAsMinted
    /\ ParentsAreSpent
    /\ OneLiveTokenPerFamily
    /\ ChainNeverForks
    /\ OneCeilingPerFamily
    /\ ReuseRecognisable

(* Then of what each handler holds across an await. *)

\* A row read is the one of the presented token, as it was created.
ReadAsMinted(h) ==
    LET t == req[h].token
        row == req[h].row
    IN
    req[h].pc \in {"read", "claim", "append"} =>
        /\ t \in Tokens
        /\ row # Null => /\ ~Fresh(t)
                         /\ row.family = minted[t].family
                         /\ row.lawyer = minted[t].lawyer
                         /\ row.expiresAt = minted[t].ceiling

HoldsRow(h) ==
    /\ req[h].pc \in {"claim", "append"} => req[h].row \in Row
    /\ req[h].pc \in {"purge", "issue"} => req[h].lawyer \in Lawyers

\* Only the open statements lock rows: a rotation its one, a purge and a revocation as they go.
LocksItsOwn(h) ==
    /\ req[h].pc \notin {"purge", "revoking"} => req[h].targets = {}
    /\ req[h].pc \notin {"purge", "revoking", "append"} => req[h].held = {}
    /\ req[h].pc = "append" => req[h].held = {req[h].token}

Claims(h, t) == req[h].pc = "append" /\ req[h].token = t

\* A claimed row is live in the committed table.
ClaimIsLive(h) == req[h].pc = "append" => Live(req[h].token)

\* A purge in flight only takes rows of its account, of sessions past their ceiling.
PurgeIsPast(h) ==
    req[h].pc = "purge" =>
        \A t \in req[h].targets \cup req[h].held :
            ~Fresh(t) /\ minted[t].ceiling < clock /\ minted[t].lawyer = req[h].lawyer

\* What is live of what a revocation saw is among its rows.
RevocationCovers(h) ==
    req[h].pc = "revoking" =>
        \A t \in req[h].seen : ~Fresh(t) /\ (Live(t) => t \in req[h].targets \cup req[h].held)

\* A revocation has one row to lock at most: its family had one live token at its snapshot.
SingleTarget(h) ==
    req[h].pc = "revoking" => \A s, t \in req[h].targets \cup req[h].held : s = t

HandlerInv(h) ==
    /\ ReadAsMinted(h) /\ HoldsRow(h) /\ LocksItsOwn(h) /\ ClaimIsLive(h)
    /\ PurgeIsPast(h) /\ RevocationCovers(h) /\ SingleTarget(h)

\* The row lock: one transaction at a time holds a row.
OneHolder ==
    \A g, h \in Handlers : \A t \in Tokens : t \in req[g].held /\ t \in req[h].held => g = h

IInv ==
    /\ TypeOK
    /\ TableInv
    /\ \A h \in Handlers : HandlerInv(h)
    /\ OneHolder

-----------------------------------------------------------------------------
\* The initial states: nothing stored, nobody waiting.
LEMMA InitIInv == Init => IInv
BY NullAssumption
   DEF Init, IInv, TypeOK, TableInv, RowsAsMinted, ParentsAreSpent, OneLiveTokenPerFamily,
       ChainNeverForks, OneCeilingPerFamily, ReuseRecognisable, HandlerInv, ReadAsMinted, HoldsRow,
       LocksItsOwn, ClaimIsLive, PurgeIsPast,
       RevocationCovers, SingleTarget, OneHolder, Claims, Free, Request,
       Stored, Live, Fresh

-----------------------------------------------------------------------------
(* Facts used for many actions. *)

\* Await changes one handler, and keeps the type.
LEMMA AwaitChangesOne ==
    ASSUME TypeOK, NEW h \in Handlers, NEW r \in Request, Await(h, r)
    PROVE  /\ req' \in [Handlers -> Request]
           /\ req'[h] = r
           /\ \A g \in Handlers \ {h} : req'[g] = req[g]
BY DEF TypeOK, Await

\* Null is not a record.
LEMMA RowsAreNotNull ==
    /\ \A row \in Row : row # Null
    /\ \A birth \in Birth : birth # Null
BY NullAssumption

LEMMA FreeTyped ==
    Free \in Request /\ Free.pc = "idle" /\ Free.held = {} /\ Free.targets = {}
BY NullAssumption DEF Free, Request

LEMMA AnswerTyped ==
    ASSUME NEW o \in Outcomes, NEW r, r = [Free EXCEPT !.pc = "answered", !.outcome = o]
    PROVE  r \in Request /\ r.pc = "answered" /\ r.held = {} /\ r.targets = {} /\ r.at = 0
BY NullAssumption DEF Free, Request

\* A handler that is idle or has answered holds nothing.
LEMMA RestingHandler ==
    ASSUME NEW h \in Handlers, req'[h].pc \in {"idle", "answered"},
           req'[h].held = {}, req'[h].targets = {}
    PROVE  HandlerInv(h)'
BY DEF HandlerInv, ReadAsMinted, HoldsRow, LocksItsOwn, ClaimIsLive, PurgeIsPast, RevocationCovers,
       SingleTarget

\* What another handler holds survives a step that forgets no creation, revives no token, lets
\* the clock advance and leaves the rows it has claimed alive.
LEMMA OtherHandler ==
    ASSUME TypeOK, NEW g \in Handlers, HandlerInv(g), req'[g] = req[g],
           clock' \in Nat, clock' >= clock,
           \A t \in Tokens : ~Fresh(t) => minted'[t] = minted[t],
           \A t \in Tokens : ~Fresh(t) /\ Live(t)' => Live(t),
           \A t \in Tokens : Claims(g, t) => Live(t)'
    PROVE  HandlerInv(g)'
<1>0. req[g] \in Request /\ \A t \in Tokens : minted[t] \in Birth \cup {Null}
  BY DEF TypeOK
<1>1. ReadAsMinted(g)'
  BY DEF HandlerInv, ReadAsMinted, Fresh
<1>2. HoldsRow(g)'
  BY DEF HandlerInv, HoldsRow
<1>3. ClaimIsLive(g)'
  <2>1. req[g].pc = "append" => req[g].token \in Tokens
    BY DEF HandlerInv, ReadAsMinted
  <2> QED
    BY <2>1 DEF ClaimIsLive, Claims
<1>4. PurgeIsPast(g)'
  BY <1>0 DEF HandlerInv, PurgeIsPast, Fresh, TypeOK, Request, Birth
<1>5. RevocationCovers(g)'
  BY <1>0 DEF HandlerInv, RevocationCovers, Fresh, Request
<1>6. LocksItsOwn(g)' /\ SingleTarget(g)'
  BY DEF HandlerInv, LocksItsOwn, SingleTarget
<1> QED
  BY <1>1, <1>2, <1>3, <1>4, <1>5, <1>6 DEF HandlerInv

\* A step that only moves one handler keeps the invariant, if what the handler now holds is
\* right and the locks it takes were free.
LEMMA QuietStep ==
    ASSUME IInv, NEW h \in Handlers, NEW r \in Request, Await(h, r),
           UNCHANGED <<clock, accounts, table, closing, minted>>,
           HandlerInv(h)',
           \A t \in r.held : t \in req[h].held \/ ~LockedForOthers(h, t)
    PROVE  IInv'
<1>1. TypeOK /\ TypeOK'
  BY AwaitChangesOne DEF IInv, TypeOK
<1>2. TableInv'
  BY DEF IInv, TableInv, RowsAsMinted, ParentsAreSpent, OneLiveTokenPerFamily, ChainNeverForks,
         OneCeilingPerFamily, ReuseRecognisable, Stored, Live, Fresh
<1>3. ASSUME NEW g \in Handlers PROVE HandlerInv(g)'
  <2>1. CASE g = h
    BY <2>1
  <2>2. CASE g # h
    <3>1. req'[g] = req[g]
      BY <1>1, <2>2, AwaitChangesOne
    <3>2. clock' = clock /\ clock \in Nat /\ \A t \in Tokens : Live(t)' <=> Live(t)
      BY <1>1 DEF TypeOK, Live, Stored
    <3>3. \A t \in Tokens : Claims(g, t) => Live(t)
      BY DEF IInv, HandlerInv, ClaimIsLive, Claims
    <3> QED
      BY <1>1, <3>1, <3>2, <3>3, OtherHandler DEF IInv
  <2> QED
    BY <2>1, <2>2
<1>4. OneHolder'
  BY <1>1, AwaitChangesOne DEF IInv, OneHolder, LockedForOthers
<1> QED
  BY <1>1, <1>2, <1>3, <1>4 DEF IInv

\* In particular a step that only answers, or only frees, a handler.
LEMMA AnswerStep ==
    ASSUME IInv, NEW h \in Handlers, UNCHANGED <<clock, accounts, table, closing, minted>>,
           (\E o \in Outcomes : Answer(h, o)) \/ Await(h, Free)
    PROVE  IInv'
<1>1. \E r \in Request : /\ Await(h, r) /\ r.pc \in {"idle", "answered"}
                         /\ r.held = {} /\ r.targets = {}
  BY AnswerTyped, FreeTyped DEF Answer
<1>2. PICK r \in Request : /\ Await(h, r) /\ r.pc \in {"idle", "answered"}
                          /\ r.held = {} /\ r.targets = {}
  BY <1>1
<1>3. HandlerInv(h)'
  BY <1>2, AwaitChangesOne, RestingHandler DEF IInv
<1> QED
  BY <1>2, <1>3, QuietStep

-----------------------------------------------------------------------------
(* One lemma per action. *)

\* A login's purge targets rows past their ceiling.
LEMMA LoginStep == ASSUME IInv, NEW h \in Handlers, NEW l \in Lawyers, Login(h, l) PROVE IInv'
<1> DEFINE past == {t \in Tokens : /\ Stored(t)
                                   /\ table[t].lawyer = l
                                   /\ table[t].expiresAt < clock}
           r == [Free EXCEPT !.pc = IF past = {} THEN "issue" ELSE "purge",
                             !.lawyer = l, !.targets = past]
<1>1. /\ r \in Request
      /\ r.pc = (IF past = {} THEN "issue" ELSE "purge")
      /\ r.lawyer = l /\ r.targets = past /\ r.held = {}
  BY NullAssumption DEF Free, Request
<1>2. Await(h, r) /\ UNCHANGED <<clock, accounts, table, closing, minted>>
  BY DEF Login
<1> HIDE DEF r
<1>3. req'[h] = r
  BY <1>1, <1>2, AwaitChangesOne DEF IInv
<1>4. HandlerInv(h)'
  <2>1. \A t \in past : ~Fresh(t) /\ minted[t].ceiling < clock /\ minted[t].lawyer = l
    BY DEF IInv, TableInv, RowsAsMinted
  <2> HIDE DEF past
  <2>2. PurgeIsPast(h)'
    BY <1>1, <1>2, <1>3, <2>1 DEF PurgeIsPast, Fresh
  <2> QED
    BY <1>1, <1>3, <2>2
       DEF HandlerInv, ReadAsMinted, HoldsRow, LocksItsOwn, ClaimIsLive, RevocationCovers,
           SingleTarget
<1> QED
  BY <1>1, <1>2, <1>4, QuietStep

\* A statement adds a row to what it holds only when nobody else holds it.
LEMMA LockStep == ASSUME IInv, NEW h \in Handlers, Lock(h) PROVE IInv'
<1>1. PICK t \in req[h].targets :
         /\ ~LockedForOthers(h, t)
         /\ Await(h, [req[h] EXCEPT !.targets = @ \ {t},
                                    !.held = IF Stored(t) THEN @ \cup {t} ELSE @])
  BY DEF Lock
<1> DEFINE r == [req[h] EXCEPT !.targets = @ \ {t}, !.held = IF Stored(t) THEN @ \cup {t} ELSE @]
<1>2. /\ req[h] \in Request /\ req[h].pc \in {"purge", "revoking"}
      /\ UNCHANGED <<clock, accounts, table, closing, minted>>
      /\ t \in Tokens
  BY DEF IInv, TypeOK, Lock, Request
<1>3. /\ r \in Request /\ Await(h, r)
      /\ r.pc = req[h].pc /\ r.lawyer = req[h].lawyer /\ r.seen = req[h].seen
      /\ r.targets = req[h].targets \ {t}
      /\ r.held = (IF Stored(t) THEN req[h].held \cup {t} ELSE req[h].held)
  BY <1>1, <1>2 DEF Request
<1> HIDE DEF r
<1>4. req'[h] = r
  BY <1>3, AwaitChangesOne DEF IInv
<1>5. PurgeIsPast(h)' /\ SingleTarget(h)'
  BY <1>1, <1>2, <1>3, <1>4 DEF IInv, HandlerInv, PurgeIsPast, SingleTarget, Fresh
<1>6. RevocationCovers(h)'
  BY <1>2, <1>3, <1>4 DEF IInv, HandlerInv, RevocationCovers, Fresh, Live, Stored
<1>7. HandlerInv(h)'
  BY <1>2, <1>3, <1>4, <1>5, <1>6
     DEF IInv, HandlerInv, ReadAsMinted, HoldsRow, LocksItsOwn, ClaimIsLive
<1> QED
  BY <1>1, <1>2, <1>3, <1>7, QuietStep

\* Presenting a token reads its row.
LEMMA PresentStep == ASSUME IInv, NEW h \in Handlers, NEW t \in Tokens, Present(h, t) PROVE IInv'
<1> DEFINE r == [Free EXCEPT !.pc = "read", !.token = t, !.row = table[t]]
<1>1. /\ r \in Request
      /\ r.pc = "read" /\ r.token = t /\ r.row = table[t] /\ r.held = {} /\ r.targets = {}
  BY NullAssumption DEF Free, Request, IInv, TypeOK
<1>2. Await(h, r) /\ UNCHANGED <<clock, accounts, table, closing, minted>>
  BY DEF Present
<1> HIDE DEF r
<1>3. req'[h] = r
  BY <1>1, <1>2, AwaitChangesOne DEF IInv
<1>4. HandlerInv(h)'
  <2>1. ReadAsMinted(h)'
    BY <1>1, <1>2, <1>3 DEF ReadAsMinted, IInv, TableInv, RowsAsMinted, Stored, Fresh
  <2> QED
    BY <1>1, <1>3, <2>1 DEF HandlerInv, HoldsRow, LocksItsOwn, ClaimIsLive, PurgeIsPast,
       RevocationCovers, SingleTarget
<1> QED
  BY <1>1, <1>2, <1>4, QuietStep

\* A refusal answers; otherwise the handler goes on with the row it read.
LEMMA DecideStep == ASSUME IInv, NEW h \in Handlers, Decide(h) PROVE IInv'
<1> DEFINE toRevoke == [Free EXCEPT !.pc = "revoke", !.family = req[h].row.family]
           toClaim == [req[h] EXCEPT !.pc = "claim", !.at = clock]
<1>1. /\ req[h] \in Request /\ req[h].pc = "read" /\ req[h].row \in Row \cup {Null}
      /\ clock \in Nat
      /\ UNCHANGED <<clock, accounts, table, closing, minted>>
  BY DEF IInv, TypeOK, Request, Decide
<1>2. CASE Answer(h, "ended") \/ Answer(h, "raced")
  BY <1>1, <1>2, AnswerStep DEF Outcomes
<1>3. CASE Await(h, toRevoke) /\ req[h].row # Null
  <2>1. /\ toRevoke \in Request /\ toRevoke.pc = "revoke"
        /\ toRevoke.held = {} /\ toRevoke.targets = {}
    <3>1. req[h].row.family \in Tokens
      BY <1>1, <1>3 DEF Row
    <3> QED
      BY <3>1 DEF Free, Request
  <2> HIDE DEF toRevoke
  <2>2. req'[h] = toRevoke
    BY <1>3, <2>1, AwaitChangesOne DEF IInv
  <2>3. HandlerInv(h)'
    BY <1>1, <1>3, <2>1, <2>2
       DEF HandlerInv, ReadAsMinted, HoldsRow, LocksItsOwn, ClaimIsLive, PurgeIsPast,
       RevocationCovers, SingleTarget
  <2> QED
    BY <1>1, <1>3, <2>1, <2>3, QuietStep
<1>4. CASE Await(h, toClaim) /\ req[h].row # Null
  <2>1. /\ toClaim \in Request
        /\ toClaim.pc = "claim" /\ toClaim.row = req[h].row /\ toClaim.token = req[h].token
        /\ toClaim.held = {} /\ toClaim.targets = {}
    BY <1>1 DEF Request, IInv, HandlerInv, LocksItsOwn
  <2> HIDE DEF toClaim
  <2>2. req'[h] = toClaim
    BY <1>4, <2>1, AwaitChangesOne DEF IInv
  <2>3. ReadAsMinted(h)'
    BY <1>1, <2>1, <2>2 DEF IInv, HandlerInv, ReadAsMinted, Fresh
  <2>4. HandlerInv(h)'
    BY <1>1, <1>4, <2>1, <2>2, <2>3
       DEF HandlerInv, HoldsRow, LocksItsOwn, ClaimIsLive, PurgeIsPast,
       RevocationCovers, SingleTarget
  <2> QED
    BY <1>1, <1>4, <2>1, <2>4, QuietStep
<1> QED
  BY <1>2, <1>3, <1>4 DEF Decide

\* The claim takes the row only when nobody holds it and it is still live.
LEMMA ClaimStep == ASSUME IInv, NEW h \in Handlers, Claim(h) PROVE IInv'
<1>1. /\ req[h] \in Request /\ req[h].pc = "claim"
      /\ UNCHANGED <<clock, accounts, table, closing, minted>>
      /\ clock \in Nat
  BY DEF IInv, TypeOK, Claim
<1>2. CASE Answer(h, "raced")
  BY <1>1, <1>2, AnswerStep DEF Outcomes
<1>3. ASSUME Live(req[h].token), NEW at \in req[h].at .. clock,
             Await(h, [req[h] EXCEPT !.pc = "append", !.at = at, !.held = {req[h].token}])
      PROVE  IInv'
  <2> DEFINE r == [req[h] EXCEPT !.pc = "append", !.at = at, !.held = {req[h].token}]
  <2>0. at \in Nat /\ req[h].token \in Tokens /\ req[h].targets = {}
    BY <1>1 DEF Request, IInv, HandlerInv, ReadAsMinted, LocksItsOwn
  <2>1. /\ r \in Request
        /\ r.pc = "append" /\ r.row = req[h].row /\ r.token = req[h].token
        /\ r.held = {req[h].token} /\ r.targets = {}
        /\ Await(h, r)
    BY <1>1, <1>3, <2>0 DEF Request
  <2> HIDE DEF r
  <2>2. req'[h] = r
    BY <1>3, <2>1, AwaitChangesOne DEF IInv
  <2>3. ReadAsMinted(h)' /\ ClaimIsLive(h)'
    BY <1>1, <1>3, <2>1, <2>2 DEF IInv, HandlerInv, ReadAsMinted, ClaimIsLive, Fresh, Live, Stored
  <2>4. HandlerInv(h)'
    BY <1>1, <2>1, <2>2, <2>3
       DEF IInv, HandlerInv, HoldsRow, LocksItsOwn, PurgeIsPast, RevocationCovers, SingleTarget
  <2>5. \A t \in r.held : ~LockedForOthers(h, t)
    BY <2>1 DEF Claim
  <2> QED
    BY <1>1, <1>3, <2>1, <2>4, <2>5, QuietStep
<1> QED
  BY <1>2, <1>3 DEF Claim

\* Logout keeps the family of the row it has read.
LEMMA LogoutStep == ASSUME IInv, NEW h \in Handlers, NEW t \in Tokens, Logout(h, t) PROVE IInv'
<1> DEFINE r == [Free EXCEPT !.pc = "revoke", !.family = table[t].family]
<1>1. UNCHANGED <<clock, accounts, table, closing, minted>>
  BY DEF Logout
<1>2. CASE Answer(h, "ended")
  BY <1>1, <1>2, AnswerStep DEF Outcomes
<1>3. CASE Stored(t) /\ Await(h, r)
  <2>1. r \in Request /\ r.pc = "revoke" /\ r.held = {} /\ r.targets = {}
    <3>1. table[t].family \in Tokens
      BY <1>3 DEF IInv, TypeOK, Stored, Row
    <3> QED
      BY <3>1 DEF Free, Request
  <2> HIDE DEF r
  <2>2. req'[h] = r
    BY <1>3, <2>1, AwaitChangesOne DEF IInv
  <2>3. HandlerInv(h)'
    BY <2>1, <2>2 DEF HandlerInv, ReadAsMinted, HoldsRow, LocksItsOwn, ClaimIsLive, PurgeIsPast,
       RevocationCovers, SingleTarget
  <2> QED
    BY <1>1, <1>3, <2>1, <2>3, QuietStep
<1> QED
  BY <1>2, <1>3 DEF Logout

\* The revocation's snapshot holds every live token it sees.
LEMMA RevokeStartStep == ASSUME IInv, NEW h \in Handlers, RevokeStart(h) PROVE IInv'
<1> DEFINE fam == {t \in Tokens : Stored(t) /\ table[t].family = req[h].family}
           alive == {t \in fam : Live(t)}
           r == [req[h] EXCEPT !.pc = "revoking", !.at = clock, !.seen = fam, !.targets = alive]
<1>1. /\ req[h] \in Request /\ req[h].pc = "revoke"
      /\ UNCHANGED <<clock, accounts, table, closing, minted>>
      /\ clock \in Nat /\ req[h].held = {}
  BY DEF IInv, TypeOK, RevokeStart, HandlerInv, LocksItsOwn
<1>2. /\ r \in Request
      /\ r.pc = "revoking" /\ r.seen = fam /\ r.targets = alive /\ r.held = {}
  <2>1. fam \in SUBSET Tokens /\ alive \in SUBSET Tokens
    OBVIOUS
  <2> HIDE DEF fam, alive
  <2> QED
    BY <1>1, <2>1 DEF Request
<1>3. Await(h, r) \/ Answer(h, "ended")
  BY DEF RevokeStart
<1>4. \A t \in fam : ~Fresh(t) /\ (Live(t) => t \in alive)
  BY DEF IInv, TableInv, RowsAsMinted
<1>5. \A s, t \in alive : s = t
  BY DEF IInv, TableInv, OneLiveTokenPerFamily
<1> HIDE DEF r, fam, alive
<1>6. CASE Await(h, r)
  <2>1. req'[h] = r
    BY <1>2, <1>6, AwaitChangesOne DEF IInv
  <2>2. RevocationCovers(h)' /\ SingleTarget(h)'
    BY <1>1, <1>2, <1>4, <1>5, <2>1 DEF RevocationCovers, SingleTarget, Fresh, Live, Stored
  <2>3. HandlerInv(h)'
    BY <1>2, <2>1, <2>2 DEF HandlerInv, ReadAsMinted, HoldsRow, LocksItsOwn, ClaimIsLive, PurgeIsPast
  <2> QED
    BY <1>1, <1>2, <1>6, <2>3, QuietStep
<1>7. CASE Answer(h, "ended")
  BY <1>1, <1>7, AnswerStep DEF Outcomes
<1> QED
  BY <1>3, <1>6, <1>7

\* Re-reading the account, failing and responding only answer or free the handler.
LEMMA RestStep ==
    ASSUME IInv, NEW h \in Handlers, Reread(h) \/ Fail(h) \/ Respond(h)
    PROVE  IInv'
<1>1. CASE Reread(h)
  BY <1>1, AnswerStep DEF Reread, Outcomes
<1>2. CASE Fail(h) \/ Respond(h)
  BY <1>2, AnswerStep DEF Fail, Respond
<1> QED
  BY <1>1, <1>2

-----------------------------------------------------------------------------
(* The actions that write. *)

\* A step that writes the tables and moves at most one handler, which takes no lock.
LEMMA WriteStep ==
    ASSUME IInv, TypeOK', TableInv', NEW h \in Handlers, HandlerInv(h)',
           \A g \in Handlers \ {h} : req'[g] = req[g],
           req'[h].held \subseteq req[h].held,
           clock' >= clock,
           \A t \in Tokens : ~Fresh(t) => minted'[t] = minted[t],
           \A t \in Tokens : ~Fresh(t) /\ Live(t)' => Live(t),
           \A g \in Handlers \ {h}, t \in Tokens : Claims(g, t) => Live(t)'
    PROVE  IInv'
<1>1. ASSUME NEW g \in Handlers PROVE HandlerInv(g)'
  <2>1. CASE g = h
    BY <2>1
  <2>2. CASE g # h
    BY <2>2, OtherHandler DEF IInv, TypeOK
  <2> QED
    BY <2>1, <2>2
<1>2. OneHolder'
  BY DEF IInv, OneHolder
<1> QED
  BY <1>1, <1>2 DEF IInv

\* A purge deletes rows past their ceiling that nobody has claimed.
LEMMA PurgeStep == ASSUME IInv, NEW h \in Handlers, Purge(h) PROVE IInv'
<1> DEFINE r == [req[h] EXCEPT !.pc = "issue", !.held = {}]
<1>1. /\ TypeOK /\ req[h] \in Request /\ req[h].pc = "purge"
      /\ UNCHANGED <<clock, accounts, closing, minted>>
      /\ clock \in Nat
  BY DEF IInv, TypeOK, Purge
<1>2. r \in Request /\ r.pc = "issue" /\ r.lawyer = req[h].lawyer /\ r.held = {} /\ r.targets = {}
  BY <1>1 DEF Request, Purge
<1>3. Await(h, r)
  BY DEF Purge
<1> HIDE DEF r
<1>4. req' \in [Handlers -> Request] /\ req'[h] = r /\ \A g \in Handlers \ {h} : req'[g] = req[g]
  BY <1>1, <1>2, <1>3, AwaitChangesOne
<1>5. table' = [t \in Tokens |-> IF t \in req[h].held THEN Null ELSE table[t]]
  BY DEF Purge
<1>6. TypeOK'
  BY <1>1, <1>4, <1>5 DEF TypeOK
<1>7. \A t \in Tokens : /\ Stored(t)' => Stored(t) /\ table'[t] = table[t]
                        /\ Live(t)' => Live(t) /\ Stored(t)'
                        /\ Stored(t) /\ t \notin req[h].held => Stored(t)'
                        /\ Fresh(t)' <=> Fresh(t)
  BY <1>1, <1>5 DEF Stored, Live, Fresh
<1>8. \A t \in req[h].held : minted[t].ceiling < clock
  BY <1>1 DEF IInv, HandlerInv, PurgeIsPast
<1>9. TableInv'
  <2>1. RowsAsMinted' /\ OneLiveTokenPerFamily'
    BY <1>1, <1>7 DEF IInv, TableInv, RowsAsMinted, OneLiveTokenPerFamily
  <2>2. ParentsAreSpent'
    BY <1>1, <1>7 DEF IInv, TableInv, ParentsAreSpent, TypeOK, Birth, Fresh
  <2>4. ChainNeverForks' /\ OneCeilingPerFamily'
    BY <1>1, <1>7 DEF IInv, TableInv, ChainNeverForks, OneCeilingPerFamily, Fresh
  <2>3. ReuseRecognisable'
    BY <1>1, <1>7, <1>8 DEF IInv, TableInv, ReuseRecognisable, TypeOK, Birth, Fresh
  <2> QED
    BY <2>1, <2>2, <2>3, <2>4 DEF TableInv
<1>10. HandlerInv(h)' /\ req'[h].held = {}
  BY <1>1, <1>2, <1>4
     DEF IInv, HandlerInv, ReadAsMinted, HoldsRow, LocksItsOwn, ClaimIsLive, PurgeIsPast,
         RevocationCovers, SingleTarget
<1>11. \A g \in Handlers \ {h}, t \in Tokens : Claims(g, t) => Live(t)'
  <2> SUFFICES ASSUME NEW g \in Handlers \ {h}, NEW t \in Tokens, Claims(g, t) PROVE Live(t)'
    OBVIOUS
  <2>1. Live(t) /\ t \notin req[h].held
    BY DEF IInv, HandlerInv, ClaimIsLive, LocksItsOwn, Claims, OneHolder
  <2> QED
    BY <1>5, <2>1 DEF Live, Stored
<1> QED
  BY <1>1, <1>4, <1>6, <1>7, <1>9, <1>10, <1>11, WriteStep

\* A login opens a family of its own.
LEMMA IssueStep == ASSUME IInv, NEW h \in Handlers, NEW s \in Tokens, Issue(h, s) PROVE IInv'
<1> DEFINE l == req[h].lawyer
           row == NewRow(s, l, clock + SessionTtl)
           birth == [family |-> s, parent |-> Null, lawyer |-> l, ceiling |-> clock + SessionTtl]
<1>1. /\ TypeOK /\ req[h] \in Request /\ req[h].pc = "issue"
      /\ UNCHANGED <<clock, accounts, closing>>
      /\ clock \in Nat /\ l \in Lawyers /\ s # Null
      /\ Fresh(s) /\ ~Stored(s)
  BY NullAssumption DEF IInv, TypeOK, Issue, CanReference, TableInv, RowsAsMinted
<1>2. /\ row \in Row /\ row.family = s /\ row.lawyer = l /\ row.expiresAt = clock + SessionTtl
      /\ birth \in Birth /\ birth.family = s /\ birth.lawyer = l /\ birth.parent = Null
      /\ birth.ceiling = clock + SessionTtl /\ birth.ceiling \in Nat /\ birth # Null /\ row # Null
  <2>1. /\ row \in Row /\ row.family = s /\ row.lawyer = l /\ row.expiresAt = clock + SessionTtl
        /\ birth \in Birth /\ birth.family = s /\ birth.lawyer = l /\ birth.parent = Null
        /\ birth.ceiling = clock + SessionTtl /\ birth.ceiling \in Nat
    BY <1>1, TtlAssumption DEF NewRow, Row, Birth
  <2> QED
    BY <2>1, RowsAreNotNull
<1>3. table' = [table EXCEPT ![s] = row] /\ minted' = [minted EXCEPT ![s] = birth]
  BY DEF Issue
<1> HIDE DEF row, birth
<1>4. /\ req' \in [Handlers -> Request]
      /\ \A g \in Handlers \ {h} : req'[g] = req[g]
      /\ req'[h].pc = "answered" /\ req'[h].held = {} /\ req'[h].targets = {}
  <2> DEFINE r == [Free EXCEPT !.pc = "answered", !.outcome = "set"]
  <2>1. r \in Request /\ r.pc = "answered" /\ r.held = {} /\ r.targets = {}
    BY AnswerTyped DEF Outcomes
  <2>2. Await(h, r)
    BY DEF Issue, Answer
  <2> HIDE DEF r
  <2> QED
    BY <1>1, <2>1, <2>2, AwaitChangesOne
<1>5. TypeOK'
  BY <1>1, <1>2, <1>3, <1>4 DEF TypeOK
<1>6. /\ table'[s] = row /\ minted'[s] = birth /\ Stored(s)' /\ ~Fresh(s)'
      /\ \A t \in Tokens \ {s} : /\ table'[t] = table[t] /\ minted'[t] = minted[t]
                                 /\ Stored(t)' <=> Stored(t)
                                 /\ Live(t)' <=> Live(t)
                                 /\ Fresh(t)' <=> Fresh(t)
  BY <1>1, <1>2, <1>3 DEF TypeOK, Stored, Live, Fresh
<1>7. TableInv'
  <2>1. RowsAsMinted'
    BY <1>2, <1>6 DEF IInv, TableInv, RowsAsMinted
  <2>2. ParentsAreSpent'
    <3>1. ASSUME NEW t \in Tokens, ~Fresh(t)', minted'[t].parent # Null
          PROVE  /\ minted'[minted'[t].parent] # Null
                 /\ \/ table'[minted'[t].parent] = Null
                    \/ table'[minted'[t].parent].revokedAt # Null
      <4>1. t # s /\ ~Fresh(t) /\ minted[t].parent # Null /\ minted'[t] = minted[t]
        BY <1>2, <1>6, <3>1
      <4>2. minted[t].parent \in Tokens /\ ~Fresh(minted[t].parent) /\ ~Live(minted[t].parent)
        BY <1>1, <4>1 DEF IInv, TableInv, ParentsAreSpent, TypeOK, Birth, Fresh
      <4>3. minted[t].parent # s
        BY <1>1, <4>2
      <4> QED
        BY <1>6, <4>1, <4>2, <4>3 DEF Fresh, Live, Stored
    <3> QED
      BY <3>1 DEF ParentsAreSpent, Fresh, Live, Stored
  <2>3. \A t \in Tokens : ~Fresh(t) => minted[t].family \in Tokens /\ minted[t].family # s
    BY <1>1 DEF IInv, TableInv, OneCeilingPerFamily, TypeOK, Birth, Fresh
  <2>4. OneLiveTokenPerFamily'
    <3>1. \A t \in Tokens \ {s} : Live(t)' => Live(t) /\ table'[t].family # s
      <4>1. \A t \in Tokens : Live(t) => Stored(t)
        BY DEF Live
      <4> QED
        BY <1>6, <2>3, <4>1 DEF IInv, TableInv, RowsAsMinted
    <3>2. row.family = s
      BY <1>2
    <3> SUFFICES ASSUME NEW t \in Tokens, NEW u \in Tokens, Live(t)', Live(u)',
                        table'[t].family = table'[u].family
                 PROVE  t = u
      BY DEF OneLiveTokenPerFamily
    <3>3. CASE t # s /\ u # s
      BY <1>6, <3>1, <3>3 DEF IInv, TableInv, OneLiveTokenPerFamily
    <3>4. CASE t = s \/ u = s
      BY <1>6, <3>1, <3>2, <3>4
    <3> QED
      BY <3>3, <3>4
  <2>5. ChainNeverForks'
    BY <1>2, <1>6 DEF IInv, TableInv, ChainNeverForks
  <2>6. OneCeilingPerFamily'
    BY <1>2, <1>6, <2>3 DEF IInv, TableInv, OneCeilingPerFamily
  <2>7. ReuseRecognisable'
    BY <1>1, <1>6 DEF IInv, TableInv, ReuseRecognisable
  <2> QED
    BY <2>1, <2>2, <2>4, <2>5, <2>6, <2>7 DEF TableInv
<1>8. HandlerInv(h)' /\ req'[h].held = {}
  BY <1>4, RestingHandler
<1>9. \A g \in Handlers \ {h}, t \in Tokens : Claims(g, t) => Live(t)'
  BY <1>1, <1>6 DEF IInv, HandlerInv, ClaimIsLive, Claims, Live
<1>10. /\ clock' >= clock
       /\ \A t \in Tokens : ~Fresh(t) => minted'[t] = minted[t]
       /\ \A t \in Tokens : ~Fresh(t) /\ Live(t)' => Live(t)
  BY <1>1, <1>6
<1> QED
  BY <1>4, <1>5, <1>7, <1>8, <1>9, <1>10, WriteStep

\* A rotation spends the token it has claimed and gives its family one successor.
LEMMA AppendStep == ASSUME IInv, NEW h \in Handlers, NEW s \in Tokens, Append(h, s) PROVE IInv'
<1>0. PICK t \in Tokens : t = req[h].token
  BY DEF IInv, Append, HandlerInv, ReadAsMinted
<1> DEFINE row == req[h].row
           spent == [table[t] EXCEPT !.revokedAt = req[h].at]
           new == NewRow(row.family, row.lawyer, row.expiresAt)
           birth == [family |-> row.family, parent |-> t, lawyer |-> row.lawyer,
                     ceiling |-> row.expiresAt]
           r == [Free EXCEPT !.pc = "reread", !.lawyer = row.lawyer]
<1>1. /\ TypeOK /\ req[h] \in Request /\ req[h].pc = "append"
      /\ UNCHANGED <<clock, accounts, closing>>
      /\ clock \in Nat /\ req[h].at \in Nat
      /\ row \in Row /\ row # Null
      /\ s # Null /\ t # Null
  BY NullAssumption DEF IInv, TypeOK, Append, HandlerInv, HoldsRow, Request
<1>2. Fresh(s) /\ ~Stored(s) /\ Live(t) /\ Stored(t) /\ s # t
  BY <1>0, <1>1 DEF Append, IInv, HandlerInv, ClaimIsLive, TableInv, RowsAsMinted, Live
<1>3. /\ ~Fresh(t)
      /\ row.family = minted[t].family /\ row.family = table[t].family
      /\ row.lawyer = minted[t].lawyer /\ row.expiresAt = minted[t].ceiling
      /\ table[t].lawyer = minted[t].lawyer /\ table[t].expiresAt = minted[t].ceiling
      /\ table[t] \in Row /\ minted[t] \in Birth
  <2>1. RowsAsMinted /\ ReadAsMinted(h)
    BY DEF IInv, TableInv, HandlerInv
  <2>2. /\ ~Fresh(t)
        /\ row.family = minted[t].family /\ row.family = table[t].family
        /\ row.lawyer = minted[t].lawyer /\ row.expiresAt = minted[t].ceiling
        /\ table[t].lawyer = minted[t].lawyer /\ table[t].expiresAt = minted[t].ceiling
    BY <1>0, <1>1, <1>2, <2>1 DEF RowsAsMinted, ReadAsMinted
  <2> QED
    BY <1>1, <1>2, <2>2 DEF TypeOK, Stored, Fresh
<1>4. /\ spent \in Row /\ new \in Row /\ birth \in Birth /\ r \in Request
      /\ spent # Null /\ new # Null /\ birth # Null
      /\ spent.family = table[t].family /\ spent.lawyer = table[t].lawyer
      /\ spent.expiresAt = table[t].expiresAt /\ spent.revokedAt # Null
      /\ new.family = row.family /\ new.lawyer = row.lawyer /\ new.expiresAt = row.expiresAt
      /\ new.revokedAt = Null
      /\ birth.family = row.family /\ birth.lawyer = row.lawyer /\ birth.parent = t
      /\ birth.ceiling = row.expiresAt
      /\ r.pc = "reread" /\ r.held = {} /\ r.targets = {}
  <2>1. /\ spent \in Row
        /\ spent.family = table[t].family /\ spent.lawyer = table[t].lawyer
        /\ spent.expiresAt = table[t].expiresAt /\ spent.revokedAt # Null
    BY <1>1, <1>3, NullAssumption DEF Row
  <2>2. /\ new \in Row
        /\ new.family = row.family /\ new.lawyer = row.lawyer /\ new.expiresAt = row.expiresAt
        /\ new.revokedAt = Null
    BY <1>1, TtlAssumption DEF NewRow, Row
  <2>3. /\ birth \in Birth
        /\ birth.family = row.family /\ birth.lawyer = row.lawyer /\ birth.parent = t
        /\ birth.ceiling = row.expiresAt
    BY <1>1 DEF Birth, Row
  <2>4. r \in Request /\ r.pc = "reread" /\ r.held = {} /\ r.targets = {}
    <3>1. row.lawyer \in Lawyers
      BY <1>1 DEF Row
    <3> HIDE DEF row
    <3> QED
      BY <3>1 DEF Free, Request
  <2> QED
    BY <2>1, <2>2, <2>3, <2>4, RowsAreNotNull
<1>5. /\ table' = [table EXCEPT ![t] = spent, ![s] = new]
      /\ minted' = [minted EXCEPT ![s] = birth]
      /\ Await(h, r)
  BY <1>0 DEF Append
<1> HIDE DEF row, spent, new, birth, r
<1>6. req' \in [Handlers -> Request] /\ req'[h] = r /\ \A g \in Handlers \ {h} : req'[g] = req[g]
  BY <1>1, <1>4, <1>5, AwaitChangesOne
<1>7. TypeOK'
  BY <1>1, <1>4, <1>5, <1>6 DEF TypeOK
<1>8. /\ table'[s] = new /\ table'[t] = spent /\ minted'[s] = birth /\ minted'[t] = minted[t]
      /\ \A u \in Tokens \ {s, t} : table'[u] = table[u]
      /\ \A u \in Tokens \ {s} : minted'[u] = minted[u]
  BY <1>1, <1>2, <1>5 DEF TypeOK
<1>9. /\ Live(s)' /\ ~Live(t)' /\ Stored(s)' /\ Stored(t)' /\ ~Fresh(s)'
      /\ \A u \in Tokens \ {s} : /\ Stored(u)' <=> Stored(u)
                                 /\ Live(u)' => Live(u) /\ u # t
                                 /\ Live(u) /\ u # t => Live(u)'
                                 /\ Fresh(u)' <=> Fresh(u)
  <2>1. /\ Live(s)' /\ ~Live(t)' /\ Stored(s)' /\ Stored(t)' /\ ~Fresh(s)'
    BY <1>4, <1>8 DEF Live, Stored, Fresh
  <2>2. ASSUME NEW u \in Tokens \ {s}
        PROVE  /\ Stored(u)' <=> Stored(u)
               /\ Live(u)' => Live(u) /\ u # t
               /\ Live(u) /\ u # t => Live(u)'
               /\ Fresh(u)' <=> Fresh(u)
    <3>1. CASE u = t
      BY <1>2, <1>8, <2>1, <3>1 DEF Fresh
    <3>2. CASE u # t
      BY <1>8, <3>2 DEF Live, Stored, Fresh
    <3> QED
      BY <3>1, <3>2
  <2> QED
    BY <2>1, <2>2
<1>10. TableInv'
  <2>1. RowsAsMinted'
    <3>1. ASSUME NEW u \in Tokens, Stored(u)'
          PROVE  /\ ~Fresh(u)'
                 /\ table'[u].family = minted'[u].family
                 /\ table'[u].lawyer = minted'[u].lawyer
                 /\ table'[u].expiresAt = minted'[u].ceiling
      <4>1. CASE u = s
        BY <1>4, <1>8, <1>9, <4>1
      <4>2. CASE u = t
        BY <1>2, <1>3, <1>4, <1>8, <1>9, <4>2
      <4>3. CASE u # s /\ u # t
        BY <1>8, <1>9, <3>1, <4>3 DEF IInv, TableInv, RowsAsMinted
      <4> QED
        BY <4>1, <4>2, <4>3
    <3> QED
      BY <3>1 DEF RowsAsMinted
  <2>2. ParentsAreSpent'
    <3>1. ASSUME NEW u \in Tokens, ~Fresh(u)', minted'[u].parent # Null
          PROVE  /\ minted'[minted'[u].parent] # Null
                 /\ \/ table'[minted'[u].parent] = Null
                    \/ table'[minted'[u].parent].revokedAt # Null
      <4>1. CASE u = s
        <5>1. minted'[u].parent = t
          BY <1>4, <1>8, <4>1
        <5>2. minted[t] # Null /\ (table'[t] = Null \/ table'[t].revokedAt # Null)
          BY <1>3, <1>9 DEF Fresh, Live, Stored
        <5> QED
          BY <1>8, <5>1, <5>2
      <4>2. CASE u # s
        <5>1. ~Fresh(u) /\ minted[u].parent # Null /\ minted'[u] = minted[u]
          BY <1>8, <1>9, <3>1, <4>2
        <5>2. /\ minted[u].parent \in Tokens /\ ~Fresh(minted[u].parent)
              /\ ~Live(minted[u].parent)
          BY <1>1, <5>1 DEF IInv, TableInv, ParentsAreSpent, TypeOK, Birth, Fresh
        <5>3. minted[u].parent # s /\ minted[u].parent # t
          BY <1>2, <5>2
        <5> QED
          BY <1>8, <5>1, <5>2, <5>3 DEF Fresh, Live, Stored
      <4> QED
        BY <4>1, <4>2
    <3> QED
      BY <3>1 DEF ParentsAreSpent, Fresh, Live, Stored
  <2>3. OneLiveTokenPerFamily'
    <3>1. \A u \in Tokens \ {s} : Live(u)' => /\ Live(u)
                                              /\ table'[u] = table[u]
                                              /\ table[u].family # row.family
      BY <1>1, <1>2, <1>3, <1>8, <1>9 DEF IInv, TableInv, OneLiveTokenPerFamily
    <3>2. table'[s].family = row.family
      BY <1>4, <1>8
    <3> SUFFICES ASSUME NEW u \in Tokens, NEW v \in Tokens, Live(u)', Live(v)',
                        table'[u].family = table'[v].family
                 PROVE  u = v
      BY DEF OneLiveTokenPerFamily
    <3>3. CASE u # s /\ v # s
      BY <3>1, <3>3 DEF IInv, TableInv, OneLiveTokenPerFamily
    <3>4. CASE u = s \/ v = s
      BY <3>1, <3>2, <3>4
    <3> QED
      BY <3>3, <3>4
  <2>4. ChainNeverForks'
    <3>1. \A u \in Tokens : ~Fresh(u) => minted[u].parent # t
      BY <1>1, <1>2 DEF IInv, TableInv, ParentsAreSpent
    <3> QED
      BY <1>4, <1>8, <1>9, <3>1 DEF IInv, TableInv, ChainNeverForks
  <2>5. OneCeilingPerFamily'
    <3>1. \A u \in Tokens : ~Fresh(u) => /\ minted[u].family \in Tokens
                                         /\ ~Fresh(minted[u].family)
                                         /\ minted[u].family # s
      BY <1>1, <1>2 DEF IInv, TableInv, OneCeilingPerFamily, TypeOK, Birth, Fresh
    <3>2. ASSUME NEW u \in Tokens, ~Fresh(u)'
          PROVE  /\ minted'[minted'[u].family] # Null
                 /\ minted'[minted'[u].family].family = minted'[u].family
                 /\ minted'[u].ceiling = minted'[minted'[u].family].ceiling
                 /\ minted'[u].lawyer = minted'[minted'[u].family].lawyer
      <4>1. CASE u = s
        <5>1. /\ minted'[u].family = minted[t].family /\ minted'[u].lawyer = minted[t].lawyer
              /\ minted'[u].ceiling = minted[t].ceiling
          BY <1>3, <1>4, <1>8, <4>1
        <5>2. minted'[minted[t].family] = minted[minted[t].family]
          BY <1>3, <1>8, <3>1
        <5> QED
          BY <1>3, <5>1, <5>2 DEF IInv, TableInv, OneCeilingPerFamily, Fresh
      <4>2. CASE u # s
        <5>1. ~Fresh(u) /\ minted'[u] = minted[u]
          BY <1>8, <1>9, <3>2, <4>2
        <5>2. minted'[minted[u].family] = minted[minted[u].family]
          BY <1>8, <3>1, <5>1
        <5> QED
          BY <5>1, <5>2 DEF IInv, TableInv, OneCeilingPerFamily, Fresh
      <4> QED
        BY <4>1, <4>2
    <3> QED
      BY <3>2 DEF OneCeilingPerFamily, Fresh
  <2>6. ReuseRecognisable'
    BY <1>1, <1>8, <1>9 DEF IInv, TableInv, ReuseRecognisable
  <2> QED
    BY <2>1, <2>2, <2>3, <2>4, <2>5, <2>6 DEF TableInv
<1>11. HandlerInv(h)' /\ req'[h].held = {}
  BY <1>1, <1>4, <1>6
     DEF HandlerInv, ReadAsMinted, HoldsRow, LocksItsOwn, ClaimIsLive, PurgeIsPast,
         RevocationCovers, SingleTarget
<1>12. ASSUME NEW g \in Handlers \ {h}, NEW u \in Tokens, Claims(g, u) PROVE Live(u)'
  <2>1. Live(u) /\ u # t
    BY <1>0, <1>1, <1>12 DEF IInv, HandlerInv, LocksItsOwn, ClaimIsLive, OneHolder, Claims
  <2>2. u # s
    BY <1>2, <2>1 DEF Live
  <2> QED
    BY <1>9, <2>1, <2>2
<1>13. /\ clock' >= clock
       /\ \A u \in Tokens : ~Fresh(u) => minted'[u] = minted[u]
       /\ \A u \in Tokens : ~Fresh(u) /\ Live(u)' => Live(u)
  BY <1>1, <1>2, <1>8, <1>9
<1> QED
  BY <1>6, <1>7, <1>10, <1>11, <1>12, <1>13, WriteStep

\* A revocation only kills tokens, none of them claimed by another handler.
LEMMA RevokeApplyStep == ASSUME IInv, NEW h \in Handlers, RevokeApply(h) PROVE IInv'
<1>1. /\ TypeOK /\ req[h] \in Request /\ req[h].pc = "revoking" /\ req[h].at \in Nat
      /\ UNCHANGED <<clock, accounts, closing, minted>>
      /\ clock \in Nat
  BY DEF IInv, TypeOK, RevokeApply, Request
<1>2. /\ req' \in [Handlers -> Request]
      /\ \A g \in Handlers \ {h} : req'[g] = req[g]
      /\ req'[h].pc = "answered" /\ req'[h].held = {} /\ req'[h].targets = {}
  <2> DEFINE r == [Free EXCEPT !.pc = "answered", !.outcome = "ended"]
  <2>1. r \in Request /\ r.pc = "answered" /\ r.held = {} /\ r.targets = {}
    BY AnswerTyped DEF Outcomes
  <2>2. Await(h, r)
    BY DEF RevokeApply, Answer
  <2> HIDE DEF r
  <2> QED
    BY <1>1, <2>1, <2>2, AwaitChangesOne
<1>3. table' = [t \in Tokens |-> IF t \in req[h].held /\ Live(t)
                                 THEN [table[t] EXCEPT !.revokedAt = req[h].at]
                                 ELSE table[t]]
  BY DEF RevokeApply
<1>4. ASSUME NEW t \in Tokens
      PROVE  /\ table'[t] \in Row \cup {Null}
             /\ Stored(t)' <=> Stored(t)
             /\ Stored(t) => /\ table'[t].family = table[t].family
                             /\ table'[t].lawyer = table[t].lawyer
                             /\ table'[t].expiresAt = table[t].expiresAt
             /\ Live(t)' <=> Live(t) /\ t \notin req[h].held
             /\ Fresh(t)' <=> Fresh(t)
  <2>1. CASE t \in req[h].held /\ Live(t)
    <3> DEFINE spent == [table[t] EXCEPT !.revokedAt = req[h].at]
    <3>1. table[t] \in Row /\ Stored(t)
      BY <1>1, <2>1 DEF Live, Stored, TypeOK
    <3>2. /\ spent \in Row /\ spent.family = table[t].family /\ spent.lawyer = table[t].lawyer
          /\ spent.expiresAt = table[t].expiresAt /\ spent.revokedAt # Null
      BY <1>1, <3>1, NullAssumption DEF Row
    <3>3. table'[t] = spent
      BY <1>3, <2>1
    <3>4. spent # Null
      BY <3>2, RowsAreNotNull
    <3> HIDE DEF spent
    <3> QED
      BY <1>1, <2>1, <3>1, <3>2, <3>3, <3>4 DEF Live, Stored, Fresh
  <2>2. CASE ~(t \in req[h].held /\ Live(t))
    <3>1. table'[t] = table[t]
      BY <1>3, <2>2
    <3> QED
      BY <1>1, <2>2, <3>1 DEF Live, Stored, Fresh, TypeOK
  <2> QED
    BY <2>1, <2>2
<1>5. TypeOK'
  <2>1. table' \in [Tokens -> Row \cup {Null}]
    BY <1>3, <1>4
  <2> QED
    BY <1>1, <1>2, <2>1 DEF TypeOK
<1>6. TableInv'
  <2>1. RowsAsMinted'
    BY <1>1, <1>4 DEF IInv, TableInv, RowsAsMinted
  <2>2. ParentsAreSpent'
    <3>1. ASSUME NEW s \in Tokens, ~Fresh(s), minted[s].parent # Null
          PROVE  /\ minted[minted[s].parent] # Null
                 /\ \/ table'[minted[s].parent] = Null
                    \/ table'[minted[s].parent].revokedAt # Null
      <4>1. PICK p \in Tokens : p = minted[s].parent
        BY <1>1, <3>1 DEF TypeOK, Birth, Fresh
      <4>2. ~Fresh(p) /\ ~Live(p)'
        BY <1>4, <3>1, <4>1 DEF IInv, TableInv, ParentsAreSpent
      <4> QED
        BY <4>1, <4>2 DEF Fresh, Live, Stored
    <3> QED
      BY <1>1, <3>1 DEF ParentsAreSpent, Fresh, Live, Stored
  <2>3. OneLiveTokenPerFamily'
    <3>1. \A t \in Tokens : Live(t)' => Live(t) /\ table'[t].family = table[t].family
      <4>1. \A t \in Tokens : Live(t) => Stored(t)
        BY DEF Live
      <4> QED
        BY <1>4, <4>1
    <3> QED
      BY <3>1 DEF IInv, TableInv, OneLiveTokenPerFamily
  <2>4. ChainNeverForks' /\ OneCeilingPerFamily'
    BY <1>1, <1>4 DEF IInv, TableInv, ChainNeverForks, OneCeilingPerFamily, Fresh
  <2>5. ReuseRecognisable'
    BY <1>1, <1>4 DEF IInv, TableInv, ReuseRecognisable
  <2> QED
    BY <2>1, <2>2, <2>3, <2>4, <2>5 DEF TableInv
<1>7. HandlerInv(h)' /\ req'[h].held = {}
  BY <1>2, RestingHandler
<1>8. ASSUME NEW g \in Handlers \ {h}, NEW t \in Tokens, Claims(g, t) PROVE Live(t)'
  <2>1. Live(t) /\ t \notin req[h].held
    BY <1>8 DEF IInv, HandlerInv, LocksItsOwn, ClaimIsLive, Claims, OneHolder
  <2> QED
    BY <1>4, <2>1
<1> QED
  BY <1>1, <1>2, <1>4, <1>5, <1>6, <1>7, <1>8, WriteStep

\* Deleting an account takes its rows, once no transaction holds one of them.
LEMMA DeletedStep == ASSUME IInv, NEW l \in Lawyers, Deleted(l) PROVE IInv'
<1>1. TypeOK /\ clock \in Nat /\ UNCHANGED <<clock, req, minted>>
  BY DEF IInv, TypeOK, Deleted
<1>2. /\ accounts' = accounts \ {l}
      /\ closing' = closing \ {l}
      /\ table' = [t \in Tokens |-> IF Stored(t) /\ table[t].lawyer = l THEN Null ELSE table[t]]
  BY DEF Deleted
<1>3. \A t \in Tokens : /\ Stored(t)' => Stored(t) /\ table'[t] = table[t]
                        /\ Live(t)' => Live(t)
                        /\ Stored(t) /\ table[t].lawyer # l => table'[t] = table[t]
                        /\ Fresh(t)' <=> Fresh(t)
  BY <1>1, <1>2 DEF Stored, Live, Fresh
<1>4. TypeOK'
  BY <1>1, <1>2 DEF TypeOK
<1>5. TableInv'
  <2>1. RowsAsMinted'
    BY <1>1, <1>3 DEF IInv, TableInv, RowsAsMinted
  <2>2. ParentsAreSpent'
    BY <1>1, <1>3 DEF IInv, TableInv, ParentsAreSpent, TypeOK, Birth, Fresh
  <2>3. OneLiveTokenPerFamily'
    <3>1. \A t \in Tokens : Live(t)' => Live(t) /\ table'[t] = table[t]
      <4>1. \A t \in Tokens : Live(t)' => Stored(t)'
        BY DEF Live
      <4> QED
        BY <1>3, <4>1
    <3> QED
      BY <3>1 DEF IInv, TableInv, OneLiveTokenPerFamily
  <2>4. ChainNeverForks' /\ OneCeilingPerFamily'
    BY <1>1, <1>3 DEF IInv, TableInv, ChainNeverForks, OneCeilingPerFamily, Fresh
  <2>5. ReuseRecognisable'
    <3>1. ASSUME NEW t \in Tokens, ~Fresh(t), minted[t].ceiling >= clock,
                 minted[t].lawyer \in accounts \ {l}
          PROVE  table'[t] # Null
      <4>1. Stored(t) /\ table[t].lawyer # l
        BY <3>1 DEF IInv, TableInv, ReuseRecognisable, RowsAsMinted
      <4> QED
        BY <1>3, <4>1 DEF Stored
    <3> QED
      BY <1>1, <1>2, <3>1 DEF ReuseRecognisable, Fresh, Stored
  <2> QED
    BY <2>1, <2>2, <2>3, <2>4, <2>5 DEF TableInv
<1>6. ASSUME NEW g \in Handlers PROVE HandlerInv(g)'
  <2>1. ASSUME NEW t \in Tokens, Claims(g, t) PROVE Live(t)'
    <3>1. Live(t) /\ Stored(t) /\ table[t].lawyer # l
      BY <2>1 DEF IInv, HandlerInv, LocksItsOwn, ClaimIsLive, Claims, Deleted, Live
    <3> QED
      BY <1>3, <3>1 DEF Live, Stored
  <2>2. HandlerInv(g) /\ req'[g] = req[g] /\ clock' \in Nat /\ clock' >= clock
    BY <1>1 DEF IInv
  <2> QED
    BY <1>1, <1>3, <2>1, <2>2, OtherHandler
<1>7. OneHolder'
  BY <1>1 DEF IInv, OneHolder
<1> QED
  BY <1>4, <1>5, <1>6, <1>7 DEF IInv

\* The clock advances and nothing else; deadlines only become more past.
LEMMA TickStep == ASSUME IInv, Tick PROVE IInv'
<1>1. /\ TypeOK /\ clock \in Nat /\ clock' = clock + 1 /\ clock' \in Nat /\ clock' >= clock
      /\ UNCHANGED <<accounts, table, closing, req, minted>>
  BY DEF IInv, TypeOK, Tick
<1>2. TypeOK'
  BY <1>1 DEF TypeOK
<1>3. TableInv'
  <2>1. /\ RowsAsMinted' /\ ParentsAreSpent' /\ OneLiveTokenPerFamily' /\ ChainNeverForks'
        /\ OneCeilingPerFamily'
    BY <1>1 DEF IInv, TableInv, RowsAsMinted, ParentsAreSpent, OneLiveTokenPerFamily,
                ChainNeverForks, OneCeilingPerFamily, Stored, Live, Fresh
  <2>2. ReuseRecognisable'
    <3>1. \A t \in Tokens : ~Fresh(t) => minted[t].ceiling \in Nat
      BY <1>1 DEF TypeOK, Birth, Fresh
    <3> QED
      BY <1>1, <3>1 DEF IInv, TableInv, ReuseRecognisable, Stored, Fresh
  <2> QED
    BY <2>1, <2>2 DEF TableInv
<1>4. ASSUME NEW g \in Handlers PROVE HandlerInv(g)'
  <2>1. \A t \in Tokens : (Live(t)' <=> Live(t)) /\ (Claims(g, t) => Live(t))
    BY <1>1 DEF IInv, HandlerInv, ClaimIsLive, Claims, Live, Stored
  <2> QED
    BY <1>1, <2>1, OtherHandler DEF IInv
<1>5. OneHolder'
  BY <1>1 DEF IInv, OneHolder
<1> QED
  BY <1>2, <1>3, <1>4, <1>5 DEF IInv

-----------------------------------------------------------------------------
\* Every step keeps the invariant.
LEMMA NextIInv == ASSUME IInv, [Next]_vars PROVE IInv'
<1>1. ASSUME NEW h \in Handlers, Arrive(h) PROVE IInv'
  BY <1>1, LoginStep, PresentStep, LogoutStep DEF Arrive
<1>2. ASSUME NEW h \in Handlers, Progress(h) PROVE IInv'
  BY <1>2, LockStep, PurgeStep, IssueStep, DecideStep, ClaimStep, AppendStep, RestStep,
     RevokeStartStep, RevokeApplyStep
     DEF Progress
<1>3. ASSUME NEW h \in Handlers, Fail(h) \/ Respond(h) PROVE IInv'
  BY <1>3, RestStep
<1>4. ASSUME NEW l \in Lawyers, Deleted(l) PROVE IInv'
  BY <1>4, DeletedStep
<1>5. CASE Tick
  BY <1>5, TickStep
<1>6. ASSUME UNCHANGED <<clock, accounts, table, req, minted>>, closing' \in SUBSET Lawyers
      PROVE  IInv'
  BY <1>6
     DEF IInv, TypeOK, TableInv, RowsAsMinted, ParentsAreSpent, OneLiveTokenPerFamily,
         ChainNeverForks, OneCeilingPerFamily, ReuseRecognisable, HandlerInv, ReadAsMinted, HoldsRow,
         LocksItsOwn, ClaimIsLive, PurgeIsPast, RevocationCovers, SingleTarget, OneHolder,
         Stored, Live, Fresh
<1>7. ASSUME NEW l \in Lawyers, DeleteAccount(l) \/ DeletionFails(l) PROVE IInv'
  BY <1>6, <1>7 DEF DeleteAccount, DeletionFails, IInv, TypeOK
<1>8. CASE UNCHANGED vars
  BY <1>6, <1>8 DEF vars, IInv, TypeOK
<1> QED
  BY <1>1, <1>2, <1>3, <1>4, <1>5, <1>7, <1>8 DEF Next

\* The invariant holds in every state of every behaviour.
THEOREM InductiveInvariant == Spec => []IInv
BY InitIInv, NextIInv, PTL DEF Spec

\* Every variable keeps its type.
THEOREM TypeCorrect == Spec => []TypeOK
<1>1. IInv => TypeOK
  BY DEF IInv
<1> QED
  BY <1>1, InductiveInvariant, PTL

\* Of a family, at most one token can be rotated, however many requests present it at once.
THEOREM OneLiveToken == Spec => []OneLiveTokenPerFamily
<1>1. IInv => OneLiveTokenPerFamily
  BY DEF IInv, TableInv
<1> QED
  BY <1>1, InductiveInvariant, PTL

\* No token is ever succeeded twice.
THEOREM NoFork == Spec => []ChainNeverForks
<1>1. IInv => ChainNeverForks
  BY DEF IInv, TableInv
<1> QED
  BY <1>1, InductiveInvariant, PTL

\* A renewal never moves the ceiling of a session, nor its account.
THEOREM CeilingFixed == Spec => []CeilingNeverMoves
<1>1. IInv => CeilingNeverMoves
  BY DEF IInv, TypeOK, TableInv, RowsAsMinted, OneCeilingPerFamily, CeilingNeverMoves, Fresh, Birth
<1> QED
  BY <1>1, InductiveInvariant, PTL

\* A purge never forgets a token while its session may last.
THEOREM ReuseStaysRecognisable == Spec => []ReuseRecognisable
<1>1. IInv => ReuseRecognisable
  BY DEF IInv, TableInv
<1> QED
  BY <1>1, InductiveInvariant, PTL

-----------------------------------------------------------------------------
(* Step by step: what may spend a token, and what a revocation kills. *)

\* The steps that leave the tables alone.
Quiet(h) ==
    \/ Arrive(h) \/ Lock(h) \/ Decide(h) \/ Claim(h) \/ Reread(h) \/ RevokeStart(h)
    \/ Fail(h) \/ Respond(h)

LEMMA QuietTables ==
    ASSUME NEW h \in Handlers, Quiet(h)
    PROVE  UNCHANGED <<clock, accounts, table, closing, minted>>
BY DEF Quiet, Arrive, Lock, Login, Present, Logout, Decide, Claim, Reread, RevokeStart, Fail, Respond

\* Every step is quiet, or is one of the five that write the tables, or only moves the clock.
LEMMA StepCases ==
    ASSUME [Next]_vars
    PROVE  \/ UNCHANGED <<accounts, table, minted>>
           \/ \E h \in Handlers : Purge(h) \/ RevokeApply(h)
           \/ \E h \in Handlers, s \in Tokens : Issue(h, s) \/ Append(h, s)
           \/ \E l \in Lawyers : Deleted(l)
<1>1. ASSUME NEW h \in Handlers, Arrive(h) \/ Progress(h) \/ Fail(h) \/ Respond(h)
      PROVE  \/ UNCHANGED <<accounts, table, minted>>
             \/ Purge(h) \/ RevokeApply(h)
             \/ \E s \in Tokens : Issue(h, s) \/ Append(h, s)
  <2>1. Quiet(h) \/ Purge(h) \/ RevokeApply(h) \/ \E s \in Tokens : Issue(h, s) \/ Append(h, s)
    BY <1>1 DEF Progress, Quiet
  <2> QED
    BY <2>1, QuietTables
<1>2. CASE Tick \/ \E l \in Lawyers : DeleteAccount(l) \/ DeletionFails(l)
  BY <1>2 DEF Tick, DeleteAccount, DeletionFails
<1>3. CASE UNCHANGED vars
  BY <1>3 DEF vars
<1> QED
  BY <1>1, <1>2, <1>3 DEF Next

-----------------------------------------------------------------------------
(* What the writing steps do to the live tokens and to the creations. *)

LEMMA IssueEffect ==
    ASSUME IInv, NEW h \in Handlers, NEW s \in Tokens, Issue(h, s)
    PROVE  /\ Fresh(s) /\ ~Fresh(s)' /\ ~Live(s) /\ Live(s)'
           /\ minted'[s].parent = Null /\ minted'[s].family = s
           /\ \A t \in Tokens \ {s} : (Live(t)' <=> Live(t)) /\ minted'[t] = minted[t]
<1> DEFINE l == req[h].lawyer
           row == NewRow(s, l, clock + SessionTtl)
           birth == [family |-> s, parent |-> Null, lawyer |-> l, ceiling |-> clock + SessionTtl]
<1>1. clock \in Nat /\ l \in Lawyers /\ Fresh(s) /\ ~Live(s) /\ TypeOK
  BY DEF IInv, TypeOK, Issue, HandlerInv, HoldsRow, TableInv, RowsAsMinted, Live
<1>2. /\ row # Null /\ row.revokedAt = Null
      /\ birth # Null /\ birth.parent = Null /\ birth.family = s
  <2>1. row \in Row /\ row.revokedAt = Null /\ birth \in Birth
    BY <1>1, TtlAssumption DEF NewRow, Row, Birth
  <2> QED
    BY <2>1, RowsAreNotNull
<1>3. table' = [table EXCEPT ![s] = row] /\ minted' = [minted EXCEPT ![s] = birth]
  BY DEF Issue
<1> HIDE DEF row, birth
<1> QED
  BY <1>1, <1>2, <1>3 DEF TypeOK, Live, Stored, Fresh

LEMMA AppendEffect ==
    ASSUME IInv, NEW h \in Handlers, NEW s \in Tokens, Append(h, s)
    PROVE  \E t \in Tokens :
             /\ Fresh(s) /\ ~Fresh(s)' /\ ~Live(s) /\ Live(s)'
             /\ ~Fresh(t) /\ Live(t) /\ ~Live(t)'
             /\ minted'[s].parent = t /\ minted'[s].family = minted[t].family
             /\ \A u \in Tokens \ {s} : /\ u # t => (Live(u)' <=> Live(u))
                                        /\ minted'[u] = minted[u]
<1>0. PICK t \in Tokens : t = req[h].token
  BY DEF IInv, Append, HandlerInv, ReadAsMinted
<1> DEFINE row == req[h].row
           spent == [table[t] EXCEPT !.revokedAt = req[h].at]
           new == NewRow(row.family, row.lawyer, row.expiresAt)
           birth == [family |-> row.family, parent |-> t, lawyer |-> row.lawyer,
                     ceiling |-> row.expiresAt]
<1>1. /\ TypeOK /\ req[h] \in Request /\ req[h].pc = "append"
      /\ clock \in Nat /\ req[h].at \in Nat /\ row \in Row /\ row # Null
  BY RowsAreNotNull DEF IInv, TypeOK, Append, HandlerInv, HoldsRow, Request
<1>2. Fresh(s) /\ ~Live(s) /\ Live(t) /\ Stored(t) /\ s # t
  BY <1>0, <1>1 DEF Append, IInv, HandlerInv, ClaimIsLive, TableInv, RowsAsMinted, Live
<1>3. ~Fresh(t) /\ row.family = minted[t].family /\ table[t] \in Row
  BY <1>0, <1>1, <1>2 DEF IInv, TableInv, HandlerInv, RowsAsMinted, ReadAsMinted, TypeOK, Stored
<1>4. /\ spent # Null /\ spent.revokedAt # Null
      /\ new # Null /\ new.revokedAt = Null
      /\ birth # Null /\ birth.parent = t /\ birth.family = row.family
  <2>1. spent \in Row /\ spent.revokedAt # Null
    BY <1>1, <1>3, NullAssumption DEF Row
  <2>2. new \in Row /\ new.revokedAt = Null
    BY <1>1, TtlAssumption DEF NewRow, Row
  <2>3. birth \in Birth /\ birth.parent = t /\ birth.family = row.family
    BY <1>1 DEF Birth, Row
  <2> QED
    BY <2>1, <2>2, <2>3, RowsAreNotNull
<1>5. table' = [table EXCEPT ![t] = spent, ![s] = new] /\ minted' = [minted EXCEPT ![s] = birth]
  BY <1>0 DEF Append
<1> HIDE DEF row, spent, new, birth
<1>6. /\ table'[s] = new /\ table'[t] = spent /\ minted'[s] = birth
      /\ \A u \in Tokens \ {s, t} : table'[u] = table[u]
      /\ \A u \in Tokens \ {s} : minted'[u] = minted[u]
  BY <1>1, <1>2, <1>5 DEF TypeOK
<1>7. ~Fresh(s)' /\ Live(s)' /\ ~Live(t)'
  BY <1>4, <1>6 DEF Live, Stored, Fresh
<1>8. \A u \in Tokens \ {s, t} : Live(u)' <=> Live(u)
  BY <1>6 DEF Live, Stored
<1> QED
  BY <1>2, <1>3, <1>4, <1>6, <1>7, <1>8

LEMMA RevokeApplyEffect ==
    ASSUME IInv, NEW h \in Handlers, RevokeApply(h)
    PROVE  /\ req[h].pc = "revoking" /\ minted' = minted
           /\ \A t \in Tokens : Live(t)' <=> Live(t) /\ t \notin req[h].held
<1>1. TypeOK /\ req[h] \in Request /\ req[h].at \in Nat
  BY DEF IInv, TypeOK, Request
<1>2. ASSUME NEW t \in Tokens PROVE Live(t)' <=> Live(t) /\ t \notin req[h].held
  <2>1. CASE t \in req[h].held /\ Live(t)
    <3>1. table'[t] = [table[t] EXCEPT !.revokedAt = req[h].at] /\ table[t] \in Row
      BY <1>1, <2>1 DEF RevokeApply, TypeOK, Live, Stored
    <3>2. table'[t].revokedAt # Null
      BY <1>1, <3>1, NullAssumption DEF Row
    <3> QED
      BY <2>1, <3>2 DEF Live
  <2>2. CASE ~(t \in req[h].held /\ Live(t))
    <3>1. table'[t] = table[t]
      BY <2>2 DEF RevokeApply
    <3> QED
      BY <2>2, <3>1 DEF Live, Stored
  <2> QED
    BY <2>1, <2>2
<1> QED
  BY <1>2 DEF RevokeApply

LEMMA RemovalEffect ==
    ASSUME IInv, (\E h \in Handlers : Purge(h)) \/ (\E l \in Lawyers : Deleted(l))
    PROVE  /\ minted' = minted
           /\ \A t \in Tokens : table'[t] = table[t] \/ table'[t] = Null
<1>1. ASSUME NEW h \in Handlers, Purge(h)
      PROVE  minted' = minted /\ \A t \in Tokens : table'[t] = table[t] \/ table'[t] = Null
  BY <1>1 DEF Purge
<1>2. ASSUME NEW l \in Lawyers, Deleted(l)
      PROVE  minted' = minted /\ \A t \in Tokens : table'[t] = table[t] \/ table'[t] = Null
  BY <1>2 DEF Deleted
<1> QED
  BY <1>1, <1>2

\* Only its own RevokeApply takes a handler from the revocation to its answer.
LEMMA RevocationAnswer ==
    ASSUME IInv, [Next]_vars, NEW h \in Handlers,
           req[h].pc = "revoking", req'[h].pc = "answered"
    PROVE  RevokeApply(h)
<1>1. req \in [Handlers -> Request] /\ req'[h] # req[h]
  BY DEF IInv, TypeOK
<1>2. ASSUME NEW g \in Handlers, Arrive(g) \/ Progress(g) \/ Fail(g) \/ Respond(g), g # h
      PROVE  req'[h] = req[h]
  BY <1>1, <1>2
     DEF Arrive, Progress, Login, Present, Logout, Lock, Purge, Issue, Decide, Claim, Append, Reread,
         RevokeStart, RevokeApply, Fail, Respond, Answer, Await
<1>3. CASE Arrive(h) \/ Progress(h) \/ Fail(h) \/ Respond(h)
  <2>1. RevokeApply(h) \/ Fail(h) \/ Lock(h)
    BY <1>3
       DEF Arrive, Progress, Login, Present, Logout, Purge, Issue, Decide, Claim, Append, Reread,
           RevokeStart, Respond
  <2>2. ASSUME Fail(h) PROVE FALSE
    <3>1. req'[h] = Free
      BY <1>1, <2>2 DEF Fail, Await
    <3> QED
      BY <3>1, FreeTyped
  <2>3. ASSUME Lock(h) PROVE FALSE
    <3>1. req'[h].pc = req[h].pc
      BY <1>1, <2>3 DEF Lock, Await, Request
    <3> QED
      BY <3>1
  <2> QED
    BY <2>1, <2>2, <2>3
<1>4. CASE \/ Tick \/ UNCHANGED vars
           \/ \E l \in Lawyers : DeleteAccount(l) \/ Deleted(l) \/ DeletionFails(l)
  BY <1>1, <1>4 DEF Tick, vars, DeleteAccount, Deleted, DeletionFails
<1> QED
  BY <1>1, <1>2, <1>3, <1>4 DEF Next

\* When a logout or a detected reuse is answered, all its snapshot saw is dead.
THEOREM RevocationKills == Spec => RevocationKillsWhatItSaw
<1> DEFINE Kills == \A h \in Handlers :
                      req[h].pc = "revoking" /\ req'[h].pc = "answered" =>
                          \A t \in req[h].seen : ~Live(t)'
<1>1. ASSUME IInv, [Next]_vars PROVE Kills
  <2> SUFFICES ASSUME NEW h \in Handlers, req[h].pc = "revoking", req'[h].pc = "answered",
                      NEW t \in req[h].seen
               PROVE  ~Live(t)'
    OBVIOUS
  <2>1. RevokeApply(h)
    BY <1>1, RevocationAnswer
  <2>2. t \in Tokens /\ (Live(t) => t \in req[h].held)
    BY <1>1, <2>1 DEF IInv, TypeOK, Request, HandlerInv, RevocationCovers, RevokeApply
  <2> QED
    BY <1>1, <2>1, <2>2, RevokeApplyEffect
<1>2. ASSUME IInv, [Next]_vars PROVE [Kills]_vars
  BY <1>1, <1>2
<1> QED
  BY <1>2, InductiveInvariant, PTL DEF Spec, RevocationKillsWhatItSaw

\* A token that stops being live while its row stays was succeeded, or revoked with its family.
THEOREM SpentForASuccessor == Spec => NoTokenSpentForNothing
<1> DEFINE Spent == \A t \in Tokens :
          Live(t) /\ ~Live(t)' /\ Stored(t)' =>
              \/ \E s \in Tokens : Fresh(s) /\ ~Fresh(s)' /\ minted'[s].parent = t
              \/ \E h \in Handlers : req[h].pc = "revoking" /\ t \in req[h].held
<1>1. ASSUME IInv, [Next]_vars PROVE Spent
  <2> SUFFICES ASSUME NEW t \in Tokens, Live(t), ~Live(t)', Stored(t)'
               PROVE  \/ \E s \in Tokens : Fresh(s) /\ ~Fresh(s)' /\ minted'[s].parent = t
                      \/ \E h \in Handlers : req[h].pc = "revoking" /\ t \in req[h].held
    OBVIOUS
  <2>1. table'[t] # table[t]
    BY DEF Live, Stored
  <2>2. CASE \E h \in Handlers : RevokeApply(h)
    BY <1>1, <2>2, RevokeApplyEffect
  <2>3. CASE \E h \in Handlers, s \in Tokens : Append(h, s)
    <3>1. PICK h \in Handlers, s \in Tokens : Append(h, s)
      BY <2>3
    <3> QED
      BY <1>1, <3>1, AppendEffect
  <2>4. ~(\E h \in Handlers, s \in Tokens : Issue(h, s))
    BY <1>1, IssueEffect
  <2>5. ~((\E h \in Handlers : Purge(h)) \/ (\E l \in Lawyers : Deleted(l)))
    BY <1>1, <2>1, RemovalEffect DEF Stored
  <2> QED
    BY <1>1, <2>1, <2>2, <2>3, <2>4, <2>5, StepCases
<1>2. ASSUME IInv, [Next]_vars PROVE [Spent]_vars
  BY <1>1, <1>2
<1> QED
  BY <1>2, InductiveInvariant, PTL DEF Spec, NoTokenSpentForNothing

-----------------------------------------------------------------------------
(* The refinement. *)

Heads == {t \in Tokens : Live(t)}
Families == [t \in Tokens |-> IF Fresh(t) THEN Null ELSE minted[t].family]

LEMMA ChainInit == Init => Chain!SInit
BY DEF Init, Chain!SInit, Live, Stored, Fresh

\* A step that removes live tokens and creates none ends chains, or is not seen.
LEMMA EndingStep ==
    ASSUME minted' = minted, \A t \in Tokens : Live(t)' => Live(t)
    PROVE  [Chain!SNext]_(Chain!svars)
<1>1. Heads' \subseteq Heads /\ Families' = Families
  BY DEF Heads, Families, Fresh
<1> DEFINE ended == Heads \ Heads'
<1>2. ended \in SUBSET Heads /\ Heads' = Heads \ ended
  BY <1>1
<1>3. CASE ended = {}
  BY <1>1, <1>2, <1>3 DEF Chain!svars, Heads, Families
<1>4. CASE ended # {}
  <2>1. Chain!End(ended)
    BY <1>1, <1>2, <1>4 DEF Chain!End, Heads, Families
  <2> QED
    BY <1>2, <2>1 DEF Chain!SNext, Heads
<1> QED
  BY <1>3, <1>4

\* Every step is one atomic operation on chains, or is not seen.
LEMMA ChainStep == ASSUME IInv, [Next]_vars PROVE [Chain!SNext]_(Chain!svars)
<1>0. TypeOK
  BY DEF IInv
<1>1. CASE UNCHANGED <<accounts, table, minted>>
  BY <1>1, EndingStep DEF Live, Stored
<1>2. CASE \E h \in Handlers : RevokeApply(h)
  BY <1>2, RevokeApplyEffect, EndingStep
<1>3. CASE (\E h \in Handlers : Purge(h)) \/ (\E l \in Lawyers : Deleted(l))
  <2>1. minted' = minted /\ \A t \in Tokens : table'[t] = table[t] \/ table'[t] = Null
    BY <1>3, RemovalEffect
  <2>2. \A t \in Tokens : Live(t)' => Live(t)
    BY <2>1 DEF Live, Stored
  <2> QED
    BY <2>1, <2>2, EndingStep
<1>4. ASSUME NEW h \in Handlers, NEW s \in Tokens, Issue(h, s) PROVE Chain!Open(s)
  <2>1. /\ Fresh(s) /\ ~Fresh(s)' /\ ~Live(s) /\ Live(s)' /\ minted'[s].family = s
        /\ \A t \in Tokens \ {s} : (Live(t)' <=> Live(t)) /\ minted'[t] = minted[t]
    BY <1>4, IssueEffect
  <2>2. Heads' = Heads \cup {s}
    BY <2>1 DEF Heads
  <2>3. Families[s] = Null /\ Families' = [Families EXCEPT ![s] = s]
    BY <2>1 DEF Families, Fresh
  <2> QED
    BY <2>2, <2>3 DEF Chain!Open, Heads, Families
<1>5. ASSUME NEW h \in Handlers, NEW s \in Tokens, Append(h, s)
      PROVE  \E t \in Tokens : Chain!Renew(t, s)
  <2>1. PICK t \in Tokens :
             /\ Fresh(s) /\ ~Fresh(s)' /\ ~Live(s) /\ Live(s)'
             /\ ~Fresh(t) /\ Live(t) /\ ~Live(t)'
             /\ minted'[s].parent = t /\ minted'[s].family = minted[t].family
             /\ \A u \in Tokens \ {s} : /\ u # t => (Live(u)' <=> Live(u))
                                        /\ minted'[u] = minted[u]
    BY <1>5, AppendEffect
  <2>2. Heads' = (Heads \ {t}) \cup {s} /\ t \in Heads
    BY <2>1 DEF Heads
  <2>3. Families[s] = Null /\ Families' = [Families EXCEPT ![s] = Families[t]]
    BY <2>1 DEF Families, Fresh
  <2>4. Chain!Renew(t, s)
    BY <2>2, <2>3 DEF Chain!Renew, Heads, Families
  <2> QED
    BY <2>4
<1> QED
  BY <1>1, <1>2, <1>3, <1>4, <1>5, StepCases DEF Chain!SNext

\* The service implements atomic operations on chains.
THEOREM ChainRefinement == Spec => ImplementsSessionChain
BY ChainInit, ChainStep, InductiveInvariant, PTL
   DEF Spec, ImplementsSessionChain, Chain!SSpec

\* What the atomic chains promise: each of their steps keeps what has ended ended.
LEMMA ChainPromises ==
    ASSUME [Chain!SNext]_(Chain!svars)
    PROVE  Chain!NoneComesBack /\ Chain!SpentStays
<1>1. Families = [t \in Tokens |-> Families[t]]
  BY DEF Families
<1>2. ASSUME NEW s \in Tokens, Chain!Open(s)
      PROVE  Chain!NoneComesBack /\ Chain!SpentStays
  BY <1>1, <1>2, NullAssumption
     DEF Chain!Open, Chain!NoneComesBack, Chain!SpentStays, Chain!ChainOf, Heads, Families
<1>3. ASSUME NEW t \in Tokens, NEW s \in Tokens, Chain!Renew(t, s)
      PROVE  Chain!NoneComesBack /\ Chain!SpentStays
  <2>1. /\ t \in Heads /\ Families[s] = Null
        /\ Heads' = (Heads \ {t}) \cup {s}
        /\ Families' = [Families EXCEPT ![s] = Families[t]]
    BY <1>3 DEF Chain!Renew, Heads, Families
  <2>2. Families'[s] = Families[t] /\ \A u \in Tokens \ {s} : Families'[u] = Families[u]
    BY <1>1, <2>1
  <2>3. ASSUME NEW f \in Tokens, \A u \in Heads : Families[u] # f, Families[f] # Null
        PROVE  \A u \in Heads' : Families'[u] # f
    BY <2>1, <2>2, <2>3 DEF Heads
  <2>4. Chain!NoneComesBack
    BY <2>3 DEF Chain!NoneComesBack, Chain!ChainOf, Heads, Families
  <2>5. Chain!SpentStays
    BY <2>1, <2>2 DEF Chain!SpentStays, Heads, Families
  <2> QED
    BY <2>4, <2>5
<1>4. ASSUME NEW ended \in SUBSET Heads, Chain!End(ended)
      PROVE  Chain!NoneComesBack /\ Chain!SpentStays
  BY <1>4
     DEF Chain!End, Chain!NoneComesBack, Chain!SpentStays, Chain!ChainOf, Heads, Families
<1>5. CASE UNCHANGED Chain!svars
  BY <1>5
     DEF Chain!svars, Chain!NoneComesBack, Chain!SpentStays, Chain!ChainOf, Heads, Families
<1> QED
  BY <1>2, <1>3, <1>4, <1>5 DEF Chain!SNext, Heads

\* A session without a live token - revoked, purged, its account deleted - never has one again,
\* whatever rotation had read its row before.
THEOREM SessionsEndForGood == Spec => Chain!EndedForGood
<1>1. IInv /\ [Next]_vars => [Chain!NoneComesBack]_(Chain!svars)
  BY ChainStep, ChainPromises
<1> QED
  BY <1>1, InductiveInvariant, PTL DEF Spec, Chain!EndedForGood

\* No operation makes a spent, revoked or purged token live again, or moves a token to another
\* session.
THEOREM TokensAreSpentForGood == Spec => Chain!SpentForGood
<1>1. IInv /\ [Next]_vars => [Chain!SpentStays]_(Chain!svars)
  BY ChainStep, ChainPromises
<1> QED
  BY <1>1, InductiveInvariant, PTL DEF Spec, Chain!SpentForGood

-----------------------------------------------------------------------------
(* Deadlines and accounts. No date lies in the future, no deadline further  *)
(* than its duration from now, and the rows of an account go with it.       *)

RowTimes(row) ==
    /\ row.idleExpiresAt <= clock + IdleTtl
    /\ row.revokedAt # Null => row.revokedAt <= clock
    /\ row.lawyer \in accounts

TimeInv ==
    /\ \A t \in Tokens : Stored(t) => RowTimes(table[t])
    /\ \A t \in Tokens : ~Fresh(t) => minted[t].ceiling <= clock + SessionTtl
    /\ \A h \in Handlers : req[h].at <= clock

LEMMA InitTimes == Init => TimeInv
BY NullAssumption DEF Init, TimeInv, Free, Stored, Fresh

LEMMA TimeStep ==
    ASSUME IInv, TimeInv, clock' \in Nat, clock <= clock',
           \A t \in Tokens : Stored(t)' =>
               RowTimes(table[t])' \/ (table'[t] = table[t] /\ table[t].lawyer \in accounts'),
           \A t \in Tokens : ~Fresh(t)' =>
               minted'[t] = minted[t] \/ minted'[t].ceiling <= clock' + SessionTtl,
           \A h \in Handlers : req'[h] = req[h] \/ req'[h].at <= clock'
    PROVE  TimeInv'
<1>0. clock \in Nat /\ TypeOK
  BY DEF IInv, TypeOK
<1>1. ASSUME NEW t \in Tokens, Stored(t)' PROVE RowTimes(table[t])'
  <2>1. CASE RowTimes(table[t])'
    BY <2>1
  <2>2. CASE table'[t] = table[t] /\ table[t].lawyer \in accounts'
    <3>1. RowTimes(table[t]) /\ table[t] \in Row
      BY <1>0, <1>1, <2>2 DEF Stored, TimeInv, TypeOK
    <3>2. table[t].idleExpiresAt \in Nat /\ table[t].revokedAt \in Nat \cup {Null}
      BY <3>1 DEF Row
    <3> QED
      BY <1>0, <2>2, <3>1, <3>2, TtlAssumption DEF RowTimes
  <2> QED
    BY <1>1, <2>1, <2>2
<1>2. ASSUME NEW t \in Tokens, ~Fresh(t)' PROVE minted'[t].ceiling <= clock' + SessionTtl
  <2>1. CASE minted'[t] = minted[t]
    <3>1. minted[t] \in Birth /\ minted[t].ceiling <= clock + SessionTtl
      BY <1>0, <1>2, <2>1 DEF Fresh, TimeInv, TypeOK
    <3>2. minted[t].ceiling \in Nat
      BY <3>1 DEF Birth
    <3> QED
      BY <1>0, <2>1, <3>1, <3>2, TtlAssumption
  <2> QED
    BY <1>2, <2>1
<1>3. ASSUME NEW h \in Handlers PROVE req'[h].at <= clock'
  <2>1. req[h].at \in Nat /\ req[h].at <= clock
    BY <1>0 DEF TypeOK, Request, TimeInv
  <2> QED
    BY <1>0, <2>1
<1> QED
  BY <1>1, <1>2, <1>3 DEF TimeInv

\* The dates that handlers carry across an await.
Dated == \A g \in Handlers : req'[g] = req[g] \/ req'[g].at <= clock

LEMMA AwaitAt ==
    ASSUME IInv, NEW h \in Handlers, NEW r, Await(h, r), r.at <= clock
    PROVE  Dated
BY DEF IInv, TypeOK, Await, Dated

LEMMA AnswerAt ==
    ASSUME IInv, NEW h \in Handlers, Await(h, Free) \/ \E o \in Outcomes : Answer(h, o)
    PROVE  Dated
<1>1. 0 <= clock
  BY DEF IInv, TypeOK
<1>2. CASE Await(h, Free)
  BY <1>1, <1>2, AwaitAt DEF Free
<1>3. ASSUME NEW o \in Outcomes, Answer(h, o) PROVE Dated
  <2> DEFINE r == [Free EXCEPT !.pc = "answered", !.outcome = o]
  <2>1. Await(h, r) /\ r.at = 0
    BY <1>3, AnswerTyped DEF Answer
  <2> HIDE DEF r
  <2> QED
    BY <1>1, <2>1, AwaitAt
<1> QED
  BY <1>2, <1>3

LEMMA QuietAt ==
    ASSUME IInv, TimeInv, NEW h \in Handlers, Quiet(h)
    PROVE  Dated
<1>0. /\ clock \in Nat /\ req[h] \in Request /\ req[h].at \in Nat /\ req[h].at <= clock
  BY DEF IInv, TypeOK, Request, TimeInv
<1>1. ASSUME NEW r, Await(h, r), r.at \in Nat, r.at <= clock PROVE Dated
  BY <1>1, AwaitAt
<1>2. ASSUME NEW o \in Outcomes, Answer(h, o) PROVE Dated
  BY <1>2, AnswerAt
<1>3. ASSUME Await(h, Free) PROVE Dated
  BY <1>3, AnswerAt
<1>4. ASSUME NEW l \in Lawyers, Login(h, l) PROVE Dated
  <2> DEFINE past == {t \in Tokens : /\ Stored(t)
                                     /\ table[t].lawyer = l
                                     /\ table[t].expiresAt < clock}
             r == [Free EXCEPT !.pc = IF past = {} THEN "issue" ELSE "purge",
                               !.lawyer = l, !.targets = past]
  <2>1. Await(h, r) /\ r.at = 0
    BY <1>4 DEF Login, Free
  <2> HIDE DEF r
  <2> QED
    BY <1>0, <1>1, <2>1
<1>5. ASSUME NEW t \in Tokens, Present(h, t) PROVE Dated
  <2> DEFINE r == [Free EXCEPT !.pc = "read", !.token = t, !.row = table[t]]
  <2>1. Await(h, r) /\ r.at = 0
    BY <1>5 DEF Present, Free
  <2> HIDE DEF r
  <2> QED
    BY <1>0, <1>1, <2>1
<1>6. ASSUME NEW t \in Tokens, Logout(h, t) PROVE Dated
  <2> DEFINE r == [Free EXCEPT !.pc = "revoke", !.family = table[t].family]
  <2>1. Answer(h, "ended") \/ Await(h, r)
    BY <1>6 DEF Logout
  <2>2. r.at = 0
    BY DEF Free
  <2> HIDE DEF r
  <2> QED
    BY <1>0, <1>1, <1>2, <2>1, <2>2 DEF Outcomes
<1>7. CASE Decide(h)
  <2> DEFINE r == [Free EXCEPT !.pc = "revoke", !.family = req[h].row.family]
             c == [req[h] EXCEPT !.pc = "claim", !.at = clock]
  <2>1. \/ Answer(h, "ended") \/ Answer(h, "raced")
        \/ Await(h, r) \/ Await(h, c)
    BY <1>7 DEF Decide
  <2>2. r.at = 0 /\ c.at = clock
    BY <1>0 DEF Free, Request
  <2> HIDE DEF r, c
  <2> QED
    BY <1>0, <1>1, <1>2, <2>1, <2>2 DEF Outcomes
<1>8. CASE Claim(h)
  <2>1. CASE Answer(h, "raced")
    BY <1>2, <2>1 DEF Outcomes
  <2>2. ASSUME NEW at \in req[h].at .. clock,
               Await(h, [req[h] EXCEPT !.pc = "append", !.at = at, !.held = {req[h].token}])
        PROVE  Dated
    <3> DEFINE r == [req[h] EXCEPT !.pc = "append", !.at = at, !.held = {req[h].token}]
    <3>1. Await(h, r) /\ r.at = at /\ at \in Nat /\ at <= clock
      BY <1>0, <2>2 DEF Request
    <3> HIDE DEF r
    <3> QED
      BY <1>1, <3>1
  <2> QED
    BY <1>8, <2>1, <2>2 DEF Claim
<1>9. CASE RevokeStart(h)
  <2> DEFINE seen == {t \in Tokens : Stored(t) /\ table[t].family = req[h].family}
             r == [req[h] EXCEPT !.pc = "revoking", !.at = clock, !.seen = seen,
                                 !.targets = {t \in seen : Live(t)}]
  <2>1. Await(h, r) \/ Answer(h, "ended")
    BY <1>9 DEF RevokeStart
  <2>2. r.at = clock
    BY <1>0 DEF Request
  <2> HIDE DEF r
  <2> QED
    BY <1>0, <1>1, <1>2, <2>1, <2>2 DEF Outcomes
<1>10. CASE Lock(h)
  <2>1. PICK t \in req[h].targets :
           Await(h, [req[h] EXCEPT !.targets = @ \ {t},
                                   !.held = IF Stored(t) THEN @ \cup {t} ELSE @])
    BY <1>10 DEF Lock
  <2> DEFINE r == [req[h] EXCEPT !.targets = @ \ {t},
                                 !.held = IF Stored(t) THEN @ \cup {t} ELSE @]
  <2>2. Await(h, r) /\ r.at = req[h].at
    BY <1>0, <2>1 DEF Request
  <2> HIDE DEF r
  <2> QED
    BY <1>0, <1>1, <2>2
<1>11. CASE Reread(h) \/ Fail(h) \/ Respond(h)
  BY <1>2, <1>3, <1>11 DEF Reread, Fail, Respond, Outcomes
<1> QED
  BY <1>4, <1>5, <1>6, <1>7, <1>8, <1>9, <1>10, <1>11 DEF Quiet, Arrive

LEMMA IssueTimes ==
    ASSUME IInv, TimeInv, NEW h \in Handlers, NEW s \in Tokens, Issue(h, s)
    PROVE  TimeInv'
<1> DEFINE l == req[h].lawyer
           row == NewRow(s, l, clock + SessionTtl)
           birth == [family |-> s, parent |-> Null, lawyer |-> l, ceiling |-> clock + SessionTtl]
<1>1. clock \in Nat /\ TypeOK /\ l \in accounts /\ UNCHANGED <<clock, accounts, closing>>
      /\ Answer(h, "set")
  BY DEF IInv, TypeOK, Issue, CanReference
<1>2. /\ row.idleExpiresAt = clock + IdleTtl /\ row.revokedAt = Null /\ row.lawyer = l
      /\ birth.ceiling = clock + SessionTtl
  BY DEF NewRow
<1>3. table' = [table EXCEPT ![s] = row] /\ minted' = [minted EXCEPT ![s] = birth]
  BY DEF Issue
<1> HIDE DEF row, birth
<1>4. /\ table'[s] = row /\ minted'[s] = birth
      /\ \A t \in Tokens \ {s} : table'[t] = table[t] /\ minted'[t] = minted[t]
  BY <1>1, <1>3 DEF TypeOK
<1>5. RowTimes(table[s])' /\ minted'[s].ceiling <= clock' + SessionTtl
  BY <1>1, <1>2, <1>4, TtlAssumption DEF RowTimes
<1>6. \A t \in Tokens \ {s} : Stored(t)' => table[t].lawyer \in accounts'
  BY <1>1, <1>4 DEF TimeInv, RowTimes, Stored
<1>7. \A g \in Handlers : req'[g] = req[g] \/ req'[g].at <= clock'
  BY <1>1, AnswerAt DEF Dated, Outcomes
<1> QED
  BY <1>1, <1>4, <1>5, <1>6, <1>7, TimeStep

LEMMA AppendTimes ==
    ASSUME IInv, TimeInv, NEW h \in Handlers, NEW s \in Tokens, Append(h, s)
    PROVE  TimeInv'
<1>0. PICK t \in Tokens : t = req[h].token
  BY DEF IInv, Append, HandlerInv, ReadAsMinted
<1> DEFINE row == req[h].row
           spent == [table[t] EXCEPT !.revokedAt = req[h].at]
           new == NewRow(row.family, row.lawyer, row.expiresAt)
           birth == [family |-> row.family, parent |-> t, lawyer |-> row.lawyer,
                     ceiling |-> row.expiresAt]
           again == [Free EXCEPT !.pc = "reread", !.lawyer = row.lawyer]
<1>1. /\ TypeOK /\ req[h] \in Request /\ req[h].pc = "append" /\ UNCHANGED <<clock, accounts, closing>>
      /\ clock \in Nat /\ row \in Row /\ row # Null /\ row.lawyer \in accounts
      /\ req[h].at <= clock
  BY RowsAreNotNull DEF IInv, TypeOK, Append, CanReference, HandlerInv, HoldsRow, TimeInv
<1>2. Stored(t) /\ ~Fresh(t) /\ table[t] \in Row /\ RowTimes(table[t])
      /\ row.expiresAt = minted[t].ceiling
  BY <1>0, <1>1, RowsAreNotNull
     DEF IInv, TypeOK, HandlerInv, ClaimIsLive, ReadAsMinted, Live, Stored, TimeInv
<1>3. /\ spent.idleExpiresAt = table[t].idleExpiresAt /\ spent.lawyer = table[t].lawyer
      /\ spent.revokedAt = req[h].at
      /\ new.idleExpiresAt = clock + IdleTtl /\ new.revokedAt = Null /\ new.lawyer = row.lawyer
      /\ birth.ceiling = row.expiresAt /\ again.at = 0
  BY <1>1, <1>2 DEF NewRow, Row, Free
<1>4. /\ table' = [table EXCEPT ![t] = spent, ![s] = new]
      /\ minted' = [minted EXCEPT ![s] = birth] /\ Await(h, again) /\ Fresh(s)
  BY <1>0 DEF Append
<1>5. row.expiresAt <= clock + SessionTtl
  BY <1>2 DEF TimeInv
<1> HIDE DEF row, spent, new, birth, again
<1>6. /\ table'[s] = new /\ (s # t => table'[t] = spent) /\ minted'[s] = birth
      /\ \A u \in Tokens \ {s, t} : table'[u] = table[u]
      /\ \A u \in Tokens \ {s} : minted'[u] = minted[u]
  BY <1>1, <1>4 DEF TypeOK
<1>7. RowTimes(table[s])' /\ (s # t => RowTimes(table[t])')
  BY <1>1, <1>2, <1>3, <1>6, TtlAssumption DEF RowTimes
<1>8. minted'[s].ceiling <= clock' + SessionTtl
  BY <1>1, <1>3, <1>5, <1>6
<1>9. \A u \in Tokens \ {s, t} : Stored(u)' => table[u].lawyer \in accounts'
  BY <1>1, <1>6 DEF TimeInv, RowTimes, Stored
<1>10. \A g \in Handlers : req'[g] = req[g] \/ req'[g].at <= clock'
  BY <1>1, <1>3, <1>4, AwaitAt DEF Dated
<1>11. \A u \in Tokens : Stored(u)' =>
          RowTimes(table[u])' \/ (table'[u] = table[u] /\ table[u].lawyer \in accounts')
  BY <1>6, <1>7, <1>9
<1> QED
  BY <1>1, <1>6, <1>8, <1>10, <1>11, TimeStep

LEMMA RevokeApplyTimes ==
    ASSUME IInv, TimeInv, NEW h \in Handlers, RevokeApply(h)
    PROVE  TimeInv'
<1>1. /\ TypeOK /\ clock \in Nat /\ req[h].at <= clock
      /\ UNCHANGED <<clock, accounts, closing, minted>> /\ Answer(h, "ended")
  BY DEF IInv, TypeOK, TimeInv, RevokeApply
<1>2. ASSUME NEW t \in Tokens, Stored(t)'
      PROVE  RowTimes(table[t])' \/ (table'[t] = table[t] /\ table[t].lawyer \in accounts')
  <2>1. CASE t \in req[h].held /\ Live(t)
    <3>1. table'[t] = [table[t] EXCEPT !.revokedAt = req[h].at] /\ table[t] \in Row
          /\ RowTimes(table[t])
      BY <1>1, <2>1 DEF RevokeApply, TypeOK, Live, Stored, TimeInv
    <3>2. /\ table'[t].idleExpiresAt = table[t].idleExpiresAt
          /\ table'[t].lawyer = table[t].lawyer /\ table'[t].revokedAt = req[h].at
      BY <3>1 DEF Row
    <3> QED
      BY <1>1, <3>1, <3>2 DEF RowTimes
  <2>2. CASE ~(t \in req[h].held /\ Live(t))
    <3>1. table'[t] = table[t]
      BY <2>2 DEF RevokeApply
    <3> QED
      BY <1>1, <1>2, <3>1 DEF TimeInv, RowTimes, Stored
  <2> QED
    BY <2>1, <2>2
<1>3. \A g \in Handlers : req'[g] = req[g] \/ req'[g].at <= clock'
  BY <1>1, AnswerAt DEF Dated, Outcomes
<1> QED
  BY <1>1, <1>2, <1>3, TimeStep

LEMMA NextTimes == ASSUME IInv, TimeInv, [Next]_vars PROVE TimeInv'
<1>0. TypeOK /\ clock \in Nat /\ \A h \in Handlers : req[h].at \in Nat /\ req[h].at <= clock
  BY DEF IInv, TypeOK, Request, TimeInv
<1>1. \A t \in Tokens : Stored(t) => table[t].lawyer \in accounts
  BY DEF TimeInv, RowTimes
<1>2. ASSUME NEW h \in Handlers, Quiet(h) PROVE TimeInv'
  <2>1. UNCHANGED <<clock, accounts, table, closing, minted>>
    BY <1>2, QuietTables
  <2>2. \A g \in Handlers : req'[g] = req[g] \/ req'[g].at <= clock'
    BY <1>2, <2>1, QuietAt DEF Dated
  <2> QED
    BY <1>0, <1>1, <2>1, <2>2, TimeStep DEF Stored
<1>3. ASSUME NEW h \in Handlers, Purge(h) PROVE TimeInv'
  <2> DEFINE r == [req[h] EXCEPT !.pc = "issue", !.held = {}]
  <2>1. /\ UNCHANGED <<clock, accounts, closing, minted>> /\ Await(h, r)
        /\ \A t \in Tokens : table'[t] = table[t] \/ table'[t] = Null
    BY <1>3 DEF Purge
  <2>2. r.at = req[h].at
    BY <1>0 DEF TypeOK, Request
  <2> HIDE DEF r
  <2>3. \A g \in Handlers : req'[g] = req[g] \/ req'[g].at <= clock'
    BY <1>0, <2>1, <2>2, AwaitAt DEF Dated
  <2> QED
    BY <1>0, <1>1, <2>1, <2>3, TimeStep DEF Stored
<1>4. ASSUME NEW l \in Lawyers, Deleted(l) PROVE TimeInv'
  <2>1. /\ UNCHANGED <<clock, req, minted>> /\ accounts' = accounts \ {l}
        /\ \A t \in Tokens : Stored(t)' => table'[t] = table[t] /\ table[t].lawyer # l
    BY <1>4 DEF Deleted, Stored
  <2> QED
    BY <1>0, <1>1, <2>1, TimeStep DEF Stored
<1>5. CASE \/ Tick \/ UNCHANGED vars
           \/ \E l \in Lawyers : DeleteAccount(l) \/ DeletionFails(l)
  <2>1. clock' \in Nat /\ clock <= clock' /\ UNCHANGED <<accounts, table, req, minted>>
    BY <1>0, <1>5 DEF Tick, vars, DeleteAccount, DeletionFails
  <2> QED
    BY <1>1, <2>1, TimeStep DEF Stored
<1> QED
  BY <1>2, <1>3, <1>4, <1>5, IssueTimes, AppendTimes, RevokeApplyTimes
     DEF Next, Progress, Quiet

LEMMA TimeInvariant == Spec => []TimeInv
<1>1. IInv /\ TimeInv /\ [Next]_vars => TimeInv'
  BY NextTimes
<1> QED
  BY <1>1, InitTimes, InductiveInvariant, PTL DEF Spec

\* What can still be renewed is near its end: the ceiling at most SESSION_EXPIRES away, the idle
\* deadline at most SESSION_IDLE_EXPIRES; and a revocation is never dated ahead, so that the
\* window in which its token passes for a race is over RACE_WINDOW_MS later.
DeadlinesAreNear ==
    \A t \in Tokens : Stored(t) =>
        /\ table[t].expiresAt <= clock + SessionTtl
        /\ table[t].idleExpiresAt <= clock + IdleTtl
        /\ table[t].revokedAt # Null => table[t].revokedAt <= clock

\* append and rotate: whichever transactions wait for which, the dates they carry from before the
\* wait postpone neither the end of a session nor the detection of a reuse.
THEOREM SessionsRunOut == Spec => []DeadlinesAreNear
<1>1. ASSUME IInv, TimeInv, NEW t \in Tokens, Stored(t)
      PROVE  /\ table[t].expiresAt <= clock + SessionTtl
             /\ table[t].idleExpiresAt <= clock + IdleTtl
             /\ table[t].revokedAt # Null => table[t].revokedAt <= clock
  <2>1. /\ table[t] \in Row /\ RowTimes(table[t]) /\ ~Fresh(t) /\ clock \in Nat
        /\ table[t].expiresAt = minted[t].ceiling
    BY <1>1 DEF IInv, TypeOK, TableInv, RowsAsMinted, TimeInv, Stored
  <2>2. table[t].revokedAt \in Nat \cup {Null}
    BY <2>1 DEF Row
  <2> QED
    BY <1>1, <2>1, <2>2, TtlAssumption DEF TimeInv, RowTimes
<1>2. IInv /\ TimeInv => DeadlinesAreNear
  BY <1>1 DEF DeadlinesAreNear
<1> QED
  BY <1>2, InductiveInvariant, TimeInvariant, PTL

\* Whatever rows purges, rotations and revocations lock in whatever order, requests that wait
\* for one another in a circle are purges of one account: a rotation holds one row and waits for
\* none, and OneLiveTokenPerFamily leaves a revocation one row, so it waits or holds, never both.
THEOREM NoDeadlock == Spec => []OnlyPurgesDeadlock
<1>1. ASSUME IInv, NEW g \in Handlers, NEW h \in Handlers, NEW k \in Handlers,
             WaitsFor(g, h), WaitsFor(h, k)
      PROVE  req[h].pc = "purge" /\ (req[k].pc = "purge" => req[k].lawyer = req[h].lawyer)
  <2>1. PICK s \in req[h].held : TRUE
    BY <1>1 DEF WaitsFor
  <2>2. PICK t \in Wanted(h) \cap req[k].held : TRUE
    BY <1>1 DEF WaitsFor
  <2>3. HandlerInv(h) /\ HandlerInv(k) /\ h # k /\ s \in Tokens /\ t \in Tokens
    BY <1>1, <2>1, <2>2 DEF IInv, TypeOK, Request, WaitsFor
  <2>4. req[h].pc \in {"purge", "revoking", "append"}
    BY <2>1, <2>3 DEF HandlerInv, LocksItsOwn
  <2>5. t \in req[h].targets
    BY <2>2, <2>4 DEF Wanted
  <2>6. t \notin req[h].held
    BY <1>1, <2>2, <2>3 DEF IInv, OneHolder
  <2>7. req[h].pc = "purge"
    BY <2>1, <2>3, <2>4, <2>5, <2>6 DEF HandlerInv, LocksItsOwn, SingleTarget
  <2>8. ASSUME req[k].pc = "purge" PROVE req[k].lawyer = req[h].lawyer
    BY <2>2, <2>3, <2>5, <2>7, <2>8 DEF HandlerInv, PurgeIsPast
  <2> QED
    BY <2>7, <2>8
<1>2. IInv => OnlyPurgesDeadlock
  BY <1>1 DEF OnlyPurgesDeadlock
<1> QED
  BY <1>2, InductiveInvariant, PTL
=============================================================================

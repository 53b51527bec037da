# Deposit portal: TLA+ verification

A lawyer opens a *deposit request* (a title and the pieces expected), sends the client a
*public link* and a PIN, and the client deposits one file per piece. The program is
`exo2-portail-depot/`: a NestJS backend over PostgreSQL (Prisma) and MinIO (S3), a React SPA,
and the compose files around them. This directory holds TLA+ models of the parts whose
correctness depends on the order things happen in, the TLC runs that check them on small
instances, and TLAPS proofs of their main properties for all values of the constants.

Paths below are relative to `src/exo2-portail-depot/`.

## 1. Inventory

What makes the system hard is the same everywhere. A Node process runs each HTTP request up to
its next `await`, then any other. PostgreSQL runs at READ COMMITTED, so a statement reads
a snapshot, waits for row locks, and re-evaluates its `WHERE` on the rows it then finds.
Rows and objects live in two stores no transaction spans. Any call may fail, and the process may
die between two of them. Browsers hold cookies shared by all their tabs.

| Component | State | Operations | Hard | Correct when |
|---|---|---|---|---|
| Refresh tokens (`backend/src/auth/refresh-token.service.ts`) | table `RefreshToken`: hash, family, ceiling, idle deadline, revocation | `issue`, `rotate`, `revokeFamilyOf`, `purgeExpired` | two requests present one cookie; a logout overlaps a rotation; stale row read before the claim; row locks taken one at a time | one usable token per family, no fork, fixed ceiling, reuse recognised, a revoked family stays dead, no deadlock of two tabs |
| Lawyer authentication (`auth.service.ts`, `auth.controller.ts`, `jwt-auth.guard.ts`, `auth-cookie.ts`) | two cookies; the access JWT | `login`, `refresh`, `logout`, `me`, `canActivate` | which answers clear the cookies, an account deleted meanwhile, a cookie spent by another tab | a renewal race costs no session, a sign-out closes its chain |
| Public links (`requests/public-links.service.ts`) | table `PublicLink` with a partial unique index | `resolve`, `regenerate`, `revoke` | concurrent regenerations; conflict on the index; dates read before statements | one active link per request, replacement is atomic, revocation is final |
| Deposit requests (`requests/requests.service.ts`, `request-status.ts`) | `DepositRequest`, `RequestedItem` | `create`, `list`, `findOne`, `streamFile`, `deriveStatus` | a status derived from the last link and the files; a page and its total read by two statements | dashboard and client agree, paging hides nothing |
| Deposits (`public/deposits.service.ts`) | table `UploadedFile`, the bucket, a counter | `store`, `record`, `forget`, `countIfCompleted` | two stores, no transaction; overlapping deposits of one piece; failures, crashes | a row names an object that exists, refusals leave nothing, completion is counted |
| Object storage (`storage/storage.service.ts`) | the bucket | put, get, delete, the bucket check of the start | partial failure | no loss, no leak |
| Public client access (`public/public.service.ts`, `client-session.guard.ts`, `public.controller.ts`) | client cookie (JWT naming a link), unlock counters | `unlock`, `session`, `canActivate` | a link cut or reissued under a session; one cookie for all tabs; answers lost or late | nothing is opened through a link that is cut, nor without its code; answers are counted |
| Seed (`backend/src/seed.ts`) | demonstration account, request and link | idempotent provisioning | an interruption between two writes | as if created by the API |
| Metrics and health | Prometheus counters | record, expose | counting twice or never | one completion, one count |
| SPA session (`frontend/src/api/client.ts`, `auth/session-provider.tsx`, `require-session.tsx`) | the cookies all tabs share, each tab's status | `sendWithRenewal`, mount, sign in, sign out | tabs renewing together, a late answer, a call whose page is gone | a live session is not lost, no tab loads for ever |
| SPA data (`hooks/use-resource.ts`, `api/upload.ts`) and screens (`pages/`) | state kept across awaits | load, page, create, upload, revoke, regenerate | answers out of order, a stale reading after an action, a card that outlives its link | what is shown belongs to what was asked |
| Configuration (`config/env.validation.ts`, `duration.ts`) | the environment | `validateEnv` | bounds, units, several readers of one variable | an idle deadline that was accepted can fall; cookies are scoped to the routes served |
| Start-up (`infra/docker-compose.yml`, `docker-entrypoint.sh`, `main.ts`, `health.controller.ts`) | the container's stage, the migrated databases, the probe | `up`, provision, boot, migrate, hooks, listen, restart | dependencies going away at every step | once started it recovers, on the database it migrated |
| Secrets, presentation, proxies and monitoring | none that evolves | hashing, formatting | none | unit tests |

Interactions: login, refresh and logout call the refresh tokens; creation writes request, pieces
and first link in one statement; `unlock` and the client guard call `resolve`; a deposit writes
bucket, then row, then erases the object replaced or asks whether the request is complete; the
dashboard reads the last link, the files and their objects; the SPA replays a refused call once
after a renewal, with the cookies that all its tabs share; the backend starts on the environment
`validateEnv` accepts and on the database its entrypoint has migrated.

`PROJECT.json` has the same list with the state of each component, and, under `hazards`, each
place of the code where this can go wrong with the properties that watch it.

## 2. Modules

| Module | Role |
|---|---|
| `RefreshTokens` | detailed model of the sessions of a lawyer |
| `SessionChain` | its abstract specification: atomic opening, renewal and end of chains |
| `PublicLinks` | detailed model of creation, regeneration, revocation, the seed; the two readings of the table |
| `LinkRegister` | its abstract specification: an atomic register of each request's usable link |
| `Deposits` | detailed model of deposits and downloads over table and bucket |
| `DepositBox` | its abstract specification: atomic replacement of a piece's document |
| `ClientAccess` | the client's browser, its shared cookie and the public routes, over `LinkRegister` |
| `LawyerSession` | the tabs of the lawyer's browser, their cookies and the auth routes, over `SessionChain` |
| `LawyerScreens` | dashboard, creation form and detail of a request in one tab, over `RequestsService` |
| `Startup` | the backend's container, its environment and its dependencies |
| `*Proofs` | the theorems about each of the seven detailed models, refinements included |
| `MC*` | instances for TLC: a symmetry set, and for `Startup` the environments |

`LawyerSession` composes the browser with the sessions as `RefreshTokens` promises them: it takes its
chains' steps from `SessionChain`. `ClientAccess` composes the others through what they promise: the links it reads are the
register `PublicLinks` implements, and a deposit past its guard is the one step that `Deposits`
refines (accepted, refused, or recorded and reported as failed).

Conventions. One record per handler (`req`, `job`, `work`, `call`); its `pc` names the await the handler
is suspended on, so one action is what runs between two awaits. `Fail` (or a `...Fails` action)
ends a handler at any await. Variables marked *history* are read by no guard. The definitions
headed "Faulty variant" are the operations with a plausible mistake: no specification uses them,
they are what each property has been tried against (`mutants` in `PROJECT.json`).

### RefreshTokens

`table` is the committed table; `req[h]` the HTTP request a handler serves; `accounts` the rows
of `Lawyer`, `closing` those an open `DELETE` has locked; `minted` remembers what every token was
created as. `req[h].targets` are the rows of its snapshot a statement has still to lock, `held` the
rows its open transaction has locked: PostgreSQL takes them one at a time, in an order of its own.

| Action | Code |
|---|---|
| `Login`, `Lock`, `Purge`, `Issue` | `login` once the password is accepted: `purgeExpired` (snapshot, row after row, deletion; over at once when nothing has expired), then `issue` |
| `Present`, `Decide` | the `findUnique` of `rotate`, then every refusal, on the row as read |
| `Claim` | the transaction's `updateMany ... revokedAt: null`: waits for the row, re-evaluates, wins or answers `raced` |
| `Append` | the successor's `INSERT` and the commit; both writes become visible here |
| `Reread` | `refresh` reads the account again, and clears the cookies if it is gone |
| `Logout`, `RevokeStart`, `Lock`, `RevokeApply` | `revokeFamilyOf`: read the token, then the steps of `updateMany` |
| `DeleteAccount`, `Deleted`, `DeletionFails` | an operator deletes an account: the `DELETE` locks its row, the cascade waits for its tokens, it commits or rolls back |
| `Fail`, `Respond`, `Tick` | errors, deadlocks broken and rollbacks, the answer, time |

A token stands for itself and its hash. Tokens are random and never drawn twice: `Fresh` is that
assumption. `Answer` keeps of an outcome what it does to the cookies.

The foreign key of an `INSERT` waits for a `DELETE` of the account (`CanReference`), and the cascade of
that `DELETE` for claimed tokens: the model reaches the deadlock of the two, and leaves it by `Fail` or
`DeletionFails` as PostgreSQL does. The cascade takes its rows in the step that commits; the locks it
already has while it waits for the next row would only delay who wants them, so the model has more
behaviours than the database, not fewer.

### PublicLinks

`owner` is the table of requests, `links` the committed links, `job[h]` the operation in
progress. `Ask` is `ownedRequestId` followed by `now = new Date()`; `Snapshot` and `Update` are
the `updateMany`, alone (revoke) or in a transaction that keeps its locks until `Insert`
(regenerate); `InsertConflicts` is the partial unique index refusing the insert, which
rolls the transaction back. `Create`/`CreateCommit` is the nested write of a request with its
first link. `Seed`, `SeedCreate`, `SeedLink` are the seed's look-up, creation without a link, and
call of `regenerate`. `Resolve` and `LastLinks` (`LAST_LINK`, ties left open) are the two readings.

### Deposits

One request and its pieces. `files` is the key each row names, `bucket` the objects, `completed`
the counter. `Deposit` runs `store` up to the upload: unknown piece, refused type, or a new key
and the `previousKey` read with the piece. `Put` uploads; `UpsertRead`, `UpsertInsert`,
`UpsertUpdate` are the upsert, which is a read and then an insert or an update: two first deposits
may both choose the insert, and the unique index refuses one (`P2002`, which `record` handles). `Undo` is
the `forget` of the catch, `Count` is `countIfCompleted`, `Forget` erases the object replaced.
Every call may fail; `UpsertFails` includes the write that was committed and reported as
failed (key kept in `lost`). `Crash` abandons all handlers. `Download`, `Get` are `streamFile`.

Keys are random, so a new key never equals `previousKey` and the code's test of it always holds.
Rows are never deleted by the program while a request exists, hence not in the model.

### ClientAccess

`page[t]` is the state of `DepositPage` in a tab, `cookie` the one `portail_client` of the
browser, `call[h]` a call from the browser to its answer, `proven` the dossiers whose code was
given. `current`, `issued`, `expired` are the links and `received` the pieces with a file.

| Action | Code |
|---|---|
| `Load`, `Restore` | the page's effect: restore if this tab remembers the link in its address, else ask for the code |
| `Submit`, `Pick` | `onSubmit` with a code; `onPick` on a row that is not uploading |
| `Resolve`, `View` | `unlock`: the link and the code, judged with the `now` of the call; `viewOf` and the counter; the cookie |
| `Guard`, `RestoreView`, `Body`, `Store` | `ClientSessionGuard` reads the link again, then `viewOf`, or the multipart body and the deposit |
| `Deliver` | the answer in the tab: `Unlocked`, `Restored`, `Deposited`, `DepositRefused` (a 401 closes the page), `Failed` |
| `GiveUp`, `Vanish`, `Breaks` | a network error in the tab while the server goes on, the death of the process, a database error |
| `Lawyer`, `Expire`, `CookieRunsOut` | links issued, replaced or cut; deadlines; the 30 minutes of the session |

A call is sent and reaches its handler in one step: what could happen in between only makes it
fail, which it may do anyway. `StrayCookie` is a `Set-Cookie` the browser took from an answer its page did
not wait for. A call other than a deposit changes nothing on the server once its tab is gone.

### LawyerSession

`heads` and `familyOf` are the chains, `recent` the tokens spent or revoked within the race window,
`lapsed` the heads past a deadline, `jar` the browser's cookies, `tab[t]` the `SessionProvider` of a
tab and its place, `call[c]` a fetch with the cookies it left with and the `Set-Cookie` headers of
its answer.

| Action | Code |
|---|---|
| `Mount`, `SubmitLogin`, `UseArea` | the provider's `/auth/me` on load or reload, the login form, a call of a screen or a sign-out |
| `Guard` | `JwtAuthGuard`, then `me` or a route of the area |
| `Rotate`, `Raced`, `Terminal` | `refresh`: renewed; 401 that leaves the cookies; 401 that clears them, a reuse ending the chain |
| `LogoutBegins`, `Logout` | `revokeFamily`'s snapshot and its end; a renewal committed between the two is `overtaken` |
| `Login`, `Issue` | the credentials and `purgeExpired`; the first token of a chain |
| `Continue` | `sendWithRenewal` after a 401 (the renewal) and after a renewal (the replay) |
| `Settle` | the last answer: cookies, then what the provider and `RequireSession` make of it |
| `Break`, `Lose`, `WindowCloses`, `Lapse`, `AccessExpires` | a failing statement, a lost answer, time |

A call whose page is gone keeps running and its cookies are stored. The access token is valid or
not; its account is not deleted here (`RefreshTokens` has that). `calm` is history: it turns false
at the first loss, failure, sign-out, passed deadline, or token presented after its window.

### LawyerScreens

`made` and `row` are the lawyer's requests and their last links, `view` the route of the tab, `res`
and `load` its `useResource` and the calls it has in flight, `act` the creation, regeneration or
revocation under way, `form` the rest of the screen's state.

| Action | Code |
|---|---|
| `Open` | a route is entered: the screen mounts afresh, earlier answers come to nobody |
| `Turn`, `Retry`, `Deliver` | the pager, the error panel's button, and `run`'s guard on the last call |
| `Read`, `Count`, `ReadFails` | `findOne`, or the two statements of `list`; any failure |
| `Submit`, `Created`, `Reset` | the creation form, its card, "another one" |
| `Ask`, `Cancel`, `Confirm`, `ActDone` | the confirmation of the detail page and `runAction` with its reload |
| `ActServed`, `ActFails` | the routes; a refusal, a failure or a lost answer |
| `OtherCreates`, `OtherCutsOrRenews` | another tab of the lawyer |

The form is abstracted to what its button and the DTO compare: `Verdicts` is what
`create-request.dto.ts` may say of a body that `canSubmit` let go. `row[r].no` stands for the link, its
token and its PIN. Requests are in the order of `createdAt`, which is taken to be the order of
their commits, as everywhere the list is read.

### Startup

`raw` is the environment by classes of values, `padded` the variables with blanks around them.
`compose` is what `docker compose up` does about the backend (it waits, has given up, is over),
`minioInit` the container of `minio-init`, `provisioned` what that leaves in MinIO.

| Action | Code |
|---|---|
| `StartMinioInit`, `Start` | the `depends_on` of `minio-init` and of the backend |
| `Provision`, `ProvisionFails` | `provision.sh`, once: `restart: 'no'` |
| `GiveUp`, `Up` | `up` fails because a dependency does; somebody runs it again |
| `Migrate` | the entrypoint: `prisma migrate deploy`, under `set -e` |
| `Load` | `ConfigModule`'s `validate`: `Issues`, one operator per inspection of `validateEnv` |
| `Connect`, `AssertBucketExists`, `HashDecoy`, `HookThrows` | the `onModuleInit` hooks, in any order |
| `Listen`, `Restart`, `Die` | `app.listen`, `restart: unless-stopped`, which does not look at `depends_on`, and the death of the process |
| `Probe`, `CheckDatabase`, `Ping`, `Report`, `ProbeUnanswered` | compose's healthcheck and the two checks of `/health` |
| `DbComesAndGoes`, `StorageComesAndGoes` | outages and their ends, at any step, up to `MaxFaults` |

Each reader takes the environment in its own way: `validateEnv` trims, the Prisma CLI and
`provision.sh` do not (`ReadAlike`); MinIO refuses bucket names that `BUCKET_PATTERN` lets
through (`Buckets`) and `provision.sh` the root's name for its user (`RootUserClash`). `API_PREFIX` is its segments
between slashes: Nest drops the empty ones (`RoutePath`), the cookies keep them (`RefreshCookiePath`,
`ClientCookiePath`).

## 3. Runs

| Run | Expectation | What it shows |
|---|---|---|
| `refresh_tokens` | pass | one usable token per family, no fork, fixed ceiling, purge too late to hide a reuse, nothing spent for nothing, a revocation kills what it saw, requests deadlock in purges only; refines `SessionChain` |
| `refresh_logout` | violation | a logout is answered while its session lives on |
| `public_links` | pass | one active link, dashboard and client agree, revocation final, regeneration all or nothing, success cuts what worked; refines `LinkRegister` |
| `deposits` | pass | rows name objects, refusals leave nothing, completion counted and never early, downloads only lose races; refines `DepositBox` |
| `deposits_lost_ack` | violation | a row that names an erased object |
| `client_access` | pass | a cut link opens nothing, the code comes first, unlocks are counted, ticks and rows tell the truth |
| `client_tabs` | violation | under the address of one link, the dossier of another |
| `lawyer_session` | pass | no race of tabs, renewals and sign-ins costs a session; a sign-out closes the chain it was given; no tab loads for ever |
| `session_tabs` | violation | the tab that loses a renewal race is signed out |
| `lawyer_screens` | pass | the screen shows what was asked last, no older than the last action; a card opens the request; paging skips nothing |
| `startup` | pass | the idle deadline of what comes up can fall; the database served was migrated; once started, the container recovers by itself |
| `startup_prefix` | violation | an accepted `API_PREFIX` under which the scoped cookies reach no route |

Run one with `tlc -config MCDeposits.cfg MCDeposits`; the `.cfg` of each is in `PROJECT.json`.

### Bounds

* `refresh_tokens`: 3 tokens, 1 lawyer, 2 handlers, `SessionTtl` 2, `IdleTtl` 1, `RaceWindow` 1,
  clock up to 3 (1.7 million states). Three tokens are a login, its successor and either a third generation, a
  fork or a second login of the same lawyer. Two handlers are two racing
  rotations, or one against a logout, a purge or a login. The clock runs past the
  ceiling, so tokens idle out, expire, are purged, and are replayed inside and outside the race
  window. Two purges of two expired rows meet each other half-way: the cycle of waits that
  `OnlyPurgesDeadlock` lets through is reached.
* `public_links`: 3 links, an ordinary request and the seed's, 2 handlers, deadlines equal to the
  creation (`Validities` {0}; the clock's one tick takes them from valid to expired). Three links
  are two competing regenerations over a first link.
* `deposits`: 2 pieces, 4 keys (so 4 deposits), 2 handlers. Two pieces make "the last piece"
  differ from "a piece"; four keys allow a first deposit of each and a replacement race.
* `client_access`: one tab, 2 calls in flight, a link on each of two dossiers, 2 pieces of the
  first (0.93 million states). The tab visits both links and its storage may refuse to remember, so it also
  meets a cookie of the other dossier. Two pieces and two calls let the 401 of one upload
  close the page under the other. More tabs and a second link of one dossier (a reissue) are
  left to the proofs, and are in `client_tabs`: 2 tabs, 3 links.
* `lawyer_session`: 2 tokens, 2 tabs, 2 calls (0.73 million states). Two tokens are a session and its
  successor, or a second sign-in; two calls are two racing renewals, a renewal against a
  sign-out, or a call whose page is gone against one of its successor. A third generation is
  in `refresh_tokens`.
* `lawyer_screens`: 3 requests, pages of 1, 2 writes after the first state, 2 reads in flight (0.83
  million states). Pages of one make every creation shift every page; two writes are a
  regeneration and a revocation, in either order, or one of them and a creation.
* `startup`: the good environment, those that differ from it in one variable, and in two where
  inspections compare variables or `DATABASE_URL` hides others; blanks around one variable, of those
  each reader takes; 3 outages or deaths (0.7 million states), any number of `up`. Boundary values are on both sides of each comparison:
  ports 0, 1, 65535, 65536, keys of 31 and 32 characters, an idle deadline of 23 h, 24 h, 2 d under a session of 1 d;
  and `API_PREFIX` is `/` among others.

No bound is in a guard but `MaxTime` (`Tick`), `MaxChanges` (`Write`) and `MaxFaults` (outages and
deaths). The number of tokens, links or keys bounds the
number of issues; when it is exhausted a login fails as a failing `INSERT` does
(`Fail`), and a deposit is still refused, downloaded or forgotten. Symmetry is over
tokens, links, keys, pieces and handlers, which are interchangeable, and only in runs
of safety properties.

### Fairness

One run has a liveness property, `EventuallyHealthy` of `startup`. `FairSpec` asks weak fairness of `Boot`
(entrypoint and Node carry on, docker restarts a container that was started) and of `Answer` (docker
probes at its interval, and both checks return). Nothing is asked of compose: nobody
runs `up` or `minio-init` again, so an outage that makes the first `up` give up is not recovered
by itself, and the premise of the property is that the container was started once. The other
premises are dependencies that are back for good, and a configuration that
`validateEnv` accepts, that the other readers read alike and whose route the healthcheck calls.

Every run checks deadlock: no model stops.

## 4. Proofs

The theorems hold for any sets of tokens, links, keys, handlers and accounts, and any
durations. They rest on the named assumptions of the modules only: durations are naturals and
`IdleTtl < SessionTtl` (`TtlAssumption`; `DeadlinesAccepted` proves that no API comes up otherwise), `Demo` and
`Seeder` exist and validities are naturals, the pieces of a request are finitely many and an unknown
piece is none of them (`ConstantsAssumption`), a link and a piece are of one dossier
(`DossiersAssumption`), a page has at least one place (`SizesAssumption`), a variable of the environment
has a value of its class (`EnvironmentAssumption`: ports and counts as naturals, without the rounding of
a double), outages are bounded by a natural (`BoundAssumption`), and `Null` is not a value of any
other kind (`NullAssumption`).

Where a theorem states what a run checks, the run checks that very definition; the other theorems state
formulas of the proof modules (`DeadlinesAreNear`, `LinkRunsOut`, `AwaitedCommits`,
`HealthyMeansServing`) or promises of the abstract modules.

**Refresh tokens** (`RefreshTokensProofs`). None of the safety
properties is inductive: that a family has one live token depends on what handlers hold across
awaits. `IInv` adds, for the table: rows are as they were created but for the revocation
(`RowsAsMinted`), a token with a successor is spent (`ParentsAreSpent`), tokens of a family share owner and
ceiling (`OneCeilingPerFamily`); for each handler: the row it read is the one created
(`ReadAsMinted`), a row it has locked is stored (`HoldsRow`) and is one its statement wants
(`LocksItsOwn`), a claimed row is still live in the committed table (`ClaimIsLive`), a purge in
flight has locked and targets rows of its account past their ceiling (`PurgeIsPast`), what is live of
what a revocation saw is in its targets or locked by it (`RevocationCovers`), and it has one row
to lock at most (`SingleTarget`); and the row lock, `OneHolder`. `ClaimIsLive` with
`OneHolder` is the heart: `Append` replaces the family's live token, so a fork would need
two claims of one row. From `IInv` follow the five invariants, both action properties and
the refinement of `SessionChain`: `Append` maps to `Renew`, `Issue` to `Open`, a purge, a
revocation or a deleted account to `End`, the rest to stuttering.

A second invariant, `TimeInv`, is about dates. A handler computes them before it waits for a lock and
writes them after; `RowTimes` bounds those of every row and every handler by the clock, which only
advances. `SessionsRunOut` follows: no token ends later than its durations counted from now, and no
revocation is dated ahead, so that a spent token passes for a race no longer than the race window.

`NoDeadlock` is about the order of row locks, with any number of handlers and rows. Who is waited for holds
a row; who waits wants one more. A rotation that has claimed its token wants nothing more (`LocksItsOwn`), and a revocation had one
row to lock (`SingleTarget`, because a family has one live token), so whoever holds a row and waits for another
is a purge; and what two purges want or hold of each other belongs to one account (`PurgeIsPast`). Rotations, replays
and logouts therefore never deadlock with one another. The cycles of two purges, and of a
deletion of the account with a rotation, are possible, and the theorem does not exclude them.

**Public links** (`PublicLinksProofs`). `OneActiveLink` is preserved by
`Insert` because its guard (the index) leaves as active links of the request only the
transaction's own targets. The rest needs what those targets are: links of the request
(`TargetsOfRequest`), active for everybody else while the lock is held (`HoldsActive`), held by
one transaction (`LocksAreExclusive`), and covering all that worked when the operation was
asked (`SeenCovered`), which with ownership (`LinksAreOwned`, `AsksForOwned`) gives the action
properties and the refinement of `LinkRegister`. `DashboardAgreesWithClient` follows from
`OneActiveLink` and a lemma on the order of `LAST_LINK`: active links come first.

`DatesInv` is the second invariant: no date of a row or of a handler is ahead of the clock, a link
lives one of the validities on offer counted from its `createdAt`, and a statement has at most one row
to lock. The first two give `LinksRunOut`. The last gives `NoDeadlock`: with `WaitsFor` spelling out the row locks and
the unique index, whoever is waited for is at its insert, the index lets it commit, and it waits for nobody, so that no
cycle of waits is reachable and the transactions end without PostgreSQL's deadlock detection.

**Deposits** (`DepositsProofs`). `IInv` says that a key is in one place: named by at most one
row (`KeysInv`), held by at most one handler (`KeysApart`), an unwritten handler's key named by no
row (`HandlerInv`), and a `previousKey` about to be erased named by no row any more
(`PreviousInv`). Hence no erasure touches a document a row names, except after a write reported
as failed. `ObjectsInv` accounts for every object, `CountInv` for the pending count. The refinement of
`DepositBox` maps a written row to `Accept`, and the erasure of a doubtful one to `Lose`.

**Client access** (`ClientAccessProofs`). `CallInv` says what a call has established at each pc: at
`resolve` or `guard` a dead call's link is still closed (a link that was issued never opens again,
`Steady`); past them the call is not dead and its dossier is proven. `BrowserInv` says that cookie and memory
name issued links, and the cookie one whose code was given: this is what makes
`ViewNeedsTheCode` hold whichever tab's unlock set the cookie. `NoStuckRow` is kept because each
answer, and each loss of one, closes the row of its own call.

**Lawyer's session** (`LawyerSessionProofs`). That no race costs the session is not inductive: it
depends on which cookie each call in flight left with. `CalmInv` says that, as long as nothing
was lost, late or over, every cookie presented is a usable token or one spent within the race
window (`Known`), every cookie handed out is usable, and no answer clears any; `SetsApart` says
that a cookie on its way to the browser is nowhere else, so that no other call spends it first.
`SignOutEndsTheChain` needs that a chain without a usable token stays so (`EmptyStaysEmpty`), which
holds because a step adds a token only to the family of a usable one (`HeadsGrow`). Steps of one
call share a frame (`StepOf`, `Kept`), so that each action only shows what it does to its own.

**Lawyer's screens** (`LawyerScreensProofs`). `CallInv` and `OneCurrent` say that at most one call is the
screen's last one, that it is of the address as it is now, and that what it read is no older
than the last acknowledged action: the reload begins after the action's answer, and any earlier
call stopped being current. `CardInv` follows the card and the action in flight through every
write to the link; `TargetInv` is that both are of requests that exist. `NothingSkipped` needs an
invariant of the walk: what is still owed has, in order of creation, a rank further than the page
the walk is at (`WalkInv`), and a page read shows every request of its ranks (`PageInv`, `ReadCovers`),
counted from what there was at its first statement; creations move those ranks away from
the reader's start, never past a page not yet turned.

**Start-up** (`StartupProofs`). What a stage of the boot has established holds at all later stages until the
exit, whatever `up` is run again: minio provisioned (`StartedAfterMinio`), database migrated (`MigratedFirst`),
environment validated (`ValidatedFirst`), hooks run and the bucket reached under the user that was made
(`HooksOfThisStart`); and a probe answered well was answered by the process that runs (`ProbesOfThisStart`).
`DeadlinesAccepted` needs the arithmetic of durations (`DurationsMeasured`): `validateEnv` compares milliseconds
across units, `RefreshTokens` assumes the order of the durations themselves. With `ReadersAgree`, on the two ways a
database is named, `MigratedIsServed` follows, and `HealthyServes`: a healthy container has all of it at once,
the migrated database when the CLI reads its variables alike, the rest whatever blanks the environment has.

**Composition.** Each abstract module states what its users count on, as a property of its own steps: a session
that ended stays ended and has at most one head, and a spent token stays spent (`SessionChain`); a link that was cut stays cut
(`LinkRegister`); a received document stays until a new one replaces it (`DepositBox`). The refinements carry them to
`RefreshTokens`, `PublicLinks` and `Deposits`. On the other side, `ChainsComposed` and `RegisterComposed` prove that
`LawyerSession` and `ClientAccess`, which model the browsers, move sessions and links only by steps of those same abstract
modules. What the browsers are modelled to receive is thus what the services are proved to give, and
the promises hold there too (`SessionsEndForGood`, `OneCookiePerSession`, `CutForGood`).

**Model-checked only.** Liveness (`EventuallyHealthy`) is out of the prover's reach, being under
fairness. The properties of the violation runs are false, which a trace shows.

## 5. What the runs found

Each is a run whose property quotes the repository.

1. **A logout can leave the session alive** (`refresh_logout`). `auth.controller.ts:115` says a
   copied cookie "stops working immediately". If a rotation holds its claim when `revokeFamily`
   takes its snapshot, the successor is committed unseen; the logout is answered and the successor
   rotates as any other. The comment at `refresh-token.service.ts:94` knows the window, but speaks of a
   millisecond; the surviving session lasts up to its ceiling.
2. **A row that names no object** (`deposits_lost_ack`). `record` erases the object after any
   failure of the upsert, one whose commit succeeded included.
3. **A tab shows another link's dossier** (`client_tabs`). `deposit-page.tsx:52` keeps the token
   in `sessionStorage` so that a tab never shows the dossier of another link's cookie. It
   protects a tab that never unlocked its link. A tab that did, reloaded after a second tab unlocked
   another link, restores the second dossier under the first address. The client has given both
   codes (`ViewNeedsTheCode` holds), and a deposit made there goes to the dossier shown.
4. **The loser of a renewal race is signed out** (`session_tabs`). `architecture.md:178` says the
   new try succeeds because the tabs share their cookies. `sendWithRenewal` makes no new try: the
   401 of a raced renewal is the answer of the call, and a tab that was mounting settles on the
   sign-in screen although the browser holds a cookie that works (`RenewalsKeepTheSession`).
   A reload of that tab repairs it.
5. **A prefix that loses the cookies** (`startup_prefix`). `env.validation.spec.ts:170` accepts `API_PREFIX=/`,
   "meaning no prefix", and `auth-cookie.ts:19` says that the path the browser sees is the one the API serves. Nest
   serves `/auth` and `/public`; the cookies are scoped to `//auth` and `//public`, and never come back. The
   compose files ship `/api/v1`, and the SPA has it written in (`client.ts:6`).

Known, without a run of its own:

* `request.types.ts:174` says that a request always has a link. The seed creates its request several
  awaits before its link (`SeedCreate`, `SeedLink`), and `toLinkView` throws in between.
* The last link is not always the last. `revokedAt` is read before the statement runs, so
  overlapping revoke and regenerate can leave an older link with the later date, first in
  `LAST_LINK`'s order; its deadline then decides the status of a request without an active link.
* Of two overlapping deposits of one piece that read the same `previousKey`, the first's object
  stays in the bucket (`deposits.service.ts:108`).
* The last two pieces of a request, recorded before either asks whether something is missing, count
  its completion twice. `CompletionIsCounted` and `CountedOnlyWhenComplete` are what does hold.
* `requests.service.ts:128` puts the page and its total in one transaction so that no creation lands
  between them. At READ COMMITTED each statement has its own snapshot, so one may (`Read`,
  `Count`): the total then counts a request more than the pages show. `NothingSkipped` holds all the same.
* `PublicService.unlock` says that successes and failures add up to the answers of the
  route (`public.service.ts:89`); a database error in `resolve` is answered 500 and counted by neither.
  `AnswersAreCounted` states what does hold.
* Two purges of one account (two logins at once) may lock the same expired rows in different orders,
  and a deletion of an account may deadlock with a rotation of one of its tokens: the `DELETE` holds
  the account's row, which the `INSERT` references, and its cascade waits for the claimed token. PostgreSQL breaks
  both: a request is answered 500 or the `DELETE` fails, and nothing is lost. `OnlyPurgesDeadlock` says that requests
  have no other cycle.
* An outage while the first `up` waits leaves the backend created and `minio-init` stopped: neither is run again
  (`docker-compose.yml:80`, `install.sh:654`) until somebody runs `up`.
* `prisma.config.ts` does not trim as `validateEnv` does: a `DB_NAME` with blanks around it migrates one
  database and serves another. Nor does `provision.sh`: a storage key with blanks makes a user that the
  application never names, and `HeadBucket` is refused at every start. The premises of `MigratedIsServed` and
  `EventuallyHealthy` exclude them.
* `env.validation.ts:65` gives MinIO's own rules as the reason of `BUCKET_PATTERN`, which accepts `a..b`; MinIO
  refuses that name in `minio-init`, and the backend is not started.
* Compose's health check has its port and prefix written in, where compose takes both from `.env`: a
  backend on others is served, and reported unhealthy. `EventuallyHealthy` has both in its premise.

## 6. Not modelled

* The contents of files, names, wording, JWT signatures, password and PIN hashing: data no
  property tells apart. A refused type is one nondeterministic outcome.
* `deriveStatus`: a pure function of the last link and the files, which no action branches on. What it
  reads is in `PublicLinks` (`LastLinks`) and `Deposits` (`files`).
* `deleteByPrefix` of `storage.service.ts`: no route calls it.
* `secrets.ts`, `file-type.ts`, theme and layout, HTTP timing, logs, the clipboard hook: nothing that
  interleaves.
* The deletion of an account in `LawyerSession`: `RefreshTokens` has it, with the rows it cascades to.
* Commits in another order than `createdAt`: two creations of the same lawyer within their
  transactions' time. `LawyerScreens` takes the order of commits as the order of the list.
* Of the start-up: shutdown hooks, a port already taken, the probes of the other services, durations
  beyond what a timer holds, a `DB_HOST` that needs escaping in a URL, a later `up` of a stack that runs.
* nginx, Prometheus and Grafana provisioning, `install.sh`: outside the program.
* `exo1-no-ai/`: an unrelated puzzle.
* Isolation levels other than READ COMMITTED, and deletion of requests or pieces (no route).

## 7. Plan

Done, in this order because a mistake there would lose a session, a link or a document:
`RefreshTokens`, `PublicLinks`, `Deposits`, each with abstract specification and proofs; then
`ClientAccess`, which composes the links and the deposits with the client's browser, and
`LawyerSession`, which composes the sessions with the lawyer's, each with its proofs; then
`LawyerScreens` and `Startup`, with theirs; then the dates and waits of the two services with transactions, and
the promises that the compositions share.

Next:

1. Proofs of what the steps of the browsers never do: a row that `ClientAccess` ticks stays ticked while its page
   lives, a tab of `LawyerSession` leaves the area only for its own refusal.
2. The promise of a revocation to the lawyer (`revokeWarning` in `request-detail-page.tsx`) against
   deposits already past their guard, in `ClientAccess`.
3. `deriveStatus` and `isExpired` against a reference definition, composed with `PublicLinks`.
4. `LawyerScreens` over `LinkRegister` and `LawyerSession`, so that a screen's 401 is the session's and
   the lawyer's two tabs share both.

---------------------------- MODULE ClientAccess ----------------------------
(***************************************************************************)
(* A client's browser and the public routes: the tabs of DepositPage, the  *)
(* one session cookie they share, and the unlock, session and files routes *)
(* behind it, while the lawyer cuts and reissues links and links expire.   *)
(*                                                                         *)
(* The links are the atomic register of LinkRegister, which PublicLinks    *)
(* implements. A deposit past its guard is one step here; what it does to  *)
(* row and object is the module Deposits.                                  *)
(*                                                                         *)
(* A call is followed from the browser to the handler and back. Its pc     *)
(* names the await the server is suspended on. A deposit whose tab has     *)
(* given up (a network error, a reload) goes on without a tab; the other   *)
(* calls, which change nothing on the server, are followed no further.     *)
(***************************************************************************)
EXTENDS Naturals

CONSTANTS
    Links, Requests, Items,
    DossierOf,    \* the request of each link
    PieceOf,      \* the request of each piece
    Tabs,         \* the tabs of one browser
    Handlers,     \* the calls in flight at once
    Null

ASSUME DossiersAssumption ==
    DossierOf \in [Links -> Requests] /\ PieceOf \in [Items -> Requests]

ASSUME NullAssumption ==
    Null \notin Links /\ Null \notin Requests /\ Null \notin Items /\ Null \notin Tabs

VARIABLES
    current, issued,   \* the links, as LinkRegister keeps them
    expired,           \* the current links past their deadline
    received,          \* the pieces that have a file
    cookie,            \* the link named by the browser's portail_client, Null without one
    page,              \* what each tab holds
    call,              \* what each handler is doing
    proven             \* history: the requests a right code was given for

vars == <<current, issued, expired, received, cookie, page, call, proven>>

Register == INSTANCE LinkRegister

\* The state of DepositPage. A failed row offers its button like one that has no upload.
Page == [address : Links \cup {Null},      \* the token in the URL
         remembered : Links \cup {Null},   \* the token in sessionStorage, kept by a reload
         loading : BOOLEAN,
         view : Requests \cup {Null},
         shown : SUBSET Items,             \* the pieces the view says are received
         receipts : SUBSET Items,
         uploading : SUBSET Items]         \* rows in phase uploading or verifying

Blank == [address |-> Null, remembered |-> Null, loading |-> FALSE, view |-> Null,
          shown |-> {}, receipts |-> {}, uploading |-> {}]

Call == [pc : {"free", "resolve", "view", "guard", "restore", "body", "store", "answered"},
         kind : {"unlock", "session", "deposit", "none"},
         tab : Tabs \cup {Null},
         link : Links \cup {Null},         \* the token in the path, or the link of the cookie
         late : BOOLEAN,                   \* the link had expired at `now`, when the call came
         item : Items \cup {Null},
         dossier : Requests \cup {Null},   \* what resolve, or the guard, has found
         answer : {"ok", "unauthorized", "error", "none"},
         shown : SUBSET Items,             \* the received pieces of the view answered
         success : Nat, failure : Nat,     \* recordUnlock, by this call
         dead : BOOLEAN]                   \* history: no link was open behind it when it was sent

Free == [pc |-> "free", kind |-> "none", tab |-> Null, link |-> Null,
         late |-> FALSE, item |-> Null, dossier |-> Null, answer |-> "none", shown |-> {},
         success |-> 0, failure |-> 0, dead |-> FALSE]

Opens(k) == k # Null /\ k \in current[DossierOf[k]] /\ k \notin expired
PiecesOf(r) == {i \in Items : PieceOf[i] = r}

Init ==
    /\ Register!RInit
    /\ expired = {} /\ received = {} /\ proven = {}
    /\ cookie = Null
    /\ page = [t \in Tabs |-> Blank]
    /\ call = [h \in Handlers |-> Free]

-----------------------------------------------------------------------------
(* The surroundings: the lawyer's side, and time. *)

Lawyer ==
    /\ \/ \E k \in Links : Register!IssueLink(DossierOf[k], k)
       \/ \E r \in Requests : current[r] # {} /\ Register!Cut(r)
    /\ expired' = {k \in expired : k \in current'[DossierOf[k]]}
    /\ UNCHANGED <<received, cookie, page, call, proven>>

Expire ==
    /\ \E k \in Links : Opens(k) /\ expired' = expired \cup {k}
    /\ UNCHANGED <<current, issued, received, cookie, page, call, proven>>

\* CLIENT_SESSION_TTL_MS is over: the cookie's Max-Age and the token's expiry are one.
CookieRunsOut ==
    /\ cookie # Null
    /\ cookie' = Null
    /\ UNCHANGED <<current, issued, expired, received, page, call, proven>>

UnchangedServer == UNCHANGED <<current, issued, expired, received>>

-----------------------------------------------------------------------------
(* The tabs: what DepositPage does on its own. *)

\* What a call becomes without its tab: a deposit goes on until it has an answer.
Orphan(c) ==
    IF c.kind = "deposit" /\ c.pc # "answered" THEN [c EXCEPT !.tab = Null] ELSE Free

\* The cookie of an answer the page did not wait for may have been taken all the same.
StrayCookie(t) ==
    \/ UNCHANGED cookie
    \/ \E h \in Handlers :
          /\ call[h].tab = t /\ call[h].kind = "unlock" /\ call[h].answer = "ok"
          /\ cookie' = call[h].link

\* The page is opened on a link, or reloaded. Only this tab's own link is restored.
Load(t, k) ==
    /\ k \in issued
    /\ page' = [page EXCEPT ![t] = [Blank EXCEPT
                   !.address = k, !.remembered = page[t].remembered,
                   !.loading = (page[t].remembered = k)]]
    /\ call' = [h \in Handlers |-> IF call[h].tab = t THEN Orphan(call[h]) ELSE call[h]]
    /\ StrayCookie(t)
    /\ UnchangedServer /\ UNCHANGED proven

Calling(t, kind) == \E h \in Handlers : call[h].tab = t /\ call[h].kind = kind

Send(h, c) ==
    /\ call[h].pc = "free"
    /\ call' = [call EXCEPT ![h] = c]

\* getDepositSession, on a page that restores.
Restore(h, t) ==
    /\ page[t].loading /\ ~Calling(t, "session")
    /\ Send(h, [Free EXCEPT !.pc = "guard", !.kind = "session", !.tab = t, !.link = cookie,
                            !.dead = ~Opens(cookie)])
    /\ UnchangedServer /\ UNCHANGED <<cookie, page, proven>>

\* onSubmit, with a code of the right length; the form is disabled while one is in flight.
Submit(h, t) ==
    LET k == page[t].address IN
    /\ k # Null /\ page[t].view = Null /\ ~page[t].loading /\ ~Calling(t, "unlock")
    /\ Send(h, [Free EXCEPT !.pc = "resolve", !.kind = "unlock", !.tab = t, !.link = k,
                            !.late = (k \in expired), !.dead = ~Opens(k)])
    /\ UnchangedServer /\ UNCHANGED <<cookie, page, proven>>

\* onPick: a row offers its button unless it is uploading.
Pick(h, t, i) ==
    /\ page[t].view = PieceOf[i] /\ i \notin page[t].uploading
    /\ page' = [page EXCEPT ![t].uploading = @ \cup {i}]
    /\ Send(h, [Free EXCEPT !.pc = "guard", !.kind = "deposit", !.tab = t, !.link = cookie,
                            !.item = i, !.dead = ~Opens(cookie)])
    /\ UnchangedServer /\ UNCHANGED <<cookie, proven>>

-----------------------------------------------------------------------------
(* Handlers with a plausible mistake, against which the properties are tried. *)

Become(h, c) == call' = [call EXCEPT ![h] = c]
Goto(h, pc) == Become(h, [call[h] EXCEPT !.pc = pc])

\* An answer nobody waits for is dropped, and of a refused call only the refusal is kept.
Answered(c, answer) ==
    IF c.tab = Null THEN Free
    ELSE IF answer = "ok" THEN [c EXCEPT !.pc = "answered", !.answer = answer]
    ELSE [c EXCEPT !.pc = "answered", !.answer = answer, !.link = Null, !.late = FALSE,
                   !.dossier = Null, !.dead = FALSE]
Answer(h, answer) == Become(h, Answered(call[h], answer))
UnchangedBrowser == UNCHANGED <<current, issued, expired, cookie, page>>

\* Faulty variant: the signature of the session is trusted, the link is not read again.
GuardTrustingTheCookie(h) ==
    /\ call[h].pc = "guard"
    /\ \/ Answer(h, "unauthorized")
       \/ /\ call[h].link # Null
          /\ Become(h, [call[h] EXCEPT
                !.pc = IF call[h].kind = "session" THEN "restore" ELSE "body",
                !.link = Null, !.dossier = DossierOf[call[h].link]])
    /\ UNCHANGED <<received, proven>> /\ UnchangedBrowser

\* Faulty variant: the handler is given the link's id where it expects the request's.
GuardSwappingIds(h) ==
    /\ call[h].pc = "guard"
    /\ \/ Answer(h, "unauthorized")
       \/ /\ Opens(call[h].link)
          /\ Become(h, [call[h] EXCEPT
                !.pc = IF call[h].kind = "session" THEN "restore" ELSE "body",
                !.link = Null, !.dossier = call[h].link])
    /\ UNCHANGED <<received, proven>> /\ UnchangedBrowser

\* Faulty variant: refuses only when the link is closed AND the code is wrong.
ResolveEither(h, right) ==
    LET k == call[h].link
        r == DossierOf[k]
    IN
    /\ call[h].pc = "resolve"
    /\ \/ /\ (k \in current[r] /\ ~call[h].late) \/ right
          /\ Become(h, [call[h] EXCEPT !.pc = "view", !.late = FALSE, !.dossier = r])
       \/ /\ ~(k \in current[r] /\ ~call[h].late) /\ ~right
          /\ Become(h, [Answered(call[h], "unauthorized") EXCEPT !.failure = 1])
    /\ proven' = IF right THEN proven \cup {r} ELSE proven
    /\ UNCHANGED received /\ UnchangedBrowser

\* Faulty variant: success is counted before the view is read.
ViewCountedFirst(h) ==
    /\ call[h].pc = "view"
    /\ \/ Become(h, [Answered(call[h], "ok") EXCEPT
                        !.success = 1, !.shown = received \cap PiecesOf(call[h].dossier)])
       \/ Become(h, [Answered(call[h], "error") EXCEPT !.success = 1, !.failure = 1])
    /\ UNCHANGED <<received, proven>> /\ UnchangedBrowser

\* Faulty variant: the end of the upload is taken for the end of the deposit.
GiveUpAsIfDone(h) ==
    LET t == call[h].tab IN
    /\ t # Null
    /\ page' = [page EXCEPT ![t].loading = (@ /\ call[h].kind # "session"),
                            ![t].uploading = @ \ {call[h].item},
                            ![t].receipts = @ \cup ({call[h].item} \ {Null})]
    /\ StrayCookie(t)
    /\ Become(h, Orphan(call[h]))
    /\ UnchangedServer /\ UNCHANGED proven

\* Faulty variant: a 401 closes the view and leaves the rows.
DepositRefusedKeepingRows(h, t) ==
    /\ call[h].kind = "deposit" /\ call[h].answer = "unauthorized"
    /\ page' = [page EXCEPT ![t].view = Null, ![t].shown = {}]
    /\ UNCHANGED cookie

-----------------------------------------------------------------------------
(* POST /public/:token/unlock. *)

\* resolve: the link is read now, and its deadline compared with the `now` of the call. Then
\* the code is verified, against the decoy if the link cannot be opened; nothing is read then.
Resolve(h, right) ==
    LET k == call[h].link
        r == DossierOf[k]
    IN
    /\ call[h].pc = "resolve"
    /\ \/ /\ k \in current[r] /\ ~call[h].late /\ right
          /\ Become(h, [call[h] EXCEPT !.pc = "view", !.late = FALSE, !.dossier = r])
       \/ /\ ~(k \in current[r] /\ ~call[h].late /\ right)
          /\ Become(h, [Answered(call[h], "unauthorized") EXCEPT !.failure = 1])
    /\ proven' = IF right THEN proven \cup {r} ELSE proven
    /\ UNCHANGED received /\ UnchangedBrowser

\* viewOf, then the counter, whether it is read or throws; then the cookie is signed.
View(h) ==
    /\ call[h].pc = "view"
    /\ \/ Become(h, [Answered(call[h], "ok") EXCEPT
                        !.success = 1, !.shown = received \cap PiecesOf(call[h].dossier)])
       \/ Become(h, [Answered(call[h], "error") EXCEPT !.failure = 1])
    /\ UNCHANGED <<received, proven>> /\ UnchangedBrowser

-----------------------------------------------------------------------------
(* ClientSessionGuard, then GET /public/session or POST /public/files. *)

\* The session may have run out on the way, or be refused; else its link is read again.
Guard(h) ==
    /\ call[h].pc = "guard"
    /\ \/ Answer(h, "unauthorized")
       \/ /\ Opens(call[h].link)
          /\ Become(h, [call[h] EXCEPT
                !.pc = IF call[h].kind = "session" THEN "restore" ELSE "body",
                !.link = Null, !.dossier = DossierOf[call[h].link]])
    /\ UNCHANGED <<received, proven>> /\ UnchangedBrowser

RestoreView(h) ==
    /\ call[h].pc = "restore"
    /\ Become(h, [Answered(call[h], "ok") EXCEPT
                     !.shown = received \cap PiecesOf(call[h].dossier)])
    /\ UNCHANGED <<received, proven>> /\ UnchangedBrowser

\* The interceptor reads the body: a 413, or a malformed one.
Body(h) ==
    /\ call[h].pc = "body"
    /\ Goto(h, "store") \/ Answer(h, "error")
    /\ UNCHANGED <<received, proven>> /\ UnchangedBrowser

\* A piece of another request is a 404. A deposit may be recorded and reported as failed.
Store(h) ==
    /\ call[h].pc = "store"
    /\ \/ /\ Answer(h, "error")
          /\ UNCHANGED received
       \/ /\ PieceOf[call[h].item] = call[h].dossier
          /\ received' = received \cup {call[h].item}
          /\ Answer(h, "ok") \/ Answer(h, "error")
    /\ UNCHANGED proven /\ UnchangedBrowser

\* A database error on the way: a 500, which no unlock counter sees.
Breaks(h) ==
    /\ call[h].pc \in {"resolve", "guard", "restore"}
    /\ Answer(h, "error")
    /\ UNCHANGED <<received, proven>> /\ UnchangedBrowser

-----------------------------------------------------------------------------
(* The answer reaches the tab. *)

Unlocked(h, t) ==
    /\ call[h].kind = "unlock" /\ call[h].answer = "ok"
    /\ cookie' = call[h].link
    /\ \E remembered \in {call[h].link, page[t].remembered} :    \* private modes may refuse it
          page' = [page EXCEPT ![t].remembered = remembered,
                               ![t].view = call[h].dossier, ![t].shown = call[h].shown]

Restored(h, t) ==
    /\ call[h].kind = "session" /\ call[h].answer = "ok"
    /\ page' = [page EXCEPT ![t].loading = FALSE,
                            ![t].view = call[h].dossier, ![t].shown = call[h].shown]
    /\ UNCHANGED cookie

Deposited(h, t) ==
    /\ call[h].kind = "deposit" /\ call[h].answer = "ok"
    /\ page' = [page EXCEPT ![t].receipts = @ \cup {call[h].item},
                            ![t].uploading = @ \ {call[h].item}]
    /\ UNCHANGED cookie

\* Back to the code screen.
DepositRefused(h, t) ==
    /\ call[h].kind = "deposit" /\ call[h].answer = "unauthorized"
    /\ page' = [page EXCEPT ![t].view = Null, ![t].shown = {}, ![t].uploading = {}]
    /\ UNCHANGED cookie

\* Nothing to show, or nothing arrived: a message, and the row fails.
Failed(h, t) ==
    /\ page' = [page EXCEPT ![t].loading = (@ /\ call[h].kind # "session"),
                            ![t].uploading = @ \ {call[h].item}]

Deliver(h) ==
    LET t == call[h].tab IN
    /\ call[h].pc = "answered" /\ t # Null
    /\ \/ Unlocked(h, t) \/ Restored(h, t) \/ Deposited(h, t) \/ DepositRefused(h, t)
       \/ /\ call[h].answer = "error" \/ (call[h].answer = "unauthorized" /\ call[h].kind # "deposit")
          /\ Failed(h, t) /\ UNCHANGED cookie
    /\ Become(h, Free)
    /\ UnchangedServer /\ UNCHANGED proven

\* The connection breaks: the tab sees a network error, the server goes on without it.
GiveUp(h) ==
    LET t == call[h].tab IN
    /\ t # Null
    /\ Failed(h, t)
    /\ StrayCookie(t)
    /\ Become(h, Orphan(call[h]))
    /\ UnchangedServer /\ UNCHANGED proven

\* The process dies on a deposit whose tab is gone; with a tab it is a GiveUp before that.
Vanish(h) ==
    /\ call[h].pc # "free" /\ call[h].tab = Null
    /\ Become(h, Free)
    /\ UnchangedServer /\ UNCHANGED <<cookie, page, proven>>

-----------------------------------------------------------------------------
Client(h) ==
    \E t \in Tabs :
        \/ Restore(h, t)
        \/ Submit(h, t)
        \/ \E i \in Items : Pick(h, t, i)

Serve(h) ==
    \/ (\E right \in BOOLEAN : Resolve(h, right)) \/ View(h)
    \/ Guard(h) \/ RestoreView(h) \/ Body(h) \/ Store(h) \/ Breaks(h)

Next ==
    \/ Lawyer \/ Expire \/ CookieRunsOut
    \/ \E t \in Tabs, k \in Links : Load(t, k)
    \/ \E h \in Handlers : Client(h) \/ Serve(h) \/ Deliver(h) \/ GiveUp(h) \/ Vanish(h)

Spec == Init /\ [][Next]_vars

-----------------------------------------------------------------------------
TypeOK ==
    /\ current \in [Requests -> SUBSET Links] /\ issued \in SUBSET Links
    /\ expired \in SUBSET Links /\ received \in SUBSET Items
    /\ cookie \in Links \cup {Null}
    /\ page \in [Tabs -> Page]
    /\ call \in [Handlers -> Call]
    /\ proven \in SUBSET Requests

\* "a revocation or an expiry only takes effect here" (ClientSessionGuard): a call that was
\* sent when its link was already cut or expired gets nothing, however old the session it
\* carries and whatever was reissued since; only one already on its way may still pass.
CutLinksOpenNothing ==
    \A h \in Handlers :
        call[h].dead => call[h].pc \notin {"body", "store"} /\ call[h].answer # "ok"

\* No tab shows a dossier of which this browser has not given the code: a session only comes
\* from an unlock, whichever tab carries it and whatever answers are lost.
ViewNeedsTheCode ==
    \A t \in Tabs : page[t].view # Null => page[t].view \in proven

\* recordUnlock agrees with the answers of the route: a 200 is one success, a 401 one failure,
\* and no attempt counts twice (a 500 before the view counts nothing).
AnswersAreCounted ==
    \A h \in Handlers : call[h].kind = "unlock" /\ call[h].pc = "answered" =>
        /\ call[h].success = IF call[h].answer = "ok" THEN 1 ELSE 0
        /\ call[h].success + call[h].failure <= 1
        /\ call[h].answer = "unauthorized" => call[h].failure = 1

\* "Termine before the 201 would be a promise nobody has made" (DepositPage): a piece a tab
\* ticks, from the view or from a receipt, has a file.
TickedIsReceived ==
    \A t \in Tabs : page[t].shown \cup page[t].receipts \subseteq received

\* A row that is uploading has no button, so it must not outlive its call: whatever 401 reset
\* the page meanwhile, each such row waits for a call that can still answer this page.
NoStuckRow ==
    \A t \in Tabs : \A i \in page[t].uploading :
        \E h \in Handlers : call[h].tab = t /\ call[h].kind = "deposit" /\ call[h].item = i

\* "a tab opening link B must not be shown the dossier of link A" (DepositPage). Violated: a tab
\* restores because it remembers its own link, and the cookie is another tab's.
TabShowsItsOwnDossier ==
    \A t \in Tabs : page[t].view # Null => page[t].view = DossierOf[page[t].address]
=============================================================================

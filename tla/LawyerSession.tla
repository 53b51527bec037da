---------------------------- MODULE LawyerSession ----------------------------
(***************************************************************************)
(* A lawyer's browser and the auth routes: the tabs of the SPA, each with  *)
(* its SessionProvider, the two session cookies they share, and the calls  *)
(* of api/client.ts, which renew the session once and replay.              *)
(*                                                                         *)
(* The refresh tokens are the atomic chains of SessionChain, which          *)
(* RefreshTokens implements. A call is followed from the browser to the     *)
(* handler and back: it carries the cookies the browser held when it left,  *)
(* and its answer's Set-Cookie headers take effect when it arrives. An      *)
(* access token that expires on the way is one that expired before. Of the  *)
(* statements of a handler, those of a sign-out are told apart: a renewal    *)
(* may commit between its snapshot and its end.                            *)
(***************************************************************************)
CONSTANTS
    Tokens,      \* every refresh token the generator may draw
    Tabs,        \* the tabs of one browser
    Calls,       \* the fetches that can be in flight at once
    Null

ASSUME NullAssumption == Null \notin Tokens /\ Null \notin Tabs

VARIABLES
    heads, familyOf,   \* the chains, as SessionChain keeps them
    recent,            \* the tokens rotated or revoked less than RACE_WINDOW_MS ago
    lapsed,            \* the heads past one of their two deadlines
    jar,               \* the browser's cookies: a valid access token, the refresh token
    tab,               \* the SessionProvider of each tab, and where its router stands
    call,
    calm               \* history: so far nothing was lost, late or over, and nobody signed out

vars == <<heads, familyOf, recent, lapsed, jar, tab, call, calm>>
server == <<heads, familyOf, recent, lapsed>>

Chain == INSTANCE SessionChain

Jar == [access : BOOLEAN, refresh : Tokens \cup {Null}]
NoCookies == [access |-> FALSE, refresh |-> Null]

Tab == [status : {"loading", "authenticated", "anonymous"},
        page : {"login", "area"}]          \* LoginPage, or a screen behind RequireSession

Call == [pc : {"free", "sent", "purged", "revoking", "answered"},
         kind : {"me", "api", "login", "logout", "none"},
         leg : {"first", "renewal", "replay"},    \* of sendWithRenewal
         tab : Tabs \cup {Null},                  \* Null once the page that sent it is gone
         access : BOOLEAN, refresh : Tokens \cup {Null},    \* the cookies it carries
         overtaken : BOOLEAN,        \* a renewal of the chain being revoked has committed
         answer : {"ok", "refused", "error", "none"},
         set : Tokens \cup {Null}, clear : BOOLEAN]         \* the Set-Cookie headers

Free == [pc |-> "free", kind |-> "none", leg |-> "first", tab |-> Null, access |-> FALSE,
         refresh |-> Null, overtaken |-> FALSE, answer |-> "none", set |-> Null, clear |-> FALSE]

Family(t) == {s \in heads : familyOf[s] = familyOf[t]}

Init ==
    /\ Chain!SInit
    /\ recent = {} /\ lapsed = {}
    /\ jar = NoCookies
    /\ tab = [t \in Tabs |-> [status |-> "anonymous", page |-> "login"]]
    /\ call = [c \in Calls |-> Free]
    /\ calm = TRUE

\* The access cookie goes everywhere, the refresh cookie to the auth routes that read it.
Sent(kind, leg, t, cookies) ==
    [Free EXCEPT !.pc = "sent", !.kind = kind, !.leg = leg, !.tab = t,
                 !.access = cookies.access /\ kind \in {"me", "api"} /\ leg # "renewal",
                 !.refresh = IF kind = "logout" \/ leg = "renewal" THEN cookies.refresh ELSE Null]

Send(c, kind, t) == call' = [call EXCEPT ![c] = Sent(kind, "first", t, jar)]

\* One fetch of a kind that its button, or the mount, sends once at a time.
Pending(t, kind) == \E c \in Calls : call[c].tab = t /\ call[c].kind = kind

\* What the request carried is forgotten with its answer, but for the cookie of an auth route.
Answered(c, answer, set, clear) ==
    [call[c] EXCEPT !.pc = "answered", !.access = FALSE,
                    !.answer = answer, !.set = set, !.clear = clear]

Answer(c, answer, set, clear) == call' = [call EXCEPT ![c] = Answered(c, answer, set, clear)]

\* The revocations of t's chain that took their snapshot before t's successor was committed.
Overtaken(t) ==
    [d \in Calls |-> IF call[d].pc = "revoking" /\ familyOf[call[d].refresh] = familyOf[t]
                     THEN [call[d] EXCEPT !.overtaken = TRUE] ELSE call[d]]

\* The heads in `ended` are revoked now, if there are any.
Revoke(ended) ==
    /\ IF ended = {} THEN UNCHANGED <<heads, familyOf>> ELSE Chain!End(ended)
    /\ recent' = recent \cup ended
    /\ lapsed' = lapsed \ ended

-----------------------------------------------------------------------------
(* Operations with a plausible mistake, against which the properties are tried. *)

\* Faulty variant: any rotated token that comes back is taken for a reuse.
RotateWithoutWindow(c) ==
    LET t == call[c].refresh IN
    /\ call[c].pc = "sent" /\ call[c].leg = "renewal"
    /\ \/ /\ t # Null /\ t \in heads \ lapsed
          /\ \E s \in Tokens : /\ Chain!Renew(t, s)
                               /\ call' = [Overtaken(t) EXCEPT ![c] = Answered(c, "ok", s, FALSE)]
          /\ recent' = recent \cup {t}
          /\ UNCHANGED lapsed
       \/ /\ t # Null /\ t \notin heads
          /\ Revoke(Family(t))
          /\ Answer(c, "refused", Null, TRUE)
    /\ UNCHANGED <<jar, tab, calm>>

\* Faulty variant: the deadlines are not looked at, and an ended session is renewed.
RotateWithoutDeadlines(c) ==
    LET t == call[c].refresh IN
    /\ call[c].pc = "sent" /\ call[c].leg = "renewal"
    /\ t # Null /\ t \in heads
    /\ \E s \in Tokens : /\ Chain!Renew(t, s)
                         /\ call' = [Overtaken(t) EXCEPT ![c] = Answered(c, "ok", s, FALSE)]
    /\ recent' = recent \cup {t}
    /\ UNCHANGED <<lapsed, jar, tab, calm>>

\* Faulty variant: the sign-out revokes the token it was given, not its family.
LogoutOfTokenOnly(c) ==
    LET t == call[c].refresh IN
    /\ \/ call[c].pc = "revoking" /\ Revoke(heads \cap {t})
       \/ call[c].pc = "sent" /\ call[c].kind = "logout" /\ t = Null /\ UNCHANGED server
    /\ Answer(c, "ok", Null, TRUE)
    /\ calm' = FALSE
    /\ UNCHANGED <<jar, tab>>

\* Faulty variant: the mount's failure is left to the screens.
AfterFailureUnhandled(t, kind) ==
    IF kind = "logout" THEN [tab EXCEPT ![t] = [status |-> "anonymous", page |-> "login"]]
    ELSE tab

-----------------------------------------------------------------------------
(* The backend. *)

\* JwtAuthGuard, then GET /auth/me or a route of the lawyer's area.
Guard(c) ==
    /\ call[c].pc = "sent" /\ call[c].kind \in {"me", "api"} /\ call[c].leg # "renewal"
    /\ Answer(c, IF call[c].access THEN "ok" ELSE "refused", Null, FALSE)
    /\ UNCHANGED <<server, jar, tab, calm>>

\* POST /auth/refresh with a token that can be rotated.
Rotate(c) ==
    LET t == call[c].refresh IN
    /\ call[c].pc = "sent" /\ call[c].leg = "renewal"
    /\ t # Null /\ t \in heads \ lapsed
    /\ \E s \in Tokens : /\ Chain!Renew(t, s)
                         /\ call' = [Overtaken(t) EXCEPT ![c] = Answered(c, "ok", s, FALSE)]
    /\ recent' = recent \cup {t}
    /\ UNCHANGED <<lapsed, jar, tab, calm>>

\* No cookie: a 401 that has nothing to clear. 'raced': a 401 that leaves the cookies alone.
Raced(c) ==
    LET t == call[c].refresh IN
    /\ call[c].pc = "sent" /\ call[c].leg = "renewal"
    /\ t = Null \/ (t \notin heads /\ t \in recent)
    /\ Answer(c, "refused", Null, FALSE)
    /\ UNCHANGED <<server, jar, tab, calm>>

\* 'expired', 'reused' or 'unknown': the cookies are cleared, and a reuse ends the chain (the
\* renewal that may escape this revocation only spares a session). A purged row, which the code
\* calls unknown, has no head left in its family to end.
Terminal(c) ==
    LET t == call[c].refresh IN
    /\ call[c].pc = "sent" /\ call[c].leg = "renewal"
    /\ t # Null
    /\ \/ t \in lapsed /\ UNCHANGED server
       \/ t \notin heads /\ t \notin recent /\ Revoke(Family(t))
    /\ Answer(c, "refused", Null, TRUE)
    /\ UNCHANGED <<jar, tab, calm>>

\* revokeFamilyOf finds the family and its UPDATE takes its snapshot.
LogoutBegins(c) ==
    /\ call[c].pc = "sent" /\ call[c].kind = "logout" /\ call[c].refresh # Null
    /\ call' = [call EXCEPT ![c].pc = "revoking"]
    /\ UNCHANGED <<server, jar, tab, calm>>

\* The UPDATE ends: it revoked the heads of its snapshot, which is none any more if the only
\* one was spent meanwhile. Without a cookie there is nothing to revoke.
Logout(c) ==
    LET t == call[c].refresh IN
    /\ \/ /\ call[c].pc = "revoking"
          /\ Revoke(IF call[c].overtaken THEN {} ELSE Family(t))
       \/ call[c].pc = "sent" /\ call[c].kind = "logout" /\ t = Null /\ UNCHANGED server
    /\ Answer(c, "ok", Null, TRUE)
    /\ calm' = FALSE
    /\ UNCHANGED <<jar, tab>>

\* POST /auth/login: credentials refused, or purgeExpired, which forgets chains past their
\* ceiling (the ceiling is one of the two deadlines a lapsed head may have met).
Login(c) ==
    /\ call[c].pc = "sent" /\ call[c].kind = "login"
    /\ \/ /\ Answer(c, "refused", Null, FALSE)
          /\ UNCHANGED server
       \/ \E gone \in SUBSET lapsed :
            LET rows == {t \in Tokens : \E g \in gone : familyOf[t] = familyOf[g]} IN
            /\ IF gone = {} THEN UNCHANGED <<heads, familyOf>> ELSE Chain!End(gone)
            /\ recent' = recent \ rows
            /\ lapsed' = lapsed \ gone
            /\ call' = [call EXCEPT ![c].pc = "purged"]
    /\ UNCHANGED <<jar, tab, calm>>

Issue(c) ==
    /\ call[c].pc = "purged"
    /\ \E s \in Tokens : Chain!Open(s) /\ Answer(c, "ok", s, FALSE)
    /\ UNCHANGED <<recent, lapsed, jar, tab, calm>>

\* A statement fails before the handler's writes or after them: a 500 without a cookie.
Break(c) ==
    /\ \/ call[c].pc \in {"sent", "purged", "revoking"}
       \/ call[c].pc = "answered" /\ call[c].set # Null
    /\ Answer(c, "error", Null, FALSE)
    /\ calm' = FALSE
    /\ UNCHANGED <<server, jar, tab>>

-----------------------------------------------------------------------------
(* The browser. *)

\* The jar once the answer's Set-Cookie headers have taken effect.
JarAfter(c) ==
    IF call[c].clear THEN NoCookies
    ELSE IF call[c].set # Null THEN [access |-> TRUE, refresh |-> call[c].set]
    ELSE jar

\* What SessionProvider, and RequireSession's <Navigate>, make of a call that failed, the
\* sign-out included: whatever its answer, the interface closes.
AfterFailure(t, kind) ==
    IF kind \in {"me", "logout"} THEN [tab EXCEPT ![t] = [status |-> "anonymous", page |-> "login"]]
    ELSE tab

AfterSuccess(t, kind) ==
    CASE kind = "me" -> [tab EXCEPT ![t].status = "authenticated"]
      [] kind = "login" -> [tab EXCEPT ![t] = [status |-> "authenticated", page |-> "area"]]
      [] kind = "logout" -> AfterFailure(t, kind)
      [] OTHER -> tab

Renews(c) == call[c].leg = "first" /\ call[c].answer = "refused" /\ call[c].kind \in {"me", "api"}
Replays(c) == call[c].leg = "renewal" /\ call[c].answer = "ok"

\* sendWithRenewal goes on: the renewal after a 401, the replay after a renewal.
Continue(c) ==
    /\ call[c].pc = "answered" /\ call[c].tab # Null
    /\ Renews(c) \/ Replays(c)
    /\ jar' = JarAfter(c)
    /\ call' = [call EXCEPT ![c] = Sent(call[c].kind, IF Renews(c) THEN "renewal" ELSE "replay",
                                        call[c].tab, jar')]
    /\ UNCHANGED <<server, tab, calm>>

\* The answer is the call's last: a refused or failed renewal stands for the first 401. A page
\* that is gone takes no answer, the cookies are stored all the same.
Settle(c) ==
    /\ call[c].pc = "answered"
    /\ call[c].tab # Null => ~Renews(c) /\ ~Replays(c)
    /\ jar' = JarAfter(c)
    /\ tab' = IF call[c].tab = Null THEN tab
              ELSE IF call[c].answer = "ok" THEN AfterSuccess(call[c].tab, call[c].kind)
              ELSE AfterFailure(call[c].tab, call[c].kind)
    /\ call' = [call EXCEPT ![c] = Free]
    /\ UNCHANGED <<server, calm>>

\* The connection fails on the way there or back: fetch rejects, and no leg follows.
Lose(c) ==
    /\ call[c].pc \in {"sent", "answered"}
    /\ tab' = IF call[c].tab = Null THEN tab ELSE AfterFailure(call[c].tab, call[c].kind)
    /\ call' = [call EXCEPT ![c] = Free]
    /\ calm' = FALSE
    /\ UNCHANGED <<server, jar>>

\* A tab is opened or reloaded, on any address: SessionProvider mounts and asks for /auth/me.
\* (A reload of a page that is still loading would only begin the same wait again.)
Mount(t, c) ==
    /\ tab[t].status # "loading" /\ call[c].pc = "free"
    /\ \E page \in {"login", "area"} :
          tab' = [tab EXCEPT ![t] = [status |-> "loading", page |-> page]]
    /\ call' = [d \in Calls |-> IF d = c THEN Sent("me", "first", t, jar)
                                ELSE IF call[d].tab = t THEN [call[d] EXCEPT !.tab = Null]
                                ELSE call[d]]
    /\ UNCHANGED <<server, jar, calm>>

\* LoginPage is reachable whatever the status, the mount's call in flight included.
SubmitLogin(t, c) ==
    /\ tab[t].page = "login"
    /\ call[c].pc = "free" /\ ~Pending(t, "login")
    /\ Send(c, "login", t)
    /\ UNCHANGED <<server, jar, tab, calm>>

\* RequireSession lets the screens of the area through.
InArea(t) == tab[t].status = "authenticated" /\ tab[t].page = "area"

\* A screen of the area calls the API, or the lawyer signs out.
UseArea(t, c, kind) ==
    /\ InArea(t)
    /\ call[c].pc = "free" /\ ~Pending(t, kind)
    /\ Send(c, kind, t)
    /\ UNCHANGED <<server, jar, tab, calm>>

-----------------------------------------------------------------------------
(* Time. *)

\* Thirty seconds have passed. Held against `calm` if a request still on its way, or the
\* browser, for want of the answer, holds the token: it may be presented as a reuse now.
WindowCloses(t) ==
    /\ t \in recent
    /\ recent' = recent \ {t}
    /\ calm' = (calm /\ jar.refresh # t
                     /\ \A c \in Calls : ~(call[c].pc = "sent" /\ call[c].refresh = t))
    /\ UNCHANGED <<heads, familyOf, lapsed, jar, tab, call>>

Lapse(t) ==
    /\ t \in heads \ lapsed
    /\ lapsed' = lapsed \cup {t}
    /\ calm' = FALSE
    /\ UNCHANGED <<heads, familyOf, recent, jar, tab, call>>

AccessExpires ==
    /\ jar.access
    /\ jar' = [jar EXCEPT !.access = FALSE]
    /\ UNCHANGED <<server, tab, call, calm>>

Serve(c) == Guard(c) \/ Rotate(c) \/ Raced(c) \/ Terminal(c) \/ LogoutBegins(c) \/ Logout(c)
            \/ Login(c) \/ Issue(c)
Arrive(c) == Continue(c) \/ Settle(c) \/ Lose(c)
Operate(t, c) ==
    Mount(t, c) \/ SubmitLogin(t, c) \/ UseArea(t, c, "api") \/ UseArea(t, c, "logout")

Next ==
    \/ \E c \in Calls : Serve(c) \/ Break(c) \/ Arrive(c)
    \/ \E t \in Tabs, c \in Calls : Operate(t, c)
    \/ \E t \in Tokens : WindowCloses(t) \/ Lapse(t)
    \/ AccessExpires

Spec == Init /\ [][Next]_vars

-----------------------------------------------------------------------------
TypeOK ==
    /\ heads \in SUBSET Tokens
    /\ familyOf \in [Tokens -> Tokens \cup {Null}]
    /\ recent \in SUBSET Tokens /\ lapsed \in SUBSET heads
    /\ jar \in Jar
    /\ tab \in [Tabs -> Tab]
    /\ call \in [Calls -> Call]
    /\ calm \in BOOLEAN

\* The cookie the browser holds can be renewed, or the one that replaces it is on its way.
SessionHeld ==
    \/ jar.refresh \in heads
    \/ \E c \in Calls : call[c].pc = "answered" /\ call[c].set \in heads

\* "Two tabs that refresh at once present the same token" (architecture.md): as long as
\* nothing is lost, late or over, no interleaving of tabs, renewals and sign-ins costs the
\* browser its session, by a rotated token taken for stolen or by a cookie cleared.
RenewalsKeepTheSession == calm /\ (jar.refresh # Null \/ heads # {}) => SessionHeld

\* A sign-out closes the session of the cookie it carried, even if a renewal of another tab
\* had spent that cookie before: once it is answered, no token of the chain can be renewed. Only
\* a renewal committed while the revocation ran escapes it, as in RefreshTokens.
SignOutEndsTheChain ==
    \A c \in Calls :
        call[c].kind = "logout" /\ call[c].answer = "ok" /\ call[c].refresh # Null =>
            call[c].overtaken \/ Family(call[c].refresh) = {}

\* "a definitive `loading` would show an empty screen" (session-provider.tsx): a tab waits only
\* for a /auth/me of its own page, which a loss, a refusal, the renewal and the replay all lead
\* to an end; no reload, sign-in or sign-out leaves it waiting for a call that is gone.
LoadingIsServed ==
    \A t \in Tabs : tab[t].status = "loading" => Pending(t, "me")

\* "the browser shares its cookies between tabs, so the new try succeeds" (architecture.md), and
\* the race window keeps "two tabs open" from logging the lawyer out (auth.controller.ts): with
\* nothing lost, late or over, a tab that mounts while another one renews the session they
\* share stays signed in.
\* Violated: nothing tries again. The tab that loses the race settles on the sign-in screen.
TwoTabsStaySignedIn ==
    [][\A c, d \in Calls :
          /\ calm' /\ SessionHeld
          /\ call[d].leg = "renewal" /\ call[d].tab \in Tabs \ {call[c].tab}
          /\ call[c].kind = "me" /\ call[c].leg = "renewal" /\ call[c].refresh # Null
          /\ call[c].pc = "answered" /\ call'[c].pc = "free" /\ call[c].tab # Null
          => tab'[call[c].tab].status = "authenticated"]_vars
=============================================================================

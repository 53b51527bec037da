------------------------- MODULE ClientAccessProofs -------------------------
(***************************************************************************)
(* The invariants of ClientAccess, for any number of links, dossiers,      *)
(* pieces, tabs and handlers. The inductive invariant adds to them what    *)
(* the browser may remember, a link that was issued, and what each call    *)
(* has established at each pc: past the guard it is not dead, and the      *)
(* dossier it carries is one whose code this browser has given.            *)
(***************************************************************************)
EXTENDS ClientAccess, TLAPS

Remembered == issued \cup {Null}

Vouched(k) == k = Null \/ DossierOf[k] \in proven

LinksInv ==
    /\ \A r \in Requests : \A k \in current[r] : DossierOf[k] = r /\ k \in issued
    /\ expired \subseteq issued

BrowserInv ==
    /\ cookie \in Remembered /\ Vouched(cookie)
    /\ \A t \in Tabs : page[t].address \in Remembered /\ page[t].remembered \in Remembered

OkInv(c) ==
    /\ c.kind = "unlock" =>
          /\ c.link \in issued /\ DossierOf[c.link] \in proven
          /\ c.dossier \in proven
    /\ c.kind = "session" => c.dossier \in proven
    /\ c.kind = "deposit" => c.item \in received
    /\ c.shown \subseteq received

\* recordUnlock, when the call has its answer.
CountInv(c) ==
    /\ c.success = IF c.answer = "ok" THEN 1 ELSE 0
    /\ c.success + c.failure <= 1
    /\ c.answer = "unauthorized" => c.failure = 1

CallInv(c) ==
    /\ c.pc = "free" => c.tab = Null /\ c.answer = "none"
    /\ c.tab = Null /\ c.pc # "free" => c.kind = "deposit" /\ c.pc # "answered"
    /\ c.pc \notin {"free", "answered"} =>
          c.answer = "none" /\ c.success = 0 /\ c.failure = 0 /\ c.shown = {}
    /\ c.pc = "resolve" =>
          /\ c.kind = "unlock" /\ c.link \in issued
          /\ c.dead => c.late \/ c.link \notin current[DossierOf[c.link]]
    /\ c.pc = "view" =>
          /\ c.kind = "unlock" /\ c.link \in issued /\ ~c.dead
          /\ DossierOf[c.link] \in proven /\ c.dossier = DossierOf[c.link]
    /\ c.pc = "guard" =>
          /\ c.kind \in {"session", "deposit"} /\ c.link \in Remembered /\ Vouched(c.link)
          /\ c.dead => ~Opens(c.link)
    /\ c.pc = "restore" => c.kind = "session" /\ ~c.dead /\ c.dossier \in proven
    /\ c.pc \in {"body", "store"} => c.kind = "deposit" /\ ~c.dead
    /\ c.kind = "deposit" => c.item \in Items
    /\ c.kind # "deposit" => c.item = Null
    /\ c.answer = "ok" => ~c.dead /\ OkInv(c)
    /\ c.kind = "unlock" /\ c.pc = "answered" => CountInv(c)

CallsInv == \A h \in Handlers : CallInv(call[h])

IInv ==
    /\ TypeOK /\ LinksInv /\ BrowserInv /\ CallsInv
    /\ ViewNeedsTheCode /\ TickedIsReceived /\ NoStuckRow

-----------------------------------------------------------------------------
LEMMA FreeType == Free \in Call
BY DEF Free, Call

LEMMA InitInv == Init => IInv
<1> SUFFICES ASSUME Init PROVE IInv
  OBVIOUS
<1> USE DEF Init, Register!RInit
<1>1. TypeOK
  <2>1. Blank \in Page
    BY DEF Blank, Page
  <2> QED
    BY <2>1, FreeType DEF TypeOK
<1>2. CallsInv
  BY NullAssumption DEF CallsInv, CallInv, Free
<1>3. LinksInv /\ BrowserInv
  BY DEF LinksInv, BrowserInv, Remembered, Vouched, Blank
<1>4. ViewNeedsTheCode /\ TickedIsReceived /\ NoStuckRow
  BY DEF ViewNeedsTheCode, TickedIsReceived, NoStuckRow, Blank
<1> QED
  BY <1>1, <1>2, <1>3, <1>4 DEF IInv

-----------------------------------------------------------------------------
(* What a step may do to the links and to the records while a call waits: no *)
(* link that was issued opens again, and nothing received or proven is lost. *)

Steady ==
    /\ issued \subseteq issued' /\ received \subseteq received' /\ proven \subseteq proven'
    /\ \A k \in issued :
          /\ k \in current'[DossierOf[k]] => k \in current[DossierOf[k]]
          /\ Opens(k)' => Opens(k)

LEMMA UnchangedSteady ==
    UNCHANGED <<current, issued, expired>> /\ received \subseteq received'
        /\ proven \subseteq proven' => Steady
BY DEF Steady, Opens

LEMMA CallStays ==
    ASSUME IInv, Steady, NEW h \in Handlers, call'[h] = call[h]
    PROVE  CallInv(call[h])'
<1>1. CallInv(call[h]) /\ ~Opens(Null) /\ ~Opens(Null)'
  BY DEF IInv, CallsInv, Opens
<1>2. OkInv(call[h]) => OkInv(call[h])'
  BY DEF OkInv, Steady
<1>3. CountInv(call[h]) => CountInv(call[h])'
  BY DEF CountInv
<1>4. call[h].dead /\ call[h].link \in Remembered /\ ~Opens(call[h].link) => ~Opens(call[h].link)'
  BY <1>1 DEF Steady, Remembered
<1>5. call[h].pc = "resolve" => CallInv(call[h])'
  BY <1>1 DEF CallInv, Steady
<1>6. call[h].pc = "guard" => CallInv(call[h])'
  BY <1>1, <1>4 DEF CallInv, Steady, Remembered, Vouched
<1>7. call[h].pc \in {"view", "restore", "body", "store", "free"} => CallInv(call[h])'
  BY <1>1 DEF CallInv, Steady
<1>8. call[h].pc = "answered" => CallInv(call[h])'
  BY <1>1, <1>2, <1>3 DEF CallInv
<1> QED
  <2>1. call[h] \in Call
    BY DEF IInv, TypeOK
  <2>2. call[h].pc \in {"free", "resolve", "view", "guard", "restore", "body", "store", "answered"}
    BY <2>1 DEF Call
  <2> QED
    BY <2>2, <1>5, <1>6, <1>7, <1>8

\* The same step, seen from the tabs.
LEMMA BecomeCall ==
    ASSUME TypeOK, NEW h \in Handlers, NEW c \in Call, Become(h, c)
    PROVE  /\ call' \in [Handlers -> Call]
           /\ call'[h] = c
           /\ \A g \in Handlers \ {h} : call'[g] = call[g]
BY DEF TypeOK, Become

LEMMA AnsweredType ==
    ASSUME NEW c \in Call, NEW answer \in {"ok", "unauthorized", "error"}
    PROVE  Answered(c, answer) \in Call
<1>1. [c EXCEPT !.pc = "answered", !.answer = answer] \in Call
  BY DEF Call
<1>2. [c EXCEPT !.pc = "answered", !.answer = answer, !.link = Null, !.late = FALSE,
                !.dossier = Null, !.dead = FALSE] \in Call
  BY DEF Call
<1> QED
  BY <1>1, <1>2, FreeType DEF Answered

\* A step of the server for one call, by what it makes of that call.
LEMMA ServeStep ==
    ASSUME IInv, NEW h \in Handlers, NEW c \in Call, Become(h, c), UnchangedBrowser,
           received \subseteq received', received' \subseteq Items,
           proven \subseteq proven', proven' \subseteq Requests,
           CallInv(call[h])',
           \/ c.tab = call[h].tab /\ c.kind = call[h].kind /\ c.item = call[h].item
           \/ call[h].tab = Null
    PROVE  IInv'
<1> USE DEF UnchangedBrowser
<1>1. /\ call' \in [Handlers -> Call] /\ call'[h] = c
      /\ \A g \in Handlers \ {h} : call'[g] = call[g]
  BY BecomeCall DEF IInv
<1>2. TypeOK'
  BY <1>1 DEF IInv, TypeOK
<1>3. CallsInv'
  BY <1>1, CallStays, UnchangedSteady DEF CallsInv
<1>4. LinksInv' /\ BrowserInv'
  BY DEF IInv, LinksInv, BrowserInv, Remembered, Vouched
<1>5. ViewNeedsTheCode' /\ TickedIsReceived'
  BY DEF IInv, ViewNeedsTheCode, TickedIsReceived
<1>6. NoStuckRow'
  BY <1>1, NullAssumption DEF IInv, NoStuckRow
<1> QED
  BY <1>2, <1>3, <1>4, <1>5, <1>6 DEF IInv
-----------------------------------------------------------------------------
(* The server. *)

\* A call that is answered with a refusal or an error.
LEMMA RefusedCall ==
    ASSUME IInv, NEW h \in Handlers, NEW answer \in {"unauthorized", "error"},
           NEW c, call'[h] = c, call[h].tab # Null,
           c.pc = "answered", c.answer = answer, c.success = 0, c.failure \in {0, 1},
           call[h].kind = "unlock" /\ answer = "unauthorized" => c.failure = 1,
           c.kind = call[h].kind, c.item = call[h].item, c.tab = call[h].tab
    PROVE  CallInv(call[h])'
<1>1. CallInv(call[h])
  BY DEF IInv, CallsInv
<1> QED
  BY <1>1 DEF CallInv, CountInv

LEMMA FreeCall ==
    ASSUME NEW h \in Handlers, call'[h] = Free PROVE CallInv(call[h])'
BY NullAssumption DEF CallInv, Free

LEMMA RefuseStep ==
    ASSUME IInv, NEW h \in Handlers, NEW answer \in {"unauthorized", "error"},
           call[h].pc \notin {"free", "answered"},
           call[h].kind = "unlock" => answer = "error",
           Answer(h, answer), UnchangedBrowser, UNCHANGED <<received, proven>>
    PROVE  IInv'
<1> DEFINE c == Answered(call[h], answer)
<1>1. call[h] \in Call /\ c \in Call /\ Become(h, c)
  BY AnsweredType DEF IInv, TypeOK, Answer
<1>2. CallInv(call[h])'
  <2>1. call'[h] = c
    BY <1>1, BecomeCall DEF IInv
  <2>2. CASE call[h].tab = Null
    BY <2>1, <2>2, FreeCall DEF Answered
  <2>3. CASE call[h].tab # Null
    <3>1. call[h].success = 0 /\ call[h].failure = 0
      BY DEF IInv, CallsInv, CallInv
    <3>2. /\ c.pc = "answered" /\ c.answer = answer /\ c.success = 0 /\ c.failure = 0
          /\ c.kind = call[h].kind /\ c.item = call[h].item /\ c.tab = call[h].tab
      BY <2>3, <3>1, <1>1 DEF Answered, Call
    <3> QED
      BY <2>1, <2>3, <3>2, RefusedCall
  <2> QED
    BY <2>2, <2>3
<1>3. \/ c.tab = call[h].tab /\ c.kind = call[h].kind /\ c.item = call[h].item
      \/ call[h].tab = Null
  BY <1>1 DEF Answered, Call
<1>4. received \subseteq received' /\ received' \subseteq Items
      /\ proven \subseteq proven' /\ proven' \subseteq Requests
  BY DEF IInv, TypeOK
<1> QED
  BY <1>1, <1>2, <1>3, <1>4, ServeStep

LEMMA ResolveInv ==
    ASSUME IInv, NEW h \in Handlers, NEW right \in BOOLEAN, Resolve(h, right) PROVE IInv'
<1> DEFINE k == call[h].link
           r == DossierOf[k]
<1>1. /\ call[h] \in Call /\ CallInv(call[h])
      /\ k \in Links /\ k \in issued /\ r \in Requests /\ call[h].tab # Null
  BY DossiersAssumption DEF IInv, TypeOK, CallsInv, CallInv, Resolve
<1>2. received \subseteq received' /\ received' \subseteq Items
      /\ proven \subseteq proven' /\ proven' \subseteq Requests
  BY <1>1 DEF IInv, TypeOK, Resolve
<1>3. ASSUME k \in current[r], ~call[h].late, right,
             Become(h, [call[h] EXCEPT !.pc = "view", !.late = FALSE, !.dossier = r])
      PROVE  IInv'
  <2> DEFINE c == [call[h] EXCEPT !.pc = "view", !.late = FALSE, !.dossier = r]
  <2>1. c \in Call
    BY <1>1 DEF Call
  <2>2. call'[h] = c
    BY <2>1, <1>3, BecomeCall DEF IInv
  <2>3. /\ c.pc = "view" /\ c.kind = call[h].kind /\ c.link = k /\ c.dossier = r
        /\ c.dead = call[h].dead /\ c.answer = call[h].answer /\ c.success = call[h].success
        /\ c.failure = call[h].failure /\ c.shown = call[h].shown
        /\ c.tab = call[h].tab /\ c.item = call[h].item
    BY <1>1 DEF Call
  <2>4. r \in proven' /\ k \in issued'
    BY <1>1, <1>3 DEF Resolve, UnchangedBrowser
  <2>5. CallInv(call[h])'
    BY <1>1, <1>3, <2>2, <2>3, <2>4 DEF CallInv, Resolve
  <2> QED
    BY <1>2, <1>3, <2>1, <2>3, <2>5, ServeStep DEF Resolve
<1>4. ASSUME Become(h, [Answered(call[h], "unauthorized") EXCEPT !.failure = 1])
      PROVE  IInv'
  <2> DEFINE c == [Answered(call[h], "unauthorized") EXCEPT !.failure = 1]
  <2>1. call[h].success = 0
    BY <1>1 DEF CallInv, Resolve
  <2>2. /\ c \in Call /\ c.tab = call[h].tab /\ c.kind = call[h].kind /\ c.item = call[h].item
        /\ c.pc = "answered" /\ c.answer = "unauthorized" /\ c.success = 0 /\ c.failure = 1
    BY <1>1, <2>1 DEF Answered, Call
  <2>3. call'[h] = c
    BY <2>2, <1>4, BecomeCall DEF IInv
  <2>4. CallInv(call[h])'
    BY <1>1, <2>2, <2>3, RefusedCall
  <2> QED
    BY <1>2, <1>4, <2>2, <2>4, ServeStep DEF Resolve
<1> QED
  BY <1>3, <1>4 DEF Resolve

LEMMA ViewInv == ASSUME IInv, NEW h \in Handlers, View(h) PROVE IInv'
<1>1. /\ call[h] \in Call /\ CallInv(call[h]) /\ call[h].tab # Null
      /\ call[h].pc = "view" /\ call[h].kind = "unlock" /\ ~call[h].dead
      /\ call[h].success = 0 /\ call[h].failure = 0
  BY DEF IInv, TypeOK, CallsInv, CallInv, View
<1>2. received \subseteq received' /\ received' \subseteq Items
      /\ proven \subseteq proven' /\ proven' \subseteq Requests
  BY DEF IInv, TypeOK, View
<1>3. ASSUME Become(h, [Answered(call[h], "ok") EXCEPT
                  !.success = 1, !.shown = received \cap PiecesOf(call[h].dossier)])
      PROVE  IInv'
  <2> DEFINE c == [Answered(call[h], "ok") EXCEPT
                  !.success = 1, !.shown = received \cap PiecesOf(call[h].dossier)]
  <2>1. received \cap PiecesOf(call[h].dossier) \in SUBSET Items
    BY DEF PiecesOf
  <2>2. /\ c \in Call /\ c.tab = call[h].tab /\ c.kind = call[h].kind /\ c.item = call[h].item
        /\ c.pc = "answered" /\ c.answer = "ok" /\ c.link = call[h].link /\ ~c.dead
        /\ c.dossier = call[h].dossier /\ c.success = 1 /\ c.failure = 0
        /\ c.shown \subseteq received
    BY <1>1, <2>1 DEF Answered, Call
  <2>3. call'[h] = c
    BY <2>2, <1>3, BecomeCall DEF IInv
  <2>4. call[h].link \in issued /\ call[h].dossier = DossierOf[call[h].link]
        /\ call[h].dossier \in proven
    BY <1>1 DEF CallInv
  <2>5. CallInv(call[h])'
    BY <1>1, <2>2, <2>3, <2>4 DEF CallInv, OkInv, CountInv, View, UnchangedBrowser
  <2> QED
    BY <1>2, <1>3, <2>2, <2>5, ServeStep DEF View
<1>4. ASSUME Become(h, [Answered(call[h], "error") EXCEPT !.failure = 1])
      PROVE  IInv'
  <2> DEFINE c == [Answered(call[h], "error") EXCEPT !.failure = 1]
  <2>1. /\ c \in Call /\ c.tab = call[h].tab /\ c.kind = call[h].kind /\ c.item = call[h].item
        /\ c.pc = "answered" /\ c.answer = "error" /\ c.success = 0 /\ c.failure = 1
    BY <1>1 DEF Answered, Call
  <2>2. call'[h] = c
    BY <2>1, <1>4, BecomeCall DEF IInv
  <2>3. CallInv(call[h])'
    BY <1>1, <2>1, <2>2, RefusedCall
  <2> QED
    BY <1>2, <1>4, <2>1, <2>3, ServeStep DEF View
<1> QED
  BY <1>3, <1>4 DEF View

LEMMA GuardInv == ASSUME IInv, NEW h \in Handlers, Guard(h) PROVE IInv'
<1>1. /\ call[h] \in Call /\ CallInv(call[h]) /\ call[h].pc = "guard"
      /\ call[h].kind \in {"session", "deposit"}
  BY DEF IInv, TypeOK, CallsInv, CallInv, Guard
<1>2. CASE Answer(h, "unauthorized")
  BY <1>1, <1>2, RefuseStep DEF Guard
<1>3. CASE /\ Opens(call[h].link)
           /\ Become(h, [call[h] EXCEPT
                !.pc = IF call[h].kind = "session" THEN "restore" ELSE "body",
                !.link = Null, !.dossier = DossierOf[call[h].link]])
  <2> DEFINE r == DossierOf[call[h].link]
             c == [call[h] EXCEPT
                     !.pc = IF call[h].kind = "session" THEN "restore" ELSE "body",
                     !.link = Null, !.dossier = r]
  <2>1. call[h].link \in Links /\ r \in Requests /\ r \in proven /\ ~call[h].dead
    BY <1>1, <1>3, DossiersAssumption DEF Opens, CallInv, Call, Vouched
  <2>2. /\ c \in Call /\ c.tab = call[h].tab /\ c.kind = call[h].kind /\ c.item = call[h].item
        /\ c.pc = IF call[h].kind = "session" THEN "restore" ELSE "body"
        /\ c.dossier = r /\ c.answer = call[h].answer /\ c.dead = call[h].dead
        /\ c.success = call[h].success /\ c.failure = call[h].failure
        /\ c.shown = call[h].shown
    BY <1>1, <2>1 DEF Call
  <2>3. call'[h] = c
    BY <1>3, <2>2, BecomeCall DEF IInv
  <2>4. CallInv(call[h])'
    BY <1>1, <2>1, <2>2, <2>3 DEF CallInv, Guard
  <2>5. received \subseteq received' /\ received' \subseteq Items
        /\ proven \subseteq proven' /\ proven' \subseteq Requests
    BY DEF IInv, TypeOK, Guard
  <2> QED
    BY <1>3, <2>2, <2>4, <2>5, ServeStep DEF Guard
<1> QED
  BY <1>2, <1>3 DEF Guard

LEMMA RestoreViewInv == ASSUME IInv, NEW h \in Handlers, RestoreView(h) PROVE IInv'
<1> DEFINE c == [Answered(call[h], "ok") EXCEPT
                    !.shown = received \cap PiecesOf(call[h].dossier)]
<1>1. /\ call[h] \in Call /\ CallInv(call[h]) /\ call[h].tab # Null
      /\ call[h].pc = "restore" /\ call[h].kind = "session" /\ ~call[h].dead
      /\ call[h].dossier \in proven
  BY DEF IInv, TypeOK, CallsInv, CallInv, RestoreView
<1>2. received \cap PiecesOf(call[h].dossier) \in SUBSET Items
  BY DEF PiecesOf
<1>3. /\ c \in Call /\ c.tab = call[h].tab /\ c.kind = call[h].kind /\ c.item = call[h].item
      /\ c.pc = "answered" /\ c.answer = "ok" /\ c.dossier = call[h].dossier
      /\ c.shown \subseteq received /\ ~c.dead
  BY <1>1, <1>2 DEF Answered, Call
<1>4. call'[h] = c
  BY <1>3, BecomeCall DEF IInv, RestoreView
<1>5. CallInv(call[h])'
  BY <1>1, <1>3, <1>4 DEF CallInv, OkInv, RestoreView
<1>6. received \subseteq received' /\ received' \subseteq Items
      /\ proven \subseteq proven' /\ proven' \subseteq Requests
  BY DEF IInv, TypeOK, RestoreView
<1> QED
  BY <1>3, <1>5, <1>6, ServeStep DEF RestoreView

LEMMA BodyInv == ASSUME IInv, NEW h \in Handlers, Body(h) PROVE IInv'
<1>1. /\ call[h] \in Call /\ CallInv(call[h]) /\ call[h].pc = "body"
      /\ call[h].kind = "deposit"
  BY DEF IInv, TypeOK, CallsInv, CallInv, Body
<1>2. CASE Answer(h, "error")
  BY <1>1, <1>2, RefuseStep DEF Body
<1>3. CASE Goto(h, "store")
  <2> DEFINE c == [call[h] EXCEPT !.pc = "store"]
  <2>1. /\ c \in Call /\ c.tab = call[h].tab /\ c.kind = call[h].kind /\ c.item = call[h].item
        /\ c.pc = "store" /\ c.answer = call[h].answer /\ c.dead = call[h].dead
        /\ c.success = call[h].success /\ c.failure = call[h].failure
        /\ c.shown = call[h].shown
    BY <1>1 DEF Call
  <2>2. call'[h] = c
    BY <1>3, <2>1, BecomeCall DEF IInv, Goto
  <2>3. CallInv(call[h])'
    BY <1>1, <2>1, <2>2 DEF CallInv
  <2>4. received \subseteq received' /\ received' \subseteq Items
        /\ proven \subseteq proven' /\ proven' \subseteq Requests
    BY DEF IInv, TypeOK, Body
  <2> QED
    BY <1>3, <2>1, <2>3, <2>4, ServeStep DEF Body, Goto
<1> QED
  BY <1>2, <1>3 DEF Body

\* The piece is received in the step that answers, so that an "ok" never comes before it.
LEMMA StoreInv == ASSUME IInv, NEW h \in Handlers, Store(h) PROVE IInv'
<1>1. /\ call[h] \in Call /\ CallInv(call[h]) /\ call[h].pc = "store"
      /\ call[h].kind = "deposit" /\ call[h].item \in Items
  BY DEF IInv, TypeOK, CallsInv, CallInv, Store
<1>2. CASE Answer(h, "error") /\ UNCHANGED received
  BY <1>1, <1>2, RefuseStep DEF Store
<1>3. ASSUME NEW answer \in {"ok", "error"}, Answer(h, answer),
             received' = received \cup {call[h].item}
      PROVE  IInv'
  <2> DEFINE c == Answered(call[h], answer)
  <2>1. c \in Call /\ Become(h, c)
    BY <1>1, <1>3, AnsweredType DEF Answer
  <2>2. call'[h] = c
    BY <2>1, BecomeCall DEF IInv
  <2>3. \/ c.tab = call[h].tab /\ c.kind = call[h].kind /\ c.item = call[h].item
        \/ call[h].tab = Null
    BY <1>1 DEF Answered, Call
  <2>4. CallInv(call[h])'
    <3>1. CASE call[h].tab = Null
      BY <2>2, <3>1, FreeCall DEF Answered
    <3>2. CASE call[h].tab # Null
      <4>1. /\ c.pc = "answered" /\ c.answer = answer /\ c.kind = "deposit"
            /\ c.item = call[h].item /\ c.tab # Null /\ c.shown = {}
            /\ answer = "ok" => ~c.dead
        BY <1>1, <3>2 DEF Answered, Call, CallInv
      <4> QED
        BY <1>1, <1>3, <2>2, <4>1 DEF CallInv, OkInv
    <3> QED
      BY <3>1, <3>2
  <2>5. received \subseteq received' /\ received' \subseteq Items
        /\ proven \subseteq proven' /\ proven' \subseteq Requests
    BY <1>1, <1>3 DEF IInv, TypeOK, Store
  <2> QED
    BY <2>1, <2>3, <2>4, <2>5, ServeStep DEF Store
<1> QED
  BY <1>2, <1>3 DEF Store

LEMMA BreaksInv == ASSUME IInv, NEW h \in Handlers, Breaks(h) PROVE IInv'
BY RefuseStep DEF Breaks

-----------------------------------------------------------------------------
(* The surroundings. *)

LEMMA OutsideStep ==
    ASSUME IInv, Steady, TypeOK', LinksInv', BrowserInv',
           UNCHANGED <<received, page, call, proven>>
    PROVE  IInv'
<1>1. CallsInv'
  BY CallStays DEF CallsInv
<1>2. ViewNeedsTheCode' /\ TickedIsReceived' /\ NoStuckRow'
  BY DEF IInv, ViewNeedsTheCode, TickedIsReceived, NoStuckRow
<1> QED
  BY <1>1, <1>2 DEF IInv

LEMMA LawyerInv == ASSUME IInv, Lawyer PROVE IInv'
<1>1. /\ current' \in [Requests -> SUBSET Links] /\ issued' \in SUBSET Links
      /\ issued \subseteq issued'
      /\ \A r \in Requests : \A k \in current'[r] :
            \/ k \in current[r]
            \/ k \notin issued /\ k \in issued' /\ DossierOf[k] = r
  <2>1. CASE \E k \in Links : Register!IssueLink(DossierOf[k], k)
    BY <2>1, DossiersAssumption DEF Register!IssueLink, IInv, TypeOK
  <2>2. CASE \E r \in Requests : Register!Cut(r)
    BY <2>2 DEF Register!Cut, IInv, TypeOK
  <2> QED
    BY <2>1, <2>2 DEF Lawyer
<1>2. expired' = {k \in expired : k \in current'[DossierOf[k]]}
  BY DEF Lawyer
<1>3. TypeOK'
  BY <1>1, <1>2 DEF IInv, TypeOK, Lawyer
<1>4. LinksInv'
  BY <1>1, <1>2 DEF IInv, LinksInv
<1>5. Steady
  BY <1>1, <1>2, DossiersAssumption DEF IInv, TypeOK, LinksInv, Steady, Opens, Lawyer
<1>6. BrowserInv'
  BY <1>1 DEF IInv, BrowserInv, Remembered, Vouched, Lawyer
<1> QED
  BY <1>3, <1>4, <1>5, <1>6, OutsideStep DEF Lawyer

LEMMA ExpireInv == ASSUME IInv, Expire PROVE IInv'
<1>1. PICK k \in Links : Opens(k) /\ expired' = expired \cup {k}
  BY DEF Expire
<1>2. TypeOK'
  BY <1>1 DEF IInv, TypeOK, Expire
<1>3. LinksInv'
  BY <1>1, DossiersAssumption DEF IInv, LinksInv, Expire, Opens
<1>4. Steady
  BY <1>1 DEF Steady, Opens, Expire
<1>5. BrowserInv'
  BY DEF IInv, BrowserInv, Remembered, Vouched, Expire
<1> QED
  BY <1>2, <1>3, <1>4, <1>5, OutsideStep DEF Expire

LEMMA CookieRunsOutInv == ASSUME IInv, CookieRunsOut PROVE IInv'
<1>1. TypeOK' /\ LinksInv' /\ BrowserInv'
  BY DEF IInv, TypeOK, LinksInv, BrowserInv, Remembered, Vouched, CookieRunsOut
<1> QED
  BY <1>1, UnchangedSteady, OutsideStep DEF CookieRunsOut

-----------------------------------------------------------------------------
(* The tabs. *)

\* A step of one tab, by what it makes of its page.
LEMMA TabStep ==
    ASSUME IInv, NEW t \in Tabs, NEW p \in Page, page' = [page EXCEPT ![t] = p],
           UnchangedServer, UNCHANGED proven,
           cookie' \in Remembered, Vouched(cookie'),
           p.address \in Remembered, p.remembered \in Remembered,
           p.view # Null => p.view \in proven,
           p.shown \cup p.receipts \subseteq received,
           call' \in [Handlers -> Call], CallsInv', NoStuckRow'
    PROVE  IInv'
<1> USE DEF UnchangedServer
<1>1. page' \in [Tabs -> Page] /\ page'[t] = p /\ \A u \in Tabs \ {t} : page'[u] = page[u]
  BY DEF IInv, TypeOK
<1>2. cookie' \in Links \cup {Null}
  BY DEF IInv, TypeOK, Remembered
<1>3. TypeOK'
  BY <1>1, <1>2 DEF IInv, TypeOK
<1>4. LinksInv'
  BY DEF IInv, LinksInv
<1>5. BrowserInv'
  BY <1>1 DEF IInv, BrowserInv, Remembered, Vouched
<1>6. ViewNeedsTheCode'
  BY <1>1 DEF IInv, ViewNeedsTheCode
<1>7. TickedIsReceived'
  BY <1>1 DEF IInv, TickedIsReceived
<1> QED
  BY <1>3, <1>4, <1>5, <1>6, <1>7 DEF IInv

LEMMA OrphanCall ==
    ASSUME IInv, UnchangedServer, UNCHANGED proven, NEW h \in Handlers,
           call'[h] = Orphan(call[h])
    PROVE  Orphan(call[h]) \in Call /\ CallInv(call[h])'
<1>1. call[h] \in Call /\ CallInv(call[h])
  BY DEF IInv, TypeOK, CallsInv
<1>2. CASE Orphan(call[h]) = Free
  BY <1>2, FreeType, FreeCall
<1>3. CASE call[h].kind = "deposit" /\ call[h].pc # "answered"
  <2> DEFINE c == [call[h] EXCEPT !.tab = Null]
  <2>1. /\ c \in Call /\ c.pc = call[h].pc /\ c.kind = "deposit" /\ c.item = call[h].item
        /\ c.answer = call[h].answer /\ c.dead = call[h].dead /\ c.link = call[h].link
        /\ c.success = call[h].success /\ c.failure = call[h].failure
        /\ c.shown = call[h].shown /\ c.tab = Null
    BY <1>1, <1>3 DEF Call
  <2>2. call'[h] = c
    BY <1>3 DEF Orphan
  <2> QED
    BY <1>1, <1>3, <2>1, <2>2 DEF CallInv, OkInv, Opens, Remembered, Vouched,
                                  UnchangedServer, Orphan
<1> QED
  BY <1>2, <1>3 DEF Orphan

\* What StrayCookie may leave.
LEMMA StrayCookieInv ==
    ASSUME IInv, NEW t, StrayCookie(t)
    PROVE  cookie' \in Remembered /\ Vouched(cookie')
BY DEF IInv, BrowserInv, CallsInv, CallInv, OkInv, StrayCookie, Remembered, Vouched

LEMMA LoadInv == ASSUME IInv, NEW t \in Tabs, NEW k \in Links, Load(t, k) PROVE IInv'
<1> DEFINE p == [Blank EXCEPT !.address = k, !.remembered = page[t].remembered,
                              !.loading = (page[t].remembered = k)]
<1>1. page[t] \in Page /\ page[t].remembered \in Remembered /\ k \in Remembered
  BY DEF IInv, TypeOK, BrowserInv, Load, Remembered
<1>2. /\ p \in Page /\ p.address = k /\ p.remembered = page[t].remembered
      /\ p.view = Null /\ p.shown = {} /\ p.receipts = {} /\ p.uploading = {}
  BY <1>1 DEF Blank, Page
<1>3. \A h \in Handlers : call'[h] = IF call[h].tab = t THEN Orphan(call[h]) ELSE call[h]
  BY DEF Load
<1>4. \A h \in Handlers : CallInv(call[h])' /\ call'[h] \in Call
  BY <1>3, OrphanCall, CallStays, UnchangedSteady DEF Load, UnchangedServer, IInv, TypeOK
<1>5. call' \in [Handlers -> Call]
  BY <1>4 DEF Load
<1>6. NoStuckRow'
  <2> SUFFICES ASSUME NEW u \in Tabs, NEW i \in page'[u].uploading
               PROVE  \E h \in Handlers : /\ call'[h].tab = u /\ call'[h].kind = "deposit"
                                          /\ call'[h].item = i
    BY DEF NoStuckRow
  <2>1. u # t /\ page'[u] = page[u]
    BY <1>2 DEF Load, IInv, TypeOK
  <2> QED
    BY <1>3, <2>1 DEF IInv, NoStuckRow
<1>7. cookie' \in Remembered /\ Vouched(cookie')
  BY StrayCookieInv DEF Load
<1>8. page' = [page EXCEPT ![t] = p]
  BY DEF Load
<1> QED
  BY <1>1, <1>2, <1>4, <1>5, <1>6, <1>7, <1>8, TabStep DEF Load, CallsInv

\* What every call keeps but the one that moves: a row waits for its own call only.
LEMMA OtherCalls ==
    ASSUME IInv, UnchangedServer, UNCHANGED proven, NEW h \in Handlers, NEW c \in Call,
           Become(h, c), CallInv(call[h])'
    PROVE  call' \in [Handlers -> Call] /\ CallsInv'
<1>1. /\ call' \in [Handlers -> Call]
      /\ \A g \in Handlers \ {h} : call'[g] = call[g]
  BY BecomeCall DEF IInv
<1> QED
  BY <1>1, CallStays, UnchangedSteady DEF CallsInv, UnchangedServer

LEMMA SentRows ==
    ASSUME IInv, NEW h \in Handlers, NEW c \in Call, Send(h, c)
    PROVE  \A u \in Tabs : \A i \in page[u].uploading :
              \E g \in Handlers : /\ call'[g].tab = u /\ call'[g].kind = "deposit"
                                  /\ call'[g].item = i
<1> SUFFICES ASSUME NEW u \in Tabs, NEW i \in page[u].uploading
             PROVE  \E g \in Handlers : /\ call'[g].tab = u /\ call'[g].kind = "deposit"
                                        /\ call'[g].item = i
  OBVIOUS
<1>1. PICK g \in Handlers : call[g].tab = u /\ call[g].kind = "deposit" /\ call[g].item = i
  BY DEF IInv, NoStuckRow
<1>2. g # h
  BY <1>1, NullAssumption DEF IInv, CallsInv, CallInv, Send
<1>3. call'[g] = call[g]
  BY <1>2 DEF Send
<1> QED
  BY <1>1, <1>3

LEMMA RestoreInv ==
    ASSUME IInv, NEW h \in Handlers, NEW t \in Tabs, Restore(h, t) PROVE IInv'
<1> DEFINE c == [Free EXCEPT !.pc = "guard", !.kind = "session", !.tab = t, !.link = cookie,
                             !.dead = ~Opens(cookie)]
<1>1. Opens(cookie) \in BOOLEAN /\ cookie \in Links \cup {Null}
      /\ cookie \in Remembered /\ Vouched(cookie)
  BY DEF Opens, IInv, TypeOK, BrowserInv
<1>2. /\ c \in Call /\ c.pc = "guard" /\ c.kind = "session" /\ c.tab = t /\ c.link = cookie
      /\ c.dead = ~Opens(cookie) /\ c.answer = "none" /\ c.item = Null
      /\ c.success = 0 /\ c.failure = 0 /\ c.shown = {}
  BY <1>1 DEF Free, Call
<1>3. Send(h, c) /\ Become(h, c)
  BY DEF Restore, Send, Become
<1>4. call'[h] = c
  BY <1>2, <1>3, BecomeCall DEF IInv
<1>5. CallInv(call[h])'
  <2>1. Opens(cookie)' <=> Opens(cookie)
    BY DEF Opens, Restore, UnchangedServer
  <2>2. c.dead => ~Opens(cookie)
    BY <1>2
  <2> HIDE DEF c
  <2> QED
    BY <1>1, <1>2, <1>4, <2>1, <2>2, NullAssumption
       DEF CallInv, Restore, UnchangedServer, Remembered, Vouched
<1>6. call' \in [Handlers -> Call] /\ CallsInv'
  BY <1>2, <1>3, <1>5, OtherCalls DEF Restore
<1>7. NoStuckRow'
  BY <1>2, <1>3, SentRows DEF NoStuckRow, Restore
<1>8. TypeOK' /\ LinksInv' /\ BrowserInv'
  BY <1>6 DEF IInv, TypeOK, LinksInv, BrowserInv, Remembered, Vouched, Restore, UnchangedServer
<1> QED
  BY <1>6, <1>7, <1>8 DEF IInv, ViewNeedsTheCode, TickedIsReceived, Restore, UnchangedServer

LEMMA SubmitInv ==
    ASSUME IInv, NEW h \in Handlers, NEW t \in Tabs, Submit(h, t) PROVE IInv'
<1> DEFINE k == page[t].address
           c == [Free EXCEPT !.pc = "resolve", !.kind = "unlock", !.tab = t, !.link = k,
                             !.late = (k \in expired), !.dead = ~Opens(k)]
<1>1. Opens(k) \in BOOLEAN /\ k \in Links /\ k \in issued
  BY DEF Opens, IInv, TypeOK, BrowserInv, Remembered, Page, Submit
<1>2. /\ c \in Call /\ c.pc = "resolve" /\ c.kind = "unlock" /\ c.tab = t /\ c.link = k
      /\ (c.late <=> k \in expired) /\ (c.dead <=> ~Opens(k)) /\ c.answer = "none"
      /\ c.item = Null /\ c.success = 0 /\ c.failure = 0 /\ c.shown = {}
  <2>1. /\ c.pc = "resolve" /\ c.kind = "unlock" /\ c.tab = t /\ c.link = k
        /\ c.answer = "none" /\ c.item = Null /\ c.success = 0 /\ c.failure = 0
        /\ c.shown = {}
    BY DEF Free
  <2>2. (c.late <=> k \in expired) /\ (c.dead <=> ~Opens(k))
    BY DEF Free
  <2>3. c \in Call
    <3>1. (k \in expired) \in BOOLEAN /\ (~Opens(k)) \in BOOLEAN
      BY <1>1
    <3>2. \A late, dead \in BOOLEAN :
             [Free EXCEPT !.pc = "resolve", !.kind = "unlock", !.tab = t, !.link = k,
                          !.late = late, !.dead = dead] \in Call
      BY <1>1 DEF Free, Call
    <3> QED
      BY <3>1, <3>2, Zenon
  <2> QED
    BY <2>1, <2>2, <2>3
<1>3. Send(h, c) /\ Become(h, c)
  BY DEF Submit, Send, Become
<1>4. call'[h] = c
  BY <1>2, <1>3, BecomeCall DEF IInv
<1>5. CallInv(call[h])'
  BY <1>1, <1>2, <1>4, NullAssumption DEF CallInv, Submit, UnchangedServer, Opens
<1>6. call' \in [Handlers -> Call] /\ CallsInv'
  BY <1>2, <1>3, <1>5, OtherCalls DEF Submit
<1>7. NoStuckRow'
  BY <1>2, <1>3, SentRows DEF NoStuckRow, Submit
<1>8. TypeOK' /\ LinksInv' /\ BrowserInv'
  BY <1>6 DEF IInv, TypeOK, LinksInv, BrowserInv, Remembered, Vouched, Submit, UnchangedServer
<1> QED
  BY <1>6, <1>7, <1>8 DEF IInv, ViewNeedsTheCode, TickedIsReceived, Submit, UnchangedServer

LEMMA PickInv ==
    ASSUME IInv, NEW h \in Handlers, NEW t \in Tabs, NEW i \in Items, Pick(h, t, i) PROVE IInv'
<1> DEFINE c == [Free EXCEPT !.pc = "guard", !.kind = "deposit", !.tab = t, !.link = cookie,
                             !.item = i, !.dead = ~Opens(cookie)]
           p == [page[t] EXCEPT !.uploading = @ \cup {i}]
<1>1. Opens(cookie) \in BOOLEAN /\ cookie \in Links \cup {Null}
      /\ cookie \in Remembered /\ Vouched(cookie)
  BY DEF Opens, IInv, TypeOK, BrowserInv
<1>2. /\ c \in Call /\ c.pc = "guard" /\ c.kind = "deposit" /\ c.tab = t /\ c.link = cookie
      /\ c.item = i /\ c.dead = ~Opens(cookie) /\ c.answer = "none"
      /\ c.success = 0 /\ c.failure = 0 /\ c.shown = {}
  BY <1>1 DEF Free, Call
<1>3. Send(h, c) /\ Become(h, c)
  BY DEF Pick, Send, Become
<1>4. call'[h] = c
  BY <1>2, <1>3, BecomeCall DEF IInv
<1>5. CallInv(call[h])'
  BY <1>1, <1>2, <1>4, NullAssumption
     DEF CallInv, Pick, UnchangedServer, Opens, Remembered, Vouched
<1>6. call' \in [Handlers -> Call] /\ CallsInv'
  BY <1>2, <1>3, <1>5, OtherCalls DEF Pick
<1>7. page[t] \in Page
  BY DEF IInv, TypeOK
<1>8. /\ p \in Page /\ p.address = page[t].address /\ p.remembered = page[t].remembered
      /\ p.view = page[t].view /\ p.shown = page[t].shown /\ p.receipts = page[t].receipts
      /\ p.uploading = page[t].uploading \cup {i}
  BY <1>7 DEF Page
<1>9. page' = [page EXCEPT ![t] = p]
  BY DEF Pick
<1>10. cookie' \in Remembered /\ Vouched(cookie')
  BY <1>1 DEF Pick
<1>11. /\ page[t].address \in Remembered /\ page[t].remembered \in Remembered
       /\ page[t].view # Null => page[t].view \in proven
       /\ page[t].shown \cup page[t].receipts \subseteq received
  BY DEF IInv, BrowserInv, ViewNeedsTheCode, TickedIsReceived
<1>12. NoStuckRow'
  <2> SUFFICES ASSUME NEW u \in Tabs, NEW j \in page'[u].uploading
               PROVE  \E g \in Handlers : /\ call'[g].tab = u /\ call'[g].kind = "deposit"
                                          /\ call'[g].item = j
    BY DEF NoStuckRow
  <2>1. j \in page[u].uploading \/ (u = t /\ j = i)
    BY <1>8, <1>9 DEF IInv, TypeOK
  <2> QED
    BY <1>2, <1>3, <1>4, <2>1, SentRows
<1> QED
  BY <1>6, <1>8, <1>9, <1>10, <1>11, <1>12, TabStep DEF Pick

\* An answer, or its loss: the row of the call is closed, if it had one, and no other moves.
LEMMA ClosedRows ==
    ASSUME IInv, NEW h \in Handlers, NEW c \in Call, Become(h, c),
           NEW t \in Tabs, call[h].tab = t,
           NEW p \in Page, page' = [page EXCEPT ![t] = p],
           p.uploading \subseteq page[t].uploading,
           call[h].kind = "deposit" => call[h].item \notin p.uploading
    PROVE  NoStuckRow'
<1> SUFFICES ASSUME NEW u \in Tabs, NEW i \in page'[u].uploading
             PROVE  \E g \in Handlers : /\ call'[g].tab = u /\ call'[g].kind = "deposit"
                                        /\ call'[g].item = i
  BY DEF NoStuckRow
<1>1. page'[u] = IF u = t THEN p ELSE page[u]
  BY DEF IInv, TypeOK
<1>2. PICK g \in Handlers : call[g].tab = u /\ call[g].kind = "deposit" /\ call[g].item = i
  BY <1>1 DEF IInv, NoStuckRow
<1>3. g # h
  BY <1>1, <1>2
<1>4. call'[g] = call[g]
  BY <1>3, BecomeCall DEF IInv
<1> QED
  BY <1>2, <1>4

LEMMA FailedInv ==
    ASSUME IInv, NEW h \in Handlers, NEW t \in Tabs, call[h].tab = t, Failed(h, t),
           NEW c \in Call, Become(h, c), CallInv(call[h])',
           UnchangedServer, UNCHANGED proven, cookie' \in Remembered, Vouched(cookie')
    PROVE  IInv'
<1> DEFINE p == [page[t] EXCEPT !.loading = (@ /\ call[h].kind # "session"),
                                !.uploading = @ \ {call[h].item}]
<1>1. page[t] \in Page
  BY DEF IInv, TypeOK
<1>2. /\ p.address = page[t].address /\ p.remembered = page[t].remembered
      /\ p.view = page[t].view /\ p.shown = page[t].shown /\ p.receipts = page[t].receipts
      /\ p.uploading = page[t].uploading \ {call[h].item}
  BY <1>1 DEF Page
<1>3. p \in Page
  <2>1. \A loading \in BOOLEAN :
           [page[t] EXCEPT !.loading = loading, !.uploading = @ \ {call[h].item}] \in Page
    BY <1>1 DEF Page
  <2>2. (page[t].loading /\ call[h].kind # "session") \in BOOLEAN
    BY <1>1 DEF Page
  <2> QED
    BY <2>1, <2>2, Zenon
<1>4. page' = [page EXCEPT ![t] = p]
  BY DEF Failed
<1>5. call' \in [Handlers -> Call] /\ CallsInv'
  BY OtherCalls
<1>6. NoStuckRow'
  <2> HIDE DEF p
  <2> QED
    BY <1>2, <1>3, <1>4, ClosedRows
<1>7. /\ page[t].address \in Remembered /\ page[t].remembered \in Remembered
      /\ page[t].view # Null => page[t].view \in proven
      /\ page[t].shown \cup page[t].receipts \subseteq received
  BY DEF IInv, BrowserInv, ViewNeedsTheCode, TickedIsReceived
<1> HIDE DEF p
<1> QED
  BY <1>2, <1>3, <1>4, <1>5, <1>6, <1>7, TabStep

LEMMA DeliverInv == ASSUME IInv, NEW h \in Handlers, Deliver(h) PROVE IInv'
<1> DEFINE t == call[h].tab
<1>1. /\ t \in Tabs /\ page[t] \in Page /\ call[h] \in Call /\ CallInv(call[h])
      /\ call[h].pc = "answered" /\ Become(h, Free) /\ UnchangedServer /\ UNCHANGED proven
  BY DEF IInv, TypeOK, CallsInv, Call, Deliver
<1>2. CallInv(call[h])'
  BY <1>1, FreeType, BecomeCall, FreeCall DEF IInv
<1>3. call' \in [Handlers -> Call] /\ CallsInv'
  BY <1>1, <1>2, FreeType, OtherCalls
<1>4. /\ cookie \in Remembered /\ Vouched(cookie)
      /\ page[t].address \in Remembered /\ page[t].remembered \in Remembered
      /\ page[t].view # Null => page[t].view \in proven
      /\ page[t].shown \cup page[t].receipts \subseteq received
  BY <1>1 DEF IInv, BrowserInv, ViewNeedsTheCode, TickedIsReceived
<1> HIDE DEF t
<1>5. CASE Unlocked(h, t)
  <2>1. PICK remembered \in {call[h].link, page[t].remembered} :
           page' = [page EXCEPT ![t].remembered = remembered,
                                ![t].view = call[h].dossier, ![t].shown = call[h].shown]
    BY <1>5 DEF Unlocked
  <2> DEFINE p == [page[t] EXCEPT !.remembered = remembered, !.view = call[h].dossier,
                                  !.shown = call[h].shown]
  <2>2. /\ call[h].link \in issued /\ DossierOf[call[h].link] \in proven
        /\ call[h].dossier \in proven /\ call[h].shown \subseteq received
    BY <1>1, <1>5 DEF Unlocked, CallInv, OkInv
  <2>3. remembered \in Remembered /\ remembered \in Links \cup {Null}
    BY <1>1, <1>4, <2>2 DEF Remembered, Call, Page
  <2>4. /\ p \in Page /\ p.address = page[t].address /\ p.remembered = remembered
        /\ p.view = call[h].dossier /\ p.shown = call[h].shown
        /\ p.receipts = page[t].receipts /\ p.uploading = page[t].uploading
    BY <1>1, <2>3 DEF Page, Call
  <2>5. page' = [page EXCEPT ![t] = p]
    BY <2>1
  <2>6. cookie' \in Remembered /\ Vouched(cookie')
    BY <1>5, <2>2 DEF Unlocked, Remembered, Vouched
  <2>7. NoStuckRow'
    <3> HIDE DEF p
    <3> QED
      <4>1. call[h].kind # "deposit" /\ p.uploading \subseteq page[t].uploading
        BY <1>5, <2>4 DEF Unlocked
      <4> QED
        BY <1>1, <2>4, <2>5, <4>1, FreeType, ClosedRows DEF t
  <2> HIDE DEF p
  <2> QED
    BY <1>1, <1>3, <1>4, <2>2, <2>3, <2>4, <2>5, <2>6, <2>7, TabStep
<1>6. CASE Restored(h, t)
  <2> DEFINE p == [page[t] EXCEPT !.loading = FALSE, !.view = call[h].dossier,
                                  !.shown = call[h].shown]
  <2>1. call[h].dossier \in proven /\ call[h].shown \subseteq received
    BY <1>1, <1>6 DEF Restored, CallInv, OkInv
  <2>2. /\ p \in Page /\ p.address = page[t].address /\ p.remembered = page[t].remembered
        /\ p.view = call[h].dossier /\ p.shown = call[h].shown
        /\ p.receipts = page[t].receipts /\ p.uploading = page[t].uploading
    BY <1>1 DEF Page, Call
  <2>3. page' = [page EXCEPT ![t] = p] /\ UNCHANGED cookie
    BY <1>6 DEF Restored
  <2>4. NoStuckRow'
    <3> HIDE DEF p
    <3> QED
      <4>1. call[h].kind # "deposit" /\ p.uploading \subseteq page[t].uploading
        BY <1>6, <2>2 DEF Restored
      <4> QED
        BY <1>1, <2>2, <2>3, <4>1, FreeType, ClosedRows DEF t
  <2>5. cookie' \in Remembered /\ Vouched(cookie')
    BY <1>4, <2>3
  <2> HIDE DEF p
  <2> QED
    BY <1>1, <1>3, <1>4, <2>1, <2>2, <2>3, <2>4, <2>5, TabStep
<1>7. CASE Deposited(h, t)
  <2> DEFINE p == [page[t] EXCEPT !.receipts = @ \cup {call[h].item},
                                  !.uploading = @ \ {call[h].item}]
  <2>1. call[h].item \in received /\ call[h].item \in Items
    BY <1>1, <1>7 DEF Deposited, CallInv, OkInv
  <2>2. /\ p \in Page /\ p.address = page[t].address /\ p.remembered = page[t].remembered
        /\ p.view = page[t].view /\ p.shown = page[t].shown
        /\ p.receipts = page[t].receipts \cup {call[h].item}
        /\ p.uploading = page[t].uploading \ {call[h].item}
    BY <1>1, <2>1 DEF Page
  <2>3. page' = [page EXCEPT ![t] = p] /\ UNCHANGED cookie
    BY <1>7 DEF Deposited
  <2>4. NoStuckRow'
    <3> HIDE DEF p
    <3> QED
      <4>1. p.uploading \subseteq page[t].uploading /\ call[h].item \notin p.uploading
        BY <2>2
      <4> QED
        BY <1>1, <2>2, <2>3, <4>1, FreeType, ClosedRows DEF t
  <2>5. cookie' \in Remembered /\ Vouched(cookie')
    BY <1>4, <2>3
  <2> HIDE DEF p
  <2> QED
    BY <1>1, <1>3, <1>4, <2>1, <2>2, <2>3, <2>4, <2>5, TabStep
<1>8. CASE DepositRefused(h, t)
  <2> DEFINE p == [page[t] EXCEPT !.view = Null, !.shown = {}, !.uploading = {}]
  <2>1. /\ p \in Page /\ p.address = page[t].address /\ p.remembered = page[t].remembered
        /\ p.view = Null /\ p.shown = {} /\ p.receipts = page[t].receipts /\ p.uploading = {}
    BY <1>1 DEF Page
  <2>2. page' = [page EXCEPT ![t] = p] /\ UNCHANGED cookie
    BY <1>8 DEF DepositRefused
  <2>3. NoStuckRow'
    <3> HIDE DEF p
    <3> QED
      BY <1>1, <2>1, <2>2, FreeType, ClosedRows DEF t
  <2>4. cookie' \in Remembered /\ Vouched(cookie')
    BY <1>4, <2>2
  <2> HIDE DEF p
  <2> QED
    BY <1>1, <1>3, <1>4, <2>1, <2>2, <2>3, <2>4, TabStep
<1>9. CASE Failed(h, t) /\ UNCHANGED cookie
  <2>1. cookie' \in Remembered /\ Vouched(cookie')
    BY <1>4, <1>9
  <2> QED
    BY <1>1, <1>2, <1>9, <2>1, FreeType, FailedInv DEF t
<1> QED
  BY <1>5, <1>6, <1>7, <1>8, <1>9 DEF Deliver, t

LEMMA GiveUpInv == ASSUME IInv, NEW h \in Handlers, GiveUp(h) PROVE IInv'
<1> DEFINE t == call[h].tab
           c == Orphan(call[h])
<1>1. /\ t \in Tabs /\ call[h] \in Call /\ Failed(h, t) /\ StrayCookie(t)
      /\ Become(h, c) /\ UnchangedServer /\ UNCHANGED proven
  BY DEF IInv, TypeOK, Call, GiveUp
<1>2. call'[h] = c
  BY <1>1 DEF Become, IInv, TypeOK
<1>3. c \in Call /\ CallInv(call[h])'
  BY <1>1, <1>2, OrphanCall
<1>4. cookie' \in Remembered /\ Vouched(cookie')
  BY <1>1, StrayCookieInv
<1> HIDE DEF c
<1> QED
  BY <1>1, <1>3, <1>4, FailedInv

LEMMA VanishInv == ASSUME IInv, NEW h \in Handlers, Vanish(h) PROVE IInv'
<1>1. Become(h, Free) /\ UnchangedServer /\ UNCHANGED proven /\ call[h].tab = Null
  BY DEF Vanish
<1>2. /\ call' \in [Handlers -> Call] /\ call'[h] = Free
      /\ \A g \in Handlers \ {h} : call'[g] = call[g]
  BY <1>1, FreeType, BecomeCall DEF IInv
<1>3. CallsInv'
  BY <1>1, <1>2, FreeType, FreeCall, OtherCalls
<1>4. NoStuckRow'
  BY <1>1, <1>2, NullAssumption DEF IInv, NoStuckRow, Vanish
<1>5. TypeOK' /\ LinksInv' /\ BrowserInv'
  BY <1>2 DEF IInv, TypeOK, LinksInv, BrowserInv, Remembered, Vouched, Vanish, UnchangedServer
<1> QED
  BY <1>3, <1>4, <1>5 DEF IInv, ViewNeedsTheCode, TickedIsReceived, Vanish, UnchangedServer

-----------------------------------------------------------------------------
LEMMA StutterInv == ASSUME IInv, UNCHANGED vars PROVE IInv'
BY DEF vars, IInv, TypeOK, LinksInv, BrowserInv, CallsInv, CallInv, OkInv, CountInv,
       ViewNeedsTheCode, TickedIsReceived, NoStuckRow, Remembered, Vouched, Opens

LEMMA NextInv == IInv /\ [Next]_vars => IInv'
<1> SUFFICES ASSUME IInv, [Next]_vars PROVE IInv'
  OBVIOUS
<1>1. CASE Lawyer \/ Expire \/ CookieRunsOut
  BY <1>1, LawyerInv, ExpireInv, CookieRunsOutInv
<1>2. ASSUME NEW t \in Tabs, NEW k \in Links, Load(t, k) PROVE IInv'
  BY <1>2, LoadInv
<1>3. ASSUME NEW h \in Handlers, Client(h) PROVE IInv'
  BY <1>3, RestoreInv, SubmitInv, PickInv DEF Client
<1>4. ASSUME NEW h \in Handlers, Serve(h) PROVE IInv'
  BY <1>4, ResolveInv, ViewInv, GuardInv, RestoreViewInv, BodyInv, StoreInv, BreaksInv
     DEF Serve
<1>5. ASSUME NEW h \in Handlers, Deliver(h) \/ GiveUp(h) \/ Vanish(h) PROVE IInv'
  BY <1>5, DeliverInv, GiveUpInv, VanishInv
<1>6. CASE UNCHANGED vars
  BY <1>6, StutterInv
<1> QED
  BY <1>1, <1>2, <1>3, <1>4, <1>5, <1>6 DEF Next

\* What links, cookie, pages and calls keep to, whoever moves.
THEOREM InductiveInvariant == Spec => []IInv
<1> QED
  BY InitInv, NextInv, PTL DEF Spec

\* The types of the state.
THEOREM TypeCorrect == Spec => []TypeOK
<1>1. IInv => TypeOK
  BY DEF IInv
<1> QED
  BY <1>1, InductiveInvariant, PTL

\* ClientSessionGuard and resolve: a call sent when its link was cut or expired gets nothing,
\* whatever the session it carries and whatever links were issued since.
THEOREM CutIsCut == Spec => []CutLinksOpenNothing
<1>1. IInv => CutLinksOpenNothing
  BY DEF IInv, CallsInv, CallInv, CutLinksOpenNothing
<1> QED
  BY <1>1, InductiveInvariant, PTL

\* DepositPage and the client cookie: however many tabs share it, no tab shows a dossier of
\* which this browser has not given the code.
THEOREM CodeComesFirst == Spec => []ViewNeedsTheCode
<1>1. IInv => ViewNeedsTheCode
  BY DEF IInv
<1> QED
  BY <1>1, InductiveInvariant, PTL

\* PublicService.unlock: an answer counts as what it is, and once.
THEOREM UnlocksAreCounted == Spec => []AnswersAreCounted
<1>1. IInv => AnswersAreCounted
  BY DEF IInv, CallsInv, CallInv, CountInv, AnswersAreCounted
<1> QED
  BY <1>1, InductiveInvariant, PTL

\* DepositPage: a piece that a tab ticks has a file.
THEOREM TicksAreTrue == Spec => []TickedIsReceived
<1>1. IInv => TickedIsReceived
  BY DEF IInv
<1> QED
  BY <1>1, InductiveInvariant, PTL

\* DepositPage.onPick: no row stays without its button once its call is over.
THEOREM RowsAreReleased == Spec => []NoStuckRow
<1>1. IInv => NoStuckRow
  BY DEF IInv
<1> QED
  BY <1>1, InductiveInvariant, PTL

-----------------------------------------------------------------------------
(* The composition: the client's browser meets the links only as            *)
(* LinkRegister moves them, which PublicLinks implements.                   *)

\* The lawyer replaces or cuts a link; nothing else moves one.
LEMMA RegisterStep == ASSUME [Next]_vars PROVE [Register!RNext]_(Register!rvars)
<1>1. CASE Lawyer
  <2>1. ASSUME NEW k \in Links, Register!IssueLink(DossierOf[k], k) PROVE Register!RNext
    <3>1. DossierOf[k] \in Requests
      BY DossiersAssumption
    <3> QED
      BY <2>1, <3>1 DEF Register!RNext
  <2>2. ASSUME NEW r \in Requests, Register!Cut(r) PROVE Register!RNext
    BY <2>2 DEF Register!RNext
  <2> QED
    BY <1>1, <2>1, <2>2 DEF Lawyer
<1>2. ASSUME NEW t \in Tabs, NEW k \in Links, Load(t, k) PROVE UNCHANGED <<current, issued>>
  BY <1>2 DEF Load, UnchangedServer
<1>3. ASSUME NEW h \in Handlers, Client(h) PROVE UNCHANGED <<current, issued>>
  BY <1>3 DEF Client, Restore, Submit, Pick, UnchangedServer
<1>4. ASSUME NEW h \in Handlers, Serve(h) PROVE UNCHANGED <<current, issued>>
  BY <1>4 DEF Serve, Resolve, View, Guard, RestoreView, Body, Store, Breaks, UnchangedBrowser
<1>5. ASSUME NEW h \in Handlers, Deliver(h) \/ GiveUp(h) \/ Vanish(h)
      PROVE  UNCHANGED <<current, issued>>
  BY <1>5 DEF Deliver, GiveUp, Vanish, UnchangedServer
<1>6. CASE Expire \/ CookieRunsOut \/ UNCHANGED vars
  BY <1>6 DEF Expire, CookieRunsOut, vars, Register!rvars
<1> QED
  BY <1>1, <1>2, <1>3, <1>4, <1>5, <1>6 DEF Next, Register!rvars

\* The links the public routes are checked against move as PublicLinksService moves them: the
\* model of the client takes nothing for granted that PublicLinks is not proved to give.
THEOREM RegisterComposed == Spec => Register!RSpec
<1>1. Init => Register!RInit
  BY DEF Init
<1> QED
  BY <1>1, RegisterStep, PTL DEF Spec, Register!RSpec

LEMMA RegisterPromises ==
    ASSUME IInv, [Register!RNext]_(Register!rvars) PROVE Register!CutStays
<1>1. current \in [Requests -> SUBSET Links]
  BY DEF IInv, TypeOK
<1>2. ASSUME NEW r \in Requests, Register!Cut(r) PROVE Register!CutStays
  BY <1>1, <1>2 DEF Register!Cut, Register!CutStays
<1>3. ASSUME NEW r \in Requests, NEW k \in Links, Register!IssueLink(r, k)
      PROVE  Register!CutStays
  BY <1>1, <1>3 DEF Register!IssueLink, Register!CutStays
<1>4. CASE UNCHANGED Register!rvars
  BY <1>4 DEF Register!rvars, Register!CutStays
<1> QED
  BY <1>2, <1>3, <1>4 DEF Register!RNext

\* ClientSessionGuard reads the link again on each call: once it is cut, the session it gave is
\* over for good, and reissuing the dossier does not bring it back.
THEOREM CutForGood == Spec => Register!CutForGood
<1>1. IInv /\ [Next]_vars => [Register!CutStays]_(Register!rvars)
  BY RegisterStep, RegisterPromises
<1> QED
  BY <1>1, InductiveInvariant, PTL DEF Spec, Register!CutForGood
=============================================================================

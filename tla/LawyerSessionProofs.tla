------------------------ MODULE LawyerSessionProofs ------------------------
(***************************************************************************)
(* Safety of LawyerSession for every number of tokens, tabs and calls.      *)
(***************************************************************************)
EXTENDS LawyerSession, TLAPS

-----------------------------------------------------------------------------
(* The inductive invariant. *)

Issued(t) == familyOf[t] # Null

\* A call holds an answer only once it has one, and no tab once it is over.
ShapeInv(c) ==
    /\ call[c].pc # "answered" => /\ call[c].answer = "none" /\ call[c].set = Null
                               /\ call[c].clear = FALSE
    /\ call[c].leg # "first" => call[c].kind \in {"me", "api"}
    /\ call[c].pc = "purged" => call[c].kind = "login"
    /\ call[c].pc = "free" => call[c].tab = Null

\* Browser and server only know tokens that were issued, and a family by one that was.
IssuedInv ==
    /\ \A t \in heads : Issued(t)
    /\ \A t \in Tokens : Issued(t) => Issued(familyOf[t])
    /\ jar.refresh # Null => Issued(jar.refresh)
    /\ \A c \in Calls : call[c].refresh # Null => Issued(call[c].refresh)
    /\ \A c \in Calls : call[c].set # Null => Issued(call[c].set)

\* A cookie on its way to the browser is nowhere else.
SetsApart ==
    \A c \in Calls : call[c].set # Null =>
        /\ jar.refresh # call[c].set
        /\ \A d \in Calls : call[d].refresh # call[c].set
        /\ \A d \in Calls \ {c} : call[d].set # call[c].set

Known(t) == t \in heads \/ t \in recent

\* As long as nothing was lost, late or over, what the browser sends is a head or was one a
\* moment ago, and what it is about to receive is a head.
CalmCall(c) ==
    /\ call[c].clear = FALSE
    /\ call[c].pc = "sent" /\ call[c].refresh # Null => Known(call[c].refresh)
    /\ call[c].set # Null => call[c].set \in heads

CalmInv ==
    calm => /\ lapsed = {}
            /\ jar.refresh # Null => Known(jar.refresh)
            /\ \A c \in Calls : CalmCall(c)
            /\ jar.refresh # Null \/ heads # {} => SessionHeld

SignOutEnds(c) ==
    call[c].kind = "logout" /\ call[c].answer = "ok" /\ call[c].refresh # Null =>
        call[c].overtaken \/ Family(call[c].refresh) = {}

IInv ==
    /\ TypeOK
    /\ \A c \in Calls : ShapeInv(c)
    /\ IssuedInv
    /\ SetsApart
    /\ \A c \in Calls : SignOutEnds(c)
    /\ LoadingIsServed
    /\ CalmInv

-----------------------------------------------------------------------------
LEMMA InitIInv == Init => IInv
BY NullAssumption
   DEF Init, IInv, TypeOK, Chain!SInit, ShapeInv, IssuedInv, Issued, SetsApart, SignOutEnds,
       LoadingIsServed, CalmInv, CalmCall, Free, Jar, NoCookies, Tab, Call

-----------------------------------------------------------------------------
(* Facts used for many actions. *)

\* The records written in the module, field by field.
LEMMA FreeFields ==
    /\ Free \in Call
    /\ Free.pc = "free" /\ Free.kind = "none" /\ Free.leg = "first" /\ Free.tab = Null
    /\ Free.refresh = Null /\ Free.answer = "none" /\ Free.set = Null /\ Free.clear = FALSE
BY DEF Free, Call

IsAnswer(r, c, answer, set, clear) ==
    /\ r.pc = "answered" /\ r.kind = call[c].kind /\ r.leg = call[c].leg
    /\ r.tab = call[c].tab /\ r.refresh = call[c].refresh
    /\ r.overtaken = call[c].overtaken
    /\ r.answer = answer /\ r.set = set /\ r.clear = clear

LEMMA AnsweredFields ==
    ASSUME TypeOK, NEW c \in Calls, NEW answer \in {"ok", "refused", "error", "none"},
           NEW set \in Tokens \cup {Null}, NEW clear \in BOOLEAN
    PROVE  Answered(c, answer, set, clear) \in Call
           /\ IsAnswer(Answered(c, answer, set, clear), c, answer, set, clear)
BY DEF TypeOK, Answered, Call, IsAnswer

IsRequest(r, kind, leg, t, cookies) ==
    /\ r \in Call
    /\ r.pc = "sent" /\ r.kind = kind /\ r.leg = leg /\ r.tab = t
    /\ r.refresh \in {cookies.refresh, Null}
    /\ r.answer = "none" /\ r.set = Null /\ r.clear = FALSE

LEMMA SentFields ==
    ASSUME NEW kind \in {"me", "api", "login", "logout"}, NEW leg \in {"first", "renewal", "replay"},
           NEW t \in Tabs, NEW cookies \in Jar
    PROVE  IsRequest(Sent(kind, leg, t, cookies), kind, leg, t, cookies)
BY DEF IsRequest, Sent, Free, Call, Jar

\* A call that goes on as it was, but for being overtaken, or for the page it was of.
Same(d) ==
    /\ call'[d].pc = call[d].pc /\ call'[d].kind = call[d].kind /\ call'[d].leg = call[d].leg
    /\ call'[d].refresh = call[d].refresh /\ call'[d].answer = call[d].answer
    /\ call'[d].set = call[d].set /\ call'[d].clear = call[d].clear
    /\ call'[d].tab \in {call[d].tab, Null}
    /\ call[d].overtaken => call'[d].overtaken

\* The new heads of a step: fresh, and in the family of a head or in one of their own.
HeadsGrow ==
    /\ \A t \in Tokens : Issued(t) => familyOf'[t] = familyOf[t]
    /\ \A t \in Tokens : ~Issued(t) /\ familyOf'[t] # Null => t \in heads'
    /\ \A h \in heads' : h \in heads
                         \/ /\ h \in Tokens /\ ~Issued(h) /\ familyOf'[h] # Null
                            /\ \/ familyOf'[h] = h
                               \/ \E t \in heads : familyOf'[h] = familyOf[t]

\* What a step of call c does to the tokens it is about.
StepOf(c) ==
    /\ HeadsGrow
    /\ \A d \in Calls \ {c} : Same(d)
    /\ \/ call'[c].set \in {call[c].set, Null}
       \/ call'[c].set \in Tokens /\ ~Issued(call'[c].set) /\ familyOf'[call'[c].set] # Null
    /\ \/ jar'.refresh \in {jar.refresh, Null}
       \/ jar'.refresh = call[c].set /\ call'[c].set = Null
    /\ call'[c].refresh \in {call[c].refresh, jar'.refresh, Null}

LEMMA StillIssued ==
    ASSUME TypeOK, IssuedInv, HeadsGrow
    PROVE  /\ \A t \in Tokens : Issued(t) => Issued(t)'
           /\ \A t \in heads' : Issued(t)'
           /\ \A t \in Tokens : Issued(t)' => Issued(familyOf[t])'
BY DEF TypeOK, IssuedInv, HeadsGrow, Issued

\* A chain without a head stays without one.
LEMMA EmptyStaysEmpty ==
    ASSUME TypeOK, IssuedInv, HeadsGrow, NEW t \in Tokens, Issued(t), Family(t) = {}
    PROVE  Family(t)' = {}
<1>1. familyOf'[t] = familyOf[t] /\ Issued(familyOf[t]) /\ familyOf[t] \in Tokens
  BY NullAssumption DEF HeadsGrow, IssuedInv, Issued, TypeOK
<1>2. \A s \in heads : familyOf[s] # familyOf[t]
  BY DEF Family
<1>3. \A s \in heads' : familyOf'[s] # familyOf[t]
  <2> SUFFICES ASSUME NEW s \in heads' PROVE familyOf'[s] # familyOf[t]
    OBVIOUS
  <2>1. CASE s \in heads
    BY <2>1, <1>2 DEF HeadsGrow, IssuedInv, TypeOK
  <2>2. CASE s \notin heads
    BY <2>2, <1>1, <1>2 DEF HeadsGrow, Issued
  <2> QED BY <2>1, <2>2
<1> QED BY <1>1, <1>3 DEF Family

\* The part of the invariant about tokens follows from StepOf, that of the other calls from Same.
LEMMA TokensKept ==
    ASSUME TypeOK, IssuedInv, SetsApart, TypeOK', NEW c \in Calls, StepOf(c)
    PROVE  IssuedInv' /\ SetsApart'
<1>0. /\ \A d \in Calls : /\ call[d].refresh \in Tokens \cup {Null}
                          /\ call[d].set \in Tokens \cup {Null}
                          /\ call'[d].refresh \in Tokens \cup {Null}
                          /\ call'[d].set \in Tokens \cup {Null}
      /\ jar.refresh \in Tokens \cup {Null} /\ jar'.refresh \in Tokens \cup {Null}
  BY DEF TypeOK, Call, Jar
<1>1. /\ \A t \in Tokens : Issued(t) => Issued(t)'
      /\ \A t \in heads' : Issued(t)'
      /\ \A t \in Tokens : Issued(t)' => Issued(familyOf[t])'
  BY StillIssued DEF StepOf
<1>2. \A d \in Calls \ {c} : call'[d].refresh = call[d].refresh /\ call'[d].set = call[d].set
  BY DEF StepOf, Same
<1>3. IssuedInv'
  BY <1>0, <1>1, <1>2 DEF IssuedInv, StepOf, Issued
<1>4. SetsApart'
  <2> SUFFICES ASSUME NEW d \in Calls, call'[d].set # Null
               PROVE  /\ jar'.refresh # call'[d].set
                      /\ \A e \in Calls : call'[e].refresh # call'[d].set
                      /\ \A e \in Calls \ {d} : call'[e].set # call'[d].set
    BY DEF SetsApart
  <2>1. CASE call[d].set = call'[d].set
    <3>1. jar'.refresh # call'[d].set
      BY <2>1, <1>2 DEF SetsApart, StepOf
    <3>2. \A e \in Calls : call'[e].refresh # call'[d].set
      BY <2>1, <3>1, <1>2 DEF SetsApart, StepOf
    <3>3. \A e \in Calls \ {d} : call'[e].set # call'[d].set
      BY <2>1, <1>0, <1>2 DEF SetsApart, StepOf, IssuedInv, Issued
    <3> QED BY <3>1, <3>2, <3>3
  <2>2. CASE call[d].set # call'[d].set
    <3>1. d = c /\ call'[c].set \in Tokens /\ ~Issued(call'[c].set)
      BY <2>2, <1>2 DEF StepOf
    <3>2. jar'.refresh # call'[d].set
      BY <3>1, <1>0 DEF StepOf, IssuedInv, Issued
    <3>3. \A e \in Calls : call'[e].refresh # call'[d].set
      BY <3>1, <3>2, <1>0, <1>2 DEF StepOf, IssuedInv, Issued
    <3>4. \A e \in Calls \ {d} : call'[e].set # call'[d].set
      BY <3>1, <1>0, <1>2 DEF StepOf, IssuedInv, Issued
    <3> QED BY <3>2, <3>3, <3>4
  <2> QED BY <2>1, <2>2
<1> QED BY <1>3, <1>4

LEMMA OthersKept ==
    ASSUME TypeOK, IssuedInv, NEW c \in Calls, StepOf(c), NEW d \in Calls \ {c},
           ShapeInv(d), SignOutEnds(d)
    PROVE  ShapeInv(d)' /\ SignOutEnds(d)'
<1>1. Same(d)
  BY DEF StepOf
<1>2. ShapeInv(d)'
  BY <1>1 DEF Same, ShapeInv
<1>3. SignOutEnds(d)'
  <2> SUFFICES ASSUME call'[d].kind = "logout", call'[d].answer = "ok", call'[d].refresh # Null
               PROVE  call'[d].overtaken \/ Family(call[d].refresh)' = {}
    BY DEF SignOutEnds
  <2>1. call[d].overtaken \/ Family(call[d].refresh) = {}
    BY <1>1 DEF Same, SignOutEnds
  <2>2. call[d].refresh \in Tokens /\ Issued(call[d].refresh) /\ call'[d].refresh = call[d].refresh
    BY <1>1 DEF Same, IssuedInv, TypeOK, Call
  <2>3. CASE call[d].overtaken
    BY <2>3, <1>1 DEF Same
  <2>4. CASE Family(call[d].refresh) = {}
    <3> DEFINE t == call[d].refresh
    <3>1. \A s \in Tokens : Issued(s) /\ Family(s) = {} => Family(s)' = {}
      BY EmptyStaysEmpty DEF StepOf
    <3>2. t \in Tokens /\ Issued(t) /\ Family(t) = {} /\ t' = t
      BY <2>2, <2>4
    <3> QED BY <3>1, <3>2 DEF Family
  <2> QED BY <2>1, <2>3, <2>4
<1> QED BY <1>2, <1>3

LEMMA AnswerKeeps ==
    ASSUME TypeOK, NEW c \in Calls, NEW answer \in {"ok", "refused", "error", "none"},
           NEW set \in Tokens \cup {Null}, NEW clear \in BOOLEAN, Answer(c, answer, set, clear)
    PROVE  /\ call' \in [Calls -> Call]
           /\ IsAnswer(call'[c], c, answer, set, clear)
           /\ \A d \in Calls \ {c} : call'[d] = call[d] /\ Same(d)
           /\ \A d \in Calls : call'[d].tab = call[d].tab /\ call'[d].kind = call[d].kind
<1>1. Answered(c, answer, set, clear) \in Call
  BY AnsweredFields
<1>2. /\ call' \in [Calls -> Call]
      /\ call'[c] = Answered(c, answer, set, clear)
      /\ \A d \in Calls \ {c} : call'[d] = call[d]
  BY <1>1 DEF TypeOK, Answer
<1>3. \A d \in Calls \ {c} : Same(d)
  BY <1>2 DEF Same
<1>4. IsAnswer(call'[c], c, answer, set, clear)
  BY <1>2, AnsweredFields
<1>5. \A d \in Calls : call'[d].tab = call[d].tab /\ call'[d].kind = call[d].kind
  BY <1>2, <1>4 DEF IsAnswer
<1> QED BY <1>2, <1>3, <1>4, <1>5

LEMMA OvertakenFields ==
    ASSUME TypeOK, NEW t
    PROVE  /\ Overtaken(t) \in [Calls -> Call]
           /\ \A d \in Calls : LET r == Overtaken(t)[d] IN
                /\ r.pc = call[d].pc /\ r.kind = call[d].kind /\ r.leg = call[d].leg
                /\ r.refresh = call[d].refresh /\ r.answer = call[d].answer
                /\ r.set = call[d].set /\ r.clear = call[d].clear /\ r.tab = call[d].tab
                /\ call[d].overtaken => r.overtaken
<1> SUFFICES ASSUME NEW d \in Calls
             PROVE  LET r == Overtaken(t)[d] IN
                /\ r \in Call
                /\ r.pc = call[d].pc /\ r.kind = call[d].kind /\ r.leg = call[d].leg
                /\ r.refresh = call[d].refresh /\ r.answer = call[d].answer
                /\ r.set = call[d].set /\ r.clear = call[d].clear /\ r.tab = call[d].tab
                /\ call[d].overtaken => r.overtaken
  BY DEF Overtaken
<1>1. CASE Overtaken(t)[d] = call[d]
  BY <1>1 DEF TypeOK
<1>2. CASE Overtaken(t)[d] = [call[d] EXCEPT !.overtaken = TRUE]
  <2>1. \A x \in BOOLEAN :
           LET r == [call[d] EXCEPT !.overtaken = x] IN
           /\ r \in Call
           /\ r.pc = call[d].pc /\ r.kind = call[d].kind /\ r.leg = call[d].leg
           /\ r.refresh = call[d].refresh /\ r.answer = call[d].answer
           /\ r.set = call[d].set /\ r.clear = call[d].clear /\ r.tab = call[d].tab
           /\ r.overtaken = x
    BY DEF TypeOK, Call
  <2>2. Overtaken(t)[d].overtaken = TRUE
    BY <1>2, <2>1, TRUE \in BOOLEAN, Zenon
  <2> QED BY <1>2, <2>1, <2>2, TRUE \in BOOLEAN, Zenon
<1> QED BY <1>1, <1>2 DEF Overtaken

LEMMA WaitsAsBefore ==
    ASSUME LoadingIsServed, tab' = tab,
           \A d \in Calls : call'[d].tab = call[d].tab /\ call'[d].kind = call[d].kind
    PROVE  LoadingIsServed'
BY DEF LoadingIsServed, Pending

\* What a step of call c owes to the invariant.
Kept(c) ==
    /\ TypeOK' /\ StepOf(c)
    /\ ShapeInv(c)' /\ SignOutEnds(c)' /\ LoadingIsServed' /\ CalmInv'

LEMMA KeptIsEnough ==
    ASSUME IInv, NEW c \in Calls, Kept(c)
    PROVE  IInv'
<1>1. IssuedInv' /\ SetsApart'
  BY TokensKept DEF IInv, Kept
<1>2. \A d \in Calls \ {c} : ShapeInv(d)' /\ SignOutEnds(d)'
  BY OthersKept DEF IInv, Kept
<1>3. \A d \in Calls : ShapeInv(d)' /\ SignOutEnds(d)'
  BY <1>2 DEF Kept
<1> QED BY <1>1, <1>3 DEF IInv, Kept

\* An answer that sets no cookie, from a handler that opened no chain.
LEMMA ReplyKept ==
    ASSUME IInv, TypeOK', NEW c \in Calls, NEW answer \in {"ok", "refused", "error"},
           NEW clear \in BOOLEAN, Answer(c, answer, Null, clear),
           heads' \subseteq heads, UNCHANGED <<familyOf, jar, tab>>,
           SignOutEnds(c)', CalmInv'
    PROVE  Kept(c)
<1>1. /\ IsAnswer(call'[c], c, answer, Null, clear)
      /\ \A d \in Calls \ {c} : call'[d] = call[d] /\ Same(d)
      /\ \A d \in Calls : call'[d].tab = call[d].tab /\ call'[d].kind = call[d].kind
  BY AnswerKeeps DEF IInv
<1>2. /\ call'[c].pc = "answered" /\ call'[c].kind = call[c].kind /\ call'[c].leg = call[c].leg
      /\ call'[c].refresh = call[c].refresh /\ call'[c].set = Null
  BY <1>1 DEF IsAnswer
<1>3. StepOf(c)
  BY <1>1, <1>2 DEF StepOf, HeadsGrow, IInv, Issued
<1>4. ShapeInv(c)'
  BY <1>2 DEF IInv, ShapeInv
<1>5. LoadingIsServed'
  BY <1>1, WaitsAsBefore DEF IInv
<1> QED BY <1>3, <1>4, <1>5 DEF Kept

\* Such an answer, from a handler that changed nothing and that leaves the cookies alone.
LEMMA PlainAnswer ==
    ASSUME IInv, NEW c \in Calls, NEW answer \in {"ok", "refused"},
           call[c].pc = "sent", call[c].kind # "logout" \/ answer = "refused",
           Answer(c, answer, Null, FALSE), UNCHANGED <<server, jar, tab, calm>>
    PROVE  Kept(c)
<1> USE DEF server
<1>1. /\ call' \in [Calls -> Call]
      /\ IsAnswer(call'[c], c, answer, Null, FALSE)
      /\ \A d \in Calls \ {c} : call'[d] = call[d]
  BY AnswerKeeps DEF IInv
<1>2. /\ call'[c].pc = "answered" /\ call'[c].kind = call[c].kind
      /\ call'[c].answer = answer /\ call'[c].set = Null /\ call'[c].clear = FALSE
  BY <1>1 DEF IsAnswer
<1>3. TypeOK'
  BY <1>1 DEF IInv, TypeOK
<1>4. SignOutEnds(c)'
  BY <1>2 DEF SignOutEnds
<1>5. CalmInv'
  <2> SUFFICES ASSUME calm PROVE CalmInv'
    BY DEF CalmInv
  <2>1. \A d \in Calls : CalmCall(d)'
    BY <1>1, <1>2 DEF IInv, CalmInv, CalmCall, Known
  <2>2. SessionHeld => SessionHeld'
    BY <1>1 DEF SessionHeld
  <2> QED BY <2>1, <2>2 DEF IInv, CalmInv, Known
<1>6. FALSE \in BOOLEAN /\ answer \in {"ok", "refused", "error"} /\ heads' \subseteq heads
  OBVIOUS
<1> QED BY <1>3, <1>4, <1>5, <1>6, ReplyKept, Zenon

LEMMA GuardKept == ASSUME IInv, NEW c \in Calls, Guard(c) PROVE Kept(c)
BY PlainAnswer DEF Guard

LEMMA RacedKept == ASSUME IInv, NEW c \in Calls, Raced(c) PROVE Kept(c)
BY PlainAnswer DEF Raced

\* A renewal: the chain's head is spent, its successor is on its way.
LEMMA RotateKept == ASSUME IInv, NEW c \in Calls, Rotate(c) PROVE Kept(c)
<1> DEFINE t == call[c].refresh
<1>0. PICK s \in Tokens : /\ Chain!Renew(t, s)
                          /\ call' = [Overtaken(t) EXCEPT ![c] = Answered(c, "ok", s, FALSE)]
  BY DEF Rotate
<1>1. /\ call[c].pc = "sent" /\ call[c].leg = "renewal" /\ t \in Tokens /\ t \in heads
      /\ t \notin lapsed /\ recent' = recent \cup {t} /\ UNCHANGED <<lapsed, jar, tab, calm>>
      /\ TypeOK /\ call[c].kind \in {"me", "api"}
  BY DEF Rotate, IInv, TypeOK, ShapeInv
<1>2. /\ ~Issued(s) /\ heads' = (heads \ {t}) \cup {s}
      /\ familyOf' = [familyOf EXCEPT ![s] = familyOf[t]]
  BY <1>0 DEF Chain!Renew, Issued
<1>3. /\ Answered(c, "ok", s, FALSE) \in Call
      /\ IsAnswer(Answered(c, "ok", s, FALSE), c, "ok", s, FALSE)
  BY <1>1, AnsweredFields, Zenon
<1>4. /\ call' \in [Calls -> Call] /\ call'[c] = Answered(c, "ok", s, FALSE)
      /\ \A d \in Calls \ {c} : call'[d] = Overtaken(t)[d]
  BY <1>0, <1>1, <1>3, OvertakenFields
<1>5. \A d \in Calls \ {c} : Same(d) /\ call'[d].tab = call[d].tab
  BY <1>1, <1>4, OvertakenFields DEF Same
<1>6. /\ call'[c].pc = "answered" /\ call'[c].kind = call[c].kind /\ call'[c].leg = call[c].leg
      /\ call'[c].tab = call[c].tab /\ call'[c].refresh = t /\ call'[c].set = s
      /\ call'[c].clear = FALSE
  BY <1>3, <1>4 DEF IsAnswer
<1> HIDE DEF t
<1>7. TypeOK'
  BY <1>1, <1>2, <1>4 DEF TypeOK
<1>8. StepOf(c)
  <2>1. Issued(t)
    BY <1>1 DEF IInv, IssuedInv
  <2>2. HeadsGrow
    BY <1>1, <1>2, <2>1 DEF HeadsGrow, TypeOK, Issued
  <2> QED BY <1>1, <1>2, <1>5, <1>6, <2>1, <2>2 DEF StepOf, TypeOK, Issued, t
<1>9. ShapeInv(c)'
  BY <1>1, <1>6 DEF ShapeInv
<1>10. SignOutEnds(c)'
  BY <1>1, <1>6 DEF SignOutEnds
<1>11. LoadingIsServed'
  BY <1>1, <1>5, <1>6, WaitsAsBefore DEF IInv, Same
<1>12. CalmInv'
  <2> SUFFICES ASSUME calm PROVE CalmInv'
    BY <1>1 DEF CalmInv
  <2>1. \A u : Known(u) => Known(u)'
    BY <1>1, <1>2 DEF Known
  <2>2. \A d \in Calls \ {c} : CalmCall(d)'
    <3> SUFFICES ASSUME NEW d \in Calls \ {c} PROVE CalmCall(d)'
      OBVIOUS
    <3>1. CalmCall(d) /\ call'[d].pc = call[d].pc /\ call'[d].refresh = call[d].refresh
          /\ call'[d].set = call[d].set /\ call'[d].clear = call[d].clear
      BY <1>5 DEF IInv, CalmInv, Same
    <3>2. call[d].set # Null => call[d].set # t
      BY DEF IInv, SetsApart, t
    <3> QED BY <1>2, <2>1, <3>1, <3>2 DEF CalmCall, Known
  <2>3. CalmCall(c)'
    BY <1>2, <1>6 DEF CalmCall
  <2>4. SessionHeld'
    BY <1>2, <1>6 DEF SessionHeld
  <2> QED BY <1>1, <2>1, <2>2, <2>3, <2>4 DEF IInv, CalmInv, Known
<1> QED BY <1>7, <1>8, <1>9, <1>10, <1>11, <1>12 DEF Kept

LEMMA RevokeKeeps ==
    ASSUME TypeOK, NEW ended \in SUBSET heads, Revoke(ended)
    PROVE  /\ heads' = heads \ ended /\ familyOf' = familyOf
           /\ recent' \in SUBSET Tokens /\ lapsed' \in SUBSET heads'
BY DEF TypeOK, Revoke, Chain!End

\* A refusal that clears the cookies is of a session that was over, or of a reuse.
LEMMA TerminalKept == ASSUME IInv, NEW c \in Calls, Terminal(c) PROVE Kept(c)
<1> DEFINE t == call[c].refresh
<1>1. /\ call[c].pc = "sent" /\ t \in Tokens /\ TypeOK /\ UNCHANGED <<jar, tab, calm>>
      /\ Answer(c, "refused", Null, TRUE)
  BY DEF Terminal, IInv, TypeOK, Call
<1>2. /\ heads' \subseteq heads /\ familyOf' = familyOf
      /\ recent' \in SUBSET Tokens /\ lapsed' \in SUBSET heads'
  <2>1. CASE UNCHANGED server
    BY <2>1, <1>1 DEF server, TypeOK
  <2>2. CASE Revoke(Family(t))
    BY <2>2, <1>1, RevokeKeeps DEF Family
  <2> QED BY <2>1, <2>2 DEF Terminal
<1>3. TRUE \in BOOLEAN
  OBVIOUS
<1>4. /\ call' \in [Calls -> Call]
      /\ IsAnswer(call'[c], c, "refused", Null, TRUE)
  BY <1>1, <1>3, AnswerKeeps, Zenon
<1>5. TypeOK'
  BY <1>1, <1>2, <1>4 DEF TypeOK
<1>6. SignOutEnds(c)'
  BY <1>4 DEF SignOutEnds, IsAnswer
<1>7. CalmInv'
  <2>1. t \in lapsed \/ ~Known(t)
    BY DEF Terminal, Known
  <2>2. ~calm
    BY NullAssumption, <1>1, <2>1 DEF IInv, CalmInv, CalmCall
  <2> QED BY <1>1, <2>2 DEF CalmInv
<1> QED BY <1>1, <1>2, <1>3, <1>5, <1>6, <1>7, ReplyKept, Zenon

\* A handler that moves on without answering yet, and gives back no session.
LEMMA PcKept ==
    ASSUME IInv, NEW c \in Calls, NEW pc \in {"purged", "revoking"},
           call[c].pc = "sent", pc = "purged" => call[c].kind = "login",
           call' = [call EXCEPT ![c].pc = pc],
           heads' \subseteq heads, UNCHANGED <<familyOf, jar, tab, calm>>,
           recent' \in SUBSET Tokens, lapsed' \in SUBSET heads',
           calm => heads' = heads /\ recent' = recent /\ lapsed' = {}
    PROVE  Kept(c)
<1>1. /\ call' \in [Calls -> Call]
      /\ \A d \in Calls : /\ call'[d].kind = call[d].kind /\ call'[d].leg = call[d].leg
                          /\ call'[d].tab = call[d].tab /\ call'[d].refresh = call[d].refresh
                          /\ call'[d].answer = call[d].answer /\ call'[d].set = call[d].set
                          /\ call'[d].clear = call[d].clear
      /\ \A d \in Calls \ {c} : call'[d] = call[d]
      /\ call'[c].pc = pc
  BY DEF IInv, TypeOK, Call
<1>2. TypeOK'
  BY <1>1 DEF IInv, TypeOK
<1>3. StepOf(c)
  BY <1>1 DEF StepOf, HeadsGrow, Same, Issued
<1>4. ShapeInv(c)'
  BY <1>1 DEF IInv, ShapeInv
<1>5. SignOutEnds(c)'
  BY <1>1 DEF SignOutEnds, IInv, ShapeInv
<1>6. LoadingIsServed'
  BY <1>1, WaitsAsBefore DEF IInv
<1>7. CalmInv'
  <2> SUFFICES ASSUME calm PROVE CalmInv'
    BY DEF CalmInv
  <2>1. \A d \in Calls : CalmCall(d)'
    BY <1>1 DEF IInv, CalmInv, CalmCall, Known
  <2>2. SessionHeld => SessionHeld'
    BY <1>1 DEF SessionHeld
  <2> QED BY <2>1, <2>2 DEF IInv, CalmInv, Known
<1> QED BY <1>2, <1>3, <1>4, <1>5, <1>6, <1>7 DEF Kept

LEMMA LogoutBeginsKept == ASSUME IInv, NEW c \in Calls, LogoutBegins(c) PROVE Kept(c)
BY PcKept DEF LogoutBegins, server, IInv, TypeOK, CalmInv

LEMMA LoginKept == ASSUME IInv, NEW c \in Calls, Login(c) PROVE Kept(c)
<1>1. CASE Answer(c, "refused", Null, FALSE) /\ UNCHANGED server
  BY <1>1, PlainAnswer DEF Login
<1>2. ASSUME NEW gone \in SUBSET lapsed,
             LET rows == {t \in Tokens : \E g \in gone : familyOf[t] = familyOf[g]} IN
             /\ IF gone = {} THEN UNCHANGED <<heads, familyOf>> ELSE Chain!End(gone)
             /\ recent' = recent \ rows
             /\ lapsed' = lapsed \ gone
             /\ call' = [call EXCEPT ![c].pc = "purged"]
      PROVE  Kept(c)
  <2>1. /\ heads' = heads \ gone /\ familyOf' = familyOf
        /\ recent' \in SUBSET Tokens /\ lapsed' \in SUBSET heads'
    BY <1>2 DEF Chain!End, IInv, TypeOK
  <2>2. calm => heads' = heads /\ recent' = recent /\ lapsed' = {}
    BY <1>2, <2>1 DEF IInv, CalmInv
  <2> QED BY <1>2, <2>1, <2>2, PcKept DEF Login
<1> QED BY <1>1, <1>2 DEF Login

\* The end of a revocation: nothing is left of the family, unless a renewal overtook it.
LEMMA LogoutKept == ASSUME IInv, NEW c \in Calls, Logout(c) PROVE Kept(c)
<1> DEFINE t == call[c].refresh
<1>1. /\ t \in Tokens \cup {Null} /\ TypeOK /\ UNCHANGED <<jar, tab>> /\ calm' = FALSE
      /\ Answer(c, "ok", Null, TRUE)
  BY DEF Logout, IInv, TypeOK, Call
<1>2. /\ heads' \subseteq heads /\ familyOf' = familyOf
      /\ recent' \in SUBSET Tokens /\ lapsed' \in SUBSET heads'
      /\ t # Null => call[c].overtaken \/ heads' = heads \ Family(t)
  <2>1. CASE t = Null /\ UNCHANGED server
    BY <2>1, <1>1 DEF server, TypeOK
  <2>2. CASE Revoke({}) /\ call[c].overtaken
    BY <2>2, <1>1, RevokeKeeps
  <2>3. CASE Revoke(Family(t))
    BY <2>3, <1>1, RevokeKeeps DEF Family
  <2> QED BY <2>1, <2>2, <2>3 DEF Logout
<1>3. TRUE \in BOOLEAN
  OBVIOUS
<1>4. /\ call' \in [Calls -> Call]
      /\ IsAnswer(call'[c], c, "ok", Null, TRUE)
  BY <1>1, <1>3, AnswerKeeps, Zenon
<1>5. TypeOK'
  BY <1>1, <1>2, <1>4 DEF TypeOK
<1>6. SignOutEnds(c)'
  <2>1. call'[c].refresh = t /\ call'[c].overtaken = call[c].overtaken
    BY <1>4 DEF IsAnswer
  <2> HIDE DEF t
  <2>2. heads' = heads \ Family(t) => {s \in heads' : familyOf'[s] = familyOf'[t]} = {}
    BY <1>2 DEF Family
  <2> QED BY <1>2, <2>1, <2>2 DEF SignOutEnds, Family
<1>7. CalmInv'
  BY <1>1 DEF CalmInv
<1> QED BY <1>1, <1>2, <1>3, <1>5, <1>6, <1>7, ReplyKept, Zenon

\* The first token of a chain.
LEMMA IssueKept == ASSUME IInv, NEW c \in Calls, Issue(c) PROVE Kept(c)
<1>0. PICK s \in Tokens : Chain!Open(s) /\ Answer(c, "ok", s, FALSE)
  BY DEF Issue
<1>1. /\ call[c].pc = "purged" /\ call[c].kind = "login" /\ call[c].leg = "first" /\ TypeOK
      /\ UNCHANGED <<recent, lapsed, jar, tab, calm>>
  BY DEF Issue, IInv, ShapeInv, TypeOK, Call
<1>2. ~Issued(s) /\ heads' = heads \cup {s} /\ familyOf' = [familyOf EXCEPT ![s] = s]
  BY <1>0 DEF Chain!Open, Issued
<1>3. FALSE \in BOOLEAN
  OBVIOUS
<1>4. /\ call' \in [Calls -> Call]
      /\ IsAnswer(call'[c], c, "ok", s, FALSE)
      /\ \A d \in Calls \ {c} : call'[d] = call[d] /\ Same(d)
      /\ \A d \in Calls : call'[d].tab = call[d].tab /\ call'[d].kind = call[d].kind
  BY <1>0, <1>1, <1>3, AnswerKeeps, Zenon
<1>5. /\ call'[c].pc = "answered" /\ call'[c].kind = "login" /\ call'[c].leg = "first"
      /\ call'[c].refresh = call[c].refresh /\ call'[c].set = s /\ call'[c].clear = FALSE
  BY <1>1, <1>4 DEF IsAnswer
<1>6. TypeOK'
  BY <1>1, <1>2, <1>4 DEF TypeOK
<1>7. StepOf(c)
  <2>1. HeadsGrow
    BY <1>1, <1>2, NullAssumption DEF HeadsGrow, TypeOK, Issued
  <2> QED BY <1>1, <1>2, <1>4, <1>5, <2>1, NullAssumption DEF StepOf, TypeOK, Issued
<1>8. ShapeInv(c)' /\ SignOutEnds(c)'
  BY <1>5 DEF ShapeInv, SignOutEnds
<1>9. LoadingIsServed'
  BY <1>1, <1>4, WaitsAsBefore DEF IInv
<1>10. CalmInv'
  <2> SUFFICES ASSUME calm PROVE CalmInv'
    BY <1>1 DEF CalmInv
  <2>1. \A d \in Calls : CalmCall(d)'
    BY <1>1, <1>2, <1>4, <1>5 DEF IInv, CalmInv, CalmCall, Known
  <2>2. SessionHeld'
    BY <1>2, <1>5 DEF SessionHeld
  <2> QED BY <1>1, <1>2, <2>1, <2>2 DEF IInv, CalmInv, Known
<1> QED BY <1>6, <1>7, <1>8, <1>9, <1>10 DEF Kept

LEMMA BreakKept == ASSUME IInv, NEW c \in Calls, Break(c) PROVE Kept(c)
<1>1. /\ TypeOK /\ UNCHANGED <<server, jar, tab>> /\ calm' = FALSE
      /\ Answer(c, "error", Null, FALSE)
  BY DEF Break, IInv
<1>2. FALSE \in BOOLEAN
  OBVIOUS
<1>3. call' \in [Calls -> Call] /\ IsAnswer(call'[c], c, "error", Null, FALSE)
  BY <1>1, <1>2, AnswerKeeps, Zenon
<1>4. TypeOK' /\ heads' \subseteq heads /\ familyOf' = familyOf
  BY <1>1, <1>3 DEF TypeOK, server
<1>5. SignOutEnds(c)' /\ CalmInv'
  BY <1>1, <1>3 DEF SignOutEnds, IsAnswer, CalmInv
<1> QED BY <1>1, <1>2, <1>4, <1>5, ReplyKept, Zenon

-----------------------------------------------------------------------------
(* The browser. *)

\* What is left of a call once its answer arrived: a fresh request, or nothing.
LEMMA ArriveKept ==
    ASSUME IInv, NEW c \in Calls, call[c].pc = "answered", jar' = JarAfter(c),
           NEW r \in Call, call' = [call EXCEPT ![c] = r],
           r.pc \in {"sent", "free"}, r.pc = "free" => r.tab = Null,
           r.leg # "first" => r.kind \in {"me", "api"},
           r.refresh \in {jar'.refresh, Null},
           r.answer = "none" /\ r.set = Null /\ r.clear = FALSE,
           tab' \in [Tabs -> Tab], LoadingIsServed', UNCHANGED <<server, calm>>
    PROVE  Kept(c)
<1> USE DEF server
<1>1. /\ call' \in [Calls -> Call] /\ call'[c] = r
      /\ \A d \in Calls \ {c} : call'[d] = call[d]
  BY DEF IInv, TypeOK
<1>2. /\ jar' \in Jar /\ call[c].set \in Tokens \cup {Null} /\ call[c].clear \in BOOLEAN
      /\ \/ jar'.refresh = Null /\ call[c].clear = TRUE
         \/ jar'.refresh = call[c].set /\ call[c].set # Null
         \/ jar'.refresh = jar.refresh /\ call[c].set = Null
  <2>1. jar \in Jar /\ call[c].set \in Tokens \cup {Null} /\ call[c].clear \in BOOLEAN
    BY DEF IInv, TypeOK, Call
  <2>2. CASE call[c].clear = TRUE
    BY <2>1, <2>2 DEF JarAfter, NoCookies, Jar
  <2>3. CASE call[c].clear = FALSE /\ call[c].set # Null
    BY <2>1, <2>3 DEF JarAfter, Jar
  <2>4. CASE call[c].clear = FALSE /\ call[c].set = Null
    BY <2>1, <2>4 DEF JarAfter, Jar
  <2> QED BY <2>1, <2>2, <2>3, <2>4
<1>3. TypeOK'
  BY <1>1, <1>2 DEF IInv, TypeOK
<1>4. StepOf(c)
  BY <1>1, <1>2 DEF StepOf, HeadsGrow, Same, Issued
<1>5. ShapeInv(c)' /\ SignOutEnds(c)'
  BY <1>1 DEF ShapeInv, SignOutEnds
<1>6. CalmInv'
  <2> SUFFICES ASSUME calm PROVE CalmInv'
    BY DEF CalmInv
  <2>1. /\ lapsed' = {} /\ calm
        /\ call[c].clear = FALSE /\ (call[c].set # Null => call[c].set \in heads)
    BY DEF IInv, CalmInv, CalmCall
  <2>2. jar'.refresh # Null => Known(jar'.refresh)
    BY <1>2, <2>1 DEF IInv, CalmInv, Known
  <2>3. \A d \in Calls : CalmCall(d)'
    BY <1>1, <2>1, <2>2 DEF IInv, CalmInv, CalmCall, Known
  <2>4. jar'.refresh # Null \/ heads # {} => SessionHeld'
    <3>1. CASE jar'.refresh = call[c].set /\ call[c].set # Null
      BY <2>1, <3>1 DEF SessionHeld
    <3>2. CASE jar'.refresh = jar.refresh /\ call[c].set = Null
      <4> SUFFICES ASSUME SessionHeld PROVE SessionHeld'
        BY <3>2, <2>1 DEF IInv, CalmInv
      <4>1. CASE jar.refresh \in heads
        BY <4>1, <3>2 DEF SessionHeld
      <4>2. ASSUME NEW d \in Calls, call[d].pc = "answered", call[d].set \in heads
            PROVE  SessionHeld'
        <5>1. d # c
          BY <3>2, <4>2, NullAssumption DEF IInv, TypeOK
        <5> QED BY <1>1, <4>2, <5>1 DEF SessionHeld
      <4> QED BY <4>1, <4>2 DEF SessionHeld
    <3> QED BY <1>2, <2>1, <3>1, <3>2
  <2> QED BY <2>1, <2>2, <2>3, <2>4 DEF CalmInv, Known
<1> QED BY <1>3, <1>4, <1>5, <1>6 DEF Kept

LEMMA ContinueKept == ASSUME IInv, NEW c \in Calls, Continue(c) PROVE Kept(c)
<1> DEFINE kind == call[c].kind
           leg == IF Renews(c) THEN "renewal" ELSE "replay"
           r == Sent(kind, leg, call[c].tab, jar')
<1>1. /\ call[c].pc = "answered" /\ call[c].tab \in Tabs /\ kind \in {"me", "api"}
      /\ leg \in {"renewal", "replay"}
      /\ jar' = JarAfter(c) /\ call' = [call EXCEPT ![c] = r]
      /\ UNCHANGED <<server, tab, calm>>
  BY DEF Continue, Renews, Replays, IInv, ShapeInv, TypeOK, Call
<1>2. jar' \in Jar
  BY <1>1 DEF JarAfter, NoCookies, Jar, IInv, TypeOK, Call
<1> HIDE DEF kind, leg, r
<1>3. /\ kind \in {"me", "api", "login", "logout"}
      /\ leg \in {"first", "renewal", "replay"} /\ call[c].tab \in Tabs
  BY <1>1
<1>4. IsRequest(r, kind, leg, call[c].tab, jar')
  BY <1>3, <1>2, SentFields, Zenon DEF r
<1>5. /\ r \in Call
      /\ r.pc = "sent" /\ r.kind = kind /\ r.leg = leg /\ r.tab = call[c].tab
      /\ r.refresh \in {jar'.refresh, Null}
      /\ r.answer = "none" /\ r.set = Null /\ r.clear = FALSE
  BY <1>4 DEF IsRequest
<1>6. /\ \A d \in Calls : call'[d].tab = call[d].tab /\ call'[d].kind = call[d].kind
      /\ tab' \in [Tabs -> Tab]
  BY <1>1, <1>5 DEF IInv, TypeOK, kind
<1>7. LoadingIsServed'
  BY <1>1, <1>6, WaitsAsBefore DEF IInv
<1> QED BY <1>1, <1>5, <1>6, <1>7, ArriveKept

\* A call that ends releases its tab: what it decides is no wait.
LEMMA EndOfCall ==
    ASSUME IInv, NEW c \in Calls, call' = [call EXCEPT ![c] = Free],
           \/ call[c].tab = Null /\ tab' = tab
           \/ call[c].tab # Null /\ tab' = AfterSuccess(call[c].tab, call[c].kind)
           \/ call[c].tab # Null /\ tab' = AfterFailure(call[c].tab, call[c].kind)
    PROVE  tab' \in [Tabs -> Tab] /\ LoadingIsServed'
<1> DEFINE u == call[c].tab
           k == call[c].kind
<1>1. /\ u \in Tabs \cup {Null} /\ k \in {"me", "api", "login", "logout", "none"}
      /\ tab \in [Tabs -> Tab] /\ call \in [Calls -> Call]
      /\ call'[c].tab = Null
      /\ \A d \in Calls \ {c} : call'[d] = call[d]
  BY FreeFields DEF IInv, TypeOK, Call
<1>2. /\ tab' \in [Tabs -> Tab]
      /\ \A t \in Tabs : tab'[t].status = "loading" =>
            tab[t].status = "loading" /\ ~(t = u /\ k = "me")
  <2>1. CASE u = Null /\ tab' = tab
    BY <1>1, <2>1, NullAssumption
  <2>2. CASE u # Null /\ tab' = AfterFailure(u, k)
    BY <1>1, <2>2 DEF AfterFailure, Tab
  <2>3. CASE u # Null /\ tab' = AfterSuccess(u, k)
    BY <1>1, <2>3 DEF AfterSuccess, AfterFailure, Tab
  <2> QED BY <2>1, <2>2, <2>3
<1>3. ASSUME NEW t \in Tabs, tab'[t].status = "loading" PROVE Pending(t, "me")'
  <2>1. PICK d \in Calls : call[d].tab = t /\ call[d].kind = "me"
    BY <1>2, <1>3 DEF IInv, LoadingIsServed, Pending
  <2>2. d # c
    BY <1>2, <1>3, <2>1
  <2> QED BY <1>1, <2>1, <2>2 DEF Pending
<1> QED BY <1>2, <1>3 DEF LoadingIsServed

LEMMA SettleKept == ASSUME IInv, NEW c \in Calls, Settle(c) PROVE Kept(c)
<1>1. tab' \in [Tabs -> Tab] /\ LoadingIsServed'
  BY EndOfCall DEF Settle
<1> QED BY <1>1, FreeFields, ArriveKept DEF Settle

LEMMA LoseKept == ASSUME IInv, NEW c \in Calls, Lose(c) PROVE Kept(c)
<1>1. tab' \in [Tabs -> Tab] /\ LoadingIsServed'
  BY EndOfCall DEF Lose
<1>2. /\ call' \in [Calls -> Call] /\ call'[c] = Free
      /\ \A d \in Calls \ {c} : call'[d] = call[d]
      /\ UNCHANGED <<heads, familyOf, recent, lapsed, jar>> /\ calm' = FALSE
  BY FreeFields DEF Lose, IInv, TypeOK, server
<1>3. TypeOK'
  BY <1>1, <1>2 DEF IInv, TypeOK
<1>4. StepOf(c)
  BY <1>2, FreeFields DEF StepOf, HeadsGrow, Same, Issued
<1>5. ShapeInv(c)' /\ SignOutEnds(c)' /\ CalmInv'
  BY <1>2, FreeFields DEF ShapeInv, SignOutEnds, CalmInv
<1> QED BY <1>1, <1>3, <1>4, <1>5 DEF Kept

\* A request that leaves with the cookies of the jar.
LEMMA SendKept ==
    ASSUME IInv, NEW c \in Calls, call[c].pc = "free", NEW t \in Tabs,
           NEW kind \in {"me", "api", "login", "logout"},
           call' \in [Calls -> Call], call'[c] = Sent(kind, "first", t, jar),
           \A d \in Calls \ {c} : Same(d),
           tab' \in [Tabs -> Tab], LoadingIsServed', UNCHANGED <<server, jar, calm>>
    PROVE  Kept(c)
<1> USE DEF server
<1>1. /\ call'[c].pc = "sent" /\ call'[c].leg = "first" /\ call'[c].refresh \in {jar.refresh, Null}
      /\ call'[c].answer = "none" /\ call'[c].set = Null /\ call'[c].clear = FALSE
  <2>1. "first" \in {"first", "renewal", "replay"} /\ jar \in Jar
    BY DEF IInv, TypeOK
  <2>2. IsRequest(call'[c], kind, "first", t, jar)
    BY <2>1, SentFields, Zenon
  <2> QED BY <2>2 DEF IsRequest
<1>2. TypeOK'
  BY DEF IInv, TypeOK
<1>3. StepOf(c)
  BY <1>1 DEF StepOf, HeadsGrow, Issued
<1>4. ShapeInv(c)' /\ SignOutEnds(c)'
  BY <1>1 DEF ShapeInv, SignOutEnds
<1>5. CalmInv'
  <2> SUFFICES ASSUME calm PROVE CalmInv'
    BY DEF CalmInv
  <2>1. CalmCall(c)'
    BY <1>1 DEF IInv, CalmInv, CalmCall, Known
  <2>2. \A d \in Calls \ {c} : CalmCall(d)'
    BY DEF IInv, CalmInv, CalmCall, Known, Same
  <2>3. SessionHeld => SessionHeld'
    BY DEF SessionHeld, Same
  <2> QED BY <2>1, <2>2, <2>3 DEF IInv, CalmInv, Known
<1> QED BY <1>2, <1>3, <1>4, <1>5 DEF Kept

LEMMA SubmitKept ==
    ASSUME IInv, NEW c \in Calls, call[c].pc = "free", NEW t \in Tabs,
           NEW kind \in {"api", "login", "logout"}, Send(c, kind, t),
           UNCHANGED <<server, jar, tab, calm>>
    PROVE  Kept(c)
<1>1. Sent(kind, "first", t, jar) \in Call /\ call \in [Calls -> Call] /\ tab \in [Tabs -> Tab]
  <2>1. /\ "first" \in {"first", "renewal", "replay"} /\ jar \in Jar
        /\ kind \in {"me", "api", "login", "logout"}
        /\ call \in [Calls -> Call] /\ tab \in [Tabs -> Tab]
    BY DEF IInv, TypeOK
  <2>2. IsRequest(Sent(kind, "first", t, jar), kind, "first", t, jar)
    BY <2>1, SentFields, Zenon
  <2> QED BY <2>1, <2>2 DEF IsRequest
<1>2. /\ call' \in [Calls -> Call] /\ call'[c] = Sent(kind, "first", t, jar)
      /\ \A d \in Calls \ {c} : call'[d] = call[d]
  BY <1>1 DEF Send
<1>3. \A d \in Calls \ {c} : Same(d)
  BY <1>2 DEF Same
<1>4. LoadingIsServed'
  <2> SUFFICES ASSUME NEW u \in Tabs, tab[u].status = "loading" PROVE Pending(u, "me")'
    BY DEF LoadingIsServed
  <2>1. PICK d \in Calls : call[d].tab = u /\ call[d].kind = "me"
    BY DEF IInv, LoadingIsServed, Pending
  <2>2. d # c
    BY <2>1, NullAssumption DEF IInv, ShapeInv
  <2> QED BY <1>2, <2>1, <2>2 DEF Pending
<1> QED BY <1>1, <1>2, <1>3, <1>4, SendKept

LEMMA MountKept == ASSUME IInv, NEW t \in Tabs, NEW c \in Calls, Mount(t, c) PROVE Kept(c)
<1> DEFINE gone(d) == [call[d] EXCEPT !.tab = Null]
<1>1. /\ call[c].pc = "free" /\ UNCHANGED <<server, jar, calm>>
      /\ call \in [Calls -> Call] /\ tab \in [Tabs -> Tab]
  BY DEF Mount, IInv, TypeOK
<1>2. PICK page \in {"login", "area"} :
         tab' = [tab EXCEPT ![t] = [status |-> "loading", page |-> page]]
  BY DEF Mount
<1>3. /\ Sent("me", "first", t, jar) \in Call
      /\ Sent("me", "first", t, jar).tab = t /\ Sent("me", "first", t, jar).kind = "me"
  <2>1. /\ "first" \in {"first", "renewal", "replay"} /\ jar \in Jar
        /\ "me" \in {"me", "api", "login", "logout"}
    BY DEF IInv, TypeOK
  <2>2. IsRequest(Sent("me", "first", t, jar), "me", "first", t, jar)
    BY <2>1, SentFields, Zenon
  <2> QED BY <2>2 DEF IsRequest
<1>4. \A d \in Calls : /\ gone(d) \in Call /\ gone(d).tab = Null
                       /\ gone(d).pc = call[d].pc /\ gone(d).kind = call[d].kind
                       /\ gone(d).leg = call[d].leg /\ gone(d).refresh = call[d].refresh
                       /\ gone(d).answer = call[d].answer /\ gone(d).set = call[d].set
                       /\ gone(d).clear = call[d].clear
                       /\ gone(d).overtaken = call[d].overtaken
  BY <1>1 DEF Call
<1>5. /\ call'[c] = Sent("me", "first", t, jar)
      /\ \A d \in Calls \ {c} : /\ call[d].tab = t => call'[d] = gone(d)
                                /\ call[d].tab # t => call'[d] = call[d]
      /\ DOMAIN call' = Calls /\ call' = [d \in Calls |-> call'[d]]
  BY DEF Mount
<1> HIDE DEF gone
<1>6. call' \in [Calls -> Call]
  <2>1. \A d \in Calls : call'[d] \in Call
    BY <1>1, <1>3, <1>4, <1>5
  <2> QED BY <2>1, <1>5
<1>7. \A d \in Calls \ {c} : Same(d)
  <2> SUFFICES ASSUME NEW d \in Calls \ {c} PROVE Same(d)
    OBVIOUS
  <2>1. CASE call[d].tab = t
    BY <1>4, <1>5, <2>1 DEF Same
  <2>2. CASE call[d].tab # t
    BY <1>5, <2>2 DEF Same
  <2> QED BY <2>1, <2>2
<1>8. tab' \in [Tabs -> Tab]
  BY <1>1, <1>2 DEF Tab
<1>9. LoadingIsServed'
  <2> SUFFICES ASSUME NEW u \in Tabs, tab'[u].status = "loading" PROVE Pending(u, "me")'
    BY DEF LoadingIsServed
  <2>1. CASE u = t
    BY <1>3, <1>5, <2>1 DEF Pending
  <2>2. CASE u # t
    <3>1. PICK d \in Calls : call[d].tab = u /\ call[d].kind = "me"
      BY <1>1, <1>2, <2>2 DEF IInv, LoadingIsServed, Pending
    <3>2. d # c
      BY <1>1, <3>1, NullAssumption DEF IInv, ShapeInv
    <3> QED BY <1>5, <2>2, <3>1, <3>2 DEF Pending
  <2> QED BY <2>1, <2>2
<1> QED BY <1>1, <1>5, <1>6, <1>7, <1>8, <1>9, SendKept

-----------------------------------------------------------------------------
(* Time. *)

\* The steps that leave the calls and the chains as they are.
LEMMA TimeKept ==
    ASSUME IInv, TypeOK', CalmInv', UNCHANGED <<heads, familyOf, tab, call>>,
           jar'.refresh = jar.refresh
    PROVE  IInv'
<1>1. \A c \in Calls : ShapeInv(c)' /\ SignOutEnds(c)'
  BY DEF IInv, ShapeInv, SignOutEnds, Family
<1>2. IssuedInv' /\ SetsApart' /\ LoadingIsServed'
  BY DEF IInv, IssuedInv, Issued, SetsApart, LoadingIsServed, Pending
<1> QED BY <1>1, <1>2 DEF IInv

LEMMA WindowClosesKept == ASSUME IInv, NEW t \in Tokens, WindowCloses(t) PROVE IInv'
<1>1. /\ UNCHANGED <<heads, familyOf, lapsed, jar, tab, call>>
      /\ recent' = recent \ {t}
      /\ calm' <=> calm /\ jar.refresh # t
                   /\ \A c \in Calls : ~(call[c].pc = "sent" /\ call[c].refresh = t)
  BY DEF WindowCloses
<1>2. TypeOK'
  <2>1. calm' \in BOOLEAN
    BY Zenon DEF WindowCloses
  <2> QED BY <1>1, <2>1 DEF IInv, TypeOK
<1>3. CalmInv'
  <2> SUFFICES ASSUME calm' PROVE CalmInv'
    BY DEF CalmInv
  <2>1. /\ calm /\ jar.refresh # t
        /\ \A c \in Calls : ~(call[c].pc = "sent" /\ call[c].refresh = t)
    BY <1>1
  <2>2. \A u : Known(u) /\ u # t => Known(u)'
    BY <1>1 DEF Known
  <2>3. \A c \in Calls : CalmCall(c)'
    BY <1>1, <2>1, <2>2 DEF IInv, CalmInv, CalmCall, Known
  <2>4. SessionHeld' <=> SessionHeld
    BY <1>1 DEF SessionHeld
  <2> QED BY <1>1, <2>1, <2>2, <2>3, <2>4 DEF IInv, CalmInv, Known
<1> QED BY <1>1, <1>2, <1>3, TimeKept

LEMMA LapseKept == ASSUME IInv, NEW t \in Tokens, Lapse(t) PROVE IInv'
<1>1. TypeOK' /\ CalmInv'
  BY DEF Lapse, IInv, TypeOK, CalmInv
<1> QED BY <1>1, TimeKept DEF Lapse

LEMMA AccessExpiresKept == ASSUME IInv, AccessExpires PROVE IInv'
<1>1. jar' \in Jar /\ jar'.refresh = jar.refresh
  BY DEF AccessExpires, IInv, TypeOK, Jar
<1>2. UNCHANGED <<heads, familyOf, recent, lapsed, tab, call, calm>>
  BY DEF AccessExpires, server
<1>3. TypeOK'
  BY <1>1, <1>2 DEF IInv, TypeOK
<1>4. CalmInv'
  BY <1>1, <1>2 DEF IInv, CalmInv, CalmCall, Known, SessionHeld
<1> QED BY <1>1, <1>2, <1>3, <1>4, TimeKept

-----------------------------------------------------------------------------
LEMMA StepIInv == IInv /\ [Next]_vars => IInv'
<1> SUFFICES ASSUME IInv, [Next]_vars PROVE IInv'
  OBVIOUS
<1>1. ASSUME NEW c \in Calls, Serve(c) \/ Break(c) \/ Arrive(c) PROVE IInv'
  <2>1. Kept(c)
    BY <1>1, GuardKept, RotateKept, RacedKept, TerminalKept, LogoutBeginsKept, LogoutKept,
       LoginKept, IssueKept, BreakKept, ContinueKept, SettleKept, LoseKept DEF Serve, Arrive
  <2> QED BY <2>1, KeptIsEnough
<1>2. ASSUME NEW t \in Tabs, NEW c \in Calls, Operate(t, c) PROVE IInv'
  <2>1. CASE Mount(t, c)
    BY <2>1, MountKept, KeptIsEnough
  <2>2. CASE SubmitLogin(t, c)
    BY <2>2, SubmitKept, KeptIsEnough DEF SubmitLogin
  <2>3. CASE UseArea(t, c, "api")
    BY <2>3, SubmitKept, KeptIsEnough DEF UseArea
  <2>4. CASE UseArea(t, c, "logout")
    BY <2>4, SubmitKept, KeptIsEnough DEF UseArea
  <2> QED BY <1>2, <2>1, <2>2, <2>3, <2>4 DEF Operate
<1>3. CASE \E t \in Tokens : WindowCloses(t) \/ Lapse(t)
  BY <1>3, WindowClosesKept, LapseKept
<1>4. CASE AccessExpires
  BY <1>4, AccessExpiresKept
<1>5. CASE UNCHANGED vars
  <2>1. UNCHANGED <<heads, familyOf, recent, lapsed, jar, tab, call, calm>>
    BY <1>5 DEF vars
  <2>2. TypeOK' /\ CalmInv'
    BY <2>1 DEF IInv, TypeOK, CalmInv, CalmCall, Known, SessionHeld
  <2> QED BY <2>1, <2>2, TimeKept
<1> QED BY <1>1, <1>2, <1>3, <1>4, <1>5 DEF Next

\* Every reachable state satisfies the inductive invariant.
THEOREM InductiveInvariant == Spec => []IInv
BY InitIInv, StepIInv, PTL DEF Spec

\* Every variable keeps its type, and a deadline is only passed by a token that can be renewed.
THEOREM TypeCorrect == Spec => []TypeOK
<1>1. IInv => TypeOK
  BY DEF IInv
<1> QED BY <1>1, InductiveInvariant, PTL

\* auth.service.ts, client.ts: with nothing lost, late or over, no interleaving of any number of
\* tabs, renewals and sign-ins costs the browser its session.
THEOREM NoRaceCostsTheSession == Spec => []RenewalsKeepTheSession
<1>1. IInv => RenewalsKeepTheSession
  BY DEF IInv, CalmInv, RenewalsKeepTheSession
<1> QED BY <1>1, InductiveInvariant, PTL

\* auth.controller.ts, logout: once answered, no token of the chain it was given can be renewed,
\* but for a renewal that was committed while the revocation ran.
THEOREM SignOutIsFinal == Spec => []SignOutEndsTheChain
<1>1. IInv => SignOutEndsTheChain
  BY DEF IInv, SignOutEnds, SignOutEndsTheChain
<1> QED BY <1>1, InductiveInvariant, PTL

\* session-provider.tsx: a tab that loads waits for a call that is under way.
THEOREM NoTabLoadsForNothing == Spec => []LoadingIsServed
<1>1. IInv => LoadingIsServed
  BY DEF IInv
<1> QED BY <1>1, InductiveInvariant, PTL

-----------------------------------------------------------------------------
(* The composition: the pages, the cookies and the routes move the chains   *)
(* only as SessionChain says, which RefreshTokens implements.               *)

LEMMA ChainInit == Init => Chain!SInit
BY DEF Init

\* A revocation ends chains, or finds none to end.
LEMMA RevokeChain ==
    ASSUME NEW ended \in SUBSET heads, Revoke(ended)
    PROVE  [Chain!SNext]_(Chain!svars)
BY DEF Revoke, Chain!SNext, Chain!svars

LEMMA LoginChain ==
    ASSUME IInv, NEW c \in Calls, Login(c)
    PROVE  [Chain!SNext]_(Chain!svars)
<1>1. lapsed \subseteq heads
  BY DEF IInv, TypeOK
<1>2. CASE UNCHANGED server
  BY <1>2 DEF server, Chain!svars
<1>3. ASSUME NEW gone \in SUBSET lapsed,
             IF gone = {} THEN UNCHANGED <<heads, familyOf>> ELSE Chain!End(gone)
      PROVE  [Chain!SNext]_(Chain!svars)
  BY <1>1, <1>3 DEF Chain!SNext, Chain!svars
<1> QED
  BY <1>2, <1>3 DEF Login

\* Every step is one atomic operation on the chains, or leaves them alone.
LEMMA ChainStep == ASSUME IInv, [Next]_vars PROVE [Chain!SNext]_(Chain!svars)
<1>0. ASSUME UNCHANGED <<heads, familyOf>> PROVE [Chain!SNext]_(Chain!svars)
  BY <1>0 DEF Chain!svars
<1>1. ASSUME NEW c \in Calls, Serve(c) PROVE [Chain!SNext]_(Chain!svars)
  <2>1. CASE Guard(c) \/ Raced(c) \/ LogoutBegins(c)
    BY <1>0, <2>1 DEF Guard, Raced, LogoutBegins, server
  <2>2. CASE Rotate(c)
    <3>1. PICK s \in Tokens : Chain!Renew(call[c].refresh, s)
      BY <2>2 DEF Rotate
    <3>2. call[c].refresh \in Tokens
      BY <2>2 DEF Rotate, IInv, TypeOK
    <3> QED
      BY <3>1, <3>2 DEF Chain!SNext
  <2>3. CASE Terminal(c)
    <3>1. CASE UNCHANGED server
      BY <1>0, <3>1 DEF server
    <3>2. CASE Revoke(Family(call[c].refresh))
      BY <3>2, RevokeChain DEF Family
    <3> QED
      BY <2>3, <3>1, <3>2 DEF Terminal
  <2>4. CASE Logout(c)
    <3>1. CASE UNCHANGED server
      BY <1>0, <3>1 DEF server
    <3>2. CASE Revoke(IF call[c].overtaken THEN {} ELSE Family(call[c].refresh))
      BY <3>2, RevokeChain DEF Family
    <3> QED
      BY <2>4, <3>1, <3>2 DEF Logout
  <2>5. CASE Login(c)
    BY <2>5, LoginChain
  <2>6. CASE Issue(c)
    BY <2>6 DEF Issue, Chain!SNext
  <2> QED
    BY <1>1, <2>1, <2>2, <2>3, <2>4, <2>5, <2>6 DEF Serve
<1>2. ASSUME NEW c \in Calls, Break(c) \/ Arrive(c) PROVE UNCHANGED <<heads, familyOf>>
  BY <1>2 DEF Break, Arrive, Continue, Settle, Lose, server
<1>3. ASSUME NEW t \in Tabs, NEW c \in Calls, Operate(t, c) PROVE UNCHANGED <<heads, familyOf>>
  BY <1>3 DEF Operate, Mount, SubmitLogin, UseArea, server
<1>4. ASSUME NEW t \in Tokens, WindowCloses(t) \/ Lapse(t) PROVE UNCHANGED <<heads, familyOf>>
  BY <1>4 DEF WindowCloses, Lapse
<1>5. CASE AccessExpires \/ UNCHANGED vars
  BY <1>0, <1>5 DEF AccessExpires, server, vars
<1> QED
  BY <1>0, <1>1, <1>2, <1>3, <1>4, <1>5 DEF Next

\* What tabs, cookies and routes do to the sessions is what SessionChain allows: the model of the
\* browser asks nothing of the service that RefreshTokens is not proved to give.
THEOREM ChainsComposed == Spec => Chain!SSpec
BY ChainInit, ChainStep, InductiveInvariant, PTL DEF Spec, Chain!SSpec

\* What the atomic chains promise: each of their steps keeps what has ended ended.
LEMMA ChainPromises ==
    ASSUME IInv, [Chain!SNext]_(Chain!svars)
    PROVE  Chain!NoneComesBack /\ Chain!SpentStays
<1>1. heads \subseteq Tokens /\ familyOf \in [Tokens -> Tokens \cup {Null}] /\ Null \notin Tokens
  BY NullAssumption DEF IInv, TypeOK
<1>2. ASSUME NEW s \in Tokens, Chain!Open(s) PROVE Chain!NoneComesBack /\ Chain!SpentStays
  BY <1>1, <1>2 DEF Chain!Open, Chain!NoneComesBack, Chain!SpentStays, Chain!ChainOf
<1>3. ASSUME NEW t \in Tokens, NEW s \in Tokens, Chain!Renew(t, s)
      PROVE  Chain!NoneComesBack /\ Chain!SpentStays
  <2>1. /\ t \in heads /\ familyOf[s] = Null /\ heads' = (heads \ {t}) \cup {s}
        /\ familyOf'[s] = familyOf[t] /\ \A u \in Tokens \ {s} : familyOf'[u] = familyOf[u]
    BY <1>1, <1>3 DEF Chain!Renew
  <2>2. ASSUME NEW f \in Tokens, \A u \in heads : familyOf[u] # f, familyOf[f] # Null
        PROVE  \A u \in heads' : familyOf'[u] # f
    BY <1>1, <2>1, <2>2
  <2>3. Chain!NoneComesBack
    BY <2>2 DEF Chain!NoneComesBack, Chain!ChainOf
  <2> QED
    BY <2>1, <2>3 DEF Chain!SpentStays
<1>4. ASSUME NEW ended \in SUBSET heads, Chain!End(ended)
      PROVE  Chain!NoneComesBack /\ Chain!SpentStays
  BY <1>4 DEF Chain!End, Chain!NoneComesBack, Chain!SpentStays, Chain!ChainOf
<1>5. CASE UNCHANGED Chain!svars
  BY <1>5 DEF Chain!svars, Chain!NoneComesBack, Chain!SpentStays, Chain!ChainOf
<1> QED
  BY <1>2, <1>3, <1>4, <1>5 DEF Chain!SNext

\* A session that a sign-out, a reuse or a purge has ended gives no tab anything any more,
\* whatever renewals were on their way.
THEOREM SessionsEndForGood == Spec => Chain!EndedForGood
<1>1. IInv /\ [Next]_vars => [Chain!NoneComesBack]_(Chain!svars)
  BY ChainStep, ChainPromises
<1> QED
  BY <1>1, InductiveInvariant, PTL DEF Spec, Chain!EndedForGood

LEMMA OneHeadKept ==
    ASSUME IInv, Chain!OneHeadPerChain, [Chain!SNext]_(Chain!svars)
    PROVE  Chain!OneHeadPerChain'
<1>1. /\ heads \subseteq Tokens /\ familyOf \in [Tokens -> Tokens \cup {Null}]
      /\ \A t \in heads : familyOf[t] # Null /\ familyOf[familyOf[t]] # Null
  BY NullAssumption DEF IInv, TypeOK, IssuedInv, Issued
<1>2. ASSUME NEW s \in Tokens, Chain!Open(s) PROVE Chain!OneHeadPerChain'
  <2>1. /\ heads' = heads \cup {s} /\ familyOf[s] = Null
        /\ familyOf'[s] = s /\ \A u \in Tokens \ {s} : familyOf'[u] = familyOf[u]
    BY <1>1, <1>2 DEF Chain!Open
  <2>2. \A u \in heads : u # s /\ familyOf'[u] # s
    BY <1>1, <2>1
  <2> QED
    BY <1>1, <2>1, <2>2 DEF Chain!OneHeadPerChain
<1>3. ASSUME NEW t \in Tokens, NEW s \in Tokens, Chain!Renew(t, s) PROVE Chain!OneHeadPerChain'
  <2>1. /\ t \in heads /\ familyOf[s] = Null /\ heads' = (heads \ {t}) \cup {s}
        /\ familyOf'[s] = familyOf[t] /\ \A u \in Tokens \ {s} : familyOf'[u] = familyOf[u]
    BY <1>1, <1>3 DEF Chain!Renew
  <2>2. \A u \in heads \ {t} : u # s /\ familyOf'[u] # familyOf[t]
    BY <1>1, <2>1 DEF Chain!OneHeadPerChain
  <2> QED
    BY <1>1, <2>1, <2>2 DEF Chain!OneHeadPerChain
<1>4. ASSUME NEW ended \in SUBSET heads, Chain!End(ended) PROVE Chain!OneHeadPerChain'
  BY <1>4 DEF Chain!End, Chain!OneHeadPerChain
<1>5. CASE UNCHANGED Chain!svars
  BY <1>5 DEF Chain!svars, Chain!OneHeadPerChain
<1> QED
  BY <1>2, <1>3, <1>4, <1>5 DEF Chain!SNext

\* Whatever tabs and calls overlap, a session has one cookie that can renew it: two tabs never
\* hold two, which a detected reuse would take for a copy.
THEOREM OneCookiePerSession == Spec => []Chain!OneHeadPerChain
<1>1. Init => Chain!OneHeadPerChain
  BY DEF Init, Chain!SInit, Chain!OneHeadPerChain
<1>2. IInv /\ Chain!OneHeadPerChain /\ [Next]_vars => Chain!OneHeadPerChain'
  BY ChainStep, OneHeadKept
<1> QED
  BY <1>1, <1>2, InductiveInvariant, PTL DEF Spec
=============================================================================

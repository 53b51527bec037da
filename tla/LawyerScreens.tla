---------------------------- MODULE LawyerScreens ----------------------------
(***************************************************************************)
(* One tab of the lawyer's area - the dashboard, the creation form and the *)
(* detail of a request, with the useResource that feeds the first and the  *)
(* last - over RequestsService, while another tab of the lawyer and the     *)
(* clients change what the screens show.                                   *)
(*                                                                         *)
(* A read is a call in flight: its statements run on the server one by one, *)
(* and its answer may arrive after that of a later call. What the links do  *)
(* to each other inside the server is PublicLinks; here a regeneration or a  *)
(* revocation is one step of it.                                           *)
(***************************************************************************)
EXTENDS Naturals, FiniteSets, Sequences, SequencesExt

CONSTANTS
    Requests,
    PageSize,       \* DEFAULT_PAGE_SIZE, which the dashboard never overrides
    MaxChanges,     \* bound: the writes after the first state
    Loads,          \* the calls of useResource that can be in flight at once
    Null

ASSUME SizesAssumption == PageSize \in Nat \ {0} /\ MaxChanges \in Nat
ASSUME NullAssumption == Null \notin Requests /\ Null \notin Loads

VARIABLES
    made,       \* the requests of the lawyer, oldest first
    row,        \* what the database says of each
    changes,    \* how many writes there have been since the first state
    view,       \* the screen, and the page or the request in its address
    res,        \* its useResource
    load,       \* the calls useResource has in flight
    act,        \* the creation, regeneration or revocation in flight
    form,       \* the rest of the screen's state
    floor,      \* history: `changes` when the last acknowledged write of this tab was made
    walk        \* history: the pages walked through, and the requests they still owe

server == <<made, row, changes>>
vars == <<made, row, changes, view, res, load, act, form, floor, walk>>

Row == [no : Nat,         \* how many links were issued, the last of which counts
        cut : BOOLEAN]    \* that link is revoked
FirstRow == [no |-> 1, cut |-> FALSE]

Pages == 1 .. Cardinality(Requests) + 1
Views == [at : {"list"}, page : Pages, id : {Null}]
         \cup [at : {"detail"}, page : {1}, id : Requests]
         \cup [at : {"new"}, page : {1}, id : {Null}]

Dashboard == [at |-> "list", page |-> 1, id |-> Null]
Detail(r) == [at |-> "detail", page |-> 1, id |-> r]
NewRequest == [at |-> "new", page |-> 1, id |-> Null]

NoLoad == [pc |-> "free", current |-> FALSE, key |-> NewRequest, data |-> Null]

\* A card, IssuedLink: whose link, its number, and whether only this tab had a hand in it since.
Card(r, no) == [id |-> r, no |-> no, mine |-> TRUE]

NoAct == [pc |-> "none", kind |-> "none", accepted |-> TRUE, id |-> Null, issued |-> Null,
          asOf |-> 0, reload |-> Null]

\* useState's initial values.
NoForm == [confirmation |-> "none", issued |-> Null]
NoResource == [data |-> Null, error |-> FALSE, loading |-> TRUE]

NoWalk == [at |-> 0, owed |-> {}]

Exists(r) == r \in Range(made)

-----------------------------------------------------------------------------
(* What the server answers. *)

\* toRequestSummary, for what the screens act on: the state of the last link, by toLinkView.
Summary(r) == [id |-> r, state |-> IF row[r].cut THEN "revoked" ELSE "active"]

\* Faulty variant: the pages are counted from zero on one side only.
SkipFromZero(page) == page * PageSize

Skip(page) == (page - 1) * PageSize

\* findMany: createdAt desc, skip, take.
PageOf(page) ==
    LET newest == Reverse(made)
        last == IF Len(made) < Skip(page) + PageSize THEN Len(made) ELSE Skip(page) + PageSize
    IN [i \in 1 .. (IF last < Skip(page) THEN 0 ELSE last - Skip(page)) |->
            Summary(newest[Skip(page) + i])]

\* Math.ceil(total / pageSize)
PagesOf(total) == (total + PageSize - 1) \div PageSize

-----------------------------------------------------------------------------
(* The creation form and what create-request.dto.ts makes of it. A label is *)
(* what is left of it once trimmed, "" when nothing is.                     *)

Labels == {"", "bail", "Bail"}
Folded(label) == IF label = "Bail" THEN "bail" ELSE label
MaxDays == 90
DefaultDays == 14

\* The validity typed, Null when it is no integer. The rows are at least one.
Days == {Null, 0, DefaultDays, MaxDays, MaxDays + 1}
Forms == [title : {"", "dossier"}, rows : [1 .. 1 -> Labels] \cup [1 .. 2 -> Labels],
          days : Days]

Filled(rows) == SelectSeq(rows, LAMBDA label : label # "")
CanSubmit(f) == f.title # "" /\ Filled(f.rows) # <<>>
Body(f) == [title |-> f.title, items |-> Filled(f.rows),
            days |-> IF f.days = Null THEN DefaultDays ELSE f.days]

\* IsExpiresInDays
DaysAllowed(days) == days \in 1 .. MaxDays

\* ArrayMinSize, MinLength of each, ArrayUnique on the folded case, IsExpiresInDays.
Accepts(body) ==
    /\ body.title # "" /\ body.items # <<>>
    /\ \A i \in DOMAIN body.items : body.items[i] # ""
    /\ \A i, j \in DOMAIN body.items : i # j => Folded(body.items[i]) # Folded(body.items[j])
    /\ DaysAllowed(body.days)

\* What may be said of a form the page lets go.
Verdicts == {Accepts(Body(f)) : f \in {f \in Forms : CanSubmit(f)}}

-----------------------------------------------------------------------------
Init ==
    /\ made \in {s \in UNION {[1 .. n -> Requests] : n \in 0 .. Cardinality(Requests)} :
                  IsInjective(s)}
    /\ row = [r \in Requests |-> FirstRow]
    /\ changes = 0
    /\ view = NewRequest
    /\ res = NoResource
    /\ load = [l \in Loads |-> NoLoad]
    /\ act = NoAct
    /\ form = NoForm
    /\ floor = 0
    /\ walk = NoWalk

\* run(): the generation moves on, so that no earlier call is the last one any more.
Superseded == [l \in Loads |-> [load[l] EXCEPT !.current = FALSE]]
Begin(l, key, calls) ==
    [calls EXCEPT ![l] = [NoLoad EXCEPT !.pc = "sent", !.current = TRUE, !.key = key]]

-----------------------------------------------------------------------------
(* Operations with a plausible mistake, against which the properties are tried. *)

\* Faulty variant: the hook only checks that the screen is still mounted.
DeliverUnguarded(l) ==
    /\ load[l].pc = "answered"
    /\ load' = [load EXCEPT ![l] = NoLoad]
    /\ res' = IF load[l].data = Null THEN [res EXCEPT !.error = TRUE, !.loading = FALSE]
              ELSE [data |-> load[l].data, error |-> FALSE, loading |-> FALSE]
    /\ act' = IF act.reload = l THEN NoAct ELSE act
    /\ UNCHANGED <<server, view, form, floor, walk>>

\* Faulty variant: after the action the screen is left as it was.
ActDoneWithoutReload(l) ==
    /\ view.at = "detail" /\ act.pc = "served" /\ load[l].pc = "free"
    /\ form' = [confirmation |-> "none", issued |-> act.issued]
    /\ act' = NoAct
    /\ floor' = act.asOf
    /\ UNCHANGED <<server, view, res, load, walk>>

\* Faulty variant: a card is replaced by another card only.
ActDoneKeepingTheCard(l) ==
    /\ view.at = "detail" /\ act.pc = "served" /\ load[l].pc = "free"
    /\ form' = [confirmation |-> "none",
                issued |-> IF act.issued = Null THEN form.issued ELSE act.issued]
    /\ act' = [act EXCEPT !.pc = "reloading", !.reload = l]
    /\ load' = Begin(l, view, Superseded)
    /\ res' = [res EXCEPT !.loading = TRUE]
    /\ floor' = act.asOf
    /\ UNCHANGED <<server, view, walk>>

-----------------------------------------------------------------------------
(* The writes, whoever makes them. *)

Write(r, new) ==
    /\ changes < MaxChanges
    /\ changes' = changes + 1
    /\ row' = [row EXCEPT ![r] = new]

Insert(r) == ~Exists(r) /\ made' = Append(made, r) /\ Write(r, FirstRow)

Regenerated(r) == [row[r] EXCEPT !.no = @ + 1, !.cut = FALSE]
Revoked(r) == [row[r] EXCEPT !.cut = TRUE]

\* Of a card this tab holds, or is about to, once something else changed its link.
Shared(card, r) == IF card # Null /\ card.id = r THEN [card EXCEPT !.mine = FALSE] ELSE card

\* Another tab or browser of the lawyer, and what a page that is gone had still in flight.
OtherCreates(r) ==
    /\ Insert(r)
    /\ UNCHANGED <<view, res, load, act, form, floor, walk>>

OtherCutsOrRenews(r) ==
    /\ Exists(r)
    /\ Write(r, Regenerated(r)) \/ Write(r, Revoked(r))
    /\ form' = [form EXCEPT !.issued = Shared(@, r)]
    /\ act' = [act EXCEPT !.issued = Shared(@, r)]
    /\ UNCHANGED <<made, view, res, load, floor, walk>>

-----------------------------------------------------------------------------
(* useResource. `had` is history: how many requests there were at the first statement. *)

\* findOne, or the first statement of list's $transaction.
Read(l) ==
    LET key == load[l].key IN
    /\ load[l].pc = "sent"
    /\ load' = [load EXCEPT
         ![l].pc = IF key.at = "detail" THEN "answered" ELSE "counting",
         ![l].data = IF key.at = "detail"
                     THEN [key |-> key, asOf |-> changes, shown |-> Summary(key.id)]
                     ELSE [key |-> key, asOf |-> changes, items |-> PageOf(key.page),
                           had |-> Len(made), total |-> 0]]
    /\ UNCHANGED <<server, view, res, act, form, floor, walk>>

\* Its second statement, which sees what was committed since the first: READ COMMITTED.
Count(l) ==
    /\ load[l].pc = "counting"
    /\ load' = [load EXCEPT ![l].pc = "answered", ![l].data.total = Len(made)]
    /\ UNCHANGED <<server, view, res, act, form, floor, walk>>

\* A network error, a 401 the renewal did not save, a 500.
ReadFails(l) ==
    /\ load[l].pc \in {"sent", "counting"} \/ (load[l].pc = "answered" /\ load[l].data # Null)
    /\ load' = [load EXCEPT ![l].pc = "answered", ![l].data = Null]
    /\ UNCHANGED <<server, view, res, act, form, floor, walk>>

ItemsOf(data) == {data.items[i].id : i \in DOMAIN data.items}

\* The walk starts at page 1, goes on from a page to the next, and is given up otherwise.
WalkedTo(data) ==
    LET page == data.key.page IN
    IF page = 1 THEN [at |-> 1, owed |-> {made[i] : i \in 1 .. data.had} \ ItemsOf(data)]
    ELSE IF page \in {walk.at, walk.at + 1} THEN [at |-> page, owed |-> walk.owed \ ItemsOf(data)]
    ELSE NoWalk

\* The answer arrives: it is written if it is that of the last call, and dropped otherwise. A
\* runAction that awaits this reload ends either way.
Deliver(l) ==
    LET data == load[l].data IN
    /\ load[l].pc = "answered"
    /\ load' = [load EXCEPT ![l] = NoLoad]
    /\ IF ~load[l].current THEN UNCHANGED <<res, walk>>
       ELSE IF data = Null THEN /\ res' = [res EXCEPT !.error = TRUE, !.loading = FALSE]
                                /\ UNCHANGED walk
       ELSE /\ res' = [data |-> data, error |-> FALSE, loading |-> FALSE]
            /\ walk' = IF view.at = "list" THEN WalkedTo(data) ELSE NoWalk
    /\ act' = IF act.reload = l THEN NoAct ELSE act
    /\ UNCHANGED <<server, view, form, floor>>

-----------------------------------------------------------------------------
(* The screens. *)

Shown == res.data # Null /\ ~res.error

\* A link of the screen, or the address typed or reloaded: the screen is mounted afresh, and
\* the answers the one before waited for come to nobody.
Open(v, l) ==
    /\ v.at = "detail" => Exists(v.id)
    /\ view' = v
    /\ form' = NoForm /\ act' = NoAct /\ res' = NoResource /\ walk' = NoWalk
    /\ load' = IF v.at = "new" THEN [k \in Loads |-> NoLoad]
               ELSE Begin(l, v, [k \in Loads |-> NoLoad])
    /\ UNCHANGED <<server, floor>>

\* The pager stays under an error, with the bounds of the last page that arrived.
Turn(page, l) ==
    /\ view.at = "list" /\ load[l].pc = "free"
    /\ res.data # Null /\ PagesOf(res.data.total) > 1
    /\ \/ page = view.page - 1 /\ view.page > 1
       \/ page = view.page + 1 /\ view.page < PagesOf(res.data.total)
    /\ view' = [view EXCEPT !.page = page]
    /\ load' = Begin(l, view', Superseded)
    /\ res' = [res EXCEPT !.loading = TRUE]
    /\ UNCHANGED <<server, act, form, floor, walk>>

\* ErrorPanel's button, which stays while the retry is on its way.
Retry(l) ==
    /\ view.at # "new" /\ res.error /\ load[l].pc = "free"
    /\ load' = Begin(l, view, Superseded)
    /\ res' = [res EXCEPT !.loading = TRUE]
    /\ UNCHANGED <<server, view, act, form, floor, walk>>

\* "Creer la demande", once the form lets it go.
Submit ==
    /\ view.at = "new" /\ form.issued = Null /\ act.pc = "none"
    /\ \E accepted \in Verdicts :
          act' = [NoAct EXCEPT !.pc = "sent", !.kind = "create", !.accepted = accepted]
    /\ UNCHANGED <<server, view, res, load, form, floor, walk>>

\* "Creer une autre demande"
Reset ==
    /\ view.at = "new" /\ form.issued # Null
    /\ form' = NoForm
    /\ UNCHANGED <<server, view, res, load, act, floor, walk>>

\* Only an active link can be revoked, and asking for another puts the card away.
Ask(kind) ==
    /\ view.at = "detail" /\ Shown /\ form.confirmation = "none"
    /\ kind = "revoke" => res.data.shown.state = "active"
    /\ form' = [confirmation |-> kind, issued |-> IF kind = "revoke" THEN form.issued ELSE Null]
    /\ UNCHANGED <<server, view, res, load, act, floor, walk>>

Cancel ==
    /\ view.at = "detail" /\ Shown /\ form.confirmation # "none" /\ act.pc = "none"
    /\ form' = [form EXCEPT !.confirmation = "none"]
    /\ UNCHANGED <<server, view, res, load, act, floor, walk>>

\* onRegenerate: the default for what is no integer. An empty field is Number(""), zero days.
RegenerateDays(days) == IF days = Null THEN DefaultDays ELSE days

Confirm ==
    /\ view.at = "detail" /\ Shown /\ form.confirmation # "none" /\ act.pc = "none"
    /\ \E days \in Days :
          act' = [NoAct EXCEPT
                    !.pc = "sent", !.kind = form.confirmation, !.id = view.id,
                    !.accepted = form.confirmation = "revoke" \/ DaysAllowed(RegenerateDays(days))]
    /\ UNCHANGED <<server, view, res, load, form, floor, walk>>

\* create, regenerate or revoke; a link already revoked is revoked without a write.
ActServed(r) ==
    /\ act.pc = "sent" /\ act.accepted
    /\ \/ act.kind = "create" /\ Insert(r)
       \/ act.kind = "regenerate" /\ r = act.id /\ Write(r, Regenerated(r)) /\ UNCHANGED made
       \/ act.kind = "revoke" /\ r = act.id /\ ~row[r].cut /\ Write(r, Revoked(r)) /\ UNCHANGED made
       \/ act.kind = "revoke" /\ r = act.id /\ row[r].cut /\ UNCHANGED server
    /\ act' = [act EXCEPT !.pc = "served", !.id = r, !.asOf = changes',
                          !.issued = IF act.kind = "revoke" THEN Null ELSE Card(r, row'[r].no)]
    /\ UNCHANGED <<view, res, load, form, floor, walk>>

\* A refusal, a failure, or an answer lost after the write: the form stays as it was, the panel
\* says so, and what was written is as if somebody else had done it.
ActFails ==
    /\ act.pc \in {"sent", "served"}
    /\ form' = IF act.pc = "served" THEN [form EXCEPT !.issued = Shared(@, act.id)] ELSE form
    /\ act' = NoAct
    /\ UNCHANGED <<server, view, res, load, floor, walk>>

\* onSubmit's end: the card of the creation.
Created ==
    /\ view.at = "new" /\ act.pc = "served"
    /\ form' = [form EXCEPT !.issued = act.issued]
    /\ act' = NoAct
    /\ floor' = act.asOf
    /\ UNCHANGED <<server, view, res, load, walk>>

\* runAction's end: the card, or none after a revocation, and the screen is read again.
ActDone(l) ==
    /\ view.at = "detail" /\ act.pc = "served" /\ load[l].pc = "free"
    /\ form' = [confirmation |-> "none", issued |-> act.issued]
    /\ act' = [act EXCEPT !.pc = "reloading", !.reload = l]
    /\ load' = Begin(l, view, Superseded)
    /\ res' = [res EXCEPT !.loading = TRUE]
    /\ floor' = act.asOf
    /\ UNCHANGED <<server, view, walk>>

Next ==
    \/ \E r \in Requests : OtherCreates(r) \/ OtherCutsOrRenews(r) \/ ActServed(r)
    \/ \E l \in Loads : Read(l) \/ Count(l) \/ ReadFails(l) \/ Deliver(l) \/ Retry(l) \/ ActDone(l)
    \/ \E l \in Loads, page \in Pages : Turn(page, l)
    \/ \E l \in Loads : \/ Open(Dashboard, l) \/ Open(NewRequest, l)
                        \/ \E r \in Requests : Open(Detail(r), l)
    \/ \E kind \in {"regenerate", "revoke"} : Ask(kind)
    \/ Submit \/ Reset \/ Cancel \/ Confirm \/ ActFails \/ Created

Spec == Init /\ [][Next]_vars

-----------------------------------------------------------------------------
\* Nothing is on its way for the screen, and it shows what it was answered.
Settled == view.at # "new" /\ Shown /\ ~res.loading

\* "only the answer to the LAST one may be written" (use-resource.ts): however the answers to
\* the pages turned, the retries and the reloads overtake each other, a screen that waits for
\* nothing shows the page or the request of its address.
LastAnswerShown == Settled => res.data.key = view

\* "Re-read rather than guess" (request-detail-page.tsx): once a regeneration, a revocation or
\* a creation was acknowledged, no screen settles on a reading made before it, by a
\* slower call or by a navigation.
ScreenAsOfLastAction == Settled => res.data.asOf >= floor

\* The address and the code the lawyer is told to send are those of the link that opens the
\* request: a card shown while nothing is in flight is that of its current link, unless another
\* tab changed it or an answer was lost.
CardOpensTheRequest ==
    form.issued # Null /\ form.issued.mine /\ act.pc \notin {"sent", "served"} =>
        row[form.issued.id].no = form.issued.no /\ ~row[form.issued.id].cut

\* Creations shift the pages under the reader. Walked from the first page to the one whose
\* "Suivant" is disabled, in order, the dashboard shows every request there was at the start.
NothingSkipped ==
    Settled /\ view.at = "list" /\ walk.at = view.page /\ view.page >= PagesOf(res.data.total) =>
        walk.owed = {}
=============================================================================

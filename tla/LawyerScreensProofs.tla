------------------------ MODULE LawyerScreensProofs ------------------------
(***************************************************************************)
(* Safety of LawyerScreens for every set of requests, page size and number  *)
(* of calls in flight: what a screen shows is what was asked last, no older  *)
(* than the last action, a card is the one of its request's link, and        *)
(* turning the pages in order skips nothing.                                 *)
(***************************************************************************)
EXTENDS LawyerScreens, TLAPS

-----------------------------------------------------------------------------
(* The inductive invariant, first the shapes. *)

View == [at : {"list", "detail", "new"}, page : Nat \ {0}, id : Requests \cup {Null}]
CardOf == [id : Requests, no : Nat, mine : BOOLEAN]
Act == [pc : {"none", "sent", "served", "reloading"},
        kind : {"none", "create", "regenerate", "revoke"}, accepted : BOOLEAN,
        id : Requests \cup {Null}, issued : CardOf \cup {Null}, asOf : Nat,
        reload : Loads \cup {Null}]
Form == [confirmation : {"none", "regenerate", "revoke"}, issued : CardOf \cup {Null}]

\* Records with fields of which only the presence matters.
IsCall(r) ==
    r \in [pc : {"free", "sent", "counting", "answered"}, current : BOOLEAN,
          key : {r.key}, data : {r.data}]

IsPage(d) ==
    d \in [key : {d.key}, asOf : {d.asOf}, items : {d.items}, had : {d.had}, total : {d.total}]

IsResource(r) == r \in [data : {r.data}, error : BOOLEAN, loading : BOOLEAN]

ShapeInv ==
    /\ made \in Seq(Requests)
    /\ row \in [Requests -> Row] /\ changes \in Nat /\ floor \in Nat
    /\ view \in View
    /\ IsResource(res)
    /\ load = [l \in Loads |-> load[l]] /\ \A l \in Loads : IsCall(load[l])
    /\ act \in Act /\ form \in Form

\* The last call of the screen is the one that is current; its answer is of the address, and no
\* older than the last action.
CallInv(l) ==
    /\ load[l].pc = "free" => ~load[l].current
    /\ load[l].current =>
         /\ load[l].key = view /\ view.at # "new" /\ res.loading
         /\ load[l].data # Null \/ load[l].pc = "counting" =>
              load[l].data.key = view /\ load[l].data.asOf \in Nat /\ load[l].data.asOf >= floor
    /\ load[l].pc = "sent" => load[l].data = Null
    /\ load[l].pc = "counting" => IsPage(load[l].data)

OneCurrent == \A l, k \in Loads : load[l].current /\ load[k].current => l = k

\* What the screen shows once nothing is on its way.
ResourceInv ==
    Settled => res.data.key = view /\ res.data.asOf \in Nat /\ res.data.asOf >= floor

FloorInv == floor <= changes /\ (act.pc = "served" => act.asOf <= changes)

\* The request of the detail page, and that of the action in flight there, exist.
TargetInv ==
    /\ view.at = "detail" => Exists(view.id)
    /\ act.pc = "sent" /\ act.kind # "create" => Exists(act.id)

Matches(card) == row[card.id].no = card.no /\ ~row[card.id].cut

\* A card is that of its request's link, but for what the action in flight did to it.
CardInv ==
    /\ form.issued # Null =>
         /\ Exists(form.issued.id)
         /\ form.issued.mine /\ (act.pc = "served" => act.id # form.issued.id) =>
              Matches(form.issued)
    /\ act.issued # Null =>
         /\ Exists(act.issued.id)
         /\ act.pc = "served" /\ act.issued.mine => Matches(act.issued)
    /\ act.pc \in {"sent", "served"} => act.reload = Null

IInv ==
    /\ ShapeInv
    /\ \A l \in Loads : CallInv(l)
    /\ OneCurrent
    /\ ResourceInv
    /\ FloorInv
    /\ TargetInv
    /\ CardInv

-----------------------------------------------------------------------------
(* Facts used for many actions. *)

LEMMA EmptyShapes ==
    /\ NoAct \in Act /\ NoForm \in Form /\ IsCall(NoLoad) /\ IsResource(NoResource)
    /\ NoAct.pc = "none" /\ NoAct.issued = Null /\ NoForm.issued = Null
    /\ NoLoad.pc = "free" /\ NoLoad.current = FALSE /\ NoLoad.data = Null
    /\ NoResource.loading = TRUE /\ NoResource.data = Null
BY DEF NoAct, Act, NoForm, Form, NoLoad, IsCall, NoResource, IsResource

LEMMA InitIInv == Init => IInv
<1> SUFFICES ASSUME Init PROVE IInv
  OBVIOUS
<1>1. made \in Seq(Requests)
  <2>1. PICK n \in 0 .. Cardinality(Requests) : made \in [1 .. n -> Requests]
    BY DEF Init
  <2>2. n \in Nat
    BY <2>1
  <2> QED BY <2>1, <2>2
<1>2. NewRequest \in View
  BY DEF NewRequest, View
<1>3. ShapeInv
  BY <1>1, <1>2, EmptyShapes DEF Init, ShapeInv, Row, FirstRow
<1>4. (\A l \in Loads : CallInv(l)) /\ OneCurrent
  BY EmptyShapes DEF Init, CallInv, OneCurrent
<1>5. ResourceInv /\ FloorInv /\ TargetInv /\ CardInv
  BY EmptyShapes
     DEF Init, ResourceInv, Settled, Shown, FloorInv, TargetInv, CardInv, NewRequest
<1> QED BY <1>3, <1>4, <1>5 DEF IInv

\* A step that touches no call of useResource, nor what the screen read.
LEMMA ReadsUnchanged ==
    ASSUME IInv, UNCHANGED <<view, res, load, floor>>
    PROVE  (\A l \in Loads : CallInv(l)') /\ OneCurrent' /\ ResourceInv'
BY DEF IInv, CallInv, OneCurrent, ResourceInv, Settled, Shown

\* A step that touches no card, nor what the database says of it.
LEMMA CardsUnchanged ==
    ASSUME IInv, UNCHANGED <<server, act, form>>, floor' = floor
    PROVE  FloorInv' /\ CardInv' /\ (view' = view => TargetInv')
BY DEF server, IInv, FloorInv, TargetInv, CardInv, Exists, Matches

\* What the next state says of a card.
MatchesNext(card) == row'[card.id].no = card.no /\ ~row'[card.id].cut

LEMMA SharedShape ==
    ASSUME NEW card \in CardOf \cup {Null}, NEW r \in Requests
    PROVE  /\ Shared(card, r) \in CardOf \cup {Null}
           /\ card = Null => Shared(card, r) = Null
           /\ card # Null /\ Shared(card, r) # Null =>
                /\ Shared(card, r).id = card.id /\ Shared(card, r).no = card.no
                /\ card.id = r => Shared(card, r).mine = FALSE
                /\ card.id # r => Shared(card, r) = card
<1>1. CASE card # Null /\ card.id = r
  <2>1. \A x \in BOOLEAN : /\ [card EXCEPT !.mine = x] \in CardOf
                           /\ [card EXCEPT !.mine = x].id = card.id
                           /\ [card EXCEPT !.mine = x].no = card.no
                           /\ [card EXCEPT !.mine = x].mine = x
    BY <1>1 DEF CardOf
  <2>2. Shared(card, r) = [card EXCEPT !.mine = FALSE]
    BY <1>1 DEF Shared
  <2>3. /\ Shared(card, r) \in CardOf /\ Shared(card, r).mine = FALSE
        /\ Shared(card, r).id = card.id /\ Shared(card, r).no = card.no
    BY <2>1, <2>2, FALSE \in BOOLEAN, Zenon
  <2> QED BY <1>1, <2>3
<1>2. CASE ~(card # Null /\ card.id = r)
  BY <1>2 DEF Shared
<1> QED BY <1>1, <1>2

-----------------------------------------------------------------------------
(* The writes. *)

LEMMA RowShape ==
    ASSUME ShapeInv, NEW r \in Requests
    PROVE  /\ Regenerated(r) \in Row /\ Regenerated(r).cut = FALSE
           /\ Revoked(r) \in Row
<1>1. row[r] \in Row
  BY DEF ShapeInv
<1>2. \A x \in BOOLEAN, n \in Nat : /\ [row[r] EXCEPT !.no = n, !.cut = x] \in Row
                                   /\ [row[r] EXCEPT !.no = n, !.cut = x].cut = x
                                   /\ [row[r] EXCEPT !.cut = x] \in Row
  BY <1>1 DEF Row
<1>3. Regenerated(r) = [row[r] EXCEPT !.no = row[r].no + 1, !.cut = FALSE]
  BY <1>1 DEF Regenerated, Row
<1>4. row[r].no + 1 \in Nat
  BY <1>1 DEF Row
<1>5. Regenerated(r) \in Row /\ Regenerated(r).cut = FALSE
  BY <1>2, <1>3, <1>4, FALSE \in BOOLEAN, Zenon
<1>6. Revoked(r) \in Row
  BY <1>2, <1>4, TRUE \in BOOLEAN, Zenon DEF Revoked
<1> QED BY <1>5, <1>6

LEMMA InsertKeeps ==
    ASSUME ShapeInv, NEW r \in Requests, Insert(r)
    PROVE  /\ made' \in Seq(Requests) /\ row' = [row EXCEPT ![r] = FirstRow]
           /\ row' \in [Requests -> Row] /\ changes' = changes + 1
           /\ ~Exists(r) /\ Exists(r)' /\ \A s : Exists(s) => Exists(s)'
<1>1. made \in Seq(Requests) /\ made' = Append(made, r) /\ ~Exists(r)
  BY DEF ShapeInv, Insert
<1>2. \A i \in DOMAIN made : made'[i] = made[i] /\ i \in DOMAIN made'
  BY <1>1
<1>3. Len(made) + 1 \in DOMAIN made' /\ made'[Len(made) + 1] = r
  BY <1>1
<1>4. Exists(r)' /\ \A s : Exists(s) => Exists(s)'
  BY <1>2, <1>3 DEF Exists, Range
<1> QED BY <1>1, <1>4 DEF Insert, Write, ShapeInv, FirstRow, Row

LEMMA OtherCreatesKept == ASSUME IInv, NEW r \in Requests, OtherCreates(r) PROVE IInv'
<1>1. /\ Insert(r) /\ ShapeInv
      /\ UNCHANGED <<view, res, load, act, form, floor, walk>>
  BY DEF OtherCreates, IInv
<1>2. /\ made' \in Seq(Requests) /\ row' = [row EXCEPT ![r] = FirstRow]
      /\ row' \in [Requests -> Row] /\ changes' = changes + 1
      /\ ~Exists(r) /\ \A s : Exists(s) => Exists(s)'
  BY <1>1, InsertKeeps
<1>3. ShapeInv'
  BY <1>1, <1>2 DEF ShapeInv
<1>4. FloorInv'
  BY <1>1, <1>2 DEF IInv, FloorInv, ShapeInv, Act
<1>5. CardInv'
  <2>1. \A s \in Requests : Exists(s) => row'[s] = row[s]
    BY <1>1, <1>2 DEF ShapeInv
  <2>2. /\ form.issued # Null => form.issued \in CardOf
        /\ act.issued # Null => act.issued \in CardOf
    BY <1>1 DEF ShapeInv, Form, Act
  <2> QED BY <1>1, <1>2, <2>1, <2>2 DEF IInv, CardInv, Matches, CardOf
<1>6. TargetInv'
  BY <1>1, <1>2 DEF IInv, TargetInv
<1> QED BY <1>1, <1>3, <1>4, <1>5, <1>6, ReadsUnchanged DEF IInv

LEMMA OtherCutsOrRenewsKept == ASSUME IInv, NEW r \in Requests, OtherCutsOrRenews(r) PROVE IInv'
<1>0. PICK new \in {Regenerated(r), Revoked(r)} : Write(r, new)
  BY DEF OtherCutsOrRenews
<1>1. /\ ShapeInv /\ UNCHANGED <<made, view, res, load, floor, walk>>
      /\ form' = [form EXCEPT !.issued = Shared(form.issued, r)]
      /\ act' = [act EXCEPT !.issued = Shared(act.issued, r)]
      /\ form.issued \in CardOf \cup {Null} /\ act.issued \in CardOf \cup {Null}
  BY DEF OtherCutsOrRenews, IInv, ShapeInv, Form, Act
<1>2. /\ changes' = changes + 1 /\ row' = [row EXCEPT ![r] = new] /\ new \in Row
  BY <1>0, <1>1, RowShape DEF Write
<1>3. /\ Shared(form.issued, r) \in CardOf \cup {Null}
      /\ Shared(act.issued, r) \in CardOf \cup {Null}
  BY <1>1, SharedShape
<1>4. /\ form' \in Form /\ form'.issued = Shared(form.issued, r)
      /\ act' \in Act /\ act'.issued = Shared(act.issued, r)
      /\ act'.pc = act.pc /\ act'.kind = act.kind /\ act'.id = act.id /\ act'.asOf = act.asOf
      /\ act'.reload = act.reload
  BY <1>1, <1>3 DEF ShapeInv, Form, Act
<1>5. ShapeInv'
  BY <1>1, <1>2, <1>4 DEF ShapeInv
<1>6. FloorInv'
  BY <1>1, <1>2, <1>4 DEF IInv, FloorInv, ShapeInv, Act
<1>7. ASSUME NEW card \in CardOf \cup {Null}, Shared(card, r) # Null
      PROVE  /\ card # Null /\ Shared(card, r).id = card.id
             /\ Shared(card, r).mine => card.mine /\ Shared(card, r) = card /\ card.id # r
             /\ Matches(card) /\ card.id # r => MatchesNext(card)
  <2>1. /\ card # Null /\ Shared(card, r).id = card.id
        /\ card.id = r => Shared(card, r).mine = FALSE
        /\ card.id # r => Shared(card, r) = card
    BY <1>7, SharedShape
  <2>2. Matches(card) /\ card.id # r => MatchesNext(card)
    BY <1>1, <1>2, <2>1 DEF Matches, MatchesNext, ShapeInv, CardOf
  <2> QED BY <2>1, <2>2
<1>8. CardInv'
  <2>1. form'.issued # Null =>
           /\ Exists(form'.issued.id)
           /\ form'.issued.mine /\ (act'.pc = "served" => act'.id # form'.issued.id) =>
                MatchesNext(form'.issued)
    BY <1>1, <1>4, <1>7 DEF IInv, CardInv
  <2>2. act'.issued # Null =>
           /\ Exists(act'.issued.id)
           /\ act'.pc = "served" /\ act'.issued.mine => MatchesNext(act'.issued)
    BY <1>1, <1>4, <1>7 DEF IInv, CardInv
  <2> QED BY <1>1, <1>4, <2>1, <2>2 DEF IInv, CardInv, Matches, MatchesNext, Exists
<1>9. TargetInv'
  BY <1>1, <1>4 DEF IInv, TargetInv, Exists
<1> QED BY <1>1, <1>5, <1>6, <1>8, <1>9, ReadsUnchanged DEF IInv

LEMMA ActServedKept == ASSUME IInv, NEW r \in Requests, ActServed(r) PROVE IInv'
<1> DEFINE card == IF act.kind = "revoke" THEN Null ELSE Card(r, row'[r].no)
<1>1. /\ ShapeInv /\ act.pc = "sent"
      /\ UNCHANGED <<view, res, load, form, floor, walk>>
      /\ act' = [act EXCEPT !.pc = "served", !.id = r, !.asOf = changes', !.issued = card]
  BY DEF ActServed, IInv
<1>2. /\ made' \in Seq(Requests) /\ row' \in [Requests -> Row]
      /\ changes' \in {changes, changes + 1}
      /\ \A s \in Requests : s # r => row'[s] = row[s]
      /\ \A s : Exists(s) => Exists(s)'
      /\ act.kind # "revoke" => row'[r].cut = FALSE
      /\ act.kind \in {"create", "regenerate", "revoke"}
      /\ act.kind = "create" => ~Exists(r)
  <2>1. CASE act.kind = "create" /\ Insert(r)
    BY <1>1, <2>1, InsertKeeps DEF ShapeInv, FirstRow, Row
  <2>0. row[r] \in Row /\ Regenerated(r) \in Row /\ Regenerated(r).cut = FALSE
        /\ Revoked(r) \in Row
    BY <1>1, RowShape DEF ShapeInv
  <2>2. CASE act.kind = "regenerate" /\ r = act.id /\ Write(r, Regenerated(r)) /\ UNCHANGED made
    BY <1>1, <2>0, <2>2 DEF ShapeInv, Write, Exists
  <2>3. CASE act.kind = "revoke" /\ r = act.id /\ Write(r, Revoked(r)) /\ UNCHANGED made
    BY <1>1, <2>0, <2>3 DEF ShapeInv, Write, Exists
  <2>4. CASE act.kind = "revoke" /\ r = act.id /\ UNCHANGED server
    BY <1>1, <2>0, <2>4 DEF ShapeInv, server, Exists
  <2> QED BY <2>1, <2>2, <2>3, <2>4 DEF ActServed
<1>3. Exists(r)'
  <2>1. act.kind # "create" => Exists(r)
    BY <1>1 DEF IInv, TargetInv, ActServed
  <2>2. act.kind = "create" => Insert(r)
    BY DEF ActServed
  <2> QED BY <1>1, <1>2, <2>1, <2>2, InsertKeeps
<1>4. card \in CardOf \cup {Null}
  <2>1. row'[r].no \in Nat
    BY <1>2 DEF Row
  <2>2. \A x \in BOOLEAN, n \in Nat : [id |-> r, no |-> n, mine |-> x] \in CardOf
    BY DEF CardOf
  <2>3. Card(r, row'[r].no) \in CardOf
    BY <2>1, <2>2, TRUE \in BOOLEAN, Zenon DEF Card
  <2> QED BY <2>3
<1> HIDE DEF card
<1>5. /\ act' \in Act /\ act'.pc = "served" /\ act'.id = r /\ act'.asOf = changes'
      /\ act'.issued = card /\ act'.reload = act.reload
  <2>1. changes' \in Nat
    BY <1>1, <1>2 DEF ShapeInv
  <2> QED BY <1>1, <1>4, <2>1 DEF ShapeInv, Act
<1>6. ShapeInv'
  BY <1>1, <1>2, <1>5 DEF ShapeInv
<1>7. FloorInv'
  BY <1>1, <1>2, <1>5 DEF IInv, FloorInv, ShapeInv
<1>8. CardInv'
  <2>1. form.issued # Null =>
           /\ form.issued.id \in Range(made')
           /\ form.issued.mine /\ r # form.issued.id => MatchesNext(form.issued)
    BY <1>1, <1>2 DEF IInv, CardInv, Matches, MatchesNext, ShapeInv, Form, CardOf, Exists
  <2>2. card # Null => card.id \in Range(made') /\ MatchesNext(card)
    BY <1>1, <1>2, <1>3 DEF card, Card, MatchesNext, Exists
  <2> QED BY <1>1, <1>5, <2>1, <2>2 DEF IInv, CardInv, Matches, MatchesNext, Exists
<1>9. TargetInv'
  BY <1>1, <1>2, <1>5 DEF IInv, TargetInv
<1> QED BY <1>1, <1>6, <1>7, <1>8, <1>9, ReadsUnchanged DEF IInv


-----------------------------------------------------------------------------
(* The calls of useResource. *)

\* A step of one call that stays the last one, or stays out of date.
LEMMA CallStep ==
    ASSUME IInv, NEW l \in Loads, NEW r, IsCall(r), load' = [load EXCEPT ![l] = r],
           r.current = load[l].current, r.key = load[l].key, CallInv(l)',
           UNCHANGED <<server, view, res, act, form, floor>>
    PROVE  IInv'
<1>1. /\ load'[l] = r /\ \A k \in Loads \ {l} : load'[k] = load[k]
      /\ load' = [k \in Loads |-> load'[k]] /\ \A k \in Loads : IsCall(load'[k])
  BY DEF IInv, ShapeInv
<1>2. ShapeInv'
  BY <1>1 DEF IInv, ShapeInv, server
<1>3. \A k \in Loads : CallInv(k)'
  <2>1. \A k \in Loads \ {l} : CallInv(k)'
    BY <1>1 DEF IInv, CallInv
  <2> QED BY <2>1
<1>4. OneCurrent'
  BY <1>1 DEF IInv, OneCurrent
<1>5. ResourceInv'
  BY DEF IInv, ResourceInv, Settled, Shown
<1> QED BY <1>2, <1>3, <1>4, <1>5, CardsUnchanged DEF IInv

LEMMA ReadKept == ASSUME IInv, NEW l \in Loads, Read(l) PROVE IInv'
<1> DEFINE key == load[l].key
           data == IF key.at = "detail"
                   THEN [key |-> key, asOf |-> changes, shown |-> Summary(key.id)]
                   ELSE [key |-> key, asOf |-> changes, items |-> PageOf(key.page),
                         had |-> Len(made), total |-> 0]
           pc == IF key.at = "detail" THEN "answered" ELSE "counting"
           r == [load[l] EXCEPT !.pc = pc, !.data = data]
<1>1. /\ load[l].pc = "sent" /\ IsCall(load[l]) /\ load = [k \in Loads |-> load[k]]
      /\ changes \in Nat /\ floor <= changes /\ floor \in Nat
      /\ UNCHANGED <<server, view, res, act, form, floor>>
  BY DEF Read, IInv, ShapeInv, FloorInv
<1>2. load' = [load EXCEPT ![l].pc = pc, ![l].data = data]
  BY DEF Read
<1>3. data.key = key /\ data.asOf = changes /\ (pc = "counting" => IsPage(data))
  BY DEF IsPage
<1> HIDE DEF data
<1>4. load' = [load EXCEPT ![l] = r]
  BY <1>1, <1>2
<1>5. /\ IsCall(r) /\ r.pc = pc /\ r.data = data
      /\ r.current = load[l].current /\ r.key = load[l].key
  BY <1>1 DEF IsCall
<1>6. load'[l] = r
  BY <1>1, <1>4
<1> HIDE DEF r
<1>7. CallInv(l)'
  BY <1>1, <1>3, <1>5, <1>6 DEF IInv, CallInv
<1> QED BY <1>1, <1>4, <1>5, <1>7, CallStep

LEMMA CountKept == ASSUME IInv, NEW l \in Loads, Count(l) PROVE IInv'
<1> DEFINE data == [load[l].data EXCEPT !.total = Len(made)]
           r == [load[l] EXCEPT !.pc = "answered", !.data = data]
<1>1. /\ load[l].pc = "counting" /\ IsCall(load[l]) /\ load = [k \in Loads |-> load[k]]
      /\ IsPage(load[l].data)
      /\ UNCHANGED <<server, view, res, act, form, floor>>
      /\ load' = [load EXCEPT ![l].pc = "answered", ![l].data.total = Len(made)]
  BY DEF Count, IInv, ShapeInv, CallInv
<1>2. load' = [load EXCEPT ![l] = r]
  BY <1>1
<1>3. data.key = load[l].data.key /\ data.asOf = load[l].data.asOf
  BY <1>1 DEF IsPage
<1> HIDE DEF data
<1>4. /\ IsCall(r) /\ r.pc = "answered" /\ r.data = data
      /\ r.current = load[l].current /\ r.key = load[l].key
  BY <1>1 DEF IsCall
<1>5. load'[l] = r
  BY <1>1, <1>2
<1> HIDE DEF r
<1>6. CallInv(l)'
  BY <1>1, <1>3, <1>4, <1>5 DEF IInv, CallInv
<1> QED BY <1>1, <1>2, <1>4, <1>6, CallStep

LEMMA ReadFailsKept == ASSUME IInv, NEW l \in Loads, ReadFails(l) PROVE IInv'
<1> DEFINE r == [load[l] EXCEPT !.pc = "answered", !.data = Null]
<1>1. /\ load[l].pc \in {"sent", "counting", "answered"} /\ IsCall(load[l])
      /\ load = [k \in Loads |-> load[k]]
      /\ UNCHANGED <<server, view, res, act, form, floor>>
      /\ load' = [load EXCEPT ![l].pc = "answered", ![l].data = Null]
  BY DEF ReadFails, IInv, ShapeInv
<1>2. load' = [load EXCEPT ![l] = r]
  BY <1>1
<1>3. /\ IsCall(r) /\ r.pc = "answered" /\ r.data = Null
      /\ r.current = load[l].current /\ r.key = load[l].key
  BY <1>1 DEF IsCall
<1>4. load'[l] = r
  BY <1>1, <1>2
<1> HIDE DEF r
<1>5. CallInv(l)'
  BY <1>1, <1>3, <1>4 DEF IInv, CallInv
<1> QED BY <1>1, <1>2, <1>3, <1>5, CallStep

LEMMA DeliverKept == ASSUME IInv, NEW l \in Loads, Deliver(l) PROVE IInv'
<1> DEFINE data == load[l].data
<1>1. /\ load[l].pc = "answered" /\ load' = [load EXCEPT ![l] = NoLoad] /\ ShapeInv
      /\ act' \in {act, NoAct} /\ (act' # act => act.reload = l)
      /\ UNCHANGED <<server, view, form, floor>>
  BY DEF Deliver, IInv
<1>2. /\ load'[l] = NoLoad /\ \A k \in Loads \ {l} : load'[k] = load[k]
      /\ load' = [k \in Loads |-> load'[k]] /\ \A k \in Loads : IsCall(load'[k])
  BY <1>1, EmptyShapes DEF ShapeInv
<1>3. \/ ~load[l].current /\ res' = res
      \/ load[l].current /\ data = Null /\ res' = [res EXCEPT !.error = TRUE, !.loading = FALSE]
      \/ /\ load[l].current /\ data # Null
         /\ res' = [data |-> data, error |-> FALSE, loading |-> FALSE]
  BY DEF Deliver
<1>4. IsResource(res') /\ (data = Null /\ load[l].current => ~Shown')
  <2>1. CASE ~load[l].current /\ res' = res
    BY <1>1, <2>1 DEF ShapeInv
  <2>2. CASE res' = [res EXCEPT !.error = TRUE, !.loading = FALSE]
    <3>1. \A x, y \in BOOLEAN : /\ IsResource([res EXCEPT !.error = x, !.loading = y])
                                /\ [res EXCEPT !.error = x, !.loading = y].error = x
      BY <1>1 DEF ShapeInv, IsResource
    <3>2. IsResource(res') /\ res'.error = TRUE
      BY <2>2, <3>1, TRUE \in BOOLEAN, FALSE \in BOOLEAN, Zenon
    <3> QED BY <3>2 DEF Shown
  <2>3. CASE data # Null /\ res' = [data |-> data, error |-> FALSE, loading |-> FALSE]
    BY <2>3 DEF IsResource
  <2> QED BY <1>3, <2>1, <2>2, <2>3
<1>5. ShapeInv'
  BY <1>1, <1>2, <1>4, EmptyShapes DEF ShapeInv, server
<1>6. \A k \in Loads : CallInv(k)'
  <2>1. CASE load[l].current
    <3>1. \A k \in Loads \ {l} : ~load'[k].current
      BY <1>2, <2>1 DEF IInv, OneCurrent
    <3>2. \A k \in Loads \ {l} : CallInv(k)'
      BY <1>2, <3>1 DEF IInv, CallInv
    <3> QED BY <1>2, <3>2, EmptyShapes DEF CallInv
  <2>2. CASE ~load[l].current
    BY <1>1, <1>2, <1>3, <2>2, EmptyShapes DEF IInv, CallInv
  <2> QED BY <2>1, <2>2
<1>7. OneCurrent'
  BY <1>2, EmptyShapes DEF IInv, OneCurrent
<1>8. ResourceInv'
  <2>1. CASE ~load[l].current /\ res' = res
    BY <1>1, <2>1 DEF IInv, ResourceInv, Settled, Shown
  <2>2. CASE load[l].current /\ data = Null
    BY <1>4, <2>2 DEF ResourceInv, Settled
  <2>3. CASE load[l].current /\ data # Null /\ res'.data = data
    BY <1>1, <2>3 DEF IInv, CallInv, ResourceInv
  <2> QED BY <1>3, <2>1, <2>2, <2>3
<1>9. FloorInv' /\ TargetInv' /\ CardInv'
  <2>1. CASE act' = act
    BY <1>1, <2>1, CardsUnchanged
  <2>2. CASE act' = NoAct /\ act' # act
    <3>1. act.pc # "served"
      BY <1>1, <2>2, NullAssumption DEF IInv, CardInv
    <3> QED BY <1>1, <2>2, <3>1, EmptyShapes
            DEF server, IInv, FloorInv, TargetInv, CardInv, Exists, Matches
  <2> QED BY <1>1, <2>1, <2>2
<1> QED BY <1>5, <1>6, <1>7, <1>8, <1>9 DEF IInv

\* run() replaces the call before by a new one, of the address as it is now.
LEMMA BeginKept ==
    ASSUME ShapeInv, NEW l \in Loads, NEW calls, NEW v,
           calls = [k \in Loads |-> calls[k]],
           \A k \in Loads : IsCall(calls[k]) /\ calls[k].current = FALSE
                            /\ (calls[k].pc = "sent" => calls[k].data = Null)
                            /\ (calls[k].pc = "counting" => IsPage(calls[k].data)),
           load' = Begin(l, v, calls), view' = v, v.at # "new", res'.loading
    PROVE  /\ load' = [k \in Loads |-> load'[k]] /\ \A k \in Loads : IsCall(load'[k])
           /\ (\A k \in Loads : CallInv(k)') /\ OneCurrent' /\ ResourceInv'
<1> DEFINE r == [NoLoad EXCEPT !.pc = "sent", !.current = TRUE, !.key = v]
<1>1. \A x \in BOOLEAN : LET c == [NoLoad EXCEPT !.pc = "sent", !.current = x, !.key = v] IN
         IsCall(c) /\ c.pc = "sent" /\ c.key = v /\ c.data = Null /\ c.current = x
  BY DEF NoLoad, IsCall
<1>2. IsCall(r) /\ r.pc = "sent" /\ r.key = v /\ r.data = Null /\ r.current = TRUE
  BY <1>1, TRUE \in BOOLEAN, Zenon
<1>3. load' = [calls EXCEPT ![l] = r]
  BY DEF Begin
<1> HIDE DEF r
<1>4. load'[l] = r /\ \A k \in Loads \ {l} : load'[k] = calls[k]
  BY <1>3
<1>5. load' = [k \in Loads |-> load'[k]] /\ \A k \in Loads : IsCall(load'[k])
  BY <1>2, <1>3, <1>4
<1>6. \A k \in Loads : CallInv(k)'
  BY <1>2, <1>4 DEF CallInv
<1>7. OneCurrent'
  BY <1>2, <1>4 DEF OneCurrent
<1>8. ResourceInv'
  BY DEF ResourceInv, Settled
<1> QED BY <1>5, <1>6, <1>7, <1>8

\* What run() puts out of date.
LEMMA SupersededCalls ==
    ASSUME IInv
    PROVE  /\ Superseded = [k \in Loads |-> Superseded[k]]
           /\ \A k \in Loads : /\ IsCall(Superseded[k]) /\ Superseded[k].current = FALSE
                               /\ Superseded[k].pc = "sent" => Superseded[k].data = Null
                               /\ Superseded[k].pc = "counting" => IsPage(Superseded[k].data)
<1>1. \A k \in Loads, x \in BOOLEAN :
         LET c == [load[k] EXCEPT !.current = x] IN
         IsCall(c) /\ c.current = x /\ c.pc = load[k].pc /\ c.data = load[k].data
  BY DEF IInv, ShapeInv, IsCall
<1>2. \A k \in Loads : LET c == [load[k] EXCEPT !.current = FALSE] IN
         IsCall(c) /\ c.current = FALSE /\ c.pc = load[k].pc /\ c.data = load[k].data
  BY <1>1, FALSE \in BOOLEAN, Zenon
<1>3. \A k \in Loads : Superseded[k] = [load[k] EXCEPT !.current = FALSE]
  BY DEF Superseded
<1>4. \A k \in Loads : /\ load[k].pc = "sent" => load[k].data = Null
                       /\ load[k].pc = "counting" => IsPage(load[k].data)
  BY DEF IInv, CallInv
<1>5. Superseded = [k \in Loads |-> Superseded[k]]
  BY DEF Superseded
<1> QED BY <1>2, <1>3, <1>4, <1>5

-----------------------------------------------------------------------------
(* The screens. *)

LEMMA LoadingResource ==
    ASSUME IsResource(res)
    PROVE  IsResource([res EXCEPT !.loading = TRUE]) /\ [res EXCEPT !.loading = TRUE].loading
<1>1. \A x \in BOOLEAN : /\ IsResource([res EXCEPT !.loading = x])
                         /\ [res EXCEPT !.loading = x].loading = x
  BY DEF IsResource
<1> QED BY <1>1, TRUE \in BOOLEAN, Zenon

LEMMA OpenKept ==
    ASSUME IInv, NEW l \in Loads, NEW v \in View, Open(v, l)
    PROVE  IInv'
<1>1. /\ ShapeInv /\ view' = v /\ form' = NoForm /\ act' = NoAct /\ res' = NoResource
      /\ UNCHANGED <<server, floor>> /\ (v.at = "detail" => Exists(v.id))
  BY DEF Open, IInv
<1>2. /\ load' = [k \in Loads |-> load'[k]] /\ \A k \in Loads : IsCall(load'[k])
      /\ (\A k \in Loads : CallInv(k)') /\ OneCurrent' /\ ResourceInv'
  <2>1. CASE v.at = "new"
    <3>1. load' = [k \in Loads |-> NoLoad]
      BY <2>1 DEF Open
    <3>2. /\ load' = [k \in Loads |-> load'[k]] /\ \A k \in Loads : IsCall(load'[k])
          /\ (\A k \in Loads : CallInv(k)') /\ OneCurrent'
      BY <3>1, EmptyShapes DEF CallInv, OneCurrent
    <3>3. ResourceInv'
      BY <1>1, <2>1 DEF ResourceInv, Settled
    <3> QED BY <3>2, <3>3
  <2>2. CASE v.at # "new"
    <3> DEFINE calls == [k \in Loads |-> NoLoad]
    <3>1. load' = Begin(l, v, calls) /\ res'.loading = TRUE
      BY <1>1, <2>2, EmptyShapes DEF Open
    <3>2. /\ calls = [k \in Loads |-> calls[k]]
          /\ \A k \in Loads : /\ IsCall(calls[k]) /\ calls[k].current = FALSE
                              /\ calls[k].pc = "sent" => calls[k].data = Null
                              /\ calls[k].pc = "counting" => IsPage(calls[k].data)
      BY EmptyShapes
    <3> HIDE DEF calls
    <3> QED BY <1>1, <2>2, <3>1, <3>2, BeginKept
  <2> QED BY <2>1, <2>2
<1>3. ShapeInv'
  BY <1>1, <1>2, EmptyShapes DEF ShapeInv, server
<1>4. FloorInv' /\ TargetInv' /\ CardInv'
  BY <1>1, EmptyShapes DEF server, IInv, FloorInv, TargetInv, CardInv, Exists
<1> QED BY <1>2, <1>3, <1>4 DEF IInv

\* The reloads of a screen that stays: another page, a retry.
LEMMA ReloadKept ==
    ASSUME IInv, NEW l \in Loads, view' \in View, view'.at = view.at, view'.id = view.id,
           view.at # "new",
           load' = Begin(l, view', Superseded), res' = [res EXCEPT !.loading = TRUE],
           UNCHANGED <<server, act, form, floor>>
    PROVE  IInv'
<1>1. IsResource(res') /\ res'.loading
  BY LoadingResource DEF IInv, ShapeInv
<1>2. /\ load' = [k \in Loads |-> load'[k]] /\ \A k \in Loads : IsCall(load'[k])
      /\ (\A k \in Loads : CallInv(k)') /\ OneCurrent' /\ ResourceInv'
  BY <1>1, SupersededCalls, BeginKept DEF IInv
<1>3. ShapeInv'
  BY <1>1, <1>2 DEF IInv, ShapeInv, server
<1>4. FloorInv' /\ CardInv'
  BY CardsUnchanged
<1>5. TargetInv'
  BY DEF IInv, TargetInv, server, Exists
<1> QED BY <1>2, <1>3, <1>4, <1>5 DEF IInv

LEMMA TurnKept == ASSUME IInv, NEW l \in Loads, NEW page \in Pages, Turn(page, l) PROVE IInv'
<1>1. view \in View /\ page \in Nat \ {0}
  BY DEF IInv, ShapeInv, Pages
<1>2. view' = [view EXCEPT !.page = page] /\ view.at = "list"
  BY DEF Turn
<1>3. view' \in View /\ view'.at = view.at /\ view'.id = view.id
  BY <1>1, <1>2 DEF View
<1> QED BY <1>2, <1>3, ReloadKept DEF Turn

LEMMA RetryKept == ASSUME IInv, NEW l \in Loads, Retry(l) PROVE IInv'
BY ReloadKept DEF Retry, IInv, ShapeInv

\* The end of an action on the detail page: its card, and a reading that is after it.
LEMMA ActDoneKept == ASSUME IInv, NEW l \in Loads, ActDone(l) PROVE IInv'
<1>1. /\ ShapeInv /\ view.at = "detail" /\ act.pc = "served" /\ UNCHANGED <<server, view>>
      /\ form' = [confirmation |-> "none", issued |-> act.issued]
      /\ act' = [act EXCEPT !.pc = "reloading", !.reload = l]
      /\ load' = Begin(l, view, Superseded)
      /\ res' = [res EXCEPT !.loading = TRUE]
      /\ floor' = act.asOf
  BY DEF ActDone, IInv
<1>2. IsResource(res') /\ res'.loading
  BY <1>1, LoadingResource DEF ShapeInv
<1>3. /\ load' = [k \in Loads |-> load'[k]] /\ \A k \in Loads : IsCall(load'[k])
      /\ (\A k \in Loads : CallInv(k)') /\ OneCurrent' /\ ResourceInv'
  BY <1>1, <1>2, SupersededCalls, BeginKept
<1>4. /\ form' \in Form /\ form'.issued = act.issued
      /\ act' \in Act /\ act'.pc = "reloading" /\ act'.issued = act.issued
      /\ floor' \in Nat
  BY <1>1 DEF ShapeInv, Form, Act
<1>5. ShapeInv'
  BY <1>1, <1>2, <1>3, <1>4 DEF ShapeInv, server
<1>6. FloorInv' /\ TargetInv'
  BY <1>1, <1>4 DEF server, IInv, FloorInv, TargetInv, Exists
<1>7. CardInv'
  BY <1>1, <1>4 DEF server, IInv, CardInv, Matches, Exists
<1> QED BY <1>3, <1>5, <1>6, <1>7 DEF IInv

LEMMA CreatedKept == ASSUME IInv, Created PROVE IInv'
<1>1. /\ ShapeInv /\ view.at = "new" /\ act.pc = "served" /\ act' = NoAct
      /\ form' = [form EXCEPT !.issued = act.issued] /\ floor' = act.asOf
      /\ UNCHANGED <<server, view, res, load>>
  BY DEF Created, IInv
<1>2. form' \in Form /\ form'.issued = act.issued /\ floor' \in Nat
  BY <1>1 DEF ShapeInv, Form, Act
<1>3. ShapeInv'
  BY <1>1, <1>2, EmptyShapes DEF ShapeInv, server
<1>4. (\A k \in Loads : CallInv(k)') /\ OneCurrent' /\ ResourceInv'
  BY <1>1 DEF IInv, CallInv, OneCurrent, ResourceInv, Settled
<1>5. FloorInv' /\ TargetInv' /\ CardInv'
  BY <1>1, <1>2, EmptyShapes
     DEF server, IInv, FloorInv, TargetInv, CardInv, Matches, Exists
<1> QED BY <1>3, <1>4, <1>5 DEF IInv

LEMMA ActFailsKept == ASSUME IInv, ActFails PROVE IInv'
<1>1. /\ ShapeInv /\ act.pc \in {"sent", "served"} /\ act' = NoAct
      /\ UNCHANGED <<server, view, res, load, floor>>
      /\ form.issued \in CardOf \cup {Null} /\ act.id \in Requests \cup {Null}
  BY DEF ActFails, IInv, ShapeInv, Form, Act
<1>2. /\ form' \in Form
      /\ form'.issued # Null => /\ form.issued # Null /\ form'.issued.id = form.issued.id
                                /\ form'.issued.mine => form'.issued = form.issued
                                /\ form'.issued.mine /\ act.pc = "served" =>
                                     act.id # form.issued.id
  <2>1. CASE act.pc = "sent"
    BY <2>1 DEF ActFails, IInv, ShapeInv
  <2>2. CASE act.pc = "served" /\ act.id = Null
    <3>1. Shared(form.issued, Null) = form.issued
      BY <1>1, NullAssumption DEF Shared, CardOf
    <3>2. form' = form
      BY <1>1, <2>2, <3>1 DEF ActFails, ShapeInv, Form
    <3> QED BY <1>1, <2>2, <3>2, NullAssumption DEF ShapeInv, CardOf
  <2>3. CASE act.pc = "served" /\ act.id \in Requests
    <3>1. form' = [form EXCEPT !.issued = Shared(form.issued, act.id)]
      BY <2>3 DEF ActFails
    <3>2. Shared(form.issued, act.id) \in CardOf \cup {Null}
      BY <1>1, <2>3, SharedShape
    <3>3. form' \in Form /\ form'.issued = Shared(form.issued, act.id)
      BY <1>1, <3>1, <3>2 DEF ShapeInv, Form
    <3> QED BY <1>1, <2>3, <3>3, SharedShape
  <2> QED BY <1>1, <2>1, <2>2, <2>3
<1>3. ShapeInv'
  BY <1>1, <1>2, EmptyShapes DEF ShapeInv, server
<1>4. FloorInv' /\ TargetInv' /\ CardInv'
  BY <1>1, <1>2, EmptyShapes
     DEF server, IInv, FloorInv, TargetInv, CardInv, Matches, Exists
<1> QED BY <1>1, <1>3, <1>4, ReadsUnchanged DEF IInv

\* What only touches the form, and shows no new card.
LEMMA FormKept ==
    ASSUME IInv, form' \in Form, form'.issued \in {form.issued, Null},
           UNCHANGED <<server, view, res, load, act, floor>>
    PROVE  IInv'
<1>1. ShapeInv'
  BY DEF IInv, ShapeInv, server
<1>2. FloorInv' /\ TargetInv' /\ CardInv'
  BY DEF server, IInv, FloorInv, TargetInv, CardInv, Matches, Exists
<1> QED BY <1>1, <1>2, ReadsUnchanged DEF IInv

LEMMA ResetKept == ASSUME IInv, Reset PROVE IInv'
BY EmptyShapes, FormKept DEF Reset

LEMMA AskKept == ASSUME IInv, NEW kind \in {"regenerate", "revoke"}, Ask(kind) PROVE IInv'
<1>1. form' \in Form /\ form'.issued \in {form.issued, Null}
  BY DEF Ask, IInv, ShapeInv, Form
<1> QED BY <1>1, FormKept DEF Ask

LEMMA CancelKept == ASSUME IInv, Cancel PROVE IInv'
<1>1. form' \in Form /\ form'.issued \in {form.issued, Null}
  BY DEF Cancel, IInv, ShapeInv, Form
<1> QED BY <1>1, FormKept DEF Cancel

\* What only sends an action.
LEMMA SendKept ==
    ASSUME IInv, act' \in Act, act'.pc = "sent", act'.issued = Null, act'.reload = Null,
           act'.kind # "create" => Exists(act'.id), act.pc = "none",
           UNCHANGED <<server, view, res, load, form, floor>>
    PROVE  IInv'
<1>1. ShapeInv'
  BY DEF IInv, ShapeInv, server
<1>2. FloorInv' /\ TargetInv' /\ CardInv'
  BY DEF server, IInv, FloorInv, TargetInv, CardInv, Matches, Exists
<1> QED BY <1>1, <1>2, ReadsUnchanged DEF IInv

LEMMA SubmitKept == ASSUME IInv, Submit PROVE IInv'
<1>1. PICK accepted \in Verdicts :
         act' = [NoAct EXCEPT !.pc = "sent", !.kind = "create", !.accepted = accepted]
  BY DEF Submit
<1>2. accepted \in BOOLEAN
  BY Zenon DEF Verdicts, Accepts
<1>3. /\ act' \in Act /\ act'.pc = "sent" /\ act'.kind = "create"
      /\ act'.issued = Null /\ act'.reload = Null
  BY <1>1, <1>2 DEF NoAct, Act
<1> QED BY <1>3, SendKept DEF Submit

LEMMA ConfirmKept == ASSUME IInv, Confirm PROVE IInv'
<1>1. PICK days \in Days :
         act' = [NoAct EXCEPT
                   !.pc = "sent", !.kind = form.confirmation, !.id = view.id,
                   !.accepted = form.confirmation = "revoke" \/ DaysAllowed(RegenerateDays(days))]
  BY DEF Confirm
<1> DEFINE accepted == form.confirmation = "revoke" \/ DaysAllowed(RegenerateDays(days))
<1>2. /\ form.confirmation \in {"create", "regenerate", "revoke"}
      /\ view.id \in Requests \cup {Null} /\ Exists(view.id)
  BY DEF Confirm, IInv, ShapeInv, TargetInv, Form, View
<1>3. accepted \in BOOLEAN
  BY Zenon
<1> HIDE DEF accepted
<1>4. act' = [NoAct EXCEPT !.pc = "sent", !.kind = form.confirmation, !.id = view.id,
                           !.accepted = accepted]
  BY <1>1 DEF accepted
<1>5. /\ act' \in Act /\ act'.pc = "sent" /\ act'.id = view.id
      /\ act'.issued = Null /\ act'.reload = Null
  BY <1>2, <1>3, <1>4 DEF NoAct, Act
<1> QED BY <1>2, <1>5, SendKept DEF Confirm

-----------------------------------------------------------------------------
LEMMA StepIInv == IInv /\ [Next]_vars => IInv'
<1> SUFFICES ASSUME IInv, [Next]_vars PROVE IInv'
  OBVIOUS
<1>1. CASE \E r \in Requests : OtherCreates(r) \/ OtherCutsOrRenews(r) \/ ActServed(r)
  BY <1>1, OtherCreatesKept, OtherCutsOrRenewsKept, ActServedKept
<1>2. CASE \E l \in Loads : \/ Read(l) \/ Count(l) \/ ReadFails(l) \/ Deliver(l)
                            \/ Retry(l) \/ ActDone(l)
  BY <1>2, ReadKept, CountKept, ReadFailsKept, DeliverKept, RetryKept, ActDoneKept
<1>3. CASE \E l \in Loads, page \in Pages : Turn(page, l)
  BY <1>3, TurnKept
<1>4. CASE \E l \in Loads : \/ Open(Dashboard, l) \/ Open(NewRequest, l)
                            \/ \E r \in Requests : Open(Detail(r), l)
  <2>1. /\ Dashboard \in View /\ NewRequest \in View
        /\ \A r \in Requests : Detail(r) \in View
    BY DEF Dashboard, NewRequest, Detail, View
  <2> QED BY <1>4, <2>1, OpenKept
<1>5. CASE \E kind \in {"regenerate", "revoke"} : Ask(kind)
  BY <1>5, AskKept
<1>6. CASE Submit \/ Reset \/ Cancel \/ Confirm \/ ActFails \/ Created
  BY <1>6, SubmitKept, ResetKept, CancelKept, ConfirmKept, ActFailsKept, CreatedKept
<1>7. CASE UNCHANGED vars
  <2>1. UNCHANGED <<server, view, res, load, act, form, floor>>
    BY <1>7 DEF vars, server
  <2>2. ShapeInv'
    BY <2>1 DEF IInv, ShapeInv, server
  <2> QED BY <2>1, <2>2, ReadsUnchanged, CardsUnchanged DEF IInv
<1> QED BY <1>1, <1>2, <1>3, <1>4, <1>5, <1>6, <1>7 DEF Next

\* Every reachable state satisfies the inductive invariant.
THEOREM InductiveInvariant == Spec => []IInv
BY InitIInv, StepIInv, PTL DEF Spec

\* use-resource.ts: however many calls are in flight and in whatever order they are answered, a
\* screen that waits for nothing shows the page or the request of its address.
THEOREM TheLastAnswerIsShown == Spec => []LastAnswerShown
<1>1. IInv => LastAnswerShown
  BY DEF IInv, ResourceInv, LastAnswerShown
<1> QED BY <1>1, InductiveInvariant, PTL

\* request-detail-page.tsx: no screen settles on a reading made before the last action that was
\* acknowledged to this tab.
THEOREM NoScreenIsOlderThanTheAction == Spec => []ScreenAsOfLastAction
<1>1. IInv => ScreenAsOfLastAction
  BY DEF IInv, ResourceInv, ScreenAsOfLastAction
<1> QED BY <1>1, InductiveInvariant, PTL

\* issued-link-card.tsx: the address and the code of a card are those of its request's link, unless
\* another tab changed it or an answer was lost.
THEOREM CardsOpenTheirRequest == Spec => []CardOpensTheRequest
<1>1. IInv => CardOpensTheRequest
  BY DEF IInv, CardInv, Matches, CardOpensTheRequest
<1> QED BY <1>1, InductiveInvariant, PTL

-----------------------------------------------------------------------------
(* The walk through the pages. Of a page that was read, the requests it shows are known by *)
(* their rank in `made`, where a request keeps its place.                                   *)

\* The page shows the requests of its ranks, counted from the end of what there was.
Covers(requests, d, page) ==
    \A j \in 1 .. d.had : j > d.had - Skip(page) - PageSize /\ j <= d.had - Skip(page) =>
        requests[j] \in ItemsOf(d)

\* A page just read, once more than the one the walk is at.
PageInv(l) ==
    LET d == load[l].data IN
    load[l].current /\ view.at = "list" /\ (d # Null \/ load[l].pc = "counting") =>
        /\ d.had \in Nat /\ d.had <= Len(made) /\ Covers(made, d, view.page)
        /\ load[l].pc = "answered" => d.total \in Nat /\ d.had <= d.total
        /\ walk.at # 0 => res.data.had <= d.had

\* What the walk still owes is further than the page it is at.
WalkInv ==
    walk.at # 0 =>
        /\ view.at = "list" /\ walk.at \in Nat
        /\ res.data # Null /\ res.data.key.page = walk.at
        /\ res.data.had \in Nat /\ res.data.had <= Len(made)
        /\ res.data.total \in Nat /\ res.data.had <= res.data.total
        /\ \A x \in walk.owed :
              \E j \in 1 .. res.data.had :
                  x = made[j] /\ j <= res.data.had - Skip(walk.at) - PageSize

WPages == WalkInv /\ \A l \in Loads : PageInv(l)

\* What NothingSkipped needs, apart from the rest, which is inductive without it.
WInv == IInv /\ WPages

LEMMA SkipFacts ==
    /\ \A p \in Nat \ {0} : Skip(p) \in Nat /\ Skip(p + 1) = Skip(p) + PageSize
    /\ Skip(1) = 0
<1>1. PageSize \in Nat
  BY SizesAssumption
<1>2. \A q \in Nat : q * PageSize \in Nat /\ (q + 1) * PageSize = q * PageSize + PageSize
  BY <1>1
<1>3. ASSUME NEW p \in Nat \ {0} PROVE Skip(p) \in Nat /\ Skip(p + 1) = Skip(p) + PageSize
  <2>1. p - 1 \in Nat /\ (p + 1) - 1 = (p - 1) + 1
    OBVIOUS
  <2> QED BY <1>2, <2>1 DEF Skip
<1> QED BY <1>1, <1>3 DEF Skip

\* The page whose "Suivant" is disabled ends the list.
LEMMA LastPageEnds ==
    ASSUME NEW total \in Nat, NEW p \in Nat \ {0}, PagesOf(total) <= p
    PROVE  total <= Skip(p) + PageSize
<1> DEFINE n == total + PageSize - 1
           q == n \div PageSize
<1>1. PageSize \in Nat \ {0} /\ n \in Nat
  BY SizesAssumption
<1>2. q \in Nat /\ n = PageSize * q + (n % PageSize) /\ n % PageSize \in 0 .. PageSize - 1
  BY <1>1
<1>3. q <= p
  BY DEF PagesOf
<1> HIDE DEF q
<1>4. p - q \in Nat
  BY <1>2, <1>3
<1>5. PageSize * p = PageSize * q + PageSize * (p - q) /\ PageSize * (p - q) \in Nat
  BY <1>1, <1>2, <1>4
<1>6. Skip(p) + PageSize = PageSize * p
  BY <1>1 DEF Skip
<1> QED BY <1>1, <1>2, <1>5, <1>6

LEMMA ReadCovers ==
    ASSUME ShapeInv, NEW page \in Nat \ {0}, NEW d,
           d.items = PageOf(page), d.had = Len(made)
    PROVE  Covers(made, d, page)
<1> DEFINE n == Len(made)
           s == Skip(page)
           last == IF n < s + PageSize THEN n ELSE s + PageSize
<1>1. made \in Seq(Requests) /\ n \in Nat /\ s \in Nat /\ PageSize \in Nat
  BY SkipFacts, SizesAssumption DEF ShapeInv
<1>2. PageOf(page) = [i \in 1 .. (IF last < s THEN 0 ELSE last - s) |->
                         Summary(Reverse(made)[s + i])]
  BY DEF PageOf
<1> HIDE DEF s
<1>3. SUFFICES ASSUME NEW j \in 1 .. n, j > n - s - PageSize, j <= n - s
               PROVE  made[j] \in ItemsOf(d)
  BY DEF Covers, s
<1> DEFINE i == n - j + 1 - s
<1>4. i \in 1 .. (IF last < s THEN 0 ELSE last - s) /\ s + i \in 1 .. n /\ n - (s + i) + 1 = j
  BY <1>1, <1>3
<1>5. Reverse(made)[s + i] = made[j]
  BY <1>1, <1>4 DEF Reverse
<1> HIDE DEF i, last
<1>6. i \in DOMAIN d.items /\ d.items[i].id = made[j]
  BY <1>2, <1>4, <1>5 DEF Summary
<1> QED BY <1>6 DEF ItemsOf

\* A step that leaves the reads alone: requests are only added after those there are.
LEMMA WalkUnmoved ==
    ASSUME WInv, UNCHANGED <<view, res, load, walk>>, made' \in Seq(Requests),
           Len(made) <= Len(made'), \A j \in 1 .. Len(made) : made'[j] = made[j]
    PROVE  WPages'
<1>1. Len(made) \in Nat /\ Len(made') \in Nat
  BY DEF WInv, IInv, ShapeInv
<1>2. ASSUME NEW l \in Loads PROVE PageInv(l)'
  <2>1. PageInv(l)
    BY DEF WInv, WPages
  <2>2. SUFFICES ASSUME load[l].current, view.at = "list",
                        load[l].data # Null \/ load[l].pc = "counting"
                 PROVE  PageInv(l)'
    BY DEF PageInv
  <2>3. /\ load[l].data.had \in Nat /\ load[l].data.had <= Len(made')
        /\ \A j \in 1 .. load[l].data.had : made'[j] = made[j]
    BY <1>1, <2>1, <2>2 DEF PageInv
  <2>4. Covers(made', load[l].data, view.page)
    BY <2>1, <2>2, <2>3 DEF PageInv, Covers
  <2> QED BY <2>1, <2>2, <2>3, <2>4 DEF PageInv
<1>3. WalkInv'
  BY <1>1 DEF WInv, WPages, WalkInv
<1> QED BY <1>2, <1>3 DEF WPages

\* A new call of the same screen, of which nothing is read yet.
LEMMA WalkReread ==
    ASSUME WInv, NEW l \in Loads, NEW v, load' = Begin(l, v, Superseded),
           UNCHANGED <<server, walk>>, view'.at = view.at, res'.data = res.data
    PROVE  WPages'
<1> DEFINE r == [NoLoad EXCEPT !.pc = "sent", !.current = TRUE, !.key = v]
<1>1. /\ Superseded = [k \in Loads |-> Superseded[k]]
      /\ \A k \in Loads : Superseded[k].current = FALSE
  BY SupersededCalls DEF WInv
<1>2. r.pc = "sent" /\ r.data = Null
  BY DEF NoLoad
<1> HIDE DEF r
<1>3. load'[l] = r /\ \A k \in Loads \ {l} : load'[k] = Superseded[k]
  BY <1>1 DEF Begin, r
<1>4. \A k \in Loads : PageInv(k)'
  BY <1>1, <1>2, <1>3 DEF PageInv
<1>5. WalkInv'
  BY DEF WInv, WPages, WalkInv, server
<1> QED BY <1>4, <1>5 DEF WPages

LEMMA WalkRead == ASSUME WInv, NEW l \in Loads, Read(l) PROVE WPages'
<1>1. /\ load[l].pc = "sent" /\ IsCall(load[l]) /\ load = [k \in Loads |-> load[k]] /\ ShapeInv
      /\ UNCHANGED <<server, view, res, walk>> /\ CallInv(l)
  BY DEF Read, WInv, IInv, ShapeInv
<1>2. \A k \in Loads \ {l} : load'[k] = load[k]
  BY <1>1 DEF Read
<1>3. \A k \in Loads \ {l} : PageInv(k)'
  BY <1>1, <1>2 DEF WInv, WPages, PageInv, server
<1>4. PageInv(l)'
  <2> DEFINE d == [key |-> load[l].key, asOf |-> changes, items |-> PageOf(view.page),
                   had |-> Len(made), total |-> 0]
  <2>1. SUFFICES ASSUME load'[l].current, view.at = "list" PROVE PageInv(l)'
    BY <1>1 DEF PageInv
  <2>2. load[l].current /\ load[l].key = view
    BY <1>1, <2>1 DEF Read, IsCall, CallInv
  <2>3. load'[l].pc = "counting" /\ load'[l].data = d
    BY <1>1, <2>1, <2>2 DEF Read, IsCall
  <2>4. d.items = PageOf(view.page) /\ d.had = Len(made)
    OBVIOUS
  <2> HIDE DEF d
  <2>5. view.page \in Nat \ {0} /\ Len(made) \in Nat
    BY <1>1 DEF ShapeInv, View
  <2>6. Covers(made, d, view.page)
    BY <1>1, <2>4, <2>5, ReadCovers
  <2>7. walk.at # 0 => res.data.had <= d.had
    BY <2>4 DEF WInv, WPages, WalkInv
  <2> QED BY <1>1, <2>3, <2>4, <2>5, <2>6, <2>7 DEF PageInv, server
<1>5. WalkInv'
  BY <1>1 DEF WInv, WPages, WalkInv, server
<1> QED BY <1>3, <1>4, <1>5 DEF WPages

LEMMA WalkCount == ASSUME WInv, NEW l \in Loads, Count(l) PROVE WPages'
<1>1. /\ load[l].pc = "counting" /\ IsCall(load[l]) /\ load = [k \in Loads |-> load[k]] /\ ShapeInv
      /\ UNCHANGED <<server, view, res, walk>> /\ IsPage(load[l].data) /\ PageInv(l)
      /\ load' = [load EXCEPT ![l].pc = "answered", ![l].data.total = Len(made)]
  BY DEF Count, WInv, WPages, IInv, ShapeInv, CallInv
<1>2. \A k \in Loads \ {l} : load'[k] = load[k]
  BY <1>1
<1>3. \A k \in Loads \ {l} : PageInv(k)'
  BY <1>1, <1>2 DEF WInv, WPages, PageInv, server
<1>4. PageInv(l)'
  <2> DEFINE d == load[l].data
             e == [d EXCEPT !.total = Len(made)]
  <2>1. load'[l].current = load[l].current /\ load'[l].data = e
    BY <1>1 DEF IsCall
  <2>2. e.items = d.items /\ e.had = d.had /\ e.total = Len(made)
    BY <1>1 DEF IsPage
  <2> HIDE DEF e
  <2>3. Len(made) \in Nat
    BY <1>1 DEF ShapeInv
  <2> QED BY <1>1, <2>1, <2>2, <2>3 DEF PageInv, Covers, ItemsOf, server
<1>5. WalkInv'
  BY <1>1 DEF WInv, WPages, WalkInv, server
<1> QED BY <1>3, <1>4, <1>5 DEF WPages

LEMMA WalkReadFails == ASSUME WInv, NEW l \in Loads, ReadFails(l) PROVE WPages'
<1>1. /\ IsCall(load[l]) /\ load = [k \in Loads |-> load[k]]
      /\ UNCHANGED <<server, view, res, walk>>
      /\ load' = [load EXCEPT ![l].pc = "answered", ![l].data = Null]
  BY DEF ReadFails, WInv, IInv, ShapeInv
<1>2. \A k \in Loads \ {l} : load'[k] = load[k]
  BY <1>1
<1>3. load'[l].pc = "answered" /\ load'[l].data = Null
  BY <1>1 DEF IsCall
<1>4. \A k \in Loads : PageInv(k)'
  BY <1>1, <1>2, <1>3 DEF WInv, WPages, PageInv, server
<1>5. WalkInv'
  BY <1>1 DEF WInv, WPages, WalkInv, server
<1> QED BY <1>4, <1>5 DEF WPages

\* What the screen owes once it shows one more page of the walk.
LEMMA WalkedToKept ==
    ASSUME WInv, NEW l \in Loads, load[l].current, load[l].pc = "answered",
           load[l].data # Null, view.at = "list",
           res'.data = load[l].data, walk' = WalkedTo(load[l].data), UNCHANGED <<server, view>>
    PROVE  WalkInv'
<1> DEFINE d == load[l].data
           p == view.page
           Owes(at, owed) == \A x \in owed : \E j \in 1 .. d.had :
                                x = made[j] /\ j <= d.had - Skip(at) - PageSize
<1>1. /\ d.key = view /\ d.had \in Nat /\ d.had <= Len(made) /\ Covers(made, d, p)
      /\ d.total \in Nat /\ d.had <= d.total /\ (walk.at # 0 => res.data.had <= d.had)
      /\ p \in Nat \ {0} /\ PageSize \in Nat /\ Skip(p) \in Nat
  BY SkipFacts, SizesAssumption DEF WInv, WPages, IInv, CallInv, PageInv, ShapeInv, View
<1>2. \A j \in 1 .. d.had : j <= d.had - Skip(p) /\ made[j] \notin ItemsOf(d) =>
                              j <= d.had - Skip(p) - PageSize
  BY <1>1 DEF Covers
<1>3. \/ walk' = NoWalk
      \/ walk'.at = p /\ Owes(p, walk'.owed)
  <2>1. CASE p = 1
    <3>1. walk'.at = 1 /\ walk'.owed = {made[i] : i \in 1 .. d.had} \ ItemsOf(d)
      BY <1>1, <2>1 DEF WalkedTo
    <3>2. ASSUME NEW x \in walk'.owed
          PROVE  \E j \in 1 .. d.had : x = made[j] /\ j <= d.had - Skip(p) - PageSize
      <4>1. PICK j \in 1 .. d.had : x = made[j] /\ made[j] \notin ItemsOf(d)
        BY <3>1, <3>2
      <4>2. Skip(p) = 0
        BY <2>1, SkipFacts
      <4>3. j <= d.had - Skip(p)
        BY <1>1, <4>2
      <4> QED BY <1>2, <4>1, <4>3
    <3> QED BY <2>1, <3>1, <3>2
  <2>2. CASE p # 1 /\ p \in {walk.at, walk.at + 1}
    <3>1. walk'.at = p /\ walk'.owed = walk.owed \ ItemsOf(d)
      BY <1>1, <2>2 DEF WalkedTo
    <3>2. walk.at # 0
      BY <1>1, <2>2
    <3>3. /\ walk.at \in Nat \ {0} /\ res.data.had \in Nat
          /\ \A x \in walk.owed : \E j \in 1 .. res.data.had :
                x = made[j] /\ j <= res.data.had - Skip(walk.at) - PageSize
      BY <3>2 DEF WInv, WPages, WalkInv
    <3>4. Skip(walk.at) \in Nat /\ Skip(walk.at + 1) = Skip(walk.at) + PageSize
      BY <3>3, SkipFacts
    <3>5. ASSUME NEW x \in walk'.owed
          PROVE  \E j \in 1 .. d.had : x = made[j] /\ j <= d.had - Skip(p) - PageSize
      <4>1. PICK j \in 1 .. res.data.had :
               x = made[j] /\ j <= res.data.had - Skip(walk.at) - PageSize
        BY <3>1, <3>3, <3>5
      <4>2. j \in 1 .. d.had /\ j <= d.had - Skip(p)
        <5>1. res.data.had <= d.had
          BY <1>1, <3>2
        <5>2. Skip(p) <= Skip(walk.at) + PageSize
          BY <1>1, <2>2, <3>4
        <5> QED BY <1>1, <3>3, <3>4, <4>1, <5>1, <5>2
      <4>3. made[j] \notin ItemsOf(d)
        BY <3>1, <3>5, <4>1
      <4> QED BY <1>2, <4>1, <4>2, <4>3
    <3> QED BY <3>1, <3>5
  <2>3. CASE p # 1 /\ p \notin {walk.at, walk.at + 1}
    BY <1>1, <2>3 DEF WalkedTo
  <2> QED BY <2>1, <2>2, <2>3
<1>4. CASE walk' = NoWalk
  BY <1>4 DEF NoWalk, WalkInv
<1>5. CASE walk'.at = p /\ Owes(p, walk'.owed)
  BY <1>1, <1>5 DEF WalkInv, server
<1> QED BY <1>3, <1>4, <1>5

LEMMA WalkDeliver == ASSUME WInv, NEW l \in Loads, Deliver(l) PROVE WPages'
<1>1. /\ load[l].pc = "answered" /\ load' = [load EXCEPT ![l] = NoLoad] /\ ShapeInv
      /\ IsResource(res) /\ load = [k \in Loads |-> load[k]]
      /\ UNCHANGED <<server, view>>
  BY DEF Deliver, WInv, IInv, ShapeInv
<1>2. /\ load'[l].current = FALSE /\ \A k \in Loads \ {l} : load'[k] = load[k]
  BY <1>1, EmptyShapes
<1>3. CASE ~load[l].current
  <2>1. UNCHANGED <<res, walk>>
    BY <1>3 DEF Deliver
  <2>2. \A k \in Loads : PageInv(k)'
    BY <1>1, <1>2, <2>1 DEF WInv, WPages, PageInv, server
  <2> QED BY <1>1, <2>1, <2>2 DEF WInv, WPages, WalkInv, server
<1>4. CASE load[l].current
  <2>1. \A k \in Loads : ~load'[k].current
    BY <1>2, <1>4 DEF WInv, IInv, OneCurrent
  <2>2. \A k \in Loads : PageInv(k)'
    BY <2>1 DEF PageInv
  <2>3. CASE load[l].data = Null
    <3>1. walk' = walk /\ res'.data = res.data
      BY <1>1, <1>4, <2>3 DEF Deliver, IsResource
    <3> QED BY <1>1, <2>2, <3>1 DEF WInv, WPages, WalkInv, server
  <2>4. CASE load[l].data # Null
    <3>1. /\ res'.data = load[l].data
          /\ walk' = IF view.at = "list" THEN WalkedTo(load[l].data) ELSE NoWalk
      BY <1>4, <2>4 DEF Deliver
    <3>2. WalkInv'
      <4>1. CASE view.at = "list"
        BY <1>1, <1>4, <2>4, <3>1, <4>1, WalkedToKept
      <4>2. CASE view.at # "list"
        BY <3>1, <4>2 DEF NoWalk, WalkInv
      <4> QED BY <4>1, <4>2
    <3> QED BY <2>2, <3>2 DEF WPages
  <2> QED BY <2>3, <2>4
<1> QED BY <1>3, <1>4

LEMMA WalkOpen == ASSUME WInv, NEW l \in Loads, NEW v \in View, Open(v, l) PROVE WPages'
<1>1. WalkInv'
  BY DEF Open, WalkInv, NoWalk
<1>2. \A k \in Loads : load'[k].current => load'[k].data = Null /\ load'[k].pc # "counting"
  <2>1. NoLoad.current = FALSE /\ NoLoad.data = Null
    BY EmptyShapes
  <2> DEFINE r == [NoLoad EXCEPT !.pc = "sent", !.current = TRUE, !.key = v]
  <2>2. r.pc = "sent" /\ r.data = Null
    BY DEF NoLoad
  <2> HIDE DEF r
  <2>3. \A k \in Loads : load'[k] \in {NoLoad, r}
    BY DEF Open, Begin, r
  <2> QED BY <2>1, <2>2, <2>3
<1> QED BY <1>1, <1>2 DEF PageInv, WPages

\* A step of the server appends at most one request, and leaves the reads alone.
LEMMA WalkInsert ==
    ASSUME WInv, NEW r \in Requests, Insert(r) \/ made' = made,
           UNCHANGED <<view, res, load, walk>>
    PROVE  WPages'
<1>1. made \in Seq(Requests) /\ Len(made) \in Nat
  BY DEF WInv, IInv, ShapeInv
<1>2. made' = made \/ made' = Append(made, r)
  BY DEF Insert
<1>3. /\ made' \in Seq(Requests) /\ Len(made) <= Len(made')
      /\ \A j \in 1 .. Len(made) : made'[j] = made[j]
  BY <1>1, <1>2
<1> QED BY <1>3, WalkUnmoved

LEMMA WalkInit == Init => WPages
BY EmptyShapes DEF Init, WPages, WalkInv, PageInv, NoWalk

LEMMA StepWalk == WInv /\ [Next]_vars => WPages'
<1> SUFFICES ASSUME WInv, [Next]_vars PROVE WPages'
  OBVIOUS
<1>1. ASSUME NEW r \in Requests, OtherCreates(r) \/ OtherCutsOrRenews(r) \/ ActServed(r)
      PROVE  WPages'
  BY <1>1, WalkInsert DEF OtherCreates, OtherCutsOrRenews, ActServed, server
<1>2. ASSUME NEW l \in Loads, Read(l) \/ Count(l) \/ ReadFails(l) \/ Deliver(l) PROVE WPages'
  BY <1>2, WalkRead, WalkCount, WalkReadFails, WalkDeliver
<1>3. IsResource(res)
  BY DEF WInv, IInv, ShapeInv
<1>4. [res EXCEPT !.loading = TRUE].data = res.data
  BY <1>3 DEF IsResource
<1>5. ASSUME NEW l \in Loads, Retry(l) \/ ActDone(l) PROVE WPages'
  BY <1>4, <1>5, WalkReread DEF Retry, ActDone
<1>6. ASSUME NEW l \in Loads, NEW page \in Pages, Turn(page, l) PROVE WPages'
  <2>1. view'.at = view.at
    BY <1>6 DEF Turn, WInv, IInv, ShapeInv, View
  <2> QED BY <1>4, <1>6, <2>1, WalkReread DEF Turn
<1>7. ASSUME NEW l \in Loads, \/ Open(Dashboard, l) \/ Open(NewRequest, l)
                              \/ \E r \in Requests : Open(Detail(r), l)
      PROVE  WPages'
  <2>1. /\ Dashboard \in View /\ NewRequest \in View
        /\ \A r \in Requests : Detail(r) \in View
    BY DEF Dashboard, NewRequest, Detail, View
  <2> QED BY <1>7, <2>1, WalkOpen
<1>8. CASE \/ Submit \/ Reset \/ Cancel \/ Confirm \/ ActFails \/ Created \/ UNCHANGED vars
           \/ \E kind \in {"regenerate", "revoke"} : Ask(kind)
  <2>1. UNCHANGED <<made, view, res, load, walk>>
    BY <1>8 DEF Submit, Reset, Cancel, Confirm, ActFails, Created, Ask, server, vars
  <2>2. made \in Seq(Requests) /\ Len(made) \in Nat
    BY DEF WInv, IInv, ShapeInv
  <2> QED BY <2>1, <2>2, WalkUnmoved
<1> QED BY <1>1, <1>2, <1>5, <1>6, <1>7, <1>8 DEF Next

\* dashboard-page.tsx and requests.service.ts (list): creations shift the pages under the reader,
\* and whoever turns them from the first to the last still sees every request there was.
THEOREM NoRequestIsSkipped == Spec => []NothingSkipped
<1>1. Init => WInv
  BY InitIInv, WalkInit DEF WInv
<1>2. WInv /\ [Next]_vars => WInv'
  BY StepIInv, StepWalk DEF WInv
<1>3. WInv => NothingSkipped
  <2> SUFFICES ASSUME WInv, Settled, view.at = "list", walk.at = view.page,
                      view.page >= PagesOf(res.data.total)
               PROVE  walk.owed = {}
    BY DEF NothingSkipped
  <2>1. view.page \in Nat \ {0} /\ WalkInv
    BY DEF WInv, WPages, IInv, ShapeInv, View
  <2>2. /\ res.data.had \in Nat /\ res.data.total \in Nat /\ res.data.had <= res.data.total
        /\ \A x \in walk.owed : \E j \in 1 .. res.data.had :
              x = made[j] /\ j <= res.data.had - Skip(walk.at) - PageSize
    BY <2>1 DEF WalkInv
  <2>3. Skip(walk.at) \in Nat /\ PageSize \in Nat
    BY <2>1, SkipFacts, SizesAssumption
  <2>4. PagesOf(res.data.total) <= walk.at
    BY <2>1, <2>2, SizesAssumption DEF PagesOf
  <2>5. res.data.total <= Skip(walk.at) + PageSize
    BY <2>1, <2>2, <2>4, LastPageEnds
  <2> QED BY <2>2, <2>3, <2>5
<1> QED BY <1>1, <1>2, <1>3, PTL DEF Spec
=============================================================================

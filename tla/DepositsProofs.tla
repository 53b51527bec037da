--------------------------- MODULE DepositsProofs ---------------------------
(***************************************************************************)
(* The invariants of Deposits, for any number of pieces, keys and handlers. *)
(* The inductive invariant adds to them what each handler relies on while  *)
(* the others run: until its row is written its key belongs to it alone,   *)
(* and what it is about to erase is named by no row.                       *)
(***************************************************************************)
EXTENDS Deposits, TLAPS

Unwritten == {"put", "upsert", "insert", "update"}
Uploaded == {"upsert", "insert", "update"}

\* The handlers whose key may be in the bucket without a row that names it.
Holding == Unwritten \cup {"undo"}

KeysInv ==
    /\ accepted \subseteq drawn /\ lost \subseteq accepted
    /\ \A i \in Items : Received(i) => files[i] \in accepted
    /\ \A i, j \in Items : Received(i) /\ files[i] = files[j] => i = j

\* previousKey is the key of no other piece, and is replaced by the row this handler writes.
PreviousInv(w) ==
    w.previous # Null =>
        /\ w.previous \in accepted /\ Received(w.item)
        /\ \A j \in Items : files[j] = w.previous => j = w.item

HandlerInv(w) ==
    /\ w.pc \in Unwritten => w.item \in Items /\ w.key \in drawn \ accepted /\ PreviousInv(w)
    /\ w.pc \in Uploaded => w.key \in bucket
    /\ w.pc = "undo" => w.key \in drawn /\ (w.key \in accepted => w.key \in lost)
    /\ w.pc = "forget" => w.previous \in accepted /\ \A j \in Items : files[j] # w.previous
    /\ w.pc = "get" => w.item \in Items /\ Received(w.item) /\ w.outcome = Null

HandlersInv == \A h \in Handlers : HandlerInv(work[h])

\* No two handlers hold the same key.
KeysApart ==
    \A h, g \in Handlers :
        work[h].pc \in Holding /\ work[g].pc \in Holding /\ work[h].key = work[g].key => h = g

\* Every object was accepted, was left to a failed call, or is still held by its handler.
ObjectsInv ==
    \A k \in bucket : k \in accepted \/ k \in leaked
                      \/ \E h \in Handlers : work[h].pc \in Holding \ {"put"} /\ work[h].key = k

\* A complete request is counted, or is about to be.
CountInv ==
    StillMissing = {} /\ Items # {} /\ ~missed /\ lost = {} =>
        completed > 0 \/ \E h \in Handlers : work[h].pc = "count"

IInv ==
    /\ TypeOK /\ KeysInv /\ HandlersInv /\ KeysApart
    /\ RowsNameObjects /\ ObjectsInv /\ CountInv /\ CountedOnlyWhenComplete

-----------------------------------------------------------------------------
LEMMA FreeType == Free \in Work
BY DEF Free, Work

LEMMA InitInv == Init => IInv
<1> SUFFICES ASSUME Init PROVE IInv
  OBVIOUS
<1> USE DEF Init
<1>1. TypeOK
  BY FreeType DEF TypeOK
<1>2. \A h \in Handlers : work[h].pc = "idle"
  BY DEF Free
<1>3. HandlersInv /\ KeysApart
  BY <1>2 DEF HandlersInv, HandlerInv, KeysApart, Holding, Unwritten, Uploaded
<1>4. KeysInv /\ RowsNameObjects /\ ObjectsInv
  BY DEF KeysInv, RowsNameObjects, ObjectsInv, Named, Received
<1>5. CountInv /\ CountedOnlyWhenComplete
  <2>1. Items # {} => StillMissing # {}
    BY DEF StillMissing, Received
  <2> QED
    BY <2>1 DEF CountInv, CountedOnlyWhenComplete
<1> QED
  BY <1>1, <1>3, <1>4, <1>5 DEF IInv

-----------------------------------------------------------------------------
(* What a step does to the work of its handler and of the others. *)

LEMMA BecomeWork ==
    ASSUME TypeOK, NEW h \in Handlers, NEW w \in Work, Become(h, w)
    PROVE  /\ work' \in [Handlers -> Work]
           /\ work'[h] = w
           /\ \A g \in Handlers \ {h} : work'[g] = work[g]
BY DEF TypeOK, Become

LEMMA GotoWork ==
    ASSUME TypeOK, NEW h \in Handlers, NEW pc, Goto(h, pc),
           pc \in {"upsert", "insert", "update", "undo", "count", "forget"}
    PROVE  /\ work' \in [Handlers -> Work]
           /\ work'[h].pc = pc
           /\ work'[h].item = work[h].item /\ work'[h].key = work[h].key
           /\ work'[h].previous = work[h].previous /\ work'[h].outcome = work[h].outcome
           /\ \A g \in Handlers \ {h} : work'[g] = work[g]
<1>1. [work[h] EXCEPT !.pc = pc] \in Work
  BY DEF TypeOK, Work
<1> QED
  BY <1>1 DEF TypeOK, Goto, Become, Work

LEMMA AnswerWork ==
    ASSUME TypeOK, NEW h \in Handlers, NEW outcome \in Outcomes, Answer(h, outcome)
    PROVE  /\ work' \in [Handlers -> Work]
           /\ work'[h].pc = "answered" /\ work'[h].outcome = outcome
           /\ \A g \in Handlers \ {h} : work'[g] = work[g]
<1>1. [work[h] EXCEPT !.pc = "answered", !.outcome = outcome] \in Work
  BY DEF TypeOK, Work
<1> QED
  BY <1>1 DEF TypeOK, Answer, Become, Work

\* A step of one handler that leaves the rows and the bucket alone, by what it does to that
\* handler.
LEMMA OnlyOwnWork ==
    ASSUME IInv, NEW h \in Handlers,
           UNCHANGED <<files, bucket, completed, accepted, leaked, missed, lost>>,
           drawn \subseteq drawn', drawn' \subseteq Keys,
           work' \in [Handlers -> Work],
           \A g \in Handlers \ {h} : work'[g] = work[g],
           HandlerInv(work[h])',
           work'[h].pc \in Holding =>
               \/ work[h].pc \in Holding /\ work[h].key = work'[h].key
               \/ work'[h].key \notin drawn,
           work[h].pc \in Holding \ {"put"} =>
               work'[h].pc \in Holding \ {"put"} /\ work'[h].key = work[h].key,
           work[h].pc # "count"
    PROVE  IInv'
<1> USE DEF IInv
<1>1. TypeOK'
  BY DEF TypeOK
<1>2. KeysInv'
  BY DEF KeysInv, Received
<1>3. HandlersInv'
  <2> SUFFICES ASSUME NEW g \in Handlers PROVE HandlerInv(work[g])'
    BY DEF HandlersInv
  <2>1. CASE g = h
    BY <2>1
  <2>2. CASE g # h
    BY <2>2 DEF HandlersInv, HandlerInv, PreviousInv, Received
  <2> QED
    BY <2>1, <2>2
<1>4. KeysApart'
  <2>1. \A g \in Handlers : work[g].pc \in Holding => work[g].key \in drawn
    BY DEF HandlersInv, HandlerInv, Holding, Unwritten
  <2> QED
    BY <2>1 DEF KeysApart
<1>5. RowsNameObjects'
  BY DEF RowsNameObjects, Named, Received
<1>6. ObjectsInv'
  <2> SUFFICES ASSUME NEW k \in bucket, k \notin accepted, k \notin leaked
               PROVE  \E g \in Handlers : work'[g].pc \in Holding \ {"put"} /\ work'[g].key = k
    BY DEF ObjectsInv
  <2>1. PICK g \in Handlers : work[g].pc \in Holding \ {"put"} /\ work[g].key = k
    BY DEF ObjectsInv
  <2> QED
    BY <2>1
<1>7. CountInv' /\ CountedOnlyWhenComplete'
  <2>1. StillMissing' = StillMissing
    BY DEF StillMissing, Received
  <2>2. CountInv'
    BY <2>1 DEF CountInv
  <2> QED
    BY <2>1, <2>2 DEF CountedOnlyWhenComplete
<1> QED
  BY <1>1, <1>2, <1>3, <1>4, <1>5, <1>6, <1>7

LEMMA DepositStep ==
    ASSUME IInv, NEW h \in Handlers, NEW i \in Items \cup {Stranger}, Deposit(h, i)
    PROVE  IInv'
<1>1. /\ TypeOK /\ KeysInv /\ drawn \subseteq Keys /\ work[h].pc = "idle"
      /\ UNCHANGED <<files, bucket, completed, accepted, leaked, missed, lost>>
  BY DEF IInv, TypeOK, Deposit
<1>2. ASSUME NEW outcome \in Outcomes, drawn' = drawn,
             Become(h, [Free EXCEPT !.pc = "answered", !.outcome = outcome])
      PROVE  IInv'
  <2> DEFINE w == [Free EXCEPT !.pc = "answered", !.outcome = outcome]
  <2>1. w \in Work /\ w.pc = "answered" /\ Become(h, w)
    BY <1>2 DEF Free, Work
  <2> HIDE DEF w
  <2>2. work' \in [Handlers -> Work] /\ work'[h] = w /\ \A g \in Handlers \ {h} : work'[g] = work[g]
    BY <1>1, <2>1, BecomeWork
  <2>3. HandlerInv(work[h])'
    BY <2>1, <2>2 DEF HandlerInv, Unwritten, Uploaded
  <2> QED
    BY <1>1, <1>2, <2>1, <2>2, <2>3, OnlyOwnWork DEF Holding, Unwritten
<1>3. ASSUME i \in Items, NEW k \in Keys \ drawn, drawn' = drawn \cup {k},
             Become(h, [Free EXCEPT !.pc = "put", !.item = i, !.key = k, !.previous = files[i]])
      PROVE  IInv'
  <2> DEFINE w == [Free EXCEPT !.pc = "put", !.item = i, !.key = k, !.previous = files[i]]
  <2>1. /\ w \in Work /\ w.pc = "put" /\ w.item = i /\ w.key = k /\ w.previous = files[i]
        /\ Become(h, w)
    BY <1>1, <1>3 DEF Free, Work, TypeOK
  <2> HIDE DEF w
  <2>2. work' \in [Handlers -> Work] /\ work'[h] = w /\ \A g \in Handlers \ {h} : work'[g] = work[g]
    BY <1>1, <2>1, BecomeWork
  <2>3. HandlerInv(work[h])'
    BY <1>1, <1>3, <2>1, <2>2
       DEF HandlerInv, Unwritten, Uploaded, PreviousInv, KeysInv, Received
  <2> QED
    BY <1>1, <1>3, <2>1, <2>2, <2>3, OnlyOwnWork DEF Holding, Unwritten
<1> QED
  BY <1>2, <1>3 DEF Deposit, Outcomes

LEMMA UpsertReadStep ==
    ASSUME IInv, NEW h \in Handlers, UpsertRead(h)
    PROVE  IInv'
<1>1. TypeOK /\ HandlerInv(work[h]) /\ work[h].pc = "upsert" /\ drawn \subseteq Keys
  BY DEF IInv, HandlersInv, TypeOK, UpsertRead
<1>2. PICK pc \in {"insert", "update"} : Goto(h, pc)
  BY DEF UpsertRead
<1>3. /\ work' \in [Handlers -> Work]
      /\ work'[h].pc = pc /\ work'[h].item = work[h].item /\ work'[h].key = work[h].key
      /\ work'[h].previous = work[h].previous
      /\ \A g \in Handlers \ {h} : work'[g] = work[g]
  BY <1>1, <1>2, GotoWork
<1>4. UNCHANGED <<files, bucket, completed, drawn, accepted, leaked, missed, lost>>
  BY DEF UpsertRead
<1>5. HandlerInv(work[h])'
  BY <1>1, <1>2, <1>3, <1>4 DEF HandlerInv, PreviousInv, Unwritten, Uploaded, Received
<1> QED
  BY <1>1, <1>2, <1>3, <1>4, <1>5, OnlyOwnWork DEF Holding, Unwritten

\* The upsert is refused, or fails with nothing written.
LEMMA RefusedStep ==
    ASSUME IInv, NEW h \in Handlers, work[h].pc \in Uploaded, Goto(h, "undo"),
           UNCHANGED <<files, bucket, completed, drawn, accepted, leaked, missed, lost>>
    PROVE  IInv'
<1>1. TypeOK /\ HandlerInv(work[h]) /\ drawn \subseteq Keys
  BY DEF IInv, HandlersInv, TypeOK
<1>2. /\ work' \in [Handlers -> Work]
      /\ work'[h].pc = "undo" /\ work'[h].key = work[h].key
      /\ \A g \in Handlers \ {h} : work'[g] = work[g]
  BY <1>1, GotoWork
<1>3. HandlerInv(work[h])'
  BY <1>1, <1>2 DEF HandlerInv, Unwritten, Uploaded
<1> QED
  BY <1>1, <1>2, <1>3, OnlyOwnWork DEF Holding, Unwritten, Uploaded

LEMMA DownloadStep ==
    ASSUME IInv, NEW h \in Handlers, NEW i \in Items, Download(h, i)
    PROVE  IInv'
<1>1. TypeOK /\ drawn \subseteq Keys /\ work[h].pc = "idle"
  BY DEF IInv, TypeOK, Download
<1>2. PICK w \in Work : Become(h, w) /\ HandlerInv(w)' /\ w.pc \in {"answered", "get"}
  <2>1. CASE ~Received(i)
    <3> DEFINE w == [Free EXCEPT !.pc = "answered", !.outcome = "unavailable"]
    <3>1. w \in Work /\ w.pc = "answered"
      BY DEF Free, Work, Outcomes
    <3>2. HandlerInv(w)'
      BY <3>1 DEF HandlerInv, Unwritten, Uploaded
    <3> QED
      BY <2>1, <3>1, <3>2 DEF Download
  <2>2. CASE Received(i)
    <3> DEFINE w == [Free EXCEPT !.pc = "get", !.item = i, !.key = files[i]]
    <3>1. w \in Work /\ w.pc = "get" /\ w.item = i /\ w.outcome = Null
      BY <1>1 DEF Free, Work, Outcomes, TypeOK
    <3>2. HandlerInv(w)'
      BY <2>2, <3>1 DEF HandlerInv, Unwritten, Uploaded, Download, Received
    <3> QED
      BY <2>2, <3>1, <3>2 DEF Download
  <2> QED
    BY <2>1, <2>2
<1>3. work' \in [Handlers -> Work] /\ work'[h] = w /\ \A g \in Handlers \ {h} : work'[g] = work[g]
  BY <1>1, <1>2, BecomeWork
<1>4. HandlerInv(work[h])'
  BY <1>2, <1>3
<1> QED
  BY <1>1, <1>2, <1>3, <1>4, OnlyOwnWork DEF Holding, Unwritten, Download

LEMMA GetStep ==
    ASSUME IInv, NEW h \in Handlers, Get(h)
    PROVE  IInv'
<1>1. TypeOK /\ drawn \subseteq Keys /\ work[h].pc = "get"
  BY DEF IInv, TypeOK, Get
<1>2. PICK outcome \in {"served", "broken"} : Answer(h, outcome)
  BY DEF Get
<1>3. /\ work' \in [Handlers -> Work] /\ work'[h].pc = "answered"
      /\ \A g \in Handlers \ {h} : work'[g] = work[g]
  BY <1>1, <1>2, AnswerWork DEF Outcomes
<1>4. HandlerInv(work[h])'
  BY <1>3 DEF HandlerInv, Unwritten, Uploaded
<1> QED
  BY <1>1, <1>3, <1>4, OnlyOwnWork DEF Holding, Unwritten, Get

LEMMA RespondStep ==
    ASSUME IInv, NEW h \in Handlers, Respond(h)
    PROVE  IInv'
<1>1. TypeOK /\ drawn \subseteq Keys /\ work[h].pc = "answered" /\ Become(h, Free)
  BY DEF IInv, TypeOK, Respond
<1>2. work' \in [Handlers -> Work] /\ work'[h] = Free /\ \A g \in Handlers \ {h} : work'[g] = work[g]
  BY <1>1, FreeType, BecomeWork
<1>3. work'[h].pc = "idle"
  BY <1>2 DEF Free
<1>4. HandlerInv(work[h])'
  BY <1>3 DEF HandlerInv, Unwritten, Uploaded
<1> QED
  BY <1>1, <1>2, <1>3, <1>4, OnlyOwnWork DEF Holding, Unwritten, Respond

-----------------------------------------------------------------------------
(* The steps that write the bucket or the counters, and no row. *)

\* What is erased is named by no row, or by one in doubt, and is held by no other handler.
Erasable(h) ==
    \A k \in bucket \ bucket' :
        /\ k \in Named => k \in lost
        /\ \A g \in Handlers \ {h} : work[g].pc \in Uploaded => work[g].key # k

LEMMA OnlyBucket ==
    ASSUME IInv, NEW h \in Handlers,
           UNCHANGED <<files, drawn, accepted, lost>>,
           bucket' \subseteq Keys, leaked' \subseteq Keys, completed' \in Nat, missed' \in BOOLEAN,
           work' \in [Handlers -> Work],
           \A g \in Handlers \ {h} : work'[g] = work[g],
           HandlerInv(work[h])',
           work'[h].pc \in Holding => work[h].pc \in Holding /\ work[h].key = work'[h].key,
           Erasable(h),
           ObjectsInv', CountInv', CountedOnlyWhenComplete'
    PROVE  IInv'
<1> USE DEF IInv
<1>1. TypeOK'
  BY DEF TypeOK
<1>2. KeysInv'
  BY DEF KeysInv, Received
<1>3. HandlersInv'
  <2> SUFFICES ASSUME NEW g \in Handlers \ {h} PROVE HandlerInv(work[g])'
    BY DEF HandlersInv
  <2>1. work[g].pc \in Uploaded => work[g].key \in bucket'
    BY DEF HandlersInv, HandlerInv, Erasable
  <2> QED
    BY <2>1 DEF HandlersInv, HandlerInv, PreviousInv, Received
<1>4. KeysApart'
  BY DEF KeysApart
<1>5. RowsNameObjects'
  <2>1. Named' = Named
    BY DEF Named, Received
  <2> QED
    BY <2>1 DEF RowsNameObjects, Erasable
<1> QED
  BY <1>1, <1>2, <1>3, <1>4, <1>5

LEMMA SameMissing ==
    ASSUME UNCHANGED files PROVE StillMissing' = StillMissing
BY DEF StillMissing, Received

\* CountInv and CountedOnlyWhenComplete through a step that neither counts nor was about to.
LEMMA NoCount ==
    ASSUME IInv, NEW h \in Handlers, UNCHANGED <<files, completed, missed, lost>>,
           work[h].pc # "count", \A g \in Handlers \ {h} : work'[g] = work[g]
    PROVE  CountInv' /\ CountedOnlyWhenComplete'
<1>1. StillMissing' = StillMissing
  BY SameMissing
<1>2. CountInv'
  BY <1>1 DEF IInv, CountInv
<1> QED
  BY <1>1, <1>2 DEF IInv, CountedOnlyWhenComplete

LEMMA PutStep ==
    ASSUME IInv, NEW h \in Handlers, Put(h)
    PROVE  IInv'
<1>1. /\ TypeOK /\ HandlerInv(work[h]) /\ work[h].pc = "put" /\ Goto(h, "upsert")
      /\ bucket' = bucket \cup {work[h].key}
      /\ UNCHANGED <<files, completed, drawn, accepted, leaked, missed, lost>>
  BY DEF IInv, HandlersInv, Put
<1>2. /\ work' \in [Handlers -> Work]
      /\ work'[h].pc = "upsert" /\ work'[h].item = work[h].item /\ work'[h].key = work[h].key
      /\ work'[h].previous = work[h].previous
      /\ \A g \in Handlers \ {h} : work'[g] = work[g]
  BY <1>1, GotoWork
<1>3. work[h].key \in Keys
  BY <1>1 DEF HandlerInv, Unwritten, TypeOK
<1>4. HandlerInv(work[h])'
  BY <1>1, <1>2 DEF HandlerInv, PreviousInv, Unwritten, Uploaded, Received
<1>5. ObjectsInv'
  <2> SUFFICES ASSUME NEW k \in bucket', k \notin accepted, k \notin leaked
               PROVE  \E g \in Handlers : work'[g].pc \in Holding \ {"put"} /\ work'[g].key = k
    BY <1>1 DEF ObjectsInv
  <2>1. CASE k = work[h].key
    BY <2>1, <1>2 DEF Holding, Unwritten
  <2>2. CASE k # work[h].key
    <3>1. PICK g \in Handlers : work[g].pc \in Holding \ {"put"} /\ work[g].key = k
      BY <2>2, <1>1 DEF IInv, ObjectsInv
    <3> QED
      BY <3>1, <1>1, <1>2
  <2> QED
    BY <2>1, <2>2
<1>6. CountInv' /\ CountedOnlyWhenComplete'
  BY <1>1, <1>2, NoCount
<1> QED
  BY <1>1, <1>2, <1>3, <1>4, <1>5, <1>6, OnlyBucket DEF TypeOK, Erasable, Holding, Unwritten

\* A handler answers, having erased from the bucket nothing but what it may erase.
LEMMA AnswerStep ==
    ASSUME IInv, NEW h \in Handlers, NEW outcome \in Outcomes, Answer(h, outcome),
           UNCHANGED <<files, drawn, accepted, lost>>,
           bucket' \subseteq Keys, leaked' \subseteq Keys, completed' \in Nat, missed' \in BOOLEAN,
           Erasable(h),
           leaked \subseteq leaked',
           \A k \in bucket' : \/ k \in bucket \cup leaked'
                              \/ k \in accepted,
           work[h].pc \in Holding \ {"put"} => work[h].key \notin bucket' \/ work[h].key \in leaked',
           CountInv', CountedOnlyWhenComplete'
    PROVE  IInv'
<1>1. TypeOK /\ ObjectsInv
  BY DEF IInv
<1>2. /\ work' \in [Handlers -> Work] /\ work'[h].pc = "answered"
      /\ \A g \in Handlers \ {h} : work'[g] = work[g]
  BY <1>1, AnswerWork
<1>3. HandlerInv(work[h])'
  BY <1>2 DEF HandlerInv, Unwritten, Uploaded
<1>4. ObjectsInv'
  <2> SUFFICES ASSUME NEW k \in bucket', k \notin accepted, k \notin leaked'
               PROVE  \E g \in Handlers : work'[g].pc \in Holding \ {"put"} /\ work'[g].key = k
    BY DEF ObjectsInv
  <2>1. k \in bucket
    OBVIOUS
  <2>2. PICK g \in Handlers : work[g].pc \in Holding \ {"put"} /\ work[g].key = k
    BY <1>1, <2>1 DEF ObjectsInv
  <2>3. g # h
    BY <2>2
  <2> QED
    BY <1>2, <2>2, <2>3
<1> QED
  BY <1>2, <1>3, <1>4, OnlyBucket DEF Holding, Unwritten

LEMMA PutFailsStep ==
    ASSUME IInv, NEW h \in Handlers, PutFails(h)
    PROVE  IInv'
<1>1. /\ TypeOK /\ HandlerInv(work[h]) /\ work[h].pc = "put" /\ Answer(h, "error")
      /\ UNCHANGED <<files, completed, drawn, accepted, missed, lost>>
      /\ \/ UNCHANGED <<bucket, leaked>>
         \/ /\ bucket' = bucket \cup {work[h].key}
            /\ leaked' = leaked \cup {work[h].key}
  BY DEF IInv, HandlersInv, PutFails
<1>2. work[h].key \in Keys /\ "error" \in Outcomes
  BY <1>1 DEF HandlerInv, Unwritten, TypeOK, Outcomes
<1>3. \A g \in Handlers \ {h} : work'[g] = work[g]
  BY <1>1, <1>2, AnswerWork
<1>4. CountInv' /\ CountedOnlyWhenComplete'
  BY <1>1, <1>3, NoCount
<1> QED
  BY <1>1, <1>2, <1>4, AnswerStep DEF TypeOK, Erasable

LEMMA UndoStep ==
    ASSUME IInv, NEW h \in Handlers, Undo(h)
    PROVE  IInv'
<1>1. /\ TypeOK /\ KeysInv /\ KeysApart /\ HandlersInv
      /\ HandlerInv(work[h]) /\ work[h].pc = "undo" /\ Answer(h, "error")
      /\ bucket' = bucket \ {work[h].key}
      /\ UNCHANGED <<files, completed, drawn, accepted, leaked, missed, lost>>
      /\ "error" \in Outcomes
  BY DEF IInv, HandlersInv, Undo, Outcomes
<1>2. \A g \in Handlers \ {h} : work'[g] = work[g]
  BY <1>1, AnswerWork
<1>3. CountInv' /\ CountedOnlyWhenComplete'
  BY <1>1, <1>2, NoCount
<1>4. Erasable(h)
  BY <1>1 DEF Erasable, HandlerInv, KeysInv, KeysApart, Named, Holding, Unwritten, Uploaded
<1> QED
  BY <1>1, <1>3, <1>4, AnswerStep DEF TypeOK

LEMMA ForgetStep ==
    ASSUME IInv, NEW h \in Handlers, Forget(h)
    PROVE  IInv'
<1>1. /\ TypeOK /\ HandlersInv
      /\ HandlerInv(work[h]) /\ work[h].pc = "forget" /\ Answer(h, "success")
      /\ bucket' = bucket \ {work[h].previous}
      /\ UNCHANGED <<files, completed, drawn, accepted, leaked, missed, lost>>
      /\ "success" \in Outcomes
  BY DEF IInv, HandlersInv, Forget, Outcomes
<1>2. \A g \in Handlers \ {h} : work'[g] = work[g]
  BY <1>1, AnswerWork
<1>3. CountInv' /\ CountedOnlyWhenComplete'
  BY <1>1, <1>2, NoCount
<1>4. Erasable(h)
  <2>1. work[h].previous \in accepted \ Named
    BY <1>1 DEF HandlerInv, Named
  <2>2. \A g \in Handlers : work[g].pc \in Uploaded => work[g].key \notin accepted
    BY <1>1 DEF HandlersInv, HandlerInv, Unwritten, Uploaded
  <2> QED
    BY <1>1, <2>1, <2>2 DEF Erasable
<1> QED
  BY <1>1, <1>3, <1>4, AnswerStep DEF TypeOK, Holding, Unwritten

LEMMA DeleteFailsStep ==
    ASSUME IInv, NEW h \in Handlers, DeleteFails(h)
    PROVE  IInv'
<1>1. /\ TypeOK /\ HandlerInv(work[h])
      /\ UNCHANGED <<files, bucket, completed, drawn, accepted, missed, lost>>
  BY DEF IInv, HandlersInv, DeleteFails
<1>2. PICK outcome \in Outcomes, k \in Keys :
         /\ Answer(h, outcome) /\ leaked' = leaked \cup {k}
         /\ \/ work[h].pc = "undo" /\ k = work[h].key
            \/ work[h].pc = "forget"
  <2>1. CASE work[h].pc = "undo"
    BY <1>1, <2>1 DEF DeleteFails, HandlerInv, Outcomes, TypeOK
  <2>2. CASE work[h].pc = "forget"
    BY <1>1, <2>2 DEF DeleteFails, HandlerInv, Outcomes, TypeOK
  <2> QED
    BY <2>1, <2>2 DEF DeleteFails
<1>3. \A g \in Handlers \ {h} : work'[g] = work[g]
  BY <1>1, <1>2, AnswerWork
<1>4. CountInv' /\ CountedOnlyWhenComplete'
  BY <1>1, <1>2, <1>3, NoCount
<1> QED
  BY <1>1, <1>2, <1>4, AnswerStep DEF TypeOK, Erasable, Holding, Unwritten

LEMMA CountStep ==
    ASSUME IInv, NEW h \in Handlers, Count(h) \/ CountFails(h)
    PROVE  IInv'
<1>1. /\ TypeOK /\ CountInv /\ CountedOnlyWhenComplete
      /\ work[h].pc = "count" /\ Answer(h, "success") /\ "success" \in Outcomes
      /\ UNCHANGED <<files, bucket, drawn, accepted, leaked, lost>>
  BY DEF IInv, Count, CountFails, Outcomes
<1>2. \/ completed' = (IF StillMissing = {} THEN completed + 1 ELSE completed) /\ missed' = missed
      \/ completed' = completed /\ missed' = TRUE
  BY DEF Count, CountFails
<1>3. completed \in Nat /\ completed' \in Nat /\ missed' \in BOOLEAN
  <2>1. completed \in Nat /\ missed \in BOOLEAN
    BY <1>1 DEF TypeOK
  <2>2. missed' \in BOOLEAN
    BY <1>2, <2>1, Zenon
  <2>3. completed' = completed + 1 \/ completed' = completed
    BY <1>2, Zenon
  <2> QED
    BY <2>1, <2>2, <2>3
<1>4. StillMissing' = StillMissing
  BY <1>1, SameMissing
<1>5. CountInv'
  BY <1>1, <1>2, <1>3, <1>4 DEF CountInv
<1>6. CountedOnlyWhenComplete'
  BY <1>1, <1>2, <1>3, <1>4 DEF CountedOnlyWhenComplete
<1> QED
  BY <1>1, <1>3, <1>5, <1>6, AnswerStep DEF TypeOK, Erasable, Holding, Unwritten

-----------------------------------------------------------------------------
(* The row, and the death of the process. *)

\* The handler of a written row goes on to count, to erase what it replaced, or, when the
\* write was reported as failed, to undo what it believes refused.
LEMMA WriteRowStep ==
    ASSUME IInv, NEW h \in Handlers, work[h].pc \in {"insert", "update"},
           \/ WriteRow(h, AfterRecord(h)) /\ UNCHANGED lost
           \/ WriteRow(h, "undo") /\ lost' = lost \cup {work[h].key}
    PROVE  IInv'
<1> DEFINE w == work[h]
           next == work'[h].pc
<1>1. /\ TypeOK /\ KeysInv /\ HandlersInv /\ KeysApart /\ RowsNameObjects /\ ObjectsInv
      /\ CountInv /\ CountedOnlyWhenComplete
  BY DEF IInv
<1>2. /\ w \in Work /\ w.item \in Items /\ w.key \in drawn \ accepted /\ w.key \in Keys
      /\ w.key \in bucket /\ PreviousInv(w) /\ w.key # Null /\ w.pc # "count"
  BY <1>1, ConstantsAssumption
     DEF HandlersInv, HandlerInv, Unwritten, Uploaded, TypeOK
<1>3. /\ files' = [files EXCEPT ![w.item] = w.key]
      /\ accepted' = accepted \cup {w.key}
      /\ UNCHANGED <<bucket, completed, drawn, leaked, missed>>
  BY DEF WriteRow
<1>4. PICK pc \in {"undo", "count", "forget"} :
         /\ Goto(h, pc)
         /\ pc = "undo" => lost' = lost \cup {w.key}
         /\ pc # "undo" => lost' = lost /\ (pc = "count" <=> w.previous = Null)
  BY DEF WriteRow, AfterRecord
<1>5. /\ work' \in [Handlers -> Work]
      /\ work'[h].pc = pc /\ work'[h].item = w.item /\ work'[h].key = w.key
      /\ work'[h].previous = w.previous
      /\ \A g \in Handlers \ {h} : work'[g] = work[g]
  BY <1>1, <1>4, GotoWork
<1>6. /\ files'[w.item] = w.key /\ \A i \in Items \ {w.item} : files'[i] = files[i]
      /\ files' \in [Items -> Keys \cup {Null}]
  BY <1>1, <1>2, <1>3 DEF TypeOK
<1>7. \A i \in Items : Received(i)' <=> Received(i) \/ i = w.item
  BY <1>2, <1>6 DEF Received
<1>8. lost \subseteq lost' /\ lost' \subseteq lost \cup {w.key}
  BY <1>4
<1> HIDE DEF w, next
<1>9. TypeOK'
  BY <1>1, <1>2, <1>3, <1>5, <1>6, <1>8 DEF TypeOK, KeysInv
<1>10. KeysInv'
  <2>1. accepted' \subseteq drawn' /\ lost' \subseteq accepted'
    BY <1>1, <1>2, <1>3, <1>8 DEF KeysInv
  <2>2. \A i \in Items : Received(i)' => files'[i] \in accepted'
    BY <1>1, <1>3, <1>6, <1>7 DEF KeysInv
  <2>3. \A i, j \in Items : Received(i)' /\ files'[i] = files'[j] => i = j
    BY <1>1, <1>2, <1>6, <1>7 DEF KeysInv, Received
  <2> QED
    BY <2>1, <2>2, <2>3 DEF KeysInv
<1>11. HandlersInv'
  <2>1. HandlerInv(work[h])'
    <3>1. pc = "undo" => w.key \in drawn' /\ w.key \in lost'
      BY <1>2, <1>3, <1>4
    <3>2. pc = "forget" => w.previous \in accepted' /\ \A j \in Items : files'[j] # w.previous
      BY <1>2, <1>3, <1>4, <1>6 DEF PreviousInv
    <3> QED
      BY <1>5, <3>1, <3>2 DEF HandlerInv, Unwritten, Uploaded
  <2>2. ASSUME NEW g \in Handlers \ {h} PROVE HandlerInv(work[g])'
    <3>0. PICK v : v = work[g]
      OBVIOUS
    <3>1. HandlerInv(v) /\ work'[g] = v
      BY <1>1, <1>5, <3>0 DEF HandlersInv
    <3>2. v.pc \in Holding => v.key # w.key
      BY <1>1, <3>0 DEF KeysApart, Holding, Unwritten, w
    <3>3. v.pc \in Unwritten => v.item \in Items /\ v.key \in drawn' \ accepted'
      BY <1>3, <3>1, <3>2 DEF HandlerInv, Holding
    <3>4. v.pc \in Unwritten => PreviousInv(v)'
      BY <1>2, <1>3, <1>6, <1>7, <3>1 DEF HandlerInv, PreviousInv
    <3>5. v.pc \in Uploaded => v.key \in bucket'
      BY <1>3, <3>1 DEF HandlerInv
    <3>6. v.pc = "undo" => v.key \in drawn' /\ (v.key \in accepted' => v.key \in lost')
      BY <1>3, <1>8, <3>1, <3>2 DEF HandlerInv, Holding
    <3>7. v.pc = "forget" => v.previous \in accepted' /\ \A j \in Items : files'[j] # v.previous
      BY <1>2, <1>3, <1>6, <3>1 DEF HandlerInv
    <3>8. v.pc = "get" => v.item \in Items /\ Received(v.item)' /\ v.outcome = Null
      BY <1>7, <3>1 DEF HandlerInv
    <3> QED
      BY <3>1, <3>3, <3>4, <3>5, <3>6, <3>7, <3>8 DEF HandlerInv, PreviousInv, Received
  <2> QED
    BY <2>1, <2>2 DEF HandlersInv
<1>12. KeysApart'
  BY <1>1, <1>5 DEF KeysApart, Holding, Unwritten, w
<1>13. RowsNameObjects'
  BY <1>1, <1>2, <1>3, <1>6, <1>7, <1>8 DEF RowsNameObjects, Named
<1>14. ObjectsInv'
  <2> SUFFICES ASSUME NEW k \in bucket, k \notin accepted', k \notin leaked
               PROVE  \E g \in Handlers : work'[g].pc \in Holding \ {"put"} /\ work'[g].key = k
    BY <1>3 DEF ObjectsInv
  <2>1. PICK g \in Handlers : work[g].pc \in Holding \ {"put"} /\ work[g].key = k
    BY <1>1, <1>3 DEF ObjectsInv
  <2>2. g # h
    BY <1>3, <2>1 DEF w
  <2> QED
    BY <1>5, <2>1, <2>2
<1>15. CountInv'
  <2> SUFFICES ASSUME StillMissing' = {}, Items # {}, ~missed, lost' = {}
               PROVE  completed > 0 \/ \E g \in Handlers : work'[g].pc = "count"
    BY <1>3 DEF CountInv
  <2>1. pc # "undo"
    BY <1>4
  <2>2. CASE Received(w.item)
    <3>1. StillMissing = {} /\ lost = {}
      BY <1>7, <1>8, <2>2 DEF StillMissing
    <3>2. completed > 0 \/ \E g \in Handlers : work[g].pc = "count"
      BY <1>1, <3>1 DEF CountInv
    <3> QED
      BY <1>2, <1>5, <3>2 DEF w
  <2>3. CASE ~Received(w.item)
    <3>1. pc = "count"
      BY <1>2, <1>4, <2>1, <2>3 DEF PreviousInv
    <3> QED
      BY <1>5, <3>1
  <2> QED
    BY <2>2, <2>3
<1>16. CountedOnlyWhenComplete'
  <2>1. StillMissing' \subseteq StillMissing
    BY <1>7 DEF StillMissing
  <2> QED
    BY <1>1, <1>3, <2>1 DEF CountedOnlyWhenComplete
<1> QED
  BY <1>9, <1>10, <1>11, <1>12, <1>13, <1>14, <1>15, <1>16 DEF IInv

LEMMA UpsertStep ==
    ASSUME IInv, NEW h \in Handlers, UpsertInsert(h) \/ UpsertUpdate(h) \/ UpsertFails(h)
    PROVE  IInv'
<1>1. CASE UpsertInsert(h)
  BY <1>1, WriteRowStep, RefusedStep DEF UpsertInsert, Uploaded
<1>2. CASE UpsertUpdate(h)
  BY <1>2, WriteRowStep DEF UpsertUpdate
<1>3. CASE UpsertFails(h)
  BY <1>3, WriteRowStep, RefusedStep DEF UpsertFails, Uploaded
<1> QED
  BY <1>1, <1>2, <1>3

LEMMA CrashStep ==
    ASSUME IInv, Crash
    PROVE  IInv'
<1> DEFINE Dropped == {work[h].key : h \in {g \in Handlers :
                          work[g].pc \in {"upsert", "insert", "update", "undo"}}}
           Kept == {work[h].previous : h \in {g \in Handlers : work[g].pc = "forget"}}
<1>1. /\ TypeOK /\ KeysInv /\ HandlersInv /\ RowsNameObjects /\ ObjectsInv
      /\ CountInv /\ CountedOnlyWhenComplete
      /\ work' = [h \in Handlers |-> Free] /\ leaked' = leaked \cup Dropped \cup Kept
      /\ UNCHANGED <<files, bucket, completed, drawn, accepted, lost>>
  BY DEF IInv, Crash
<1>2. work' \in [Handlers -> Work] /\ \A h \in Handlers : work'[h].pc = "idle"
  BY <1>1, FreeType DEF Free
<1>3. Dropped \subseteq Keys
  BY <1>1 DEF HandlersInv, HandlerInv, Unwritten, TypeOK
<1>4. Kept \subseteq Keys
  BY <1>1 DEF HandlersInv, HandlerInv, TypeOK
<1>5. TypeOK'
  <2>1. missed' \in BOOLEAN
    BY DEF Crash
  <2> QED
    BY <1>1, <1>2, <1>3, <1>4, <2>1 DEF TypeOK
<1>6. KeysInv' /\ RowsNameObjects'
  BY <1>1 DEF KeysInv, RowsNameObjects, Named, Received
<1>7. HandlersInv' /\ KeysApart'
  BY <1>2 DEF HandlersInv, HandlerInv, KeysApart, Holding, Unwritten, Uploaded
<1>8. ObjectsInv'
  BY <1>1 DEF ObjectsInv, Holding, Unwritten
<1>9. StillMissing' = StillMissing
  BY <1>1, SameMissing
<1>10. CountInv'
  <2>1. missed' = (missed \/ \E h \in Handlers : work[h].pc = "count")
    BY DEF Crash
  <2> QED
    BY <1>1, <1>9, <2>1 DEF CountInv
<1>11. CountedOnlyWhenComplete'
  BY <1>1, <1>9 DEF CountedOnlyWhenComplete
<1> QED
  BY <1>5, <1>6, <1>7, <1>8, <1>10, <1>11 DEF IInv

LEMMA NextInv ==
    ASSUME IInv, [Next]_vars
    PROVE  IInv'
<1>1. ASSUME NEW h \in Handlers, Arrive(h) \/ Progress(h) \/ Respond(h)
      PROVE  IInv'
  <2>1. CASE Arrive(h)
    BY <2>1, DepositStep, DownloadStep DEF Arrive
  <2>2. CASE Progress(h)
    BY <2>2, PutStep, PutFailsStep, UpsertReadStep, UpsertStep, UndoStep, CountStep, ForgetStep,
       DeleteFailsStep, GetStep DEF Progress
  <2>3. CASE Respond(h)
    BY <2>3, RespondStep
  <2> QED
    BY <1>1, <2>1, <2>2, <2>3
<1>2. CASE Crash
  BY <1>2, CrashStep
<1>3. CASE UNCHANGED vars
  BY <1>3 DEF vars, IInv, TypeOK, KeysInv, HandlersInv, HandlerInv, PreviousInv, KeysApart,
              RowsNameObjects, Named, ObjectsInv, CountInv, CountedOnlyWhenComplete,
              StillMissing, Received
<1> QED
  BY <1>1, <1>2, <1>3 DEF Next

\* The handlers' keys, the rows and the objects fit together in every reachable state.
THEOREM InductiveInvariant == Spec => []IInv
<1>1. Init => IInv
  BY InitInv
<1>2. IInv /\ [Next]_vars => IInv'
  BY NextInv
<1> QED
  BY <1>1, <1>2, PTL DEF Spec

\* The state keeps its type.
THEOREM TypeCorrect == Spec => []TypeOK
<1>1. IInv => TypeOK
  BY DEF IInv
<1> QED
  BY <1>1, InductiveInvariant, PTL

\* store erases what it replaces after the row is written, and record undoes only its own key:
\* no row ever loses its object, but one whose write was reported as failed.
THEOREM RowsAlwaysNameObjects == Spec => []RowsNameObjects
<1>1. IInv => RowsNameObjects
  BY DEF IInv
<1> QED
  BY <1>1, InductiveInvariant, PTL

\* The object of a refused deposit is erased, or its erasure has failed (record, forget).
THEOREM RefusalsLeaveNothing == Spec => []RefusedLeavesNothing
<1>1. IInv => RefusedLeavesNothing
  BY DEF IInv, ObjectsInv, RefusedLeavesNothing, Quiet, Holding, Unwritten
<1> QED
  BY <1>1, InductiveInvariant, PTL

\* Whichever deposit completes the request counts it (store, countIfCompleted).
THEOREM CompletionGetsCounted == Spec => []CompletionIsCounted
<1>1. IInv => CompletionIsCounted
  <2> SUFFICES ASSUME IInv, Quiet, StillMissing = {}, Items # {}, ~missed, lost = {}
               PROVE  completed > 0
    BY DEF CompletionIsCounted
  <2>1. \A h \in Handlers : work[h].pc # "count"
    BY DEF Quiet
  <2> QED
    BY <2>1 DEF IInv, CountInv
<1> QED
  BY <1>1, InductiveInvariant, PTL

\* No request is counted as complete while a piece is missing (countIfCompleted).
THEOREM NothingCountedEarly == Spec => []CountedOnlyWhenComplete
<1>1. IInv => CountedOnlyWhenComplete
  BY DEF IInv
<1> QED
  BY <1>1, InductiveInvariant, PTL

-----------------------------------------------------------------------------
\* What a step does to the work of a handler: the step is that handler's, or leaves it alone, or
\* is the death of the process.
LEMMA WhoseStep ==
    ASSUME IInv, [Next]_vars, NEW h \in Handlers
    PROVE  \/ work'[h] = work[h]
           \/ work'[h] = Free
           \/ Arrive(h) \/ Progress(h) \/ Respond(h)
<1>1. TypeOK
  BY DEF IInv
<1>2. ASSUME NEW g \in Handlers \ {h}, Arrive(g) \/ Progress(g) \/ Respond(g)
      PROVE  work'[h] = work[h]
  <2>1. \E w : work' = [work EXCEPT ![g] = w]
    BY <1>2 DEF Arrive, Progress, Respond, Deposit, Download, Put, PutFails, UpsertRead,
                UpsertInsert, UpsertUpdate, UpsertFails, WriteRow, Undo, Count, CountFails,
                Forget, DeleteFails, Get, Goto, Answer, Become
  <2> QED
    BY <1>1, <2>1 DEF TypeOK
<1>3. CASE \E g \in Handlers : Arrive(g) \/ Progress(g) \/ Respond(g)
  BY <1>2, <1>3
<1>4. CASE Crash
  BY <1>4 DEF Crash
<1>5. CASE UNCHANGED vars
  BY <1>5 DEF vars
<1> QED
  BY <1>3, <1>4, <1>5 DEF Next

\* streamFile answers a file whose object is gone only when the piece was replaced meanwhile.
THEOREM DownloadsOnlyRaceReplacements == Spec => BrokenOnlyIfReplaced
<1> DEFINE P(h) == work[h].pc = "get" /\ work'[h].outcome = "broken" =>
                      \/ work[h].key \in lost
                      \/ /\ files[work[h].item] # work[h].key
                         /\ files[work[h].item] \in bucket \cup lost
<1>1. ASSUME IInv, [Next]_vars, NEW h \in Handlers, work[h].pc = "get",
             work'[h].outcome = "broken", work[h].key \notin lost
      PROVE  files[work[h].item] # work[h].key /\ files[work[h].item] \in bucket \cup lost
  <2>1. TypeOK /\ HandlerInv(work[h]) /\ RowsNameObjects
    BY <1>1 DEF IInv, HandlersInv
  <2>2. /\ work[h].item \in Items /\ Received(work[h].item) /\ work[h].outcome = Null
        /\ files[work[h].item] \in Named
    BY <1>1, <2>1 DEF HandlerInv, Named
  <2>3. files[work[h].item] \in bucket \cup lost
    BY <2>1, <2>2 DEF RowsNameObjects
  <2>4. work[h].key \notin bucket
    <3> SUFFICES ASSUME work[h].key \in bucket PROVE FALSE
      OBVIOUS
    <3>1. work'[h] # work[h] /\ work'[h] # Free
      BY <1>1, <2>2, ConstantsAssumption DEF Free, Outcomes
    <3>2. (Arrive(h) => work[h].pc = "idle") /\ (Respond(h) => work[h].pc = "answered")
      <4>1. \A i \in Items \cup {Stranger} : Deposit(h, i) => work[h].pc = "idle"
        BY DEF Deposit
      <4>2. \A i \in Items : Download(h, i) => work[h].pc = "idle"
        BY DEF Download
      <4> QED
        BY <4>1, <4>2 DEF Arrive, Respond
    <3>3. Get(h)
      <4>1. Progress(h)
        BY <1>1, <3>1, <3>2, WhoseStep
      <4> QED
        BY <1>1, <4>1 DEF Progress, Put, PutFails, UpsertRead, UpsertInsert, UpsertUpdate,
                          UpsertFails, Undo, Count, CountFails, Forget, DeleteFails
    <3>4. Answer(h, "served")
      BY <3>3 DEF Get
    <3>5. work'[h].outcome = "served"
      BY <2>1, <3>4, AnswerWork DEF Outcomes
    <3> QED
      BY <1>1, <3>5
  <2> QED
    BY <1>1, <2>3, <2>4
<1>2. IInv /\ [Next]_vars => \A h \in Handlers : P(h)
  BY <1>1
<1>3. IInv /\ [Next]_vars => [\A h \in Handlers : P(h)]_vars
  BY <1>2
<1> QED
  BY <1>3, InductiveInvariant, PTL DEF Spec, BrokenOnlyIfReplaced

-----------------------------------------------------------------------------
(* Deposits implements DepositBox. *)

Openable(i) == IF files[i] \in bucket THEN files[i] ELSE Null

LEMMA BoxUnchanged ==
    ASSUME UNCHANGED <<files, accepted, lost>>,
           \A i \in Items : Openable(i)' = Openable(i)
    PROVE  UNCHANGED Box!bvars
BY DEF Box!bvars, Openable

\* Erasing an object takes a document from a piece only if its row is in doubt.
LEMMA EraseBox ==
    ASSUME IInv, NEW k \in Keys, bucket' = bucket \ {k}, UNCHANGED <<files, accepted, lost>>,
           k \in Named => k \in lost
    PROVE  [Box!BNext]_(Box!bvars)
<1>1. TypeOK /\ KeysInv
  BY DEF IInv
<1>2. CASE \E i \in Items : files[i] = k /\ k \in bucket
  <2>1. PICK i \in Items : files[i] = k /\ k \in bucket
    BY <1>2
  <2>2. Received(i) /\ k \in Named /\ k \in lost
    BY <2>1, ConstantsAssumption DEF Received, Named
  <2>3. \A j \in Items \ {i} : files[j] # k
    BY <1>1, <2>1, <2>2 DEF KeysInv
  <2>4. Openable(i) = k /\ Openable(i)' = Null /\ \A j \in Items \ {i} : Openable(j)' = Openable(j)
    BY <2>1, <2>3 DEF Openable
  <2>5. Box!Lose(i)
    BY <2>1, <2>2, <2>4 DEF Box!Lose, Openable
  <2> QED
    BY <2>5 DEF Box!BNext
<1>3. CASE \A i \in Items : ~(files[i] = k /\ k \in bucket)
  <2>1. \A i \in Items : Openable(i)' = Openable(i)
    BY <1>3 DEF Openable
  <2> QED
    BY <2>1, BoxUnchanged
<1> QED
  BY <1>2, <1>3

LEMMA WriteRowBox ==
    ASSUME IInv, NEW h \in Handlers, work[h].pc \in {"insert", "update"}, NEW next,
           WriteRow(h, next), lost' \in {lost, lost \cup {work[h].key}}
    PROVE  Box!BNext
<1> DEFINE i == work[h].item
           k == work[h].key
<1>1. /\ TypeOK /\ i \in Items /\ k \in Keys \ accepted /\ k \in bucket
  BY DEF IInv, TypeOK, HandlersInv, HandlerInv, Unwritten, Uploaded
<1>2. files' = [files EXCEPT ![i] = k] /\ accepted' = accepted \cup {k} /\ bucket' = bucket
  BY DEF WriteRow
<1>3. PICK j, c : j = i /\ c = k
  OBVIOUS
<1>4. j \in Items /\ c \in Keys \ accepted
  BY <1>1, <1>3
<1>5. Openable(j)' = c /\ \A m \in Items \ {j} : Openable(m)' = Openable(m)
  BY <1>1, <1>2, <1>3 DEF Openable, TypeOK
<1>6. Box!Accept(j, c)
  BY <1>2, <1>3, <1>4, <1>5 DEF Box!Accept, Openable
<1> QED
  BY <1>4, <1>6 DEF Box!BNext

\* The rows name no key that is still to be written.
LEMMA StoreBox ==
    ASSUME IInv, NEW k, k \notin accepted, bucket' \in {bucket, bucket \cup {k}},
           UNCHANGED <<files, accepted, lost>>
    PROVE  UNCHANGED Box!bvars
<1>1. \A i \in Items : files[i] # Null => files[i] # k
  BY DEF IInv, KeysInv, Received
<1>2. \A i \in Items : Openable(i)' = Openable(i)
  BY <1>1 DEF Openable
<1> QED
  BY <1>2, BoxUnchanged

\* Steps that leave rows and bucket alone.
LEMMA StillBox ==
    ASSUME UNCHANGED <<files, bucket, accepted, lost>>
    PROVE  UNCHANGED Box!bvars
BY BoxUnchanged DEF Openable

LEMMA NextBox ==
    ASSUME IInv, [Next]_vars
    PROVE  [Box!BNext]_(Box!bvars)
<1>1. ASSUME NEW h \in Handlers, Arrive(h) \/ Respond(h)
      PROVE  UNCHANGED Box!bvars
  <2>1. UNCHANGED <<files, bucket, accepted, lost>>
    BY <1>1 DEF Arrive, Respond, Deposit, Download
  <2> QED
    BY <2>1, StillBox
<1>2. ASSUME NEW h \in Handlers, Progress(h)
      PROVE  [Box!BNext]_(Box!bvars)
  <2>1. TypeOK /\ HandlerInv(work[h])
    BY DEF IInv, HandlersInv
  <2>2. CASE Put(h) \/ PutFails(h)
    BY <2>1, <2>2, StoreBox DEF Put, PutFails, HandlerInv, Unwritten
  <2>3. CASE UpsertRead(h) \/ Count(h) \/ CountFails(h) \/ DeleteFails(h) \/ Get(h)
    BY <2>3, StillBox DEF UpsertRead, Count, CountFails, DeleteFails, Get
  <2>4. CASE UpsertInsert(h)
    BY <2>4, WriteRowBox, StillBox DEF UpsertInsert
  <2>5. CASE UpsertUpdate(h)
    BY <2>5, WriteRowBox DEF UpsertUpdate
  <2>6. CASE UpsertFails(h)
    BY <2>6, WriteRowBox, StillBox DEF UpsertFails
  <2>7. CASE Undo(h)
    <3>1. work[h].key \in drawn /\ (work[h].key \in accepted => work[h].key \in lost)
      BY <2>1, <2>7 DEF Undo, HandlerInv
    <3>2. work[h].key \in Named => work[h].key \in lost
      BY <3>1 DEF Named, IInv, KeysInv
    <3> QED
      BY <2>1, <2>7, <3>1, <3>2, EraseBox DEF Undo, TypeOK
  <2>8. CASE Forget(h)
    <3>1. work[h].previous \in accepted \ Named
      BY <2>1, <2>8 DEF Forget, HandlerInv, Named
    <3> QED
      BY <2>1, <2>8, <3>1, EraseBox DEF Forget, TypeOK
  <2> QED
    BY <1>2, <2>2, <2>3, <2>4, <2>5, <2>6, <2>7, <2>8 DEF Progress
<1>3. CASE Crash
  BY <1>3, StillBox DEF Crash
<1>4. CASE UNCHANGED vars
  BY <1>4, StillBox DEF vars
<1> QED
  BY <1>1, <1>2, <1>3, <1>4 DEF Next

\* Uploads, upserts, erasures and their failures amount to the atomic deposits of DepositBox.
THEOREM BoxRefinement == Spec => ImplementsDepositBox
<1>1. Init => Box!BInit
  BY DEF Init, Box!BInit
<1>2. IInv /\ [Next]_vars => [Box!BNext]_(Box!bvars)
  BY NextBox
<1> QED
  BY <1>1, <1>2, InductiveInvariant, PTL DEF Spec, ImplementsDepositBox, Box!BSpec

-----------------------------------------------------------------------------
(* The promise of the box, kept by the service.                             *)

Documents == [i \in Items |-> IF files[i] \in bucket THEN files[i] ELSE Null]

LEMMA BoxPromises == ASSUME [Box!BNext]_(Box!bvars) PROVE Box!OnlyNewOnes
<1>0. Null \notin Keys
  BY ConstantsAssumption
<1>1. ASSUME NEW j \in Items, NEW k \in Keys, Box!Accept(j, k) PROVE Box!OnlyNewOnes
  <2>1. k \notin accepted /\ Documents' = [Documents EXCEPT ![j] = k]
    BY <1>1 DEF Box!Accept, Documents
  <2>2. ASSUME NEW i \in Items
        PROVE  Documents'[i] = IF i = j THEN k ELSE Documents[i]
    BY <2>1 DEF Documents
  <2>3. \A i \in Items :
           /\ Documents[i] # Null /\ Documents'[i] = Null => Documents[i] \in lost
           /\ Documents'[i] # Null /\ Documents'[i] # Documents[i] => Documents'[i] \notin accepted
    BY <1>0, <2>1, <2>2
  <2> QED
    BY <2>3 DEF Box!OnlyNewOnes, Documents
<1>2. ASSUME NEW j \in Items, Box!Lose(j) PROVE Box!OnlyNewOnes
  <2>1. Documents[j] \in lost /\ Documents' = [Documents EXCEPT ![j] = Null]
    BY <1>2 DEF Box!Lose, Documents
  <2>2. ASSUME NEW i \in Items
        PROVE  Documents'[i] = IF i = j THEN Null ELSE Documents[i]
    BY <2>1 DEF Documents
  <2>3. \A i \in Items :
           /\ Documents[i] # Null /\ Documents'[i] = Null => Documents[i] \in lost
           /\ Documents'[i] # Null /\ Documents'[i] # Documents[i] => Documents'[i] \notin accepted
    BY <2>1, <2>2
  <2> QED
    BY <2>3 DEF Box!OnlyNewOnes, Documents
<1>3. CASE UNCHANGED Box!bvars
  <2>1. Documents' = Documents
    BY <1>3 DEF Box!bvars, Documents
  <2> QED
    BY <2>1 DEF Box!OnlyNewOnes, Documents
<1> QED
  BY <1>1, <1>2, <1>3 DEF Box!BNext

\* DepositsService.record: an object is erased only once its row names another, so a client who was
\* told "received" can always be served, but for a later deposit recorded in doubt.
THEOREM DocumentsAreKept == Spec => Box!DocumentsAreKept
<1>1. IInv /\ [Next]_vars => [Box!OnlyNewOnes]_(Box!bvars)
  BY NextBox, BoxPromises
<1> QED
  BY <1>1, InductiveInvariant, PTL DEF Spec, Box!DocumentsAreKept
=============================================================================

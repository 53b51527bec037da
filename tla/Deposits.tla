------------------------------ MODULE Deposits ------------------------------
(***************************************************************************)
(* The deposits of one request: DepositsService.store, with the row in     *)
(* PostgreSQL and the object in the bucket written by separate calls, and  *)
(* RequestsService.streamFile, which reads the one and then the other. Each *)
(* await of a handler is a point where the others run.                     *)
(*                                                                         *)
(* Every call may fail: the bucket may keep an object whose upload was     *)
(* reported as failed, a deletion or the completeness query may fail       *)
(* silently, the process may die, and the database may commit a write whose *)
(* answer never arrives.                                                   *)
(***************************************************************************)
EXTENDS Naturals, FiniteSets

CONSTANTS
    Items,      \* the pieces the request expects
    Stranger,   \* an id that is no piece of this request
    Keys,       \* the storage keys: each is random, and drawn once
    Handlers,   \* the HTTP requests in flight at once
    Null

\* success, rejected_type and error are recordDeposit's; the others are streamFile's.
Outcomes == {"success", "rejected_type", "error", "served", "unavailable", "broken"}

ASSUME ConstantsAssumption ==
    /\ Stranger \notin Items
    /\ Null \notin Keys /\ Null \notin Items /\ Null # Stranger
    /\ Null \notin Outcomes
    /\ IsFiniteSet(Items)

VARIABLES
    files,      \* "UploadedFile" by its unique requestedItemId: the storageKey of the row, or Null
    bucket,     \* the objects that exist
    completed,  \* recordRequestCompleted, as Prometheus accumulates it across restarts
    work,       \* what each handler is doing
    drawn,      \* history: the keys generated so far
    accepted,   \* history: the keys a row has ever named
    leaked,     \* history: objects left to a failed call or to a crash
    missed,     \* history: whether a completeness query failed, or died with the process
    lost        \* history: the keys of the rows that were written and reported as failed

vars == <<files, bucket, completed, work, drawn, accepted, leaked, missed, lost>>

\* A pc names the call the handler is about to make.
Work == [pc : {"idle", "put", "upsert", "insert", "update", "undo", "count", "forget", "get",
               "answered"},
         item : Items \cup {Null},
         key : Keys \cup {Null},        \* the key of this deposit, or the one a download read
         previous : Keys \cup {Null},   \* previousKey
         outcome : Outcomes \cup {Null}]

Free == [pc |-> "idle", item |-> Null, key |-> Null, previous |-> Null, outcome |-> Null]

Received(i) == files[i] # Null
StillMissing == {i \in Items : ~Received(i)}

Init ==
    /\ files = [i \in Items |-> Null]
    /\ bucket = {}
    /\ completed = 0
    /\ work = [h \in Handlers |-> Free]
    /\ drawn = {} /\ accepted = {} /\ leaked = {} /\ missed = FALSE /\ lost = {}

Become(h, w) == work' = [work EXCEPT ![h] = w]
Goto(h, pc) == Become(h, [work[h] EXCEPT !.pc = pc])
Answer(h, outcome) == Become(h, [work[h] EXCEPT !.pc = "answered", !.outcome = outcome])

\* What follows a recorded deposit: the count on a first deposit, else the erasure.
AfterRecord(h) == IF work[h].previous = Null THEN "count" ELSE "forget"

-----------------------------------------------------------------------------
(* Operations with a plausible mistake, against which the properties are tried. *)

\* Faulty variant: the previous object is erased as soon as the new one is stored.
PutErasingPrevious(h) ==
    /\ work[h].pc = "put"
    /\ bucket' = (bucket \ {work[h].previous}) \cup {work[h].key}
    /\ Goto(h, "upsert")
    /\ UNCHANGED <<files, completed, drawn, accepted, leaked, missed, lost>>

\* Faulty variant: the piece is looked up by its id alone, whatever its request.
DepositWithoutOwnership(h, i) ==
    /\ work[h].pc = "idle"
    /\ \E k \in Keys \ drawn :
          /\ Become(h, [Free EXCEPT !.pc = "put", !.item = i, !.key = k,
                                    !.previous = IF i \in Items THEN files[i] ELSE Null])
          /\ drawn' = drawn \cup {k}
    /\ UNCHANGED <<files, bucket, completed, accepted, leaked, missed, lost>>

\* Faulty variant: the uploaded object is not erased when the row is refused.
UndoNothing(h) ==
    /\ work[h].pc = "undo"
    /\ Answer(h, "error")
    /\ UNCHANGED <<files, bucket, completed, drawn, accepted, leaked, missed, lost>>

\* Faulty variant: the completeness is asked before the row is written.
WriteRowAfterCounting(h, next) ==
    /\ files' = [files EXCEPT ![work[h].item] = work[h].key]
    /\ accepted' = accepted \cup {work[h].key}
    /\ completed' = IF StillMissing = {} THEN completed + 1 ELSE completed
    /\ Become(h, [work[h] EXCEPT !.pc = IF next = "count" THEN "answered" ELSE next,
                                 !.outcome = IF next = "count" THEN "success" ELSE Null])
    /\ UNCHANGED <<bucket, drawn, leaked, missed>>

\* Faulty variant: counts as soon as one piece is received.
CountAnyPiece(h) ==
    /\ work[h].pc = "count"
    /\ completed' = IF StillMissing # Items THEN completed + 1 ELSE completed
    /\ Answer(h, "success")
    /\ UNCHANGED <<files, bucket, drawn, accepted, leaked, missed, lost>>

-----------------------------------------------------------------------------
(* DepositsService.store, up to the upload. *)

\* findFirst on the piece and its request, with the key of its present file. Then, before the
\* next await: a 404, a 415, or a new key.
Deposit(h, i) ==
    /\ work[h].pc = "idle"
    /\ \/ /\ i \notin Items
          /\ Become(h, [Free EXCEPT !.pc = "answered", !.outcome = "error"])
          /\ UNCHANGED drawn
       \/ /\ i \in Items
          /\ Become(h, [Free EXCEPT !.pc = "answered", !.outcome = "rejected_type"])
          /\ UNCHANGED drawn
       \/ /\ i \in Items
          /\ \E k \in Keys \ drawn :
                /\ Become(h, [Free EXCEPT !.pc = "put", !.item = i, !.key = k,
                                          !.previous = files[i]])
                /\ drawn' = drawn \cup {k}
    /\ UNCHANGED <<files, bucket, completed, accepted, leaked, missed, lost>>

Put(h) ==
    /\ work[h].pc = "put"
    /\ bucket' = bucket \cup {work[h].key}
    /\ Goto(h, "upsert")
    /\ UNCHANGED <<files, completed, drawn, accepted, leaked, missed, lost>>

\* putObject throws: nothing is undone, and the bucket may have the object all the same.
PutFails(h) ==
    /\ work[h].pc = "put"
    /\ \/ UNCHANGED <<bucket, leaked>>
       \/ /\ bucket' = bucket \cup {work[h].key}
          /\ leaked' = leaked \cup {work[h].key}
    /\ Answer(h, "error")
    /\ UNCHANGED <<files, completed, drawn, accepted, missed, lost>>

-----------------------------------------------------------------------------
(* record: the upsert is a read, then an insert or an update. *)

UpsertRead(h) ==
    /\ work[h].pc = "upsert"
    /\ Goto(h, IF Received(work[h].item) THEN "update" ELSE "insert")
    /\ UNCHANGED <<files, bucket, completed, drawn, accepted, leaked, missed, lost>>

\* The row names the new key; the handler goes on to `next`.
WriteRow(h, next) ==
    /\ files' = [files EXCEPT ![work[h].item] = work[h].key]
    /\ accepted' = accepted \cup {work[h].key}
    /\ Goto(h, next)
    /\ UNCHANGED <<bucket, completed, drawn, leaked, missed>>

\* The unique index on requestedItemId decides between two first deposits (P2002).
UpsertInsert(h) ==
    /\ work[h].pc = "insert"
    /\ \/ ~Received(work[h].item) /\ WriteRow(h, AfterRecord(h)) /\ UNCHANGED lost
       \/ /\ Received(work[h].item)
          /\ Goto(h, "undo")
          /\ UNCHANGED <<files, bucket, completed, drawn, accepted, leaked, missed, lost>>

UpsertUpdate(h) ==
    /\ work[h].pc = "update"
    /\ WriteRow(h, AfterRecord(h))
    /\ UNCHANGED lost

\* The upsert throws, whether nothing was written or the row was.
UpsertFails(h) ==
    /\ work[h].pc \in {"upsert", "insert", "update"}
    /\ \/ /\ Goto(h, "undo")
          /\ UNCHANGED <<files, bucket, completed, drawn, accepted, leaked, missed, lost>>
       \/ /\ work[h].pc = "update" \/ (work[h].pc = "insert" /\ ~Received(work[h].item))
          /\ WriteRow(h, "undo")
          /\ lost' = lost \cup {work[h].key}

\* forget(storageKey) in the catch, then a 409 or the error itself.
Undo(h) ==
    /\ work[h].pc = "undo"
    /\ bucket' = bucket \ {work[h].key}
    /\ Answer(h, "error")
    /\ UNCHANGED <<files, completed, drawn, accepted, leaked, missed, lost>>

-----------------------------------------------------------------------------
(* After the row: countIfCompleted, or forget(previousKey). *)

Count(h) ==
    /\ work[h].pc = "count"
    /\ completed' = IF StillMissing = {} THEN completed + 1 ELSE completed
    /\ Answer(h, "success")
    /\ UNCHANGED <<files, bucket, drawn, accepted, leaked, missed, lost>>

CountFails(h) ==
    /\ work[h].pc = "count"
    /\ missed' = TRUE
    /\ Answer(h, "success")
    /\ UNCHANGED <<files, bucket, completed, drawn, accepted, leaked, lost>>

Forget(h) ==
    /\ work[h].pc = "forget"
    /\ bucket' = bucket \ {work[h].previous}
    /\ Answer(h, "success")
    /\ UNCHANGED <<files, completed, drawn, accepted, leaked, missed, lost>>

\* deleteObject throws: logged and swallowed, in the catch of record or after a replacement.
DeleteFails(h) ==
    /\ \/ /\ work[h].pc = "undo"
          /\ leaked' = leaked \cup {work[h].key}
          /\ Answer(h, "error")
       \/ /\ work[h].pc = "forget"
          /\ leaked' = leaked \cup {work[h].previous}
          /\ Answer(h, "success")
    /\ UNCHANGED <<files, bucket, completed, drawn, accepted, missed, lost>>

-----------------------------------------------------------------------------
(* RequestsService.streamFile, for the lawyer. *)

Download(h, i) ==
    /\ work[h].pc = "idle"
    /\ \/ /\ ~Received(i)
          /\ Become(h, [Free EXCEPT !.pc = "answered", !.outcome = "unavailable"])
       \/ /\ Received(i)
          /\ Become(h, [Free EXCEPT !.pc = "get", !.item = i, !.key = files[i]])
    /\ UNCHANGED <<files, bucket, completed, drawn, accepted, leaked, missed, lost>>

Get(h) ==
    /\ work[h].pc = "get"
    /\ Answer(h, IF work[h].key \in bucket THEN "served" ELSE "broken")
    /\ UNCHANGED <<files, bucket, completed, drawn, accepted, leaked, missed, lost>>

-----------------------------------------------------------------------------
Respond(h) ==
    /\ work[h].pc = "answered"
    /\ Become(h, Free)
    /\ UNCHANGED <<files, bucket, completed, drawn, accepted, leaked, missed, lost>>

\* The process dies: every call in flight is abandoned where it is.
Crash ==
    /\ work' = [h \in Handlers |-> Free]
    /\ leaked' = leaked \cup {work[h].key : h \in {g \in Handlers :
                                 work[g].pc \in {"upsert", "insert", "update", "undo"}}}
                        \cup {work[h].previous : h \in {g \in Handlers : work[g].pc = "forget"}}
    /\ missed' = (missed \/ \E h \in Handlers : work[h].pc = "count")
    /\ UNCHANGED <<files, bucket, completed, drawn, accepted, lost>>

Arrive(h) ==
    \/ \E i \in Items \cup {Stranger} : Deposit(h, i)
    \/ \E i \in Items : Download(h, i)

Progress(h) ==
    \/ Put(h) \/ PutFails(h)
    \/ UpsertRead(h) \/ UpsertInsert(h) \/ UpsertUpdate(h) \/ UpsertFails(h) \/ Undo(h)
    \/ Count(h) \/ CountFails(h) \/ Forget(h) \/ DeleteFails(h)
    \/ Get(h)

Next ==
    \/ \E h \in Handlers : Arrive(h) \/ Progress(h) \/ Respond(h)
    \/ Crash

Spec == Init /\ [][Next]_vars

-----------------------------------------------------------------------------
TypeOK ==
    /\ files \in [Items -> Keys \cup {Null}]
    /\ bucket \in SUBSET Keys
    /\ completed \in Nat
    /\ work \in [Handlers -> Work]
    /\ drawn \in SUBSET Keys /\ accepted \in SUBSET Keys /\ leaked \in SUBSET Keys
    /\ lost \in SUBSET Keys /\ missed \in BOOLEAN

Named == {files[i] : i \in {j \in Items : Received(j)}}
Quiet == \A h \in Handlers : work[h].pc \in {"idle", "answered"}

\* "A failed putObject would leave the piece with nothing where it had something" (store):
\* whatever races, fails or dies, the document a row names is in the bucket, but for a row
\* whose write was reported as failed.
RowsNameObjects == Named \subseteq bucket \cup lost

\* The object of a deposit that was refused does not stay: once nothing is in flight, what the
\* bucket holds was accepted at some time, or was left to a call that failed.
RefusedLeavesNothing == Quiet => bucket \subseteq accepted \cup leaked

\* The last expected piece to arrive is counted, unless the counting itself failed or a deposit
\* was recorded without its handler learning of it.
CompletionIsCounted ==
    Quiet /\ StillMissing = {} /\ Items # {} /\ ~missed /\ lost = {} => completed > 0

\* ... and nothing is counted before it arrives.
CountedOnlyWhenComplete == completed > 0 => StillMissing = {}

\* A download fails for want of the object only if its piece was replaced since it read the
\* row: the lawyer's next attempt reads a row whose object exists.
BrokenOnlyIfReplaced ==
    [][\A h \in Handlers :
          work[h].pc = "get" /\ work'[h].outcome = "broken" =>
              \/ work[h].key \in lost
              \/ /\ files[work[h].item] # work[h].key
                 /\ files[work[h].item] \in bucket \cup lost]_vars

\* record erases the object of a failed write because "no row will ever name it". Violated: the
\* write may have been committed, and its row then names an object that is gone.
UndoneWriteLeavesNoRow == Named \subseteq bucket

-----------------------------------------------------------------------------
Box == INSTANCE DepositBox WITH
    document <- [i \in Items |-> IF files[i] \in bucket THEN files[i] ELSE Null],
    held <- accepted,
    doubtful <- lost

\* Uploads, upserts, erasures, failures and crashes amount to atomic deposits into a box: a
\* piece that can be opened can always be opened, until a deposit of it is recorded in doubt.
ImplementsDepositBox == Box!BSpec
=============================================================================

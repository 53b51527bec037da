-------------------------- MODULE PublicLinksProofs --------------------------
(***************************************************************************)
(* Safety of PublicLinks, and its refinement of LinkRegister, for every    *)
(* number of links, requests, lawyers and concurrent handlers.             *)
(***************************************************************************)
EXTENDS PublicLinks, TLAPS

-----------------------------------------------------------------------------
(* The inductive invariant. *)

\* A link belongs to a request that exists.
LinksAreOwned == \A k \in Links : Issued(k) => owner[links[k].request] # Null

AsksForOwned(h) ==
    /\ job[h].pc \in {"update", "updating", "insert"} =>
          job[h].request \in Requests /\ owner[job[h].request] # Null
    /\ job[h].pc = "create" => job[h].lawyer \in Lawyers
    /\ job[h].pc = "seeded" => owner[Demo] # Null

\* The rows a statement chose are links of its request.
TargetsOfRequest(h) ==
    job[h].pc \in {"updating", "insert"} =>
        \A k \in job[h].targets : Issued(k) /\ links[k].request = job[h].request

\* The rows a transaction has revoked and not committed are still active for everybody else.
HoldsActive(h) == job[h].pc = "insert" => \A k \in job[h].targets : Active(k)

\* Of what worked when the operation was asked, all that still works is among its targets.
SeenCovered(h) ==
    /\ job[h].pc \in {"update", "updating", "insert"} =>
          \A k \in job[h].seen : Issued(k) /\ links[k].request = job[h].request
    /\ job[h].pc \in {"updating", "insert"} =>
          \A k \in job[h].seen : Active(k) => k \in job[h].targets
    /\ job[h].pc = "create" => job[h].seen = {}

HandlerInv(h) == AsksForOwned(h) /\ TargetsOfRequest(h) /\ HoldsActive(h) /\ SeenCovered(h)

\* A row is locked by one transaction at a time.
LocksAreExclusive ==
    \A g, h \in Handlers :
        job[g].pc = "insert" /\ job[h].pc = "insert" /\ g # h =>
            job[g].targets \cap job[h].targets = {}

IInv ==
    /\ TypeOK
    /\ OneActiveLink
    /\ LinksAreOwned
    /\ \A h \in Handlers : HandlerInv(h)
    /\ LocksAreExclusive

\* The initial states: no request, no link, nobody at work.
LEMMA InitIInv == Init => IInv
BY NullAssumption
   DEF Init, IInv, TypeOK, OneActiveLink, LinksAreOwned, HandlerInv, AsksForOwned, TargetsOfRequest,
       HoldsActive, SeenCovered, LocksAreExclusive, Free, Job, Issued, Active

-----------------------------------------------------------------------------
(* Facts used for many actions. *)

LEMMA RowsAreNotNull == \A row \in Row : row # Null
BY NullAssumption

\* Become changes one handler, and keeps the type.
LEMMA BecomeChangesOne ==
    ASSUME TypeOK, NEW h \in Handlers, NEW j \in Job, Become(h, j)
    PROVE  /\ job' \in [Handlers -> Job]
           /\ job'[h] = j
           /\ \A g \in Handlers \ {h} : job'[g] = job[g]
BY DEF TypeOK, Become

\* A handler that answers, or is freed, holds nothing.
LEMMA RestingHandler ==
    ASSUME TypeOK, NEW h \in Handlers,
           Become(h, Free) \/ \E answer \in Answers : Answer(h, answer)
    PROVE  /\ job' \in [Handlers -> Job]
           /\ job'[h].pc \in {"idle", "answered"}
           /\ \A g \in Handlers \ {h} : job'[g] = job[g]
           /\ HandlerInv(h)'
<1>1. \E j \in Job : Become(h, j) /\ j.pc \in {"idle", "answered"}
  <2>1. CASE Become(h, Free)
    BY <2>1, NullAssumption DEF Free, Job
  <2>2. ASSUME NEW answer \in Answers, Answer(h, answer)
        PROVE  \E j \in Job : Become(h, j) /\ j.pc \in {"idle", "answered"}
    <3> DEFINE j == [Free EXCEPT !.pc = "answered", !.answer = answer]
    <3>1. j \in Job /\ j.pc = "answered"
      BY NullAssumption DEF Free, Job
    <3>2. Become(h, j)
      BY <2>2 DEF Answer
    <3> HIDE DEF j
    <3> QED
      BY <3>1, <3>2
  <2> QED
    BY <2>1, <2>2
<1>2. PICK j \in Job : Become(h, j) /\ j.pc \in {"idle", "answered"}
  BY <1>1
<1>3. job'[h] = j
  BY <1>2, BecomeChangesOne
<1> QED
  BY <1>2, <1>3, BecomeChangesOne
     DEF HandlerInv, AsksForOwned, TargetsOfRequest, HoldsActive, SeenCovered

\* A step of h keeps the invariant if the tables stay right, no link is forgotten or revived,
\* and it neither revokes nor locks what another transaction has locked.
LEMMA HandlerStep ==
    ASSUME IInv, TypeOK', OneActiveLink', LinksAreOwned', NEW h \in Handlers, HandlerInv(h)',
           \A g \in Handlers \ {h} : job'[g] = job[g],
           \A r \in Requests : owner[r] # Null => owner'[r] # Null,
           \A k \in Links : Issued(k) => Issued(k)' /\ links'[k].request = links[k].request,
           \A k \in Links : Issued(k) /\ Active(k)' => Active(k),
           \A g \in Handlers \ {h} : job[g].pc = "insert" =>
               /\ \A k \in job[g].targets : Active(k)'
               /\ job'[h].pc = "insert" => job[g].targets \cap job'[h].targets = {}
    PROVE  IInv'
<1>1. ASSUME NEW g \in Handlers PROVE HandlerInv(g)'
  <2>1. CASE g = h
    BY <2>1
  <2>2. CASE g # h
    <3>1. job'[g] = job[g] /\ job[g] \in Job
      BY <2>2 DEF IInv, TypeOK
    <3>2. job[g].targets \subseteq Links /\ job[g].seen \subseteq Links
      BY <3>1 DEF Job
    <3>3. AsksForOwned(g)'
      BY <3>1, ConstantsAssumption DEF IInv, HandlerInv, AsksForOwned
    <3>4. TargetsOfRequest(g)'
      BY <3>1, <3>2 DEF IInv, HandlerInv, TargetsOfRequest
    <3>5. HoldsActive(g)'
      BY <2>2, <3>1 DEF HoldsActive
    <3>6. SeenCovered(g)'
      BY <3>1, <3>2 DEF IInv, HandlerInv, SeenCovered
    <3> QED
      BY <3>3, <3>4, <3>5, <3>6 DEF HandlerInv
  <2> QED
    BY <2>1, <2>2
<1>2. LocksAreExclusive'
  <2> SUFFICES ASSUME NEW f \in Handlers, NEW g \in Handlers, f # g,
                      job'[f].pc = "insert", job'[g].pc = "insert"
               PROVE  job'[f].targets \cap job'[g].targets = {}
    BY DEF LocksAreExclusive
  <2>1. CASE f = h
    BY <2>1
  <2>2. CASE g = h
    BY <2>2
  <2>3. CASE f # h /\ g # h
    BY <2>3 DEF IInv, LocksAreExclusive
  <2> QED
    BY <2>1, <2>2, <2>3
<1> QED
  BY <1>1, <1>2 DEF IInv

\* In particular when it leaves the links alone.
LEMMA QuietStep ==
    ASSUME IInv, NEW h \in Handlers, HandlerInv(h)',
           job' \in [Handlers -> Job],
           \A g \in Handlers \ {h} : job'[g] = job[g],
           UNCHANGED <<clock, links>>,
           owner' \in [Requests -> Lawyers \cup {Null}],
           \A r \in Requests : owner[r] # Null => owner'[r] # Null,
           job'[h].pc = "insert" => \A k \in job'[h].targets : ~LockedForOthers(h, k)
    PROVE  IInv'
<1>1. TypeOK'
  BY DEF IInv, TypeOK
<1>2. OneActiveLink'
  BY DEF IInv, OneActiveLink, Active, Issued
<1>3. LinksAreOwned'
  <2>1. \A k \in Links : Issued(k) => links[k].request \in Requests
    BY DEF IInv, TypeOK, Issued, Row
  <2> QED
    BY <2>1 DEF IInv, LinksAreOwned, Issued
<1>4. \A k \in Links : (Issued(k)' <=> Issued(k)) /\ (Active(k)' <=> Active(k))
  BY DEF Active, Issued
<1>5. ASSUME NEW g \in Handlers \ {h}, job[g].pc = "insert"
      PROVE  /\ \A k \in job[g].targets : Active(k)'
             /\ job'[h].pc = "insert" => job[g].targets \cap job'[h].targets = {}
  <2>1. job[g] \in Job
    BY DEF IInv, TypeOK
  <2>2. job[g].targets \subseteq Links
    BY <2>1 DEF Job
  <2> QED
    BY <1>4, <1>5, <2>2 DEF IInv, HandlerInv, HoldsActive, LockedForOthers
<1> QED
  BY <1>1, <1>2, <1>3, <1>4, <1>5, HandlerStep

-----------------------------------------------------------------------------
(* One lemma per kind of action. *)

\* Creating, seeding, failing, responding and losing the race leave the links alone.
LEMMA RestStep ==
    ASSUME IInv, NEW h \in Handlers, UNCHANGED <<clock, owner, links>>,
           Become(h, Free) \/ \E answer \in Answers : Answer(h, answer)
    PROVE  IInv'
<1>1. TypeOK /\ owner \in [Requests -> Lawyers \cup {Null}]
  BY DEF IInv, TypeOK
<1>2. /\ job' \in [Handlers -> Job]
      /\ job'[h].pc \in {"idle", "answered"}
      /\ \A g \in Handlers \ {h} : job'[g] = job[g]
      /\ HandlerInv(h)'
  BY <1>1, RestingHandler
<1> QED
  BY <1>1, <1>2, QuietStep

\* A creation only notes what it was asked.
LEMMA CreateStep ==
    ASSUME IInv, NEW h \in Handlers, NEW l \in Lawyers, NEW v \in Validities, Create(h, l, v)
    PROVE  IInv'
<1> DEFINE j == [Free EXCEPT !.pc = "create", !.lawyer = l, !.at = clock, !.validity = v]
<1>1. TypeOK /\ clock \in Nat /\ v \in Nat /\ owner \in [Requests -> Lawyers \cup {Null}]
  BY ConstantsAssumption DEF IInv, TypeOK
<1>2. j \in Job /\ j.pc = "create" /\ j.lawyer = l /\ j.seen = {}
  BY <1>1, NullAssumption DEF Free, Job
<1>3. Become(h, j) /\ UNCHANGED <<clock, owner, links>>
  BY DEF Create
<1> HIDE DEF j
<1>4. job' \in [Handlers -> Job] /\ job'[h] = j /\ \A g \in Handlers \ {h} : job'[g] = job[g]
  BY <1>1, <1>2, <1>3, BecomeChangesOne
<1>5. HandlerInv(h)'
  BY <1>2, <1>4 DEF HandlerInv, AsksForOwned, TargetsOfRequest, HoldsActive, SeenCovered
<1> QED
  BY <1>1, <1>2, <1>3, <1>4, <1>5, QuietStep

\* Regenerate and revoke start on a request that exists.
LEMMA AskStep ==
    ASSUME IInv, NEW h \in Handlers, NEW op \in {"regenerate", "revoke"},
           NEW l, l # Null, NEW r \in Requests, NEW v \in Nat,
           Ask(h, op, l, r, v), UNCHANGED <<clock, owner, links>>
    PROVE  IInv'
<1> DEFINE j == [Free EXCEPT !.pc = "update", !.op = op, !.request = r, !.at = clock,
                             !.validity = v, !.seen = ActiveOf(r)]
<1>1. TypeOK /\ clock \in Nat /\ owner \in [Requests -> Lawyers \cup {Null}]
  BY DEF IInv, TypeOK
<1>2. CASE Answer(h, "refused")
  BY <1>2, RestStep DEF Answers
<1>3. CASE owner[r] = l /\ Become(h, j)
  <2>1. ActiveOf(r) \subseteq Links
    BY DEF ActiveOf, LinksOf
  <2>2. j \in Job /\ j.pc = "update" /\ j.request = r /\ j.seen = ActiveOf(r)
    BY <1>1, <2>1, NullAssumption DEF Free, Job
  <2> HIDE DEF j
  <2>3. job' \in [Handlers -> Job] /\ job'[h] = j /\ \A g \in Handlers \ {h} : job'[g] = job[g]
    BY <1>1, <1>3, <2>2, BecomeChangesOne
  <2>4. \A k \in ActiveOf(r) : Issued(k)' /\ links'[k].request = r
    BY DEF ActiveOf, LinksOf, Issued
  <2>5. HandlerInv(h)'
    BY <1>3, <2>2, <2>3, <2>4
       DEF HandlerInv, AsksForOwned, TargetsOfRequest, HoldsActive, SeenCovered
  <2> QED
    BY <1>1, <2>2, <2>3, <2>5, QuietStep
<1> QED
  BY <1>2, <1>3 DEF Ask

\* The seed creates its request, or goes on to its link.
LEMMA SeedStep ==
    ASSUME IInv, NEW h \in Handlers,
           Seed(h) \/ SeedCreate(h) \/ \E v \in Validities : SeedLink(h, v)
    PROVE  IInv'
<1>1. /\ TypeOK /\ job[h] \in Job /\ owner \in [Requests -> Lawyers \cup {Null}]
      /\ Demo \in Requests /\ Seeder \in Lawyers /\ Seeder # Null
  BY ConstantsAssumption, NullAssumption DEF IInv, TypeOK
<1>2. ASSUME NEW j \in Job, j.pc \in {"seed", "seeded"}, Become(h, j), UNCHANGED <<clock, links>>,
             owner' = owner \/ owner' = [owner EXCEPT ![Demo] = Seeder],
             j.pc = "seeded" => owner'[Demo] # Null
      PROVE  IInv'
  <2>1. job' \in [Handlers -> Job] /\ job'[h] = j /\ \A g \in Handlers \ {h} : job'[g] = job[g]
    BY <1>1, <1>2, BecomeChangesOne
  <2>2. HandlerInv(h)'
    BY <1>2, <2>1 DEF HandlerInv, AsksForOwned, TargetsOfRequest, HoldsActive, SeenCovered
  <2>3. /\ owner' \in [Requests -> Lawyers \cup {Null}]
        /\ \A r \in Requests : owner[r] # Null => owner'[r] # Null
    BY <1>1, <1>2
  <2> QED
    BY <1>2, <2>1, <2>2, <2>3, QuietStep
<1>3. CASE Seed(h)
  <2> DEFINE j == [Free EXCEPT !.pc = IF owner[Demo] = Null THEN "seed" ELSE "seeded"]
  <2>1. j \in Job /\ j.pc \in {"seed", "seeded"} /\ (j.pc = "seeded" => owner[Demo] # Null)
    BY NullAssumption DEF Free, Job
  <2>2. Become(h, j) /\ UNCHANGED <<clock, owner, links>>
    BY <1>3 DEF Seed
  <2> HIDE DEF j
  <2> QED
    BY <1>2, <2>1, <2>2
<1>4. CASE SeedCreate(h)
  <2> DEFINE j == [job[h] EXCEPT !.pc = "seeded"]
  <2>1. j \in Job /\ j.pc = "seeded"
    BY <1>1 DEF Job
  <2>2. Become(h, j) /\ UNCHANGED <<clock, links>> /\ owner' = [owner EXCEPT ![Demo] = Seeder]
    BY <1>4 DEF SeedCreate
  <2>3. owner'[Demo] # Null
    BY <1>1, <2>2
  <2> HIDE DEF j
  <2> QED
    BY <1>2, <2>1, <2>2, <2>3
<1>5. ASSUME NEW v \in Validities, SeedLink(h, v) PROVE IInv'
  <2>1. v \in Nat /\ UNCHANGED <<clock, owner, links>>
    BY <1>5, ConstantsAssumption DEF SeedLink
  <2>2. owner[Demo] # Null
    BY <1>5 DEF SeedLink, IInv, HandlerInv, AsksForOwned
  <2> QED
    BY <1>1, <1>5, <2>1, <2>2, AskStep DEF SeedLink
<1> QED
  BY <1>3, <1>4, <1>5

\* The snapshot holds every link of the request that works.
LEMMA SnapshotStep == ASSUME IInv, NEW h \in Handlers, Snapshot(h) PROVE IInv'
<1> DEFINE found == ActiveOf(job[h].request)
           j == [job[h] EXCEPT !.pc = "updating", !.targets = found]
<1>1. /\ TypeOK /\ job[h] \in Job /\ job[h].pc = "update"
      /\ owner \in [Requests -> Lawyers \cup {Null}]
      /\ UNCHANGED <<clock, owner, links>>
  BY DEF IInv, TypeOK, Snapshot
<1>2. \A k \in found : k \in Links /\ Issued(k) /\ links[k].request = job[h].request
  BY DEF ActiveOf, LinksOf
<1>3. \A k \in job[h].seen : Issued(k) /\ links[k].request = job[h].request /\ (Active(k) => k \in found)
  <2>1. job[h].seen \subseteq Links
    BY <1>1 DEF Job
  <2> QED
    BY <1>1, <2>1 DEF IInv, HandlerInv, SeenCovered, ActiveOf, LinksOf
<1> HIDE DEF found
<1>4. /\ j \in Job /\ j.pc = "updating" /\ j.request = job[h].request /\ j.targets = found
      /\ j.seen = job[h].seen
  BY <1>1, <1>2 DEF Job
<1>5. Become(h, j)
  BY DEF Snapshot, found
<1> HIDE DEF j
<1>6. job' \in [Handlers -> Job] /\ job'[h] = j /\ \A g \in Handlers \ {h} : job'[g] = job[g]
  BY <1>1, <1>4, <1>5, BecomeChangesOne
<1>7. HandlerInv(h)'
  <2>1. AsksForOwned(h)'
    BY <1>1, <1>4, <1>6 DEF IInv, HandlerInv, AsksForOwned
  <2>2. TargetsOfRequest(h)' /\ HoldsActive(h)' /\ SeenCovered(h)'
    BY <1>1, <1>2, <1>3, <1>4, <1>6
       DEF TargetsOfRequest, HoldsActive, SeenCovered, Issued, Active
  <2> QED
    BY <2>1, <2>2 DEF HandlerInv
<1> QED
  BY <1>1, <1>4, <1>6, <1>7, QuietStep

\* What a revocation writes.
LEMMA RevokeEffect ==
    ASSUME IInv, NEW h \in Handlers, Update(h), job[h].op = "revoke", job[h].pc = "updating"
    PROVE  /\ Answer(h, "done") /\ UNCHANGED <<clock, owner>>
           /\ links' \in [Links -> Row \cup {Null}]
           /\ \A k \in Links :
                /\ Issued(k)' <=> Issued(k)
                /\ Issued(k) => links'[k].request = links[k].request
                /\ Active(k)' <=> Active(k) /\ k \notin job[h].targets
                /\ ~Active(k) => links'[k] = links[k]
<1> DEFINE revoked(k) == [links[k] EXCEPT !.revokedAt = job[h].at]
           found == {k \in job[h].targets : Active(k)}
<1>1. TypeOK /\ job[h].at \in Nat /\ job[h].targets \subseteq Links
  BY DEF IInv, TypeOK, Job
<1>2. /\ links' = [k \in Links |-> IF k \in found THEN revoked(k) ELSE links[k]]
      /\ Answer(h, "done") /\ UNCHANGED <<clock, owner>>
  BY DEF Update
<1>3. ASSUME NEW k \in Links
      PROVE  /\ links'[k] \in Row \cup {Null}
             /\ Issued(k)' <=> Issued(k)
             /\ Issued(k) => links'[k].request = links[k].request
             /\ Active(k)' <=> Active(k) /\ k \notin job[h].targets
             /\ ~Active(k) => links'[k] = links[k]
  <2>1. CASE k \in found
    <3>1. links[k] \in Row /\ links'[k] = revoked(k)
      BY <1>1, <1>2, <2>1 DEF TypeOK, Active, Issued
    <3>2. revoked(k) \in Row /\ revoked(k).request = links[k].request /\ revoked(k).revokedAt # Null
      BY <1>1, <3>1, NullAssumption DEF Row
    <3> HIDE DEF revoked
    <3> QED
      BY <2>1, <3>1, <3>2, RowsAreNotNull DEF Active, Issued
  <2>2. CASE k \notin found
    <3>1. links'[k] = links[k]
      BY <1>2, <2>2
    <3> QED
      BY <1>1, <2>2, <3>1 DEF Active, Issued, TypeOK
  <2> QED
    BY <2>1, <2>2
<1> QED
  BY <1>2, <1>3

\* A revocation commits; in a regeneration the rows it revokes are locked.
LEMMA UpdateStep == ASSUME IInv, NEW h \in Handlers, Update(h) PROVE IInv'
<1>1. /\ TypeOK /\ job[h] \in Job /\ job[h].pc = "updating"
      /\ owner \in [Requests -> Lawyers \cup {Null}]
      /\ \A k \in job[h].targets : ~LockedForOthers(h, k)
  BY DEF IInv, TypeOK, Update
<1>2. CASE job[h].op = "revoke"
  <2>1. /\ Answer(h, "done") /\ UNCHANGED <<clock, owner>>
        /\ links' \in [Links -> Row \cup {Null}]
        /\ \A k \in Links :
             /\ Issued(k)' <=> Issued(k)
             /\ Issued(k) => links'[k].request = links[k].request
             /\ Active(k)' <=> Active(k) /\ k \notin job[h].targets
    BY <1>1, <1>2, RevokeEffect
  <2>2. /\ job' \in [Handlers -> Job]
        /\ job'[h].pc \in {"idle", "answered"}
        /\ \A g \in Handlers \ {h} : job'[g] = job[g]
        /\ HandlerInv(h)'
    BY <1>1, <2>1, RestingHandler DEF Answers
  <2>3. TypeOK'
    BY <1>1, <2>1, <2>2 DEF TypeOK
  <2>4. OneActiveLink'
    <3>1. \A k \in Links : Active(k) => Issued(k)
      BY DEF Active
    <3> QED
      BY <2>1, <3>1 DEF IInv, OneActiveLink
  <2>5. LinksAreOwned'
    BY <2>1 DEF IInv, LinksAreOwned
  <2>6. \A g \in Handlers \ {h} : job[g].pc = "insert" => \A k \in job[g].targets : Active(k)'
    <3> SUFFICES ASSUME NEW g \in Handlers \ {h}, job[g].pc = "insert", NEW k \in job[g].targets
                 PROVE  Active(k)'
      OBVIOUS
    <3>1. k \in Links /\ Active(k)
      BY DEF IInv, TypeOK, Job, HandlerInv, HoldsActive
    <3>2. k \notin job[h].targets
      BY <1>1 DEF LockedForOthers
    <3> QED
      BY <2>1, <3>1, <3>2
  <2> QED
    BY <2>1, <2>2, <2>3, <2>4, <2>5, <2>6, HandlerStep
<1>3. CASE job[h].op # "revoke"
  <2> DEFINE found == {k \in job[h].targets : Active(k)}
             j == [job[h] EXCEPT !.pc = "insert", !.targets = found]
  <2>1. Become(h, j) /\ UNCHANGED <<clock, owner, links>>
    BY <1>3 DEF Update
  <2>2. found \subseteq Links /\ found \subseteq job[h].targets /\ \A k \in found : Active(k)
    BY <1>1 DEF Job
  <2>3. \A k \in job[h].seen : Active(k) => k \in found
    BY <1>1 DEF IInv, HandlerInv, SeenCovered
  <2> HIDE DEF found
  <2>4. /\ j \in Job /\ j.pc = "insert" /\ j.request = job[h].request /\ j.targets = found
        /\ j.seen = job[h].seen
    BY <1>1, <2>2 DEF Job
  <2> HIDE DEF j
  <2>5. job' \in [Handlers -> Job] /\ job'[h] = j /\ \A g \in Handlers \ {h} : job'[g] = job[g]
    BY <1>1, <2>1, <2>4, BecomeChangesOne
  <2>6. AsksForOwned(h)'
    BY <1>1, <2>1, <2>4, <2>5 DEF IInv, HandlerInv, AsksForOwned
  <2>7. TargetsOfRequest(h)' /\ HoldsActive(h)'
    BY <1>1, <2>1, <2>2, <2>4, <2>5
       DEF IInv, HandlerInv, TargetsOfRequest, HoldsActive, Issued, Active
  <2>8. SeenCovered(h)'
    BY <1>1, <2>1, <2>3, <2>4, <2>5 DEF IInv, HandlerInv, SeenCovered, Issued, Active
  <2>9. HandlerInv(h)'
    BY <2>6, <2>7, <2>8 DEF HandlerInv
  <2>10. \A k \in job'[h].targets : ~LockedForOthers(h, k)
    BY <1>1, <2>2, <2>4, <2>5
  <2> QED
    BY <1>1, <2>1, <2>5, <2>9, <2>10, QuietStep
<1> QED
  BY <1>2, <1>3

\* A new row is well formed, active and of its request.
LEMMA NewRowTyped ==
    ASSUME TypeOK, NEW h \in Handlers, NEW r \in Requests, NEW createdAt \in Nat
    PROVE  /\ NewRow(h, r, createdAt) \in Row
           /\ NewRow(h, r, createdAt).request = r
           /\ NewRow(h, r, createdAt).revokedAt = Null
<1>1. job[h] \in Job /\ job[h].at + job[h].validity \in Nat
  BY DEF TypeOK, Job
<1> QED
  BY <1>1 DEF NewRow, Row

\* What a regeneration commits: its targets revoked, and one link for its request.
LEMMA InsertEffect ==
    ASSUME IInv, NEW h \in Handlers, NEW k \in Links, Insert(h, k)
    PROVE  /\ Answer(h, "done") /\ UNCHANGED <<clock, owner>>
           /\ links' \in [Links -> Row \cup {Null}]
           /\ ~Issued(k) /\ Issued(k)' /\ Active(k)' /\ links'[k].request = job[h].request
           /\ \A j \in Links \ {k} :
                /\ Issued(j)' <=> Issued(j)
                /\ Issued(j) => links'[j].request = links[j].request
                /\ Active(j)' <=> Active(j) /\ j \notin job[h].targets
                /\ ~Active(j) => links'[j] = links[j]
<1> DEFINE revoked(j) == [links[j] EXCEPT !.revokedAt = job[h].at]
<1>1. /\ TypeOK /\ job[h] \in Job /\ job[h].at \in Nat /\ job[h].targets \subseteq Links
      /\ job[h].request \in Requests /\ clock \in Nat
      /\ \A j \in job[h].targets : Active(j)
  BY DEF IInv, TypeOK, Job, Insert, HandlerInv, AsksForOwned, HoldsActive
<1>2. PICK createdAt \in job[h].at .. clock :
        links' = [j \in Links |->
                    IF j = k THEN NewRow(h, job[h].request, createdAt)
                    ELSE IF j \in job[h].targets THEN revoked(j)
                    ELSE links[j]]
  BY DEF Insert
<1> DEFINE new == NewRow(h, job[h].request, createdAt)
<1>3. new \in Row /\ new.request = job[h].request /\ new.revokedAt = Null
  BY <1>1, NewRowTyped
<1>4. links'[k] = new
  BY <1>2
<1> HIDE DEF new
<1>5. ~Issued(k) /\ Issued(k)' /\ Active(k)' /\ links'[k].request = job[h].request
  BY <1>3, <1>4, RowsAreNotNull DEF Insert, Issued, Active
<1>6. ASSUME NEW j \in Links \ {k}
      PROVE  /\ links'[j] \in Row \cup {Null}
             /\ Issued(j)' <=> Issued(j)
             /\ Issued(j) => links'[j].request = links[j].request
             /\ Active(j)' <=> Active(j) /\ j \notin job[h].targets
             /\ ~Active(j) => links'[j] = links[j]
  <2>1. CASE j \in job[h].targets
    <3>1. links[j] \in Row /\ links'[j] = revoked(j) /\ Active(j)
      BY <1>1, <1>2, <2>1 DEF TypeOK, Active, Issued
    <3>2. revoked(j) \in Row /\ revoked(j).request = links[j].request /\ revoked(j).revokedAt # Null
      BY <1>1, <3>1, NullAssumption DEF Row
    <3> HIDE DEF revoked
    <3> QED
      BY <2>1, <3>1, <3>2, RowsAreNotNull DEF Active, Issued
  <2>2. CASE j \notin job[h].targets
    <3>1. links'[j] = links[j]
      BY <1>2, <2>2
    <3> QED
      BY <1>1, <2>2, <3>1 DEF Active, Issued, TypeOK
  <2> QED
    BY <2>1, <2>2
<1>7. links' \in [Links -> Row \cup {Null}]
  <2>1. \A j \in Links : links'[j] \in Row \cup {Null}
    BY <1>3, <1>4, <1>6
  <2> QED
    BY <1>2, <2>1
<1> QED
  BY <1>5, <1>6, <1>7 DEF Insert

\* The new link is then the only one that works for its request.
LEMMA InsertStep == ASSUME IInv, NEW h \in Handlers, NEW k \in Links, Insert(h, k) PROVE IInv'
<1>1. /\ TypeOK /\ job[h] \in Job /\ job[h].pc = "insert"
      /\ job[h].request \in Requests /\ owner[job[h].request] # Null
      /\ ActiveOf(job[h].request) \subseteq job[h].targets
  BY DEF IInv, TypeOK, Insert, HandlerInv, AsksForOwned
<1>2. /\ Answer(h, "done") /\ UNCHANGED <<clock, owner>>
      /\ links' \in [Links -> Row \cup {Null}]
      /\ ~Issued(k) /\ Issued(k)' /\ Active(k)' /\ links'[k].request = job[h].request
      /\ \A j \in Links \ {k} :
           /\ Issued(j)' <=> Issued(j)
           /\ Issued(j) => links'[j].request = links[j].request
           /\ Active(j)' <=> Active(j) /\ j \notin job[h].targets
  BY InsertEffect
<1>3. /\ job' \in [Handlers -> Job]
      /\ job'[h].pc \in {"idle", "answered"}
      /\ \A g \in Handlers \ {h} : job'[g] = job[g]
      /\ HandlerInv(h)'
  BY <1>1, <1>2, RestingHandler DEF Answers
<1>4. TypeOK'
  BY <1>1, <1>2, <1>3 DEF TypeOK
<1>5. \A j \in Links \ {k} : Active(j)' => /\ Active(j) /\ Issued(j)
                                          /\ links'[j].request = links[j].request
                                          /\ links[j].request # job[h].request
  <2>1. \A j \in Links : Active(j) => Issued(j)
    BY DEF Active
  <2> QED
    BY <1>1, <1>2, <2>1 DEF ActiveOf, LinksOf
<1>6. OneActiveLink'
  <2> SUFFICES ASSUME NEW i \in Links, NEW j \in Links, Active(i)', Active(j)',
                      links'[i].request = links'[j].request
               PROVE  i = j
    BY DEF OneActiveLink
  <2>1. CASE i # k /\ j # k
    BY <1>5, <2>1 DEF IInv, OneActiveLink
  <2>2. CASE i = k \/ j = k
    BY <1>2, <1>5, <2>2
  <2> QED
    BY <2>1, <2>2
<1>7. LinksAreOwned'
  BY <1>1, <1>2 DEF IInv, LinksAreOwned
<1>8. ASSUME NEW g \in Handlers \ {h}, job[g].pc = "insert", NEW j \in job[g].targets PROVE Active(j)'
  <2>1. j \in Links /\ Active(j) /\ Issued(j)
    BY <1>8 DEF IInv, TypeOK, Job, HandlerInv, HoldsActive, Active
  <2>2. j \notin job[h].targets /\ j # k
    BY <1>1, <1>2, <1>8, <2>1 DEF IInv, LocksAreExclusive
  <2> QED
    BY <1>2, <2>1, <2>2
<1> QED
  BY <1>1, <1>2, <1>3, <1>4, <1>6, <1>7, <1>8, HandlerStep

\* A creation commits a request together with its link.
LEMMA CreateCommitEffect ==
    ASSUME IInv, NEW h \in Handlers, NEW r \in Requests, NEW k \in Links, CreateCommit(h, r, k)
    PROVE  /\ Answer(h, "done") /\ clock' = clock
           /\ owner[r] = Null /\ job[h].lawyer \in Lawyers
           /\ owner' = [owner EXCEPT ![r] = job[h].lawyer]
           /\ links' \in [Links -> Row \cup {Null}]
           /\ ~Issued(k) /\ Issued(k)' /\ Active(k)' /\ links'[k].request = r
           /\ \A j \in Links \ {k} : links'[j] = links[j]
<1>1. /\ TypeOK /\ job[h] \in Job /\ job[h].at \in Nat /\ clock \in Nat
      /\ job[h].lawyer \in Lawyers
  BY DEF IInv, TypeOK, Job, CreateCommit, HandlerInv, AsksForOwned
<1>2. PICK createdAt \in job[h].at .. clock : links' = [links EXCEPT ![k] = NewRow(h, r, createdAt)]
  BY DEF CreateCommit
<1> DEFINE new == NewRow(h, r, createdAt)
<1>3. new \in Row /\ new.request = r /\ new.revokedAt = Null
  BY <1>1, NewRowTyped
<1>4. links' = [links EXCEPT ![k] = new]
  BY <1>2
<1> HIDE DEF new
<1> QED
  BY <1>1, <1>3, <1>4, RowsAreNotNull DEF CreateCommit, TypeOK, Issued, Active

LEMMA CreateCommitStep ==
    ASSUME IInv, NEW h \in Handlers, NEW r \in Requests, NEW k \in Links, CreateCommit(h, r, k)
    PROVE  IInv'
<1>1. /\ TypeOK /\ owner \in [Requests -> Lawyers \cup {Null}] /\ Null \notin Lawyers
  BY NullAssumption DEF IInv, TypeOK
<1>2. /\ Answer(h, "done") /\ clock' = clock
      /\ owner[r] = Null /\ job[h].lawyer \in Lawyers
      /\ owner' = [owner EXCEPT ![r] = job[h].lawyer]
      /\ links' \in [Links -> Row \cup {Null}]
      /\ ~Issued(k) /\ Issued(k)' /\ Active(k)' /\ links'[k].request = r
      /\ \A j \in Links \ {k} : links'[j] = links[j]
  BY CreateCommitEffect
<1>3. /\ job' \in [Handlers -> Job]
      /\ job'[h].pc \in {"idle", "answered"}
      /\ \A g \in Handlers \ {h} : job'[g] = job[g]
      /\ HandlerInv(h)'
  BY <1>1, <1>2, RestingHandler DEF Answers
<1>4. TypeOK'
  BY <1>1, <1>2, <1>3 DEF TypeOK
<1>5. \A j \in Links \ {k} : /\ Issued(j)' <=> Issued(j)
                             /\ Active(j)' <=> Active(j)
                             /\ Issued(j) => links[j].request # r /\ links[j].request \in Requests
  BY <1>1, <1>2 DEF IInv, LinksAreOwned, TypeOK, Row, Issued, Active
<1>6. OneActiveLink'
  <2>1. \A j \in Links : Active(j)' => Issued(j)'
    BY DEF Active
  <2> QED
    BY <1>2, <1>5, <2>1 DEF IInv, OneActiveLink
<1>7. LinksAreOwned'
  <2>1. \A q \in Requests : owner[q] # Null \/ q = r => owner'[q] # Null
    BY <1>1, <1>2
  <2> QED
    BY <1>2, <1>5, <2>1 DEF IInv, LinksAreOwned
<1>8. ASSUME NEW g \in Handlers \ {h}, job[g].pc = "insert", NEW j \in job[g].targets PROVE Active(j)'
  <2>1. j \in Links /\ Active(j) /\ Issued(j)
    BY <1>8 DEF IInv, TypeOK, Job, HandlerInv, HoldsActive, Active
  <2>2. j # k
    BY <1>2, <2>1
  <2> QED
    BY <1>5, <2>1, <2>2
<1>9. \A q \in Requests : owner[q] # Null => owner'[q] # Null
  BY <1>1, <1>2
<1> QED
  BY <1>1, <1>2, <1>3, <1>4, <1>5, <1>6, <1>7, <1>8, <1>9, HandlerStep

-----------------------------------------------------------------------------
\* Every step keeps the invariant.
LEMMA NextIInv == ASSUME IInv, [Next]_vars PROVE IInv'
<1>1. ASSUME NEW h \in Handlers, Called(h) PROVE IInv'
  <2>1. Validities \subseteq Nat /\ 0 \in Nat /\ \A l \in Lawyers : l # Null
    BY ConstantsAssumption, NullAssumption
  <2>2. ASSUME NEW l \in Lawyers, NEW v \in Validities, Create(h, l, v) PROVE IInv'
    BY <2>2, CreateStep
  <2>3. ASSUME NEW l \in Lawyers, NEW v \in Validities, NEW r \in Requests, Regenerate(h, l, r, v)
        PROVE  IInv'
    <3>1. Ask(h, "regenerate", l, r, v) /\ UNCHANGED <<clock, owner, links>> /\ v \in Nat /\ l # Null
      BY <2>1, <2>3 DEF Regenerate
    <3> QED
      BY <3>1, AskStep
  <2>4. ASSUME NEW l \in Lawyers, NEW r \in Requests, Revoke(h, l, r) PROVE IInv'
    <3>1. Ask(h, "revoke", l, r, 0) /\ UNCHANGED <<clock, owner, links>> /\ 0 \in Nat /\ l # Null
      BY <2>1, <2>4 DEF Revoke
    <3> QED
      BY <3>1, AskStep
  <2>5. CASE Seed(h)
    BY <2>5, SeedStep
  <2> QED
    BY <1>1, <2>2, <2>3, <2>4, <2>5 DEF Called
<1>2. ASSUME NEW h \in Handlers, Progress(h) PROVE IInv'
  <2>1. CASE InsertConflicts(h)
    BY <2>1, RestStep DEF InsertConflicts, Answers
  <2> QED
    BY <1>2, <2>1, CreateCommitStep, SnapshotStep, UpdateStep, InsertStep, SeedStep DEF Progress
<1>3. ASSUME NEW h \in Handlers, Fail(h) \/ Respond(h) PROVE IInv'
  BY <1>3, RestStep DEF Fail, Respond
<1>4. CASE Tick \/ UNCHANGED vars
  <2>1. clock' \in Nat /\ UNCHANGED <<owner, links, job>>
    BY <1>4 DEF Tick, vars, IInv, TypeOK
  <2>2. TypeOK'
    BY <2>1 DEF IInv, TypeOK
  <2>3. OneActiveLink' /\ LinksAreOwned' /\ LocksAreExclusive'
    BY <2>1 DEF IInv, OneActiveLink, LinksAreOwned, LocksAreExclusive, Issued, Active
  <2>4. \A h \in Handlers : HandlerInv(h)'
    BY <2>1 DEF IInv, HandlerInv, AsksForOwned, TargetsOfRequest, HoldsActive, SeenCovered,
                Issued, Active
  <2> QED
    BY <2>2, <2>3, <2>4 DEF IInv
<1> QED
  BY <1>1, <1>2, <1>3, <1>4 DEF Next

\* The invariant holds in every state of every behaviour.
THEOREM InductiveInvariant == Spec => []IInv
BY InitIInv, NextIInv, PTL DEF Spec

\* Every variable keeps its type.
THEOREM TypeCorrect == Spec => []TypeOK
<1>1. IInv => TypeOK
  BY DEF IInv
<1> QED
  BY <1>1, InductiveInvariant, PTL

\* A request never has two links that work, whatever races to regenerate it.
THEOREM OneLinkPerRequest == Spec => []OneActiveLink
<1>1. IInv => OneActiveLink
  BY DEF IInv
<1> QED
  BY <1>1, InductiveInvariant, PTL

\* LAST_LINK returns the active link of a request that has one: nulls come first.
LEMMA LastLinkIsActive ==
    ASSUME NEW r \in Requests, NEW k \in ActiveOf(r), NEW shown \in LastLinks(r)
    PROVE  shown \in ActiveOf(r)
<1>1. k \in LinksOf(r) /\ links[k].revokedAt = Null
  BY DEF ActiveOf, Active
<1>2. shown \in LinksOf(r) /\ ~SortsBefore(k, shown)
  BY <1>1 DEF LastLinks
<1>3. links[shown].revokedAt = Null
  BY <1>1, <1>2 DEF SortsBefore
<1> QED
  BY <1>2, <1>3 DEF ActiveOf, LinksOf, Active

\* The dashboard shows a link that works exactly when the client has one, and shows that one.
THEOREM ReadingsAgree == Spec => []DashboardAgreesWithClient
<1>1. ASSUME IInv, NEW r \in Requests, NEW shown \in LastLinks(r)
      PROVE  LET opens == {k \in LinksOf(r) : Resolve(k, clock) = "ok"} IN
             /\ (links[shown].revokedAt = Null /\ ~IsExpired(links[shown].expiresAt, clock))
                  <=> opens # {}
             /\ opens # {} => opens = {shown}
  <2>1. shown \in LinksOf(r)
    BY DEF LastLinks
  <2>2. \A k \in LinksOf(r) : Resolve(k, clock) = "ok" <=>
            links[k].revokedAt = Null /\ ~IsExpired(links[k].expiresAt, clock)
    BY DEF LinksOf, Resolve
  <2>3. ASSUME NEW k \in LinksOf(r), links[k].revokedAt = Null
        PROVE  k = shown
    <3>1. k \in ActiveOf(r)
      BY <2>3 DEF ActiveOf, LinksOf, Active
    <3>2. shown \in ActiveOf(r)
      BY <3>1, LastLinkIsActive
    <3> QED
      BY <1>1, <3>1, <3>2 DEF IInv, OneActiveLink, ActiveOf, LinksOf
  <2>4. CASE links[shown].revokedAt = Null /\ ~IsExpired(links[shown].expiresAt, clock)
    <3>1. {k \in LinksOf(r) : Resolve(k, clock) = "ok"} = {shown}
      BY <2>1, <2>2, <2>3, <2>4
    <3> QED
      BY <2>4, <3>1
  <2>5. CASE ~(links[shown].revokedAt = Null /\ ~IsExpired(links[shown].expiresAt, clock))
    <3>1. {k \in LinksOf(r) : Resolve(k, clock) = "ok"} = {}
      BY <2>2, <2>3, <2>5
    <3> QED
      BY <2>5, <3>1
  <2> QED
    BY <2>4, <2>5
<1>2. IInv => DashboardAgreesWithClient
  BY <1>1 DEF DashboardAgreesWithClient
<1> QED
  BY <1>2, InductiveInvariant, PTL

-----------------------------------------------------------------------------
(* Step by step: what a revocation and a regeneration may do to the links. *)

\* Every step leaves the links alone, or is one of the three that commit.
LEMMA StepCases ==
    ASSUME IInv, [Next]_vars
    PROVE  \/ links' = links
           \/ \E h \in Handlers : Update(h) /\ job[h].op = "revoke" /\ job[h].pc = "updating"
           \/ \E h \in Handlers, k \in Links : Insert(h, k)
           \/ \E h \in Handlers, r \in Requests, k \in Links : CreateCommit(h, r, k)
BY DEF Next, vars, Called, Progress, Create, Regenerate, Revoke, Ask, Snapshot, Update,
       InsertConflicts, Seed, SeedCreate, SeedLink, Fail, Respond, Tick

\* Only the handler itself reports success, in the step that commits.
LEMMA SuccessCases ==
    ASSUME IInv, [Next]_vars, NEW h \in Handlers,
           job[h].pc # "answered", job'[h].pc = "answered", job'[h].answer = "done"
    PROVE  \/ Update(h) /\ job[h].op = "revoke" /\ job[h].pc = "updating"
           \/ \E k \in Links : Insert(h, k)
           \/ \E r \in Requests, k \in Links : CreateCommit(h, r, k)
<1>1. job \in [Handlers -> Job] /\ job'[h] # job[h]
  BY DEF IInv, TypeOK
<1>2. ~Become(h, Free) /\ ~Answer(h, "refused")
  <2>1. Free.pc = "idle" /\ [Free EXCEPT !.pc = "answered", !.answer = "refused"].answer = "refused"
    BY DEF Free
  <2> QED
    BY <1>1, <2>1 DEF Become, Answer
<1>3. \A j : Become(h, j) => j.pc = "answered"
  BY <1>1 DEF Become
<1>4. ~(\E l \in Lawyers, v \in Validities : Create(h, l, v))
  <2>1. \A l, v : [Free EXCEPT !.pc = "create", !.lawyer = l, !.at = clock, !.validity = v].pc = "create"
    BY DEF Free
  <2> QED
    BY <1>3, <2>1 DEF Create
<1>5. \A op, l, r, v : ~Ask(h, op, l, r, v)
  <2>1. \A op, r, v : [Free EXCEPT !.pc = "update", !.op = op, !.request = r, !.at = clock,
                              !.validity = v, !.seen = ActiveOf(r)].pc = "update"
    BY DEF Free
  <2> QED
    BY <1>2, <1>3, <2>1 DEF Ask
<1>6. ~Snapshot(h) /\ ~SeedCreate(h)
  <2>1. job[h] \in Job
    BY <1>1
  <2>2. /\ [job[h] EXCEPT !.pc = "updating", !.targets = ActiveOf(job[h].request)].pc = "updating"
        /\ [job[h] EXCEPT !.pc = "seeded"].pc = "seeded"
    BY <2>1 DEF Job
  <2> QED
    BY <1>3, <2>2 DEF Snapshot, SeedCreate
<1>7. ~Seed(h)
  <2>1. [Free EXCEPT !.pc = IF owner[Demo] = Null THEN "seed" ELSE "seeded"].pc # "answered"
    BY DEF Free
  <2> QED
    BY <1>3, <2>1 DEF Seed
<1>8. Update(h) => job[h].op = "revoke" /\ job[h].pc = "updating"
  <2>1. \A found : [job[h] EXCEPT !.pc = "insert", !.targets = found].pc = "insert"
    BY <1>1 DEF Job
  <2> QED
    BY <1>3, <2>1 DEF Update
<1>9. ASSUME NEW g \in Handlers, g # h, Called(g) \/ Progress(g) \/ Fail(g) \/ Respond(g)
      PROVE  FALSE
  <2>1. \A j : ~Become(g, j)
    BY <1>1, <1>9 DEF Become
  <2> QED
    BY <1>9, <2>1
       DEF Called, Progress, Create, CreateCommit, Regenerate, Revoke, Ask, Snapshot, Update, Insert,
           InsertConflicts, Seed, SeedCreate, SeedLink, Fail, Respond, Answer
<1>10. CASE Called(h) \/ Progress(h) \/ Fail(h) \/ Respond(h)
  BY <1>2, <1>4, <1>5, <1>6, <1>7, <1>8, <1>10
     DEF Called, Progress, Regenerate, Revoke, InsertConflicts, SeedLink, Fail, Respond
<1>11. CASE Tick \/ UNCHANGED vars
  BY <1>1, <1>11 DEF Tick, vars
<1> QED
  BY <1>9, <1>10, <1>11 DEF Next

-----------------------------------------------------------------------------
\* A revoked link stays exactly as it is.
THEOREM RevokedForGood == Spec => RevocationIsFinal
<1> DEFINE Final == \A k \in Links : Issued(k) /\ ~Active(k) => links'[k] = links[k]
<1>1. ASSUME IInv, [Next]_vars PROVE Final
  <2>1. CASE links' = links
    BY <2>1
  <2>2. ASSUME NEW h \in Handlers, Update(h), job[h].op = "revoke", job[h].pc = "updating"
        PROVE  Final
    BY <1>1, <2>2, RevokeEffect
  <2>3. ASSUME NEW h \in Handlers, NEW k \in Links, Insert(h, k) PROVE Final
    BY <1>1, <2>3, InsertEffect
  <2>4. ASSUME NEW h \in Handlers, NEW r \in Requests, NEW k \in Links, CreateCommit(h, r, k)
        PROVE  Final
    BY <1>1, <2>4, CreateCommitEffect
  <2> QED
    BY <1>1, <2>1, <2>2, <2>3, <2>4, StepCases
<1>2. ASSUME IInv, [Next]_vars PROVE [Final]_vars
  BY <1>1, <1>2
<1> QED
  BY <1>2, InductiveInvariant, PTL DEF Spec, RevocationIsFinal

\* A regeneration never leaves a request without the link it had.
THEOREM RegenerationIsAtomic == Spec => NoLinkLostToARegeneration
<1> DEFINE Kept == \A k \in Links : Active(k) /\ ~Active(k)' =>
          \/ \E j \in Links : ~Issued(j) /\ Active(j)' /\ links'[j].request = links[k].request
          \/ \E h \in Handlers : job[h].op = "revoke" /\ k \in job[h].targets
<1>1. ASSUME IInv, [Next]_vars PROVE Kept
  <2> SUFFICES ASSUME NEW k \in Links, Active(k), ~Active(k)'
               PROVE  \/ \E j \in Links : /\ ~Issued(j) /\ Active(j)'
                                          /\ links'[j].request = links[k].request
                      \/ \E h \in Handlers : job[h].op = "revoke" /\ k \in job[h].targets
    OBVIOUS
  <2>1. links' # links
    BY DEF Active, Issued
  <2>2. ASSUME NEW h \in Handlers, Update(h), job[h].op = "revoke", job[h].pc = "updating"
        PROVE  k \in job[h].targets
    BY <1>1, <2>2, RevokeEffect
  <2>3. ASSUME NEW h \in Handlers, NEW j \in Links, Insert(h, j)
        PROVE  ~Issued(j) /\ Active(j)' /\ links'[j].request = links[k].request
    <3>1. /\ ~Issued(j) /\ Active(j)' /\ links'[j].request = job[h].request
          /\ k \in job[h].targets
      <4>1. k # j
        BY <1>1, <2>3, InsertEffect DEF Active
      <4> QED
        BY <1>1, <2>3, <4>1, InsertEffect
    <3>2. links[k].request = job[h].request
      BY <1>1, <2>3, <3>1 DEF Insert, IInv, HandlerInv, TargetsOfRequest
    <3> QED
      BY <3>1, <3>2
  <2>4. ASSUME NEW h \in Handlers, NEW r \in Requests, NEW j \in Links, CreateCommit(h, r, j)
        PROVE  FALSE
    <3>1. ~Issued(j) /\ Active(j)' /\ (k # j => links'[k] = links[k])
      BY <1>1, <2>4, CreateCommitEffect
    <3> QED
      BY <3>1 DEF Active, Issued
  <2> QED
    BY <1>1, <2>1, <2>2, <2>3, <2>4, StepCases
<1>2. ASSUME IInv, [Next]_vars PROVE [Kept]_vars
  BY <1>1, <1>2
<1> QED
  BY <1>2, InductiveInvariant, PTL DEF Spec, NoLinkLostToARegeneration

\* What worked when a revocation or a regeneration was asked is dead when it succeeds.
THEOREM SuccessMeansCut == Spec => SuccessCutsWhatWorked
<1> DEFINE CutAll == \A h \in Handlers :
          job[h].pc # "answered" /\ job'[h].pc = "answered" /\ job'[h].answer = "done" =>
              \A k \in job[h].seen : ~Active(k)'
<1>1. ASSUME IInv, [Next]_vars PROVE CutAll
  <2> SUFFICES ASSUME NEW h \in Handlers, job[h].pc # "answered", job'[h].pc = "answered",
                      job'[h].answer = "done", NEW k \in job[h].seen
               PROVE  ~Active(k)'
    OBVIOUS
  <2>1. HandlerInv(h) /\ k \in Links
    BY <1>1 DEF IInv, TypeOK, Job
  <2>2. CASE Update(h) /\ job[h].op = "revoke" /\ job[h].pc = "updating"
    BY <1>1, <2>1, <2>2, RevokeEffect DEF HandlerInv, SeenCovered
  <2>3. ASSUME NEW j \in Links, Insert(h, j) PROVE ~Active(k)'
    <3>1. job[h].pc = "insert" /\ Issued(k) /\ (Active(k) => k \in job[h].targets)
      BY <2>1, <2>3 DEF Insert, HandlerInv, SeenCovered
    <3> QED
      BY <1>1, <2>1, <2>3, <3>1, InsertEffect
  <2>4. ~(\E r \in Requests, j \in Links : CreateCommit(h, r, j))
    BY <2>1 DEF CreateCommit, HandlerInv, SeenCovered
  <2> QED
    BY <1>1, <2>2, <2>3, <2>4, SuccessCases
<1>2. ASSUME IInv, [Next]_vars PROVE [CutAll]_vars
  BY <1>1, <1>2
<1> QED
  BY <1>2, InductiveInvariant, PTL DEF Spec, SuccessCutsWhatWorked

-----------------------------------------------------------------------------
(* The refinement. *)

Current == [r \in Requests |-> ActiveOf(r)]
EverIssued == {k \in Links : Issued(k)}

LEMMA RegisterInit == Init => Register!RInit
BY DEF Init, Register!RInit, ActiveOf, LinksOf, Issued

\* Every step is one atomic operation on the register, or is not seen.
LEMMA RegisterStep == ASSUME IInv, [Next]_vars PROVE [Register!RNext]_(Register!rvars)
<1>0. \A k \in Links : (Active(k) => Issued(k)) /\ (Issued(k) => links[k].request \in Requests)
  BY DEF Active, IInv, TypeOK, Issued, Row
<1>1. CASE links' = links
  BY <1>1 DEF Register!rvars, ActiveOf, LinksOf, Active, Issued
<1>2. ASSUME NEW h \in Handlers, Update(h), job[h].op = "revoke", job[h].pc = "updating"
      PROVE  [Register!RNext]_(Register!rvars)
  <2>1. PICK r \in Requests : r = job[h].request
    BY <1>2 DEF IInv, HandlerInv, AsksForOwned
  <2>2. /\ \A k \in Links : /\ Issued(k)' <=> Issued(k)
                            /\ Issued(k) => links'[k].request = links[k].request
                            /\ Active(k)' <=> Active(k) /\ k \notin job[h].targets
        /\ \A k \in job[h].targets : Issued(k) /\ links[k].request = r
    BY <1>2, <2>1, RevokeEffect DEF IInv, HandlerInv, TargetsOfRequest
  <2>3. EverIssued' = EverIssued
    BY <2>2 DEF EverIssued
  <2>4. \A q \in Requests \ {r} : ActiveOf(q)' = ActiveOf(q)
    BY <2>2 DEF ActiveOf, LinksOf
  <2>5. CASE \E k \in job[h].targets : Active(k)
    <3>1. \A k \in Links : Active(k) /\ links[k].request = r => k \in job[h].targets
      <4>1. job[h].targets \subseteq Links
        BY DEF IInv, TypeOK, Job
      <4> QED
        BY <2>2, <2>5, <4>1 DEF IInv, OneActiveLink
    <3>2. ActiveOf(r)' = {}
      BY <2>2, <3>1 DEF ActiveOf, LinksOf
    <3>3. Current' = [Current EXCEPT ![r] = {}]
      BY <2>4, <3>2 DEF Current
    <3>4. Register!Cut(r)
      BY <2>3, <3>3 DEF Register!Cut, Current, EverIssued
    <3> QED
      BY <3>4 DEF Register!RNext
  <2>6. CASE ~(\E k \in job[h].targets : Active(k))
    <3>1. ActiveOf(r)' = ActiveOf(r)
      BY <2>2, <2>6 DEF ActiveOf, LinksOf
    <3>2. Current' = Current
      BY <2>4, <3>1 DEF Current
    <3> QED
      BY <2>3, <3>2 DEF Register!rvars, Current, EverIssued
  <2> QED
    BY <2>5, <2>6
<1>3. ASSUME NEW r \in Requests, NEW k \in Links,
             ~Issued(k), Issued(k)', Active(k)', links'[k].request = r,
             \A j \in Links \ {k} : /\ Issued(j)' <=> Issued(j)
                                    /\ Issued(j) => links'[j].request = links[j].request
                                    /\ Active(j)' <=> Active(j) /\ links[j].request # r
      PROVE  Register!IssueLink(r, k)
  <2>1. k \notin EverIssued /\ EverIssued' = EverIssued \cup {k}
    BY <1>3 DEF EverIssued
  <2>2. ActiveOf(r)' = {k}
    BY <1>0, <1>3 DEF ActiveOf, LinksOf
  <2>3. \A q \in Requests \ {r} : ActiveOf(q)' = ActiveOf(q)
    BY <1>0, <1>3 DEF ActiveOf, LinksOf
  <2>4. Current' = [Current EXCEPT ![r] = {k}]
    BY <2>2, <2>3 DEF Current
  <2> QED
    BY <2>1, <2>4 DEF Register!IssueLink, Current, EverIssued
<1>4. ASSUME NEW h \in Handlers, NEW k \in Links, Insert(h, k)
      PROVE  \E r \in Requests : Register!IssueLink(r, k)
  <2>1. PICK r \in Requests : r = job[h].request
    BY <1>4 DEF IInv, Insert, HandlerInv, AsksForOwned
  <2>2. \A j \in Links : Active(j) => (links[j].request = r <=> j \in job[h].targets)
    BY <1>0, <1>4, <2>1 DEF IInv, Insert, HandlerInv, TargetsOfRequest, ActiveOf, LinksOf
  <2>3. Register!IssueLink(r, k)
    BY <1>3, <1>4, <2>1, <2>2, InsertEffect
  <2> QED
    BY <2>3
<1>5. ASSUME NEW h \in Handlers, NEW r \in Requests, NEW k \in Links, CreateCommit(h, r, k)
      PROVE  Register!IssueLink(r, k)
  <2>1. /\ owner[r] = Null /\ ~Issued(k) /\ Issued(k)' /\ Active(k)' /\ links'[k].request = r
        /\ \A j \in Links \ {k} : links'[j] = links[j]
    BY <1>5, CreateCommitEffect
  <2>2. \A j \in Links : Issued(j) => links[j].request # r
    BY <2>1 DEF IInv, LinksAreOwned
  <2>3. \A j \in Links \ {k} : /\ Issued(j)' <=> Issued(j)
                               /\ Active(j)' <=> Active(j)
    BY <2>1 DEF Issued, Active
  <2> QED
    BY <1>0, <1>3, <2>1, <2>2, <2>3
<1> QED
  BY <1>1, <1>2, <1>4, <1>5, StepCases DEF Register!RNext

\* The service implements atomic replacements of a request's only link.
THEOREM RegisterRefinement == Spec => ImplementsLinkRegister
BY RegisterInit, RegisterStep, InductiveInvariant, PTL
   DEF Spec, ImplementsLinkRegister, Register!RSpec

-----------------------------------------------------------------------------
(* The promise of the register, kept by the service.                        *)

LEMMA RegisterPromises ==
    ASSUME [Register!RNext]_(Register!rvars) PROVE Register!CutStays
<1>1. ASSUME NEW r \in Requests, Register!Cut(r) PROVE Register!CutStays
  BY <1>1 DEF Register!Cut, Register!CutStays
<1>2. ASSUME NEW r \in Requests, NEW k \in Links, Register!IssueLink(r, k)
      PROVE  Register!CutStays
  <2>1. k \notin EverIssued /\ Current' = [Current EXCEPT ![r] = {k}]
    BY <1>2 DEF Register!IssueLink, Current, EverIssued
  <2>2. ASSUME NEW j \in EverIssued, NEW q \in Requests, j \notin Current[q]
        PROVE  j \notin Current'[q]
    <3>1. Current'[q] = IF q = r THEN {k} ELSE Current[q]
      BY <2>1 DEF Current
    <3> QED
      BY <2>1, <2>2, <3>1
  <2> QED
    BY <2>2 DEF Register!CutStays, Current, EverIssued
<1>3. CASE UNCHANGED Register!rvars
  BY <1>3 DEF Register!rvars, Register!CutStays
<1> QED
  BY <1>1, <1>2, <1>3 DEF Register!RNext

\* Neither a revocation, a regeneration nor the seed, however they overlap or fail, makes a link
\* open a request that it stopped opening.
THEOREM CutForGood == Spec => Register!CutForGood
<1>1. IInv /\ [Next]_vars => [Register!CutStays]_(Register!rvars)
  BY RegisterStep, RegisterPromises
<1> QED
  BY <1>1, InductiveInvariant, PTL DEF Spec, Register!CutForGood

-----------------------------------------------------------------------------
(* Dates, and rows to lock. No date lies in the future, a link lives at     *)
(* most one of the validities on offer, counted from its createdAt, and a   *)
(* statement has one row to lock at most: it never waits while holding one. *)

RowDates(row) ==
    /\ row.createdAt <= clock
    /\ row.revokedAt # Null => row.revokedAt <= clock
    /\ \E v \in Validities : row.expiresAt <= row.createdAt + v

JobFacts(j) ==
    /\ j.at <= clock
    /\ j.pc = "create" => j.validity \in Validities
    /\ j.pc \in {"update", "updating"} /\ j.op = "regenerate" => j.validity \in Validities
    /\ j.pc = "insert" => j.validity \in Validities
    /\ \A i, k \in j.targets : i = k

DatesInv ==
    /\ \A k \in Links : Issued(k) => RowDates(links[k])
    /\ \A h \in Handlers : JobFacts(job[h])

LEMMA InitDates == Init => DatesInv
BY NullAssumption DEF Init, DatesInv, JobFacts, Free, Issued

\* A step of h keeps them if what h becomes and the rows it writes do.
LEMMA DatesStep ==
    ASSUME IInv, DatesInv, clock' \in Nat, clock <= clock', NEW h \in Handlers, JobFacts(job[h])',
           \A g \in Handlers \ {h} : job'[g] = job[g],
           \A k \in Links : links'[k] = links[k] \/ RowDates(links[k])'
    PROVE  DatesInv'
<1>1. clock \in Nat
  BY DEF IInv, TypeOK
<1>2. ASSUME NEW k \in Links, Issued(k)' PROVE RowDates(links[k])'
  <2>1. CASE RowDates(links[k])'
    BY <2>1
  <2>2. CASE links'[k] = links[k]
    <3>1. /\ RowDates(links[k]) /\ links[k] \in Row
      BY <1>2, <2>2 DEF Issued, DatesInv, IInv, TypeOK
    <3>2. links[k].createdAt \in Nat /\ links[k].revokedAt \in Nat \cup {Null}
      BY <3>1 DEF Row
    <3> QED
      BY <1>1, <2>2, <3>1, <3>2 DEF RowDates
  <2> QED
    BY <2>1, <2>2
<1>3. ASSUME NEW g \in Handlers PROVE JobFacts(job[g])'
  <2>1. CASE g = h
    BY <2>1
  <2>2. CASE g # h
    <3>1. job'[g] = job[g] /\ JobFacts(job[g]) /\ job[g].at \in Nat
      BY <2>2 DEF DatesInv, IInv, TypeOK, Job
    <3> QED
      BY <1>1, <3>1 DEF JobFacts
  <2> QED
    BY <2>1, <2>2
<1> QED
  BY <1>2, <1>3 DEF DatesInv

\* A handler that answers, or is freed.
LEMMA RestFacts ==
    ASSUME TypeOK, NEW h \in Handlers, clock' \in Nat,
           Become(h, Free) \/ \E answer \in Answers : Answer(h, answer)
    PROVE  JobFacts(job[h])' /\ \A g \in Handlers \ {h} : job'[g] = job[g]
<1>1. ASSUME NEW j, Become(h, j), j.at = 0, j.pc \in {"idle", "answered"}, j.targets = {}
      PROVE  JobFacts(job[h])' /\ \A g \in Handlers \ {h} : job'[g] = job[g]
  <2>1. job'[h] = j /\ \A g \in Handlers \ {h} : job'[g] = job[g]
    BY <1>1 DEF Become, TypeOK
  <2> QED
    BY <1>1, <2>1 DEF JobFacts
<1>2. CASE Become(h, Free)
  BY <1>1, <1>2 DEF Free
<1>3. ASSUME NEW answer \in Answers, Answer(h, answer)
      PROVE  JobFacts(job[h])' /\ \A g \in Handlers \ {h} : job'[g] = job[g]
  <2> DEFINE j == [Free EXCEPT !.pc = "answered", !.answer = answer]
  <2>1. j.at = 0 /\ j.pc = "answered" /\ j.targets = {} /\ Become(h, j)
    BY <1>3 DEF Free, Answer
  <2> HIDE DEF j
  <2> QED
    BY <1>1, <2>1
<1> QED
  BY <1>2, <1>3

LEMMA AskFacts ==
    ASSUME IInv, NEW h \in Handlers, NEW op \in {"regenerate", "revoke"}, NEW l, NEW r, NEW v,
           Ask(h, op, l, r, v), op = "regenerate" => v \in Validities, clock' = clock
    PROVE  JobFacts(job[h])' /\ \A g \in Handlers \ {h} : job'[g] = job[g]
<1> DEFINE j == [Free EXCEPT !.pc = "update", !.op = op, !.request = r, !.at = clock,
                             !.validity = v, !.seen = ActiveOf(r)]
<1>1. TypeOK /\ clock \in Nat
  BY DEF IInv, TypeOK
<1>2. CASE Answer(h, "refused")
  BY <1>1, <1>2, RestFacts DEF Answers
<1>3. CASE Become(h, j)
  <2>1. j.at = clock /\ j.pc = "update" /\ j.op = op /\ j.validity = v /\ j.targets = {}
    BY DEF Free
  <2> HIDE DEF j
  <2>2. job'[h] = j /\ \A g \in Handlers \ {h} : job'[g] = job[g]
    BY <1>1, <1>3 DEF Become, TypeOK
  <2> QED
    BY <1>1, <2>1, <2>2 DEF JobFacts
<1> QED
  BY <1>2, <1>3 DEF Ask

\* The rows that an operation revokes or creates.
LEMMA RevokedDates ==
    ASSUME IInv, DatesInv, NEW h \in Handlers, NEW k \in Links, Active(k), clock' = clock,
           links'[k] = [links[k] EXCEPT !.revokedAt = job[h].at]
    PROVE  RowDates(links[k])'
<1>1. /\ links[k] \in Row /\ RowDates(links[k]) /\ JobFacts(job[h])
  BY DEF IInv, TypeOK, DatesInv, Active, Issued
<1>2. /\ links'[k].createdAt = links[k].createdAt /\ links'[k].expiresAt = links[k].expiresAt
      /\ links'[k].revokedAt = job[h].at
  BY <1>1 DEF Row
<1> QED
  BY <1>1, <1>2 DEF RowDates, JobFacts

LEMMA CreatedDates ==
    ASSUME IInv, DatesInv, NEW h \in Handlers, NEW k \in Links, NEW r, clock' = clock,
           NEW createdAt \in job[h].at .. clock, links'[k] = NewRow(h, r, createdAt),
           job[h].validity \in Validities
    PROVE  RowDates(links[k])'
<1>1. job[h].at \in Nat /\ clock \in Nat /\ job[h].validity \in Nat
  BY DEF IInv, TypeOK, Job
<1>2. /\ links'[k].createdAt = createdAt /\ links'[k].revokedAt = Null
      /\ links'[k].expiresAt = job[h].at + job[h].validity
  BY DEF NewRow
<1>3. links'[k].expiresAt <= links'[k].createdAt + job[h].validity
  BY <1>1, <1>2
<1> QED
  BY <1>1, <1>2, <1>3 DEF RowDates

LEMMA NextDates == ASSUME IInv, DatesInv, [Next]_vars PROVE DatesInv'
<1>0. /\ TypeOK /\ clock \in Nat /\ 0 \in Nat /\ Validities \subseteq Nat
      /\ \A h \in Handlers : job[h] \in Job /\ JobFacts(job[h])
  BY ConstantsAssumption DEF IInv, TypeOK, DatesInv
<1>1. ASSUME NEW h \in Handlers, clock' = clock, JobFacts(job[h])',
             \A g \in Handlers \ {h} : job'[g] = job[g],
             \A k \in Links : links'[k] = links[k] \/ RowDates(links[k])'
      PROVE  DatesInv'
  BY <1>0, <1>1, DatesStep
<1>2. ASSUME NEW h \in Handlers, UNCHANGED <<clock, links>>,
             Become(h, Free) \/ \E answer \in Answers : Answer(h, answer)
      PROVE  DatesInv'
  BY <1>0, <1>1, <1>2, RestFacts
<1>3. ASSUME NEW h \in Handlers, NEW op \in {"regenerate", "revoke"}, NEW l, NEW r, NEW v,
             Ask(h, op, l, r, v), op = "regenerate" => v \in Validities,
             UNCHANGED <<clock, links>>
      PROVE  DatesInv'
  BY <1>1, <1>3, AskFacts
<1>4. ASSUME NEW h \in Handlers, NEW j, Become(h, j), j.at \in Nat, j.at <= clock,
             j.pc = "create" => j.validity \in Validities,
             j.pc \notin {"update", "updating", "insert"},
             \A i, k \in j.targets : i = k, UNCHANGED <<clock, links>>
      PROVE  DatesInv'
  <2>1. job'[h] = j /\ \A g \in Handlers \ {h} : job'[g] = job[g]
    BY <1>0, <1>4 DEF Become, TypeOK
  <2>2. JobFacts(job[h])'
    BY <1>4, <2>1 DEF JobFacts
  <2> QED
    BY <1>1, <1>4, <2>1, <2>2
<1>5. ASSUME NEW h \in Handlers, Called(h) PROVE DatesInv'
  <2>1. ASSUME NEW l \in Lawyers, NEW v \in Validities, Create(h, l, v) PROVE DatesInv'
    <3> DEFINE j == [Free EXCEPT !.pc = "create", !.lawyer = l, !.at = clock, !.validity = v]
    <3>1. j.at = clock /\ j.pc = "create" /\ j.validity = v /\ j.targets = {}
      BY DEF Free
    <3>2. Become(h, j) /\ UNCHANGED <<clock, links>>
      BY <2>1 DEF Create
    <3> HIDE DEF j
    <3> QED
      BY <1>0, <1>4, <3>1, <3>2
  <2>2. ASSUME NEW l \in Lawyers, NEW v \in Validities, NEW r \in Requests, Regenerate(h, l, r, v)
        PROVE  DatesInv'
    BY <1>3, <2>2 DEF Regenerate
  <2>3. ASSUME NEW l \in Lawyers, NEW r \in Requests, Revoke(h, l, r) PROVE DatesInv'
    BY <1>3, <2>3 DEF Revoke
  <2>4. CASE Seed(h)
    <3> DEFINE j == [Free EXCEPT !.pc = IF owner[Demo] = Null THEN "seed" ELSE "seeded"]
    <3>1. j.at = 0 /\ j.pc \in {"seed", "seeded"} /\ j.targets = {}
      BY DEF Free
    <3>2. Become(h, j) /\ UNCHANGED <<clock, links>>
      BY <2>4 DEF Seed
    <3> HIDE DEF j
    <3> QED
      BY <1>0, <1>4, <3>1, <3>2
  <2> QED
    BY <1>5, <2>1, <2>2, <2>3, <2>4 DEF Called
<1>6. ASSUME NEW h \in Handlers, Snapshot(h) PROVE DatesInv'
  <2> DEFINE j == [job[h] EXCEPT !.pc = "updating", !.targets = ActiveOf(job[h].request)]
  <2>1. /\ j.at = job[h].at /\ j.pc = "updating" /\ j.op = job[h].op
        /\ j.validity = job[h].validity /\ j.targets = ActiveOf(job[h].request)
    BY <1>0 DEF Job
  <2>2. Become(h, j) /\ UNCHANGED <<clock, links>> /\ job[h].pc = "update"
    BY <1>6 DEF Snapshot
  <2> HIDE DEF j
  <2>3. job'[h] = j /\ \A g \in Handlers \ {h} : job'[g] = job[g]
    BY <1>0, <2>2 DEF Become, TypeOK
  <2>4. \A i, k \in j.targets : i = k
    BY <2>1 DEF ActiveOf, LinksOf, IInv, OneActiveLink
  <2>5. JobFacts(job[h])'
    BY <1>0, <2>1, <2>2, <2>3, <2>4 DEF JobFacts
  <2> QED
    BY <1>1, <2>2, <2>3, <2>5
<1>7. ASSUME NEW h \in Handlers, Update(h) PROVE DatesInv'
  <2>1. CASE job[h].op = "revoke" /\ Answer(h, "done")
    <3>1. JobFacts(job[h])' /\ \A g \in Handlers \ {h} : job'[g] = job[g]
      BY <1>0, <1>7, <2>1, RestFacts DEF Update, Answers
    <3>2. ASSUME NEW k \in Links PROVE links'[k] = links[k] \/ RowDates(links[k])'
      <4>1. \/ links'[k] = links[k]
            \/ Active(k) /\ links'[k] = [links[k] EXCEPT !.revokedAt = job[h].at]
        BY <1>7, <2>1 DEF Update, IInv, TypeOK
      <4> QED
        BY <1>7, <4>1, RevokedDates DEF Update
    <3> QED
      BY <1>1, <1>7, <3>1, <3>2 DEF Update
  <2>2. CASE ~(job[h].op = "revoke" /\ Answer(h, "done"))
    <3> DEFINE j == [job[h] EXCEPT !.pc = "insert",
                                   !.targets = {k \in job[h].targets : Active(k)}]
    <3>1. /\ j.at = job[h].at /\ j.pc = "insert" /\ j.validity = job[h].validity
          /\ j.targets \subseteq job[h].targets
      BY <1>0 DEF Job
    <3>2. Become(h, j) /\ UNCHANGED <<clock, links>> /\ job[h].pc = "updating"
          /\ job[h].op = "regenerate"
      BY <1>7, <2>2 DEF Update
    <3> HIDE DEF j
    <3>3. job'[h] = j /\ \A g \in Handlers \ {h} : job'[g] = job[g]
      BY <1>0, <3>2 DEF Become, TypeOK
    <3>4. JobFacts(job[h])'
      BY <1>0, <3>1, <3>2, <3>3 DEF JobFacts
    <3> QED
      BY <1>1, <3>2, <3>3, <3>4
  <2> QED
    BY <2>1, <2>2
<1>8. ASSUME NEW h \in Handlers, NEW k \in Links, Insert(h, k) PROVE DatesInv'
  <2>1. JobFacts(job[h])' /\ \A g \in Handlers \ {h} : job'[g] = job[g]
    BY <1>0, <1>8, RestFacts DEF Insert, Answers
  <2>2. /\ job[h].validity \in Validities /\ \A i \in job[h].targets : Active(i)
    BY <1>0, <1>8 DEF Insert, JobFacts, IInv, HandlerInv, HoldsActive
  <2>3. PICK createdAt \in job[h].at .. clock :
           links' = [i \in Links |->
                       IF i = k THEN NewRow(h, job[h].request, createdAt)
                       ELSE IF i \in job[h].targets THEN [links[i] EXCEPT !.revokedAt = job[h].at]
                       ELSE links[i]]
    BY <1>8 DEF Insert
  <2>4. ASSUME NEW i \in Links PROVE links'[i] = links[i] \/ RowDates(links[i])'
    <3>1. CASE i = k
      <4>1. links'[k] = NewRow(h, job[h].request, createdAt)
        BY <2>3
      <4> QED
        BY <1>8, <2>2, <3>1, <4>1, CreatedDates DEF Insert
    <3>2. CASE i # k /\ i \in job[h].targets
      <4>1. links'[i] = [links[i] EXCEPT !.revokedAt = job[h].at] /\ Active(i)
        BY <2>2, <2>3, <3>2
      <4> QED
        BY <1>8, <4>1, RevokedDates DEF Insert
    <3>3. CASE i # k /\ i \notin job[h].targets
      BY <2>3, <3>3
    <3> QED
      BY <3>1, <3>2, <3>3
  <2> QED
    BY <1>1, <1>8, <2>1, <2>4 DEF Insert
<1>9. ASSUME NEW h \in Handlers, NEW r \in Requests, NEW k \in Links, CreateCommit(h, r, k)
      PROVE  DatesInv'
  <2>1. JobFacts(job[h])' /\ \A g \in Handlers \ {h} : job'[g] = job[g]
    BY <1>0, <1>9, RestFacts DEF CreateCommit, Answers
  <2>2. job[h].validity \in Validities
    BY <1>0, <1>9 DEF CreateCommit, JobFacts
  <2>3. PICK createdAt \in job[h].at .. clock :
           links' = [links EXCEPT ![k] = NewRow(h, r, createdAt)]
    BY <1>9 DEF CreateCommit
  <2>4. links'[k] = NewRow(h, r, createdAt) /\ \A i \in Links \ {k} : links'[i] = links[i]
    BY <2>3 DEF IInv, TypeOK
  <2>5. RowDates(links[k])'
    BY <1>9, <2>2, <2>4, CreatedDates DEF CreateCommit
  <2> QED
    BY <1>1, <1>9, <2>1, <2>4, <2>5 DEF CreateCommit
<1>10. ASSUME NEW h \in Handlers, SeedCreate(h) PROVE DatesInv'
  <2> DEFINE j == [job[h] EXCEPT !.pc = "seeded"]
  <2>1. j.at = job[h].at /\ j.pc = "seeded" /\ j.targets = job[h].targets /\ job[h].at \in Nat
    BY <1>0 DEF Job
  <2>2. Become(h, j) /\ UNCHANGED <<clock, links>>
    BY <1>10 DEF SeedCreate
  <2> HIDE DEF j
  <2> QED
    BY <1>0, <1>4, <2>1, <2>2 DEF JobFacts
<1>11. ASSUME NEW h \in Handlers, NEW v \in Validities, SeedLink(h, v) PROVE DatesInv'
  BY <1>3, <1>11 DEF SeedLink
<1>12. ASSUME NEW h \in Handlers, InsertConflicts(h) \/ Fail(h) \/ Respond(h) PROVE DatesInv'
  BY <1>2, <1>12 DEF InsertConflicts, Fail, Respond, Answers
<1>13. CASE Tick \/ UNCHANGED vars
  <2>1. clock' \in Nat /\ clock <= clock' /\ UNCHANGED <<links, job>>
    BY <1>0, <1>13 DEF Tick, vars
  <2>2. CASE Handlers = {}
    BY <1>0, <2>1, <2>2 DEF DatesInv, RowDates, Issued, IInv, TypeOK, Row
  <2>3. ASSUME NEW h \in Handlers PROVE DatesInv'
    <3>1. JobFacts(job[h])'
      BY <1>0, <2>1 DEF JobFacts, Job
    <3> QED
      BY <2>1, <3>1, DatesStep
  <2> QED
    BY <2>2, <2>3
<1> QED
  BY <1>5, <1>6, <1>7, <1>8, <1>9, <1>10, <1>11, <1>12, <1>13 DEF Next, Progress

LEMMA DatesInvariant == Spec => []DatesInv
<1>1. IInv /\ DatesInv /\ [Next]_vars => DatesInv'
  BY NextDates
<1> QED
  BY <1>1, InitDates, InductiveInvariant, PTL DEF Spec

\* A link that opens is within a validity of its creation.
LinkRunsOut ==
    \A k \in Links : Resolve(k, clock) = "ok" =>
        \E v \in Validities : clock <= links[k].createdAt + v

\* PublicLinksService dates a link from its own `now`, before the row it inserts: no link opens
\* for longer than the longest validity on offer, however long its operation waited for a lock.
THEOREM LinksRunOut == Spec => []LinkRunsOut
<1>1. ASSUME IInv, DatesInv, NEW k \in Links, Resolve(k, clock) = "ok"
      PROVE  \E v \in Validities : clock <= links[k].createdAt + v
  <2>1. Issued(k) /\ ~(clock > links[k].expiresAt)
    BY <1>1 DEF Resolve, IsExpired
  <2>2. links[k] \in Row /\ RowDates(links[k]) /\ clock \in Nat
    BY <1>1, <2>1 DEF IInv, TypeOK, DatesInv, Issued
  <2>3. PICK v \in Validities : links[k].expiresAt <= links[k].createdAt + v
    BY <2>2 DEF RowDates
  <2>4. v \in Nat /\ links[k].expiresAt \in Nat /\ links[k].createdAt \in Nat
    BY <2>2, ConstantsAssumption DEF Row
  <2>5. clock <= links[k].createdAt + v
    BY <2>1, <2>2, <2>3, <2>4
  <2> QED
    BY <2>5
<1>2. IInv /\ DatesInv => LinkRunsOut
  BY <1>1 DEF LinkRunsOut
<1> QED
  BY <1>2, InductiveInvariant, DatesInvariant, PTL

-----------------------------------------------------------------------------
(* Waiting. h is stopped on the lock of a row that g has updated: in its    *)
(* updateMany, or in the insert that the index makes wait for g's verdict.  *)

WaitsFor(h, g) ==
    /\ g # h /\ job[g].pc = "insert"
    /\ \/ /\ job[h].pc = "updating"
          /\ job[h].targets \cap job[g].targets # {}
       \/ /\ job[h].pc = "insert"
          /\ ~(ActiveOf(job[h].request) \subseteq job[h].targets)
          /\ ActiveOf(job[h].request) \cap job[g].targets # {}

\* What Insert asks for, besides a token that is free.
MayCommit(g) ==
    /\ job[g].pc = "insert" /\ ActiveOf(job[g].request) \subseteq job[g].targets
    /\ job[g].at .. clock # {}

\* Whoever holds a lock that is waited for can commit, and waits for nobody.
AwaitedCommits ==
    \A g, h \in Handlers : WaitsFor(h, g) => MayCommit(g) /\ \A f \in Handlers : ~WaitsFor(g, f)

\* regenerate locks the row it revokes and then inserts under a unique index: two of them, or one
\* and a revocation, never wait for one another, so no 409 or 500 comes from a deadlock.
THEOREM NoDeadlock == Spec => []AwaitedCommits
<1>1. ASSUME IInv, DatesInv, NEW g \in Handlers, NEW h \in Handlers, WaitsFor(h, g)
      PROVE  MayCommit(g) /\ \A f \in Handlers : ~WaitsFor(g, f)
  <2>1. job[g].pc = "insert" /\ job[g] \in Job /\ clock \in Nat
    BY <1>1 DEF WaitsFor, IInv, TypeOK
  <2>2. PICK k \in job[g].targets : TRUE
    BY <1>1 DEF WaitsFor
  <2>3. k \in Links /\ Active(k) /\ links[k].request = job[g].request
    BY <1>1, <2>1, <2>2 DEF IInv, HandlerInv, HoldsActive, TargetsOfRequest, Job
  <2>4. ActiveOf(job[g].request) = {k}
    <3>1. \A j \in ActiveOf(job[g].request) : j = k
      BY <1>1, <2>3 DEF IInv, OneActiveLink, ActiveOf, LinksOf
    <3>2. k \in ActiveOf(job[g].request)
      BY <2>3 DEF ActiveOf, LinksOf, Active
    <3> QED
      BY <3>1, <3>2
  <2>5. ActiveOf(job[g].request) \subseteq job[g].targets
    BY <2>2, <2>4
  <2>6. job[g].at \in job[g].at .. clock
    BY <1>1, <2>1 DEF DatesInv, JobFacts, Job
  <2> QED
    BY <2>1, <2>5, <2>6 DEF MayCommit, WaitsFor
<1>2. IInv /\ DatesInv => AwaitedCommits
  BY <1>1 DEF AwaitedCommits
<1> QED
  BY <1>2, InductiveInvariant, DatesInvariant, PTL
=============================================================================

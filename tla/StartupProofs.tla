---------------------------- MODULE StartupProofs ----------------------------
(***************************************************************************)
(* Safety of Startup for every environment of the classes assumed of it,   *)
(* every padding and any number of outages, deaths and calls of `up`: what *)
(* validateEnv lets through of the durations, and what a backend that      *)
(* listens, or that docker calls healthy, can count on.                    *)
(***************************************************************************)
EXTENDS Startup, TLAPS

-----------------------------------------------------------------------------
(* config/duration.ts: what the two ways to measure a duration agree on. *)

LEMMA DurationsMeasured ==
    ASSUME NEW d, d \in Durations
    PROVE  /\ Seconds(d) \in Nat /\ DurationToMilliseconds(d) = 1000 * Seconds(d)
           /\ Seconds(d) > 0 <=> d.count >= 1
<1>1. d.count \in Nat /\ d.unit \in {"s", "m", "h", "d"}
  BY DEF Durations
<1>2. CASE d.unit = "s"
  <2>1. MS[d.unit] = 1000 /\ Seconds(d) = d.count
    BY <1>2 DEF MS, Seconds
  <2> QED
    BY <1>1, <2>1 DEF DurationToMilliseconds
<1>3. CASE d.unit = "m"
  <2>1. MS[d.unit] = 60 * 1000 /\ Seconds(d) = d.count * 60
    BY <1>3 DEF MS, Seconds
  <2> QED
    BY <1>1, <2>1 DEF DurationToMilliseconds
<1>4. CASE d.unit = "h"
  <2>1. MS[d.unit] = 60 * 60 * 1000 /\ Seconds(d) = d.count * 3600
    BY <1>4 DEF MS, Seconds
  <2> QED
    BY <1>1, <2>1 DEF DurationToMilliseconds
<1>5. CASE d.unit = "d"
  <2>1. MS[d.unit] = 24 * 60 * 60 * 1000 /\ Seconds(d) = d.count * 86400
    BY <1>5 DEF MS, Seconds
  <2> QED
    BY <1>1, <2>1 DEF DurationToMilliseconds
<1> QED
  BY <1>1, <1>2, <1>3, <1>4, <1>5

-----------------------------------------------------------------------------
(* config/env.validation.ts: the comparison of the two deadlines of a session, made in *)
(* milliseconds, is that of the durations.                                            *)

LEMMA DeadlinesInspected ==
    ASSUME raw \in Raws, InspectAuth = {}
    PROVE  /\ {raw["SESSION_IDLE_EXPIRES"], raw["SESSION_EXPIRES"]} \cap {Missing, Text} = {}
           /\ 0 < Seconds(raw["SESSION_IDLE_EXPIRES"])
           /\ Seconds(raw["SESSION_IDLE_EXPIRES"]) < Seconds(raw["SESSION_EXPIRES"])
<1> DEFINE idle == raw["SESSION_IDLE_EXPIRES"]
           ceiling == raw["SESSION_EXPIRES"]
<1>1. idle # Missing /\ ceiling # Missing
  BY Zenon DEF InspectAuth, MissingKeys, AuthKeys
<1>2. IsDuration(idle) /\ IsDuration(ceiling)
  BY <1>1, Zenon DEF InspectAuth, Given
<1>3. ~(DurationToMilliseconds(idle) >= DurationToMilliseconds(ceiling))
  BY <1>2, Zenon DEF InspectAuth
<1>4. idle \in Durations /\ ceiling \in Durations
  BY <1>2, EnvironmentAssumption DEF IsDuration
<1>5. /\ Seconds(idle) \in Nat /\ DurationToMilliseconds(idle) = 1000 * Seconds(idle)
      /\ Seconds(ceiling) \in Nat /\ DurationToMilliseconds(ceiling) = 1000 * Seconds(ceiling)
      /\ Seconds(idle) > 0 <=> idle.count >= 1
  BY <1>4, DurationsMeasured
<1>6. Seconds(idle) < Seconds(ceiling)
  BY <1>3, <1>5
<1>7. 0 < Seconds(idle)
  BY <1>2, <1>5 DEF IsDuration
<1> QED
  BY <1>2, <1>6, <1>7 DEF IsDuration

-----------------------------------------------------------------------------
(* The inductive invariant. *)

\* depends_on, over any number of `up`: nothing starts before minio-init has made the bucket.
StartedAfterMinio ==
    /\ pc # "created" \/ minioInit = "completed" => provisioned
    /\ pc = "created" <=> compose # "over"

\* The entrypoint's `set -e`: no stage after the migration without the migration.
MigratedFirst ==
    pc \in {"loading", "starting", "listening"} => CliTarget \in migrated /\ CliCanConnect

\* ConfigModule's validate comes before every hook.
ValidatedFirst == pc \in {"starting", "listening"} => Issues = {}

\* The hooks return during one start, all of them before the API listens.
HooksOfThisStart ==
    /\ pc \notin {"starting", "listening"} => inits = {}
    /\ pc = "listening" => inits = Hooks
    /\ "bucket" \in inits => provisioned /\ ReadAlike(ProvisionReads)

\* A probe runs, and a success stands, only as long as the process that answers it.
ProbesOfThisStart == probe # Missing \/ health = "healthy" => ProbeFindsTheRoute

IInv ==
    /\ raw \in Raws /\ TypeOK
    /\ StartedAfterMinio /\ MigratedFirst /\ ValidatedFirst
    /\ HooksOfThisStart /\ ProbesOfThisStart

\* What docker calls healthy listens on the route the healthcheck names, in an environment that
\* validateEnv accepted, with the bucket and under the user minio-init made, whatever the blanks
\* around their names, and, unless blanks make the Prisma CLI read something else, on a database
\* that was migrated.
HealthyMeansServing ==
    health = "healthy" =>
        /\ pc = "listening" /\ raw["PORT"] = ProbePort
        /\ RoutePath(raw["API_PREFIX"], "health") = ProbePath
        /\ Issues = {}
        /\ provisioned /\ ReadAlike(ProvisionReads)
        /\ ReadAlike(CliReads) => Served \in migrated

LEMMA InitSatisfies == Init => IInv
<1> SUFFICES ASSUME Init PROVE IInv
  OBVIOUS
<1>1. raw \in Raws /\ TypeOK
  <2>1. faults \in 0 .. MaxFaults
    BY BoundAssumption DEF Init
  <2>2. raw \in Raws /\ db \in BOOLEAN /\ storage \in BOOLEAN
    BY DEF Init
  <2>3. /\ provisioned \in BOOLEAN /\ compose \in {"waiting", "gave up", "over"}
        /\ minioInit \in {"created", "running", "completed", "failed"}
    BY DEF Init
  <2>4. pc \in Stages /\ inits \subseteq Hooks /\ health \in {"starting", "healthy", "failing"}
    BY DEF Init, Stages
  <2>5. probe \in Probes
    BY DEF Init, Probes
  <2> QED
    BY <2>1, <2>2, <2>3, <2>4, <2>5 DEF TypeOK
<1>2. StartedAfterMinio /\ MigratedFirst /\ ValidatedFirst
  BY DEF Init, StartedAfterMinio, MigratedFirst, ValidatedFirst
<1>3. HooksOfThisStart /\ ProbesOfThisStart
  BY DEF Init, HooksOfThisStart, ProbesOfThisStart
<1> QED
  BY <1>1, <1>2, <1>3 DEF IInv

\* What only depends on the environment does not change with the rest.
LEMMA EnvironmentStays ==
    ASSUME UNCHANGED env
    PROVE  /\ raw' = raw /\ padded' = padded /\ Issues' = Issues /\ CliTarget' = CliTarget
           /\ CliCanConnect' = CliCanConnect
           /\ ReadAlike(ProvisionReads)' = ReadAlike(ProvisionReads)
<1>1. raw' = raw /\ padded' = padded
  BY DEF env
<1> QED
  BY <1>1
     DEF Issues, InspectApp, InspectAuth, InspectStorage, InspectPublic, InspectUrl, InspectDb,
         MissingKeys, Given, IsDuration, DurationToMilliseconds, CliTarget, CliCanConnect,
         ReadAlike

\* An exit, whatever it comes from, forgets the start it ends.
LEMMA ExitKeeps ==
    ASSUME IInv, pc # "created", Exit, UNCHANGED <<env, dependencies, up, provisioned>>,
           faults' \in 0 .. MaxFaults
    PROVE  IInv'
BY EnvironmentStays
   DEF dependencies, up, Exit, IInv, TypeOK, Stages, Probes, StartedAfterMinio, MigratedFirst,
       ValidatedFirst, HooksOfThisStart, ProbesOfThisStart

\* The steps of the boot.
LEMMA BootKeeps == ASSUME IInv, Boot PROVE IInv'
<1> USE DEF env, dependencies, up, made, container, seen
<1>0. UNCHANGED env
  BY DEF Boot, Migrate, Load, Connect, AssertBucketExists, HashDecoy, Hook, HookThrows,
         Listen, Restart
<1>1. CASE Migrate
  <2>1. CASE db /\ CliCanConnect
    BY <1>0, <1>1, <2>1, EnvironmentStays
       DEF Migrate, IInv, TypeOK, Stages, StartedAfterMinio, MigratedFirst, ValidatedFirst,
           HooksOfThisStart, ProbesOfThisStart, ProbeFindsTheRoute
  <2>2. CASE ~(db /\ CliCanConnect)
    BY <1>0, <1>1, <2>2, ExitKeeps DEF Migrate, IInv, TypeOK
  <2> QED
    BY <2>1, <2>2
<1>2. CASE Load
  <2>1. CASE Issues = {}
    BY <1>0, <1>2, <2>1, EnvironmentStays
       DEF Load, IInv, TypeOK, Stages, StartedAfterMinio, MigratedFirst, ValidatedFirst,
           HooksOfThisStart, ProbesOfThisStart, ProbeFindsTheRoute
  <2>2. CASE Issues # {}
    BY <1>0, <1>2, <2>2, ExitKeeps DEF Load, IInv, TypeOK
  <2> QED
    BY <2>1, <2>2
<1>3. ASSUME NEW hook \in Hooks, Hook(hook), hook = "bucket" => BucketReached PROVE IInv'
  BY <1>0, <1>3, EnvironmentStays
     DEF Hook, BucketReached, IInv, TypeOK, Stages, StartedAfterMinio, MigratedFirst,
         ValidatedFirst, HooksOfThisStart, ProbesOfThisStart, ProbeFindsTheRoute
<1>4. CASE Connect \/ AssertBucketExists \/ HashDecoy
  BY <1>3, <1>4 DEF Connect, AssertBucketExists, HashDecoy, Hooks
<1>5. CASE HookThrows
  BY <1>0, <1>5, ExitKeeps DEF HookThrows, IInv, TypeOK
<1>6. CASE Listen
  BY <1>0, <1>6, EnvironmentStays
     DEF Listen, IInv, TypeOK, Stages, StartedAfterMinio, MigratedFirst, ValidatedFirst,
         HooksOfThisStart, ProbesOfThisStart, ProbeFindsTheRoute
<1>7. CASE Restart
  BY <1>0, <1>7, EnvironmentStays
     DEF Restart, IInv, TypeOK, Stages, StartedAfterMinio, MigratedFirst, ValidatedFirst,
         HooksOfThisStart, ProbesOfThisStart, ProbeFindsTheRoute
<1> QED
  BY <1>1, <1>2, <1>4, <1>5, <1>6, <1>7 DEF Boot

\* The steps of a probe write `probe` and `health`, nothing else.
LEMMA AnswerKeeps == ASSUME IInv, Answer PROVE IInv'
<1> USE DEF env, dependencies, up, made, container, seen
<1>1. UNCHANGED <<env, dependencies, up, made, container, faults>>
  BY DEF Answer, Probe, ProbeUnanswered, CheckDatabase, Ping, Report
<1>2. ProbeFindsTheRoute' = ProbeFindsTheRoute
  BY <1>1 DEF ProbeFindsTheRoute
<1>3. /\ probe' \in Probes /\ health' \in {"starting", "healthy", "failing"}
      /\ probe' # Missing \/ health' = "healthy" => ProbeFindsTheRoute
  <2>1. CASE Probe
    BY <2>1 DEF Probe, IInv, TypeOK, Probes, ProbesOfThisStart
  <2>2. CASE ProbeUnanswered
    BY <2>2 DEF ProbeUnanswered, IInv, TypeOK, ProbesOfThisStart
  <2>3. CASE CheckDatabase \/ Ping
    BY <2>3 DEF CheckDatabase, Ping, IInv, TypeOK, Probes, ProbesOfThisStart
  <2>4. CASE Report
    BY <2>4 DEF Report, IInv, TypeOK, Probes, ProbesOfThisStart
  <2> QED
    BY <2>1, <2>2, <2>3, <2>4 DEF Answer
<1> QED
  BY <1>1, <1>2, <1>3, EnvironmentStays
     DEF IInv, TypeOK, StartedAfterMinio, MigratedFirst, ValidatedFirst, HooksOfThisStart,
         ProbesOfThisStart

\* depends_on, minio-init and `up`.
LEMMA ComposeKeeps == ASSUME IInv, Compose PROVE IInv'
<1> USE DEF env, dependencies, up, made, container, seen
<1>0. UNCHANGED env
  BY DEF Compose, StartMinioInit, Provision, ProvisionFails, Start, GiveUp, Up
<1>1. CASE StartMinioInit \/ ProvisionFails \/ GiveUp \/ Up
  <2>1. /\ UNCHANGED <<dependencies, made, container, seen, faults>>
        /\ compose # "over" => compose' \in {"waiting", "gave up"}
        /\ compose = "over" => compose' = "over"
        /\ minioInit' \in {"created", "running", "failed", minioInit}
    BY <1>1 DEF StartMinioInit, ProvisionFails, GiveUp, Up, IInv, TypeOK
  <2>2. TypeOK' /\ StartedAfterMinio'
    BY <2>1 DEF IInv, TypeOK, StartedAfterMinio
  <2>3. MigratedFirst' /\ ValidatedFirst' /\ HooksOfThisStart' /\ ProbesOfThisStart'
    BY <1>0, <2>1, EnvironmentStays
       DEF IInv, MigratedFirst, ValidatedFirst, HooksOfThisStart, ProbesOfThisStart,
           ProbeFindsTheRoute
  <2> QED
    BY <1>0, <2>2, <2>3, EnvironmentStays DEF IInv
<1>2. CASE Provision
  BY <1>0, <1>2, EnvironmentStays
     DEF Provision, IInv, TypeOK, StartedAfterMinio, MigratedFirst, ValidatedFirst,
         HooksOfThisStart, ProbesOfThisStart, ProbeFindsTheRoute
<1>3. CASE Start
  BY <1>0, <1>3, EnvironmentStays
     DEF Start, IInv, TypeOK, Stages, StartedAfterMinio, MigratedFirst, ValidatedFirst,
         HooksOfThisStart, ProbesOfThisStart, ProbeFindsTheRoute
<1> QED
  BY <1>1, <1>2, <1>3 DEF Compose

LEMMA StepKeeps == ASSUME IInv, [Next]_vars PROVE IInv'
<1> USE DEF env, dependencies, up, made, container, seen
<1>1. CASE DbComesAndGoes \/ StorageComesAndGoes
  <2>1. /\ UNCHANGED <<env, up, made, container, seen>>
        /\ db' \in BOOLEAN /\ storage' \in BOOLEAN /\ faults' \in 0 .. MaxFaults
    <3>1. UNCHANGED <<env, up, made, container, seen>>
      BY <1>1 DEF DbComesAndGoes, StorageComesAndGoes
    <3>2. faults' \in 0 .. MaxFaults
      <4>1. faults < MaxFaults /\ faults' = faults + 1
        BY <1>1, Zenon DEF DbComesAndGoes, StorageComesAndGoes
      <4>2. faults \in 0 .. MaxFaults
        BY DEF IInv, TypeOK
      <4> QED
        BY <4>1, <4>2, BoundAssumption
    <3>3. db' \in BOOLEAN /\ storage' \in BOOLEAN
      BY <1>1, Zenon DEF DbComesAndGoes, StorageComesAndGoes, IInv, TypeOK
    <3> QED
      BY <3>1, <3>2, <3>3
  <2> QED
    BY <2>1, EnvironmentStays
       DEF IInv, TypeOK, StartedAfterMinio, MigratedFirst, ValidatedFirst, HooksOfThisStart,
           ProbesOfThisStart, ProbeFindsTheRoute
<1>2. CASE Die
  <2>1. faults' \in 0 .. MaxFaults
    <3>1. faults < MaxFaults /\ faults' = faults + 1
      BY <1>2, Zenon DEF Die
    <3>2. faults \in 0 .. MaxFaults
      BY DEF IInv, TypeOK
    <3> QED
      BY <3>1, <3>2, BoundAssumption
  <2> QED
    BY <1>2, <2>1, ExitKeeps DEF Die, IInv, TypeOK
<1>3. CASE UNCHANGED vars
  BY <1>3, EnvironmentStays
     DEF vars, IInv, TypeOK, StartedAfterMinio, MigratedFirst, ValidatedFirst,
         HooksOfThisStart, ProbesOfThisStart, ProbeFindsTheRoute
<1> QED
  BY <1>1, <1>2, <1>3, ComposeKeeps, BootKeeps, AnswerKeeps DEF Next

\* In every reachable state of every start: the migration, the validation and the hooks come in
\* their order, and what docker was answered is about the process that runs.
THEOREM InductiveInvariant == Spec => []IInv
BY InitSatisfies, StepKeeps, PTL DEF Spec

-----------------------------------------------------------------------------
(* What follows from it. *)

\* What changes keeps its type: the stages of the container, its hooks, its probe, the outages.
THEOREM TypeCorrect == Spec => []TypeOK
<1>1. IInv => TypeOK
  BY DEF IInv
<1> QED
  BY <1>1, InductiveInvariant, PTL

\* An API that comes up has an idle deadline that is ahead of now and before the ceiling.
THEOREM DeadlinesAccepted == Spec => []IdleDeadlineCanFall
<1>1. IInv => IdleDeadlineCanFall
  <2>1. SUFFICES ASSUME IInv, pc \in {"starting", "listening"} PROVE IdleDeadlineCanFall
    BY DEF IdleDeadlineCanFall
  <2>2. InspectAuth = {}
    BY <2>1, Zenon DEF IInv, ValidatedFirst, Issues
  <2> QED
    BY <2>1, <2>2, DeadlinesInspected DEF IInv, IdleDeadlineCanFall
<1> QED
  BY <1>1, InductiveInvariant, PTL

\* Where the variables read alike, the CLI and the API name the same database.
LEMMA ReadersAgree == ReadAlike(CliReads) => CliTarget = Served
<1>1. SUFFICES ASSUME ReadAlike(CliReads) PROVE CliTarget = Served
  OBVIOUS
<1>2. "DB_NAME" \in CliReads
  BY DEF CliReads, DbKeys
<1>3. "DB_NAME" \notin padded
  BY <1>1, <1>2, Zenon DEF ReadAlike
<1>4. ("DB_NAME" \in padded) = FALSE
  BY <1>3, SMT
<1>5. CASE Given("DATABASE_URL")
  BY <1>5, Zenon DEF CliTarget, Served
<1>6. CASE ~Given("DATABASE_URL")
  <2>1. CliTarget = [name |-> raw["DB_NAME"], padded |-> "DB_NAME" \in padded]
    BY <1>6, Zenon DEF CliTarget
  <2>2. Served = [name |-> raw["DB_NAME"], padded |-> FALSE]
    BY <1>6, Zenon DEF Served
  <2> QED
    BY <1>4, <2>1, <2>2, Zenon
<1> QED
  BY <1>5, <1>6

\* The database the API serves is one that the entrypoint has migrated.
THEOREM ServedMigrated == Spec => []MigratedIsServed
<1>1. IInv => MigratedIsServed
  BY ReadersAgree DEF IInv, MigratedFirst, MigratedIsServed
<1> QED
  BY <1>1, InductiveInvariant, PTL

\* What docker calls healthy serves: the right route, an accepted environment, the bucket that was
\* made, under the user that was made, and a migrated database.
THEOREM HealthyServes == Spec => []HealthyMeansServing
<1>1. IInv => HealthyMeansServing
  <2>1. SUFFICES ASSUME IInv, health = "healthy"
                 PROVE  /\ ProbeFindsTheRoute /\ Issues = {}
                        /\ provisioned /\ ReadAlike(ProvisionReads)
                        /\ ReadAlike(CliReads) => Served \in migrated
    BY Zenon DEF HealthyMeansServing, ProbeFindsTheRoute
  <2>2. ProbeFindsTheRoute /\ pc = "listening"
    BY <2>1 DEF IInv, ProbesOfThisStart, ProbeFindsTheRoute
  <2>3. Issues = {}
    BY <2>1, <2>2 DEF IInv, ValidatedFirst
  <2>4. provisioned /\ ReadAlike(ProvisionReads)
    BY <2>1, <2>2 DEF IInv, HooksOfThisStart, Hooks
  <2>5. ReadAlike(CliReads) => Served \in migrated
    BY <2>1, <2>2, ReadersAgree DEF IInv, MigratedFirst
  <2> QED
    BY <2>2, <2>3, <2>4, <2>5
<1> QED
  BY <1>1, InductiveInvariant, PTL
=============================================================================

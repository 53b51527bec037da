------------------------------- MODULE Startup -------------------------------
(***************************************************************************)
(* The backend's container from `docker compose up` to a healthy probe:     *)
(* depends_on and minio-init, the environment and what validateEnv accepts  *)
(* of it, the migrations of the entrypoint, the onModuleInit hooks, the     *)
(* listening API and the restarts, while the database and the object        *)
(* storage come and go.                                                    *)
(*                                                                         *)
(* A variable is the class of its text once trimmed. `padded` says which    *)
(* ones have blanks around it, which readString removes and other readers   *)
(* of the same environment keep. The environments are those the image may   *)
(* be given: docker-compose.yml sets DB_HOST, DB_PORT, BIND_ADDRESS and      *)
(* STORAGE_ENDPOINT itself and passes no DATABASE_URL, a compose override    *)
(* or another orchestrator may.                                            *)
(***************************************************************************)
EXTENDS Naturals, Sequences

CONSTANTS
    Raws,         \* the environments considered
    Paddings,     \* which of their variables may have blanks around them
    MaxFaults,    \* bound: outages and deaths of the process
    Missing,      \* a variable that is not set, or blank
    Text          \* a value that is not what the variable is for

\* What each variable may hold, besides nothing: the classes that its readers tell apart.
Secrets == [id : STRING, length : Nat]
Durations == [count : Nat, unit : {"s", "m", "h", "d"}]
Prefixes == Seq(STRING)                        \* split on "/": "/api/v1" is <<"", "api", "v1">>
Buckets == [fits : BOOLEAN, minio : BOOLEAN]   \* fits BUCKET_PATTERN; is a name to MinIO
Endpoints == [protocol : STRING]
BaseUrls == [protocol : STRING, bare : BOOLEAN]
DatabaseUrls == [protocol : STRING, host : BOOLEAN, database : STRING]

ASSUME EnvironmentAssumption ==
    /\ \A none \in {Missing, Text} : none \notin Nat /\ none \notin STRING
    /\ \A r \in Raws :
          /\ \A key \in {"BIND_ADDRESS", "STORAGE_REGION", "STORAGE_ACCESS_KEY",
                          "STORAGE_SECRET_KEY", "MINIO_ROOT_USER", "DB_HOST", "DB_USER",
                          "DB_PASSWORD", "DB_NAME"} :
                r[key] \in STRING \cup {Missing}
          /\ \A key \in {"PORT", "DB_PORT"} : r[key] \in Nat \cup {Missing, Text}
          /\ r["STORAGE_BUCKET"] \in Buckets \cup {Missing}
          /\ r["API_PREFIX"] \in Prefixes \cup {Missing}
          /\ \A key \in {"JWT_SECRET", "CLIENT_JWT_SECRET"} : r[key] \in Secrets \cup {Missing}
          /\ \A key \in {"JWT_EXPIRES", "SESSION_EXPIRES", "SESSION_IDLE_EXPIRES"} :
                r[key] \in Durations \cup {Missing, Text}
          /\ r["STORAGE_ENDPOINT"] \in Endpoints \cup {Missing, Text}
          /\ r["PUBLIC_BASE_URL"] \in BaseUrls \cup {Missing, Text}
          /\ r["DATABASE_URL"] \in DatabaseUrls \cup {Missing, Text}
ASSUME BoundAssumption == MaxFaults \in Nat

VARIABLES
    raw, padded,    \* the environment, which does not change
    db, storage,    \* the dependencies answer
    compose,        \* `up` waits on depends_on, gave up, or has started the backend
    minioInit,      \* the container of minio-init
    provisioned,    \* minio-init has made the bucket and its user
    migrated,       \* the databases whose schema is up to date
    pc,             \* where the container is
    inits,          \* the onModuleInit hooks that have returned
    probe,          \* what the two checks of the running probe have found
    health,         \* what docker was answered last
    faults

env == <<raw, padded>>
dependencies == <<db, storage>>
up == <<compose, minioInit>>
made == <<provisioned, migrated>>
container == <<pc, inits>>
seen == <<probe, health>>
vars == <<env, dependencies, up, made, container, seen, faults>>

Stages == {"created", "migrating", "loading", "starting", "listening", "exited"}
Hooks == {"prisma", "bucket", "decoy"}
Probes == [db : {"asked", "up", "down"}, storage : {"asked", "up", "down"}] \cup {Missing}

-----------------------------------------------------------------------------
(* Other readers of the environment: the Prisma CLI and provision.sh. *)

DbKeys == {"DB_HOST", "DB_PORT", "DB_USER", "DB_PASSWORD", "DB_NAME"}
CliReads == DbKeys \cup {"DATABASE_URL"}
ProvisionReads == {"STORAGE_BUCKET", "STORAGE_ACCESS_KEY", "STORAGE_SECRET_KEY"}

\* These variables say to them what they say to the application, which trims.
ReadAlike(keys) == padded \cap keys = {}

(* config/duration.ts *)

MS == [s |-> 1000, m |-> 60 * 1000, h |-> 60 * 60 * 1000, d |-> 24 * 60 * 60 * 1000]
IsDuration(d) == d \notin {Missing, Text} /\ d.count >= 1
DurationToMilliseconds(d) == d.count * MS[d.unit]

(* config/env.validation.ts: what each inspection pushes on `issues`. *)

MissingKeys(keys) == {key \in keys : raw[key] = Missing}
Given(key) == raw[key] # Missing

AppKeys == {"PORT", "API_PREFIX", "BIND_ADDRESS"}
AuthKeys == {"JWT_SECRET", "CLIENT_JWT_SECRET", "JWT_EXPIRES", "SESSION_EXPIRES",
             "SESSION_IDLE_EXPIRES"}
StorageKeys == {"STORAGE_ENDPOINT", "STORAGE_REGION", "STORAGE_BUCKET", "STORAGE_ACCESS_KEY",
                "STORAGE_SECRET_KEY"}

ProbePort == 21610
ProbePath == <<"", "api", "v1", "health">>
Ports == 1 .. 65535
IsPort(port) == port # Text /\ port \in Ports
SecretMinLength == 32

OnlySlash == <<"", "">>
StartsWithSlash(path) == Len(path) > 1 /\ path[1] = ""
EndsWithSlash(path) == Len(path) > 1 /\ path[Len(path)] = ""

InspectApp ==
    MissingKeys(AppKeys)
    \cup {key \in {"PORT"} : Given(key) /\ ~IsPort(raw[key])}
    \cup {key \in {"API_PREFIX"} :
            Given(key) /\ (~StartsWithSlash(raw[key])
                            \/ (raw[key] # OnlySlash /\ EndsWithSlash(raw[key])))}

\* Faulty variant: an idle deadline equal to the ceiling is let through.
InspectAuthLoosely ==
    MissingKeys(AuthKeys)
    \cup {key \in {"JWT_SECRET", "CLIENT_JWT_SECRET"} :
            Given(key) /\ raw[key].length < SecretMinLength}
    \cup {key \in {"CLIENT_JWT_SECRET"} : Given(key) /\ raw[key] = raw["JWT_SECRET"]}
    \cup {key \in {"JWT_EXPIRES", "SESSION_EXPIRES", "SESSION_IDLE_EXPIRES"} :
            Given(key) /\ ~IsDuration(raw[key])}
    \cup {key \in {"SESSION_IDLE_EXPIRES"} :
            /\ IsDuration(raw[key]) /\ IsDuration(raw["SESSION_EXPIRES"])
            /\ DurationToMilliseconds(raw[key]) > DurationToMilliseconds(raw["SESSION_EXPIRES"])}

InspectAuth ==
    MissingKeys(AuthKeys)
    \cup {key \in {"JWT_SECRET", "CLIENT_JWT_SECRET"} :
            Given(key) /\ raw[key].length < SecretMinLength}
    \cup {key \in {"CLIENT_JWT_SECRET"} : Given(key) /\ raw[key] = raw["JWT_SECRET"]}
    \cup {key \in {"JWT_EXPIRES", "SESSION_EXPIRES", "SESSION_IDLE_EXPIRES"} :
            Given(key) /\ ~IsDuration(raw[key])}
    \cup {key \in {"SESSION_IDLE_EXPIRES"} :
            /\ IsDuration(raw[key]) /\ IsDuration(raw["SESSION_EXPIRES"])
            /\ DurationToMilliseconds(raw[key]) >= DurationToMilliseconds(raw["SESSION_EXPIRES"])}

HttpProtocols == {"http", "https"}

InspectStorage ==
    MissingKeys(StorageKeys)
    \cup {key \in {"STORAGE_ENDPOINT"} :
            Given(key) /\ (raw[key] = Text \/ raw[key].protocol \notin HttpProtocols)}
    \cup {key \in {"STORAGE_BUCKET"} : Given(key) /\ ~raw[key].fits}

InspectPublic ==
    {key \in {"PUBLIC_BASE_URL"} :
        \/ raw[key] \in {Missing, Text}
        \/ raw[key].protocol \notin HttpProtocols
        \/ ~raw[key].bare}

InspectUrl(url) ==
    {key \in {"DATABASE_URL"} :
        \/ url = Text
        \/ url.protocol \notin {"postgres", "postgresql"}
        \/ ~url.host
        \/ url.database = ""}

InspectDb ==
    MissingKeys(DbKeys) \cup {key \in {"DB_PORT"} : Given(key) /\ ~IsPort(raw[key])}

\* A DATABASE_URL that says something wins over the five variables, which nobody then reads.
Issues ==
    InspectApp \cup InspectAuth \cup InspectStorage \cup InspectPublic
    \cup IF Given("DATABASE_URL") THEN InspectUrl(raw["DATABASE_URL"]) ELSE InspectDb

\* The databases named by validateEnv's DATABASE_URL, and by that of the Prisma CLI, which takes
\* the variables as they are. config/database-url.ts escapes the name, its blanks included.
Served ==
    IF Given("DATABASE_URL") THEN [name |-> raw["DATABASE_URL"].database, padded |-> FALSE]
    ELSE [name |-> raw["DB_NAME"], padded |-> FALSE]

\* Faulty variant: the CLI only knows the five variables.
CliTargetFromParts == [name |-> raw["DB_NAME"], padded |-> "DB_NAME" \in padded]

\* prisma.config.ts: DATABASE_URL ?? the five variables, where a blank is a value.
CliTarget ==
    IF Given("DATABASE_URL") THEN [name |-> raw["DATABASE_URL"].database, padded |-> FALSE]
    ELSE [name |-> raw["DB_NAME"], padded |-> "DB_NAME" \in padded]

\* The CLI's URL leads somewhere.
CliCanConnect ==
    /\ "DATABASE_URL" \notin padded \/ Given("DATABASE_URL")
    /\ IF Given("DATABASE_URL") THEN InspectUrl(raw["DATABASE_URL"]) = {}
       ELSE InspectDb = {} /\ padded \cap {"DB_HOST", "DB_PORT", "DB_USER", "DB_PASSWORD"} = {}

(* What is made of API_PREFIX. Nest drops the empty segments of a route, so "/" is no prefix; the *)
(* cookies append to the text as it is.                                                         *)

RoutePath(prefix, route) == <<"">> \o SelectSeq(prefix, LAMBDA segment : segment # "") \o <<route>>
RefreshCookiePath(prefix) == Append(prefix, "auth")
ClientCookiePath(prefix) == Append(prefix, "public")

-----------------------------------------------------------------------------
Init ==
    /\ raw \in Raws /\ padded \in Paddings
    /\ db \in BOOLEAN /\ storage \in BOOLEAN
    /\ compose = "waiting" /\ minioInit = "created"
    /\ provisioned = FALSE /\ migrated = {}
    /\ pc = "created" /\ inits = {} /\ probe = Missing /\ health = "starting"
    /\ faults = 0

\* depends_on of minio-init: storage healthy.
StartMinioInit ==
    /\ compose = "waiting" /\ minioInit = "created" /\ storage
    /\ minioInit' = "running"
    /\ UNCHANGED <<env, dependencies, compose, made, container, seen, faults>>

\* provision.sh takes its variables with their blanks, and refuses the name of the root user.
RootUserClash ==
    /\ raw["STORAGE_ACCESS_KEY"] = raw["MINIO_ROOT_USER"]
    /\ "STORAGE_ACCESS_KEY" \in padded <=> "MINIO_ROOT_USER" \in padded

Provision ==
    /\ minioInit = "running" /\ storage
    /\ ~RootUserClash
    /\ Given("STORAGE_ACCESS_KEY") /\ Given("STORAGE_SECRET_KEY")
    /\ Given("STORAGE_BUCKET") /\ raw["STORAGE_BUCKET"].minio /\ "STORAGE_BUCKET" \notin padded
    /\ minioInit' = "completed" /\ provisioned' = TRUE
    /\ UNCHANGED <<env, dependencies, compose, migrated, container, seen, faults>>

\* `set -e`, for those reasons or for another that MinIO has; `restart: 'no'`.
ProvisionFails ==
    /\ minioInit = "running"
    /\ minioInit' = "failed"
    /\ UNCHANGED <<env, dependencies, compose, made, container, seen, faults>>

\* depends_on of the backend: both healthy, and minio-init completed. It counts for the first
\* start only.
Start ==
    /\ compose = "waiting" /\ db /\ storage /\ minioInit = "completed"
    /\ compose' = "over" /\ pc' = "migrating"
    /\ UNCHANGED <<env, dependencies, minioInit, made, inits, seen, faults>>

\* "dependency failed to start": the backend stays created, and minio-init ends what it began.
GiveUp ==
    /\ compose = "waiting" /\ (~db \/ ~storage \/ minioInit = "failed")
    /\ compose' = "gave up"
    /\ UNCHANGED <<env, dependencies, minioInit, made, container, seen, faults>>

\* Somebody runs `up` once more.
Up ==
    /\ compose = "gave up"
    /\ compose' = "waiting"
    /\ minioInit' = IF minioInit = "running" THEN "running" ELSE "created"
    /\ UNCHANGED <<env, dependencies, made, container, seen, faults>>

Exit == pc' = "exited" /\ inits' = {} /\ probe' = Missing /\ health' = "starting"

\* docker-entrypoint.sh, with `set -e`.
Migrate ==
    /\ pc = "migrating"
    /\ IF db /\ CliCanConnect
       THEN /\ migrated' = migrated \cup {CliTarget}
            /\ pc' = "loading"
            /\ UNCHANGED <<inits, seen>>
       ELSE Exit /\ UNCHANGED migrated
    /\ UNCHANGED <<env, dependencies, up, provisioned, faults>>

\* ConfigModule's `validate`, before any provider exists.
Load ==
    /\ pc = "loading"
    /\ IF Issues = {} THEN pc' = "starting" /\ UNCHANGED <<inits, seen>> ELSE Exit
    /\ UNCHANGED <<env, dependencies, up, made, faults>>

Hook(hook) ==
    /\ pc = "starting" /\ hook \notin inits
    /\ inits' = inits \cup {hook}
    /\ UNCHANGED <<env, dependencies, up, made, pc, seen, faults>>

\* HeadBucket succeeds: the user is the one minio-init made, and validateEnv trims its keys.
BucketReached ==
    /\ storage /\ provisioned
    /\ ReadAlike(ProvisionReads)

\* A hook that throws fails the start: $connect, which may be lazy, or HeadBucket, on any answer
\* but a success.
HookThrows ==
    /\ pc = "starting"
    /\ \/ "prisma" \notin inits /\ ~db
       \/ "bucket" \notin inits /\ ~BucketReached
    /\ Exit
    /\ UNCHANGED <<env, dependencies, up, made, faults>>

Connect == Hook("prisma")
AssertBucketExists == BucketReached /\ Hook("bucket")
HashDecoy == Hook("decoy")

Listen ==
    /\ pc = "starting" /\ inits = Hooks
    /\ pc' = "listening"
    /\ UNCHANGED <<env, dependencies, up, made, inits, seen, faults>>

\* Faulty variant: the container stays down, as with `restart: no`.
RestartNever == FALSE /\ UNCHANGED vars

\* `restart: unless-stopped`, which does not look at depends_on.
Restart ==
    /\ pc = "exited"
    /\ pc' = "migrating"
    /\ UNCHANGED <<env, dependencies, up, made, inits, seen, faults>>

\* The healthcheck of the container names the port and the prefix it calls.
ProbeFindsTheRoute ==
    /\ pc = "listening" /\ raw["PORT"] = ProbePort
    /\ RoutePath(raw["API_PREFIX"], "health") = ProbePath

ProbeUnanswered ==
    /\ pc \in {"migrating", "loading", "starting", "listening"} /\ ~ProbeFindsTheRoute
    /\ health' = "failing"
    /\ UNCHANGED <<env, dependencies, up, made, container, probe, faults>>

\* GET /health runs its two checks at once.
Probe ==
    /\ ProbeFindsTheRoute /\ probe = Missing
    /\ probe' = [db |-> "asked", storage |-> "asked"]
    /\ UNCHANGED <<env, dependencies, up, made, container, health, faults>>

CheckDatabase ==
    /\ probe # Missing /\ probe.db = "asked"
    /\ probe' = [probe EXCEPT !.db = IF db THEN "up" ELSE "down"]
    /\ UNCHANGED <<env, dependencies, up, made, container, health, faults>>

Ping ==
    /\ probe # Missing /\ probe.storage = "asked"
    /\ probe' = [probe EXCEPT !.storage = IF BucketReached THEN "up" ELSE "down"]
    /\ UNCHANGED <<env, dependencies, up, made, container, health, faults>>

Report ==
    /\ probe # Missing /\ probe.db # "asked" /\ probe.storage # "asked"
    /\ health' = IF probe.db = "up" /\ probe.storage = "up" THEN "healthy" ELSE "failing"
    /\ probe' = Missing
    /\ UNCHANGED <<env, dependencies, up, made, container, faults>>

\* Outages, returns, and the death of the process.
DbComesAndGoes ==
    /\ faults < MaxFaults
    /\ db' = ~db
    /\ faults' = faults + 1
    /\ UNCHANGED <<env, storage, up, made, container, seen>>

StorageComesAndGoes ==
    /\ faults < MaxFaults
    /\ storage' = ~storage
    /\ faults' = faults + 1
    /\ UNCHANGED <<env, db, up, made, container, seen>>

Die ==
    /\ pc \notin {"created", "exited"} /\ faults < MaxFaults
    /\ faults' = faults + 1
    /\ Exit
    /\ UNCHANGED <<env, dependencies, up, made>>

Compose == StartMinioInit \/ Provision \/ ProvisionFails \/ Start \/ GiveUp \/ Up
Boot == Migrate \/ Load \/ Connect \/ AssertBucketExists \/ HashDecoy \/ HookThrows \/ Listen
        \/ Restart
Answer == Probe \/ ProbeUnanswered \/ CheckDatabase \/ Ping \/ Report

Next == Compose \/ Boot \/ Answer \/ DbComesAndGoes \/ StorageComesAndGoes \/ Die

Spec == Init /\ [][Next]_vars

\* A container that was started is restarted, and the entrypoint, node and the probe carry on.
\* Nothing runs `up` or minio-init again.
FairSpec == Spec /\ WF_vars(Boot) /\ WF_vars(Answer)

-----------------------------------------------------------------------------
\* Of what changes: the environment does not.
TypeOK ==
    /\ db \in BOOLEAN /\ storage \in BOOLEAN /\ provisioned \in BOOLEAN
    /\ compose \in {"waiting", "gave up", "over"}
    /\ minioInit \in {"created", "running", "completed", "failed"}
    /\ pc \in Stages /\ inits \subseteq Hooks /\ probe \in Probes
    /\ health \in {"starting", "healthy", "failing"} /\ faults \in 0 .. MaxFaults

\* A duration as the rest of the code and its readers count it.
Seconds(d) == CASE d.unit = "s" -> d.count [] d.unit = "m" -> d.count * 60
                [] d.unit = "h" -> d.count * 3600 [] d.unit = "d" -> d.count * 86400

\* env.validation.ts compares the two session durations in milliseconds, whatever their units: in
\* an API that comes up the idle deadline is ahead of now and before the ceiling, so it can fall
\* at all. It is what RefreshTokens assumes of its two durations.
IdleDeadlineCanFall ==
    pc \in {"starting", "listening"} =>
        /\ {raw["SESSION_IDLE_EXPIRES"], raw["SESSION_EXPIRES"]} \cap {Missing, Text} = {}
        /\ 0 < Seconds(raw["SESSION_IDLE_EXPIRES"])
        /\ Seconds(raw["SESSION_IDLE_EXPIRES"]) < Seconds(raw["SESSION_EXPIRES"])

\* The entrypoint does not start "an API branched on a schema in an unknown state": the database
\* the API serves is one that was migrated. With blanks around DB_NAME it is not: see ReadAlike.
MigratedIsServed == pc = "listening" /\ ReadAlike(CliReads) => Served \in migrated

\* auth-cookie.ts, client-session.ts: "the path the browser sees is the one the API serves". The
\* two scoped cookies of an API that listens are sent to the routes they are scoped to.
CookiesReachTheirRoutes ==
    pc = "listening" =>
        /\ RefreshCookiePath(raw["API_PREFIX"]) = RoutePath(raw["API_PREFIX"], "auth")
        /\ ClientCookiePath(raw["API_PREFIX"]) = RoutePath(raw["API_PREFIX"], "public")

\* What validateEnv accepts, the other readers read alike and the healthcheck can call.
WellConfigured ==
    /\ Issues = {} /\ ReadAlike(CliReads \cup ProvisionReads)
    /\ raw["PORT"] = ProbePort /\ RoutePath(raw["API_PREFIX"], "health") = ProbePath

\* Once `up` has started it, the container recovers by itself from every outage and death at any
\* step of its boot or of the running API: when the dependencies are back for good, docker ends
\* up with a healthy backend and keeps it. A first `up` that gave up is not recovered by itself.
EventuallyHealthy ==
    WellConfigured /\ <>(pc # "created") /\ <>[](db /\ storage)
        => <>[](pc = "listening" /\ health = "healthy")
=============================================================================

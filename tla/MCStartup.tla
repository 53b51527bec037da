------------------------------ MODULE MCStartup ------------------------------
(* Startup on a good environment and on those that differ from it by one or two variables. *)
EXTENDS Startup, TLC

Secret(id, length) == [id |-> id, length |-> length]
Duration(count, unit) == [count |-> count, unit |-> unit]
Bucket(fits, minio) == [fits |-> fits, minio |-> minio]
Url(protocol, host, database) == [protocol |-> protocol, host |-> host, database |-> database]

Good ==
    [PORT |-> 21610, API_PREFIX |-> <<"", "api", "v1">>, BIND_ADDRESS |-> "given",
     JWT_SECRET |-> Secret("a", 32), CLIENT_JWT_SECRET |-> Secret("b", 32),
     JWT_EXPIRES |-> Duration(15, "m"), SESSION_EXPIRES |-> Duration(1, "d"),
     SESSION_IDLE_EXPIRES |-> Duration(23, "h"),
     STORAGE_ENDPOINT |-> [protocol |-> "http"], STORAGE_REGION |-> "given",
     STORAGE_BUCKET |-> Bucket(TRUE, TRUE), STORAGE_ACCESS_KEY |-> "app",
     STORAGE_SECRET_KEY |-> "given", MINIO_ROOT_USER |-> "root",
     PUBLIC_BASE_URL |-> [protocol |-> "https", bare |-> TRUE],
     DATABASE_URL |-> Missing, DB_HOST |-> "given", DB_PORT |-> 5432, DB_USER |-> "given",
     DB_PASSWORD |-> "given", DB_NAME |-> "portail"]

\* What a variable may be instead.
Otherwise ==
    [key \in DOMAIN Good |->
        CASE key \in {"PORT", "DB_PORT"} -> {Missing, Text, 0, 1, 65535, 65536}
          [] key = "API_PREFIX" ->
                {Missing, <<"api", "v1">>, <<"", "api", "v1", "">>, <<"", "v2">>, OnlySlash}
          [] key \in {"JWT_SECRET", "CLIENT_JWT_SECRET"} ->
                {Missing, Secret("a", 31), Secret("a", 32), Secret("b", 32)}
          [] key \in {"JWT_EXPIRES", "SESSION_EXPIRES", "SESSION_IDLE_EXPIRES"} ->
                {Missing, Text, Duration(0, "h"), Duration(24, "h"), Duration(2, "d"),
                 Duration(90, "s")}
          [] key = "STORAGE_ENDPOINT" -> {Missing, Text, [protocol |-> "ftp"]}
          [] key = "STORAGE_BUCKET" -> {Missing, Bucket(FALSE, FALSE), Bucket(TRUE, FALSE)}
          [] key = "MINIO_ROOT_USER" -> {"app"}
          [] key = "PUBLIC_BASE_URL" ->
                {Missing, Text, [protocol |-> "ftp", bare |-> TRUE],
                 [protocol |-> "https", bare |-> FALSE]}
          [] key = "DATABASE_URL" ->
                {Text, Url("mysql", TRUE, "ci"), Url("postgres", FALSE, "ci"),
                 Url("postgres", TRUE, ""), Url("postgresql", TRUE, "ci")}
          [] OTHER -> {Missing}]

Keys == DOMAIN Good
With(r, key, value) == [r EXCEPT ![key] = value]
OneOff(r, keys) == UNION {{With(r, key, value) : value \in Otherwise[key]} : key \in keys}

\* One variable in any place, two where the inspections compare them or one hides the others.
Environments ==
    {Good} \cup OneOff(Good, Keys)
    \cup UNION {OneOff(r, AuthKeys) : r \in OneOff(Good, AuthKeys)}
    \cup UNION {OneOff(r, DbKeys) : r \in OneOff(Good, {"DATABASE_URL"})}

Blanks ==
    {{}} \cup {{key} : key \in {"DATABASE_URL", "DB_HOST", "DB_NAME", "STORAGE_BUCKET",
                               "STORAGE_ACCESS_KEY", "STORAGE_SECRET_KEY", "JWT_SECRET"}}
=============================================================================

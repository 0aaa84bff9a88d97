-------------------------------- MODULE Config --------------------------------
(***************************************************************************)
(* What the gateway runs with: impl/config/config.go, the path that         *)
(* impl/cmd/main.go gives it, and the storage that                          *)
(* impl/pkg/storage/storage.go makes of the result.  Of the settings the    *)
(* two that can keep the gateway from starting are modelled: the storage    *)
(* URI, which the environment may override, and the cron line, which it may *)
(* not.  Bootstrap peers and log level are treated like the one or the      *)
(* other.                                                                   *)
(***************************************************************************)

Unset == "unset"    \* a variable that is not set, a setting that is left out

\* Storage URIs by what decides about them: Bolt with and without a file name,
\* Postgres, any other scheme. "" is a Bolt URI without a name.
Uris == {"bolt", "bolt_nameless", "postgres", "other"}

\* Cron lines the scheduler takes and refuses ("" is one of these).
Crons == {"valid", "invalid"}

Config == [uri : Uris, cron : Crons]

\* A file of settings (TOML) or of variables (.env).
Broken == {"missing", "garbled"}
Toml == [uri : Uris \union {Unset}, cron : Crons \union {Unset}]
DotEnv == [uri : Uris \union {Unset}]

\* What the process finds when it starts: CONFIG_PATH (an "odd" path has another
\* extension), STORAGE_URI, the TOML file at the path in use and config/config.env.
World == [path : {Unset, "empty", "toml", "odd"}, uri : Uris \union {Unset},
          file : Toml \union [broken : Broken], dotenv : DotEnv \union [broken : Broken]]

IsBroken(file, how) == "broken" \in DOMAIN file /\ file.broken \in how

GetDefaultConfig == [uri |-> "bolt", cron |-> "valid"]

\* An empty path selects the built-in settings; no CONFIG_PATH is the default
\* path and not an empty one.
UsesDefaults(world) == world.path = "empty"

\* A file is decoded into a zero value: what it leaves out is empty.
DecodeFile(file) ==
    [uri |-> IF file.uri = Unset THEN "bolt_nameless" ELSE file.uri,
     cron |-> IF file.cron = Unset THEN "invalid" ELSE file.cron]

\* Variant: the file's variables replace the process's own.
LookupEnvOverloaded(world) ==
    IF ~ IsBroken(world.dotenv, Broken) /\ world.dotenv.uri # Unset
    THEN world.dotenv.uri ELSE world.uri

\* godotenv.Load sets the variables that the process does not have.
LookupEnv(world) ==
    IF world.uri = Unset /\ ~ IsBroken(world.dotenv, Broken)
    THEN world.dotenv.uri ELSE world.uri

LoadFails(world) ==
    \/ world.path = "odd"
    \/ ~ UsesDefaults(world) /\ IsBroken(world.file, Broken)
    \/ IsBroken(world.dotenv, {"garbled"})

LoadConfig(world) ==
    LET cfg == IF UsesDefaults(world) THEN GetDefaultConfig ELSE DecodeFile(world.file)
    IN  IF LookupEnv(world) = Unset THEN cfg ELSE [cfg EXCEPT !.uri = LookupEnv(world)]

\* NewStorage and NewBolt's look at the name: which storage to open, if any.
NewStorage(uri) ==
    CASE uri = "bolt" -> "bolt"
      [] uri = "postgres" -> "postgres"
      [] OTHER -> "none"

===============================================================================

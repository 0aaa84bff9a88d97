------------------------------- MODULE MCServer -------------------------------
(* Small instances of Server for TLC.                                       *)
EXTENDS Server

\* Worlds that differ in who names the storage and the schedule, and worlds that fail.
SomeWorlds ==
    {[path |-> path, uri |-> uri, file |-> f, dotenv |-> d] :
        path \in {Unset, "empty", "odd"}, uri \in {Unset, "postgres", "other"},
        f \in [broken : Broken] \union [uri : {Unset, "bolt"}, cron : {Unset, "valid"}],
        d \in [broken : Broken] \union [uri : {Unset, "bolt"}]}

\* The shipped config.toml and nothing else.
ShippedWorld ==
    {[path |-> Unset, uri |-> Unset, file |-> [uri |-> "bolt", cron |-> "valid"],
      dotenv |-> [broken |-> "missing"]]}

===============================================================================

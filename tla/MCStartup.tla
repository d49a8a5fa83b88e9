------------------------------ MODULE MCStartup ------------------------------
(***************************************************************************)
(* A small instance of Startup for TLC: two servers, of any backends,      *)
(* with good and bad TTLs and the three sorts of keyspace names.           *)
(***************************************************************************)
EXTENDS Startup, TLC

Config(backend, t, name, complete) ==
  [backend |-> backend, ttl |-> t, name |-> name, complete |-> complete]

MCConfigs ==
  {Config("redis", 0, "locks", TRUE), Config("redis", -1, "locks", TRUE),
   Config("dynamodb", 2, "locks", TRUE), Config("dynamodb", 0, "locks", TRUE),
   Config("dynamodb", 2, "locks", FALSE),
   Config("scylladb", 2, "locks", TRUE), Config("scylladb", 0, "locks", FALSE),
   Config("scylladb", -1, "Locks", TRUE), Config("scylladb", 0, "quorum-quest", TRUE)}

MCNames == {"locks", "Locks", "quorum-quest"}
MCHyphenated == {"quorum-quest"}
MCFolded == [n \in MCNames |-> IF n = "Locks" THEN "locks" ELSE n]
=============================================================================

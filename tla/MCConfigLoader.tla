--------------------------- MODULE MCConfigLoader ---------------------------
(***************************************************************************)
(* A small instance of ConfigLoader for TLC: a directory with two          *)
(* candidates, a TTL field of 4 bits, and TTLs that validation accepts and *)
(* refuses, in files and in the environment.                               *)
(***************************************************************************)
EXTENDS ConfigLoader

MCCandidates == <<"config.yaml", "quorum-quest.yml">>

MCPaths == {"directory", "config.yaml", "service.yaml"}

Environment(type, ttl) == [type |-> type, ttl |-> ttl]

(* 16 is 0 in 4 bits. *)
MCEnvironments ==
  {Environment("", <<>>), Environment("scylladb", <<>>), Environment("", <<16>>)}

MCContents ==
  {Holding("yaml", "redis", 0), Holding("yaml", "dynamo", 2), Garbled}
=============================================================================

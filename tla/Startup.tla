------------------------------- MODULE Startup -------------------------------
(***************************************************************************)
(* Server processes that start on shared databases: what main of           *)
(* cmd/quorum-quest-service/main.go and the store constructors do once the *)
(* configuration is loaded (ConfigLoader) and the port is open (Server).   *)
(* The DynamoDB and ScyllaDB constructors create what they do not find;    *)
(* every request of theirs is a step, and may fail.  A process may be      *)
(* killed at any time, and ended processes are started again.              *)
(*                                                                         *)
(* The prefix of some names keeps them apart from those of Server and      *)
(* ConfigLoader: ServerProofs extends the three.                           *)
(***************************************************************************)
EXTENDS Integers

CONSTANTS
  Servers,
  Configs,       \* what ConfigLoader may leave in force
  Names,         \* ScyllaDB keyspaces, each with its table
  Hyphenated,    \* the names that CQL accepts in double quotes only
  Folded,        \* what CQL makes of a name without quotes: its lower case
  RedisDefaultTTL     \* Redis' TTL in place of 0

ASSUME StartupAssumption ==
  /\ Hyphenated \subseteq Names
  /\ Folded \in [Names -> Names]
  /\ RedisDefaultTTL \in Nat \ {0}
  /\ \A c \in Configs :
       /\ c.backend \in {"redis", "dynamodb", "scylladb"}
       /\ c.ttl \in Int /\ c.name \in Names
       /\ c.complete \in BOOLEAN     \* the fields that Validate or New want

VARIABLES
  config,      \* of each server, for all its starts
  pc,          \* where each start is
  ttl,         \* of the store that was made
  table,       \* the DynamoDB table
  keyspaces, tables,  \* what exists in ScyllaDB, by its real name
  unlucky,     \* servers whose start met a failed request or a table that
               \* was not ready
  calm,        \* from now on no request fails and no process is killed
  undisturbed  \* history: none has, and none was started again

databases == <<table, keyspaces, tables>>
world == <<calm, undisturbed>>
startupVars == <<config, pc, ttl, databases, unlucky, world>>

Stages(backend) ==
  CASE backend = "redis"    -> {"ping"}
    [] backend = "dynamodb" -> {"describe", "create", "wait"}
    [] backend = "scylladb" -> {"session", "keyspace", "table"}

Ended == {"serving", "fatal", "killed"}

Places ==
  {"start"} \cup Stages("redis") \cup Stages("dynamodb") \cup Stages("scylladb") \cup Ended

StartupTypeOK ==
  /\ config \in [Servers -> Configs]
  /\ pc \in [Servers -> Places] /\ ttl \in [Servers -> Int]
  /\ \A s \in Servers : pc[s] \in {"start"} \cup Stages(config[s].backend) \cup Ended
  /\ \A s \in Servers : ttl[s] \in {config[s].ttl, RedisDefaultTTL}
  /\ table \in {"none", "creating", "active"}
  /\ keyspaces \subseteq Names /\ tables \subseteq keyspaces
  /\ unlucky \subseteq Servers
  /\ calm \in BOOLEAN /\ undisturbed \in BOOLEAN

StartupInit ==
  /\ config \in [Servers -> Configs]
  /\ pc = [s \in Servers |-> "start"]
  /\ ttl = [s \in Servers |-> config[s].ttl]
  /\ table = "none" /\ keyspaces = {} /\ tables = {}
  /\ unlucky = {}
  /\ calm \in BOOLEAN /\ undisturbed = TRUE

-----------------------------------------------------------------------------
Goes(s, from, to) ==
  /\ pc[s] = from
  /\ pc' = [pc EXCEPT ![s] = to]

(* A request without effect fails; its error is fatal, or ignored. *)
Fails(s) ==
  /\ ~calm
  /\ unlucky' = unlucky \cup {s}
  /\ undisturbed' = FALSE

(* DynamoDBConfig's Validate; only its NewStore calls it again. *)
Valid(c) == c.complete /\ c.ttl > 0

-----------------------------------------------------------------------------
(* main's switch, the registry, and the constructors up to the first       *)
(* request.                                                                *)

NewRedisStore(s) ==
  /\ Goes(s, "start", "ping")
  /\ ttl' = [ttl EXCEPT ![s] = IF config[s].ttl = 0 THEN RedisDefaultTTL ELSE config[s].ttl]

NewDynamoDBStore(s) ==
  /\ Goes(s, "start", IF Valid(config[s]) THEN "describe" ELSE "fatal")
  /\ UNCHANGED ttl

(* Validate is not called: all that is refused is a second endpoint. *)
NewScyllaDBStore(s) ==
  /\ Goes(s, "start", IF config[s].complete THEN "session" ELSE "fatal")
  /\ UNCHANGED ttl

(* Mutant: main's branches are exchanged. *)
NewStoreExchanged(s) ==
  /\ \/ config[s].backend = "redis" /\ NewRedisStore(s)
     \/ config[s].backend = "dynamodb" /\ NewScyllaDBStore(s)
     \/ config[s].backend = "scylladb" /\ NewDynamoDBStore(s)
  /\ UNCHANGED <<config, databases, unlucky, world>>

NewStore(s) ==
  /\ \/ config[s].backend = "redis" /\ NewRedisStore(s)
     \/ config[s].backend = "dynamodb" /\ NewDynamoDBStore(s)
     \/ config[s].backend = "scylladb" /\ NewScyllaDBStore(s)
  /\ UNCHANGED <<config, databases, unlucky, world>>

-----------------------------------------------------------------------------
(* Redis: New *)

Ping(s) ==
  /\ Goes(s, "ping", "serving")
  /\ UNCHANGED <<config, ttl, databases, unlucky, world>>

-----------------------------------------------------------------------------
(* DynamoDB: ensureTableExists *)

(* Mutant: a table that is not there is an error. *)
DescribeTableOnly(s) ==
  /\ Goes(s, "describe", IF table = "none" THEN "fatal" ELSE "serving")
  /\ unlucky' = IF table = "creating" THEN unlucky \cup {s} ELSE unlucky
  /\ UNCHANGED <<config, ttl, databases, world>>

(* A table that another process is creating is there, ready or not. *)
DescribeTable(s) ==
  /\ Goes(s, "describe", IF table = "none" THEN "create" ELSE "serving")
  /\ unlucky' = IF table = "creating" THEN unlucky \cup {s} ELSE unlucky
  /\ UNCHANGED <<config, ttl, databases, world>>

(* Whatever the error is, the table is created. *)
DescribeTableFails(s) ==
  /\ Goes(s, "describe", "create")
  /\ Fails(s)
  /\ UNCHANGED <<config, ttl, databases, calm>>

CreateTable(s) ==
  /\ Goes(s, "create", IF table = "none" THEN "wait" ELSE "fatal")
  /\ table' = IF table = "none" THEN "creating" ELSE table
  /\ UNCHANGED <<config, ttl, keyspaces, tables, unlucky, world>>

(* The reply is lost, and the request sent again finds the table there. *)
CreateTableResent(s) ==
  /\ table = "none"
  /\ Goes(s, "create", "fatal")
  /\ table' = "creating"
  /\ Fails(s)
  /\ UNCHANGED <<config, ttl, keyspaces, tables, calm>>

(* Mutant: the waiter of a table's removal. *)
waitForTableGone(s) ==
  /\ table = "none"
  /\ Goes(s, "wait", "serving")
  /\ UNCHANGED <<config, ttl, databases, unlucky, world>>

(* Mutant: the table that was created is taken for ready. *)
waitForNothing(s) ==
  /\ Goes(s, "wait", "serving")
  /\ UNCHANGED <<config, ttl, databases, unlucky, world>>

waitForTableActive(s) ==
  /\ table = "active"
  /\ Goes(s, "wait", "serving")
  /\ UNCHANGED <<config, ttl, databases, unlucky, world>>

TableActivates ==
  /\ table = "creating"
  /\ table' = "active"
  /\ UNCHANGED <<config, pc, ttl, keyspaces, tables, unlucky, world>>

-----------------------------------------------------------------------------
(* ScyllaDB: New and initSession.  The name is not quoted here, whereas    *)
(* every query of the store quotes it.                                     *)

createSession(s) ==
  /\ Goes(s, "session", "keyspace")
  /\ UNCHANGED <<config, ttl, databases, unlucky, world>>

Created(s) == {Folded[config[s].name]} \ Hyphenated

ensureKeyspaceExists(s) ==
  /\ Goes(s, "keyspace", "table")
  /\ keyspaces' = keyspaces \cup Created(s)
  /\ UNCHANGED <<config, ttl, table, tables, unlucky, world>>

(* default_time_to_live must not be negative.  Nothing here depends on the *)
(* index that is created next.                                             *)
ensureTableExists(s) ==
  /\ Goes(s, "table", "serving")
  /\ tables' = IF config[s].ttl >= 0 THEN tables \cup (Created(s) \cap keyspaces) ELSE tables
  /\ UNCHANGED <<config, ttl, table, keyspaces, unlucky, world>>

-----------------------------------------------------------------------------
(* A refused connection, a time limit (5 minutes for the table), ... *)
RequestFails(s) ==
  /\ \/ \E stage \in {"ping", "create", "wait", "session"} : Goes(s, stage, "fatal")
     \/ Goes(s, "keyspace", "table")       \* logged only
     \/ Goes(s, "table", "serving")        \* logged only
  /\ Fails(s)
  /\ UNCHANGED <<config, ttl, databases, calm>>

Kill(s) ==
  /\ ~calm /\ pc[s] \notin {"fatal", "killed"}
  /\ pc' = [pc EXCEPT ![s] = "killed"]
  /\ undisturbed' = FALSE
  /\ UNCHANGED <<config, ttl, databases, unlucky, calm>>

Restart(s) ==
  /\ pc[s] \in {"fatal", "killed"}
  /\ pc' = [pc EXCEPT ![s] = "start"]
  /\ ttl' = [ttl EXCEPT ![s] = config[s].ttl]
  /\ unlucky' = unlucky \ {s}
  /\ undisturbed' = FALSE
  /\ UNCHANGED <<config, databases, calm>>

GetsCalm ==
  /\ ~calm
  /\ calm' = TRUE
  /\ UNCHANGED <<config, pc, ttl, databases, unlucky, undisturbed>>

-----------------------------------------------------------------------------
StartProceeds(s) ==
  \/ NewStore(s) \/ Ping(s)
  \/ DescribeTable(s) \/ CreateTable(s) \/ waitForTableActive(s)
  \/ createSession(s) \/ ensureKeyspaceExists(s) \/ ensureTableExists(s)

Trouble(s) ==
  RequestFails(s) \/ DescribeTableFails(s) \/ CreateTableResent(s) \/ Kill(s)

StartupNext ==
  \/ \E s \in Servers : StartProceeds(s) \/ Trouble(s) \/ Restart(s)
  \/ TableActivates \/ GetsCalm

StartupSpec == StartupInit /\ [][StartupNext]_startupVars

(* Starts go on, ended processes are started again, and tables get ready.  *)
StartupFairSpec ==
  /\ StartupSpec
  /\ WF_startupVars(TableActivates)
  /\ \A s \in Servers : WF_startupVars(StartProceeds(s)) /\ WF_startupVars(Restart(s))

-----------------------------------------------------------------------------
(* Properties. *)

(* A name that needs no quotes, and a TTL that CREATE TABLE accepts. *)
Creatable(c) == c.name \notin Hyphenated /\ Folded[c.name] = c.name /\ c.ttl >= 0

TableReady(c) ==
  CASE c.backend = "redis"    -> TRUE
    [] c.backend = "dynamodb" -> table = "active"
    [] c.backend = "scylladb" -> c.name \in tables

(* A server takes requests only when its table can, however many others    *)
(* start, fail and are started again with it -- if none of its own         *)
(* requests failed, and none found a table in creation.                    *)
ServesOnTable ==
  \A s \in Servers :
    pc[s] = "serving" /\ s \notin unlucky
      /\ (config[s].backend = "scylladb" => Creatable(config[s]))
    => TableReady(config[s])

Usable(c) == IF c.backend = "dynamodb" THEN Valid(c) ELSE c.backend = "redis" \/ c.complete

Racers == {s \in Servers : config[s].backend = "dynamodb" /\ Usable(config[s])}

(* Servers that race for the creation of the DynamoDB table: those that    *)
(* lose fail, but not all of them.                                         *)
RaceLeavesOne ==
  undisturbed /\ Racers # {} /\ (\A s \in Racers : pc[s] \in Ended)
    => \E s \in Racers : pc[s] = "serving"

(* Wherever processes were killed and requests lost: once that stops,      *)
(* every server whose configuration can be used comes to serve.            *)
AllServeInTheEnd ==
  \A s \in Servers : calm /\ Usable(config[s]) ~> pc[s] = "serving"

-----------------------------------------------------------------------------
(* What the comments in the code say. *)

(* "initSession initializes the session by creating keyspace and table if  *)
(* needed": a ScyllaDB server of which no request failed has its table.    *)
SessionInitialized ==
  \A s \in Servers :
    pc[s] = "serving" /\ config[s].backend = "scylladb" /\ s \notin unlucky
      => TableReady(config[s])

(* "invalid TTL": no server falls back to a TTL that Validate refuses. *)
TTLsAreValid ==
  \A s \in Servers : pc[s] = "serving" => ttl[s] > 0

(* "Ensure table exists": a server whose requests were all answered serves *)
(* on a table that is ready.                                               *)
TableEnsured ==
  undisturbed =>
    \A s \in Servers :
      pc[s] = "serving" /\ config[s].backend = "dynamodb" => table = "active"
=============================================================================

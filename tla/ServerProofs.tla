---------------------------- MODULE ServerProofs ----------------------------
(***************************************************************************)
(* Proofs about a server process, for all values of the constants: its     *)
(* life (Server), its start on a shared database (Startup), and its        *)
(* configuration (ConfigLoader).  The three have no variable in common,    *)
(* and each part has an inductive invariant of its own.                    *)
(***************************************************************************)
EXTENDS Server, Startup, ConfigLoader, SequenceTheorems, WellFoundedInduction, TLAPS

-----------------------------------------------------------------------------
(* Server: handlers always find an open store, for any number of RPCs in   *)
(* progress.                                                               *)

(* What the goroutines know of each other.  Before Stop has waited, the    *)
(* store is open from initStore on; a handler runs only while the gRPC     *)
(* server serves or drains; Stop closes the store of a stopped one only.   *)
BeforeServer == {"none", "listen", "initStore", "newServer"}

StoreReady ==
  starter \notin {"none", "listen", "initStore"} /\ grpc # "stopped" => store = "open"

NothingBeforeStart == starter \in BeforeServer => server = "nil" /\ grpc = "none"

StopInStep ==
  /\ main = "boot" => starter = "none"
  /\ grpc \in {"draining", "stopped"} => main \notin {"boot", "signalWait", "stop"}
  /\ main = "draining" => grpc = "draining"
  /\ main \in {"closeStore", "clear"} => grpc = "stopped"

HandlersServed ==
  \A r \in Requests : handler[r] # "none" => grpc \in {"serving", "draining"}

IInv == TypeOK /\ StoreReady /\ NothingBeforeStart /\ StopInStep /\ HandlersServed

LEMMA InitInvariant == Init => IInv
  BY DEF Init, IInv, TypeOK, StoreReady, NothingBeforeStart, BeforeServer,
     StopInStep, HandlersServed

LEMMA NextInvariant == IInv /\ [Next]_vars => IInv'
<1> SUFFICES ASSUME IInv, [Next]_vars PROVE IInv'
  OBVIOUS
<1> USE DEF IInv, TypeOK, Deferred, StoreReady, NothingBeforeStart, BeforeServer,
        StopInStep, HandlersServed, Running, Starting, InMain, Exit
<1>1. CASE Boot
  BY <1>1 DEF Boot
<1>2. CASE BootFails
  BY <1>2 DEF BootFails
<1>3. CASE Start
  <2>1. CASE Listen
    BY <2>1 DEF Listen
  <2>2. CASE initStore
    BY <2>2 DEF initStore
  <2>3. CASE NewGrpcServer
    BY <2>3 DEF NewGrpcServer
  <2>4. CASE Register
    BY <2>4 DEF Register
  <2>5. CASE Serve
    BY <2>5 DEF Serve
  <2>6. CASE StartFails \/ StartPanics
    BY <2>6 DEF StartFails, StartPanics
  <2>7. CASE ServeReturns
    BY <2>7 DEF ServeReturns
  <2> QED
    BY <1>3, <2>1, <2>2, <2>3, <2>4, <2>5, <2>6, <2>7 DEF Start
<1>4. CASE Signal
  BY <1>4 DEF Signal
<1>5. CASE Shutdown
  <2>1. CASE Stop
    BY <2>1 DEF Stop
  <2>2. CASE GracefulStop
    BY <2>2 DEF GracefulStop
  <2>3. CASE StopClosesStore
    BY <2>3 DEF StopClosesStore
  <2>4. CASE StopClears
    BY <2>4 DEF StopClears
  <2>5. CASE Cleanup \/ CloseLoader
    BY <2>5 DEF Cleanup, CloseLoader
  <2>6. CASE MainReturns
    BY <2>6 DEF MainReturns
  <2> QED
    BY <1>5, <2>1, <2>2, <2>3, <2>4, <2>5, <2>6 DEF Shutdown
<1>6. ASSUME NEW r \in Requests, Accept(r) PROVE IInv'
  BY <1>6 DEF Accept
<1>7. ASSUME NEW r \in Requests, Handle(r) PROVE IInv'
  BY <1>7 DEF Handle, CallStore, Reply
<1>8. CASE UNCHANGED vars
  BY <1>8 DEF vars
<1> QED
  BY <1>1, <1>2, <1>3, <1>4, <1>5, <1>6, <1>7, <1>8 DEF Next

(* Every run of a server is well typed. *)
THEOREM TypeCorrect == Spec => []TypeOK
<1>1. IInv => TypeOK
  BY DEF IInv
<1> QED
  BY InitInvariant, NextInvariant, <1>1, PTL DEF Spec

(* No handler ever calls a store that is not there, or that Stop closed:   *)
(* Stop closes the store only after GracefulStop has waited for the        *)
(* handlers, and Start serves only with a store.                           *)
THEOREM HandlersFindStore == Spec => []HandlersHaveStore
<1>1. IInv => HandlersHaveStore
  BY DEF IInv, TypeOK, StoreReady, NothingBeforeStart, BeforeServer,
     HandlersServed, HandlersHaveStore
<1> QED
  BY InitInvariant, NextInvariant, <1>1, PTL DEF Spec

-----------------------------------------------------------------------------
(* Startup. *)

(* A DynamoDB server gets past its constructor with a valid configuration  *)
(* only.                                                                   *)
ConfigChecked ==
  \A s \in Servers :
    config[s].backend = "dynamodb" /\ pc[s] \in {"describe", "create", "wait", "serving"}
    => Valid(config[s])

(* Between its two statements a ScyllaDB server of which none failed has   *)
(* its keyspace.                                                           *)
KeyspaceReady ==
  \A s \in Servers :
    config[s].backend = "scylladb" /\ pc[s] = "table" /\ s \notin unlucky
      /\ Creatable(config[s])
    => config[s].name \in keyspaces

(* The table exists from the moment when one of the racers goes on to wait *)
(* for it, and until then none of them can have lost.                      *)
RaceDecided ==
  undisturbed =>
    IF table = "none" THEN \A s \in Racers : pc[s] \in {"start", "describe", "create"}
    ELSE \E s \in Racers : pc[s] \in {"wait", "serving"}

StartupIInv ==
  /\ StartupTypeOK /\ ConfigChecked
  /\ KeyspaceReady /\ ServesOnTable
  /\ RaceDecided


LEMMA StartupStarts == StartupInit => StartupIInv
<1> SUFFICES ASSUME StartupInit PROVE StartupIInv
  OBVIOUS
<1>1. StartupTypeOK
  <2>1. \A s \in Servers : config[s] \in Configs /\ config[s].ttl \in Int
    BY StartupAssumption DEF StartupInit
  <2> QED
    BY <2>1 DEF StartupInit, StartupTypeOK, Places
<1>2. ConfigChecked /\ KeyspaceReady /\ ServesOnTable
  BY DEF StartupInit, ConfigChecked, KeyspaceReady, ServesOnTable
<1>3. RaceDecided
  BY DEF StartupInit, RaceDecided, Racers
<1> QED
  BY <1>1, <1>2, <1>3 DEF StartupIInv

(* What a process is doing, by the backend of its configuration. *)
LEMMA StagesOfBackend ==
  ASSUME StartupTypeOK, NEW s \in Servers
  PROVE  /\ config[s].backend \in {"redis", "dynamodb", "scylladb"}
         /\ config[s].ttl \in Int /\ config[s].name \in Names
         /\ pc[s] = "ping" => config[s].backend = "redis"
         /\ pc[s] \in {"describe", "create", "wait"} => config[s].backend = "dynamodb"
         /\ pc[s] \in {"session", "keyspace", "table"} => config[s].backend = "scylladb"
<1>1. config[s] \in Configs /\ config[s].backend \in {"redis", "dynamodb", "scylladb"}
  BY StartupAssumption DEF StartupTypeOK
<1>2. pc[s] \in {"start"} \cup Stages(config[s].backend) \cup {"serving", "fatal", "killed"}
  BY DEF StartupTypeOK, Ended
<1> QED
  BY <1>1, <1>2, StartupAssumption DEF Stages


LEMMA PlacesOfBackend ==
  ASSUME NEW b \in {"redis", "dynamodb", "scylladb"},
         NEW p \in {"start"} \cup Stages(b) \cup Ended
  PROVE  p \in Places
BY DEF Places

(* A process that moves within what its backend does is still well typed. *)
LEMMA MoveTypes ==
  ASSUME StartupTypeOK, NEW s \in Servers, NEW from, NEW to, Goes(s, from, to),
         to \in {"start"} \cup Stages(config[s].backend) \cup Ended,
         config' = config
  PROVE  /\ config' \in [Servers -> Configs] /\ pc' \in [Servers -> Places]
         /\ \A r \in Servers : pc'[r] \in {"start"} \cup Stages(config'[r].backend) \cup Ended
<1>1. to \in Places
  BY StagesOfBackend, PlacesOfBackend
<1> QED
  BY <1>1 DEF StartupTypeOK, Goes

LEMMA StageSets ==
  /\ Stages("redis") = {"ping"}
  /\ Stages("dynamodb") = {"describe", "create", "wait"}
  /\ Stages("scylladb") = {"session", "keyspace", "table"}
BY DEF Stages

LEMMA StartupTypes == StartupTypeOK /\ [StartupNext]_startupVars => StartupTypeOK'
<1> SUFFICES ASSUME StartupTypeOK, [StartupNext]_startupVars PROVE StartupTypeOK'
  OBVIOUS
<1> DEFINE Moves ==
      /\ config' \in [Servers -> Configs] /\ pc' \in [Servers -> Places]
      /\ \A r \in Servers : pc'[r] \in {"start"} \cup Stages(config'[r].backend) \cup Ended
<1>1. ASSUME NEW s \in Servers, StartProceeds(s) PROVE StartupTypeOK'
  <2>1. CASE NewStore(s)
    <3>1. config' = config /\ UNCHANGED <<table, keyspaces, tables, unlucky, calm, undisturbed>>
      BY <2>1 DEF NewStore, databases, world
    <3>2. Moves
      <4>1. CASE config[s].backend = "redis" /\ NewRedisStore(s)
        BY <4>1, <3>1, MoveTypes, StageSets DEF NewRedisStore
      <4>2. CASE config[s].backend = "dynamodb" /\ NewDynamoDBStore(s)
        BY <4>2, <3>1, MoveTypes, StageSets DEF NewDynamoDBStore, Ended
      <4>3. CASE config[s].backend = "scylladb" /\ NewScyllaDBStore(s)
        BY <4>3, <3>1, MoveTypes, StageSets DEF NewScyllaDBStore, Ended
      <4> QED
        BY <2>1, <4>1, <4>2, <4>3 DEF NewStore
    <3>3. ttl' \in [Servers -> Int]
          /\ \A r \in Servers : ttl'[r] \in {config'[r].ttl, RedisDefaultTTL}
      BY <2>1, <3>1, StagesOfBackend, StartupAssumption
         DEF StartupTypeOK, NewStore, NewRedisStore, NewDynamoDBStore, NewScyllaDBStore
    <3> QED
      BY <3>1, <3>2, <3>3 DEF StartupTypeOK
  <2>2. CASE Ping(s)
    <3>1. config' = config
      BY <2>2 DEF Ping
    <3>2. Moves
      BY <2>2, <3>1, MoveTypes DEF Ping, Ended
    <3> QED
      BY <2>2, <3>2 DEF Ping, StartupTypeOK, databases, world
  <2>3. CASE DescribeTable(s)
    <3>1. config' = config /\ config[s].backend = "dynamodb"
      BY <2>3, StagesOfBackend DEF DescribeTable, Goes
    <3>2. Moves
      BY <2>3, <3>1, MoveTypes, StageSets DEF DescribeTable, Ended
    <3> QED
      BY <2>3, <3>2 DEF DescribeTable, StartupTypeOK, databases, world
  <2>4. CASE CreateTable(s)
    <3>1. config' = config /\ config[s].backend = "dynamodb"
      BY <2>4, StagesOfBackend DEF CreateTable, Goes
    <3>2. Moves
      BY <2>4, <3>1, MoveTypes, StageSets DEF CreateTable, Ended
    <3> QED
      BY <2>4, <3>2 DEF CreateTable, StartupTypeOK, world
  <2>5. CASE waitForTableActive(s)
    <3>1. config' = config
      BY <2>5 DEF waitForTableActive
    <3>2. Moves
      BY <2>5, <3>1, MoveTypes DEF waitForTableActive, Ended
    <3> QED
      BY <2>5, <3>2 DEF waitForTableActive, StartupTypeOK, databases, world
  <2>6. CASE createSession(s)
    <3>1. config' = config /\ config[s].backend = "scylladb"
      BY <2>6, StagesOfBackend DEF createSession, Goes
    <3>2. Moves
      BY <2>6, <3>1, MoveTypes, StageSets DEF createSession
    <3> QED
      BY <2>6, <3>2 DEF createSession, StartupTypeOK, databases, world
  <2>7. CASE ensureKeyspaceExists(s)
    <3>1. config' = config /\ config[s].backend = "scylladb" /\ config[s].name \in Names
      BY <2>7, StagesOfBackend DEF ensureKeyspaceExists, Goes
    <3>2. Moves
      BY <2>7, <3>1, MoveTypes, StageSets DEF ensureKeyspaceExists
    <3>3. keyspaces' \subseteq Names /\ tables' \subseteq keyspaces'
      BY <2>7, <3>1, StartupAssumption DEF ensureKeyspaceExists, Created, StartupTypeOK
    <3> QED
      BY <2>7, <3>2, <3>3 DEF ensureKeyspaceExists, StartupTypeOK, world
  <2>8. CASE ensureTableExists(s)
    <3>1. config' = config
      BY <2>8 DEF ensureTableExists
    <3>2. Moves
      BY <2>8, <3>1, MoveTypes DEF ensureTableExists, Ended
    <3>3. tables' \subseteq keyspaces
      BY <2>8 DEF ensureTableExists, StartupTypeOK
    <3> QED
      BY <2>8, <3>2, <3>3 DEF ensureTableExists, StartupTypeOK, world
  <2> QED
    BY <1>1, <2>1, <2>2, <2>3, <2>4, <2>5, <2>6, <2>7, <2>8 DEF StartProceeds
<1>2. ASSUME NEW s \in Servers, Trouble(s) PROVE StartupTypeOK'
  <2>1. config' = config /\ ttl' = ttl /\ keyspaces' = keyspaces /\ tables' = tables
    BY <1>2 DEF Trouble, RequestFails, DescribeTableFails, CreateTableResent, Kill, databases
  <2>2. calm' = calm /\ undisturbed' \in BOOLEAN /\ unlucky' \subseteq Servers
    BY <1>2 DEF Trouble, RequestFails, DescribeTableFails, CreateTableResent, Kill, Fails,
                StartupTypeOK
  <2>3. table' \in {"none", "creating", "active"}
    BY <1>2 DEF Trouble, RequestFails, DescribeTableFails, CreateTableResent, Kill, databases,
                StartupTypeOK
  <2>4. Moves
    <3>1. CASE RequestFails(s)
      <4>1. ASSUME NEW stage, Goes(s, stage, "fatal") PROVE Moves
        BY <4>1, <2>1, MoveTypes DEF Ended
      <4>2. CASE Goes(s, "keyspace", "table")
        BY <4>2, <2>1, MoveTypes, StagesOfBackend, StageSets DEF Goes
      <4>3. CASE Goes(s, "table", "serving")
        BY <4>3, <2>1, MoveTypes DEF Ended
      <4> QED
        BY <3>1, <4>1, <4>2, <4>3 DEF RequestFails
    <3>2. CASE DescribeTableFails(s)
      <4>1. Goes(s, "describe", "create") /\ config[s].backend = "dynamodb"
        BY <3>2, StagesOfBackend DEF DescribeTableFails, Goes
      <4> QED
        BY <4>1, <2>1, MoveTypes, StageSets
    <3>3. CASE CreateTableResent(s)
      BY <3>3, <2>1, MoveTypes DEF CreateTableResent, Ended
    <3>4. CASE Kill(s)
      <4>1. Goes(s, pc[s], "killed")
        BY <3>4 DEF Kill, Goes
      <4> QED
        BY <4>1, <2>1, MoveTypes DEF Ended
    <3> QED
      BY <1>2, <3>1, <3>2, <3>3, <3>4 DEF Trouble
  <2> QED
    BY <2>1, <2>2, <2>3, <2>4 DEF StartupTypeOK
<1>3. ASSUME NEW s \in Servers, Restart(s) PROVE StartupTypeOK'
  <2>1. config' = config /\ Goes(s, pc[s], "start")
    BY <1>3 DEF Restart, Goes
  <2>2. Moves
    BY <2>1, MoveTypes
  <2>3. ttl' \in [Servers -> Int]
        /\ \A r \in Servers : ttl'[r] \in {config'[r].ttl, RedisDefaultTTL}
    BY <1>3, <2>1, StagesOfBackend DEF Restart, StartupTypeOK
  <2> QED
    BY <1>3, <2>2, <2>3 DEF Restart, StartupTypeOK, databases
<1>4. CASE TableActivates
  BY <1>4 DEF TableActivates, StartupTypeOK, world
<1>5. CASE GetsCalm
  BY <1>5 DEF GetsCalm, StartupTypeOK, databases
<1>6. CASE UNCHANGED startupVars
  BY <1>6 DEF startupVars, StartupTypeOK, databases, world
<1> QED
  BY <1>1, <1>2, <1>3, <1>4, <1>5, <1>6 DEF StartupNext

LEMMA ConfigStaysChecked ==
  StartupTypeOK /\ ConfigChecked /\ [StartupNext]_startupVars => ConfigChecked'
<1> SUFFICES ASSUME StartupTypeOK, ConfigChecked, [StartupNext]_startupVars PROVE ConfigChecked'
  OBVIOUS
<1> USE DEF ConfigChecked
<1>1. ASSUME NEW s \in Servers, NewStore(s) PROVE ConfigChecked'
  <2>1. CASE config[s].backend = "redis" /\ NewRedisStore(s)
    BY <1>1, <2>1, StagesOfBackend, StartupAssumption
       DEF NewStore, NewRedisStore, Goes, StartupTypeOK
  <2>2. CASE config[s].backend = "dynamodb" /\ NewDynamoDBStore(s)
    BY <1>1, <2>2 DEF NewStore, NewDynamoDBStore, Goes, StartupTypeOK
  <2>3. CASE config[s].backend = "scylladb" /\ NewScyllaDBStore(s)
    BY <1>1, <2>3 DEF NewStore, NewScyllaDBStore, Goes, StartupTypeOK
  <2> QED
    BY <1>1, <2>1, <2>2, <2>3 DEF NewStore
<1>2. ASSUME NEW s \in Servers,
             Ping(s) \/ DescribeTable(s) \/ CreateTable(s) \/ waitForTableActive(s)
      PROVE  ConfigChecked'
  BY <1>2, StagesOfBackend
     DEF Ping, DescribeTable, CreateTable, waitForTableActive, Goes, StartupTypeOK
<1>3. ASSUME NEW s \in Servers,
             createSession(s) \/ ensureKeyspaceExists(s) \/ ensureTableExists(s)
      PROVE  ConfigChecked'
  BY <1>3, StagesOfBackend
     DEF createSession, ensureKeyspaceExists, ensureTableExists, Goes, StartupTypeOK
<1>4. ASSUME NEW s \in Servers, Trouble(s) PROVE ConfigChecked'
  BY <1>4, StagesOfBackend
     DEF Trouble, RequestFails, DescribeTableFails, CreateTableResent, Kill, Goes, StartupTypeOK
<1>5. ASSUME NEW s \in Servers, Restart(s) PROVE ConfigChecked'
  BY <1>5 DEF Restart, StartupTypeOK
<1>6. CASE TableActivates \/ GetsCalm \/ UNCHANGED startupVars
  BY <1>6 DEF TableActivates, GetsCalm, startupVars
<1> QED
  BY <1>1, <1>2, <1>3, <1>4, <1>5, <1>6 DEF StartupNext, StartProceeds

LEMMA KeyspaceStaysReady ==
  StartupTypeOK /\ KeyspaceReady /\ [StartupNext]_startupVars => KeyspaceReady'
<1> SUFFICES ASSUME StartupTypeOK, KeyspaceReady, [StartupNext]_startupVars
             PROVE  KeyspaceReady'
  OBVIOUS
<1> USE DEF KeyspaceReady
<1>1. ASSUME NEW s \in Servers, NewStore(s) PROVE KeyspaceReady'
  BY <1>1 DEF NewStore, NewRedisStore, NewDynamoDBStore, NewScyllaDBStore, Goes,
              StartupTypeOK, databases
<1>2. ASSUME NEW s \in Servers,
             Ping(s) \/ DescribeTable(s) \/ CreateTable(s) \/ waitForTableActive(s)
      PROVE  KeyspaceReady'
  BY <1>2 DEF Ping, DescribeTable, CreateTable, waitForTableActive, Goes, StartupTypeOK,
              databases
<1>3. ASSUME NEW s \in Servers, createSession(s) \/ ensureTableExists(s)
      PROVE  KeyspaceReady'
  BY <1>3 DEF createSession, ensureTableExists, Goes, StartupTypeOK, databases
<1>4. ASSUME NEW s \in Servers, ensureKeyspaceExists(s) PROVE KeyspaceReady'
  <2>1. Creatable(config[s]) => config[s].name \in keyspaces'
    BY <1>4 DEF ensureKeyspaceExists, Created, Creatable
  <2> QED
    BY <1>4, <2>1 DEF ensureKeyspaceExists, Goes, StartupTypeOK
<1>5. ASSUME NEW s \in Servers, Trouble(s) PROVE KeyspaceReady'
  BY <1>5 DEF Trouble, RequestFails, DescribeTableFails, CreateTableResent, Kill, Goes,
              Fails, StartupTypeOK, databases
<1>6. ASSUME NEW s \in Servers, Restart(s) PROVE KeyspaceReady'
  BY <1>6 DEF Restart, StartupTypeOK, databases
<1>7. CASE TableActivates \/ GetsCalm \/ UNCHANGED startupVars
  BY <1>7 DEF TableActivates, GetsCalm, startupVars, databases
<1> QED
  BY <1>1, <1>2, <1>3, <1>4, <1>5, <1>6, <1>7 DEF StartupNext, StartProceeds

(* Configurations stay, and no step takes anything out of the databases.   *)
LEMMA DatabasesOnlyGrow ==
  [StartupNext]_startupVars =>
    /\ config' = config
    /\ table = "active" => table' = "active"
    /\ tables \subseteq tables'
<1> SUFFICES ASSUME [StartupNext]_startupVars
             PROVE  /\ config' = config
                    /\ table = "active" => table' = "active"
                    /\ tables \subseteq tables'
  OBVIOUS
<1>1. ASSUME NEW s \in Servers, StartProceeds(s) /\ ~CreateTable(s) /\ ~ensureTableExists(s)
      PROVE  config' = config /\ table' = table /\ tables \subseteq tables'
  BY <1>1 DEF StartProceeds, NewStore, Ping, DescribeTable, waitForTableActive,
              createSession, ensureKeyspaceExists, databases
<1>2. ASSUME NEW s \in Servers, CreateTable(s) \/ CreateTableResent(s)
      PROVE  config' = config /\ (table = "active" => table' = "active") /\ tables' = tables
  BY <1>2 DEF CreateTable, CreateTableResent
<1>3. ASSUME NEW s \in Servers, ensureTableExists(s)
      PROVE  config' = config /\ table' = table /\ tables \subseteq tables'
  BY <1>3 DEF ensureTableExists
<1>4. ASSUME NEW s \in Servers,
             RequestFails(s) \/ DescribeTableFails(s) \/ Kill(s) \/ Restart(s)
      PROVE  config' = config /\ table' = table /\ tables' = tables
  BY <1>4 DEF RequestFails, DescribeTableFails, Kill, Restart, databases
<1>5. CASE TableActivates \/ GetsCalm \/ UNCHANGED startupVars
  BY <1>5 DEF TableActivates, GetsCalm, startupVars, databases
<1> QED
  BY <1>1, <1>2, <1>3, <1>4, <1>5 DEF StartupNext, Trouble

LEMMA ServersStayOnTable ==
  StartupTypeOK /\ KeyspaceReady /\ ServesOnTable /\ [StartupNext]_startupVars
    => ServesOnTable'
<1> SUFFICES ASSUME StartupTypeOK, KeyspaceReady, ServesOnTable, [StartupNext]_startupVars,
                    NEW r \in Servers,
                    pc'[r] = "serving", r \notin unlucky',
                    config[r].backend = "scylladb" => Creatable(config[r])
             PROVE  TableReady(config[r])'
  BY DatabasesOnlyGrow DEF ServesOnTable
<1>1. config[r].backend \in {"redis", "dynamodb", "scylladb"}
  BY StagesOfBackend
<1>2. CASE pc[r] = "serving" /\ r \notin unlucky
  <2>1. TableReady(config[r])
    BY <1>2 DEF ServesOnTable
  <2> QED
    BY <1>1, <2>1, DatabasesOnlyGrow DEF TableReady
<1>3. CASE ~(pc[r] = "serving" /\ r \notin unlucky)
  <2>1. ASSUME NEW s \in Servers,
               NewStore(s) \/ createSession(s) \/ ensureKeyspaceExists(s) \/ CreateTable(s)
                 \/ Restart(s)
        PROVE  FALSE
    BY <1>3, <2>1
       DEF NewStore, NewRedisStore, NewDynamoDBStore, NewScyllaDBStore, createSession,
           ensureKeyspaceExists, CreateTable, Restart, Goes, StartupTypeOK
  <2>2. ASSUME NEW s \in Servers, Trouble(s) PROVE FALSE
    BY <1>3, <2>2
       DEF Trouble, RequestFails, DescribeTableFails, CreateTableResent, Kill, Fails, Goes,
           StartupTypeOK
  <2>3. ASSUME NEW s \in Servers, Ping(s) PROVE TableReady(config[r])'
    <3>1. s = r /\ config[r].backend = "redis"
      BY <1>3, <2>3, StagesOfBackend DEF Ping, Goes, StartupTypeOK
    <3> QED
      BY <3>1, DatabasesOnlyGrow DEF TableReady
  <2>4. ASSUME NEW s \in Servers, DescribeTable(s) \/ waitForTableActive(s)
        PROVE  TableReady(config[r])'
    <3>1. s = r /\ config[r].backend = "dynamodb" /\ table' = table
      BY <1>3, <2>4, StagesOfBackend
         DEF DescribeTable, waitForTableActive, Goes, StartupTypeOK, databases
    <3>2. table = "active"
      BY <1>3, <2>4, <3>1 DEF DescribeTable, waitForTableActive, Goes, StartupTypeOK
    <3> QED
      BY <3>1, <3>2, DatabasesOnlyGrow DEF TableReady
  <2>5. ASSUME NEW s \in Servers, ensureTableExists(s) PROVE TableReady(config[r])'
    <3>1. s = r /\ config[r].backend = "scylladb" /\ pc[r] = "table" /\ r \notin unlucky
      BY <1>3, <2>5, StagesOfBackend DEF ensureTableExists, Goes, StartupTypeOK
    <3>2. config[r].name \in keyspaces
      BY <3>1 DEF KeyspaceReady
    <3>3. config[r].name \in tables'
      BY <2>5, <3>1, <3>2 DEF ensureTableExists, Created, Creatable
    <3> QED
      BY <3>1, <3>3, DatabasesOnlyGrow DEF TableReady
  <2>6. CASE TableActivates \/ GetsCalm \/ UNCHANGED startupVars
    BY <1>3, <2>6 DEF TableActivates, GetsCalm, startupVars
  <2> QED
    BY <2>1, <2>2, <2>3, <2>4, <2>5, <2>6 DEF StartupNext, StartProceeds
<1> QED
  BY <1>2, <1>3

(* Until something goes wrong, the table is there once a racer has created *)
(* it, which every other racer is told, and the creator waits for it.      *)
LEMMA RaceStaysDecided ==
  StartupTypeOK /\ ConfigChecked /\ RaceDecided /\ [StartupNext]_startupVars => RaceDecided'
<1> SUFFICES ASSUME StartupTypeOK, ConfigChecked, RaceDecided, [StartupNext]_startupVars,
                    undisturbed'
             PROVE  IF table' = "none"
                      THEN \A s \in Racers' : pc'[s] \in {"start", "describe", "create"}
                      ELSE \E s \in Racers' : pc'[s] \in {"wait", "serving"}
  BY DEF RaceDecided
<1>1. Racers' = Racers /\ Racers \subseteq Servers
  BY DatabasesOnlyGrow DEF Racers
<1>2. \A r \in Racers : config[r].backend = "dynamodb" /\ Valid(config[r])
  BY DEF Racers, Usable
<1>3. ASSUME NEW s \in Servers, Trouble(s) \/ Restart(s) PROVE FALSE
  BY <1>3 DEF Trouble, RequestFails, DescribeTableFails, CreateTableResent, Kill, Restart,
              Fails
<1>4. undisturbed
  BY <1>3 DEF StartupNext, StartProceeds, NewStore, Ping, DescribeTable, CreateTable,
              waitForTableActive, createSession, ensureKeyspaceExists, ensureTableExists,
              TableActivates, GetsCalm, startupVars, world
<1>5. IF table = "none" THEN \A s \in Racers : pc[s] \in {"start", "describe", "create"}
      ELSE \E s \in Racers : pc[s] \in {"wait", "serving"}
  BY <1>4 DEF RaceDecided
<1>6. ASSUME NEW s \in Servers, CreateTable(s), table = "none"
      PROVE  table' = "creating" /\ s \in Racers /\ pc'[s] = "wait"
  <2>1. config[s].backend = "dynamodb" /\ pc[s] = "create" /\ pc' = [pc EXCEPT ![s] = "wait"]
    BY <1>6, StagesOfBackend DEF CreateTable, Goes
  <2>2. Valid(config[s])
    BY <2>1 DEF ConfigChecked
  <2> QED
    BY <1>6, <2>1, <2>2 DEF CreateTable, Racers, Usable, StartupTypeOK
<1>7. ASSUME NEW s \in Servers, StartProceeds(s), table = "none", ~CreateTable(s)
      PROVE  table' = "none" /\ \A r \in Racers : pc'[r] \in {"start", "describe", "create"}
  <2>1. table' = "none"
    BY <1>7 DEF StartProceeds, NewStore, Ping, DescribeTable, waitForTableActive,
                createSession, ensureKeyspaceExists, ensureTableExists, databases
  <2>2. ASSUME NEW r \in Racers PROVE pc'[r] \in {"start", "describe", "create"}
    BY <1>1, <1>2, <1>5, <1>7
       DEF StartProceeds, NewStore, NewRedisStore, NewDynamoDBStore, NewScyllaDBStore, Ping,
           DescribeTable, waitForTableActive, createSession, ensureKeyspaceExists,
           ensureTableExists, Goes, StartupTypeOK
  <2> QED
    BY <2>1, <2>2
<1>8. ASSUME NEW s \in Servers, StartProceeds(s), table # "none",
             NEW r \in Racers, pc[r] \in {"wait", "serving"}
      PROVE  table' # "none" /\ pc'[r] \in {"wait", "serving"}
  <2>1. table' # "none"
    BY <1>8 DEF StartProceeds, NewStore, Ping, DescribeTable, CreateTable, waitForTableActive,
                createSession, ensureKeyspaceExists, ensureTableExists, databases
  <2>2. pc'[r] \in {"wait", "serving"}
    BY <1>1, <1>8
       DEF StartProceeds, NewStore, NewRedisStore, NewDynamoDBStore, NewScyllaDBStore, Ping,
           DescribeTable, CreateTable, waitForTableActive, createSession,
           ensureKeyspaceExists, ensureTableExists, Goes, StartupTypeOK
  <2> QED
    BY <2>1, <2>2
<1>9. CASE \E s \in Servers : StartProceeds(s)
  BY <1>1, <1>5, <1>6, <1>7, <1>8, <1>9
<1>10. CASE TableActivates \/ GetsCalm \/ UNCHANGED startupVars
  BY <1>1, <1>5, <1>10 DEF TableActivates, GetsCalm, startupVars, databases
<1> QED
  BY <1>3, <1>9, <1>10 DEF StartupNext

LEMMA StartupInvariant == StartupSpec => []StartupIInv
<1>1. StartupIInv /\ [StartupNext]_startupVars => StartupIInv'
  BY StartupTypes, ConfigStaysChecked, KeyspaceStaysReady, ServersStayOnTable, RaceStaysDecided
     DEF StartupIInv
<1> QED
  BY StartupStarts, <1>1, PTL DEF StartupSpec

(* Every process that starts is in a stage of its own backend's            *)
(* constructor, and falls back to its own TTL or to Redis' default: the    *)
(* switch of main and the registry exchange no two of them.                *)
THEOREM StartupTypeCorrect == StartupSpec => []StartupTypeOK
<1>1. StartupIInv => StartupTypeOK
  BY DEF StartupIInv
<1> QED
  BY StartupInvariant, <1>1, PTL

(* Whatever servers start, fail and are killed on one database: a server   *)
(* of which no request failed, and that found no table in creation, serves *)
(* on a table that is ready, for any number of servers and names.          *)
THEOREM ServersServeOnTable == StartupSpec => []ServesOnTable
<1>1. StartupIInv => ServesOnTable
  BY DEF StartupIInv
<1> QED
  BY StartupInvariant, <1>1, PTL

(* However many servers race for the creation of the table, and in every   *)
(* order of their requests: if nothing else goes wrong, one of them serves.*)
THEOREM RaceLeavesAServer == StartupSpec => []RaceLeavesOne
<1>1. StartupIInv => RaceLeavesOne
  BY DEF StartupIInv, RaceDecided, RaceLeavesOne, Ended
<1> QED
  BY StartupInvariant, <1>1, PTL

-----------------------------------------------------------------------------
(* ConfigLoader. *)

(* Where main, the goroutine and the operator are, in terms of each other. *)
InStep ==
  /\ mainAt \in {"find", "read", "watch", "serve"} => backend \in {"redis", "dynamodb", "scylladb"}
  /\ mainAt = "read" => chosen \in Files
  /\ mainAt # "serve" => loop = "none" /\ events = <<>> /\ told = <<>> /\ saved = "none"
  /\ loop \in {"handle", "notify"} => event \in ToSet(Candidates)

(* Files that nobody has touched yet are those that detection saw. *)
Untouched ==
  changes = 0 =>
    /\ saving = <<>> /\ events = <<>> /\ loop \notin {"handle", "notify"}
    /\ env.type = "" =>
         /\ mainAt \in {"find", "read", "watch", "serve"} => DetectedFile # "none"
         /\ mainAt = "read" => chosen = ConfigFile
         /\ mainAt = "watch" => current = Loaded(DetectedFile)
         /\ mainAt = "serve" => served = Loaded(DetectedFile)

(* The last reload was of file f as it is now. *)
Reloaded(f) ==
  IF Rejected(file[f]) THEN lastError # "nil" ELSE current = Loaded(f) /\ lastError # "load"

(* The event of the last save is the last in the queue, or it is being     *)
(* handled, or it has been.                                                *)
SaveOnItsWay ==
  saved # "none" /\ ~closed =>
    /\ saving = <<>>
    /\ \/ events # <<>> /\ Last(events) = saved
       \/ events = <<>> /\ loop = "handle" /\ event = saved
       \/ events = <<>> /\ loop \in {"select", "notify"} /\ Reloaded(resolveConfigPath(saved))

WatcherTold == loop # "notify" => told \in {<<>>, <<current>>}

LoaderIInv ==
  LoaderTypeOK /\ InStep /\ TTLInForce /\ Untouched /\ SaveOnItsWay /\ WatcherTold

-----------------------------------------------------------------------------
(* What the loaders' helpers return. *)

LEMMA LeastIndex ==
  ASSUME NEW S \in SUBSET Nat, S # {}
  PROVE  Min(S) \in S /\ \A i \in S : Min(S) <= i
<1> DEFINE Less == {ss \in Nat \X Nat : ss[1] < ss[2]}
<1>1. IsWellFoundedOn(Less, Nat)
  BY NatLessThanWellFounded, Zenon DEF OpToRel
<1> HIDE DEF Less
<1>2. PICK i \in S : \A j \in S : ~(<<j, i>> \in Less)
  BY <1>1, WFMin
<1>3. \A j \in S : i <= j
  <2> SUFFICES ASSUME NEW j \in S, j < i PROVE FALSE
    OBVIOUS
  <2>1. <<j, i>> \in Less
    BY DEF Less
  <2> QED
    BY <1>2, <2>1
<1> QED
  BY <1>3 DEF Min

(* A TTL cut to the width of the field fits it. *)
LEMMA CutFits == ASSUME NEW n \in Int PROVE Cut(n) \in FieldTTL
<1> DEFINE k == 2 * Half
<1>1. k \in Nat \ {0} /\ n + Half \in Int
  BY ConfigAssumption
<1>2. (n + Half) % k \in 0..(k - 1)
  BY <1>1
<1> QED
  BY <1>2, ConfigAssumption DEF Cut, FieldTTL

LEMMA CandidateFiles ==
  ASSUME NEW i \in DOMAIN Candidates
  PROVE  i \in Nat /\ Candidates[i] \in ToSet(Candidates) /\ Candidates[i] \in Files
BY ConfigAssumption DEF ToSet, Files

(* The first candidate that can be used. *)
LEMMA FirstCandidate ==
  ASSUME NEW usable, path = "directory",
         NEW i \in DOMAIN Candidates, Candidates[i] \in usable
  PROVE  \E j \in DOMAIN Candidates :
           /\ FirstOf(usable) = Candidates[j] /\ Candidates[j] \in usable
           /\ \A k \in DOMAIN Candidates : Candidates[k] \in usable => j <= k
<1> DEFINE found == {k \in DOMAIN Candidates : Candidates[k] \in usable}
<1>1. found \in SUBSET Nat /\ found # {}
  BY CandidateFiles
<1>2. Min(found) \in found /\ \A k \in found : Min(found) <= k
  BY <1>1, LeastIndex
<1>3. FirstOf(usable) = Candidates[Min(found)]
  BY <1>1 DEF FirstOf
<1> QED
  BY <1>2, <1>3

LEMMA NoCandidate ==
  ASSUME NEW usable, path = "directory",
         \A i \in DOMAIN Candidates : Candidates[i] \notin usable
  PROVE  FirstOf(usable) = "none"
BY DEF FirstOf

LEMMA FirstOfFile ==
  ASSUME NEW usable, path \in Paths
  PROVE  FirstOf(usable) \in Files \cup {"none"}
<1>1. CASE path = "directory"
  <2>1. CASE \E i \in DOMAIN Candidates : Candidates[i] \in usable
    BY <1>1, <2>1, FirstCandidate, CandidateFiles
  <2>2. CASE ~\E i \in DOMAIN Candidates : Candidates[i] \in usable
    BY <1>1, <2>2, NoCandidate
  <2> QED
    BY <2>1, <2>2
<1>2. CASE path # "directory"
  BY <1>2, ConfigAssumption DEF FirstOf
<1> QED
  BY <1>1, <1>2

(* Loading finds the file that detection has chosen, unless a directory    *)
(* has the name of an earlier candidate.                                   *)
LEMMA SameFile ==
  ASSUME LoaderTypeOK, DetectedFile # "none", file[ConfigFile] # Directory
  PROVE  ConfigFile = DetectedFile
<1> DEFINE files == {f \in DOMAIN file : file[f] \notin {NoFile, Directory}}
           names == {f \in DOMAIN file : file[f] # NoFile}
<1>1. CASE path # "directory"
  BY <1>1 DEF ConfigFile, DetectedFile, FirstOf
<1>2. CASE path = "directory"
  <2>1. DetectedFile = FirstOf(files) /\ ConfigFile = FirstOf(names)
    BY DEF DetectedFile, ConfigFile
  <2>2. PICK i \in DOMAIN Candidates : Candidates[i] \in files
    BY <1>2, <2>1, NoCandidate
  <2>3. PICK d \in DOMAIN Candidates :
          /\ DetectedFile = Candidates[d] /\ Candidates[d] \in files
          /\ \A k \in DOMAIN Candidates : Candidates[k] \in files => d <= k
    BY <1>2, <2>1, <2>2, FirstCandidate
  <2>4. Candidates[d] \in names
    BY <2>3
  <2>5. PICK c \in DOMAIN Candidates :
          /\ ConfigFile = Candidates[c] /\ Candidates[c] \in names
          /\ \A k \in DOMAIN Candidates : Candidates[k] \in names => c <= k
    BY <1>2, <2>1, <2>4, FirstCandidate
  <2>6. Candidates[c] \in files
    BY <2>5
  <2>7. c = d
    BY <2>3, <2>4, <2>5, <2>6, CandidateFiles
  <2> QED
    BY <2>3, <2>5, <2>7
<1> QED
  BY <1>1, <1>2

(* DetectBackendType's file is also found by loadFromFile. *)
LEMMA DetectedIsFound ==
  ASSUME LoaderTypeOK, DetectedFile # "none" PROVE ConfigFile # "none"
<1> DEFINE files == {f \in DOMAIN file : file[f] \notin {NoFile, Directory}}
           names == {f \in DOMAIN file : file[f] # NoFile}
<1>1. CASE path # "directory"
  BY <1>1 DEF ConfigFile, DetectedFile, FirstOf
<1>2. CASE path = "directory"
  <2>1. DetectedFile = FirstOf(files) /\ ConfigFile = FirstOf(names)
    BY DEF DetectedFile, ConfigFile
  <2>2. PICK i \in DOMAIN Candidates : Candidates[i] \in files
    BY <1>2, <2>1, NoCandidate
  <2>3. Candidates[i] \in names
    BY <2>2
  <2>4. \E c \in DOMAIN Candidates : ConfigFile = Candidates[c]
    BY <1>2, <2>1, <2>3, FirstCandidate
  <2> QED
    BY <2>4, CandidateFiles, ConfigAssumption
<1> QED
  BY <1>1, <1>2

LEMMA ZeroFits == 0 \in FieldTTL
<1>1. Half \in Nat \ {0}
  BY ConfigAssumption
<1> QED
  BY <1>1 DEF FieldTTL

LEMMA FileKinds ==
  ASSUME LoaderTypeOK, NEW f \in Files
  PROVE  /\ file[f].kind \in {"none", "empty", "garbled", "directory", "yaml"}
         /\ file[f].type \in Types /\ file[f].ttl \in FieldTTL
         /\ file[f].kind # "directory" => file[f] # Directory
<1>1. file[f] \in Contents \cup {NoFile, Empty, Garbled, Directory}
  BY DEF LoaderTypeOK
<1>2. ASSUME NEW kind, NEW b, b = Holding(kind, "", 0)
      PROVE  b.kind = kind /\ b.type \in Types /\ b.ttl \in FieldTTL
  BY <1>2, ZeroFits DEF Holding, Types
<1>3. CASE file[f] \in Contents
  <2>1. /\ file[f].kind \in {"yaml", "empty", "garbled"} /\ file[f].type \in Types
        /\ file[f].ttl \in FieldTTL
    BY <1>3, ConfigAssumption
  <2>2. Directory.kind = "directory"
    BY DEF Directory, Holding
  <2>3. file[f] # Directory
    BY <2>1, <2>2
  <2>4. file[f].kind \in {"none", "empty", "garbled", "directory", "yaml"}
    BY <2>1
  <2> QED
    BY <2>1, <2>3, <2>4
<1>4. CASE file[f] \in {NoFile, Empty, Garbled, Directory}
  <2>1. PICK kind \in {"none", "empty", "garbled", "directory"} : file[f] = Holding(kind, "", 0)
    BY <1>4 DEF NoFile, Empty, Garbled, Directory
  <2> QED
    BY <2>1, <1>2 DEF Directory, Holding
<1> QED
  BY <1>1, <1>3, <1>4

(* What is loaded fits the field, and keeps to TTLInForce. *)
LEMMA LoadedTypes ==
  ASSUME LoaderTypeOK
  PROVE  Defaults \in LoadedConfigs /\ \A f \in Files : Loaded(f) \in LoadedConfigs
<1>1. \A n \in FieldTTL : applyEnvironmentOverrides(n) \in FieldTTL
  BY CutFits, ConfigAssumption DEF applyEnvironmentOverrides, LoaderTypeOK
<1>2. Defaults \in LoadedConfigs
  BY <1>1, ConfigAssumption DEF Defaults, LoadedConfigs
<1>3. ASSUME NEW f \in Files PROVE Loaded(f) \in LoadedConfigs
  BY <1>1, <1>2, FileKinds DEF Loaded, LoadedConfigs
<1> QED
  BY <1>2, <1>3

TTLHolds(c) ==
  IF env.ttl # <<>> THEN c.ttl = Cut(env.ttl[1]) ELSE backend # "redis" => c.ttl > 0

LEMMA LoadedTTL ==
  ASSUME LoaderTypeOK, backend \in {"redis", "dynamodb", "scylladb"}
  PROVE  /\ TTLHolds(Defaults)
         /\ \A f \in Files : ~Rejected(file[f]) => TTLHolds(Loaded(f))
<1>1. TTLHolds(Defaults)
  BY ConfigAssumption DEF TTLHolds, Defaults, applyEnvironmentOverrides
<1>2. ASSUME NEW f \in Files, ~Rejected(file[f]) PROVE TTLHolds(Loaded(f))
  <2>1. CASE file[f].kind = "empty"
    BY <1>1, <2>1 DEF Loaded
  <2>2. CASE file[f].kind = "yaml"
    <3>1. backend # "redis" => file[f].ttl > 0
      BY <1>2, <2>2, FileKinds DEF Rejected, FieldTTL
    <3>2. Loaded(f).ttl = applyEnvironmentOverrides(file[f].ttl)
      BY <2>2 DEF Loaded
    <3> QED
      BY <3>1, <3>2 DEF TTLHolds, applyEnvironmentOverrides
  <2> QED
    BY <1>2, <2>1, <2>2, FileKinds DEF Rejected
<1> QED
  BY <1>1, <1>2

-----------------------------------------------------------------------------
LEMMA LoaderStarts == LoaderInit => LoaderIInv
<1> SUFFICES ASSUME LoaderInit PROVE LoaderIInv
  OBVIOUS
<1>1. LoaderTypeOK
  <2>1. NoConfig \in LoadedConfigs /\ 0 \in 0..MaxChanges
    BY ZeroFits, ConfigAssumption DEF NoConfig, LoadedConfigs
  <2>2. path \in Paths /\ env \in Environments
    BY DEF LoaderInit
  <2>3. file \in [Files -> Contents \cup {NoFile, Empty, Garbled, Directory}]
    BY DEF LoaderInit
  <2>4. /\ saving = <<>> /\ saved = "none" /\ changes = 0 /\ events = <<>>
        /\ mainAt = "detect" /\ backend = "" /\ chosen = "none" /\ served = NoConfig
        /\ loop = "none" /\ event = "none" /\ current = NoConfig /\ lastError = "nil"
        /\ told = <<>> /\ closed = FALSE
    BY DEF LoaderInit
  <2>5. <<>> \in Seq(ToSet(Candidates))
    OBVIOUS
  <2> QED
    BY <2>1, <2>2, <2>3, <2>4, <2>5 DEF LoaderTypeOK, Types
<1>2. InStep /\ TTLInForce /\ Untouched /\ SaveOnItsWay /\ WatcherTold
  BY DEF LoaderInit, InStep, TTLInForce, Untouched, SaveOnItsWay, WatcherTold
<1> QED
  BY <1>1, <1>2 DEF LoaderIInv

(* The file that a reload reads. *)
LEMMA ResolvedFile ==
  ASSUME LoaderTypeOK, NEW f \in ToSet(Candidates)
  PROVE  resolveConfigPath(f) \in Files
BY ConfigAssumption DEF resolveConfigPath, LoaderTypeOK, Files

LEMMA EventsStayTyped ==
  ASSUME LoaderTypeOK, NEW f, Emit(f) PROVE events' \in Seq(ToSet(Candidates))
BY DEF Emit, LoaderTypeOK

LEMMA LoaderTypes ==
  LoaderTypeOK /\ InStep /\ [LoaderNext]_loaderVars => LoaderTypeOK'
<1> SUFFICES ASSUME LoaderTypeOK, InStep, [LoaderNext]_loaderVars PROVE LoaderTypeOK'
  OBVIOUS
<1> USE DEF flags, operator, process, loader
<1>1. ASSUME NEW f \in Files, NEW c \in Contents, BeginSave(f, c) PROVE LoaderTypeOK'
  <2>1. events' \in Seq(ToSet(Candidates))
    BY <1>1, EventsStayTyped DEF BeginSave, LoaderTypeOK
  <2>2. saving' \in Files \X Contents /\ saved' = "none" /\ changes' \in 0..MaxChanges
    BY <1>1, ConfigAssumption DEF BeginSave, Change, LoaderTypeOK
  <2>3. file' \in [Files -> Contents \cup {NoFile, Empty, Garbled, Directory}]
    BY <1>1 DEF BeginSave, LoaderTypeOK
  <2> QED
    BY <1>1, <2>1, <2>2, <2>3 DEF BeginSave, LoaderTypeOK
<1>2. ASSUME NEW f \in Files, NEW c \in Contents \cup {NoFile}, Replace(f, c)
      PROVE  LoaderTypeOK'
  <2>1. saved' = "none" /\ changes' \in 0..MaxChanges
    BY <1>2, ConfigAssumption DEF Replace, Change, LoaderTypeOK
  <2>2. file' \in [Files -> Contents \cup {NoFile, Empty, Garbled, Directory}]
    BY <1>2 DEF Replace, LoaderTypeOK
  <2> QED
    BY <1>2, <2>1, <2>2 DEF Replace, LoaderTypeOK
<1>3. CASE EndSave
  <2>1. events' \in Seq(ToSet(Candidates))
    BY <1>3, EventsStayTyped DEF EndSave
  <2>2. saving[1] \in Files /\ saving[2] \in Contents
    BY <1>3 DEF EndSave, LoaderTypeOK
  <2>3. file' \in [Files -> Contents \cup {NoFile, Empty, Garbled, Directory}]
    BY <1>3, <2>2 DEF EndSave, LoaderTypeOK
  <2>4. saving' = <<>> /\ saved' \in ToSet(Candidates) \cup {"none"}
    BY <1>3 DEF EndSave
  <2> QED
    BY <1>3, <2>1, <2>3, <2>4 DEF EndSave, LoaderTypeOK
<1>4. CASE DetectBackendType
  <2>1. ASSUME NEW type \in Types, NEW f \in Files \cup {"none"}, Detected(type, f)
        PROVE  /\ backend' \in Types /\ chosen' \in Files \cup {"none"}
               /\ mainAt' \in {"detect", "find", "read", "watch", "serve", "fatal"}
               /\ UNCHANGED <<served, closed, loader>>
    BY <2>1 DEF Detected, normalizeBackendType, Types
  <2>2. env.type \in Types /\ DetectedFile \in Files \cup {"none"}
    BY ConfigAssumption, FirstOfFile DEF LoaderTypeOK, DetectedFile
  <2>3. DetectedFile # "none" => file[DetectedFile].type \in Types
    BY <2>2, FileKinds
  <2>4. /\ backend' \in Types /\ chosen' \in Files \cup {"none"}
        /\ mainAt' \in {"detect", "find", "read", "watch", "serve", "fatal"}
        /\ UNCHANGED <<served, closed, loader>>
    BY <1>4, <2>1, <2>2, <2>3 DEF DetectBackendType, Fatal, LoaderTypeOK
  <2> QED
    BY <1>4, <2>4 DEF DetectBackendType, LoaderTypeOK
<1>5. CASE FindFile
  <2>1. ConfigFile \in Files \cup {"none"}
    BY FirstOfFile DEF LoaderTypeOK, ConfigFile
  <2> QED
    BY <1>5, <2>1, LoadedTypes DEF FindFile, LoaderTypeOK
<1>6. CASE ReadFile
  <2>1. Loaded(chosen) \in LoadedConfigs
    BY <1>6, LoadedTypes DEF ReadFile, InStep
  <2> QED
    BY <1>6, <2>1 DEF ReadFile, Fatal, LoaderTypeOK
<1>7. CASE setupWatcher \/ setupWatcherFails \/ Close
  BY <1>7 DEF setupWatcher, setupWatcherFails, Fatal, Close, LoaderTypeOK
<1>8. CASE TakeEvent
  <2>1. Head(events) \in ToSet(Candidates) /\ Tail(events) \in Seq(ToSet(Candidates))
    BY <1>8 DEF TakeEvent, LoaderTypeOK
  <2> QED
    BY <1>8, <2>1 DEF TakeEvent, LoaderTypeOK, Files
<1>9. CASE handleFileModification
  <2>1. Loaded(resolveConfigPath(event)) \in LoadedConfigs
    BY <1>9, LoadedTypes, ResolvedFile DEF handleFileModification, InStep
  <2> QED
    BY <1>9, <2>1 DEF handleFileModification, LoaderTypeOK
<1>10. CASE notifyWatchers
  BY <1>10 DEF notifyWatchers, LoaderTypeOK
<1>11. CASE LoopEnds \/ WatcherError
  BY <1>11 DEF LoopEnds, WatcherError, LoaderTypeOK
<1>12. CASE UNCHANGED loaderVars
  BY <1>12 DEF loaderVars, LoaderTypeOK
<1> QED
  BY <1>1, <1>2, <1>3, <1>4, <1>5, <1>6, <1>7, <1>8, <1>9, <1>10, <1>11, <1>12
     DEF LoaderNext, Operator, MainLoads, Loop

LEMMA StaysInStep ==
  LoaderTypeOK /\ InStep /\ [LoaderNext]_loaderVars => InStep'
<1> SUFFICES ASSUME LoaderTypeOK, InStep, [LoaderNext]_loaderVars PROVE InStep'
  OBVIOUS
<1> USE DEF flags, operator, process, loader, InStep
<1>1. CASE Operator
  <2>1. ASSUME NEW f, NEW c, BeginSave(f, c) \/ Replace(f, c)
        PROVE  saved' = "none" /\ (mainAt # "serve" => events' = events)
               /\ UNCHANGED <<flags, process, loader>>
    BY <2>1 DEF BeginSave, Replace, Change, Emit, Watching
  <2>2. CASE EndSave
    BY <2>2 DEF EndSave, Emit, Watching
  <2> QED
    BY <1>1, <2>1, <2>2 DEF Operator
<1>2. CASE DetectBackendType
  BY <1>2 DEF DetectBackendType, Detected, Fatal
<1>3. CASE FindFile
  <2>1. ConfigFile \in Files \cup {"none"}
    BY FirstOfFile DEF LoaderTypeOK, ConfigFile
  <2> QED
    BY <1>3, <2>1 DEF FindFile
<1>4. CASE ReadFile \/ setupWatcher \/ setupWatcherFails \/ Close
  BY <1>4 DEF ReadFile, setupWatcher, setupWatcherFails, Fatal, Close
<1>5. CASE TakeEvent
  <2>1. Head(events) \in ToSet(Candidates)
    BY <1>5 DEF TakeEvent, LoaderTypeOK
  <2> QED
    BY <1>5, <2>1 DEF TakeEvent
<1>6. CASE handleFileModification \/ notifyWatchers \/ LoopEnds \/ WatcherError
  BY <1>6 DEF handleFileModification, notifyWatchers, LoopEnds, WatcherError
<1>7. CASE UNCHANGED loaderVars
  BY <1>7 DEF loaderVars
<1> QED
  BY <1>1, <1>2, <1>3, <1>4, <1>5, <1>6, <1>7 DEF LoaderNext, MainLoads, Loop

LEMMA TTLStaysInForce ==
  LoaderTypeOK /\ InStep /\ TTLInForce /\ [LoaderNext]_loaderVars => TTLInForce'
<1> SUFFICES ASSUME LoaderTypeOK, InStep, TTLInForce, [LoaderNext]_loaderVars,
                    mainAt' \in {"watch", "serve"}
             PROVE  TTLHolds(current)'
  BY DEF TTLInForce, TTLHolds
<1> USE DEF flags, operator, process, loader, TTLHolds
<1>1. mainAt \in {"watch", "serve"} => TTLHolds(current)
  BY DEF TTLInForce
<1>2. CASE Operator \/ Close \/ WatcherError \/ TakeEvent \/ notifyWatchers \/ LoopEnds
  BY <1>1, <1>2 DEF Operator, BeginSave, Replace, EndSave, Close, WatcherError, TakeEvent,
                    notifyWatchers, LoopEnds
<1>3. CASE DetectBackendType
  BY <1>3 DEF DetectBackendType, Detected, Fatal
<1>4. CASE FindFile
  BY <1>4, LoadedTTL DEF FindFile, InStep
<1>5. CASE ReadFile
  BY <1>5, LoadedTTL DEF ReadFile, Fatal, InStep
<1>6. CASE setupWatcher \/ setupWatcherFails
  BY <1>1, <1>6 DEF setupWatcher, setupWatcherFails, Fatal
<1>7. CASE handleFileModification
  <2>1. mainAt = "serve" /\ backend \in {"redis", "dynamodb", "scylladb"}
    BY <1>7 DEF handleFileModification, InStep
  <2>2. resolveConfigPath(event) \in Files
    BY <1>7, ResolvedFile DEF handleFileModification, InStep
  <2> QED
    BY <1>1, <1>7, <2>1, <2>2, LoadedTTL DEF handleFileModification
<1>8. CASE UNCHANGED loaderVars
  BY <1>1, <1>8 DEF loaderVars
<1> QED
  BY <1>2, <1>3, <1>4, <1>5, <1>6, <1>7, <1>8 DEF LoaderNext, MainLoads, Loop

(* Once a save or another change has begun, it has been counted. *)
LEMMA StaysUntouched ==
  LoaderTypeOK /\ InStep /\ Untouched /\ [LoaderNext]_loaderVars => Untouched'
<1> SUFFICES ASSUME LoaderTypeOK, InStep, Untouched, [LoaderNext]_loaderVars, changes' = 0
             PROVE  /\ saving' = <<>> /\ events' = <<>> /\ loop' \notin {"handle", "notify"}
                    /\ env'.type = "" =>
                         /\ mainAt' \in {"find", "read", "watch", "serve"} => DetectedFile' # "none"
                         /\ mainAt' = "read" => chosen' = ConfigFile'
                         /\ mainAt' = "watch" => current' = Loaded(DetectedFile)'
                         /\ mainAt' = "serve" => served' = Loaded(DetectedFile)'
  BY DEF Untouched
<1>1. ASSUME NEW f, NEW c, BeginSave(f, c) \/ Replace(f, c) PROVE FALSE
  BY <1>1 DEF BeginSave, Replace, Change, LoaderTypeOK
<1>2. changes = 0 /\ ~EndSave
  BY <1>1 DEF LoaderNext, Operator, MainLoads, DetectBackendType, FindFile, ReadFile,
              setupWatcher, setupWatcherFails, Close, Loop, TakeEvent, handleFileModification,
              notifyWatchers, LoopEnds, WatcherError, loaderVars, operator, EndSave, Untouched
<1>3. saving = <<>> /\ events = <<>> /\ loop \notin {"handle", "notify"}
  BY <1>2 DEF Untouched
<1>4. ~TakeEvent /\ ~handleFileModification /\ ~notifyWatchers
  BY <1>3 DEF TakeEvent, handleFileModification, notifyWatchers
<1>5. MainLoads \/ Close \/ LoopEnds \/ WatcherError \/ UNCHANGED loaderVars
  BY <1>1, <1>2, <1>4 DEF LoaderNext, Operator, Loop
<1>6. UNCHANGED <<path, env, file, saving, events>>
  BY <1>5 DEF MainLoads, DetectBackendType, FindFile, ReadFile, setupWatcher,
              setupWatcherFails, Close, LoopEnds, WatcherError, loaderVars, flags, operator
<1>7. loop' \in {loop, "select", "ended"}
  BY <1>5 DEF MainLoads, DetectBackendType, Detected, FindFile, ReadFile, setupWatcher,
              setupWatcherFails, Fatal, Close, LoopEnds, WatcherError, loaderVars, loader
<1>8. DetectedFile' = DetectedFile /\ ConfigFile' = ConfigFile
  BY <1>6 DEF DetectedFile, ConfigFile, FirstOf
<1>9. Loaded(DetectedFile)' = Loaded(DetectedFile)
  BY <1>6, <1>8 DEF Loaded, Defaults, applyEnvironmentOverrides
<1>10. ASSUME env.type = ""
       PROVE  /\ mainAt' \in {"find", "read", "watch", "serve"} => DetectedFile # "none"
              /\ mainAt' = "read" => chosen' = ConfigFile
              /\ mainAt' = "watch" => current' = Loaded(DetectedFile)
              /\ mainAt' = "serve" => served' = Loaded(DetectedFile)
  <2>1. /\ mainAt \in {"find", "read", "watch", "serve"} => DetectedFile # "none"
        /\ mainAt = "read" => chosen = ConfigFile
        /\ mainAt = "watch" => current = Loaded(DetectedFile)
        /\ mainAt = "serve" => served = Loaded(DetectedFile)
    BY <1>2, <1>10 DEF Untouched
  <2>2. CASE DetectBackendType
    BY <1>10, <2>2 DEF DetectBackendType, Detected, Fatal
  <2>3. CASE FindFile
    <3>1. ConfigFile # "none"
      BY <2>1, <2>3, DetectedIsFound DEF FindFile
    <3> QED
      BY <2>1, <2>3, <3>1 DEF FindFile
  <2>4. CASE ReadFile
    <3>1. chosen = ConfigFile /\ DetectedFile # "none"
      BY <2>1, <2>4 DEF ReadFile
    <3>2. CASE Rejected(file[chosen])
      BY <2>4, <3>2 DEF ReadFile, Fatal
    <3>3. CASE ~Rejected(file[chosen])
      <4>1. file[ConfigFile] # Directory
        <5>1. file[chosen].kind # "directory"
          BY <3>3 DEF Rejected
        <5>2. Directory.kind = "directory"
          BY DEF Directory, Holding
        <5> QED
          BY <3>1, <5>1, <5>2
      <4>2. chosen = DetectedFile
        BY <3>1, <4>1, SameFile
      <4> QED
        BY <2>4, <3>1, <3>3, <4>2 DEF ReadFile
    <3> QED
      BY <3>2, <3>3
  <2>5. CASE setupWatcher \/ setupWatcherFails
    BY <2>1, <2>5 DEF setupWatcher, setupWatcherFails, Fatal
  <2>6. CASE Close \/ LoopEnds \/ WatcherError \/ UNCHANGED loaderVars
    <3>1. UNCHANGED <<mainAt, chosen, current, served>>
      BY <2>6 DEF Close, LoopEnds, WatcherError, loaderVars, process, loader
    <3> QED
      BY <2>1, <3>1
  <2> QED
    BY <1>5, <2>2, <2>3, <2>4, <2>5, <2>6 DEF MainLoads
<1> QED
  BY <1>3, <1>6, <1>7, <1>8, <1>9, <1>10

LEMMA NoneLeft == ASSUME NEW S, NEW q \in Seq(S) PROVE q = <<>> <=> Len(q) = 0
<1>1. q = <<>> => Len(q) = 0
  OBVIOUS
<1>2. q # <<>> => Len(q) # 0
  BY EmptySeq
<1> QED
  BY <1>1, <1>2

(* The last event of a queue stays the last until it is taken. *)
LEMMA TailKeepsLast ==
  ASSUME NEW S, NEW q \in Seq(S), q # <<>>
  PROVE  IF Len(q) = 1 THEN Tail(q) = <<>> /\ Head(q) = q[Len(q)]
         ELSE Tail(q) # <<>> /\ Tail(q)[Len(Tail(q))] = q[Len(q)]
<1>1. Len(q) \in Nat /\ Len(q) # 0
  BY NoneLeft
<1>2. Tail(q) \in Seq(S) /\ Len(Tail(q)) = Len(q) - 1
  BY <1>1
<1>3. Len(q) # 1 => Len(Tail(q)) \in 1..(Len(q) - 1)
  BY <1>1, <1>2
<1>4. \A i \in 1..(Len(q) - 1) : Tail(q)[i] = q[i + 1]
  OBVIOUS
<1>5. Len(q) # 1 => Tail(q)[Len(Tail(q))] = q[Len(q)]
  BY <1>1, <1>2, <1>3, <1>4
<1>6. Tail(q) = <<>> <=> Len(Tail(q)) = 0
  BY <1>2, NoneLeft
<1>7. Len(q) # 1 => Len(Tail(q)) # 0
  BY <1>1, <1>2
<1>8. Len(q) = 1 => Len(Tail(q)) = 0
  BY <1>2
<1>9. Head(q) = q[1]
  OBVIOUS
<1> QED
  BY <1>5, <1>6, <1>7, <1>8, <1>9

(* Whatever file was saved, its event comes last, and the reload that it   *)
(* leads to reads what was saved.                                          *)
LEMMA SaveStaysOnItsWay ==
  LoaderTypeOK /\ InStep /\ SaveOnItsWay /\ [LoaderNext]_loaderVars => SaveOnItsWay'
<1> SUFFICES ASSUME LoaderTypeOK, InStep, SaveOnItsWay, [LoaderNext]_loaderVars,
                    saved' # "none", ~closed'
             PROVE  /\ saving' = <<>>
                    /\ \/ events' # <<>> /\ Last(events)' = saved'
                       \/ events' = <<>> /\ loop' = "handle" /\ event' = saved'
                       \/ /\ events' = <<>> /\ loop' \in {"select", "notify"}
                          /\ Reloaded(resolveConfigPath(saved))'
  BY DEF SaveOnItsWay
<1>1. ASSUME NEW f, NEW c, BeginSave(f, c) \/ Replace(f, c) PROVE FALSE
  BY <1>1 DEF BeginSave, Replace, Change
<1>2. CASE EndSave
  <2>1. Watching /\ saved' = saving[1] /\ saving[1] \in ToSet(Candidates) /\ saving' = <<>>
    BY <1>2 DEF EndSave
  <2>2. events' # <<>> /\ events'[Len(events')] = saving[1]
    <3>1. CASE events = <<>> \/ Last(events) # saving[1]
      <4>1. events' = Append(events, saving[1])
        BY <1>2, <2>1, <3>1 DEF EndSave, Emit
      <4> QED
        BY <4>1, <2>1 DEF LoaderTypeOK
    <3>2. CASE events # <<>> /\ Last(events) = saving[1]
      BY <1>2, <2>1, <3>2 DEF EndSave, Emit, Last
    <3> QED
      BY <3>1, <3>2
  <2> QED
    BY <2>1, <2>2 DEF Last
<1>3. CASE MainLoads
  <2>1. mainAt # "serve" /\ saved' = saved
    BY <1>3 DEF MainLoads, DetectBackendType, FindFile, ReadFile, setupWatcher,
                setupWatcherFails, operator
  <2> QED
    BY <2>1 DEF InStep
<1>4. CASE Close
  BY <1>4 DEF Close
<1>5. CASE LoopEnds
  BY <1>5 DEF LoopEnds, process
<1> DEFINE f == resolveConfigPath(saved)
<1>6. CASE TakeEvent \/ handleFileModification \/ notifyWatchers \/ WatcherError
             \/ UNCHANGED loaderVars
  <2>1. UNCHANGED <<path, env, file, saving, saved, backend, closed>>
    BY <1>6 DEF TakeEvent, handleFileModification, notifyWatchers, WatcherError, loaderVars,
                flags, operator, process
  <2>2. resolveConfigPath(saved)' = f /\ (Rejected(file[f])' <=> Rejected(file[f]))
        /\ Loaded(f)' = Loaded(f)
    BY <2>1 DEF resolveConfigPath, Rejected, Loaded, Defaults, applyEnvironmentOverrides
  <2>3. /\ saving = <<>>
        /\ \/ events # <<>> /\ Last(events) = saved
           \/ events = <<>> /\ loop = "handle" /\ event = saved
           \/ events = <<>> /\ loop \in {"select", "notify"} /\ Reloaded(f)
    BY <2>1 DEF SaveOnItsWay
  <2>4. CASE TakeEvent
    <3>1. events # <<>> /\ Last(events) = saved /\ events' = Tail(events)
          /\ event' = Head(events) /\ loop' = "handle"
      BY <2>3, <2>4 DEF TakeEvent
    <3>2. IF Len(events) = 1 THEN events' = <<>> /\ event' = saved
          ELSE events' # <<>> /\ events'[Len(events')] = saved
      BY <3>1, TailKeepsLast DEF Last, LoaderTypeOK
    <3> QED
      BY <2>1, <2>3, <3>1, <3>2 DEF Last
  <2>5. CASE handleFileModification
    <3>1. CASE events # <<>> /\ Last(events) = saved
      BY <2>1, <2>3, <2>5, <3>1 DEF handleFileModification, Last
    <3>2. CASE events = <<>> /\ loop = "handle" /\ event = saved
      <4>1. events' = <<>> /\ loop' \in {"select", "notify"}
            /\ IF Rejected(file[f]) THEN lastError' = "load"
               ELSE current' = Loaded(f) /\ lastError' = "nil"
        BY <2>5, <3>2 DEF handleFileModification
      <4> QED
        BY <2>1, <2>2, <2>3, <4>1 DEF Reloaded
    <3> QED
      BY <2>3, <2>5, <3>1, <3>2 DEF handleFileModification
  <2>6. CASE notifyWatchers \/ WatcherError \/ UNCHANGED loaderVars
    <3>1. /\ events' = events /\ event' = event /\ current' = current
          /\ lastError' \in {lastError, "watch"}
          /\ loop' = loop \/ (loop = "notify" /\ loop' = "select")
      BY <2>6 DEF notifyWatchers, WatcherError, loaderVars, loader
    <3>2. Reloaded(f) => Reloaded(resolveConfigPath(saved))'
      BY <2>1, <2>2, <3>1 DEF Reloaded
    <3> QED
      BY <2>1, <2>3, <3>1, <3>2 DEF Last
  <2> QED
    BY <1>6, <2>4, <2>5, <2>6
<1> QED
  BY <1>1, <1>2, <1>3, <1>4, <1>5, <1>6 DEF LoaderNext, Operator, Loop

LEMMA WatcherStaysTold ==
  InStep /\ WatcherTold /\ [LoaderNext]_loaderVars => WatcherTold'
<1> SUFFICES ASSUME InStep, WatcherTold, [LoaderNext]_loaderVars PROVE WatcherTold'
  OBVIOUS
<1> USE DEF WatcherTold
<1>1. CASE Operator \/ Close \/ TakeEvent \/ LoopEnds \/ WatcherError \/ UNCHANGED loaderVars
  BY <1>1 DEF Operator, BeginSave, Replace, EndSave, Close, TakeEvent, LoopEnds, WatcherError,
              loaderVars, loader
<1>2. CASE MainLoads
  <2>1. mainAt # "serve" /\ told' = told
    BY <1>2 DEF MainLoads, DetectBackendType, Detected, FindFile, ReadFile, setupWatcher,
                setupWatcherFails, Fatal, loader
  <2> QED
    BY <2>1 DEF InStep
<1>3. CASE handleFileModification \/ notifyWatchers
  BY <1>3 DEF handleFileModification, notifyWatchers
<1> QED
  BY <1>1, <1>2, <1>3 DEF LoaderNext, Loop

LEMMA LoaderInvariant == LoaderSpec => []LoaderIInv
<1>1. LoaderIInv /\ [LoaderNext]_loaderVars => LoaderIInv'
  BY LoaderTypes, StaysInStep, TTLStaysInForce, StaysUntouched, SaveStaysOnItsWay,
     WatcherStaysTold DEF LoaderIInv
<1> QED
  BY LoaderStarts, <1>1, PTL DEF LoaderSpec

(* Every TTL that is loaded fits the field, whatever the environment holds,*)
(* and only files that may be read are chosen.                             *)
THEOREM LoaderTypeCorrect == LoaderSpec => []LoaderTypeOK
<1>1. LoaderIInv => LoaderTypeOK
  BY DEF LoaderIInv
<1> QED
  BY LoaderInvariant, <1>1, PTL

(* On every path to a configuration, a TTL in the environment is in force, *)
(* and else no TTL that validation refuses.                                *)
THEOREM TTLsInForce == LoaderSpec => []TTLInForce
<1>1. LoaderIInv => TTLInForce
  BY DEF LoaderIInv
<1> QED
  BY LoaderInvariant, <1>1, PTL

(* Detection and loading look for the file by different rules, at          *)
(* different times; untouched files make them agree, or main fails.        *)
THEOREM DetectionAndLoadingAgree == LoaderSpec => []DetectedFileServed
<1>1. LoaderIInv => DetectedFileServed
  BY DEF LoaderIInv, Untouched, DetectedFileServed
<1> QED
  BY LoaderInvariant, <1>1, PTL

(* However many saves overlap with reloads, and however many of their      *)
(* events are merged: the last save decides what is in force.              *)
THEOREM LastSaveInForce == LoaderSpec => []LastSaveWins
<1>1. LoaderIInv => LastSaveWins
  BY DEF LoaderIInv, SaveOnItsWay, WatcherTold, LastSaveWins, Settled, Reloaded
<1> QED
  BY LoaderInvariant, <1>1, PTL
=============================================================================

------------------------------- MODULE Server -------------------------------
(***************************************************************************)
(* The life of one server process: internal/server/server.go and the main  *)
(* function of cmd/quorum-quest-service/main.go.                           *)
(*                                                                         *)
(* Three kinds of goroutines share the Server's fields server and store    *)
(* without a lock: the one that runs Start, main, which runs Stop when a   *)
(* signal arrives, and the RPC handlers.  A read that misses a write of    *)
(* another goroutine is the same as one that came earlier, so each access  *)
(* is a step.                                                              *)
(***************************************************************************)
EXTENDS Naturals

CONSTANT Requests     \* slots for the RPCs in progress

VARIABLES
  starter,    \* where the goroutine of Start is
  main,       \* where main is
  server,     \* the field server: "nil" or "set"
  grpc,       \* the gRPC server behind it
  store,      \* the field store: "nil", or an "open" or "closed" store
  handler,    \* where each RPC handler is
  exit        \* how the process ended, "running" while it has not

vars == <<starter, main, server, grpc, store, handler, exit>>

\* main returns: its deferred cleanup, Close of the loader and cancel.
Deferred == {"cleanup", "closeLoader", "cancel"}

(* Past initStore there is a store until Stop is done with it. *)
TypeOK ==
  /\ starter \in {"none", "listen", "initStore", "newServer", "register",
                  "serve", "serving", "returned"}
  /\ main \in {"boot", "signalWait", "stop", "draining", "closeStore", "clear"} \cup Deferred
  /\ server \in {"nil", "set"}
  /\ grpc \in {"none", "new", "serving", "draining", "stopped"}
  /\ store \in {"nil", "open", "closed"}
  /\ handler \in [Requests -> {"none", "store", "metrics"}]
  /\ exit \in {"running", "clean", "fatal", "panic"}
  /\ store = "nil" => starter \in {"none", "listen", "initStore"} \/ main \in Deferred
  /\ store = "closed" => main = "clear"

Init ==
  /\ starter = "none"
  /\ main = "boot"
  /\ server = "nil"
  /\ grpc = "none"
  /\ store = "nil"
  /\ handler = [r \in Requests |-> "none"]
  /\ exit = "running"

-----------------------------------------------------------------------------
Running == exit = "running"

Starting(from, to) ==
  Running /\ starter = from /\ starter' = to /\ UNCHANGED exit

InMain(from, to) ==
  Running /\ main = from /\ main' = to /\ UNCHANGED exit

Exit(how) == exit' = how

(* Configuration, observability and NewServer; then the goroutine of Start *)
(* is launched.                                                            *)
Boot ==
  /\ InMain("boot", "signalWait")
  /\ starter' = "listen"
  /\ UNCHANGED <<server, grpc, store, handler>>

(* Every error before that is fatal. *)
BootFails ==
  /\ Running /\ main = "boot"
  /\ Exit("fatal")
  /\ UNCHANGED <<starter, main, server, grpc, store, handler>>

-----------------------------------------------------------------------------
(* Start and serve.  Whatever Start returns as an error is fatal. *)

Listen ==
  /\ Starting("listen", "initStore")
  /\ UNCHANGED <<main, server, grpc, store, handler>>

(* Mutant: the error of the store initializer is not looked at, and the    *)
(* field is left nil.                                                      *)
initStoreUnchecked ==
  /\ Starting("initStore", "newServer")
  /\ store' \in {"open", "nil"}
  /\ UNCHANGED <<main, server, grpc, handler>>

initStore ==
  /\ Starting("initStore", "newServer")
  /\ store' = "open"
  /\ UNCHANGED <<main, server, grpc, handler>>

NewGrpcServer ==
  /\ Starting("newServer", "register")
  /\ server' = "set"
  /\ grpc' = "new"
  /\ UNCHANGED <<main, store, handler>>

Register ==
  /\ server = "set"
  /\ Starting("register", "serve")
  /\ UNCHANGED <<main, server, grpc, store, handler>>

Serve ==
  /\ server = "set" /\ grpc = "new"
  /\ Starting("serve", "serving")
  /\ grpc' = "serving"
  /\ UNCHANGED <<main, server, store, handler>>

(* net.Listen, the store or the accept loop may fail; a gRPC server that   *)
(* was stopped before Serve refuses to serve, with an error.               *)
StartFails ==
  /\ Running
  /\ \/ starter \in {"listen", "initStore"}
     \/ starter = "serve" /\ server = "set" /\ grpc \in {"draining", "stopped"}
     \/ starter = "serving" /\ grpc = "serving"
  /\ Exit("fatal")
  /\ UNCHANGED <<starter, main, server, grpc, store, handler>>

(* The field was cleared by Stop: a nil *grpc.Server. *)
StartPanics ==
  /\ Running
  /\ starter \in {"register", "serve"} /\ server = "nil"
  /\ Exit("panic")
  /\ UNCHANGED <<starter, main, server, grpc, store, handler>>

(* After GracefulStop, Serve returns nil. *)
ServeReturns ==
  /\ grpc = "stopped"
  /\ Starting("serving", "returned")
  /\ UNCHANGED <<main, server, grpc, store, handler>>

-----------------------------------------------------------------------------
(* RPCs.  TryAcquireLock, ReleaseLock and KeepAlive all call the store and *)
(* record a latency, whose failure is only logged.                         *)

Accept(r) ==
  /\ Running /\ grpc = "serving"
  /\ handler[r] = "none"
  /\ handler' = [handler EXCEPT ![r] = "store"]
  /\ UNCHANGED <<starter, main, server, grpc, store, exit>>

CallStore(r) ==
  /\ Running /\ handler[r] = "store"
  /\ handler' = [handler EXCEPT ![r] = "metrics"]
  /\ UNCHANGED <<starter, main, server, grpc, store, exit>>

Reply(r) ==
  /\ Running /\ handler[r] = "metrics"
  /\ handler' = [handler EXCEPT ![r] = "none"]
  /\ UNCHANGED <<starter, main, server, grpc, store, exit>>

-----------------------------------------------------------------------------
(* The signal, Stop, and the end of main. *)

Signal ==
  /\ InMain("signalWait", "stop")
  /\ UNCHANGED <<starter, server, grpc, store, handler>>

(* Mutant: Stop waits for the gRPC server to exist. *)
StopAwaitsServer ==
  /\ server = "set"
  /\ InMain("stop", "draining")
  /\ grpc' = "draining"
  /\ UNCHANGED <<starter, server, store, handler>>

Stop ==
  /\ IF server = "set"
       THEN InMain("stop", "draining") /\ grpc' = "draining"
       ELSE InMain("stop", "cleanup") /\ UNCHANGED grpc
  /\ UNCHANGED <<starter, server, store, handler>>

(* Mutant: Stop in place of GracefulStop, which does not wait. *)
StopAtOnce ==
  /\ InMain("draining", "closeStore")
  /\ grpc' = "stopped"
  /\ UNCHANGED <<starter, server, store, handler>>

(* GracefulStop accepts nothing more and waits for the handlers. *)
GracefulStop ==
  /\ \A r \in Requests : handler[r] = "none"
  /\ InMain("draining", "closeStore")
  /\ grpc' = "stopped"
  /\ UNCHANGED <<starter, server, store, handler>>

StopClosesStore ==
  /\ InMain("closeStore", "clear")
  /\ store' = IF store = "nil" THEN "nil" ELSE "closed"
  /\ UNCHANGED <<starter, server, grpc, handler>>

StopClears ==
  /\ InMain("clear", "cleanup")
  /\ server' = "nil"
  /\ store' = "nil"
  /\ UNCHANGED <<starter, grpc, handler>>

(* The last export of traces and metrics, which ends with its timeout if   *)
(* the collector does not answer; then the loader's Close, which waits for *)
(* nothing.  Start goes on beside both.                                     *)
Cleanup ==
  /\ InMain("cleanup", "closeLoader")
  /\ UNCHANGED <<starter, server, grpc, store, handler>>

CloseLoader ==
  /\ InMain("closeLoader", "cancel")
  /\ UNCHANGED <<starter, server, grpc, store, handler>>

(* cancel ends the context Start was called with; then the process ends. *)
MainReturns ==
  /\ Running /\ main = "cancel"
  /\ Exit("clean")
  /\ UNCHANGED <<starter, main, server, grpc, store, handler>>

-----------------------------------------------------------------------------
Start ==
  \/ Listen \/ initStore \/ NewGrpcServer \/ Register \/ Serve
  \/ StartFails \/ StartPanics \/ ServeReturns

Handle(r) == CallStore(r) \/ Reply(r)

Shutdown ==
  \/ Stop \/ GracefulStop \/ StopClosesStore \/ StopClears
  \/ Cleanup \/ CloseLoader \/ MainReturns

Next ==
  \/ Boot \/ BootFails \/ Start \/ Signal \/ Shutdown
  \/ \E r \in Requests : Accept(r) \/ Handle(r)

Spec == Init /\ [][Next]_vars

(* main runs, and the export it waits for times out; every handler ends,   *)
(* for its context ends with the client's connection, which                *)
(* MaxConnectionAge and its grace limit to 40 seconds.                     *)
FairSpec ==
  Spec /\ WF_vars(Shutdown) /\ \A r \in Requests : WF_vars(Handle(r))

-----------------------------------------------------------------------------
(* Properties. *)

(* No handler calls a store that is closed, cleared or not yet there,      *)
(* although start-up, shutdown and handlers share the field without a lock.*)
HandlersHaveStore ==
  \A r \in Requests : handler[r] = "store" => store = "open"

(* Once a signal arrived the process ends, whatever Start and the handlers *)
(* are doing.                                                               *)
SignalEnds == main = "stop" ~> exit # "running"

(* "Set up signal handling for graceful shutdown": a signal does not make  *)
(* a process fail whose start-up meets no error of its own.                 *)
GracefulShutdown ==
  [][main # "boot" /\ starter \notin {"listen", "initStore", "serving"}
       => exit' \in {"running", "clean"}]_vars
=============================================================================

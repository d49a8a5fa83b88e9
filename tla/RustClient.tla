----------------------------- MODULE RustClient -----------------------------
(***************************************************************************)
(* One QuorumQuestClient of client/rust/quorum-quest-client/src/lib.rs:    *)
(* the application and the keep-alive tasks it starts.                     *)
(*                                                                         *)
(* The methods take &mut self, so the application makes one call at a      *)
(* time; the tasks run beside it and share ClientState with it.  The mutex *)
(* is never held across an await, so a critical section is one step.       *)
(* Every callback is a task of its own that runs when the scheduler likes. *)
(* The server may answer anything, or an RPC may fail.                     *)
(***************************************************************************)
EXTENDS Integers

CONSTANTS
  Tasks,        \* identities for keep-alive tasks
  NoTask,       \* no handle and no channel kept
  MaxPending,   \* bound: try_acquire_lock is called only while fewer
                \* callbacks are pending
  MaxSilent     \* bound: release_lock is called only while fewer losses
                \* have gone unannounced

ASSUME ClientAssumption ==
  NoTask \notin Tasks /\ MaxPending \in Nat /\ MaxSilent \in Nat

VARIABLES
  isLeader,
  leased,       \* remaining_lease is Some
  running,      \* keep_alive_state is Running
  task,         \* the task of keep_alive_tx and keep_alive_handle
  app,          \* the call the application awaits
  tc,           \* the control state of each task
  electing,     \* spawned calls of on_leader_elected(true) yet to run
  losing,       \* spawned calls of on_leader_lost yet to run
  told,         \* history: elections less losses the application was told of
  silent        \* history: losses that are never announced

vars == <<isLeader, leased, running, task, app, tc, electing, losing, told, silent>>

leadership == <<isLeader, leased>>
keepAlive == <<running, task, tc>>
history == <<told, silent>>

\* "releasingLead": release_lock of a leader, waiting for the server.
Calls == {"idle", "acquiring", "releasing", "releasingLead", "stopping"}

\* "none": not spawned, or ended; "spawned": has not run yet; "selecting": in
\* select!; "calling": waits for the answer to keep_alive.
TaskStates == {"none", "spawned", "selecting", "calling"}

(* A leader has a remaining lease: calls and tasks change the two together. *)
TypeOK ==
  /\ isLeader \in BOOLEAN
  /\ leased \in BOOLEAN
  /\ running \in BOOLEAN
  /\ task \in Tasks \cup {NoTask}
  /\ app \in Calls
  /\ tc \in [Tasks -> TaskStates]
  /\ electing \in Nat
  /\ losing \in Nat
  /\ told \in Int
  /\ silent \in Nat
  /\ isLeader => leased

Init ==
  /\ isLeader = FALSE
  /\ leased = FALSE
  /\ running = FALSE
  /\ task = NoTask
  /\ app = "idle"
  /\ tc = [t \in Tasks |-> "none"]
  /\ electing = 0
  /\ losing = 0
  /\ told = 0
  /\ silent = 0

Call(from, to) == app = from /\ app' = to

Step(t, from, to) == tc[t] = from /\ tc' = [tc EXCEPT ![t] = to]

Lead == IF isLeader THEN 1 ELSE 0

-----------------------------------------------------------------------------
(* try_acquire_lock *)

TryAcquireLock ==
  /\ Call("idle", "acquiring")
  /\ electing + losing < MaxPending
  /\ UNCHANGED <<leadership, keepAlive, electing, losing, history>>

(* Mutant: every answer is announced, changed or not. *)
AcquireAnswerRepeats(answer) ==
  /\ Call("acquiring", "idle")
  /\ isLeader' = answer
  /\ leased' = answer
  /\ electing' = electing + (IF answer THEN 1 ELSE 0)
  /\ losing' = losing + (IF answer THEN 0 ELSE 1)
  /\ UNCHANGED <<keepAlive, history>>

(* The answer becomes the state; a change is announced.  The third branch, *)
(* on_leader_elected(false), needs was_leader to differ from the answer    *)
(* and both to be false: it is never taken.                                *)
AcquireAnswer(answer) ==
  /\ Call("acquiring", "idle")
  /\ isLeader' = answer
  /\ leased' = answer
  /\ electing' = electing + (IF answer /\ ~isLeader THEN 1 ELSE 0)
  /\ losing' = losing + (IF isLeader /\ ~answer THEN 1 ELSE 0)
  /\ UNCHANGED <<keepAlive, history>>

AcquireError ==
  /\ Call("acquiring", "idle")
  /\ UNCHANGED <<leadership, keepAlive, electing, losing, history>>

-----------------------------------------------------------------------------
(* release_lock: the state is cleared first, then the RPC is sent, and the *)
(* loss is announced only if the RPC succeeds.                             *)

ReleaseLock ==
  /\ Call("idle", IF isLeader THEN "releasingLead" ELSE "releasing")
  /\ silent < MaxSilent
  /\ isLeader' = FALSE
  /\ leased' = FALSE
  /\ UNCHANGED <<keepAlive, electing, losing, history>>

ReleaseDone ==
  /\ \/ Call("releasing", "idle") /\ UNCHANGED losing
     \/ Call("releasingLead", "idle") /\ losing' = losing + 1
  /\ UNCHANGED <<leadership, keepAlive, electing, history>>

ReleaseError ==
  /\ \/ Call("releasing", "idle") /\ UNCHANGED silent
     \/ Call("releasingLead", "idle") /\ silent' = silent + 1
  /\ UNCHANGED <<leadership, keepAlive, electing, losing, told>>

-----------------------------------------------------------------------------
(* start_keep_alive and stop_keep_alive *)

(* keep_alive_state says Running only from the new task's first step on.   *)
(* A task whose handle is replaced runs on until it finds its channel      *)
(* closed.                                                                 *)
StartKeepAlive(t) ==
  /\ app = "idle"
  /\ ~running
  /\ Step(t, "none", "spawned")
  /\ task' = t
  /\ UNCHANGED <<leadership, running, app, electing, losing, history>>

(* Error::KeepAliveAlreadyRunning *)
StartRefused ==
  /\ Call("idle", "idle")
  /\ running
  /\ UNCHANGED <<leadership, keepAlive, electing, losing, history>>

StopKeepAlive ==
  /\ Call("idle", "stopping")
  /\ UNCHANGED <<leadership, keepAlive, electing, losing, history>>

(* handle.await returns when the task has ended. *)
StopReturns ==
  /\ Call("stopping", "idle")
  /\ task # NoTask => tc[task] = "none"
  /\ task' = NoTask
  /\ running' = FALSE
  /\ UNCHANGED <<leadership, tc, electing, losing, history>>

-----------------------------------------------------------------------------
(* The keep-alive task *)

TaskStarts(t) ==
  /\ Step(t, "spawned", "selecting")
  /\ running' = TRUE
  /\ UNCHANGED <<leadership, task, app, electing, losing, history>>

TaskTicks(t) ==
  /\ Step(t, "selecting", "calling")
  /\ UNCHANGED <<leadership, running, task, app, electing, losing, history>>

(* Mutant: only a message ends the task, a closed channel does not. *)
ToldByMessage(t) == task = t /\ app = "stopping"

(* Mutant: stop_keep_alive awaits the task without having told it. *)
ToldByDrop(t) == task # t

(* rx.recv() returns: stop_keep_alive has sent, or the sender was dropped  *)
(* when a later start_keep_alive replaced keep_alive_tx.                   *)
Told(t) == task # t \/ app = "stopping"

(* Mutant: the task leaves keep_alive_state as it is. *)
TaskStoppedQuietly(t) ==
  /\ Told(t)
  /\ Step(t, "selecting", "none")
  /\ UNCHANGED <<leadership, running, task, app, electing, losing, history>>

TaskStopped(t) ==
  /\ Told(t)
  /\ Step(t, "selecting", "none")
  /\ running' = FALSE
  /\ UNCHANGED <<leadership, task, app, electing, losing, history>>

(* A lease is stored whether the client is the leader or not. *)
TaskExtended(t) ==
  /\ Step(t, "calling", "selecting")
  /\ leased' = TRUE
  /\ UNCHANGED <<isLeader, running, task, app, electing, losing, history>>

(* Mutant: a failed RPC takes the lease away, and not the leadership. *)
TaskLostLeaseOnly(t) ==
  /\ Step(t, "calling", "none")
  /\ leased' = FALSE
  /\ running' = FALSE
  /\ UNCHANGED <<isLeader, task, app, electing, losing, history>>

(* No lease, a negative one, or a failed RPC: the lock is taken for lost. *)
TaskLost(t) ==
  /\ Step(t, "calling", "none")
  /\ isLeader' = FALSE
  /\ leased' = FALSE
  /\ running' = FALSE
  /\ losing' = losing + Lead
  /\ UNCHANGED <<task, app, electing, history>>

-----------------------------------------------------------------------------
(* Callbacks run in any order. *)

OnLeaderElected ==
  /\ electing > 0
  /\ electing' = electing - 1
  /\ told' = told + 1
  /\ UNCHANGED <<leadership, keepAlive, app, losing, silent>>

OnLeaderLost ==
  /\ losing > 0
  /\ losing' = losing - 1
  /\ told' = told - 1
  /\ UNCHANGED <<leadership, keepAlive, app, electing, silent>>

-----------------------------------------------------------------------------
Begin ==
  \/ TryAcquireLock \/ ReleaseLock \/ StartRefused \/ StopKeepAlive
  \/ \E t \in Tasks : StartKeepAlive(t)

Finish ==
  \/ \E answer \in BOOLEAN : AcquireAnswer(answer)
  \/ AcquireError \/ ReleaseDone \/ ReleaseError \/ StopReturns

Answered(t) == TaskExtended(t) \/ TaskLost(t)

Runs(t) == TaskStarts(t) \/ TaskTicks(t) \/ TaskStopped(t) \/ Answered(t)

Next ==
  \/ Begin \/ Finish \/ OnLeaderElected \/ OnLeaderLost
  \/ \E t \in Tasks : Runs(t)

Spec == Init /\ [][Next]_vars

(* Every RPC is answered or fails, and the runtime runs what is ready;     *)
(* select! starts at a random branch, so a stop that is ready again and    *)
(* again is taken.  The application calls when it likes.                   *)
FairSpec ==
  /\ Spec
  /\ WF_vars(Finish) /\ WF_vars(OnLeaderElected) /\ WF_vars(OnLeaderLost)
  /\ \A t \in Tasks :
       WF_vars(TaskStarts(t)) /\ WF_vars(Answered(t)) /\ SF_vars(TaskStopped(t))

-----------------------------------------------------------------------------
(* Properties. *)

(* Callback accounting: elections and losses the application was told of,  *)
(* those spawned and not yet run, and the losses that go unannounced       *)
(* (release_lock fails) add up to is_leader, whatever calls, tasks and     *)
(* callbacks race for.                                                     *)
CallbacksBalance ==
  told + electing
    = Lead + silent + losing + (IF app = "releasingLead" THEN 1 ELSE 0)

Alive(t) == tc[t] \in {"selecting", "calling"}

(* start_keep_alive is refused only while some task runs: whatever order   *)
(* tasks start and end in, a client without one can be started again.      *)
RefusedOnlyWhileRunning == running => \E t \in Tasks : Alive(t)

(* A task that a second start_keep_alive detached ends, although nobody    *)
(* sends it anything or awaits it.                                         *)
DetachedTaskEnds ==
  \A t \in Tasks : (tc[t] # "none" /\ task # t) ~> tc[t] = "none"

(* stop_keep_alive returns, even if the task it awaits has not run yet, is *)
(* in an RPC, or has ended by itself.                                      *)
StopKeepAliveReturns == app = "stopping" ~> app = "idle"

-----------------------------------------------------------------------------
(* What the code says of itself. *)

(* "Keep-alive is already running" (lib.rs:29, Error): start_keep_alive    *)
(* does not start a second task.                                           *)
OneTask == \A t, u \in Tasks : Alive(t) /\ Alive(u) => t = u
=============================================================================

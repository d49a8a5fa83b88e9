---------------------------- MODULE PythonClient ----------------------------
(***************************************************************************)
(* One QuorumQuestClient of                                                *)
(* client/python/quorum_quest_client/client.py: the application's threads  *)
(* that call it and the keep-alive workers it starts.                      *)
(*                                                                         *)
(* Callbacks run in the thread that found the change, mostly outside the   *)
(* lock, but under it in keep_alive; stop_keep_alive joins the worker      *)
(* under the lock, for 5 seconds.  A critical section that neither calls   *)
(* back nor joins is one step, taken when the lock is free.  The server    *)
(* may answer anything, or an RPC may fail.  Callbacks do not call the     *)
(* client.                                                                 *)
(***************************************************************************)
EXTENDS Integers, FiniteSets

CONSTANTS
  Threads,      \* the application's threads that call the client
  Workers,      \* identities for keep-alive threads
  NoThread,     \* owner of a free lock; no worker remembered
  MaxSilent     \* bound: release_lock is called only while fewer losses
                \* have gone unannounced

ASSUME ClientAssumption ==
  /\ IsFiniteSet(Threads) /\ IsFiniteSet(Workers)
  /\ Threads \cap Workers = {}
  /\ NoThread \notin Threads \cup Workers
  /\ MaxSilent \in Nat

VARIABLES
  isLeader,
  leased,       \* _remaining_lease is not -1
  thread,       \* _keep_alive_thread
  stopEvent,    \* _keep_alive_stop_event is set
  lock,         \* who holds _lock across a callback or a join
  closed,       \* the channel is closed
  pc,           \* the control state of each thread and worker
  forgotten,    \* history: running workers whose join timed out
  told,         \* history: elections less losses the application was told of
  silent        \* history: losses that are never announced

vars == <<isLeader, leased, thread, stopEvent, lock, closed, pc, forgotten, told, silent>>

Callers == Threads \cup Workers

\* "idle": outside every method; of a worker: not started, or returned.
\* "releasingLead": release_lock of a leader, waiting for the server.
\* "electing", "losing": about to call back; "losingLocked": under the lock.
\* "looping": a worker between two calls of keep_alive; "failed": its call
\* raised RpcError.
States ==
  {"idle", "acquiring", "releasing", "releasingLead", "keeping", "electing", "losing",
   "losingLocked", "joining", "joiningToClose", "closing", "looping", "failed"}

Running == {w \in Workers : pc[w] # "idle"}

TypeOK ==
  /\ isLeader \in BOOLEAN
  /\ leased \in BOOLEAN
  /\ thread \in Workers \cup {NoThread}
  /\ stopEvent \in BOOLEAN
  /\ lock \in Callers \cup {NoThread}
  /\ closed \in BOOLEAN
  /\ pc \in [Callers -> States]
  /\ forgotten \subseteq Workers
  /\ told \in Int
  /\ silent \in Nat

Init ==
  /\ isLeader = FALSE
  /\ leased = FALSE
  /\ thread = NoThread
  /\ stopEvent = FALSE
  /\ lock = NoThread
  /\ closed = FALSE
  /\ pc = [c \in Callers |-> "idle"]
  /\ forgotten = {}
  /\ told = 0
  /\ silent = 0

-----------------------------------------------------------------------------
Locked == lock = NoThread   \* the guard of a critical section of one step

Alive == thread \in Running \* _keep_alive_thread and it is_alive()

Step(c, from, to) ==
  /\ pc[c] = from
  /\ pc' = [pc EXCEPT ![c] = to]
  /\ forgotten' = IF to = "idle" THEN forgotten \ {c} ELSE forgotten

leadership == <<isLeader, leased>>
worker == <<thread, stopEvent>>
history == <<told, silent>>

-----------------------------------------------------------------------------
(* try_acquire_lock *)

\* A call on a closed channel raises at once.
TryAcquireLock(t) ==
  /\ ~closed
  /\ Step(t, "idle", "acquiring")
  /\ UNCHANGED <<leadership, worker, lock, closed, history>>

(* Mutant: every answer is announced, changed or not. *)
AcquireAnswerRepeats(t, answer) ==
  /\ Locked
  /\ Step(t, "acquiring", IF answer THEN "electing" ELSE "losing")
  /\ isLeader' = answer
  /\ leased' = answer
  /\ UNCHANGED <<worker, lock, closed, history>>

(* The answer becomes the state under the lock; the callback follows, in   *)
(* this thread and without the lock, if the state changed.                 *)
AcquireAnswer(t, answer) ==
  /\ Locked
  /\ Step(t, "acquiring", IF isLeader = answer THEN "idle"
                          ELSE IF answer THEN "electing" ELSE "losing")
  /\ isLeader' = answer
  /\ leased' = answer
  /\ UNCHANGED <<worker, lock, closed, history>>

AcquireError(t) ==
  /\ Step(t, "acquiring", "idle")
  /\ UNCHANGED <<leadership, worker, lock, closed, history>>

-----------------------------------------------------------------------------
(* release_lock: the state is cleared first, then the RPC is sent, and the *)
(* loss is announced only if the RPC succeeds.                             *)

Lead == IF isLeader THEN 1 ELSE 0

ReleaseLock(t) ==
  /\ Locked
  /\ silent < MaxSilent
  /\ isLeader' = FALSE
  /\ leased' = FALSE
  /\ IF closed
       THEN Step(t, "idle", "idle") /\ silent' = silent + Lead
       ELSE /\ Step(t, "idle", IF isLeader THEN "releasingLead" ELSE "releasing")
            /\ UNCHANGED silent
  /\ UNCHANGED <<worker, lock, closed, told>>

ReleaseDone(t) ==
  /\ Step(t, "releasing", "idle") \/ Step(t, "releasingLead", "losing")
  /\ UNCHANGED <<leadership, worker, lock, closed, history>>

ReleaseError(t) ==
  /\ \/ Step(t, "releasing", "idle") /\ UNCHANGED silent
     \/ Step(t, "releasingLead", "idle") /\ silent' = silent + 1
  /\ UNCHANGED <<leadership, worker, lock, closed, told>>

-----------------------------------------------------------------------------
(* keep_alive, called by the application or by a worker. *)

KeepAlive(t) ==
  /\ ~closed
  /\ Step(t, "idle", "keeping")
  /\ UNCHANGED <<leadership, worker, lock, closed, history>>

(* A lease is stored whether the client is the leader or not. *)
KeepAliveExtended(c) ==
  /\ Locked
  /\ Step(c, "keeping", IF c \in Workers THEN "looping" ELSE "idle")
  /\ leased' = TRUE
  /\ UNCHANGED <<isLeader, worker, lock, closed, history>>

(* A negative lease: on_leader_lost runs under the lock. *)
KeepAliveLost(c) ==
  /\ Locked
  /\ Step(c, "keeping", IF isLeader THEN "losingLocked" ELSE "idle")
  /\ lock' = IF isLeader THEN c ELSE NoThread
  /\ isLeader' = FALSE
  /\ leased' = FALSE
  /\ UNCHANGED <<worker, closed, history>>

KeepAliveError(c) ==
  /\ Step(c, "keeping", IF c \in Workers THEN "failed" ELSE "idle")
  /\ UNCHANGED <<leadership, worker, lock, closed, history>>

-----------------------------------------------------------------------------
(* Callbacks. *)

OnLeaderElected(c) ==
  /\ Step(c, "electing", "idle")
  /\ told' = told + 1
  /\ UNCHANGED <<leadership, worker, lock, closed, silent>>

OnLeaderLost(c) ==
  /\ \/ Step(c, "losing", "idle") /\ UNCHANGED lock
     \/ Step(c, "losingLocked", "idle") /\ lock' = NoThread
  /\ told' = told - 1
  /\ UNCHANGED <<leadership, worker, closed, silent>>

-----------------------------------------------------------------------------
(* _keep_alive_worker *)

(* Mutant: the worker does not look at the event. *)
WorkerLoopsOn(w) ==
  /\ Step(w, "looping", IF closed THEN "idle" ELSE "keeping")
  /\ UNCHANGED <<leadership, worker, lock, closed, history>>

(* The loop's condition, after whatever wait: a set event ends the worker, *)
(* and so does the ValueError that a closed channel raises.                *)
WorkerLoops(w) ==
  /\ Step(w, "looping", IF stopEvent \/ closed THEN "idle" ELSE "keeping")
  /\ UNCHANGED <<leadership, worker, lock, closed, history>>

(* "assume the lock is lost" *)
WorkerGivesUp(w) ==
  /\ Locked
  /\ Step(w, "failed", IF isLeader THEN "losing" ELSE "idle")
  /\ isLeader' = FALSE
  /\ leased' = FALSE
  /\ UNCHANGED <<worker, lock, closed, history>>

-----------------------------------------------------------------------------
(* start_keep_alive, stop_keep_alive and close *)

(* Mutant: it does not look for a worker that is alive. *)
StartKeepAliveAnyway(t, w) ==
  /\ pc[t] = "idle"
  /\ Locked
  /\ stopEvent' = FALSE
  /\ thread' = w
  /\ Step(w, "idle", "looping")
  /\ UNCHANGED <<leadership, lock, closed, history>>

(* Mutant: it remembers the calling thread instead of the one it starts.   *)
StartKeepAliveSelf(t, w) ==
  /\ pc[t] = "idle"
  /\ Locked
  /\ ~Alive
  /\ stopEvent' = FALSE
  /\ thread' = t
  /\ Step(w, "idle", "looping")
  /\ UNCHANGED <<leadership, lock, closed, history>>

(* Clearing the event also calls off the stop of a forgotten worker.       *)
StartKeepAlive(t, w) ==
  /\ pc[t] = "idle"
  /\ Locked
  /\ ~Alive
  /\ stopEvent' = FALSE
  /\ thread' = w
  /\ Step(w, "idle", "looping")
  /\ UNCHANGED <<leadership, lock, closed, history>>

(* "Keep-alive is already running" *)
StartRefused(t) ==
  /\ Locked
  /\ Alive
  /\ Step(t, "idle", "idle")
  /\ UNCHANGED <<leadership, worker, lock, closed, history>>

Joins == {"joining", "joiningToClose"}
After(join) == IF join = "joining" THEN "idle" ELSE "closing"

(* stop_keep_alive sets the event and joins under the lock, if a worker is *)
(* alive; close does the same first.                                       *)
StopKeepAlive(t, join) ==
  /\ Locked
  /\ IF Alive
       THEN Step(t, "idle", join) /\ stopEvent' = TRUE /\ lock' = t
       ELSE Step(t, "idle", After(join)) /\ UNCHANGED <<stopEvent, lock>>
  /\ UNCHANGED <<leadership, thread, closed, history>>

(* Mutant: the join has no timeout. *)
JoinWaits(t, join) ==
  /\ pc[t] = join
  /\ ~Alive
  /\ pc' = [pc EXCEPT ![t] = After(join)]
  /\ thread' = NoThread
  /\ lock' = NoThread
  /\ UNCHANGED <<leadership, stopEvent, closed, forgotten, history>>

(* The join returns, or times out and leaves the worker to itself. *)
JoinEnds(t, join) ==
  /\ pc[t] = join
  /\ pc' = [pc EXCEPT ![t] = After(join)]
  /\ forgotten' = forgotten \cup {w \in Running : w = thread}
  /\ thread' = NoThread
  /\ lock' = NoThread
  /\ UNCHANGED <<leadership, stopEvent, closed, history>>

CloseChannel(t) ==
  /\ Step(t, "closing", "idle")
  /\ closed' = TRUE
  /\ UNCHANGED <<leadership, worker, lock, history>>

-----------------------------------------------------------------------------
Begin(t) ==
  \/ TryAcquireLock(t) \/ ReleaseLock(t) \/ KeepAlive(t) \/ StartRefused(t)
  \/ \E w \in Workers : StartKeepAlive(t, w)
  \/ \E join \in Joins : StopKeepAlive(t, join)

Finish(t) ==
  \/ \E answer \in BOOLEAN : AcquireAnswer(t, answer)
  \/ AcquireError(t) \/ ReleaseDone(t) \/ ReleaseError(t)
  \/ \E join \in Joins : JoinEnds(t, join)
  \/ CloseChannel(t)

InKeepAlive(c) == KeepAliveExtended(c) \/ KeepAliveLost(c) \/ KeepAliveError(c)

CallsBack(c) == OnLeaderElected(c) \/ OnLeaderLost(c)

Works(w) == WorkerLoops(w) \/ WorkerGivesUp(w)

Next ==
  \/ \E t \in Threads : Begin(t) \/ Finish(t)
  \/ \E w \in Workers : Works(w)
  \/ \E c \in Callers : InKeepAlive(c) \/ CallsBack(c)

Spec == Init /\ [][Next]_vars

(* Every RPC is answered or fails, callbacks return, a join ends after 5   *)
(* seconds, and a worker for which the lock is free again and again gets   *)
(* it in the end; the application calls when it likes.                     *)
FairSpec ==
  /\ Spec
  /\ \A t \in Threads : WF_vars(Finish(t))
  /\ \A c \in Callers : WF_vars(CallsBack(c))
  /\ \A t \in Threads : WF_vars(InKeepAlive(t))
  /\ \A w \in Workers : SF_vars(Works(w)) /\ SF_vars(InKeepAlive(w))

-----------------------------------------------------------------------------
(* Properties. *)

In(S) == Cardinality({c \in Callers : pc[c] \in S})

(* Callback accounting: elections and losses the application was told of,  *)
(* those some thread is about to tell it of or will once its RPC succeeds, *)
(* and the losses that go unannounced (release_lock fails) add up to       *)
(* is_leader, whatever the threads and workers race for.                   *)
CallbacksBalance ==
  told + In({"electing"})
    = Lead + silent + In({"releasingLead", "losing", "losingLocked"})

(* Every worker that runs and is not the one remembered was given up by a  *)
(* stop_keep_alive whose join timed out, and the remembered one was not:   *)
(* without such a timeout at most one worker runs, and none once           *)
(* stop_keep_alive has returned.                                           *)
WorkersAccounted == Running \ {thread} = forgotten

(* stop_keep_alive returns, although the worker it joins under the lock    *)
(* may need the lock to finish, or be in a callback or an RPC.             *)
StopKeepAliveReturns ==
  \A t \in Threads : pc[t] = "joining" ~> pc[t] = "idle"

(* Once stopped, every worker ends, the forgotten ones too, unless the     *)
(* application starts keep-alive again.                                    *)
StoppedWorkersEnd == stopEvent ~> (Running = {} \/ ~stopEvent)

-----------------------------------------------------------------------------
(* What the documentation says. *)

(* start_keep_alive raises "if keep-alive is already running": at most one *)
(* worker runs.                                                            *)
OneWorker == \A v, w \in Running : v = w

(* "Remaining lease time in seconds, or -1 if not the leader" *)
LeaseOfLeader == leased => isLeader
=============================================================================

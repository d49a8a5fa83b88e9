------------------------------ MODULE GoClient ------------------------------
(***************************************************************************)
(* One QuorumQuestClient of client/go/quorum-quest-client/client.go: the   *)
(* goroutines of the application that call it, the keep-alive goroutines   *)
(* it starts, and the callbacks it runs.                                   *)
(*                                                                         *)
(* All of them share the client's fields under the mutex mu.  No method    *)
(* holds mu while it waits for the server, except that StopKeepAlive       *)
(* holds it while it waits for the keep-alive goroutine.  A critical       *)
(* section without a wait is one step, taken when mu is free.  The server  *)
(* may answer anything, or an RPC may fail.                                *)
(***************************************************************************)
EXTENDS Integers, FiniteSets

CONSTANTS
  Threads,      \* the application's goroutines that call the client
  Loops,        \* identities for keep-alive goroutines
  NoOne,        \* owner of a free mutex
  MaxUntold     \* bound: calls start only while fewer callbacks are pending
                \* or were never spawned

ASSUME ClientAssumption ==
  /\ IsFiniteSet(Threads) /\ IsFiniteSet(Loops)
  /\ NoOne \notin Threads
  /\ MaxUntold \in Nat

VARIABLES
  isLeader,
  leased,       \* remainingLease is not -1
  notifyStop,   \* the channel: "nil", "open" or "closed"
  mu,           \* who holds the mutex across a wait
  pc,           \* the control state of each thread
  loop,         \* the control state of each keep-alive goroutine
  pending,      \* callbacks whose goroutine is spawned but has not run
  told,         \* history: elections less losses the application was told of
  lastTold,     \* history: the callback that ran last
  silent        \* history: losses after which no callback is spawned

vars == <<isLeader, leased, notifyStop, mu, pc, loop, pending, told, lastTold, silent>>

Callbacks == {"elected", "notElected", "lost"}

\* "releasing": ReleaseLock of a client that was not the leader, waiting for
\* the server; "releasingLead": the same, and it was the leader.
ThreadStates == {"idle", "acquiring", "releasing", "releasingLead", "stopWait", "closeWait"}

\* "none": not started, or returned.
LoopStates == {"none", "select", "rpc", "callback", "giveUp"}

Running == {g \in Loops : loop[g] # "none"}

(* The mutex is kept across a wait by the goroutine that has closed the    *)
(* channel, and by it alone: nobody can close the channel a second time,   *)
(* which would panic.                                                      *)
TypeOK ==
  /\ isLeader \in BOOLEAN
  /\ leased \in BOOLEAN
  /\ notifyStop \in {"nil", "open", "closed"}
  /\ mu \in Threads \cup {NoOne}
  /\ pc \in [Threads -> ThreadStates]
  /\ loop \in [Loops -> LoopStates]
  /\ pending \in [Callbacks -> Nat]
  /\ told \in Int
  /\ lastTold \in Callbacks \cup {"nothing"}
  /\ silent \in Nat
  /\ \A t \in Threads : (mu = t) <=> (pc[t] \in {"stopWait", "closeWait"})
  /\ (notifyStop = "closed") <=> (mu # NoOne)

Init ==
  /\ isLeader = FALSE
  /\ leased = FALSE
  /\ notifyStop = "nil"
  /\ mu = NoOne
  /\ pc = [t \in Threads |-> "idle"]
  /\ loop = [g \in Loops |-> "none"]
  /\ pending = [k \in Callbacks |-> 0]
  /\ told = 0
  /\ lastTold = "nothing"
  /\ silent = 0

-----------------------------------------------------------------------------
Locked == mu = NoOne        \* the guard of a critical section without a wait

Step(t, from, to) ==
  /\ pc[t] = from
  /\ pc' = [pc EXCEPT ![t] = to]

LoopStep(g, from, to) ==
  /\ loop[g] = from
  /\ loop' = [loop EXCEPT ![g] = to]

Spawn(k) == pending' = [pending EXCEPT ![k] = @ + 1]

Untold == pending["elected"] + pending["notElected"] + pending["lost"] + silent

Call(t, to) == Untold < MaxUntold /\ Step(t, "idle", to)

history == <<told, lastTold>>
channel == <<notifyStop, mu, loop>>

-----------------------------------------------------------------------------
(* TryAcquireLock: the RPC, then one critical section that takes over the  *)
(* answer, then a callback in a goroutine of its own.                      *)

TryAcquireLock(t) ==
  /\ Call(t, "acquiring")
  /\ UNCHANGED <<isLeader, leased, channel, pending, history, silent>>

(* The third branch of the code is here too: it is never taken. *)
Announce(wasLeader, nowLeader) ==
  IF wasLeader = nowLeader THEN UNCHANGED pending
  ELSE IF nowLeader THEN Spawn("elected")
  ELSE IF wasLeader THEN Spawn("lost")
  ELSE Spawn("notElected")

(* Mutant: every answer is announced, changed or not. *)
AcquireAnswerRepeats(t, answer) ==
  /\ Step(t, "acquiring", "idle")
  /\ Locked
  /\ isLeader' = answer
  /\ leased' = answer
  /\ Spawn(IF answer THEN "elected" ELSE "lost")
  /\ UNCHANGED <<channel, history, silent>>

AcquireAnswer(t, answer) ==
  /\ Step(t, "acquiring", "idle")
  /\ Locked
  /\ isLeader' = answer
  /\ leased' = answer
  /\ Announce(isLeader, answer)
  /\ UNCHANGED <<channel, history, silent>>

AcquireError(t) ==
  /\ Step(t, "acquiring", "idle")
  /\ UNCHANGED <<isLeader, leased, channel, pending, history, silent>>

(* ReleaseLock: the critical section comes first, then the RPC, and the    *)
(* callback only if the RPC succeeds.                                       *)
ReleaseLock(t) ==
  /\ Call(t, IF isLeader THEN "releasingLead" ELSE "releasing")
  /\ Locked
  /\ isLeader' = FALSE
  /\ leased' = FALSE
  /\ UNCHANGED <<channel, pending, history, silent>>

ReleaseDone(t) ==
  /\ \/ Step(t, "releasing", "idle") /\ UNCHANGED pending
     \/ Step(t, "releasingLead", "idle") /\ Spawn("lost")
  /\ UNCHANGED <<isLeader, leased, channel, history, silent>>

ReleaseError(t) ==
  /\ \/ Step(t, "releasing", "idle") /\ UNCHANGED silent
     \/ Step(t, "releasingLead", "idle") /\ silent' = silent + 1
  /\ UNCHANGED <<isLeader, leased, channel, pending, history>>

-----------------------------------------------------------------------------
(* StartKeepAlive, StopKeepAlive and Close. *)

StartKeepAlive(t, g) ==
  /\ Call(t, "idle")
  /\ Locked
  /\ notifyStop = "nil"
  /\ notifyStop' = "open"
  /\ LoopStep(g, "none", "select")
  /\ UNCHANGED <<isLeader, leased, mu, pending, history, silent>>

(* "keep-alive is already running" *)
StartRefused(t) ==
  /\ Call(t, "idle")
  /\ Locked
  /\ notifyStop # "nil"
  /\ UNCHANGED <<isLeader, leased, channel, pending, history, silent>>

(* Mutant: StopKeepAlive does not wait for the goroutine. *)
StopKeepAliveNoWait(t, waiting) ==
  /\ Call(t, "idle")
  /\ Locked
  /\ notifyStop' = "nil"
  /\ UNCHANGED <<isLeader, leased, mu, loop, pending, history, silent>>

(* Mutant: mu is given up before the wait, so that other calls go on. *)
StopKeepAliveUnlocks(t, waiting) ==
  /\ Locked
  /\ IF notifyStop = "nil"
       THEN Call(t, "idle") /\ UNCHANGED notifyStop
       ELSE Call(t, waiting) /\ notifyStop' = "closed"
  /\ UNCHANGED <<isLeader, leased, mu, loop, pending, history, silent>>

(* The channel is closed and mu kept until the goroutine is gone; without  *)
(* a channel there is nothing to do.                                        *)
StopKeepAlive(t, waiting) ==
  /\ Locked
  /\ IF notifyStop = "nil"
       THEN Call(t, "idle") /\ UNCHANGED <<notifyStop, mu>>
       ELSE Call(t, waiting) /\ notifyStop' = "closed" /\ mu' = t
  /\ UNCHANGED <<isLeader, leased, loop, pending, history, silent>>

StopReturns(t, waiting) ==
  /\ Step(t, waiting, "idle")
  /\ Running = {}
  /\ notifyStop' = "nil"
  /\ mu' = NoOne
  /\ UNCHANGED <<isLeader, leased, loop, pending, history, silent>>

-----------------------------------------------------------------------------
(* The keep-alive goroutine. *)

LoopStops(g) ==
  /\ LoopStep(g, "select", "none")
  /\ notifyStop = "closed"
  /\ UNCHANGED <<isLeader, leased, notifyStop, mu, pc, pending, history, silent>>

(* The ticker fires; when notifyStop is closed too, select takes either. *)
LoopTicks(g) ==
  /\ LoopStep(g, "select", "rpc")
  /\ UNCHANGED <<isLeader, leased, notifyStop, mu, pc, pending, history, silent>>

(* keepAlive is answered with a lease: the client need not be the leader. *)
KeepAliveExtended(g) ==
  /\ LoopStep(g, "rpc", "select")
  /\ Locked
  /\ leased' = TRUE
  /\ UNCHANGED <<isLeader, notifyStop, mu, pc, pending, history, silent>>

(* Mutant: the loss is announced whether the client was the leader or not. *)
KeepAliveLostAlways(g) ==
  /\ Locked
  /\ isLeader' = FALSE
  /\ leased' = FALSE
  /\ LoopStep(g, "rpc", "callback")
  /\ UNCHANGED <<notifyStop, mu, pc, pending, history, silent>>

(* keepAlive is answered with a negative lease: it runs OnLeaderLost itself *)
(* when it returns, outside mu.                                             *)
KeepAliveLost(g) ==
  /\ Locked
  /\ isLeader' = FALSE
  /\ leased' = FALSE
  /\ LoopStep(g, "rpc", IF isLeader THEN "callback" ELSE "giveUp")
  /\ UNCHANGED <<notifyStop, mu, pc, pending, history, silent>>

KeepAliveCallback(g) ==
  /\ LoopStep(g, "callback", "giveUp")
  /\ told' = told - 1
  /\ lastTold' = "lost"
  /\ UNCHANGED <<isLeader, leased, notifyStop, mu, pc, pending, silent>>

KeepAliveError(g) ==
  /\ LoopStep(g, "rpc", "giveUp")
  /\ UNCHANGED <<isLeader, leased, notifyStop, mu, pc, pending, history, silent>>

(* After an error or a negative lease the goroutine clears the state once  *)
(* more and returns; notifyStop stays as it is.                            *)
LoopGivesUp(g) ==
  /\ LoopStep(g, "giveUp", "none")
  /\ Locked
  /\ isLeader' = FALSE
  /\ leased' = FALSE
  /\ IF isLeader THEN Spawn("lost") ELSE UNCHANGED pending
  /\ UNCHANGED <<notifyStop, mu, pc, history, silent>>

-----------------------------------------------------------------------------
(* The goroutine of a callback runs, in no particular order. *)
CallbackRuns(k) ==
  /\ pending[k] > 0
  /\ pending' = [pending EXCEPT ![k] = @ - 1]
  /\ told' = CASE k = "elected" -> told + 1
               [] k = "lost"    -> told - 1
               [] OTHER         -> told
  /\ lastTold' = k
  /\ UNCHANGED <<isLeader, leased, channel, pc, silent>>

Begin(t) ==
  \/ TryAcquireLock(t) \/ ReleaseLock(t) \/ StartRefused(t)
  \/ \E g \in Loops : StartKeepAlive(t, g)
  \/ \E waiting \in {"stopWait", "closeWait"} : StopKeepAlive(t, waiting)

Finish(t) ==
  \/ \E answer \in BOOLEAN : AcquireAnswer(t, answer)
  \/ AcquireError(t) \/ ReleaseDone(t) \/ ReleaseError(t)
  \/ \E waiting \in {"stopWait", "closeWait"} : StopReturns(t, waiting)

Loop(g) ==
  \/ LoopStops(g) \/ LoopTicks(g)
  \/ KeepAliveExtended(g) \/ KeepAliveLost(g) \/ KeepAliveCallback(g)
  \/ KeepAliveError(g) \/ LoopGivesUp(g)

Next ==
  \/ \E t \in Threads : Begin(t) \/ Finish(t)
  \/ \E g \in Loops : Loop(g)
  \/ \E k \in Callbacks : CallbackRuns(k)

Spec == Init /\ [][Next]_vars

(* Every RPC is answered or fails, every goroutine that can run runs, and  *)
(* a goroutine that keeps finding notifyStop closed takes that case of its *)
(* select; the application calls when it likes.                            *)
FairSpec ==
  /\ Spec
  /\ \A t \in Threads : WF_vars(Finish(t))
  /\ \A g \in Loops : WF_vars(Loop(g)) /\ SF_vars(LoopStops(g))
  /\ \A k \in Callbacks : WF_vars(CallbackRuns(k))

-----------------------------------------------------------------------------
(* Properties. *)

Count(S) == Cardinality(S)

(* Callback accounting: elections and losses the application was told of,  *)
(* those on their way (in a goroutine not yet run, in a ReleaseLock that   *)
(* waits for the server, in a keep-alive goroutine about to call), and the *)
(* losses lost for good add up to whether the client is the leader.  No    *)
(* race of TryAcquireLock, ReleaseLock and the keep-alive goroutine        *)
(* announces a loss twice, or one that was not, or misses one.             *)
CallbacksBalance ==
  told + pending["elected"]
    = (IF isLeader THEN 1 ELSE 0)
      + pending["lost"] + silent
      + Count({t \in Threads : pc[t] = "releasingLead"})
      + Count({g \in Loops : loop[g] = "callback"})

(* At most one keep-alive goroutine runs at any time, and none after       *)
(* StopKeepAlive has returned until the next StartKeepAlive, although the  *)
(* goroutines read the channel from the field and may end by themselves.   *)
LoopsMatchStop ==
  /\ \A g, h \in Running : g = h
  /\ notifyStop = "nil" => Running = {}

-----------------------------------------------------------------------------
(* What the documentation says. *)

(* "Stops the background keep-alive goroutine": a call of StopKeepAlive    *)
(* returns.                                                                *)
StopKeepAliveReturns ==
  \A t \in Threads : pc[t] = "stopWait" ~> pc[t] = "idle"

(* "keep-alive is already running": StartKeepAlive is refused only while a *)
(* keep-alive goroutine runs.                                              *)
RefusedWhileRunning ==
  Locked /\ notifyStop # "nil" => Running # {}

(* "If your node loses leadership, OnLeaderLost() is called." *)
LossIsAnnounced == silent = 0

(* "Called when leadership status changes": once every call has returned   *)
(* and every callback has run, the last one tells what the client knows.   *)
LastCallbackTells ==
  /\ \A t \in Threads : pc[t] = "idle"
  /\ Running = {}
  /\ \A k \in Callbacks : pending[k] = 0
  /\ silent = 0
  => (lastTold = "elected") = isLeader

(* "GetRemainingLease returns the remaining time of the current lock       *)
(* lease": there is one only while the client is the leader.               *)
LeaseOfLeader == leased => isLeader
=============================================================================

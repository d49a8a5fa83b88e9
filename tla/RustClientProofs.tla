-------------------------- MODULE RustClientProofs --------------------------
(***************************************************************************)
(* Proofs about RustClient, for any set of tasks and any bounds: the       *)
(* accounting of callbacks, and that a client without a task can be        *)
(* started.                                                                *)
(***************************************************************************)
EXTENDS RustClient, TLAPS

LEMMA StepTyped ==
  ASSUME TypeOK, NEW t \in Tasks, NEW from, NEW to \in TaskStates, Step(t, from, to)
  PROVE  tc' \in [Tasks -> TaskStates]
BY DEF TypeOK, Step

LEMMA InitTyped == Init => TypeOK
<1> SUFFICES ASSUME Init PROVE TypeOK
  OBVIOUS
<1>1. /\ isLeader \in BOOLEAN /\ leased \in BOOLEAN /\ running \in BOOLEAN
      /\ isLeader => leased
  BY Zenon DEF Init
<1>2. /\ task \in Tasks \cup {NoTask} /\ app \in Calls /\ tc \in [Tasks -> TaskStates]
      /\ electing \in Nat /\ losing \in Nat /\ told \in Int /\ silent \in Nat
  BY SMT DEF Init, Calls, TaskStates
<1> QED
  BY <1>1, <1>2 DEF TypeOK

LEMMA TypeStep == TypeOK /\ [Next]_vars => TypeOK'
<1> SUFFICES ASSUME TypeOK, [Next]_vars PROVE TypeOK'
  OBVIOUS
<1> USE DEF leadership, keepAlive, history
<1>1. CASE TryAcquireLock \/ ReleaseLock \/ StartRefused \/ StopKeepAlive
  <2>1. isLeader' => leased'
    BY <1>1, Zenon DEF TypeOK, TryAcquireLock, ReleaseLock, StartRefused, StopKeepAlive
  <2> QED
    BY <1>1, <2>1
    DEF TypeOK, TryAcquireLock, ReleaseLock, StartRefused, StopKeepAlive, Call, Calls
<1>2. ASSUME NEW t \in Tasks, StartKeepAlive(t) PROVE TypeOK'
  <2>1. tc' \in [Tasks -> TaskStates]
    BY <1>2, StepTyped DEF StartKeepAlive, TaskStates
  <2> QED
    BY <1>2, <2>1 DEF TypeOK, StartKeepAlive
<1>3. ASSUME NEW answer \in BOOLEAN, AcquireAnswer(answer) PROVE TypeOK'
  <2>1. isLeader' \in BOOLEAN /\ leased' = isLeader' /\ app' \in Calls
    BY <1>3, Zenon DEF AcquireAnswer, Call, Calls
  <2>2. electing' \in Nat /\ losing' \in Nat
    BY <1>3 DEF TypeOK, AcquireAnswer
  <2> QED
    BY <1>3, <2>1, <2>2 DEF TypeOK, AcquireAnswer
<1>4. CASE AcquireError \/ ReleaseDone \/ ReleaseError \/ StopReturns
  <2>1. running' \in BOOLEAN
    BY <1>4, Zenon DEF TypeOK, AcquireError, ReleaseDone, ReleaseError, StopReturns
  <2> QED
    BY <1>4, <2>1
    DEF TypeOK, AcquireError, ReleaseDone, ReleaseError, StopReturns, Call, Calls
<1>5. ASSUME NEW t \in Tasks, Runs(t) PROVE TypeOK'
  <2>1. CASE TaskStarts(t) \/ TaskTicks(t) \/ TaskStopped(t) \/ TaskExtended(t)
    <3>1. tc' \in [Tasks -> TaskStates]
      BY <2>1, StepTyped DEF TaskStarts, TaskTicks, TaskStopped, TaskExtended, TaskStates
    <3>2. leased' = TRUE \/ leased' = leased
      BY <2>1 DEF TaskStarts, TaskTicks, TaskStopped, TaskExtended
    <3>3. /\ isLeader' = isLeader
          /\ running' = TRUE \/ running' = FALSE \/ running' = running
      BY <2>1 DEF TaskStarts, TaskTicks, TaskStopped, TaskExtended
    <3>4. running' \in BOOLEAN /\ leased' \in BOOLEAN /\ (isLeader' => leased')
      BY <3>2, <3>3, Zenon DEF TypeOK
    <3> QED
      BY <2>1, <3>1, <3>3, <3>4 DEF TypeOK, TaskStarts, TaskTicks, TaskStopped, TaskExtended
  <2>2. CASE TaskLost(t)
    <3>1. tc' \in [Tasks -> TaskStates]
      BY <2>2, StepTyped DEF TaskLost, TaskStates
    <3>2. losing' \in Nat
      BY <2>2 DEF TypeOK, TaskLost, Lead
    <3> QED
      BY <2>2, <3>1, <3>2 DEF TypeOK, TaskLost
  <2> QED
    BY <1>5, <2>1, <2>2 DEF Runs, Answered
<1>6. CASE OnLeaderElected \/ OnLeaderLost
  BY <1>6 DEF TypeOK, OnLeaderElected, OnLeaderLost
<1>7. CASE UNCHANGED vars
  BY <1>7 DEF TypeOK, vars
<1> QED
  BY <1>1, <1>2, <1>3, <1>4, <1>5, <1>6, <1>7 DEF Next, Begin, Finish

(* The shared state stays well-formed for any number of tasks; in          *)
(* particular a leader has a remaining lease.                              *)
THEOREM TypeCorrect == Spec => []TypeOK
BY InitTyped, TypeStep, PTL DEF Spec

-----------------------------------------------------------------------------
Owed == IF app = "releasingLead" THEN 1 ELSE 0

LEMMA BalanceIs ==
  CallbacksBalance <=> told + electing = Lead + silent + losing + Owed
BY DEF CallbacksBalance, Owed

LEMMA LeadIs == TypeOK => (isLeader /\ Lead = 1) \/ (~isLeader /\ Lead = 0)
BY Zenon DEF Lead

LEMMA BalanceStep ==
  TypeOK /\ CallbacksBalance /\ [Next]_vars => CallbacksBalance'
<1> SUFFICES ASSUME TypeOK, CallbacksBalance, [Next]_vars PROVE CallbacksBalance'
  OBVIOUS
<1> USE DEF leadership, keepAlive, history, Call
<1>0. told + electing = Lead + silent + losing + Owed
  BY BalanceIs
<1>n. electing \in Nat /\ losing \in Nat /\ told \in Int /\ silent \in Nat
  BY DEF TypeOK
<1> DEFINE Kept == told' + electing' = Lead' + silent' + losing' + Owed'
<1>1. CASE TryAcquireLock \/ StartRefused \/ StopKeepAlive \/ AcquireError \/ StopReturns
  <2>1. Lead' = Lead /\ Owed' = Owed
    BY <1>1 DEF TryAcquireLock, StartRefused, StopKeepAlive, AcquireError, StopReturns, Lead, Owed
  <2>2. Kept
    BY <1>0, <1>1, <2>1
    DEF TryAcquireLock, StartRefused, StopKeepAlive, AcquireError, StopReturns
  <2> QED
    BY <2>2 DEF CallbacksBalance, Owed
<1>2. CASE ReleaseLock
  <2>1. Lead' = 0 /\ Owed = 0 /\ Owed' = Lead
    BY <1>2 DEF ReleaseLock, Lead, Owed
  <2>2. Lead \in Nat
    BY DEF Lead
  <2>3. UNCHANGED <<electing, losing, told, silent>>
    BY <1>2 DEF ReleaseLock
  <2>4. Kept
    BY <1>0, <1>n, <2>1, <2>2, <2>3
  <2> QED
    BY <2>4 DEF CallbacksBalance, Owed
<1>3. ASSUME NEW answer \in BOOLEAN, AcquireAnswer(answer) PROVE CallbacksBalance'
  <2>1. Owed = 0 /\ Owed' = 0
    BY <1>3 DEF AcquireAnswer, Owed
  <2>2. Kept
    <3>1. CASE answer /\ ~isLeader
      BY <1>0, <1>3, <2>1, <3>1 DEF AcquireAnswer, Lead, TypeOK
    <3>2. CASE ~answer /\ isLeader
      BY <1>0, <1>3, <2>1, <3>2 DEF AcquireAnswer, Lead, TypeOK
    <3>3. CASE answer <=> isLeader
      <4>1. Lead' = Lead
        BY <1>3, <3>3 DEF AcquireAnswer, Lead, TypeOK
      <4> QED
        BY <1>0, <1>3, <2>1, <3>3, <4>1 DEF AcquireAnswer, TypeOK
    <3> QED
      BY <3>1, <3>2, <3>3 DEF TypeOK
  <2> QED
    BY <2>2 DEF CallbacksBalance, Owed
<1>4. CASE ReleaseDone \/ ReleaseError
  <2>1. Lead' = Lead /\ Lead \in Nat
    BY <1>4 DEF ReleaseDone, ReleaseError, Lead
  <2>2. Kept
    BY <1>0, <1>4, <2>1 DEF ReleaseDone, ReleaseError, Owed, TypeOK
  <2> QED
    BY <2>2 DEF CallbacksBalance, Owed
<1>5. ASSUME NEW t \in Tasks, StartKeepAlive(t) \/ Runs(t) PROVE CallbacksBalance'
  <2>0. Owed' = Owed
    BY <1>5 DEF StartKeepAlive, Runs, Answered, TaskStarts, TaskTicks, TaskStopped,
                TaskExtended, TaskLost, Owed
  <2>1. CASE TaskLost(t)
    <3>1. Lead' = 0 /\ losing' = losing + Lead /\ Lead \in Nat /\ Owed \in Nat
      BY <2>1 DEF TaskLost, Lead, Owed
    <3>2. Kept
      BY <1>0, <2>0, <2>1, <3>1 DEF TaskLost, TypeOK
    <3> QED
      BY <3>2 DEF CallbacksBalance, Owed
  <2>2. CASE ~TaskLost(t)
    <3>1. Lead' = Lead
      BY <1>5, <2>2 DEF StartKeepAlive, Runs, Answered, TaskStarts, TaskTicks, TaskStopped,
                        TaskExtended, Lead
    <3>2. Kept
      BY <1>0, <1>5, <2>0, <2>2, <3>1
      DEF StartKeepAlive, Runs, Answered, TaskStarts, TaskTicks, TaskStopped, TaskExtended
    <3> QED
      BY <3>2 DEF CallbacksBalance, Owed
  <2> QED
    BY <2>1, <2>2
<1>6. CASE OnLeaderElected \/ OnLeaderLost
  <2>1. Lead' = Lead /\ Owed' = Owed /\ Lead \in Nat /\ Owed \in Nat
    BY <1>6 DEF OnLeaderElected, OnLeaderLost, Lead, Owed
  <2>2. Kept
    BY <1>0, <1>n, <1>6, <2>1 DEF OnLeaderElected, OnLeaderLost
  <2> QED
    BY <2>2 DEF CallbacksBalance, Owed
<1>7. CASE UNCHANGED vars
  BY <1>7 DEF vars, CallbacksBalance, Lead
<1> QED
  BY <1>1, <1>2, <1>3, <1>4, <1>5, <1>6, <1>7 DEF Next, Begin, Finish

(* However calls, tasks and callbacks interleave, what the application was *)
(* told, and will be told, adds up to is_leader.                           *)
THEOREM CallbacksAddUp == Spec => []CallbacksBalance
<1>1. Init => CallbacksBalance
  <2> SUFFICES ASSUME Init PROVE CallbacksBalance
    OBVIOUS
  <2>1. Lead = 0
    BY Zenon DEF Init, Lead
  <2> QED
    BY <2>1 DEF Init, CallbacksBalance
<1> QED
  BY <1>1, InitTyped, TypeStep, BalanceStep, PTL DEF Spec

-----------------------------------------------------------------------------
LEMMA RefusalStep ==
  TypeOK /\ RefusedOnlyWhileRunning /\ [Next]_vars => RefusedOnlyWhileRunning'
<1> SUFFICES ASSUME TypeOK, RefusedOnlyWhileRunning, [Next]_vars, running'
             PROVE  \E t \in Tasks : Alive(t)'
  BY DEF RefusedOnlyWhileRunning
<1> USE DEF leadership, keepAlive, history
<1>1. ASSUME NEW t \in Tasks, TaskStarts(t) \/ TaskTicks(t) \/ TaskExtended(t)
      PROVE  Alive(t)'
  BY <1>1 DEF TypeOK, TaskStarts, TaskTicks, TaskExtended, Step, Alive
<1>2. ASSUME NEW t \in Tasks, StartKeepAlive(t) PROVE \E u \in Tasks : Alive(u)'
  <2>1. PICK u \in Tasks : Alive(u)
    BY <1>2 DEF RefusedOnlyWhileRunning, StartKeepAlive
  <2>2. Alive(u)'
    BY <1>2, <2>1 DEF TypeOK, StartKeepAlive, Step, Alive
  <2> QED
    BY <2>2
<1>3. ~StopReturns
  BY DEF StopReturns
<1>4. ASSUME NEW t \in Tasks PROVE ~TaskStopped(t) /\ ~TaskLost(t)
  BY DEF TaskStopped, TaskLost
<1>5. CASE \/ TryAcquireLock \/ ReleaseLock \/ StartRefused \/ StopKeepAlive
           \/ (\E answer \in BOOLEAN : AcquireAnswer(answer)) \/ AcquireError
           \/ ReleaseDone \/ ReleaseError \/ OnLeaderElected \/ OnLeaderLost
           \/ UNCHANGED vars
  <2>1. UNCHANGED <<running, tc>>
    BY <1>5 DEF TryAcquireLock, ReleaseLock, StartRefused, StopKeepAlive, AcquireAnswer,
                AcquireError, ReleaseDone, ReleaseError, OnLeaderElected, OnLeaderLost, vars
  <2> QED
    BY <2>1 DEF RefusedOnlyWhileRunning, Alive
<1> QED
  BY <1>1, <1>2, <1>3, <1>4, <1>5 DEF Next, Begin, Finish, Runs, Answered

(* keep_alive_state never stays at Running after the last task has ended,  *)
(* however many tasks wrote it and in whatever order.                      *)
THEOREM NeverStuckRunning == Spec => []RefusedOnlyWhileRunning
<1>1. Init => RefusedOnlyWhileRunning
  BY DEF Init, RefusedOnlyWhileRunning
<1> QED
  BY <1>1, InitTyped, TypeStep, RefusalStep, PTL DEF Spec
=============================================================================

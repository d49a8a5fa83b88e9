------------------------- MODULE PythonClientProofs -------------------------
(***************************************************************************)
(* Proofs about PythonClient, for any number of threads and workers: who   *)
(* of the workers may run, and the accounting of callbacks.                *)
(***************************************************************************)
EXTENDS PythonClient, FiniteSetTheorems, TLAPS

LEMMA StepTyped ==
  ASSUME TypeOK, NEW c \in Callers, NEW from, NEW to \in States, Step(c, from, to)
  PROVE  pc' \in [Callers -> States] /\ forgotten' \subseteq Workers
BY DEF TypeOK, Step

LEMMA LeadTyped == TypeOK => Lead \in {0, 1}
BY DEF TypeOK, Lead

LEMMA TypeStep == TypeOK /\ [Next]_vars => TypeOK'
<1> SUFFICES ASSUME TypeOK, [Next]_vars PROVE TypeOK'
  OBVIOUS
<1> USE DEF leadership, worker, history
<1> DEFINE ControlOK == pc' \in [Callers -> States] /\ forgotten' \subseteq Workers
<1>1. ASSUME NEW t \in Threads, Begin(t) PROVE TypeOK'
  <2>0. t \in Callers
    BY DEF Callers
  <2>1. CASE TryAcquireLock(t) \/ KeepAlive(t) \/ StartRefused(t)
    <3>1. ControlOK
      BY <2>0, <2>1, StepTyped DEF TryAcquireLock, KeepAlive, StartRefused, States
    <3> QED
      BY <2>1, <3>1 DEF TypeOK, TryAcquireLock, KeepAlive, StartRefused
  <2>2. CASE ReleaseLock(t)
    <3>1. CASE closed
      <4>1. ControlOK
        BY <2>0, <2>2, <3>1, StepTyped DEF ReleaseLock, States
      <4>2. silent' \in Nat
        BY <2>2, <3>1, LeadTyped DEF ReleaseLock, TypeOK
      <4> QED
        BY <2>2, <4>1, <4>2 DEF TypeOK, ReleaseLock
    <3>2. CASE ~closed
      <4>1. ControlOK
        BY <2>0, <2>2, <3>2, StepTyped DEF ReleaseLock, States
      <4> QED
        BY <2>2, <3>2, <4>1 DEF TypeOK, ReleaseLock
    <3> QED
      BY <3>1, <3>2
  <2>3. ASSUME NEW w \in Workers, StartKeepAlive(t, w) PROVE TypeOK'
    <3>1. ControlOK
      BY <2>3, StepTyped DEF StartKeepAlive, States, Callers
    <3> QED
      BY <2>3, <3>1 DEF TypeOK, StartKeepAlive
  <2>4. ASSUME NEW join \in Joins, StopKeepAlive(t, join) PROVE TypeOK'
    <3>1. CASE Alive
      <4>1. ControlOK
        BY <2>0, <2>4, <3>1, StepTyped DEF StopKeepAlive, States, Joins
      <4> QED
        BY <2>0, <2>4, <3>1, <4>1 DEF TypeOK, StopKeepAlive
    <3>2. CASE ~Alive
      <4>1. ControlOK
        BY <2>0, <2>4, <3>2, StepTyped DEF StopKeepAlive, States, After
      <4> QED
        BY <2>4, <3>2, <4>1 DEF TypeOK, StopKeepAlive
    <3> QED
      BY <3>1, <3>2
  <2> QED
    BY <1>1, <2>1, <2>2, <2>3, <2>4 DEF Begin
<1>2. ASSUME NEW t \in Threads, Finish(t) PROVE TypeOK'
  <2>0. t \in Callers
    BY DEF Callers
  <2>1. ASSUME NEW answer \in BOOLEAN, AcquireAnswer(t, answer) PROVE TypeOK'
    <3>1. ControlOK
      BY <2>0, <2>1, StepTyped DEF AcquireAnswer, States
    <3>2. isLeader' \in BOOLEAN /\ leased' \in BOOLEAN
      BY <2>1, Zenon DEF AcquireAnswer
    <3> QED
      BY <2>1, <3>1, <3>2 DEF TypeOK, AcquireAnswer
  <2>2. CASE AcquireError(t) \/ ReleaseDone(t) \/ CloseChannel(t)
    <3>1. ControlOK
      BY <2>0, <2>2, StepTyped DEF AcquireError, ReleaseDone, CloseChannel, States
    <3> QED
      BY <2>2, <3>1 DEF TypeOK, AcquireError, ReleaseDone, CloseChannel
  <2>3. CASE ReleaseError(t)
    <3>1. ControlOK
      BY <2>0, <2>3, StepTyped DEF ReleaseError, States
    <3> QED
      BY <2>3, <3>1 DEF TypeOK, ReleaseError
  <2>4. ASSUME NEW join \in Joins, JoinEnds(t, join) PROVE TypeOK'
    BY <2>0, <2>4 DEF TypeOK, JoinEnds, After, States, Running
  <2> QED
    BY <1>2, <2>1, <2>2, <2>3, <2>4 DEF Finish
<1>3. ASSUME NEW w \in Workers, Works(w) PROVE TypeOK'
  <2>0. w \in Callers
    BY DEF Callers
  <2>1. CASE WorkerLoops(w)
    <3>1. ControlOK
      BY <2>0, <2>1, StepTyped DEF WorkerLoops, States
    <3> QED
      BY <2>1, <3>1 DEF TypeOK, WorkerLoops
  <2>2. CASE WorkerGivesUp(w)
    <3>1. ControlOK
      BY <2>0, <2>2, StepTyped DEF WorkerGivesUp, States
    <3> QED
      BY <2>2, <3>1 DEF TypeOK, WorkerGivesUp
  <2> QED
    BY <1>3, <2>1, <2>2 DEF Works
<1>4. ASSUME NEW c \in Callers, InKeepAlive(c) PROVE TypeOK'
  <2>1. CASE KeepAliveExtended(c)
    <3>1. ControlOK
      BY <2>1, StepTyped DEF KeepAliveExtended, States
    <3> QED
      BY <2>1, <3>1 DEF TypeOK, KeepAliveExtended
  <2>2. CASE KeepAliveLost(c)
    <3>1. ControlOK
      BY <2>2, StepTyped DEF KeepAliveLost, States
    <3> QED
      BY <2>2, <3>1 DEF TypeOK, KeepAliveLost
  <2>3. CASE KeepAliveError(c)
    <3>1. ControlOK
      BY <2>3, StepTyped DEF KeepAliveError, States
    <3> QED
      BY <2>3, <3>1 DEF TypeOK, KeepAliveError
  <2> QED
    BY <1>4, <2>1, <2>2, <2>3 DEF InKeepAlive
<1>5. ASSUME NEW c \in Callers, CallsBack(c) PROVE TypeOK'
  <2>1. ControlOK
    BY <1>5, StepTyped DEF CallsBack, OnLeaderElected, OnLeaderLost, States
  <2> QED
    BY <1>5, <2>1 DEF TypeOK, CallsBack, OnLeaderElected, OnLeaderLost
<1>6. CASE UNCHANGED vars
  BY <1>6 DEF vars, TypeOK
<1> QED
  BY <1>1, <1>2, <1>3, <1>4, <1>5, <1>6 DEF Next

LEMMA InitTyped == Init => TypeOK
<1> SUFFICES ASSUME Init PROVE TypeOK
  OBVIOUS
<1>1. isLeader \in BOOLEAN /\ leased \in BOOLEAN /\ stopEvent \in BOOLEAN /\ closed \in BOOLEAN
  BY Zenon DEF Init
<1>2. /\ thread \in Workers \cup {NoThread} /\ lock \in Callers \cup {NoThread}
      /\ pc \in [Callers -> States] /\ forgotten \subseteq Workers
      /\ told \in Int /\ silent \in Nat
  BY SMT DEF Init, States
<1> QED
  BY <1>1, <1>2 DEF TypeOK

(* Every run is well typed. *)
THEOREM TypeCorrect == Spec => []TypeOK
BY InitTyped, TypeStep, PTL DEF Spec

-----------------------------------------------------------------------------
(* Which workers run. *)

LEMMA Apart == \A t \in Threads, w \in Workers : t # w /\ t # NoThread /\ w # NoThread
BY ClientAssumption

(* A step of a thread of the application changes nothing about workers.    *)
LEMMA ThreadKeepsWorkers ==
  ASSUME TypeOK, NEW t \in Threads, NEW from, NEW to, Step(t, from, to)
  PROVE  Running' = Running /\ forgotten' = forgotten
BY Apart DEF TypeOK, Step, Running, Callers

(* A step of a running caller starts no worker, and what ends is struck    *)
(* off the forgotten.                                                       *)
LEMMA WorkerKeepsAccount ==
  ASSUME TypeOK, WorkersAccounted, NEW c \in Callers, NEW from, NEW to,
         from # "idle", Step(c, from, to), thread' = thread
  PROVE  WorkersAccounted'
<1>1. CASE c \in Threads
  BY <1>1, ThreadKeepsWorkers DEF WorkersAccounted
<1>2. CASE c \in Workers /\ to = "idle"
  <2>1. Running' = Running \ {c} /\ forgotten' = forgotten \ {c}
    BY <1>2 DEF TypeOK, Step, Running, Callers
  <2> QED
    BY <2>1 DEF WorkersAccounted
<1>3. CASE c \in Workers /\ to # "idle"
  <2>1. Running' = Running /\ forgotten' = forgotten
    BY <1>3 DEF TypeOK, Step, Running, Callers
  <2> QED
    BY <2>1 DEF WorkersAccounted
<1> QED
  BY <1>1, <1>2, <1>3 DEF Callers

LEMMA AccountStep == TypeOK /\ WorkersAccounted /\ [Next]_vars => WorkersAccounted'
<1> SUFFICES ASSUME TypeOK, WorkersAccounted, [Next]_vars PROVE WorkersAccounted'
  OBVIOUS
<1> USE DEF leadership, worker, history
<1>1. ASSUME NEW t \in Threads, Begin(t) PROVE WorkersAccounted'
  <2>1. CASE TryAcquireLock(t) \/ ReleaseLock(t) \/ KeepAlive(t) \/ StartRefused(t)
    <3>1. Running' = Running /\ forgotten' = forgotten /\ thread' = thread
      BY <2>1, ThreadKeepsWorkers DEF TryAcquireLock, ReleaseLock, KeepAlive, StartRefused
    <3> QED
      BY <3>1 DEF WorkersAccounted
  <2>2. ASSUME NEW w \in Workers, StartKeepAlive(t, w) PROVE WorkersAccounted'
    <3>1. forgotten = Running /\ w \notin Running
      BY <2>2 DEF StartKeepAlive, Alive, WorkersAccounted, Step, Running
    <3>2. Running' = Running \cup {w}
      BY <2>2 DEF StartKeepAlive, Step, Running, TypeOK, Callers
    <3>3. thread' = w /\ forgotten' = forgotten
      BY <2>2 DEF StartKeepAlive, Step
    <3> QED
      BY <3>1, <3>2, <3>3 DEF WorkersAccounted
  <2>3. ASSUME NEW join \in Joins, StopKeepAlive(t, join) PROVE WorkersAccounted'
    <3>1. Running' = Running /\ forgotten' = forgotten /\ thread' = thread
      BY <2>3, ThreadKeepsWorkers DEF StopKeepAlive
    <3> QED
      BY <3>1 DEF WorkersAccounted
  <2> QED
    BY <1>1, <2>1, <2>2, <2>3 DEF Begin
<1>2. ASSUME NEW t \in Threads, Finish(t) PROVE WorkersAccounted'
  <2>1. CASE \/ \E answer \in BOOLEAN : AcquireAnswer(t, answer)
             \/ AcquireError(t) \/ ReleaseDone(t) \/ ReleaseError(t) \/ CloseChannel(t)
    <3>1. Running' = Running /\ forgotten' = forgotten /\ thread' = thread
      BY <2>1, ThreadKeepsWorkers
      DEF AcquireAnswer, AcquireError, ReleaseDone, ReleaseError, CloseChannel
    <3> QED
      BY <3>1 DEF WorkersAccounted
  <2>2. ASSUME NEW join \in Joins, JoinEnds(t, join) PROVE WorkersAccounted'
    <3>1. Running' = Running
      BY <2>2, Apart DEF JoinEnds, Running, TypeOK, Callers
    <3>2. thread' = NoThread /\ NoThread \notin Running
      BY <2>2, Apart DEF JoinEnds, Running
    <3>3. forgotten' = forgotten \cup {w \in Running : w = thread}
      BY <2>2 DEF JoinEnds
    <3>4. forgotten' = Running
      BY <3>3 DEF WorkersAccounted
    <3> QED
      BY <3>1, <3>2, <3>4 DEF WorkersAccounted
  <2> QED
    BY <1>2, <2>1, <2>2 DEF Finish
<1>3. ASSUME NEW w \in Workers, Works(w) PROVE WorkersAccounted'
  BY <1>3, WorkerKeepsAccount DEF Works, WorkerLoops, WorkerGivesUp, Callers
<1>4. ASSUME NEW c \in Callers, InKeepAlive(c) PROVE WorkersAccounted'
  BY <1>4, WorkerKeepsAccount
  DEF InKeepAlive, KeepAliveExtended, KeepAliveLost, KeepAliveError
<1>5. ASSUME NEW c \in Callers, CallsBack(c) PROVE WorkersAccounted'
  BY <1>5, WorkerKeepsAccount DEF CallsBack, OnLeaderElected, OnLeaderLost
<1>6. CASE UNCHANGED vars
  BY <1>6 DEF vars, WorkersAccounted, Running
<1> QED
  BY <1>1, <1>2, <1>3, <1>4, <1>5, <1>6 DEF Next

(* Workers that run are the one remembered and those whose join timed out. *)
THEOREM WorkersKnown == Spec => []WorkersAccounted
<1>1. Init => WorkersAccounted
  BY DEF Init, WorkersAccounted, Running, Callers
<1> QED
  BY <1>1, InitTyped, TypeStep, AccountStep, PTL DEF Spec

-----------------------------------------------------------------------------
(* Callback accounting. *)

(* How many callers a control state f puts into K. *)
Number(f, K) == Cardinality({c \in Callers : f[c] \in K})

(* How such a number changes from before to after when one caller was in   *)
(* K, or not, and is in K afterwards, or not.                              *)
Moved(before, after, was, is) ==
  /\ before \in Nat /\ after \in Nat
  /\ was /\ ~is => after = before - 1
  /\ ~was /\ is => after = before + 1
  /\ (was <=> is) => after = before

LEMMA CountMoves ==
  ASSUME NEW f \in [Callers -> States], NEW x \in Callers, NEW to,
         NEW g, g = [f EXCEPT ![x] = to], NEW K
  PROVE  Moved(Number(f, K), Number(g, K), f[x] \in K, to \in K)
<1> DEFINE B == {c \in Callers : f[c] \in K}
           A == {c \in Callers : g[c] \in K}
<1>0. IsFiniteSet(Callers)
  BY ClientAssumption, FS_Union DEF Callers
<1>1. IsFiniteSet(B) /\ IsFiniteSet(A)
  BY <1>0, FS_Subset
<1>2. Cardinality(B) \in Nat /\ Cardinality(A) \in Nat
  BY <1>1, FS_CardinalityType
<1>3. ASSUME f[x] \in K, to \notin K PROVE Cardinality(A) = Cardinality(B) - 1
  <2>1. A = B \ {x} /\ x \in B
    BY <1>3
  <2> QED
    BY <2>1, <1>1, FS_RemoveElement
<1>4. ASSUME f[x] \notin K, to \in K PROVE Cardinality(A) = Cardinality(B) + 1
  <2>1. A = B \cup {x} /\ x \notin B
    BY <1>4
  <2> QED
    BY <2>1, <1>1, FS_AddElement
<1>5. ASSUME f[x] \in K <=> to \in K PROVE A = B
  BY <1>5
<1> QED
  BY <1>2, <1>3, <1>4, <1>5 DEF Number, Moved

LosingStates == {"releasingLead", "losing", "losingLocked"}
Electing == In({"electing"})
Losing == In(LosingStates)

(* The counts after one caller's step.  The step is given by its effect on *)
(* pc, so that JoinEnds, which is no Step, is covered too.                 *)
LEMMA StepMoves ==
  ASSUME TypeOK, NEW c \in Callers, NEW from, NEW to,
         pc[c] = from, pc' = [pc EXCEPT ![c] = to]
  PROVE  /\ Electing \in Nat /\ Electing' \in Nat /\ Losing \in Nat /\ Losing' \in Nat
         /\ from = "electing" /\ to # "electing" => Electing' = Electing - 1
         /\ from # "electing" /\ to = "electing" => Electing' = Electing + 1
         /\ from # "electing" /\ to # "electing" => Electing' = Electing
         /\ from \in LosingStates /\ to \notin LosingStates => Losing' = Losing - 1
         /\ from \notin LosingStates /\ to \in LosingStates => Losing' = Losing + 1
         /\ (from \in LosingStates <=> to \in LosingStates) => Losing' = Losing
<1>1. pc \in [Callers -> States]
  BY DEF TypeOK
<1>2. Moved(Number(pc, {"electing"}), Number(pc', {"electing"}),
            pc[c] \in {"electing"}, to \in {"electing"})
  BY <1>1, CountMoves, Zenon
<1>3. Moved(Number(pc, LosingStates), Number(pc', LosingStates),
            pc[c] \in LosingStates, to \in LosingStates)
  BY <1>1, CountMoves, Zenon
<1>4. /\ Electing = Number(pc, {"electing"}) /\ Electing' = Number(pc', {"electing"})
      /\ Losing = Number(pc, LosingStates) /\ Losing' = Number(pc', LosingStates)
  BY DEF Electing, Losing, In, Number
<1> QED
  BY <1>2, <1>3, <1>4 DEF Moved

LEMMA StatesApart ==
  /\ "releasingLead" \in LosingStates /\ "losing" \in LosingStates
  /\ "losingLocked" \in LosingStates
  /\ "idle" \notin LosingStates /\ "acquiring" \notin LosingStates
  /\ "electing" \notin LosingStates
  /\ "idle" # "electing" /\ "acquiring" # "electing" /\ "releasingLead" # "electing"
  /\ "losing" # "electing" /\ "losingLocked" # "electing"
BY DEF LosingStates

(* A step between control states that stand for no callback. *)
LEMMA QuietStep ==
  ASSUME TypeOK, NEW c \in Callers, NEW from, NEW to,
         pc[c] = from, pc' = [pc EXCEPT ![c] = to],
         from \notin LosingStates \cup {"electing"}, to \notin LosingStates \cup {"electing"}
  PROVE  Electing' = Electing /\ Losing' = Losing
BY StepMoves

(* A step by which a loss becomes due exactly when there was leadership.   *)
LEMMA LossStep ==
  ASSUME TypeOK, NEW c \in Callers, NEW from, NEW due \in LosingStates, NEW quiet,
         from \notin LosingStates \cup {"electing"},
         quiet \notin LosingStates \cup {"electing"},
         Step(c, from, IF isLeader THEN due ELSE quiet), isLeader' = FALSE
  PROVE  Electing' = Electing /\ Losing' = Losing + Lead /\ Lead' = 0
<1>1. Lead' = 0
  BY DEF Lead
<1>2. CASE isLeader
  <2>1. pc[c] = from /\ pc' = [pc EXCEPT ![c] = due] /\ Lead = 1
    BY <1>2 DEF Step, Lead
  <2>2. due # "electing"
    BY DEF LosingStates
  <2> QED
    BY <1>1, <2>1, <2>2, StepMoves
<1>3. CASE ~isLeader
  <2>1. pc[c] = from /\ pc' = [pc EXCEPT ![c] = quiet] /\ Lead = 0
    BY <1>3 DEF Step, Lead
  <2>2. Losing \in Nat
    BY <2>1, StepMoves
  <2>3. Electing' = Electing /\ Losing' = Losing
    BY <2>1, QuietStep
  <2> QED
    BY <1>1, <2>1, <2>2, <2>3
<1> QED
  BY <1>2, <1>3

(* The balance in terms of the counts, as the steps below use it. *)
Balance == told + Electing = Lead + silent + Losing

LEMMA BalanceIs == CallbacksBalance <=> Balance
BY DEF CallbacksBalance, Balance, Electing, Losing, LosingStates

LEMMA NumbersTyped ==
  TypeOK => told \in Int /\ silent \in Nat /\ Lead \in {0, 1} /\ Electing \in Nat /\ Losing \in Nat
<1> SUFFICES ASSUME TypeOK
             PROVE  /\ told \in Int /\ silent \in Nat /\ Lead \in {0, 1}
                    /\ Electing \in Nat /\ Losing \in Nat
  OBVIOUS
<1>1. IsFiniteSet(Callers)
  BY ClientAssumption, FS_Union DEF Callers
<1>2. \A K : IsFiniteSet({c \in Callers : pc[c] \in K})
  BY <1>1, FS_Subset
<1> QED
  BY <1>2, FS_CardinalityType, LeadTyped DEF TypeOK, Electing, Losing, In

LEMMA BalanceStep == TypeOK /\ Balance /\ [Next]_vars => Balance'
<1> SUFFICES ASSUME TypeOK, Balance, [Next]_vars PROVE Balance'
  OBVIOUS
<1> USE NumbersTyped DEF leadership, worker, history
<1>0. UNCHANGED isLeader => Lead' = Lead
  BY DEF Lead
<1>1. ASSUME NEW t \in Threads, Begin(t) PROVE Balance'
  <2>0. t \in Callers
    BY DEF Callers
  <2>1. CASE TryAcquireLock(t) \/ KeepAlive(t) \/ StartRefused(t)
    <3>1. Electing' = Electing /\ Losing' = Losing
      BY <2>0, <2>1, QuietStep
      DEF TryAcquireLock, KeepAlive, StartRefused, Step, LosingStates
    <3> QED
      BY <2>1, <3>1, <1>0 DEF TryAcquireLock, KeepAlive, StartRefused, Balance
  <2>2. CASE ReleaseLock(t) /\ closed
    <3>1. Electing' = Electing /\ Losing' = Losing
      BY <2>0, <2>2, QuietStep DEF ReleaseLock, Step, LosingStates
    <3>2. Lead' = 0 /\ silent' = silent + Lead /\ told' = told
      BY <2>2 DEF ReleaseLock, Lead
    <3> QED
      BY <3>1, <3>2 DEF Balance
  <2>3. CASE ReleaseLock(t) /\ ~closed
    <3>1. Electing' = Electing /\ Losing' = Losing + Lead /\ Lead' = 0
      BY <2>0, <2>3, LossStep DEF ReleaseLock, LosingStates
    <3>2. silent' = silent /\ told' = told
      BY <2>3 DEF ReleaseLock
    <3> QED
      BY <3>1, <3>2 DEF Balance
  <2>4. ASSUME NEW w \in Workers, StartKeepAlive(t, w) PROVE Balance'
    <3>1. Electing' = Electing /\ Losing' = Losing
      BY <2>4, QuietStep DEF StartKeepAlive, Step, LosingStates, Callers
    <3> QED
      BY <2>4, <3>1, <1>0 DEF StartKeepAlive, Balance
  <2>5. ASSUME NEW join \in Joins, StopKeepAlive(t, join) PROVE Balance'
    <3>1. Electing' = Electing /\ Losing' = Losing
      <4>1. CASE Alive
        BY <2>0, <2>5, <4>1, QuietStep DEF StopKeepAlive, Step, LosingStates, Joins
      <4>2. CASE ~Alive
        BY <2>0, <2>5, <4>2, QuietStep DEF StopKeepAlive, Step, LosingStates, After
      <4> QED
        BY <4>1, <4>2
    <3> QED
      BY <2>5, <3>1, <1>0 DEF StopKeepAlive, Balance
  <2> QED
    BY <1>1, <2>1, <2>2, <2>3, <2>4, <2>5 DEF Begin
<1>2. ASSUME NEW t \in Threads, Finish(t) PROVE Balance'
  <2>0. t \in Callers
    BY DEF Callers
  <2>1. ASSUME NEW answer \in BOOLEAN, AcquireAnswer(t, answer) PROVE Balance'
    <3>1. told' = told /\ silent' = silent
      BY <2>1 DEF AcquireAnswer
    <3>2. isLeader \in BOOLEAN /\ isLeader' = answer
      BY <2>1, Zenon DEF AcquireAnswer, TypeOK
    <3>3. CASE isLeader = answer
      <4>0. Step(t, "acquiring", "idle")
        BY <2>1, <3>3 DEF AcquireAnswer
      <4>1. pc[t] = "acquiring" /\ pc' = [pc EXCEPT ![t] = "idle"] /\ Lead' = Lead
        BY <4>0, <3>2, <3>3 DEF Step, Lead
      <4>2. Electing' = Electing /\ Losing' = Losing
        BY <2>0, <4>1, QuietStep DEF LosingStates
      <4> QED
        BY <3>1, <4>1, <4>2 DEF Balance
    <3>4. CASE ~isLeader /\ answer
      <4>0. isLeader # answer
        BY <3>2, <3>4
      <4>1. pc[t] = "acquiring" /\ pc' = [pc EXCEPT ![t] = "electing"]
        BY <2>1, <3>4, <4>0 DEF AcquireAnswer, Step
      <4>3. Lead = 0 /\ Lead' = 1
        BY <3>2, <3>4, Zenon DEF Lead
      <4>2. Electing' = Electing + 1 /\ Losing' = Losing
        BY <2>0, <4>1, StepMoves, StatesApart
      <4> QED
        BY <3>1, <4>2, <4>3 DEF Balance
    <3>5. CASE isLeader /\ ~answer
      <4>0. isLeader # answer
        BY <3>2, <3>5
      <4>1. pc[t] = "acquiring" /\ pc' = [pc EXCEPT ![t] = "losing"]
        BY <2>1, <3>5, <4>0 DEF AcquireAnswer, Step
      <4>3. Lead = 1 /\ Lead' = 0
        BY <3>2, <3>5, Zenon DEF Lead
      <4>2. Electing' = Electing /\ Losing' = Losing + 1
        BY <2>0, <4>1, StepMoves, StatesApart
      <4> QED
        BY <3>1, <4>2, <4>3 DEF Balance
    <3> QED
      BY <3>2, <3>3, <3>4, <3>5, Zenon
  <2>2. CASE AcquireError(t) \/ CloseChannel(t)
    <3>1. Electing' = Electing /\ Losing' = Losing
      BY <2>0, <2>2, QuietStep DEF AcquireError, CloseChannel, Step, LosingStates
    <3> QED
      BY <2>2, <3>1, <1>0 DEF AcquireError, CloseChannel, Balance
  <2>3. CASE ReleaseDone(t)
    <3>1. Electing' = Electing /\ Losing' = Losing
      BY <2>0, <2>3, StepMoves DEF ReleaseDone, Step, LosingStates
    <3> QED
      BY <2>3, <3>1, <1>0 DEF ReleaseDone, Balance
  <2>4. CASE ReleaseError(t)
    <3>1. CASE Step(t, "releasing", "idle") /\ UNCHANGED silent
      <4>1. Electing' = Electing /\ Losing' = Losing
        BY <2>0, <3>1, QuietStep DEF Step, LosingStates
      <4> QED
        BY <2>4, <3>1, <4>1, <1>0 DEF ReleaseError, Balance
    <3>2. CASE Step(t, "releasingLead", "idle") /\ silent' = silent + 1
      <4>1. Electing' = Electing /\ Losing' = Losing - 1
        BY <2>0, <3>2, StepMoves, StatesApart DEF Step
      <4> QED
        BY <2>4, <3>2, <4>1, <1>0 DEF ReleaseError, Balance
    <3> QED
      BY <2>4, <3>1, <3>2 DEF ReleaseError
  <2>5. ASSUME NEW join \in Joins, JoinEnds(t, join) PROVE Balance'
    <3>1. Electing' = Electing /\ Losing' = Losing
      BY <2>0, <2>5, QuietStep DEF JoinEnds, LosingStates, Joins, After
    <3> QED
      BY <2>5, <3>1, <1>0 DEF JoinEnds, Balance
  <2> QED
    BY <1>2, <2>1, <2>2, <2>3, <2>4, <2>5 DEF Finish
<1>3. ASSUME NEW w \in Workers, Works(w) PROVE Balance'
  <2>0. w \in Callers
    BY DEF Callers
  <2>1. CASE WorkerLoops(w)
    <3>1. Electing' = Electing /\ Losing' = Losing
      BY <2>0, <2>1, QuietStep DEF WorkerLoops, Step, LosingStates
    <3> QED
      BY <2>1, <3>1, <1>0 DEF WorkerLoops, Balance
  <2>2. CASE WorkerGivesUp(w)
    <3>1. Electing' = Electing /\ Losing' = Losing + Lead /\ Lead' = 0
      BY <2>0, <2>2, LossStep DEF WorkerGivesUp, LosingStates
    <3> QED
      BY <2>2, <3>1 DEF WorkerGivesUp, Balance
  <2> QED
    BY <1>3, <2>1, <2>2 DEF Works
<1>4. ASSUME NEW c \in Callers, InKeepAlive(c) PROVE Balance'
  <2>1. CASE KeepAliveExtended(c) \/ KeepAliveError(c)
    <3>1. Electing' = Electing /\ Losing' = Losing
      BY <2>1, QuietStep DEF KeepAliveExtended, KeepAliveError, Step, LosingStates
    <3> QED
      BY <2>1, <3>1, <1>0 DEF KeepAliveExtended, KeepAliveError, Balance
  <2>2. CASE KeepAliveLost(c)
    <3>1. Electing' = Electing /\ Losing' = Losing + Lead /\ Lead' = 0
      BY <2>2, LossStep DEF KeepAliveLost, LosingStates
    <3> QED
      BY <2>2, <3>1 DEF KeepAliveLost, Balance
  <2> QED
    BY <1>4, <2>1, <2>2 DEF InKeepAlive
<1>5. ASSUME NEW c \in Callers, CallsBack(c) PROVE Balance'
  <2>1. CASE OnLeaderElected(c)
    <3>1. Electing' = Electing - 1 /\ Losing' = Losing
      BY <2>1, StepMoves, StatesApart DEF OnLeaderElected, Step
    <3> QED
      BY <2>1, <3>1, <1>0 DEF OnLeaderElected, Balance
  <2>2. CASE OnLeaderLost(c)
    <3>1. Electing' = Electing /\ Losing' = Losing - 1
      BY <2>2, StepMoves, StatesApart DEF OnLeaderLost, Step
    <3> QED
      BY <2>2, <3>1, <1>0 DEF OnLeaderLost, Balance
  <2> QED
    BY <1>5, <2>1, <2>2 DEF CallsBack
<1>6. CASE UNCHANGED vars
  BY <1>6 DEF vars, Balance, Lead, Electing, Losing, In
<1> QED
  BY <1>1, <1>2, <1>3, <1>4, <1>5, <1>6 DEF Next

(* No race of threads and workers makes the callbacks tell a story that    *)
(* does not add up to is_leader.                                           *)
THEOREM CallbacksAddUp == Spec => []CallbacksBalance
<1>1. Init => Balance
  <2> SUFFICES ASSUME Init PROVE Balance
    OBVIOUS
  <2>1. {c \in Callers : pc[c] \in {"electing"}} = {}
    BY DEF Init
  <2>2. {c \in Callers : pc[c] \in LosingStates} = {}
    BY DEF Init, LosingStates
  <2>3. Electing = 0 /\ Losing = 0
    BY <2>1, <2>2, FS_EmptySet DEF Electing, Losing, In
  <2>4. Lead = 0
    BY Zenon DEF Init, Lead
  <2> QED
    BY <2>3, <2>4 DEF Init, Balance
<1> QED
  BY <1>1, InitTyped, TypeStep, BalanceStep, BalanceIs, PTL DEF Spec
=============================================================================

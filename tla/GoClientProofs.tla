--------------------------- MODULE GoClientProofs ---------------------------
(***************************************************************************)
(* Proofs about GoClient, for any number of goroutines: the bookkeeping of *)
(* keep-alive goroutines and the accounting of callbacks.                  *)
(***************************************************************************)
EXTENDS GoClient, FiniteSetTheorems, TLAPS

LEMMA InitTyped == Init => TypeOK
<1> SUFFICES ASSUME Init PROVE TypeOK
  OBVIOUS
<1>1. isLeader \in BOOLEAN /\ leased \in BOOLEAN
  BY Zenon DEF Init
<1>2. /\ notifyStop \in {"nil", "open", "closed"}
      /\ mu \in Threads \cup {NoOne}
      /\ pc \in [Threads -> ThreadStates]
      /\ loop \in [Loops -> LoopStates]
      /\ pending \in [Callbacks -> Nat]
      /\ told \in Int /\ silent \in Nat
      /\ lastTold \in Callbacks \cup {"nothing"}
  BY SMT DEF Init, Callbacks, ThreadStates, LoopStates
<1>3. /\ \A t \in Threads : (mu = t) <=> (pc[t] \in {"stopWait", "closeWait"})
      /\ (notifyStop = "closed") <=> (mu # NoOne)
  BY ClientAssumption, SMT DEF Init
<1> QED
  BY <1>1, <1>2, <1>3 DEF TypeOK

(* How many elements of S a function f takes to k. *)
Number(S, f, k) == Count({y \in S : f[y] = k})

(* How such a number changes from before to after when one element's value *)
(* was k, or not, and is k afterwards, or not.                              *)
Moved(before, after, was, is) ==
  /\ before \in Nat /\ after \in Nat
  /\ was /\ ~is => after = before - 1
  /\ ~was /\ is => after = before + 1
  /\ (was <=> is) => after = before

(* One step of a thread or goroutine x changes the number of those in a    *)
(* given control state k accordingly.                                       *)
LEMMA CountMoves ==
  ASSUME NEW S, IsFiniteSet(S), NEW T, NEW f \in [S -> T],
         NEW x \in S, NEW to, NEW g, g = [f EXCEPT ![x] = to], NEW k
  PROVE  Moved(Number(S, f, k), Number(S, g, k), f[x] = k, to = k)
<1> DEFINE B == {y \in S : f[y] = k}
           A == {y \in S : g[y] = k}
<1>1. IsFiniteSet(B) /\ IsFiniteSet(A)
  BY FS_Subset
<1>2. Cardinality(B) \in Nat /\ Cardinality(A) \in Nat
  BY <1>1, FS_CardinalityType
<1>3. ASSUME f[x] = k, to # k PROVE Cardinality(A) = Cardinality(B) - 1
  <2>1. A = B \ {x} /\ x \in B
    BY <1>3
  <2> QED
    BY <2>1, <1>1, FS_RemoveElement
<1>4. ASSUME f[x] # k, to = k PROVE Cardinality(A) = Cardinality(B) + 1
  <2>1. A = B \cup {x} /\ x \notin B
    BY <1>4
  <2> QED
    BY <2>1, <1>1, FS_AddElement
<1>5. ASSUME f[x] = k <=> to = k PROVE A = B
  BY <1>5
<1> QED
  BY <1>2, <1>3, <1>4, <1>5 DEF Count, Number, Moved

LEMMA TypeStep == TypeOK /\ [Next]_vars => TypeOK'
<1> SUFFICES ASSUME TypeOK, [Next]_vars PROVE TypeOK'
  OBVIOUS
<1> USE ClientAssumption
    DEF TypeOK, Callbacks, ThreadStates, LoopStates, Step, LoopStep, Spawn,
        Call, Locked, history, channel
<1>1. ASSUME NEW t \in Threads, Begin(t) PROVE TypeOK'
  <2>1. CASE TryAcquireLock(t)
    BY <2>1 DEF TryAcquireLock
  <2>2. CASE ReleaseLock(t)
    BY <2>2 DEF ReleaseLock
  <2>3. CASE StartRefused(t)
    BY <2>3 DEF StartRefused
  <2>4. ASSUME NEW g \in Loops, StartKeepAlive(t, g) PROVE TypeOK'
    BY <2>4 DEF StartKeepAlive
  <2>5. ASSUME NEW w \in {"stopWait", "closeWait"}, StopKeepAlive(t, w) PROVE TypeOK'
    BY <2>5 DEF StopKeepAlive
  <2> QED
    BY <1>1, <2>1, <2>2, <2>3, <2>4, <2>5 DEF Begin
<1>2. ASSUME NEW t \in Threads, Finish(t) PROVE TypeOK'
  <2>1. ASSUME NEW answer \in BOOLEAN, AcquireAnswer(t, answer) PROVE TypeOK'
    BY <2>1 DEF AcquireAnswer, Announce
  <2>2. CASE AcquireError(t)
    BY <2>2 DEF AcquireError
  <2>3. CASE ReleaseDone(t)
    BY <2>3 DEF ReleaseDone
  <2>4. CASE ReleaseError(t)
    BY <2>4 DEF ReleaseError
  <2>5. ASSUME NEW w \in {"stopWait", "closeWait"}, StopReturns(t, w) PROVE TypeOK'
    BY <2>5 DEF StopReturns
  <2> QED
    BY <1>2, <2>1, <2>2, <2>3, <2>4, <2>5 DEF Finish
<1>3. ASSUME NEW g \in Loops, Loop(g) PROVE TypeOK'
  <2>1. CASE LoopStops(g) \/ LoopTicks(g) \/ KeepAliveError(g)
    BY <2>1 DEF LoopStops, LoopTicks, KeepAliveError
  <2>2. CASE KeepAliveExtended(g)
    BY <2>2 DEF KeepAliveExtended
  <2>3. CASE KeepAliveLost(g)
    BY <2>3 DEF KeepAliveLost
  <2>4. CASE KeepAliveCallback(g)
    BY <2>4 DEF KeepAliveCallback
  <2>5. CASE LoopGivesUp(g)
    <3>1. isLeader' \in BOOLEAN /\ leased' \in BOOLEAN
      BY <2>5, Zenon DEF LoopGivesUp
    <3>2. pending' \in [Callbacks -> Nat]
      BY <2>5 DEF LoopGivesUp
    <3>3. loop' \in [Loops -> LoopStates]
      BY <2>5 DEF LoopGivesUp
    <3> QED
      BY <2>5, <3>1, <3>2, <3>3 DEF LoopGivesUp
  <2> QED
    BY <1>3, <2>1, <2>2, <2>3, <2>4, <2>5 DEF Loop
<1>4. ASSUME NEW k \in Callbacks, CallbackRuns(k) PROVE TypeOK'
  BY <1>4 DEF CallbackRuns
<1>5. CASE UNCHANGED vars
  BY <1>5 DEF vars
<1> QED
  BY <1>1, <1>2, <1>3, <1>4, <1>5 DEF Next

(* Every run is well typed. *)
THEOREM TypeCorrect == Spec => []TypeOK
  BY InitTyped, TypeStep, PTL DEF Spec

(* Keep-alive goroutines: only StartKeepAlive starts one, and only when the *)
(* channel is nil.                                                          *)
LEMMA LoopsStep == TypeOK /\ LoopsMatchStop /\ [Next]_vars => LoopsMatchStop'
<1> SUFFICES ASSUME TypeOK, LoopsMatchStop, [Next]_vars PROVE LoopsMatchStop'
  OBVIOUS
<1> USE DEF TypeOK, LoopsMatchStop, Running, Step, LoopStep, Call, Locked,
        history, channel
<1>1. ASSUME NEW t \in Threads, Begin(t) PROVE LoopsMatchStop'
  <2>1. CASE TryAcquireLock(t) \/ ReleaseLock(t) \/ StartRefused(t)
    BY <2>1 DEF TryAcquireLock, ReleaseLock, StartRefused
  <2>2. ASSUME NEW g \in Loops, StartKeepAlive(t, g) PROVE LoopsMatchStop'
    BY <2>2 DEF StartKeepAlive
  <2>3. ASSUME NEW w \in {"stopWait", "closeWait"}, StopKeepAlive(t, w)
        PROVE  LoopsMatchStop'
    BY <2>3 DEF StopKeepAlive
  <2> QED
    BY <1>1, <2>1, <2>2, <2>3 DEF Begin
<1>2. ASSUME NEW t \in Threads, Finish(t) PROVE LoopsMatchStop'
  <2>1. ASSUME NEW answer \in BOOLEAN, AcquireAnswer(t, answer) PROVE LoopsMatchStop'
    BY <2>1 DEF AcquireAnswer
  <2>2. CASE AcquireError(t) \/ ReleaseDone(t) \/ ReleaseError(t)
    BY <2>2 DEF AcquireError, ReleaseDone, ReleaseError
  <2>3. ASSUME NEW w \in {"stopWait", "closeWait"}, StopReturns(t, w)
        PROVE  LoopsMatchStop'
    BY <2>3 DEF StopReturns
  <2> QED
    BY <1>2, <2>1, <2>2, <2>3 DEF Finish
<1>3. ASSUME NEW g \in Loops, Loop(g) PROVE LoopsMatchStop'
  <2>1. g \in Running /\ Running' \subseteq Running /\ notifyStop' = notifyStop
    BY <1>3 DEF Loop, LoopStops, LoopTicks, KeepAliveExtended, KeepAliveLost,
       KeepAliveCallback, KeepAliveError, LoopGivesUp
  <2> QED
    BY <2>1
<1>4. ASSUME NEW k \in Callbacks, CallbackRuns(k) PROVE LoopsMatchStop'
  BY <1>4 DEF CallbackRuns
<1>5. CASE UNCHANGED vars
  BY <1>5 DEF vars
<1> QED
  BY <1>1, <1>2, <1>3, <1>4, <1>5 DEF Next

(* At most one keep-alive goroutine, and none once StopKeepAlive returned. *)
THEOREM OneLoop == Spec => []LoopsMatchStop
<1>1. Init => LoopsMatchStop
  BY DEF Init, LoopsMatchStop, Running
<1> QED
  BY <1>1, InitTyped, TypeStep, LoopsStep, PTL DEF Spec

-----------------------------------------------------------------------------
(* Callback accounting. *)

Lead == IF isLeader THEN 1 ELSE 0
Releasing == Number(Threads, pc, "releasingLead")
Calling == Number(Loops, loop, "callback")

LEMMA ThreadMoves ==
  ASSUME TypeOK, NEW t \in Threads, NEW from, NEW to, Step(t, from, to)
  PROVE  /\ Releasing \in Nat /\ Releasing' \in Nat
         /\ from = "releasingLead" /\ to # "releasingLead" => Releasing' = Releasing - 1
         /\ from # "releasingLead" /\ to = "releasingLead" => Releasing' = Releasing + 1
         /\ from # "releasingLead" /\ to # "releasingLead" => Releasing' = Releasing
<1>1. /\ pc \in [Threads -> ThreadStates] /\ IsFiniteSet(Threads)
      /\ pc[t] = from /\ pc' = [pc EXCEPT ![t] = to]
  BY ClientAssumption DEF TypeOK, Step
<1>2. Releasing' = Number(Threads, pc', "releasingLead")
  BY DEF Releasing
<1>3. Moved(Number(Threads, pc, "releasingLead"), Number(Threads, pc', "releasingLead"),
            pc[t] = "releasingLead", to = "releasingLead")
  BY <1>1, CountMoves, Zenon
<1> QED
  BY <1>1, <1>2, <1>3 DEF Releasing, Moved

LEMMA LoopMoves ==
  ASSUME TypeOK, NEW g \in Loops, NEW from, NEW to, LoopStep(g, from, to)
  PROVE  /\ Calling \in Nat /\ Calling' \in Nat
         /\ from = "callback" /\ to # "callback" => Calling' = Calling - 1
         /\ from # "callback" /\ to = "callback" => Calling' = Calling + 1
         /\ from # "callback" /\ to # "callback" => Calling' = Calling
<1>1. /\ loop \in [Loops -> LoopStates] /\ IsFiniteSet(Loops)
      /\ loop[g] = from /\ loop' = [loop EXCEPT ![g] = to]
  BY ClientAssumption DEF TypeOK, LoopStep
<1>2. Calling' = Number(Loops, loop', "callback")
  BY DEF Calling
<1>3. Moved(Number(Loops, loop, "callback"), Number(Loops, loop', "callback"),
            loop[g] = "callback", to = "callback")
  BY <1>1, CountMoves, Zenon
<1> QED
  BY <1>1, <1>2, <1>3 DEF Calling, Moved

LEMMA CountsTyped == TypeOK => Releasing \in Nat /\ Calling \in Nat
<1> SUFFICES ASSUME TypeOK PROVE Releasing \in Nat /\ Calling \in Nat
  OBVIOUS
<1>1. /\ IsFiniteSet({t \in Threads : pc[t] = "releasingLead"})
      /\ IsFiniteSet({g \in Loops : loop[g] = "callback"})
  BY ClientAssumption, FS_Subset
<1> QED
  BY <1>1, FS_CardinalityType DEF Releasing, Calling, Number, Count

LEMMA SpawnMoves ==
  ASSUME TypeOK, NEW k \in Callbacks, Spawn(k)
  PROVE  \A j \in Callbacks : pending'[j] = IF j = k THEN pending[j] + 1 ELSE pending[j]
  BY DEF TypeOK, Spawn

LEMMA AnnounceMoves ==
  ASSUME TypeOK, NEW answer \in BOOLEAN, isLeader' = answer, Announce(isLeader, answer)
  PROVE  /\ pending'["elected"] \in Nat /\ pending'["lost"] \in Nat
         /\ Lead \in {0, 1} /\ Lead' \in {0, 1}
         /\ pending'["elected"] - pending'["lost"] - Lead'
              = pending["elected"] - pending["lost"] - Lead
<1>1. /\ "elected" \in Callbacks /\ "lost" \in Callbacks /\ "elected" # "lost"
      /\ pending["elected"] \in Nat /\ pending["lost"] \in Nat
  BY DEF Callbacks, TypeOK
<1>2. CASE isLeader = answer
  <2>1. pending' = pending /\ Lead' = Lead
    BY <1>2, Zenon DEF Announce, Lead
  <2> QED
    BY <1>1, <2>1 DEF Lead
<1>3. CASE ~isLeader /\ answer
  <2>1. Spawn("elected")
    BY <1>3, Zenon DEF Announce
  <2>2. Lead = 0 /\ Lead' = 1
    BY <1>3, Zenon DEF Lead
  <2> QED
    BY <1>1, <2>1, <2>2, SpawnMoves
<1>4. CASE isLeader /\ ~answer
  <2>1. Spawn("lost")
    BY <1>4, Zenon DEF Announce
  <2>2. Lead = 1 /\ Lead' = 0
    BY <1>4, Zenon DEF Lead
  <2> QED
    BY <1>1, <2>1, <2>2, SpawnMoves
<1>5. isLeader \in BOOLEAN
  BY DEF TypeOK
<1> QED
  BY <1>2, <1>3, <1>4, <1>5

(* The balance in terms of the counts, as the steps below use it. *)
Balance ==
  told + pending["elected"] = Lead + pending["lost"] + silent + Releasing + Calling

LEMMA BalanceIs == CallbacksBalance <=> Balance
  BY DEF CallbacksBalance, Balance, Lead, Releasing, Calling, Number

LEMMA PendingTyped ==
  TypeOK => /\ pending["elected"] \in Nat /\ pending["lost"] \in Nat
            /\ told \in Int /\ silent \in Nat
            /\ Lead \in {0, 1}
  BY DEF TypeOK, Callbacks, Lead

LEMMA ThreadBalance ==
  ASSUME TypeOK, Balance, NEW t \in Threads, Begin(t) \/ Finish(t)
  PROVE  Balance'
<1> USE PendingTyped, CountsTyped DEF Balance
<1>1. UNCHANGED loop => Calling' = Calling
  BY DEF Calling
<1>2. UNCHANGED isLeader => Lead' = Lead
  BY DEF Lead
<1>3. "elected" \in Callbacks /\ "lost" \in Callbacks /\ "notElected" \in Callbacks
  BY DEF Callbacks
<1>4. CASE TryAcquireLock(t) \/ StartRefused(t) \/ AcquireError(t)
  <2>1. Releasing' = Releasing
    BY <1>4, ThreadMoves DEF TryAcquireLock, StartRefused, AcquireError, Call
  <2> QED
    BY <1>4, <2>1, <1>1, <1>2
    DEF TryAcquireLock, StartRefused, AcquireError, history, channel
<1>5. ASSUME NEW g \in Loops, StartKeepAlive(t, g) PROVE Balance'
  <2>1. Releasing' = Releasing
    BY <1>5, ThreadMoves DEF StartKeepAlive, Call
  <2>2. Calling' = Calling
    BY <1>5, LoopMoves DEF StartKeepAlive
  <2> QED
    BY <1>5, <2>1, <2>2, <1>2 DEF StartKeepAlive, history
<1>6. ASSUME NEW w \in {"stopWait", "closeWait"}, StopKeepAlive(t, w) \/ StopReturns(t, w)
      PROVE  Balance'
  <2>1. Releasing' = Releasing
    BY <1>6, ThreadMoves DEF StopKeepAlive, StopReturns, Call
  <2> QED
    BY <1>6, <2>1, <1>1, <1>2 DEF StopKeepAlive, StopReturns, history
<1>7. CASE ReleaseLock(t)
  <2>1. Releasing' = Releasing + Lead
    <3>1. CASE isLeader
      BY <1>7, <3>1, ThreadMoves DEF ReleaseLock, Call, Lead
    <3>2. CASE ~isLeader
      BY <1>7, <3>2, ThreadMoves DEF ReleaseLock, Call, Lead
    <3> QED
      BY <3>1, <3>2
  <2>2. Lead' = 0
    BY <1>7 DEF ReleaseLock, Lead
  <2> QED
    BY <1>7, <2>1, <2>2, <1>1 DEF ReleaseLock, history, channel
<1>8. ASSUME NEW answer \in BOOLEAN, AcquireAnswer(t, answer) PROVE Balance'
  <2>1. Releasing' = Releasing
    BY <1>8, ThreadMoves DEF AcquireAnswer
  <2>2. Calling' = Calling /\ told' = told /\ silent' = silent
    BY <1>8, <1>1 DEF AcquireAnswer, channel, history
  <2> QED
    BY <1>8, <2>1, <2>2, AnnounceMoves DEF AcquireAnswer
<1>9. CASE ReleaseDone(t)
  <2>1. CASE Step(t, "releasing", "idle") /\ UNCHANGED pending
    BY <1>9, <2>1, ThreadMoves, <1>1, <1>2 DEF ReleaseDone, channel, history
  <2>2. CASE Step(t, "releasingLead", "idle") /\ Spawn("lost")
    <3>1. Releasing' = Releasing - 1
      BY <2>2, ThreadMoves
    <3>2. pending'["lost"] = pending["lost"] + 1 /\ pending'["elected"] = pending["elected"]
      BY <2>2, <1>3, SpawnMoves
    <3> QED
      BY <1>9, <3>1, <3>2, <1>1, <1>2 DEF ReleaseDone, channel, history
  <2> QED
    BY <1>9, <2>1, <2>2 DEF ReleaseDone
<1>10. CASE ReleaseError(t)
  <2>1. CASE Step(t, "releasing", "idle") /\ UNCHANGED silent
    BY <1>10, <2>1, ThreadMoves, <1>1, <1>2 DEF ReleaseError, channel, history
  <2>2. CASE Step(t, "releasingLead", "idle") /\ silent' = silent + 1
    <3>1. Releasing' = Releasing - 1
      BY <2>2, ThreadMoves
    <3> QED
      BY <1>10, <2>2, <3>1, <1>1, <1>2 DEF ReleaseError, channel, history
  <2> QED
    BY <1>10, <2>1, <2>2 DEF ReleaseError
<1> QED
  BY <1>4, <1>5, <1>6, <1>7, <1>8, <1>9, <1>10 DEF Begin, Finish

LEMMA LoopBalance ==
  ASSUME TypeOK, Balance, NEW g \in Loops, Loop(g)
  PROVE  Balance'
<1> USE PendingTyped, CountsTyped DEF Balance
<1>1. UNCHANGED pc => Releasing' = Releasing
  BY DEF Releasing
<1>2. UNCHANGED isLeader => Lead' = Lead
  BY DEF Lead
<1>3. CASE LoopStops(g) \/ LoopTicks(g) \/ KeepAliveError(g)
  <2>1. Calling' = Calling
    BY <1>3, LoopMoves DEF LoopStops, LoopTicks, KeepAliveError
  <2> QED
    BY <1>3, <2>1, <1>1, <1>2 DEF LoopStops, LoopTicks, KeepAliveError, history
<1>4. CASE KeepAliveExtended(g)
  <2>1. Calling' = Calling
    BY <1>4, LoopMoves DEF KeepAliveExtended
  <2> QED
    BY <1>4, <2>1, <1>1, <1>2 DEF KeepAliveExtended, history
<1>5. CASE KeepAliveLost(g)
  <2>1. Calling' = Calling + Lead
    <3>1. CASE isLeader
      BY <1>5, <3>1, LoopMoves DEF KeepAliveLost, Lead
    <3>2. CASE ~isLeader
      BY <1>5, <3>2, LoopMoves DEF KeepAliveLost, Lead
    <3> QED
      BY <3>1, <3>2
  <2>2. Lead' = 0
    BY <1>5 DEF KeepAliveLost, Lead
  <2> QED
    BY <1>5, <2>1, <2>2, <1>1 DEF KeepAliveLost, history
<1>6. CASE KeepAliveCallback(g)
  <2>1. Calling' = Calling - 1
    BY <1>6, LoopMoves DEF KeepAliveCallback
  <2>2. /\ told' = told - 1 /\ pending' = pending /\ silent' = silent
        /\ Lead' = Lead /\ Releasing' = Releasing
    BY <1>6, <1>1, <1>2 DEF KeepAliveCallback
  <2>3. /\ pending["elected"] \in Nat /\ pending["lost"] \in Nat /\ told \in Int
        /\ silent \in Nat /\ Lead \in {0, 1} /\ Releasing \in Nat /\ Calling \in Nat
    OBVIOUS
  <2>4. told + pending["elected"] = Lead + pending["lost"] + silent + Releasing + Calling
    OBVIOUS
  <2>5. told - 1 + pending["elected"]
          = Lead + pending["lost"] + silent + Releasing + (Calling - 1)
    BY <2>3, <2>4
  <2> QED
    BY <2>1, <2>2, <2>5
<1>7. CASE LoopGivesUp(g)
  <2>1. Calling' = Calling
    BY <1>7, LoopMoves DEF LoopGivesUp
  <2>2. Lead' = 0
    BY <1>7 DEF LoopGivesUp, Lead
  <2>3. pending'["lost"] = pending["lost"] + Lead /\ pending'["elected"] = pending["elected"]
    <3>1. CASE isLeader
      <4>1. Spawn("lost") /\ Lead = 1
        BY <1>7, <3>1, Zenon DEF LoopGivesUp, Lead
      <4>2. "elected" \in Callbacks /\ "lost" \in Callbacks
        BY DEF Callbacks
      <4> QED
        BY <4>1, <4>2, SpawnMoves
    <3>2. CASE ~isLeader
      <4>1. pending' = pending /\ Lead = 0
        BY <1>7, <3>2, Zenon DEF LoopGivesUp, Lead
      <4> QED
        BY <4>1
    <3> QED
      BY <3>1, <3>2
  <2> QED
    BY <1>7, <2>1, <2>2, <2>3, <1>1 DEF LoopGivesUp, history
<1> QED
  BY <1>3, <1>4, <1>5, <1>6, <1>7 DEF Loop

LEMMA CallbackBalance ==
  ASSUME TypeOK, Balance, NEW k \in Callbacks, CallbackRuns(k)
  PROVE  Balance'
<1>1. Lead' = Lead /\ Releasing' = Releasing /\ Calling' = Calling /\ silent' = silent
  BY DEF CallbackRuns, channel, Lead, Releasing, Calling
<1>2. pending' = [pending EXCEPT ![k] = @ - 1] /\ pending \in [Callbacks -> Nat]
  BY DEF CallbackRuns, TypeOK
<1>3. told' = CASE k = "elected" -> told + 1 [] k = "lost" -> told - 1 [] OTHER -> told
  BY DEF CallbackRuns
<1>4. /\ pending["elected"] \in Nat /\ pending["lost"] \in Nat
      /\ pending'["elected"] = pending["elected"] - IF k = "elected" THEN 1 ELSE 0
      /\ pending'["lost"] = pending["lost"] - IF k = "lost" THEN 1 ELSE 0
  BY <1>2 DEF Callbacks
<1> QED
  BY <1>1, <1>3, <1>4, PendingTyped, CountsTyped DEF Balance, Callbacks

(* No race of TryAcquireLock, ReleaseLock and the keep-alive goroutine     *)
(* makes the callbacks tell a story that does not add up to isLeader.      *)
THEOREM CallbacksAddUp == Spec => []CallbacksBalance
<1>1. Init => Balance
  <2> SUFFICES ASSUME Init PROVE Balance
    OBVIOUS
  <2>1. {t \in Threads : pc[t] = "releasingLead"} = {}
    BY DEF Init
  <2>2. {g \in Loops : loop[g] = "callback"} = {}
    BY DEF Init
  <2>3. Releasing = 0 /\ Calling = 0
    BY <2>1, <2>2, FS_EmptySet DEF Releasing, Calling, Number, Count
  <2>4. Lead = 0
    BY Zenon DEF Init, Lead
  <2> QED
    BY <2>3, <2>4 DEF Init, Balance, Callbacks
<1>2. TypeOK /\ Balance /\ [Next]_vars => Balance'
  <2> SUFFICES ASSUME TypeOK, Balance, [Next]_vars PROVE Balance'
    OBVIOUS
  <2>1. CASE UNCHANGED vars
    BY <2>1 DEF vars, Balance, Lead, Releasing, Calling
  <2>2. ASSUME NEW t \in Threads, Begin(t) \/ Finish(t) PROVE Balance'
    BY <2>2, ThreadBalance
  <2>3. ASSUME NEW g \in Loops, Loop(g) PROVE Balance'
    BY <2>3, LoopBalance
  <2>4. ASSUME NEW k \in Callbacks, CallbackRuns(k) PROVE Balance'
    BY <2>4, CallbackBalance
  <2> QED
    BY <2>1, <2>2, <2>3, <2>4 DEF Next
<1> QED
  BY <1>1, <1>2, InitTyped, TypeStep, BalanceIs, PTL DEF Spec
=============================================================================

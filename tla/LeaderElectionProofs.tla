------------------------ MODULE LeaderElectionProofs ------------------------
(***************************************************************************)
(* Proofs about LeaderElection, for any number of applications, ttls and   *)
(* timeouts: how long a leader that is kept alive may go on without the    *)
(* lock.  And about LockService, the contract the election rests on.       *)
(***************************************************************************)
EXTENDS LeaderElection, TLAPS

LEMMA Durations ==
  ASSUME NEW c \in Clients
  PROVE  /\ RefreshInterval(c) \in Nat \ {0}
         /\ TTL[c] \in Nat \ {0} /\ CallTimeout \in Nat /\ c # NoClient
<1>1. TTL[c] \in Nat \ {0} /\ TTL[c] \div 3 \in Nat
  BY ElectionAssumption
<1> QED
  BY <1>1, ElectionAssumption DEF RefreshInterval

-----------------------------------------------------------------------------
(* Types. *)

StoreTyped ==
  /\ holder \in Clients \cup {NoClient}
  /\ promised \in [Clients -> Nat]
  /\ \A c \in Clients : promised[c] <= TTL[c]

FlagsTyped ==
  /\ leader \in [Clients -> BOOLEAN] /\ started \in [Clients -> BOOLEAN]
  /\ due \in [Clients -> BOOLEAN] /\ late \in [Clients -> BOOLEAN]
  /\ renewed \in [Clients -> BOOLEAN]

CallsTyped ==
  /\ state \in [Clients -> States] /\ answer \in [Clients -> {"none", "yes", "no"}]
  /\ since \in [Clients -> Nat] /\ age \in [Clients -> 0 .. CallTimeout]
  /\ \A c \in Clients : since[c] < RefreshInterval(c)

HistoryTyped ==
  /\ lease \in [Clients -> Nat] /\ unheld \in [Clients -> Nat]
  /\ \A c \in Clients : lease[c] <= TTL[c]

LEMMA TypedIs == TypeOK <=> StoreTyped /\ FlagsTyped /\ CallsTyped /\ HistoryTyped
BY DEF TypeOK, StoreTyped, FlagsTyped, CallsTyped, HistoryTyped

LEMMA TypedNext ==
  ASSUME StoreTyped', FlagsTyped', CallsTyped', HistoryTyped'
  PROVE  TypeOK'
BY DEF TypeOK, StoreTyped, FlagsTyped, CallsTyped, HistoryTyped

LEMMA InitTyped == Init => TypeOK
<1> SUFFICES ASSUME Init PROVE TypeOK
  OBVIOUS
<1>1. StoreTyped /\ HistoryTyped
  BY Durations DEF Init, Service!Init, StoreTyped, HistoryTyped
<1>2. CallsTyped
  BY Durations, ElectionAssumption DEF Init, States, CallsTyped
<1>3. FlagsTyped
  BY Zenon DEF Init, FlagsTyped
<1> QED
  BY <1>1, <1>2, <1>3, TypedIs

(* What a client does to the store: a grant, a release, or nothing. *)
StoreSteps(c) ==
  \/ holder \in {c, NoClient} /\ holder' = c /\ Grant(c)
  \/ holder' \in {holder, NoClient} /\ (holder' = holder \/ holder = c)
     /\ promised' = [promised EXCEPT ![c] = 0]
  \/ UNCHANGED store

LEMMA ClientSteps ==
  ASSUME NEW c \in Clients, Client(c)
  PROVE  StoreSteps(c)
BY DEF Client, TryAcquireLock, AcquireAtServer, AcquireReturns, AcquireFails, KeepAlive,
   KeepAliveAtServer, KeepAliveReturns, KeepAliveEnds, LateKeepAlive, Shutdown,
   ReleaseAtServer, Service!TryAcquireLock, Service!KeepAlive, Service!Grant,
   Service!ReleaseLock, Service!Forget, StoreSteps

LEMMA ClientStoreTyped ==
  ASSUME StoreTyped, NEW c \in Clients, StoreSteps(c)
  PROVE  StoreTyped'
BY Durations DEF StoreTyped, StoreSteps, Grant, store

LEMMA ClientFlagsTyped ==
  ASSUME FlagsTyped, NEW c \in Clients, Client(c)
  PROVE  FlagsTyped'
<1> USE DEF Believes, NewTicker, ticker, Tracks, history
<1>1. CASE TryAcquireLock(c) \/ AcquireAtServer(c) \/ AcquireFails(c)
  BY <1>1, Zenon DEF FlagsTyped, TryAcquireLock, AcquireAtServer, AcquireFails
<1>2. CASE AcquireReturns(c)
  BY <1>2, Zenon DEF FlagsTyped, AcquireReturns
<1>3. CASE KeepAlive(c) \/ KeepAliveAtServer(c) \/ KeepAliveReturns(c)
  BY <1>3, Zenon DEF FlagsTyped, KeepAlive, KeepAliveAtServer, KeepAliveReturns
<1>4. CASE KeepAliveEnds(c)
  BY <1>4, Zenon DEF FlagsTyped, KeepAliveEnds
<1>5. CASE LateKeepAlive(c) \/ ReleaseAtServer(c)
  BY <1>5, Zenon DEF FlagsTyped, LateKeepAlive, ReleaseAtServer
<1>6. CASE Shutdown(c)
  BY <1>6, Zenon DEF FlagsTyped, Shutdown
<1> QED
  BY <1>1, <1>2, <1>3, <1>4, <1>5, <1>6 DEF Client

LEMMA ClientCallsTyped ==
  ASSUME CallsTyped, NEW c \in Clients, Client(c)
  PROVE  CallsTyped'
<1> USE DEF Goes, Answers, ticker, call
<1> DEFINE SinceOK == since' \in [Clients -> Nat]
                      /\ \A d \in Clients : since'[d] < RefreshInterval(d)
<1>s. \A t \in States : [state EXCEPT ![c] = t] \in [Clients -> States]
  BY DEF CallsTyped
<1>a. \A a \in {"none", "yes", "no"} :
        [answer EXCEPT ![c] = a] \in [Clients -> {"none", "yes", "no"}]
  BY DEF CallsTyped
<1>t. NewTicker(c) \/ since' = since => SinceOK
  BY Durations DEF CallsTyped, NewTicker
<1>n. NewCall(c) => /\ answer' \in [Clients -> {"none", "yes", "no"}]
                    /\ age' \in [Clients -> 0 .. CallTimeout]
  BY <1>a, ElectionAssumption DEF NewCall, CallsTyped
<1>q. ASSUME SinceOK, state' \in [Clients -> States],
             answer' \in [Clients -> {"none", "yes", "no"}],
             age' \in [Clients -> 0 .. CallTimeout]
      PROVE  CallsTyped'
  BY <1>q DEF CallsTyped, RefreshInterval
<1> HIDE DEF SinceOK
<1>1. CASE TryAcquireLock(c) \/ AcquireFails(c)
  BY <1>1, <1>s, <1>t, <1>n, <1>q DEF TryAcquireLock, AcquireFails, States
<1>2. CASE AcquireReturns(c)
  <2>1. (IF answer[c] = "yes" /\ ~started[c] THEN "waiting" ELSE "idle") \in States
    BY DEF States
  <2> QED
    BY <1>2, <1>s, <1>t, <1>n, <1>q, <2>1 DEF AcquireReturns
<1>3. CASE AcquireAtServer(c) \/ KeepAliveAtServer(c)
  BY <1>3, <1>a, <1>t, <1>q DEF CallsTyped, AcquireAtServer, KeepAliveAtServer
<1>4. CASE KeepAlive(c) \/ KeepAliveReturns(c) \/ KeepAliveEnds(c)
  BY <1>4, <1>s, <1>t, <1>n, <1>q DEF KeepAlive, KeepAliveReturns, KeepAliveEnds, States
<1>5. CASE LateKeepAlive(c) \/ Shutdown(c) \/ ReleaseAtServer(c)
  BY <1>5, <1>s, <1>t, <1>n, <1>q
  DEF CallsTyped, LateKeepAlive, Shutdown, ReleaseAtServer, States
<1> QED
  BY <1>1, <1>2, <1>3, <1>4, <1>5 DEF Client

LEMMA ClientHistoryTyped ==
  ASSUME StoreTyped, HistoryTyped, NEW c \in Clients, Client(c)
  PROVE  HistoryTyped'
<1>1. ASSUME NEW left \in Nat, left <= TTL[c], NEW again \in BOOLEAN,
             Tracks(c, left, again)
      PROVE  HistoryTyped'
  BY <1>1 DEF Tracks, HistoryTyped
<1>2. promised[c] \in Nat /\ promised[c] <= TTL[c] /\ 0 \in Nat /\ 0 <= TTL[c]
  BY Durations DEF StoreTyped
<1>3. CASE UNCHANGED history
  BY <1>3 DEF history, HistoryTyped
<1>4. \/ UNCHANGED history
      \/ Tracks(c, promised[c], FALSE) \/ Tracks(c, 0, FALSE) \/ Tracks(c, 0, TRUE)
  BY DEF Client, TryAcquireLock, AcquireAtServer, AcquireReturns, AcquireFails, KeepAlive,
     KeepAliveAtServer, KeepAliveReturns, KeepAliveEnds, LateKeepAlive, Shutdown,
     ReleaseAtServer
<1> QED
  BY <1>1, <1>2, <1>3, <1>4

LEMMA TickTyped == TypeOK /\ Tick => TypeOK'
<1> SUFFICES ASSUME TypeOK, Tick PROVE TypeOK'
  OBVIOUS
<1>1. StoreTyped'
  BY Durations DEF TypeOK, Tick, StoreTyped, Service!Pass
<1>2. FlagsTyped'
  BY Zenon DEF TypeOK, Tick, FlagsTyped
<1>3. CallsTyped'
  BY Durations, ElectionAssumption DEF TypeOK, Tick, CallsTyped, TickerGoesOn
<1>4. HistoryTyped'
  BY DEF TypeOK, Tick, HistoryTyped
<1> QED
  BY <1>1, <1>2, <1>3, <1>4, TypedNext

LEMMA TypeStep == TypeOK /\ [Next]_vars => TypeOK'
<1> SUFFICES ASSUME TypeOK, [Next]_vars PROVE TypeOK'
  OBVIOUS
<1>1. ASSUME NEW c \in Clients, Client(c) PROVE TypeOK'
  BY <1>1, TypedIs, TypedNext, ClientSteps, ClientStoreTyped, ClientFlagsTyped,
     ClientCallsTyped, ClientHistoryTyped
<1>2. CASE UNCHANGED vars
  BY <1>2 DEF vars, store, ticker, call, history, TypeOK
<1> QED
  BY <1>1, <1>2, TickTyped DEF Next

(* The store, the clients' flags and their clocks stay well-formed; no     *)
(* promise exceeds its ttl, and no keep-alive its timeout.                 *)
THEOREM TypeCorrect == Spec => []TypeOK
BY InitTyped, TypeStep, PTL DEF Spec

-----------------------------------------------------------------------------
(* What is promised is held: the contract, of which the election takes     *)
(* only steps.                                                             *)

PromiseHeld == \A c \in Clients : promised[c] > 0 => holder = c

LEMMA HeldStep == TypeOK /\ PromiseHeld /\ [Next]_vars => PromiseHeld'
<1> SUFFICES ASSUME TypeOK, PromiseHeld, [Next]_vars PROVE PromiseHeld'
  OBVIOUS
<1>1. ASSUME NEW c \in Clients, Client(c) PROVE PromiseHeld'
  BY <1>1, ClientSteps, Durations DEF StoreSteps, Grant, store, PromiseHeld, TypeOK
<1>2. CASE Tick
  <2>1. /\ promised' = [c \in Clients |-> IF promised[c] > 0 THEN promised[c] - 1 ELSE 0]
        /\ holder' = holder \/ \A c \in Clients : ~(promised'[c] > 0)
    BY <1>2 DEF Tick, Service!Pass
  <2> QED
    BY <2>1 DEF PromiseHeld, TypeOK
<1>3. CASE UNCHANGED vars
  BY <1>3 DEF vars, store, PromiseHeld
<1> QED
  BY <1>1, <1>2, <1>3 DEF Next

-----------------------------------------------------------------------------
(* How long a kept leader has to go, if no keep-alive renews its lease     *)
(* from now on: one that waits has its next tick and a whole call ahead,   *)
(* one in a call the rest of that call, and once that is answered yes,     *)
(* another wait and another call.                                          *)

Ahead(c) == IF due[c] THEN 0 ELSE RefreshInterval(c) - since[c]

Rest(c) == CallTimeout - age[c]

ToGo(c) ==
  IF state[c] = "waiting" THEN Ahead(c) + CallTimeout
  ELSE IF answer[c] = "yes" THEN Longer(Ahead(c), Rest(c)) + CallTimeout
  ELSE Rest(c)

(* What a leader without the lock has gone on and has to go, and what one  *)
(* with the lock has to go beyond its lease, is within Overstay.           *)
InTime(c) ==
  HasTicker(c) =>
    /\ holder = c => ToGo(c) <= Overstay(c) + promised[c]
    /\ holder # c => unheld[c] + ToGo(c) <= Overstay(c)

AllInTime == \A c \in Clients : InTime(c)

LEMMA InitInTime == Init => AllInTime
BY DEF Init, AllInTime, InTime, HasTicker

LEMMA Scalars ==
  ASSUME TypeOK, NEW c \in Clients
  PROVE  /\ promised[c] \in Nat /\ promised[c] <= TTL[c]
         /\ since[c] \in Nat /\ since[c] < RefreshInterval(c)
         /\ age[c] \in Nat /\ age[c] <= CallTimeout
         /\ lease[c] \in Nat /\ lease[c] <= TTL[c] /\ unheld[c] \in Nat
BY Durations DEF TypeOK

LEMMA Numbers ==
  ASSUME TypeOK, NEW c \in Clients
  PROVE  /\ Ahead(c) \in Nat /\ Ahead(c) <= RefreshInterval(c)
         /\ Rest(c) \in Nat /\ Rest(c) <= CallTimeout
         /\ ToGo(c) \in Nat /\ Overstay(c) \in Int
BY Scalars, Durations DEF Ahead, Rest, ToGo, Longer, Overstay

(* A step of one client takes nothing from another. *)
LEMMA OthersInTime ==
  ASSUME TypeOK, NEW c \in Clients, Client(c), NEW d \in Clients, d # c, InTime(d)
  PROVE  InTime(d)'
<1>1. /\ state'[d] = state[d] /\ age'[d] = age[d] /\ answer'[d] = answer[d]
      /\ since'[d] = since[d] /\ due'[d] = due[d]
      /\ lease'[d] = lease[d] /\ renewed'[d] = renewed[d] /\ unheld'[d] = unheld[d]
  <2> USE DEF TypeOK, Goes, NewTicker, NewCall, Answers, ticker, call, Tracks, history
  <2>1. CASE TryAcquireLock(c) \/ AcquireFails(c) \/ AcquireReturns(c) \/ AcquireAtServer(c)
    BY <2>1 DEF TryAcquireLock, AcquireFails, AcquireReturns, AcquireAtServer
  <2>2. CASE KeepAlive(c) \/ KeepAliveAtServer(c) \/ KeepAliveReturns(c) \/ KeepAliveEnds(c)
    BY <2>2 DEF KeepAlive, KeepAliveAtServer, KeepAliveReturns, KeepAliveEnds
  <2>3. CASE LateKeepAlive(c) \/ Shutdown(c) \/ ReleaseAtServer(c)
    BY <2>3 DEF LateKeepAlive, Shutdown, ReleaseAtServer
  <2> QED
    BY <2>1, <2>2, <2>3 DEF Client
<1>2. promised'[d] = promised[d] /\ (holder = d <=> holder' = d)
  BY ClientSteps, Durations DEF StoreSteps, Grant, store, TypeOK
<1> QED
  BY <1>1, <1>2 DEF InTime, HasTicker, ToGo, Ahead, Rest, Overstay, RefreshInterval, Longer

LEMMA OwnInTime ==
  ASSUME TypeOK, TypeOK', PromiseHeld, NEW c \in Clients, Client(c), InTime(c)
  PROVE  InTime(c)'
<1> DEFINE R == RefreshInterval(c)
<1>s. /\ promised[c] \in Nat /\ promised[c] <= TTL[c]
      /\ age[c] \in Nat /\ age[c] <= CallTimeout
      /\ unheld[c] \in Nat
  BY Scalars
<1>d. R \in Nat \ {0} /\ TTL[c] \in Nat \ {0} /\ CallTimeout \in Nat
  BY Durations
<1>n. /\ Ahead(c) \in Nat /\ Ahead(c) <= R /\ Rest(c) \in Nat /\ Rest(c) <= CallTimeout
      /\ Overstay(c) \in Int
  BY Numbers
<1>c. NewCall(c) => age'[c] = 0 /\ answer'[c] = "none"
  BY DEF NewCall, Answers, TypeOK
<1>t. NewTicker(c) => since'[c] = 0 /\ due'[c] = FALSE
  BY DEF NewTicker, TypeOK
<1>g. \A from, to : Goes(c, from, to) => state[c] = from /\ state'[c] = to
  BY DEF Goes, TypeOK
<1>h. UNCHANGED history => Overstay(c)' = Overstay(c) /\ unheld' = unheld
  BY DEF history, Overstay, RefreshInterval, Longer
<1>r. R' = R
  BY DEF RefreshInterval
<1>w. ASSUME ~HasTicker(c)' PROVE InTime(c)'
  BY <1>w DEF InTime
<1>1. CASE TryAcquireLock(c) \/ AcquireFails(c) \/ Shutdown(c) \/ ReleaseAtServer(c)
           \/ KeepAliveEnds(c)
  <2>1. state'[c] \in {"acquiring", "idle", "exited", "releasing"}
    BY <1>1, <1>g DEF TryAcquireLock, AcquireFails, Shutdown, ReleaseAtServer, KeepAliveEnds
  <2> QED
    BY <1>w, <2>1 DEF HasTicker
<1>2. CASE AcquireAtServer(c)
  <2>1. state'[c] = "acquiring"
    BY <1>2 DEF AcquireAtServer
  <2> QED
    BY <1>w, <2>1 DEF HasTicker
<1>3. CASE AcquireReturns(c)
  <2>1. CASE state'[c] # "waiting"
    <3>1. state'[c] = "idle"
      BY <1>3, <1>g, <2>1 DEF AcquireReturns
    <3> QED
      BY <1>w, <3>1 DEF HasTicker
  <2>2. CASE state'[c] = "waiting"
    <3>1. /\ since'[c] = 0 /\ ~due'[c] /\ holder' = holder /\ promised' = promised
          /\ lease'[c] = promised[c] /\ ~renewed'[c] /\ unheld'[c] = 0
      BY <1>3, <1>t DEF AcquireReturns, store, Tracks, TypeOK
    <3>2. ToGo(c)' = R + CallTimeout
      BY <1>d, <1>r, <2>2, <3>1 DEF ToGo, Ahead
    <3>3. Overstay(c)' = R + CallTimeout - promised[c]
      BY <1>r, <3>1 DEF Overstay
    <3>4. holder # c => promised[c] = 0
      BY <1>s DEF PromiseHeld
    <3> QED
      BY <1>s, <1>d, <3>1, <3>2, <3>3, <3>4 DEF InTime
  <2> QED
    BY <2>1, <2>2
<1>4. CASE KeepAlive(c)
  <2>1. /\ state[c] = "waiting" /\ due[c] /\ state'[c] = "calling"
        /\ age'[c] = 0 /\ answer'[c] = "none"
        /\ holder' = holder /\ promised' = promised /\ UNCHANGED history
    BY <1>4, <1>g, <1>c DEF KeepAlive, store
  <2>2. ToGo(c) = CallTimeout /\ ToGo(c)' = CallTimeout
    BY <1>d, <2>1 DEF ToGo, Ahead, Rest
  <2> QED
    BY <1>h, <2>1, <2>2 DEF InTime, HasTicker
<1>5. CASE KeepAliveAtServer(c)
  <2>1. /\ state[c] = "calling" /\ state'[c] = "calling" /\ answer[c] = "none"
        /\ age' = age /\ since' = since /\ due' = due
    BY <1>5 DEF KeepAliveAtServer, ticker
  <2>2. Ahead(c)' = Ahead(c) /\ Rest(c)' = Rest(c)
    BY <1>r, <2>1 DEF Ahead, Rest
  <2>3. CASE Service!KeepAlive(c) /\ Grant(c) /\ Answers(c, "yes") /\ Tracks(c, 0, TRUE)
    <3>1. /\ holder' = c /\ promised'[c] = TTL[c] /\ answer'[c] = "yes" /\ renewed'[c]
      BY <2>3 DEF Service!KeepAlive, Service!Grant, Grant, Answers, Tracks, TypeOK
    <3>2. ToGo(c)' = Longer(Ahead(c), Rest(c)) + CallTimeout
      BY <2>1, <2>2, <3>1 DEF ToGo, Longer
    <3>3. Longer(Ahead(c), Rest(c)) <= Longer(R, CallTimeout)
      BY <1>n, <1>d DEF Longer
    <3>4. Longer(Ahead(c), Rest(c)) \in Nat /\ Longer(R, CallTimeout) \in Nat
      BY <1>n, <1>d DEF Longer
    <3>5. Overstay(c)' = Longer(R, CallTimeout) + CallTimeout - TTL[c]
      BY <1>r, <3>1 DEF Overstay, Longer
    <3> QED
      BY <1>d, <3>1, <3>2, <3>3, <3>4, <3>5 DEF InTime
  <2>4. CASE UNCHANGED <<store, history>> /\ Answers(c, "no")
    <3>1. /\ holder' = holder /\ promised' = promised /\ answer'[c] = "no"
          /\ UNCHANGED history
      BY <2>4 DEF store, Answers, TypeOK
    <3>2. ToGo(c)' = ToGo(c)
      BY <2>1, <2>2, <3>1 DEF ToGo
    <3> QED
      BY <1>h, <2>1, <3>1, <3>2 DEF InTime, HasTicker
  <2> QED
    BY <1>5, <2>3, <2>4 DEF KeepAliveAtServer
<1>6. CASE KeepAliveReturns(c)
  <2>1. /\ state[c] = "calling" /\ state'[c] = "waiting" /\ answer[c] = "yes"
        /\ holder' = holder /\ promised' = promised
        /\ since' = since /\ due' = due /\ UNCHANGED history
    BY <1>6, <1>g DEF KeepAliveReturns, store, ticker
  <2>2. Ahead(c)' = Ahead(c)
    BY <1>r, <2>1 DEF Ahead
  <2>3. ToGo(c)' = Ahead(c) + CallTimeout
    BY <2>1, <2>2 DEF ToGo
  <2>4. ToGo(c) = Longer(Ahead(c), Rest(c)) + CallTimeout
    BY <2>1 DEF ToGo
  <2>5. ToGo(c)' <= ToGo(c) /\ ToGo(c) \in Nat /\ ToGo(c)' \in Nat
    BY <1>n, <1>d, <2>3, <2>4 DEF Longer
  <2> QED
    BY <1>h, <1>s, <1>n, <2>1, <2>5 DEF InTime, HasTicker
<1>7. CASE LateKeepAlive(c)
  <2>1. /\ state' = state /\ age' = age /\ answer' = answer
        /\ since' = since /\ due' = due /\ UNCHANGED history
    BY <1>7 DEF LateKeepAlive, ticker, call
  <2>2. ToGo(c)' = ToGo(c) /\ ToGo(c) \in Nat
    BY <2>1, <1>r, Numbers DEF ToGo, Ahead, Rest, Longer
  <2>3. /\ holder' = c <=> holder = c
        /\ promised'[c] \in Nat /\ promised'[c] >= promised[c]
    BY <1>7, <1>s, <1>d
    DEF LateKeepAlive, Service!KeepAlive, Service!Grant, Grant, store, TypeOK
  <2> QED
    BY <1>h, <1>s, <1>n, <2>1, <2>2, <2>3 DEF InTime, HasTicker
<1> QED
  BY <1>1, <1>2, <1>3, <1>4, <1>5, <1>6, <1>7 DEF Client

(* A tick brings the end of the last keep-alive a tick nearer, and is at   *)
(* most one tick of the lease.                                             *)
LEMMA TickInTime ==
  ASSUME TypeOK, Tick, PromiseHeld, NEW c \in Clients, leader[c], InTime(c)
  PROVE  InTime(c)'
<1> SUFFICES ASSUME HasTicker(c) PROVE InTime(c)'
  BY DEF Tick, InTime, HasTicker
<1> DEFINE R == RefreshInterval(c)
<1>s. /\ promised[c] \in Nat /\ since[c] \in Nat /\ since[c] < R
      /\ age[c] \in Nat /\ unheld[c] \in Nat
  BY Scalars
<1>d. R \in Nat \ {0} /\ CallTimeout \in Nat
  BY Durations
<1>r. R' = R /\ Overstay(c)' = Overstay(c) /\ Overstay(c) \in Int /\ ToGo(c) \in Nat
  BY Numbers DEF Tick, Overstay, RefreshInterval, Longer
<1>t. state' = state /\ answer' = answer
  BY DEF Tick
<1>w. since'[c] = IF since[c] + 1 < R THEN since[c] + 1 ELSE 0
  BY DEF Tick, TickerGoesOn
<1>u. /\ due[c] \/ since[c] + 1 >= R => due'[c]
      /\ due'[c] => due[c] \/ since[c] + 1 >= R
  BY Zenon DEF Tick
<1>a. /\ due[c] => Ahead(c)' = 0 /\ Ahead(c) = 0
      /\ ~due[c] => Ahead(c)' = Ahead(c) - 1
  <2>1. CASE due[c]
    BY <1>u, <2>1 DEF Ahead
  <2>2. CASE ~due[c] /\ since[c] + 1 < R
    <3>1. ~due'[c] /\ since'[c] = since[c] + 1
      BY <1>s, <1>d, <1>u, <1>w, <2>2
    <3> QED
      BY <1>s, <1>d, <1>r, <2>2, <3>1 DEF Ahead
  <2>3. CASE ~due[c] /\ ~(since[c] + 1 < R)
    <3>1. due'[c] /\ since[c] + 1 = R
      BY <1>s, <1>d, <1>u, <2>3
    <3> QED
      BY <1>s, <1>d, <2>3, <3>1 DEF Ahead
  <2> QED
    BY <2>1, <2>2, <2>3
<1>1. ToGo(c)' = ToGo(c) - 1
  <2>1. CASE state[c] = "waiting"
    <3>1. ~due[c]
      BY <2>1 DEF Tick
    <3> QED
      BY <1>a, <1>t, <1>d, <2>1, <3>1, Numbers DEF ToGo
  <2>2. CASE state[c] = "calling"
    <3>1. /\ age[c] < CallTimeout /\ age'[c] = age[c] + 1
      BY <2>2 DEF Tick
    <3>2. Rest(c)' = Rest(c) - 1 /\ Rest(c) \in Nat \ {0}
      BY <1>s, <1>d, <3>1 DEF Rest
    <3>3. Longer(Ahead(c)', Rest(c)') = Longer(Ahead(c), Rest(c)) - 1
      BY <1>a, <3>2, Numbers DEF Longer
    <3>4. Longer(Ahead(c), Rest(c)) \in Nat
      BY Numbers DEF Longer
    <3> QED
      BY <1>t, <1>d, <2>2, <3>2, <3>3, <3>4 DEF ToGo, Longer
  <2> QED
    BY <2>1, <2>2 DEF HasTicker
<1>2. /\ promised'[c] = IF promised[c] > 0 THEN promised[c] - 1 ELSE 0
      /\ holder' = holder \/ (holder' = NoClient /\ ~(promised'[c] > 0))
      /\ unheld'[c] = IF holder # c THEN unheld[c] + 1 ELSE 0
  BY DEF Tick, Service!Pass, Kept
<1>3. CASE holder # c
  <2>1. holder' # c
    BY <1>2, <1>3, Durations
  <2> QED
    BY <1>1, <1>2, <1>3, <1>r, <1>s, <2>1 DEF InTime
<1>4. CASE holder = c
  <2>1. ToGo(c) <= Overstay(c) + promised[c] /\ unheld'[c] = 0
    BY <1>2, <1>4 DEF InTime
  <2>2. holder' # c => promised[c] <= 1
    BY <1>2, <1>4, <1>s
  <2> QED
    BY <1>1, <1>2, <1>r, <1>s, <2>1, <2>2 DEF InTime
<1> QED
  BY <1>3, <1>4

(* A client whose keep-alive goroutine runs believes that it leads. *)
KeptLeads == \A c \in Clients : HasTicker(c) => leader[c]

LEMMA LeadsStep == TypeOK /\ KeptLeads /\ [Next]_vars => KeptLeads'
<1> SUFFICES ASSUME TypeOK, KeptLeads, [Next]_vars, NEW d \in Clients, HasTicker(d)'
             PROVE  leader'[d]
  BY DEF KeptLeads
<1>1. ASSUME NEW c \in Clients, Client(c) PROVE leader'[d]
  <2>1. CASE UNCHANGED leader /\ HasTicker(d)
    BY <2>1 DEF KeptLeads
  <2>2. CASE AcquireReturns(c)
    BY <2>2 DEF AcquireReturns, Goes, Believes, HasTicker, KeptLeads, TypeOK
  <2>3. CASE KeepAliveEnds(c) \/ Shutdown(c)
    BY <2>3 DEF KeepAliveEnds, Shutdown, Goes, Believes, HasTicker, KeptLeads, TypeOK
  <2>4. CASE TryAcquireLock(c) \/ AcquireFails(c) \/ AcquireAtServer(c) \/ KeepAlive(c)
             \/ KeepAliveAtServer(c) \/ KeepAliveReturns(c) \/ LateKeepAlive(c)
             \/ ReleaseAtServer(c)
    <3>1. UNCHANGED leader /\ HasTicker(d)
      BY <2>4 DEF TryAcquireLock, AcquireFails, AcquireAtServer, KeepAlive,
         KeepAliveAtServer, KeepAliveReturns, LateKeepAlive, ReleaseAtServer, Goes,
         HasTicker, TypeOK
    <3> QED
      BY <2>1, <3>1
  <2> QED
    BY <1>1, <2>2, <2>3, <2>4 DEF Client
<1>2. CASE Tick \/ UNCHANGED vars
  BY <1>2 DEF Tick, vars, HasTicker, KeptLeads
<1> QED
  BY <1>1, <1>2 DEF Next

IInv == TypeOK /\ PromiseHeld /\ KeptLeads /\ AllInTime

LEMMA InitInv == Init => IInv
<1> SUFFICES ASSUME Init PROVE IInv
  OBVIOUS
<1>1. PromiseHeld /\ KeptLeads
  BY DEF Init, Service!Init, PromiseHeld, KeptLeads, HasTicker
<1> QED
  BY <1>1, InitTyped, InitInTime DEF IInv

LEMMA InvStep == IInv /\ [Next]_vars => IInv'
<1> SUFFICES ASSUME IInv, [Next]_vars PROVE IInv'
  OBVIOUS
<1>1. TypeOK' /\ PromiseHeld' /\ KeptLeads'
  BY TypeStep, HeldStep, LeadsStep DEF IInv
<1>2. ASSUME NEW d \in Clients PROVE InTime(d)'
  <2>0. InTime(d)
    BY DEF IInv, AllInTime
  <2>1. ASSUME NEW c \in Clients, Client(c) PROVE InTime(d)'
    BY <1>1, <2>0, <2>1, OwnInTime, OthersInTime DEF IInv
  <2>2. CASE Tick
    <3>1. CASE leader[d]
      BY <2>0, <2>2, <3>1, TickInTime DEF IInv
    <3>2. CASE ~HasTicker(d)
      BY <2>2, <3>2 DEF Tick, InTime, HasTicker
    <3> QED
      BY <3>1, <3>2 DEF IInv, KeptLeads
  <2>3. CASE UNCHANGED vars
    BY <2>0, <2>3 DEF vars, store, ticker, call, history, InTime, HasTicker, ToGo,
       Ahead, Rest, Overstay, RefreshInterval, Longer
  <2> QED
    BY <2>1, <2>2, <2>3 DEF Next
<1> QED
  BY <1>1, <1>2 DEF IInv, AllInTime

LEMMA InTimeHolds == IInv => KeptLeaderHolds
<1> SUFFICES ASSUME IInv, NEW c \in Clients, Kept(c), holder # c
             PROVE  unheld[c] <= Overstay(c)
  BY DEF KeptLeaderHolds
<1>1. unheld[c] + ToGo(c) <= Overstay(c)
  BY DEF IInv, AllInTime, InTime, Kept
<1>2. unheld[c] \in Nat /\ ToGo(c) \in Nat /\ Overstay(c) \in Int
  BY Scalars, Numbers DEF IInv
<1> QED
  BY <1>1, <1>2

(* A leader that is kept alive holds the lock, or goes on without it for   *)
(* no longer than Overstay, whatever the ttls, the timeout and the refresh *)
(* interval, however late an acquisition is answered.                      *)
THEOREM LeaderHoldsLock == Spec => []KeptLeaderHolds
BY InitInv, InvStep, InTimeHolds, PTL DEF Spec
-----------------------------------------------------------------------------
(* The contract of the lock stores, deviations and all, for leases of any  *)
(* length: what the stores are shown to implement, each with the           *)
(* deviations it names.                                                     *)

VARIABLES unbacked, acting, shown

AnyService == INSTANCE LockService WITH Leases <- Nat

PromisesTyped == promised \in [Clients -> Nat]

LEMMA GrantKeepsPromises ==
  ASSUME PromisesTyped, AnyService!PromiseKept, NEW c \in Clients,
         holder \in {c, NoClient}, AnyService!Grant(c)
  PROVE  PromisesTyped' /\ AnyService!PromiseKept'
<1> USE DEF PromisesTyped, AnyService!PromiseKept
<1>1. holder' = c
  BY DEF AnyService!Grant
<1>2. ASSUME NEW d \in Clients \ unbacked, promised[d] > 0
      PROVE  d = c
  BY <1>2, ElectionAssumption DEF ElectionAssumption
<1>3. CASE AnyService!Promise(c) /\ unbacked' = unbacked \ {c}
  <2>1. PICK p \in Nat : promised' = [promised EXCEPT ![c] = p]
    BY <1>3 DEF AnyService!Promise
  <2> QED
    BY <1>1, <1>2, <1>3, <2>1
<1>4. CASE UNCHANGED <<promised, unbacked>>
  BY <1>1, <1>2, <1>4
<1> QED
  BY <1>3, <1>4 DEF AnyService!Grant

LEMMA ServiceKeepsPromises ==
  ASSUME PromisesTyped, AnyService!PromiseKept, AnyService!Next
  PROVE  PromisesTyped' /\ AnyService!PromiseKept'
<1>1. ASSUME NEW c \in Clients, AnyService!TryAcquireLock(c) \/ AnyService!KeepAlive(c)
      PROVE  PromisesTyped' /\ AnyService!PromiseKept'
  BY <1>1, GrantKeepsPromises DEF AnyService!TryAcquireLock, AnyService!KeepAlive
<1>2. ASSUME NEW c \in Clients, AnyService!ReleaseLock(c) \/ AnyService!GiveUp(c)
      PROVE  PromisesTyped' /\ AnyService!PromiseKept'
  <2>1. promised' = [promised EXCEPT ![c] = 0] /\ unbacked' = unbacked \ {c}
    BY <1>2 DEF AnyService!ReleaseLock, AnyService!GiveUp, AnyService!Forget
  <2>2. holder' = holder \/ (holder = c /\ holder' = NoClient)
    BY <1>2 DEF AnyService!ReleaseLock, AnyService!GiveUp
  <2> QED
    BY <2>1, <2>2 DEF PromisesTyped, AnyService!PromiseKept
<1>3. CASE AnyService!Pass
  <2>1. /\ promised' = [c \in Clients |-> IF promised[c] > 0 THEN promised[c] - 1 ELSE 0]
        /\ unbacked' = {c \in unbacked : promised'[c] > 0}
    BY <1>3 DEF AnyService!Pass
  <2>2. PromisesTyped'
    BY <2>1 DEF PromisesTyped
  <2>3. ASSUME NEW d \in Clients \ unbacked', promised'[d] > 0
        PROVE  d \notin unbacked /\ promised[d] > 0
    BY <2>1, <2>3 DEF PromisesTyped
  <2>4. \/ holder' = holder
        \/ \A d \in Clients : promised'[d] > 0 => d \in unbacked
    BY <1>3 DEF AnyService!Pass
  <2> QED
    BY <2>2, <2>3, <2>4 DEF AnyService!PromiseKept
<1> QED
  BY <1>1, <1>2, <1>3 DEF AnyService!Next

LEMMA DeviationKeepsPromises ==
  ASSUME PromisesTyped, AnyService!PromiseKept, AnyService!Deviation
  PROVE  PromisesTyped' /\ AnyService!PromiseKept'
<1> USE DEF PromisesTyped, AnyService!PromiseKept
<1>1. CASE AnyService!Look
  BY <1>1 DEF AnyService!Look
<1>2. ASSUME NEW c \in Clients, AnyService!LateAnswer(c) \/ AnyService!Mislead(c)
      PROVE  PromisesTyped' /\ AnyService!PromiseKept'
  <2>1. PICK p \in Nat : promised' = [promised EXCEPT ![c] = p]
    BY <1>2 DEF AnyService!LateAnswer, AnyService!Mislead, AnyService!Promise
  <2>2. /\ UNCHANGED holder
        /\ unbacked \ {c, holder} \subseteq unbacked'
        /\ promised'[c] > 0 => c \in unbacked'
    BY <1>2 DEF AnyService!LateAnswer, AnyService!Mislead
  <2>3. ASSUME NEW d \in Clients \ unbacked', promised'[d] > 0
        PROVE  holder' = d
    <3>1. d # c /\ promised[d] > 0
      BY <2>1, <2>2, <2>3
    <3>2. d \in unbacked => d = holder
      BY <2>2, <2>3, <3>1
    <3> QED
      BY <2>2, <3>1, <3>2
  <2> QED
    BY <2>1, <2>3
<1>3. ASSUME NEW c \in Clients, AnyService!LateDrop(c) \/ AnyService!FallBack(c)
      PROVE  PromisesTyped' /\ AnyService!PromiseKept'
  <2>1. AnyService!Dropped({holder})
    BY <1>3 DEF AnyService!LateDrop, AnyService!FallBack
  <2>2. UNCHANGED promised /\ unbacked' = {d \in unbacked \cup {holder} : promised[d] > 0}
    BY <2>1 DEF AnyService!Dropped
  <2>3. ASSUME NEW d \in Clients \ unbacked', promised'[d] > 0
        PROVE  FALSE
    BY <2>2, <2>3
  <2> QED
    BY <2>2, <2>3
<1> QED
  BY <1>1, <1>2, <1>3 DEF AnyService!Deviation

LEMMA PromiseKeptStep ==
  ASSUME PromisesTyped, AnyService!PromiseKept,
         [AnyService!Next \/ AnyService!Deviation]_(AnyService!vars)
  PROVE  PromisesTyped' /\ AnyService!PromiseKept'
<1>1. CASE UNCHANGED AnyService!vars
  BY <1>1 DEF AnyService!vars, PromisesTyped, AnyService!PromiseKept
<1> QED
  BY <1>1, ServiceKeepsPromises, DeviationKeepsPromises

(* What the contract is worth to callers, with every deviation the stores  *)
(* have: whatever leases are granted, however answers are lost or late, a  *)
(* client is promised the lock without holding it only by an answer or a   *)
(* drop that the contract names and books as unbacked, until that promise  *)
(* is renewed or over; no step of the contract makes a second client       *)
(* believe in the lock in any other way.                                   *)
THEOREM ContractKeepsPromises == AnyService!LooseSpec => []AnyService!PromiseKept
<1>1. AnyService!Init => PromisesTyped /\ AnyService!PromiseKept
  BY DEF AnyService!Init, PromisesTyped, AnyService!PromiseKept
<1> QED
  BY <1>1, PromiseKeptStep, PTL DEF AnyService!LooseSpec
=============================================================================

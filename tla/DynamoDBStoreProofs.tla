------------------------ MODULE DynamoDBStoreProofs ------------------------
(***************************************************************************)
(* Proofs about DynamoDBStore, for any clients, TTLs, length of a tick,    *)
(* servers, difference between their clocks and number of requests in      *)
(* progress: its type invariant, lease safety, the refinement of           *)
(* LockService with its deviations, and the bound on an item's life.       *)
(***************************************************************************)
EXTENDS DynamoDBStore, TLAPS

(* Cutting a clock to seconds keeps the order of times. *)
LEMMA UnixMonotone ==
  ASSUME NEW t \in Nat, NEW u \in Nat, t <= u
  PROVE  Unix(t) \in Nat /\ Unix(u) \in Nat /\ Unix(t) <= Unix(u)
BY StoreAssumption, SMTT(30) DEF Unix, StoreAssumption

LEMMA LeaseType ==
  ASSUME NEW c \in Clients
  PROVE  lockTTL(c) \in Nat \ {0} /\ Lease(c) \in Nat \ {0}
<1>1. lockTTL(c) \in Nat \ {0}
  BY StoreAssumption DEF StoreAssumption, lockTTL, resolveTTL
<1> QED
  BY <1>1, StoreAssumption, SMTT(30) DEF StoreAssumption, Lease

LEMMA SkewType ==
  ASSUME NEW s \in Servers
  PROVE  Skew[s] \in Nat /\ MaxSkew \in Nat \ {0} /\ Skew[s] <= MaxSkew
BY StoreAssumption DEF StoreAssumption

(* A slot in use is handling a request of some client. *)
LEMMA InUse ==
  ASSUME TypeOK, NEW r \in Requests, request[r] # Idle
  PROVE  /\ request[r] \in Handling
         /\ request[r].client \in Clients
         /\ request[r].started \in Nat /\ request[r].now \in Nat
         /\ request[r].started <= clock
BY DEF TypeOK, Handling, Timed, Untimed

LEMMA AtInUse ==
  ASSUME NEW r \in Requests, NEW s, s # "idle", At(r, s)
  PROVE  request[r] # Idle
BY DEF At, Idle

LEMMA AtTimed ==
  ASSUME TypeOK, NEW r \in Requests, At(r, "putItem") \/ At(r, "updateItem")
  PROVE  request[r] # Idle /\ request[r] \in Timed
BY AtInUse, InUse DEF Handling, Untimed, At, Idle

LEMMA HandleInUse ==
  ASSUME NEW r \in Requests, Handle(r)
  PROVE  request[r] # Idle
BY AtInUse DEF Handle, PutItemRefused, GetItem, UpdateItemRefused, RequestFails,
   PutItem, DeleteItem, UpdateItem

LEMMA ExpiryType ==
  ASSUME NEW h \in Handling
  PROVE  expiryTime(h) \in Nat
<1>1. h.now \in Nat /\ Lease(h.client) \in Nat
  BY LeaseType DEF Handling, Timed, Untimed
<1>2. h.now + Lease(h.client) \in Nat
  BY <1>1
<1> QED
  BY <1>2, UnixMonotone DEF expiryTime

(* The states of the handlers that a step may leave. *)
RequestsOK == /\ request \in [Requests -> Handling \cup {Idle}]
              /\ \A r \in Requests : request[r].started <= clock

LEMMA StartUntimed ==
  ASSUME TypeOK, NEW r \in Requests, NEW c \in Clients,
         Start(r, c, "getItem", 0, 0), UNCHANGED clock
  PROVE  RequestsOK'
<1> DEFINE h == [step |-> "getItem", client |-> c, started |-> 0, now |-> 0]
<1>1. h \in Handling /\ h.started <= clock
  BY DEF Handling, Untimed, TypeOK
<1> QED
  BY <1>1 DEF Start, TypeOK, RequestsOK

LEMMA StartTyped ==
  ASSUME TypeOK, NEW r \in Requests, NEW c \in Clients, NEW s \in {"putItem", "updateItem"},
         StartTimed(r, c, s), UNCHANGED clock
  PROVE  RequestsOK'
<1>1. PICK v \in Servers : Start(r, c, s, clock, clock + Skew[v])
  BY DEF StartTimed
<1> DEFINE h == [step |-> s, client |-> c, started |-> clock, now |-> clock + Skew[v]]
<1>2. Skew[v] \in Nat /\ clock \in Nat
  BY SkewType DEF TypeOK
<1>3. h \in Handling /\ h.started <= clock
  BY <1>2 DEF Handling, Timed
<1> QED
  BY <1>1, <1>3 DEF Start, TypeOK, RequestsOK

LEMMA ReturnTyped ==
  ASSUME TypeOK, NEW r \in Requests, Return(r), UNCHANGED clock
  PROVE  RequestsOK'
<1>1. Idle.started = 0
  BY DEF Idle
<1> QED
  BY <1>1 DEF TypeOK, Return, RequestsOK

LEMMA ProceedTyped ==
  ASSUME TypeOK, NEW r \in Requests, NEW reply, Proceed(r, reply), UNCHANGED clock
  PROVE  RequestsOK'
BY ReturnTyped DEF TypeOK, Proceed, RequestsOK

LEMMA GrantedTyped ==
  ASSUME TypeOK, NEW h \in Handling
  PROVE  /\ h.started + Lease(h.client) \in Nat
         /\ Granted(h) \in [Clients -> Nat]
         /\ \A d \in Clients : d # h.client => Granted(h)[d] = promisedUntil[d]
         /\ Granted(h)[h.client] \in {promisedUntil[h.client], h.started + Lease(h.client)}
<1>1. h.client \in Clients /\ h.started + Lease(h.client) \in Nat
  BY LeaseType DEF Handling, Timed, Untimed
<1> QED
  BY <1>1 DEF TypeOK, Granted

LEMMA RenewTyped ==
  ASSUME TypeOK, NEW r \in Requests, request[r] # Idle, NEW reply, Renew(r, reply)
  PROVE  TypeOK'
<1>1. item' \in Items /\ readable' \subseteq Clients \cup {NoClient}
  BY InUse, ExpiryType DEF Renew, Write, Items, TypeOK
<1>2. RequestsOK'
  BY ProceedTyped DEF Renew
<1>3. promisedUntil' \in [Clients -> Nat]
  BY InUse, GrantedTyped DEF Renew, TypeOK
<1> QED
  BY <1>1, <1>2, <1>3 DEF Renew, TypeOK, RequestsOK

LEMMA TypeStep == TypeOK /\ [Next]_vars => TypeOK'
<1> SUFFICES ASSUME TypeOK, [Next]_vars
             PROVE  TypeOK'
  OBVIOUS
<1>1. ASSUME NEW r \in Requests, NEW c \in Clients, Call(r, c)
      PROVE  TypeOK'
  <2>1. RequestsOK'
    BY <1>1, StartTyped, StartUntimed DEF Call, TryAcquireLock, ReleaseLock, KeepAlive
  <2> QED
    BY <1>1, <2>1 DEF Call, TryAcquireLock, ReleaseLock, KeepAlive, TypeOK, RequestsOK
<1>2. ASSUME NEW r \in Requests, Handle(r)
      PROVE  TypeOK'
  <2>1. CASE PutItemRefused(r) \/ UpdateItemRefused(r) \/ RequestFails(r)
    BY <2>1, ReturnTyped
    DEF PutItemRefused, UpdateItemRefused, RequestFails, TypeOK, RequestsOK
  <2>2. CASE GetItem(r)
    <3>1. CASE Return(r)
      BY <2>2, <3>1, ReturnTyped DEF GetItem, TypeOK, RequestsOK
    <3>2. CASE request' = [request EXCEPT ![r].step = "deleteItem"]
      <4>1. request[r] \in Handling
        BY <2>2, AtInUse, InUse DEF GetItem
      <4>2. /\ [request[r] EXCEPT !.step = "deleteItem"] \in Handling
            /\ [request[r] EXCEPT !.step = "deleteItem"].started = request[r].started
        BY <2>2, <4>1 DEF Handling, Timed, Untimed, GetItem, At
      <4> QED
        BY <2>2, <3>2, <4>2 DEF GetItem, TypeOK
    <3> QED
      BY <2>2, <3>1, <3>2 DEF GetItem
  <2>3. ASSUME NEW reply \in Replies, DeleteItem(r, reply)
        PROVE  TypeOK'
    <3>1. RequestsOK'
      BY <2>3, ProceedTyped DEF DeleteItem
    <3> QED
      BY <2>3, <3>1 DEF DeleteItem, Write, NoItem, Items, TypeOK, RequestsOK
  <2>4. ASSUME NEW reply \in Replies, PutItem(r, reply) \/ UpdateItem(r, reply)
        PROVE  TypeOK'
    BY <1>2, <2>4, HandleInUse, RenewTyped DEF PutItem, UpdateItem
  <2> QED
    BY <1>2, <2>1, <2>2, <2>3, <2>4 DEF Handle
<1>3. CASE Converge
  <2>1. item.owner \in Clients \cup {NoClient}
    BY DEF TypeOK, Items, NoItem
  <2> QED
    BY <1>3, <2>1 DEF Converge, TypeOK
<1>4. CASE Tick
  <2>1. ASSUME NEW r \in Requests
        PROVE  request[r].started <= clock + 1
    <3>1. request[r].started \in Nat
      BY InUse DEF Idle
    <3> QED
      BY <3>1 DEF TypeOK
  <2> QED
    BY <1>4, <2>1 DEF Tick, TypeOK
<1>5. CASE UNCHANGED vars
  BY <1>5 DEF vars, TypeOK
<1> QED
  BY <1>1, <1>2, <1>3, <1>4, <1>5 DEF Next

LEMMA TypeInit == Init => TypeOK
<1> SUFFICES ASSUME Init PROVE TypeOK
  OBVIOUS
<1>1. item \in Items
  BY DEF Init, Items
<1>2. request \in [Requests -> Handling \cup {Idle}]
  BY DEF Init
<1>3. \A r \in Requests : request[r].started <= clock
  BY DEF Init, Idle
<1>4. promisedUntil \in [Clients -> Nat]
  BY DEF Init
<1>5. clock \in Nat /\ readable \subseteq Clients \cup {NoClient}
  BY DEF Init
<1> QED
  BY <1>1, <1>2, <1>3, <1>4, <1>5 DEF TypeOK

(* Every execution keeps the types. *)
THEOREM TypeCorrect == Spec => []TypeOK
<1> QED
  BY TypeInit, TypeStep, PTL DEF Spec

-----------------------------------------------------------------------------
(* Lease safety. *)

LEMMA ExpiresType == TypeOK => item.expiresAt \in Nat
BY DEF TypeOK, Items, NoItem

Live(c) == promisedUntil[c] >= clock + MaxSkew

PromisesAreLive ==
  \A c \in Clients : /\ promised[c] \in Nat
                     /\ promised[c] > 0 <=> Live(c)
                     /\ c \in Unbacked <=> Live(c) /\ ~Covers(c)

LEMMA PromiseType == TypeOK => PromisesAreLive
BY StoreAssumption
DEF StoreAssumption, TypeOK, promised, Live, Unbacked, PromisesAreLive

LEMMA PromiseTypeNext == TypeOK' => PromisesAreLive'
BY PromiseType, PTL

LEMMA UntilType ==
  ASSUME TypeOK, NEW c \in Clients, Live(c), NEW s \in Servers
  PROVE  /\ clock + Skew[s] \in Nat
         /\ promisedUntil[c] - MaxSkew + Skew[s] \in Nat
         /\ clock + Skew[s] <= promisedUntil[c] - MaxSkew + Skew[s]
BY SkewType DEF TypeOK, Live

(* The promise of a renewal is covered by the ExpiresAt it writes: cutting *)
(* it and the clocks to seconds keeps their order.                         *)
LEMMA RenewalCovers ==
  ASSUME NEW h \in Timed, NEW s \in Servers,
         h.started + Lease(h.client) - MaxSkew >= 0
  PROVE  Unix((h.started + Lease(h.client)) - MaxSkew + Skew[s]) <= expiryTime(h)
<1>1. PICK v \in Servers : h.now = h.started + Skew[v]
  BY DEF Timed
<1>2. h.started \in Nat /\ h.now \in Nat /\ Lease(h.client) \in Nat
  BY LeaseType DEF Timed
<1>3. /\ (h.started + Lease(h.client)) - MaxSkew + Skew[s] \in Nat
      /\ h.now + Lease(h.client) \in Nat
      /\ (h.started + Lease(h.client)) - MaxSkew + Skew[s] <= h.now + Lease(h.client)
  BY <1>1, <1>2, SkewType
<1> QED
  BY <1>3, UnixMonotone DEF expiryTime

(* A server that sees the item of a backed client expired is right, even   *)
(* if it looked at its clock long before: the promise is over.             *)
LEMMA ExpiredIsDead ==
  ASSUME TypeOK, NEW h \in Timed, h.started <= clock,
         item.expiresAt < Unix(h.now), NEW d \in Clients, Covers(d)
  PROVE  ~Live(d)
<1> SUFFICES ASSUME Live(d) PROVE FALSE
  OBVIOUS
<1>1. PICK v \in Servers : h.now = h.started + Skew[v]
  BY DEF Timed
<1>2. h.started \in Nat /\ h.now \in Nat /\ clock \in Nat
  BY DEF Timed, TypeOK
<1>3. /\ promisedUntil[d] - MaxSkew + Skew[v] \in Nat
      /\ h.now <= promisedUntil[d] - MaxSkew + Skew[v]
  BY <1>1, <1>2, UntilType, SkewType
<1>4. /\ Unix(h.now) <= Unix(promisedUntil[d] - MaxSkew + Skew[v])
      /\ Unix(h.now) \in Nat /\ Unix(promisedUntil[d] - MaxSkew + Skew[v]) \in Nat
  BY <1>2, <1>3, UnixMonotone
<1>5. Unix(promisedUntil[d] - MaxSkew + Skew[v]) <= item.expiresAt
  BY DEF Covers
<1> QED
  BY <1>4, <1>5, ExpiresType

(* What a write leaves of the other clients' promises: as much as before,  *)
(* for it meets no backed one.                                             *)
LEMMA RenewOthers ==
  ASSUME TypeOK, TypeOK', NEW r \in Requests, NEW reply \in Replies,
         PutItem(r, reply) \/ UpdateItem(r, reply),
         NEW d \in Clients, d # request[r].client
  PROVE  /\ promised'[d] = promised[d]
         /\ d \in Unbacked' <=> d \in Unbacked
<1> DEFINE h == request[r]
<1>0. h \in Timed /\ h \in Handling /\ h.started <= clock /\ h.client \in Clients
  BY AtTimed, InUse DEF PutItem, UpdateItem, Handling
<1>1. /\ item'.owner = h.client /\ clock' = clock
      /\ promisedUntil'[d] = promisedUntil[d]
  BY <1>0, GrantedTyped DEF PutItem, UpdateItem, Renew, Write
<1>2. promised'[d] = promised[d] /\ (Live(d)' <=> Live(d))
  BY <1>1 DEF promised, Live
<1>3. ~Covers(d)'
  BY <1>1 DEF Covers
<1>4. ~ (Live(d) /\ Covers(d))
  <2> SUFFICES ASSUME Covers(d) PROVE ~Live(d)
    OBVIOUS
  <2>1. item.owner = d /\ item # NoItem
    BY StoreAssumption DEF Covers, NoItem, StoreAssumption
  <2>2. item.expiresAt < Unix(h.now)
    BY <2>1 DEF PutItem, UpdateItem, mayAcquire
  <2> QED
    BY <1>0, <2>2, ExpiredIsDead
<1> QED
  BY <1>2, <1>3, <1>4, PromiseType, PromiseTypeNext DEF PromisesAreLive

(* What it leaves of its own client's: a new promise, which is covered if  *)
(* it is a promise still, or the older one, which is covered if it was     *)
(* before and the write did not move ExpiresAt back.                       *)
LEMMA RenewOwn ==
  ASSUME TypeOK, TypeOK', NEW r \in Requests, NEW reply \in Replies,
         PutItem(r, reply) \/ UpdateItem(r, reply),
         NEW c \in Clients, c = request[r].client
  PROVE  \/ promised'[c] = promised[c] /\ Shortens(r) /\ item.owner = c
         \/ promised'[c] = promised[c] /\ (c \in Unbacked' => c \in Unbacked)
         \/ c \notin Unbacked'
<1> DEFINE h == request[r]
<1>0. h \in Timed /\ h \in Handling /\ h.started \in Nat
  BY AtTimed, InUse DEF PutItem, UpdateItem, Handling
<1>1. /\ item' = [owner |-> c, expiresAt |-> expiryTime(h)] /\ clock' = clock
      /\ promisedUntil'[c] \in {promisedUntil[c], h.started + Lease(c)}
  BY <1>0, GrantedTyped DEF PutItem, UpdateItem, Renew, Write
<1>2. expiryTime(h) \in Nat /\ item.expiresAt \in Nat
  BY <1>0, ExpiryType, ExpiresType
<1>3. CASE promisedUntil'[c] = promisedUntil[c]
  <2>1. promised'[c] = promised[c] /\ (Live(c)' <=> Live(c))
    BY <1>1, <1>3 DEF promised, Live
  <2>2. CASE c \in Unbacked' /\ c \notin Unbacked
    <3>1. Live(c) /\ Covers(c) /\ ~Covers(c)'
      BY <2>1, <2>2, PromiseType, PromiseTypeNext DEF PromisesAreLive
    <3>2. PICK s \in Servers : ~(Unix(promisedUntil[c] - MaxSkew + Skew[s]) <= expiryTime(h))
      BY <1>1, <1>3, <3>1 DEF Covers
    <3>3. Unix(promisedUntil[c] - MaxSkew + Skew[s]) <= item.expiresAt
      BY <3>1 DEF Covers
    <3>4. Unix(promisedUntil[c] - MaxSkew + Skew[s]) \in Nat
      BY <3>1, UntilType, UnixMonotone
    <3>5. item'.expiresAt < item.expiresAt
      BY <1>1, <1>2, <3>2, <3>3, <3>4
    <3> QED
      BY <2>1, <3>1, <3>5 DEF Shortens, Covers
  <2> QED
    BY <2>1, <2>2
<1>4. CASE promisedUntil'[c] = h.started + Lease(c)
  <2>1. ASSUME Live(c)', NEW s \in Servers
        PROVE  Unix(promisedUntil'[c] - MaxSkew + Skew[s]) <= expiryTime(h)
    <3>1. h.started + Lease(h.client) - MaxSkew >= 0
      BY <1>0, <1>1, <1>4, <2>1, SkewType, LeaseType DEF Live, TypeOK
    <3>2. Unix((h.started + Lease(h.client)) - MaxSkew + Skew[s]) <= expiryTime(h)
      BY <1>0, <2>1, <3>1, RenewalCovers
    <3>3. promisedUntil'[c] = h.started + Lease(h.client)
      BY <1>4
    <3> QED
      BY <3>2, <3>3
  <2>2. Live(c)' => Covers(c)'
    BY <1>1, <2>1 DEF Covers
  <2> QED
    BY <2>2, PromiseTypeNext DEF PromisesAreLive
<1> QED
  BY <1>1, <1>3, <1>4

(* A delete takes the lock from the item's owner only. *)
LEMMA DeleteUnbacks ==
  ASSUME TypeOK, TypeOK', NEW r \in Requests, NEW reply \in Replies, DeleteItem(r, reply)
  PROVE  /\ item' = NoItem /\ promised' = promised
         /\ Unbacked' = {d \in Unbacked \cup {item.owner} : d \in Clients /\ promised[d] > 0}
<1>1. item' = NoItem /\ UNCHANGED <<clock, promisedUntil>>
  BY DEF DeleteItem, Write
<1>2. promised' = promised /\ \A d \in Clients : Live(d)' <=> Live(d)
  BY <1>1 DEF promised, Live
<1>3. \A d \in Clients : ~Covers(d)'
  BY <1>1, StoreAssumption DEF Covers, NoItem, StoreAssumption
<1>4. \A d \in Clients : d # item.owner => ~Covers(d)
  BY DEF Covers
<1>5. Unbacked \subseteq Clients /\ Unbacked' \subseteq Clients
  BY DEF Unbacked
<1> QED
  BY <1>1, <1>2, <1>3, <1>4, <1>5, PromiseType, PromiseTypeNext DEF PromisesAreLive

(* Time shortens promises, and unbacks none. *)
LEMMA TickUnbacks ==
  ASSUME TypeOK, TypeOK', Tick
  PROVE  /\ promised' = [c \in Clients |-> IF promised[c] > 0 THEN promised[c] - 1 ELSE 0]
         /\ Unbacked' = {c \in Unbacked : promised'[c] > 0}
<1>1. clock' = clock + 1 /\ UNCHANGED <<item, promisedUntil>>
  BY DEF Tick
<1>2. ASSUME NEW c \in Clients
      PROVE  /\ promised'[c] = IF promised[c] > 0 THEN promised[c] - 1 ELSE 0
             /\ Live(c)' => Live(c)
             /\ Covers(c)' <=> Covers(c)
  <2>1. clock \in Nat /\ promisedUntil[c] \in Nat /\ MaxSkew \in Nat
    BY StoreAssumption DEF TypeOK, StoreAssumption
  <2>2. Covers(c)' <=> Covers(c)
    BY <1>1 DEF Covers
  <2> QED
    BY <1>1, <2>1, <2>2 DEF promised, Live
<1>3. promised' = [c \in Clients |-> IF promised[c] > 0 THEN promised[c] - 1 ELSE 0]
  BY <1>2 DEF promised
<1>4. Unbacked \subseteq Clients /\ Unbacked' \subseteq Clients
  BY DEF Unbacked
<1> QED
  BY <1>2, <1>3, <1>4, PromiseType, PromiseTypeNext DEF PromisesAreLive

(* A call of ReleaseLock gives the client's promise up. *)
LEMMA CallUnbacks ==
  ASSUME TypeOK, TypeOK', NEW r \in Requests, NEW c \in Clients, Call(r, c)
  PROVE  /\ UNCHANGED <<clock, item, readable>>
         /\ \/ UNCHANGED promisedUntil
            \/ /\ promised' = [promised EXCEPT ![c] = 0]
               /\ Unbacked' = Unbacked \ {c}
<1>1. UNCHANGED <<clock, item, readable>>
  BY DEF Call, TryAcquireLock, ReleaseLock, KeepAlive
<1>2. \/ UNCHANGED promisedUntil
      \/ promisedUntil' = [promisedUntil EXCEPT ![c] = 0]
  BY DEF Call, TryAcquireLock, ReleaseLock, KeepAlive
<1>3. CASE promisedUntil' = [promisedUntil EXCEPT ![c] = 0]
  <2>1. clock \in Nat /\ ~ (0 >= clock + MaxSkew)
    BY StoreAssumption DEF TypeOK, StoreAssumption
  <2>2. ASSUME NEW d \in Clients
        PROVE  /\ promised'[d] = IF d = c THEN 0 ELSE promised[d]
               /\ d # c => (Live(d)' <=> Live(d)) /\ (Covers(d)' <=> Covers(d))
    <3>1. promisedUntil'[d] = IF d = c THEN 0 ELSE promisedUntil[d]
      BY <1>3 DEF TypeOK
    <3>2. promised'[d] = IF d = c THEN 0 ELSE promised[d]
      BY <1>1, <2>1, <3>1 DEF promised
    <3>3. d # c => (Live(d)' <=> Live(d)) /\ (Covers(d)' <=> Covers(d))
      BY <1>1, <3>1 DEF Live, Covers
    <3> QED
      BY <3>2, <3>3
  <2>3. promised' = [promised EXCEPT ![c] = 0]
    BY <2>2 DEF promised
  <2>4. Unbacked \subseteq Clients /\ Unbacked' \subseteq Clients
    BY DEF Unbacked
  <2>5. promised'[c] = 0
    BY <2>2
  <2>6. c \notin Unbacked'
    BY <2>5 DEF Unbacked
  <2> QED
    BY <1>1, <2>2, <2>3, <2>4, <2>6, PromiseType, PromiseTypeNext DEF PromisesAreLive
<1> QED
  BY <1>1, <1>2, <1>3

LEMMA Untouched ==
  ASSUME UNCHANGED <<clock, item, promisedUntil>>
  PROVE  UNCHANGED <<holder, promised, Unbacked>>
<1>1. promised' = promised
  BY DEF promised
<1>2. ASSUME NEW c \in Clients
      PROVE  Covers(c)' <=> Covers(c)
  BY DEF Covers
<1>3. holder' = holder
  BY DEF holder
<1> QED
  BY <1>1, <1>2, <1>3 DEF Unbacked

Quiet(r) == PutItemRefused(r) \/ GetItem(r) \/ UpdateItemRefused(r) \/ RequestFails(r)

LEMMA QuietHandle ==
  ASSUME NEW r \in Requests, Quiet(r)
  PROVE  UNCHANGED <<clock, item, readable, promisedUntil>>
BY DEF Quiet, PutItemRefused, GetItem, UpdateItemRefused, RequestFails

(* The step that leaves a promise unbacked. *)
Breaks(c) ==
  /\ item.owner = c
  /\ \E r \in Requests :
       \/ \E reply \in Replies : DeleteItem(r, reply)
       \/ Shortens(r) /\ request[r].client = c

LEMMA LeaseStep ==
  ASSUME TypeOK, TypeOK', [Next]_vars, NEW c \in Unbacked' \ Unbacked
  PROVE  Breaks(c)
<1>0. c \in Clients
  BY DEF Unbacked
<1>u. ASSUME UNCHANGED <<clock, item, promisedUntil>>
      PROVE  Breaks(c)
  BY <1>u, Untouched
<1>1. ASSUME NEW r \in Requests, NEW d \in Clients, Call(r, d)
      PROVE  Breaks(c)
  BY <1>1, <1>u, CallUnbacks
<1>2. ASSUME NEW r \in Requests, Handle(r)
      PROVE  Breaks(c)
  <2>1. CASE Quiet(r)
    BY <2>1, <1>u, QuietHandle
  <2>2. ASSUME NEW reply \in Replies, PutItem(r, reply) \/ UpdateItem(r, reply)
        PROVE  Breaks(c)
    <3>1. c = request[r].client
      BY <1>0, <2>2, RenewOthers
    <3> QED
      BY <1>0, <2>2, <3>1, RenewOwn DEF Breaks
  <2>3. ASSUME NEW reply \in Replies, DeleteItem(r, reply)
        PROVE  Breaks(c)
    BY <2>3, DeleteUnbacks DEF Breaks
  <2> QED
    BY <1>2, <2>1, <2>2, <2>3 DEF Handle, Quiet
<1>3. CASE Tick
  BY <1>3, TickUnbacks
<1>4. CASE Converge \/ UNCHANGED vars
  BY <1>4, <1>u DEF Converge, vars
<1> QED
  BY <1>1, <1>2, <1>3, <1>4 DEF Next

(* In every execution, whatever the length of a tick and the difference    *)
(* between the clocks, a client that was told it holds the lock is kept    *)
(* it for its lease less that difference, until a late DeleteItem or a     *)
(* delayed write of its own.                                               *)
THEOREM LeaseSafe == Spec => LeaseSafety
<1>1. TypeOK /\ TypeOK' /\ [Next]_vars
        => [\A c \in Unbacked' \ Unbacked :
              /\ item.owner = c
              /\ \E r \in Requests :
                   \/ \E reply \in Replies : DeleteItem(r, reply)
                   \/ Shortens(r) /\ request[r].client = c]_vars
  BY LeaseStep DEF Breaks
<1> QED
  BY <1>1, TypeCorrect, PTL DEF Spec, LeaseSafety

-----------------------------------------------------------------------------
(* Refinement.  To the contract nobody holds an item that some server sees *)
(* expired.  A backed promise keeps the item from that, so that it may     *)
(* expire, or be taken over, only when nothing backed is promised.         *)

ExpiredFor(s) == Unix(clock + Skew[s]) > item.expiresAt

BackedHeld == \A c \in Clients : Live(c) /\ c \notin Unbacked => holder = c

LEMMA BackedIsHeld == TypeOK => BackedHeld
<1> SUFFICES ASSUME TypeOK, NEW c \in Clients, Live(c), c \notin Unbacked
             PROVE  holder = c
  BY DEF BackedHeld
<1>0. Covers(c)
  BY PromiseType DEF PromisesAreLive
<1>1. ASSUME NEW s \in Servers
      PROVE  ~ExpiredFor(s)
  <2>1. /\ Unix(clock + Skew[s]) <= Unix(promisedUntil[c] - MaxSkew + Skew[s])
        /\ Unix(clock + Skew[s]) \in Nat
        /\ Unix(promisedUntil[c] - MaxSkew + Skew[s]) \in Nat
    BY UntilType, UnixMonotone
  <2>2. Unix(promisedUntil[c] - MaxSkew + Skew[s]) <= item.expiresAt
    BY <1>0 DEF Covers
  <2> QED
    BY <2>1, <2>2, ExpiresType DEF ExpiredFor
<1> QED
  BY <1>0, <1>1 DEF Covers, holder, ExpiredFor

LEMMA BackedIsHeldNext == TypeOK' => BackedHeld'
BY BackedIsHeld, PTL

LEMMA HolderType == holder \in {item.owner, NoClient}
BY DEF holder

(* Nobody is promised more than its own lease from now. *)
Bounded == \A c \in Clients : promisedUntil[c] <= clock + Lease(c)

LEMMA BoundedInit == Init => Bounded
<1> SUFFICES ASSUME Init, NEW c \in Clients
             PROVE  promisedUntil[c] <= clock + Lease(c)
  BY DEF Bounded
<1>1. promisedUntil[c] = 0 /\ clock = 0 /\ Lease(c) \in Nat
  BY LeaseType DEF Init
<1> QED
  BY <1>1

LEMMA BoundedStep ==
  ASSUME TypeOK, Bounded, [Next]_vars
  PROVE  Bounded'
<1> SUFFICES ASSUME NEW d \in Clients
             PROVE  promisedUntil'[d] <= clock' + Lease(d)
  BY DEF Bounded
<1>0. /\ clock \in Nat /\ Lease(d) \in Nat /\ promisedUntil[d] \in Nat
      /\ promisedUntil[d] <= clock + Lease(d)
  BY LeaseType DEF TypeOK, Bounded
<1>u. ASSUME clock' = clock, promisedUntil'[d] \in {promisedUntil[d], 0}
      PROVE  promisedUntil'[d] <= clock' + Lease(d)
  BY <1>0, <1>u
<1>1. ASSUME NEW r \in Requests, NEW c \in Clients, Call(r, c)
      PROVE  promisedUntil'[d] <= clock' + Lease(d)
  BY <1>1, <1>u DEF Call, TryAcquireLock, ReleaseLock, KeepAlive, TypeOK
<1>2. ASSUME NEW r \in Requests, Handle(r)
      PROVE  promisedUntil'[d] <= clock' + Lease(d)
  <2>1. request[r] \in Handling /\ request[r].started \in Nat
        /\ request[r].started <= clock
    BY <1>2, HandleInUse, InUse
  <2>2. ASSUME NEW reply \in Replies, Renew(r, reply)
        PROVE  promisedUntil'[d] <= clock' + Lease(d)
    <3>1. clock' = clock /\ promisedUntil' \in {Granted(request[r]), promisedUntil}
      BY <2>2 DEF Renew
    <3>2. CASE promisedUntil'[d] = promisedUntil[d]
      BY <1>u, <3>1, <3>2
    <3>3. CASE /\ d = request[r].client
               /\ promisedUntil'[d] = request[r].started + Lease(d)
      BY <1>0, <2>1, <3>1, <3>3
    <3> QED
      BY <2>1, <3>1, <3>2, <3>3, GrantedTyped
  <2>3. CASE \A reply \in Replies : ~Renew(r, reply)
    BY <1>2, <1>u, <2>3 DEF Handle, PutItemRefused, GetItem, UpdateItemRefused,
       RequestFails, PutItem, UpdateItem, DeleteItem
  <2> QED
    BY <2>2, <2>3
<1>3. CASE Converge \/ UNCHANGED vars
  BY <1>3, <1>u DEF Converge, vars
<1>4. CASE Tick
  BY <1>0, <1>4 DEF Tick
<1> QED
  BY <1>1, <1>2, <1>3, <1>4 DEF Next

Leases == UNION {0 .. Lease(c) : c \in Clients}

LEMMA PromisedLease ==
  TypeOK /\ Bounded => \A c \in Clients : promised[c] \in Leases
<1> SUFFICES ASSUME TypeOK, Bounded, NEW c \in Clients
             PROVE  promised[c] \in Leases
  OBVIOUS
<1>1. promised[c] \in 0 .. Lease(c)
  BY LeaseType, StoreAssumption DEF StoreAssumption, TypeOK, Bounded, promised
<1> QED
  BY <1>1 DEF Leases

LEMMA PromisedLeaseNext ==
  TypeOK' /\ Bounded' => \A c \in Clients : promised'[c] \in Leases
<1> DEFINE InLeases == \A c \in Clients : promised[c] \in Leases
<1>1. TypeOK /\ Bounded => InLeases
  BY PromisedLease
<1>2. TypeOK' /\ Bounded' => InLeases'
  BY <1>1, PromisedLease, PTL
<1>3. Leases' = Leases
  BY DEF Leases
<1> QED
  BY <1>2, <1>3

(* A step of one handler leaves the others where they are. *)
LEMMA OthersStay ==
  ASSUME TypeOK, NEW r \in Requests,
         (\E c \in Clients : Call(r, c)) \/ Handle(r),
         NEW q \in Requests, q # r
  PROVE  request'[q] = request[q]
BY DEF TypeOK, Call, TryAcquireLock, ReleaseLock, KeepAlive, Start, StartTimed, Handle,
   PutItemRefused, GetItem, UpdateItemRefused, RequestFails, PutItem, DeleteItem,
   UpdateItem, Renew, Proceed, Return

(* Only a GetItem that shows a client as the owner brings a handler on to  *)
(* its delete.                                                              *)
LEMMA HandlerActs ==
  ASSUME TypeOK, NEW r \in Requests, (\E c \in Clients : Call(r, c)) \/ Handle(r)
  PROVE  /\ Acting' \subseteq Acting \cup readable
         /\ ~GetItem(r) => Acting' \subseteq Acting
<1>1. At(r, "deleteItem")' =>
        /\ request'[r].client = request[r].client
        /\ At(r, "deleteItem") \/ (GetItem(r) /\ request[r].client \in readable)
  <2> SUFFICES ASSUME At(r, "deleteItem")'
               PROVE  /\ request'[r].client = request[r].client
                      /\ \/ At(r, "deleteItem")
                         \/ GetItem(r) /\ request[r].client \in readable
    OBVIOUS
  <2>1. CASE \E c \in Clients : Call(r, c)
    <3>1. request'[r].step \in {"putItem", "getItem", "updateItem"}
      BY <2>1 DEF Call, TryAcquireLock, ReleaseLock, KeepAlive, StartTimed, Start, TypeOK
    <3> QED
      BY <3>1 DEF At
  <2>2. CASE GetItem(r)
    <3>1. request[r] # Idle
      BY <2>2, AtInUse DEF GetItem
    <3>2. request'[r] # Idle
      BY DEF At, Idle
    <3>3. /\ request[r].client \in readable
          /\ request'[r] = [request[r] EXCEPT !.step = "deleteItem"]
      BY <2>2, <3>2 DEF GetItem, Return, TypeOK
    <3>4. request'[r].client = request[r].client
      BY <3>1, <3>3, InUse DEF Handling, Timed, Untimed
    <3> QED
      BY <2>2, <3>3, <3>4
  <2>3. CASE PutItemRefused(r) \/ UpdateItemRefused(r) \/ RequestFails(r)
    BY <2>3 DEF PutItemRefused, UpdateItemRefused, RequestFails, Return, TypeOK, At, Idle
  <2>4. CASE \E reply \in Replies :
               PutItem(r, reply) \/ DeleteItem(r, reply) \/ UpdateItem(r, reply)
    <3>1. request'[r] \in {request[r], Idle}
      BY <2>4 DEF PutItem, DeleteItem, UpdateItem, Renew, Proceed, Return, TypeOK
    <3> QED
      BY <3>1 DEF At, Idle
  <2> QED
    BY <2>1, <2>2, <2>3, <2>4 DEF Handle
<1>2. ASSUME NEW q \in Requests, At(q, "deleteItem")'
      PROVE  /\ request'[q].client \in Acting \cup readable
             /\ ~GetItem(r) => request'[q].client \in Acting
  <2>1. CASE q = r
    BY <1>1, <1>2, <2>1 DEF Acting
  <2>2. CASE q # r
    <3>1. request'[q] = request[q]
      BY <2>2, OthersStay
    <3> QED
      BY <1>2, <3>1 DEF At, Acting
  <2> QED
    BY <2>1, <2>2
<1> QED
  BY <1>2 DEF Acting

LEMMA ServiceInit == Init => Service!Init
<1> SUFFICES ASSUME Init PROVE Service!Init
  OBVIOUS
<1>1. holder = NoClient
  BY DEF Init, NoItem, holder
<1>2. promised = [c \in Clients |-> 0]
  BY StoreAssumption DEF StoreAssumption, Init, promised
<1>3. Unbacked = {} /\ Acting = {}
  BY <1>2 DEF Init, Unbacked, Acting, At, Idle
<1> QED
  BY <1>1, <1>2, <1>3 DEF Service!Init

(* What the contract has for a step of the store. *)
Serves ==
  \/ Service!Next
  \/ Service!Look
  \/ \E c \in Clients : Service!LateDrop(c) \/ Service!FallBack(c)

(* A write leaves the lock with its client, or with nobody if it comes so  *)
(* late that what it writes is expired already.                            *)
LEMMA RenewServes ==
  ASSUME TypeOK, TypeOK', Bounded', NEW r \in Requests, Handle(r),
         NEW reply \in Replies, PutItem(r, reply) \/ UpdateItem(r, reply)
  PROVE  Serves
<1> DEFINE h == request[r]
<1>c. PICK c \in Clients : c = h.client
  BY HandleInUse, InUse
<1>0. h \in Timed /\ h \in Handling /\ h.started <= clock /\ c # NoClient
  BY AtTimed, InUse, StoreAssumption DEF PutItem, UpdateItem, Handling, StoreAssumption
<1>1. /\ item'.owner = c /\ clock' = clock
      /\ promisedUntil' \in {promisedUntil, Granted(h)}
  BY <1>c DEF PutItem, UpdateItem, Renew, Write
<1>2. Acting' \subseteq Acting
  <2>1. ~GetItem(r)
    BY DEF PutItem, UpdateItem, GetItem, At
  <2> QED
    BY <2>1, HandlerActs
<1>3. holder \in {c, NoClient} /\ holder' \in {c, NoClient}
  <2>1. CASE item.owner \in {c, NoClient}
    BY <1>1, <2>1 DEF holder
  <2>2. CASE item.owner \notin {c, NoClient}
    <3>1. item.expiresAt < Unix(h.now)
      BY <1>c, <2>2 DEF PutItem, UpdateItem, mayAcquire, NoItem
    <3>2. PICK v \in Servers : h.now = h.started + Skew[v]
      BY <1>0 DEF Timed
    <3>3. h.now \in Nat /\ clock + Skew[v] \in Nat /\ h.now <= clock + Skew[v]
      BY <1>0, <3>2, SkewType DEF Timed, TypeOK
    <3>4. ExpiredFor(v)
      BY <3>1, <3>3, UnixMonotone, ExpiresType DEF ExpiredFor
    <3> QED
      BY <1>1, <3>4 DEF holder, ExpiredFor
  <2> QED
    BY <2>1, <2>2
<1>4. /\ promised' = [promised EXCEPT ![c] = promised'[c]]
      /\ Unbacked' \subseteq Clients /\ Unbacked \subseteq Clients
      /\ \A d \in Clients : d # c => (d \in Unbacked' <=> d \in Unbacked)
  <2>1. \A d \in Clients : d # c => /\ promised'[d] = promised[d]
                                    /\ (d \in Unbacked' <=> d \in Unbacked)
    BY <1>c, RenewOthers
  <2>2. promised' = [promised EXCEPT ![c] = promised'[c]]
    BY <2>1 DEF promised
  <2> QED
    BY <2>1, <2>2 DEF Unbacked
<1>5. Service!Promise(c)
  <2>1. promised'[c] \in UNION {0 .. Lease(d) : d \in Clients}
    BY PromisedLeaseNext DEF Leases
  <2> QED
    BY <1>4, <2>1 DEF Service!Promise
<1>6. promised[c] <= promised'[c]
  <2>1. promisedUntil[c] <= promisedUntil'[c]
    <3>1. promisedUntil[c] \in Nat /\ h.started + Lease(c) \in Nat
      BY <1>0, <1>c, GrantedTyped DEF TypeOK
    <3> QED
      BY <1>1, <1>c, <3>1 DEF Granted, TypeOK
  <2> QED
    BY <1>1, <2>1, StoreAssumption DEF promised, TypeOK, StoreAssumption
<1>7. \/ promised'[c] = promised[c] /\ Shortens(r) /\ item.owner = c
      \/ promised'[c] = promised[c] /\ (c \in Unbacked' => c \in Unbacked)
      \/ c \notin Unbacked'
  BY <1>c, RenewOwn
<1>8. ASSUME promised'[c] = promised[c]
      PROVE  promised' = promised
  BY <1>4, <1>8 DEF promised
<1>l. promised[c] \in Nat /\ promised'[c] \in Nat
      /\ (promised[c] > 0 <=> Live(c)) /\ (promised'[c] > 0 <=> Live(c)')
  BY PromiseType, PromiseTypeNext DEF PromisesAreLive
<1>u. c \in Unbacked => promised[c] > 0
  BY DEF Unbacked
<1>f. ASSUME holder = c, promised' = promised, c \in Unbacked' <=> promised[c] > 0
      PROVE  Service!FallBack(c)
  <2>1. Unbacked' = {d \in Unbacked \cup {c} : promised[d] > 0}
    BY <1>4, <1>f DEF Unbacked
  <2> QED
    BY <1>2, <1>3, <1>f, <2>1 DEF Service!FallBack, Service!Dropped
<1>g. ASSUME holder' = c,
             Unbacked' = Unbacked \ {c} \/ (promised' = promised /\ Unbacked' = Unbacked)
      PROVE  Service!TryAcquireLock(c)
  BY <1>2, <1>3, <1>5, <1>g DEF Service!TryAcquireLock, Service!Grant
<1>9. CASE holder' = c
  <2>1. CASE c \notin Unbacked'
    <3>1. Unbacked' = Unbacked \ {c}
      BY <1>4, <2>1
    <3> QED
      BY <1>9, <1>g, <3>1 DEF Serves, Service!Next
  <2>2. CASE c \in Unbacked' /\ c \in Unbacked
    <3>1. promised' = promised /\ Unbacked' = Unbacked
      BY <1>4, <1>7, <1>8, <2>2
    <3> QED
      BY <1>9, <1>g, <3>1 DEF Serves, Service!Next
  <2>3. CASE c \in Unbacked' /\ c \notin Unbacked
    <3>1. promised' = promised
      BY <1>7, <1>8, <2>3
    <3>2. promised[c] > 0
      BY <2>3, <3>1 DEF Unbacked
    <3>3. holder = c
      BY <1>l, <2>3, <3>2, BackedIsHeld DEF BackedHeld
    <3> QED
      BY <1>f, <2>3, <3>1, <3>2, <3>3 DEF Serves
  <2> QED
    BY <2>1, <2>2, <2>3
<1>10. CASE holder' = NoClient
  <2>1. c \in Unbacked' <=> promised'[c] > 0
    <3>1. Live(c)' => c \in Unbacked'
      BY <1>0, <1>10, BackedIsHeldNext DEF BackedHeld
    <3>2. c \in Unbacked' => promised'[c] > 0
      BY DEF Unbacked
    <3> QED
      BY <1>l, <3>1, <3>2
  <2>2. promised' = promised
    <3>1. CASE c \notin Unbacked'
      BY <1>6, <1>8, <1>l, <2>1, <3>1
    <3>2. CASE c \in Unbacked'
      BY <1>7, <1>8, <3>2
    <3> QED
      BY <3>1, <3>2
  <2>3. CASE holder = c
    BY <1>f, <2>1, <2>2, <2>3 DEF Serves
  <2>4. CASE holder = NoClient
    <3>1. promised[c] > 0 => c \in Unbacked
      BY <1>0, <1>l, <2>4, BackedIsHeld DEF BackedHeld
    <3>2. Unbacked' = Unbacked
      BY <1>4, <1>u, <2>1, <2>2, <3>1
    <3> QED
      BY <1>2, <1>10, <2>2, <2>4, <3>2 DEF Serves, Service!Look
  <2> QED
    BY <1>3, <2>3, <2>4
<1> QED
  BY <1>3, <1>9, <1>10

LEMMA DeleteServes ==
  ASSUME TypeOK, TypeOK', NEW r \in Requests, Handle(r),
         NEW reply \in Replies, DeleteItem(r, reply)
  PROVE  Serves
<1>c. PICK c \in Clients : c = request[r].client
  BY HandleInUse, InUse
<1>1. Acting' \subseteq Acting /\ c \in Acting
  <2>1. ~GetItem(r)
    BY DEF DeleteItem, GetItem, At
  <2> QED
    BY <1>c, <2>1, HandlerActs DEF DeleteItem, Acting
<1>2. /\ promised' = promised /\ holder' = NoClient
      /\ Unbacked' = {d \in Unbacked \cup {item.owner} : d \in Clients /\ promised[d] > 0}
  BY DeleteUnbacks DEF holder, NoItem
<1>3. \A d \in Unbacked : d \in Clients /\ promised[d] > 0
  BY DEF Unbacked
<1>4. CASE holder = NoClient
  <2>1. \A d \in Clients : promised[d] > 0 => d \in Unbacked
    BY <1>4, BackedIsHeld, PromiseType, StoreAssumption
    DEF BackedHeld, PromisesAreLive, StoreAssumption
  <2>2. Unbacked' = Unbacked
    BY <1>2, <1>3, <2>1
  <2> QED
    BY <1>1, <1>2, <1>4, <2>2 DEF Serves, Service!Look
<1>5. CASE holder # NoClient
  <2>1. holder = item.owner /\ item.owner \in Clients
    BY <1>5, HolderType DEF TypeOK, Items, NoItem
  <2>2. CASE holder # c \/ promised[c] > 0
    <3>1. Unbacked' = {d \in Unbacked \cup {holder} : promised[d] > 0}
      BY <1>2, <1>3, <2>1
    <3>2. holder \notin {c, NoClient} \/ (holder = c /\ promised[c] > 0)
      BY <1>5, <2>2
    <3>3. Service!LateDrop(c)
      BY <1>1, <1>2, <3>1, <3>2 DEF Service!LateDrop, Service!Dropped
    <3> QED
      BY <3>3 DEF Serves
  <2>3. CASE holder = c /\ ~(promised[c] > 0)
    <3>1. promised[c] = 0
      BY <2>3, PromiseType DEF PromisesAreLive
    <3>2. promised' = [promised EXCEPT ![c] = 0]
      BY <1>2, <3>1 DEF promised
    <3>3. Unbacked' = Unbacked \ {c}
      BY <1>2, <1>3, <2>1, <2>3
    <3> QED
      BY <1>1, <1>2, <2>3, <3>2, <3>3
      DEF Serves, Service!Next, Service!ReleaseLock, Service!Forget
  <2> QED
    BY <2>2, <2>3
<1> QED
  BY <1>4, <1>5

LEMMA TickServes ==
  ASSUME TypeOK, TypeOK', Tick
  PROVE  Service!Pass
<1>1. Acting' = Acting
  BY DEF Tick, Acting, At
<1>2. CASE holder' = holder
  BY <1>1, <1>2, TickUnbacks DEF Service!Pass
<1>3. CASE holder' # holder
  <2>1. holder' = NoClient
    <3>1. ASSUME NEW s \in Servers, ExpiredFor(s)
          PROVE  ExpiredFor(s)'
      <4>1. clock + Skew[s] \in Nat /\ clock + 1 + Skew[s] \in Nat
            /\ clock + Skew[s] <= clock + 1 + Skew[s]
        BY SkewType DEF TypeOK
      <4>2. /\ Unix(clock + Skew[s]) <= Unix(clock + 1 + Skew[s])
            /\ Unix(clock + Skew[s]) \in Nat /\ Unix(clock + 1 + Skew[s]) \in Nat
        BY <4>1, UnixMonotone
      <4> QED
        BY <3>1, <4>2, ExpiresType DEF Tick, ExpiredFor
    <3> QED
      BY <1>3, <3>1 DEF Tick, holder, ExpiredFor
  <2>2. ASSUME NEW c \in Clients, promised'[c] > 0
        PROVE  c \in Unbacked
    <3>1. c \in Unbacked'
      BY <2>1, <2>2, BackedIsHeldNext, PromiseTypeNext, StoreAssumption
      DEF BackedHeld, PromisesAreLive, StoreAssumption
    <3> QED
      BY <3>1, TickUnbacks
  <2> QED
    BY <1>1, <2>1, <2>2, TickUnbacks DEF Service!Pass
<1> QED
  BY <1>2, <1>3

LEMMA ServiceStep ==
  ASSUME TypeOK, TypeOK', Bounded', Next
  PROVE  Serves \/ UNCHANGED Service!vars
<1>1. ASSUME NEW r \in Requests, NEW c \in Clients, Call(r, c)
      PROVE  Serves
  <2>1. Acting' \subseteq Acting
    <3>1. ~GetItem(r)
      BY <1>1 DEF Call, TryAcquireLock, ReleaseLock, KeepAlive, StartTimed, Start,
         GetItem, At, Idle
    <3> QED
      BY <1>1, <3>1, HandlerActs
  <2>2. UNCHANGED holder
    BY <1>1, CallUnbacks DEF holder
  <2>3. CASE UNCHANGED promisedUntil
    <3>1. UNCHANGED <<promised, Unbacked>>
      BY <1>1, <2>3, CallUnbacks, Untouched
    <3> QED
      BY <2>1, <2>2, <3>1 DEF Serves, Service!Look
  <2>4. CASE promised' = [promised EXCEPT ![c] = 0] /\ Unbacked' = Unbacked \ {c}
    BY <2>1, <2>2, <2>4 DEF Serves, Service!Next, Service!GiveUp, Service!Forget
  <2> QED
    BY <1>1, <2>3, <2>4, CallUnbacks
<1>2. ASSUME NEW r \in Requests, Handle(r)
      PROVE  Serves
  <2>1. CASE Quiet(r)
    BY <1>2, <2>1, QuietHandle, Untouched, HandlerActs DEF Serves, Service!Look
  <2> QED
    BY <1>2, <2>1, RenewServes, DeleteServes DEF Handle, Quiet
<1>3. CASE Converge
  BY <1>3, Untouched DEF Converge, Acting, At, Service!vars
<1>4. CASE Tick
  BY <1>4, TickServes DEF Serves, Service!Next
<1> QED
  BY <1>1, <1>2, <1>3, <1>4 DEF Next

(* In every execution, each step of the store is a step of the contract, a *)
(* late delete for a client that was shown as the owner before, or the     *)
(* shortening of the holder's own lease: the store is a lock service with  *)
(* these two deviations, for leases shorter than asked for by the          *)
(* difference between the servers' clocks.                                 *)
THEOREM StoreImplements == Spec => ImplementsLockService
<1>1. TypeOK /\ TypeOK' /\ Bounded' /\ [Next]_vars =>
        [\/ Service!Next
         \/ Service!Look
         \/ \E c \in Clients : Service!LateDrop(c) \/ Service!FallBack(c)]_Service!vars
  <2>1. UNCHANGED vars => UNCHANGED Service!vars
    <3> SUFFICES ASSUME UNCHANGED vars PROVE UNCHANGED Service!vars
      OBVIOUS
    <3>1. UNCHANGED <<clock, item, promisedUntil, request>>
      BY DEF vars
    <3> QED
      BY <3>1, Untouched DEF Acting, At, Service!vars
  <2> QED
    BY <2>1, ServiceStep DEF Serves
<1>2. TypeOK /\ Bounded /\ [Next]_vars => Bounded'
  BY BoundedStep
<1> QED
  BY <1>1, <1>2, BoundedInit, ServiceInit, TypeCorrect, PTL
  DEF Spec, ImplementsLockService

-----------------------------------------------------------------------------
(* What a dead holder leaves behind: an item that every server takes as    *)
(* expired once the holder's lease is over on the fastest clock, however   *)
(* late its last write arrived.                                            *)

ItemsExpire ==
  \A c \in Clients : item.owner = c => item.expiresAt <= Unix(clock + MaxSkew + Lease(c))

LEMMA LatestType ==
  ASSUME TypeOK, NEW c \in Clients
  PROVE  /\ clock + MaxSkew + Lease(c) \in Nat
         /\ Unix(clock + MaxSkew + Lease(c)) \in Nat
<1>1. clock + MaxSkew + Lease(c) \in Nat
  BY LeaseType, StoreAssumption DEF TypeOK, StoreAssumption
<1> QED
  BY <1>1, UnixMonotone

LEMMA RenewalInTime ==
  ASSUME TypeOK, NEW r \in Requests, request[r] \in Timed
  PROVE  expiryTime(request[r]) <= Unix(clock + MaxSkew + Lease(request[r].client))
<1> DEFINE h == request[r]
<1>1. PICK v \in Servers : h.now = h.started + Skew[v]
  BY DEF Timed
<1>2. /\ h.started \in Nat /\ h.started <= clock /\ h.client \in Clients
      /\ clock \in Nat /\ Lease(h.client) \in Nat
  BY LeaseType DEF Timed, TypeOK
<1>3. /\ h.now + Lease(h.client) \in Nat
      /\ h.now + Lease(h.client) <= clock + MaxSkew + Lease(h.client)
  BY <1>1, <1>2, SkewType
<1> QED
  BY <1>2, <1>3, LatestType, UnixMonotone DEF expiryTime

LEMMA ItemsExpireStep ==
  ASSUME TypeOK, ItemsExpire, [Next]_vars
  PROVE  ItemsExpire'
<1>1. CASE UNCHANGED <<clock, item>>
  BY <1>1 DEF ItemsExpire
<1>2. ASSUME NEW r \in Requests, NEW c \in Clients, Call(r, c)
      PROVE  ItemsExpire'
  BY <1>1, <1>2 DEF Call, TryAcquireLock, ReleaseLock, KeepAlive
<1>3. ASSUME NEW r \in Requests, NEW reply \in Replies,
             PutItem(r, reply) \/ UpdateItem(r, reply)
      PROVE  ItemsExpire'
  <2>1. request[r] \in Timed /\ request[r].client \in Clients
    BY <1>3, AtTimed, InUse DEF PutItem, UpdateItem
  <2>2. /\ item'.owner = request[r].client
        /\ item'.expiresAt = expiryTime(request[r]) /\ clock' = clock
    BY <1>3 DEF PutItem, UpdateItem, Renew, Write
  <2> QED
    BY <2>1, <2>2, RenewalInTime DEF ItemsExpire
<1>4. ASSUME NEW r \in Requests, NEW reply \in Replies, DeleteItem(r, reply)
      PROVE  ItemsExpire'
  BY <1>4, StoreAssumption DEF DeleteItem, Write, NoItem, ItemsExpire, StoreAssumption
<1>5. ASSUME NEW r \in Requests,
             PutItemRefused(r) \/ GetItem(r) \/ UpdateItemRefused(r) \/ RequestFails(r)
      PROVE  ItemsExpire'
  BY <1>1, <1>5 DEF PutItemRefused, GetItem, UpdateItemRefused, RequestFails
<1>6. CASE Converge \/ UNCHANGED vars
  BY <1>1, <1>6 DEF Converge, vars
<1>7. CASE Tick
  <2> SUFFICES ASSUME NEW c \in Clients, item.owner = c
               PROVE  item.expiresAt <= Unix(clock + 1 + MaxSkew + Lease(c))
    BY <1>7 DEF Tick, ItemsExpire
  <2>1. /\ clock \in Nat /\ Lease(c) \in Nat /\ MaxSkew \in Nat
        /\ item.expiresAt \in Nat
    BY LeaseType, ExpiresType, StoreAssumption DEF TypeOK, StoreAssumption
  <2>2. /\ clock + 1 + MaxSkew + Lease(c) \in Nat
        /\ clock + MaxSkew + Lease(c) <= clock + 1 + MaxSkew + Lease(c)
    BY <2>1
  <2>3. item.expiresAt <= Unix(clock + MaxSkew + Lease(c))
    BY DEF ItemsExpire
  <2> QED
    BY <2>1, <2>2, <2>3, LatestType, UnixMonotone
<1> QED
  BY <1>2, <1>3, <1>4, <1>5, <1>6, <1>7 DEF Next, Handle

(* No write, delayed, resent or on a fast clock, makes a lock last longer  *)
(* than its owner's lease and the difference between the clocks, from now. *)
THEOREM NoItemIsForever == Spec => []ItemsExpire
<1>1. Init => ItemsExpire
  BY StoreAssumption DEF Init, NoItem, ItemsExpire, StoreAssumption
<1> QED
  BY <1>1, ItemsExpireStep, TypeCorrect, PTL DEF Spec

=============================================================================

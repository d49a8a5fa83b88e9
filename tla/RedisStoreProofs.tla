------------------------- MODULE RedisStoreProofs -------------------------
(***************************************************************************)
(* Proofs about RedisStore, for any set of clients, any TTLs, any number   *)
(* of requests in progress: its type invariant, lease safety, that it      *)
(* implements the contract LockService with the two deviations it names,   *)
(* and that no key is left without a TTL.                                  *)
(***************************************************************************)
EXTENDS RedisStore, TLAPS

(* The TTL a store works with is always positive: this is what lets SET    *)
(* and EXPIRE give every key a TTL (resolveTTL and Validate).              *)
LEMMA TTLPositive ==
  ASSUME NEW c \in Clients
  PROVE  lockTTL(c) \in Nat \ {0}
BY StoreAssumption DEF StoreAssumption, lockTTL, resolveTTL, validTTL

(* What an age step does to a key, and what it leaves. *)
LEMMA AgedKey ==
  ASSUME NEW k \in Keys
  PROVE  /\ Aged(k) \in Keys
         /\ k.left > 1 => Aged(k).owner = k.owner /\ Aged(k).left = k.left - 1
         /\ Aged(k).owner \in {k.owner, NoClient}
<1>1. CASE k.left = 0
  BY <1>1 DEF Aged, Keys
<1>2. CASE k.left = 1
  BY <1>2 DEF Aged, Absent, Keys
<1>3. CASE k.left # 0 /\ k.left # 1
  BY <1>3 DEF Aged, Keys, Absent
<1> QED
  BY <1>1, <1>2, <1>3

(* EXPIRE keeps the owner and resets the TTL of a key that exists. *)
LEMMA ExpiredKey ==
  ASSUME NEW k \in Keys, NEW c \in Clients
  PROVE  /\ Expired(k, lockTTL(c)) \in Keys
         /\ Expired(k, lockTTL(c)).owner = k.owner
         /\ k.owner # NoClient => Expired(k, lockTTL(c)).left = lockTTL(c)
BY TTLPositive, StoreAssumption DEF Expired, Absent, Keys, StoreAssumption

(* A slot in use is handling a request of some client. *)
LEMMA InUse ==
  ASSUME TypeOK, NEW r \in Requests, request[r] # Idle
  PROVE  /\ request[r].client \in Clients
         /\ request[r] \in Handling(request[r].client)
         /\ request[r].credit \in Credit(request[r].client)
BY DEF TypeOK, Handling, Handlers

LEMMA AtInUse ==
  ASSUME NEW r \in Requests, NEW s \in Steps, At(r, s)
  PROVE  request[r] # Idle
BY DEF At, Idle, Steps

LEMMA StartTyped ==
  ASSUME TypeOK, NEW r \in Requests, NEW c \in Clients, NEW s \in Steps,
         Start(r, c, s)
  PROVE  request' \in [Requests -> Handlers]
<1>1. [step |-> s, client |-> c, credit |-> lockTTL(c)] \in Handlers
  BY TTLPositive DEF Handlers, Handling, Credit
<1> QED
  BY <1>1 DEF TypeOK, Start

LEMMA GotoTyped ==
  ASSUME TypeOK, NEW r \in Requests, request[r] # Idle, NEW s \in Steps, Goto(r, s)
  PROVE  request' \in [Requests -> Handlers]
<1>1. [request[r] EXCEPT !.step = s] \in Handlers
  BY InUse DEF Handlers, Handling
<1> QED
  BY <1>1 DEF TypeOK, Goto

LEMMA ReturnTyped ==
  ASSUME TypeOK, NEW r \in Requests, Return(r)
  PROVE  request' \in [Requests -> Handlers]
BY DEF TypeOK, Return, Handlers

(* Promises stay below the TTL of the client they are made to. *)
Promises == {p \in [Clients -> UNION {Credit(c) : c \in Clients}] :
               \A c \in Clients : p[c] \in Credit(c)}

LEMMA GrantedTyped ==
  ASSUME TypeOK, NEW c \in Clients, NEW p \in Credit(c)
  PROVE  /\ Granted(c, p) \in Promises
         /\ \A d \in Clients : d # c => Granted(c, p)[d] = promised[d]
         /\ Granted(c, p)[c] \in {promised[c], p}
BY DEF TypeOK, Granted, Promises

LEMMA AnswerTyped ==
  ASSUME TypeOK, NEW r \in Requests, request[r] # Idle, NEW b \in BOOLEAN,
         NEW reply \in Replies, Answer(r, request[r].client, b, reply)
  PROVE  request' \in [Requests -> Handlers] /\ promised' \in Promises
BY InUse, ReturnTyped, GrantedTyped DEF Answer, Proceed, TypeOK, Promises

-----------------------------------------------------------------------------
(* Type correctness. *)

LEMMA TypeStep == TypeOK /\ [Next]_vars => TypeOK'
<1> SUFFICES ASSUME TypeOK, [Next]_vars
             PROVE  TypeOK'
  OBVIOUS
<1> USE DEF TypeOK
<1> SUFFICES /\ key' \in Keys
             /\ request' \in [Requests -> Handlers]
             /\ promised' \in Promises
  BY DEF Promises
<1>0. promised \in Promises
  BY DEF Promises
<1>1. ASSUME NEW r \in Requests, NEW c \in Clients, Call(r, c)
      PROVE  /\ request' \in [Requests -> Handlers] /\ promised' \in Promises
             /\ UNCHANGED key
  <2>1. request' \in [Requests -> Handlers]
    BY <1>1, StartTyped DEF Call, TryAcquireLock, ReleaseLock, KeepAlive, Steps
  <2>2. promised' \in Promises
    <3>1. 0 \in Credit(c)
      BY TTLPositive DEF Credit
    <3>2. [promised EXCEPT ![c] = 0] \in Promises
      BY <1>0, <3>1 DEF Promises
    <3> QED
      BY <1>0, <1>1, <3>2 DEF Call, TryAcquireLock, ReleaseLock, KeepAlive
  <2> QED
    BY <1>1, <2>1, <2>2 DEF Call, TryAcquireLock, ReleaseLock, KeepAlive
<1>2. ASSUME NEW r \in Requests, Command(r)
      PROVE  /\ key' \in Keys /\ request' \in [Requests -> Handlers]
             /\ promised' \in Promises
  <2>0. request[r] # Idle
    BY <1>2, AtInUse DEF Command, SetNXFindsKey, AcquireGet, ReleaseGet, KeepAliveGet,
       ReleaseDel, CommandFails, SetNXWrites, AcquireExpire, KeepAliveExpire, Steps
  <2>1. CASE SetNXFindsKey(r) \/ AcquireGet(r) \/ ReleaseGet(r) \/ KeepAliveGet(r)
             \/ CommandFails(r)
    BY <1>0, <2>0, <2>1, GotoTyped, ReturnTyped
    DEF SetNXFindsKey, AcquireGet, ReleaseGet, KeepAliveGet, CommandFails, Steps
  <2>2. ASSUME NEW reply \in Replies, ReleaseDel(r, reply)
        PROVE  /\ key' \in Keys /\ request' \in [Requests -> Handlers]
               /\ promised' \in Promises
    BY <1>0, <2>2, ReturnTyped DEF ReleaseDel, Proceed, Absent, Keys
  <2>3. ASSUME NEW reply \in Replies, SetNXWrites(r, reply)
        PROVE  /\ key' \in Keys /\ request' \in [Requests -> Handlers]
               /\ promised' \in Promises
    BY <2>0, <2>3, InUse, AnswerTyped, TTLPositive DEF SetNXWrites, Written, Keys
  <2>4. ASSUME NEW reply \in Replies, AcquireExpire(r, reply)
        PROVE  /\ key' \in Keys /\ request' \in [Requests -> Handlers]
               /\ promised' \in Promises
    BY <2>0, <2>4, InUse, AnswerTyped, ExpiredKey DEF AcquireExpire
  <2>5. ASSUME NEW reply \in Replies, KeepAliveExpire(r, reply)
        PROVE  /\ key' \in Keys /\ request' \in [Requests -> Handlers]
               /\ promised' \in Promises
    BY <2>0, <2>5, InUse, AnswerTyped, ExpiredKey DEF KeepAliveExpire
  <2> QED
    BY <1>2, <2>1, <2>2, <2>3, <2>4, <2>5 DEF Command
<1>3. CASE Tick
  <2>1. ASSUME NEW r \in Requests
        PROVE  [request[r] EXCEPT !.credit = Less(@)] \in Handlers
    <3>1. CASE request[r] = Idle
      BY <3>1 DEF Idle, Less, Handlers
    <3>2. CASE request[r] # Idle
      BY <3>2, InUse, TTLPositive DEF Less, Handlers, Handling, Credit
    <3> QED
      BY <3>1, <3>2
  <2>2. promised' \in Promises
    BY <1>3, TTLPositive DEF Tick, Less, Promises, Credit
  <2> QED
    BY <1>3, <2>1, <2>2, AgedKey DEF Tick
<1>4. CASE UNCHANGED vars
  BY <1>0, <1>4 DEF vars
<1> QED
  BY <1>1, <1>2, <1>3, <1>4 DEF Next, Promises

LEMMA TypeInit == Init => TypeOK
<1> SUFFICES ASSUME Init PROVE TypeOK
  OBVIOUS
<1>0. \A c \in Clients : lockTTL(c) \in Nat
  BY TTLPositive
<1>1. key \in Keys
  BY DEF Init, Keys
<1>2. request \in [Requests -> Handlers]
  BY DEF Init, Handlers
<1>3. ASSUME NEW c \in Clients
      PROVE  promised[c] \in Credit(c)
  <2>1. promised[c] = 0
    BY DEF Init
  <2> QED
    BY <1>0, <2>1 DEF Credit
<1>4. promised \in [Clients -> UNION {Credit(c) : c \in Clients}]
  BY <1>3 DEF Init
<1> QED
  BY <1>1, <1>2, <1>3, <1>4 DEF Init, TypeOK

(* Every execution keeps the types, and with them the bound that matters:  *)
(* nobody is promised more than its own TTL.                               *)
THEOREM TypeCorrect == Spec => []TypeOK
<1> QED
  BY TypeInit, TypeStep, PTL DEF Spec

-----------------------------------------------------------------------------
(* What the steps do to the promises that are unbacked. *)

(* The step of a handler leaves the other handlers where they are. *)
LEMMA OthersStay ==
  ASSUME TypeOK, NEW r \in Requests,
         (\E c \in Clients : Call(r, c)) \/ Command(r),
         NEW q \in Requests, q # r
  PROVE  request'[q] = request[q]
BY DEF TypeOK, Call, TryAcquireLock, ReleaseLock, KeepAlive, Start, Command,
   SetNXFindsKey, AcquireGet, ReleaseGet, KeepAliveGet, CommandFails, Goto, Return,
   SetNXWrites, AcquireExpire, ReleaseDel, KeepAliveExpire, Answer, Proceed

LEMMA CommandInUse ==
  ASSUME TypeOK, NEW r \in Requests, Command(r)
  PROVE  request[r] # Idle /\ request[r].client \in Clients
<1>1. request[r] # Idle
  BY AtInUse DEF Command, SetNXFindsKey, AcquireGet, ReleaseGet, KeepAliveGet,
     ReleaseDel, CommandFails, SetNXWrites, AcquireExpire, KeepAliveExpire, Steps
<1> QED
  BY <1>1, InUse

(* A key without an owner is no key. *)
LEMMA KeyOwner ==
  ASSUME TypeOK
  PROVE  /\ key # Absent => key.owner \in Clients /\ key.owner # NoClient /\ key.left \in Nat
         /\ key = Absent => key.owner = NoClient
BY StoreAssumption DEF TypeOK, Keys, Absent, StoreAssumption

(* With the key untouched, only promises that are given up change. *)
LEMMA KeyUntouched ==
  ASSUME TypeOK, key' = key,
         \A d \in Clients : promised'[d] \in {promised[d], 0}
  PROVE  Unbacked' = {d \in Unbacked : promised'[d] > 0}
BY DEF Unbacked

(* The promise made to c by an answer, if any; all others stay. *)
LEMMA AnswerPromises ==
  ASSUME TypeOK, NEW r \in Requests, request[r] # Idle, NEW b \in BOOLEAN,
         NEW reply \in Replies, Answer(r, request[r].client, b, reply)
  PROVE  /\ promised' \in Promises
         /\ \A d \in Clients : d # request[r].client => promised'[d] = promised[d]
         /\ promised' = [promised EXCEPT ![request[r].client] = promised'[request[r].client]]
<1>1. /\ request[r].client \in Clients
      /\ request[r].credit \in Credit(request[r].client)
  BY InUse
<1>2. promised' \in Promises
  BY AnswerTyped
<1>3. \A d \in Clients : d # request[r].client => promised'[d] = promised[d]
  BY <1>1, GrantedTyped DEF Answer
<1> QED
  BY <1>1, <1>2, <1>3 DEF TypeOK, Promises

(* A promise made on a key that was just written, or whose TTL was just    *)
(* reset, for the client it is made to, is backed.                         *)
LEMMA AnswerBacked ==
  ASSUME TypeOK, NEW r \in Requests, request[r] # Idle, NEW b \in BOOLEAN,
         NEW reply \in Replies, Answer(r, request[r].client, b, reply),
         key.owner \in {request[r].client, NoClient},
         key' = [owner |-> request[r].client, left |-> lockTTL(request[r].client)]
  PROVE  Unbacked' = Unbacked \ {request[r].client}
<1> DEFINE c == request[r].client
<1>1. c \in Clients
  BY InUse
<1>2. promised'[c] <= key'.left /\ ~ (promised'[c] > key'.left)
  BY <1>1, AnswerPromises, TTLPositive DEF Promises, Credit
<1>3. c \notin Unbacked'
  BY <1>1, <1>2, AnswerPromises, TTLPositive DEF Unbacked, Promises, Credit
<1>4. ASSUME NEW d \in Clients, d # c
      PROVE  d \in Unbacked' <=> d \in Unbacked
  <2>1. key.owner # d /\ key'.owner # d
    BY <1>4, StoreAssumption DEF StoreAssumption
  <2> QED
    BY <1>4, <2>1, AnswerPromises DEF Unbacked
<1> QED
  BY <1>3, <1>4 DEF Unbacked

(* An EXPIRE on a key that is not the client's breaks no promise but the   *)
(* one it makes and those made to the key's owner.                         *)
LEMMA AnswerLate ==
  ASSUME TypeOK, NEW r \in Requests, request[r] # Idle, NEW b \in BOOLEAN,
         NEW reply \in Replies, Answer(r, request[r].client, b, reply),
         key.owner # request[r].client,
         key' = Expired(key, lockTTL(request[r].client))
  PROVE  /\ key'.owner = key.owner
         /\ Unbacked' \ {request[r].client, key.owner}
              = Unbacked \ {request[r].client, key.owner}
         /\ promised'[request[r].client] > 0 => request[r].client \in Unbacked'
<1>1. request[r].client \in Clients
  BY InUse
<1>2. key'.owner = key.owner
  BY <1>1, ExpiredKey DEF TypeOK
<1>3. ASSUME NEW d \in Clients, d # request[r].client, d # key.owner
      PROVE  d \in Unbacked' <=> d \in Unbacked
  BY <1>2, <1>3, AnswerPromises DEF Unbacked
<1> QED
  BY <1>1, <1>2, <1>3 DEF Unbacked

LEMMA AnswerUnsent ==
  ASSUME NEW r, NEW c, NEW reply, Answer(r, c, FALSE, reply)
  PROVE  promised' = promised
BY DEF Answer

(* EXPIRE resets the TTL of the client's own key. *)
LEMMA OwnKeyExpired ==
  ASSUME TypeOK, NEW c \in Clients, key.owner = c, key' = Expired(key, lockTTL(c))
  PROVE  key' = [owner |-> c, left |-> lockTTL(c)]
<1>1. key # Absent /\ ~ (lockTTL(c) <= 0)
  BY TTLPositive, KeyOwner, StoreAssumption DEF StoreAssumption
<1> QED
  BY <1>1 DEF TypeOK, Expired, Keys

(* What each command does to the promises: none, or a promise that is      *)
(* backed, or one of the late commands.                                    *)
LEMMA ExpireOwn ==
  ASSUME TypeOK, NEW r \in Requests, NEW reply \in Replies,
         AcquireExpire(r, reply) \/ KeepAliveExpire(r, reply),
         key.owner = request[r].client, request[r].client \in Clients, request[r] # Idle
  PROVE  /\ key'.owner = key.owner
         /\ Unbacked' = Unbacked \ {request[r].client}
         /\ promised' = [promised EXCEPT ![request[r].client] = promised'[request[r].client]]
<1>1. key' = [owner |-> request[r].client, left |-> lockTTL(request[r].client)]
  BY OwnKeyExpired DEF AcquireExpire, KeepAliveExpire
<1>2. \E b \in BOOLEAN : Answer(r, request[r].client, b, reply)
  BY DEF AcquireExpire, KeepAliveExpire
<1> QED
  BY <1>1, <1>2, AnswerBacked, AnswerPromises

LEMMA ExpireOther ==
  ASSUME TypeOK, NEW r \in Requests, NEW reply \in Replies,
         AcquireExpire(r, reply) \/ KeepAliveExpire(r, reply),
         key.owner # request[r].client, request[r] # Idle
  PROVE  /\ key'.owner = key.owner
         /\ Unbacked' \ {request[r].client, key.owner}
              = Unbacked \ {request[r].client, key.owner}
         /\ promised'[request[r].client] > 0 => request[r].client \in Unbacked'
         /\ promised' = [promised EXCEPT ![request[r].client] = promised'[request[r].client]]
<1>1. key' = Expired(key, lockTTL(request[r].client))
  BY DEF AcquireExpire, KeepAliveExpire
<1>2. \E b \in BOOLEAN : Answer(r, request[r].client, b, reply)
  BY DEF AcquireExpire, KeepAliveExpire
<1> QED
  BY <1>1, <1>2, AnswerLate, AnswerPromises

LEMMA KeepAliveFindsNone ==
  ASSUME TypeOK, NEW r \in Requests, NEW reply \in Replies,
         KeepAliveExpire(r, reply), key = Absent
  PROVE  key' = key /\ promised' = promised /\ Unbacked' = Unbacked
<1>1. key' = key
  BY DEF KeepAliveExpire, Expired
<1>2. promised' = promised
  BY AnswerUnsent DEF KeepAliveExpire
<1> QED
  BY <1>1, <1>2 DEF Unbacked

LEMMA SetBacked ==
  ASSUME TypeOK, NEW r \in Requests, NEW reply \in Replies, SetNXWrites(r, reply),
         request[r] # Idle
  PROVE  /\ key.owner = NoClient /\ key'.owner = request[r].client
         /\ Unbacked' = Unbacked \ {request[r].client}
         /\ promised' = [promised EXCEPT ![request[r].client] = promised'[request[r].client]]
<1>1. /\ key.owner = NoClient
      /\ key' = [owner |-> request[r].client, left |-> lockTTL(request[r].client)]
      /\ Answer(r, request[r].client, TRUE, reply)
  BY DEF SetNXWrites, Absent, Written
<1> QED
  BY <1>1, AnswerBacked, AnswerPromises

LEMMA DelUnbacks ==
  ASSUME TypeOK, NEW r \in Requests, NEW reply \in Replies, ReleaseDel(r, reply)
  PROVE  /\ key'.owner = NoClient /\ promised' = promised
         /\ Unbacked' = IF key.owner = NoClient THEN Unbacked
                        ELSE {d \in Unbacked \cup {key.owner} : promised[d] > 0}
<1>1. key'.owner = NoClient /\ promised' = promised
  BY DEF ReleaseDel, Absent
<1>2. ASSUME NEW d \in Clients
      PROVE  key'.owner # d /\ (d \in Unbacked' <=> promised[d] > 0)
  BY <1>1, StoreAssumption DEF StoreAssumption, Unbacked
<1>3. ASSUME NEW d \in Clients
      PROVE  d \in Unbacked' <=> d \in Unbacked \cup {key.owner} /\ promised[d] > 0
  BY <1>2 DEF Unbacked
<1>4. CASE key.owner \in Clients
  BY <1>1, <1>3, <1>4, StoreAssumption DEF Unbacked, StoreAssumption
<1>5. CASE key.owner = NoClient
  <2>1. key = Absent
    BY <1>5, KeyOwner
  <2>2. Unbacked' = Unbacked
    BY <1>1, <2>1 DEF Unbacked, ReleaseDel
  <2> QED
    BY <1>1, <1>5, <2>2
<1> QED
  BY <1>4, <1>5, KeyOwner

LEMMA TickUnbacks ==
  ASSUME TypeOK, Tick
  PROVE  /\ promised' = [c \in Clients |-> IF promised[c] > 0 THEN promised[c] - 1 ELSE 0]
         /\ Unbacked' = {d \in Unbacked : promised'[d] > 0}
<1>1. promised' = [c \in Clients |-> IF promised[c] > 0 THEN promised[c] - 1 ELSE 0]
  BY DEF Tick, Less
<1>2. ASSUME NEW d \in Clients, promised'[d] > 0
      PROVE  d \in Unbacked' <=> d \in Unbacked
  <2>1. key \in Keys /\ key.left \in Nat /\ promised[d] \in Nat /\ key' = Aged(key)
    BY TTLPositive DEF TypeOK, Tick, Keys, Absent, Credit
  <2>2. promised[d] > 1 /\ promised'[d] = promised[d] - 1
    BY <1>1, <1>2, <2>1
  <2>3. CASE key.left > 1
    <3>1. key'.owner = key.owner /\ key'.left = key.left - 1
      BY <2>1, <2>3, AgedKey
    <3> QED
      BY <2>1, <2>2, <2>3, <3>1 DEF Unbacked
  <2>4. CASE ~ (key.left > 1)
    <3>1. d \in Unbacked
      BY <2>1, <2>2, <2>4 DEF Unbacked
    <3>2. ~ (key'.left > 1) /\ (key'.left = 0 \/ key'.owner # d)
      BY <2>1, <2>4, StoreAssumption DEF Aged, Absent, StoreAssumption
    <3>3. key'.left \in Nat
      BY <2>1, AgedKey DEF Keys, Absent
    <3> QED
      BY <1>2, <2>1, <2>2, <3>1, <3>2, <3>3 DEF Unbacked
  <2> QED
    BY <2>3, <2>4
<1> QED
  BY <1>1, <1>2 DEF Unbacked

LEMMA CallUnbacks ==
  ASSUME TypeOK, NEW r \in Requests, NEW c \in Clients, Call(r, c)
  PROVE  /\ key' = key
         /\ \/ promised' = promised /\ Unbacked' = Unbacked
            \/ promised' = [promised EXCEPT ![c] = 0] /\ Unbacked' = Unbacked \ {c}
<1>1. key' = key
  BY DEF Call, TryAcquireLock, ReleaseLock, KeepAlive
<1>2. CASE promised' = promised
  BY <1>1, <1>2 DEF Unbacked
<1>3. CASE promised' = [promised EXCEPT ![c] = 0]
  <2>1. promised'[c] = 0 /\ \A d \in Clients \ {c} : promised'[d] = promised[d]
    BY <1>3 DEF TypeOK
  <2> QED
    BY <1>1, <1>3, <2>1 DEF Unbacked
<1> QED
  BY <1>1, <1>2, <1>3 DEF Call, TryAcquireLock, ReleaseLock, KeepAlive

LEMMA QuietCommand ==
  ASSUME NEW r, SetNXFindsKey(r) \/ AcquireGet(r) \/ ReleaseGet(r) \/ KeepAliveGet(r)
                \/ CommandFails(r)
  PROVE  key' = key /\ promised' = promised /\ Unbacked' = Unbacked
<1>1. key' = key /\ promised' = promised
  BY DEF SetNXFindsKey, AcquireGet, ReleaseGet, KeepAliveGet, CommandFails
<1> QED
  BY <1>1 DEF Unbacked

-----------------------------------------------------------------------------
(* Lease safety. *)

LEMMA LeaseStep ==
  ASSUME TypeOK, Next, NEW c \in Unbacked' \ Unbacked
  PROVE  \E r \in Requests :
           \/ LateExpire(r) /\ c \in {request[r].client, key.owner}
           \/ (\E reply \in Replies : ReleaseDel(r, reply)) /\ c = key.owner
<1>1. ASSUME NEW r \in Requests, NEW d \in Clients, Call(r, d)
      PROVE  FALSE
  BY <1>1, CallUnbacks
<1>2. ~Tick
  BY TickUnbacks
<1>3. ASSUME NEW r \in Requests, Command(r)
      PROVE  \/ LateExpire(r) /\ c \in {request[r].client, key.owner}
             \/ (\E reply \in Replies : ReleaseDel(r, reply)) /\ c = key.owner
  <2>0. request[r] # Idle /\ request[r].client \in Clients
    BY <1>3, CommandInUse
  <2>1. ASSUME SetNXFindsKey(r) \/ AcquireGet(r) \/ ReleaseGet(r) \/ KeepAliveGet(r)
               \/ CommandFails(r)
        PROVE  FALSE
    BY <2>1, QuietCommand
  <2>2. ASSUME NEW reply \in Replies, ReleaseDel(r, reply)
        PROVE  c = key.owner
    BY <2>2, DelUnbacks
  <2>3. ASSUME NEW reply \in Replies, SetNXWrites(r, reply)
        PROVE  FALSE
    BY <2>0, <2>3, SetBacked
  <2>4. ASSUME NEW reply \in Replies, AcquireExpire(r, reply) \/ KeepAliveExpire(r, reply)
        PROVE  LateExpire(r) /\ c \in {request[r].client, key.owner}
    <3>1. key.owner # request[r].client
      BY <2>0, <2>4, ExpireOwn
    <3>2. c \in {request[r].client, key.owner}
      BY <2>0, <2>4, <3>1, ExpireOther
    <3>3. KeepAliveExpire(r, reply) => key # Absent
      BY KeepAliveFindsNone
    <3> QED
      BY <2>4, <3>1, <3>2, <3>3 DEF LateExpire
  <2> QED
    BY <1>3, <2>1, <2>2, <2>3, <2>4 DEF Command
<1> QED
  BY <1>1, <1>2, <1>3 DEF Next

(* In every execution, a promise comes to be without its lock only by an   *)
(* EXPIRE or a DEL that is late: an EXPIRE that finds the key gone, or     *)
(* another client's, or a DEL of a key its client owns no more or anew.    *)
THEOREM LeaseSafe == Spec => LeaseSafety
<1>1. TypeOK /\ [Next]_vars =>
        [\A c \in Unbacked' \ Unbacked :
           \E r \in Requests :
             \/ LateExpire(r) /\ c \in {request[r].client, key.owner}
             \/ (\E reply \in Replies : ReleaseDel(r, reply)) /\ c = key.owner]_vars
  BY LeaseStep
<1> QED
  BY <1>1, TypeCorrect, PTL DEF Spec, LeaseSafety

-----------------------------------------------------------------------------
(* The store and the contract of LockStore. *)

(* A handler's step brings no client past its GET, unless the GET showed   *)
(* it as the owner.                                                         *)
LEMMA HandlerActs ==
  ASSUME TypeOK, NEW r \in Requests, (\E c \in Clients : Call(r, c)) \/ Command(r)
  PROVE  /\ PastGet(r)' => /\ request'[r].client = request[r].client
                           /\ \/ PastGet(r)
                              \/ /\ request[r].client = key.owner
                                 /\ AcquireGet(r) \/ ReleaseGet(r) \/ KeepAliveGet(r)
         /\ Acting' \subseteq Acting \cup (IF PastGet(r)' THEN {request[r].client} ELSE {})
<1>1. PastGet(r)' => /\ request'[r].client = request[r].client
                     /\ \/ PastGet(r)
                        \/ /\ request[r].client = key.owner
                           /\ AcquireGet(r) \/ ReleaseGet(r) \/ KeepAliveGet(r)
  <2> SUFFICES ASSUME PastGet(r)'
               PROVE  /\ request'[r].client = request[r].client
                      /\ \/ PastGet(r)
                         \/ /\ request[r].client = key.owner
                            /\ AcquireGet(r) \/ ReleaseGet(r) \/ KeepAliveGet(r)
    OBVIOUS
  <2>1. CASE \E c \in Clients : Call(r, c)
    BY <2>1 DEF Call, TryAcquireLock, ReleaseLock, KeepAlive, Start, TypeOK, PastGet
  <2>2. CASE AcquireGet(r) \/ ReleaseGet(r) \/ KeepAliveGet(r)
    <3>1. request[r] # Idle
      BY <2>2, AtInUse DEF AcquireGet, ReleaseGet, KeepAliveGet, Steps
    <3>2. request'[r] # Idle
      BY DEF PastGet, Idle
    <3>3. PICK s \in Steps : Goto(r, s) /\ request[r].client = key.owner
      BY <2>2, <3>2 DEF AcquireGet, ReleaseGet, KeepAliveGet, Return, TypeOK, Steps
    <3>4. request'[r] = [request[r] EXCEPT !.step = s]
      BY <3>3 DEF Goto, TypeOK
    <3>5. request'[r].client = request[r].client
      BY <3>1, <3>4, InUse DEF Handling
    <3> QED
      BY <2>2, <3>3, <3>5
  <2>3. CASE SetNXFindsKey(r)
    <3>1. request[r] # Idle
      BY <2>3, AtInUse DEF SetNXFindsKey, Steps
    <3>2. request'[r] = [request[r] EXCEPT !.step = "acquireGet"]
      BY <2>3 DEF SetNXFindsKey, Goto, TypeOK
    <3>3. request'[r].step = "acquireGet"
      BY <3>1, <3>2, InUse DEF Handling
    <3> QED
      BY <3>3 DEF PastGet
  <2>4. CASE CommandFails(r)
    BY <2>4 DEF CommandFails, Return, TypeOK, PastGet, Idle
  <2>5. CASE \E reply \in Replies :
               \/ SetNXWrites(r, reply) \/ AcquireExpire(r, reply)
               \/ ReleaseDel(r, reply) \/ KeepAliveExpire(r, reply)
    <3>1. request'[r] \in {request[r], Idle}
      BY <2>5 DEF SetNXWrites, AcquireExpire, ReleaseDel, KeepAliveExpire, Answer,
         Proceed, Return, TypeOK
    <3> QED
      BY <3>1 DEF PastGet, Idle
  <2> QED
    BY <2>1, <2>2, <2>3, <2>4, <2>5 DEF Command
<1>2. ASSUME NEW q \in Requests, PastGet(q)'
      PROVE  request'[q].client \in
               Acting \cup (IF PastGet(r)' THEN {request[r].client} ELSE {})
  <2>1. CASE q = r
    BY <1>1, <1>2, <2>1
  <2>2. CASE q # r
    <3>1. request'[q] = request[q]
      BY <2>2, OthersStay
    <3> QED
      BY <1>2, <3>1 DEF PastGet, Acting
  <2> QED
    BY <2>1, <2>2
<1> QED
  BY <1>1, <1>2 DEF Acting

LEMMA ServiceInit == Init => Service!Init
BY DEF Init, Idle, Absent, Unbacked, Acting, PastGet, Service!Init

LEMMA ServiceStep ==
  ASSUME TypeOK, TypeOK', Next
  PROVE  \/ Service!Next \/ Service!Look
         \/ \E c \in Clients : Service!LateAnswer(c) \/ Service!LateDrop(c)
         \/ UNCHANGED Service!vars
<1> DEFINE Leases == UNION {Credit(d) : d \in Clients}
           Goal == \/ Service!Next \/ Service!Look
                   \/ \E c \in Clients : Service!LateAnswer(c) \/ Service!LateDrop(c)
                   \/ UNCHANGED Service!vars
<1>0. promised \in [Clients -> Leases] /\ promised' \in [Clients -> Leases]
  BY DEF TypeOK
<1>1. ASSUME NEW r \in Requests, NEW c \in Clients, Call(r, c)
      PROVE  Goal
  <2>1. Acting' \subseteq Acting
    <3>1. ~PastGet(r)'
      BY <1>1 DEF Call, TryAcquireLock, ReleaseLock, KeepAlive, Start, TypeOK, PastGet
    <3> QED
      BY <1>1, <3>1, HandlerActs
  <2>2. CASE promised' = promised /\ Unbacked' = Unbacked
    BY <1>1, <2>1, <2>2, CallUnbacks DEF Service!Look
  <2>3. CASE promised' = [promised EXCEPT ![c] = 0] /\ Unbacked' = Unbacked \ {c}
    BY <1>1, <2>1, <2>3, CallUnbacks DEF Service!Next, Service!GiveUp, Service!Forget
  <2> QED
    BY <1>1, <2>2, <2>3, CallUnbacks
<1>2. ASSUME NEW r \in Requests, Command(r)
      PROVE  Goal
  <2> DEFINE c == request[r].client
  <2>0. request[r] # Idle /\ c \in Clients /\ promised'[c] \in Leases
    BY <1>0, <1>2, CommandInUse
  <2>1. CASE SetNXFindsKey(r) \/ AcquireGet(r) \/ ReleaseGet(r) \/ KeepAliveGet(r)
             \/ CommandFails(r)
    <3>1. Acting' \subseteq Acting \cup {key.owner}
      BY <1>2, HandlerActs DEF Acting
    <3> QED
      BY <2>1, <3>1, QuietCommand DEF Service!Look
  <2>a. ASSUME NEW reply \in Replies,
               \/ SetNXWrites(r, reply) \/ AcquireExpire(r, reply)
               \/ ReleaseDel(r, reply) \/ KeepAliveExpire(r, reply)
        PROVE  Acting' \subseteq Acting /\ (~SetNXWrites(r, reply) => c \in Acting)
    <3>1. request[r].step \in {"setNX", "acquireExpire", "releaseDel", "keepAliveExpire"}
      BY <2>a DEF SetNXWrites, AcquireExpire, ReleaseDel, KeepAliveExpire, At
    <3>2. ~SetNXWrites(r, reply) => PastGet(r)
      BY <2>a DEF SetNXWrites, AcquireExpire, ReleaseDel, KeepAliveExpire, At, PastGet
    <3>3. PastGet(r)' => PastGet(r)
      BY <1>2, <3>1, HandlerActs DEF AcquireGet, ReleaseGet, KeepAliveGet, At
    <3> QED
      BY <1>2, <3>2, <3>3, HandlerActs DEF Acting
  <2>2. ASSUME NEW reply \in Replies, ReleaseDel(r, reply)
        PROVE  Goal
    <3>1. Acting' \subseteq Acting /\ (c \in Acting)
      <4>1. ~SetNXWrites(r, reply)
        BY <2>2 DEF ReleaseDel, SetNXWrites, At
      <4> QED
        BY <2>2, <2>a, <4>1
    <3>2. CASE key.owner = NoClient
      <4>1. key' = key /\ promised' = promised /\ Unbacked' = Unbacked
        BY <2>2, <3>2, KeyOwner DEF ReleaseDel, Unbacked
      <4> QED
        BY <3>1, <4>1 DEF Service!Look
    <3>3. CASE key.owner = c /\ ~ (promised[c] > 0)
      <4>1. promised[c] = 0
        BY <2>0, <3>3, TTLPositive DEF TypeOK, Credit
      <4>2. promised' = [promised EXCEPT ![c] = 0]
        BY <1>0, <2>2, <4>1, DelUnbacks
      <4>3. Unbacked' = Unbacked \ {c}
        BY <2>0, <2>2, <3>3, DelUnbacks, StoreAssumption DEF Unbacked, StoreAssumption
      <4> QED
        BY <2>0, <2>2, <3>1, <3>3, <4>2, <4>3, DelUnbacks
        DEF Service!Next, Service!ReleaseLock, Service!Forget
    <3>4. CASE key.owner \notin {c, NoClient} \/ (key.owner = c /\ promised[c] > 0)
      BY <2>0, <2>2, <3>1, <3>4, DelUnbacks, StoreAssumption
      DEF Service!LateDrop, Service!Dropped, StoreAssumption
    <3> QED
      BY <3>2, <3>3, <3>4
  <2>3. ASSUME NEW reply \in Replies, SetNXWrites(r, reply)
        PROVE  Goal
    BY <2>0, <2>3, <2>a, SetBacked
    DEF Service!Next, Service!TryAcquireLock, Service!Grant, Service!Promise
  <2>4. ASSUME NEW reply \in Replies, AcquireExpire(r, reply) \/ KeepAliveExpire(r, reply)
        PROVE  Goal
    <3>1. Acting' \subseteq Acting /\ (c \in Acting)
      <4>1. ~SetNXWrites(r, reply)
        BY <2>4 DEF AcquireExpire, KeepAliveExpire, SetNXWrites, At
      <4> QED
        BY <2>4, <2>a, <4>1
    <3>2. CASE key.owner = c
      BY <2>0, <2>4, <3>1, <3>2, ExpireOwn
      DEF Service!Next, Service!KeepAlive, Service!Grant, Service!Promise
    <3>3. CASE key.owner # c
      <4>1. Unbacked' \in SUBSET Clients
        BY DEF Unbacked
      <4> QED
        BY <2>0, <2>4, <3>1, <3>3, <4>1, ExpireOther
        DEF Service!LateAnswer, Service!Promise
    <3> QED
      BY <3>2, <3>3
  <2> QED
    BY <1>2, <2>1, <2>2, <2>3, <2>4 DEF Command
<1>3. CASE Tick
  <2>1. Acting' = Acting
    <3>1. ASSUME NEW q \in Requests
          PROVE  request'[q].step = request[q].step /\ request'[q].client = request[q].client
      BY <1>3 DEF Tick, TypeOK, Handlers, Handling, Idle
    <3> QED
      BY <3>1 DEF Acting, PastGet
  <2>2. CASE key'.owner = key.owner
    BY <1>3, <2>1, <2>2, TickUnbacks DEF Service!Next, Service!Pass
  <2>3. CASE key'.owner # key.owner
    <3>1. key'.owner = NoClient
      BY <1>3, <2>3, AgedKey DEF Tick, TypeOK
    <3>2. ASSUME NEW d \in Clients, promised'[d] > 0
          PROVE  d \in Unbacked
      <4>1. d \in Unbacked'
        BY <3>1, <3>2, StoreAssumption DEF Unbacked, StoreAssumption
      <4> QED
        BY <1>3, <4>1, TickUnbacks
    <3> QED
      BY <1>3, <2>1, <3>1, <3>2, TickUnbacks DEF Service!Next, Service!Pass
  <2> QED
    BY <2>2, <2>3
<1> QED
  BY <1>1, <1>2, <1>3 DEF Next

(* In every execution, each step of the store is a step of the contract,   *)
(* or a late answer or a late DEL for a client that was shown as the owner *)
(* before: the store is a lock service with these two deviations.          *)
THEOREM StoreImplements == Spec => ImplementsLockService
<1>1. TypeOK /\ TypeOK' /\ [Next]_vars =>
        [\/ Service!Next
         \/ Service!Look
         \/ \E c \in Clients : Service!LateAnswer(c) \/ Service!LateDrop(c)]_Service!vars
  <2>1. UNCHANGED vars => UNCHANGED Service!vars
    BY DEF vars, Service!vars, Unbacked, Acting, PastGet
  <2> QED
    BY <2>1, ServiceStep
<1> QED
  BY <1>1, ServiceInit, TypeCorrect, PTL DEF Spec, ImplementsLockService

-----------------------------------------------------------------------------
(* What a dead holder leaves behind: a key that expires, after one of the  *)
(* clients' TTLs at most (its owner's, unless another's EXPIRE was late).  *)

KeysExpire ==
  key # Absent => key.left > 0 /\ \E c \in Clients : key.left <= lockTTL(c)

LEMMA KeysExpireStep ==
  ASSUME TypeOK, KeysExpire, [Next]_vars
  PROVE  KeysExpire'
<1>1. ASSUME NEW r \in Requests, NEW c \in Clients, Call(r, c)
      PROVE  KeysExpire'
  BY <1>1, CallUnbacks DEF KeysExpire
<1>2. ASSUME NEW r \in Requests, Command(r)
      PROVE  KeysExpire'
  <2> DEFINE c == request[r].client
  <2>0. c \in Clients /\ lockTTL(c) \in Nat \ {0}
    BY <1>2, CommandInUse, TTLPositive
  <2>1. CASE SetNXFindsKey(r) \/ AcquireGet(r) \/ ReleaseGet(r) \/ KeepAliveGet(r)
             \/ CommandFails(r)
    BY <2>1, QuietCommand DEF KeysExpire
  <2>2. ASSUME NEW reply \in Replies, ReleaseDel(r, reply)
        PROVE  KeysExpire'
    BY <2>2 DEF ReleaseDel, KeysExpire
  <2>3. ASSUME NEW reply \in Replies, SetNXWrites(r, reply)
        PROVE  KeysExpire'
    BY <2>0, <2>3 DEF SetNXWrites, Written, KeysExpire
  <2>4. ASSUME NEW reply \in Replies, AcquireExpire(r, reply) \/ KeepAliveExpire(r, reply)
        PROVE  KeysExpire'
    <3>1. key' = Expired(key, lockTTL(c))
      BY <2>4 DEF AcquireExpire, KeepAliveExpire
    <3>2. CASE key = Absent
      BY <3>1, <3>2 DEF Expired, KeysExpire
    <3>3. CASE key # Absent
      <4>1. key'.left = lockTTL(c)
        BY <2>0, <3>1, <3>3, KeyOwner, ExpiredKey DEF TypeOK
      <4>2. key'.left > 0 /\ key'.left <= lockTTL(c)
        BY <2>0, <4>1
      <4> QED
        BY <2>0, <4>2 DEF KeysExpire
    <3> QED
      BY <3>2, <3>3
  <2> QED
    BY <1>2, <2>1, <2>2, <2>3, <2>4 DEF Command
<1>3. CASE Tick
  <2>1. key' = Aged(key)
    BY <1>3 DEF Tick
  <2>2. CASE key = Absent
    BY <2>1, <2>2 DEF Aged, Absent, KeysExpire
  <2>3. CASE key # Absent
    <3>1. key \in Keys /\ key.left \in Nat
      BY <2>3, KeyOwner DEF TypeOK
    <3>2. CASE key.left = 1
      BY <2>1, <3>2 DEF Aged, KeysExpire
    <3>3. CASE key.left > 1
      <4>1. key'.left = key.left - 1
        BY <2>1, <3>1, <3>3, AgedKey
      <4>2. PICK c \in Clients : key.left <= lockTTL(c)
        BY <2>3 DEF KeysExpire
      <4>3. key'.left <= lockTTL(c) /\ key'.left > 0
        BY <3>1, <3>3, <4>1, <4>2, TTLPositive
      <4> QED
        BY <4>3 DEF KeysExpire
    <3> QED
      BY <2>3, <3>1, <3>2, <3>3 DEF KeysExpire
  <2> QED
    BY <2>2, <2>3
<1>4. CASE UNCHANGED vars
  BY <1>4 DEF vars, KeysExpire
<1> QED
  BY <1>1, <1>2, <1>3, <1>4 DEF Next

(* SET and EXPIRE never leave a key without a TTL, in any execution, so    *)
(* that nobody's lock outlives its last request by more than the longest   *)
(* of the clients' TTLs.                                                    *)
THEOREM NoKeyIsForever == Spec => []KeysExpire
<1>1. Init => KeysExpire
  BY DEF Init, KeysExpire
<1> QED
  BY <1>1, KeysExpireStep, TypeCorrect, PTL DEF Spec

=============================================================================

------------------------ MODULE ScyllaDBStoreProofs ------------------------
(***************************************************************************)
(* Proofs about ScyllaDBStore, for any set of clients, any TTLs, any       *)
(* number of requests in progress and every consistency level: its type    *)
(* invariant, lease safety, that it implements LockService with the three  *)
(* deviations it names, and what becomes of its rows.                      *)
(***************************************************************************)
EXTENDS ScyllaDBStore, TLAPS

LEMMA TTLPositive ==
  ASSUME NEW c \in Clients
  PROVE  lockTTL(c) \in Nat \ {0}
BY StoreAssumption DEF StoreAssumption, lockTTL, resolveTTL

Handlers == {Idle} \cup UNION {Handling(c) : c \in Clients}

Promises == {p \in [Clients -> UNION {Credit(c) : c \in Clients}] :
               \A c \in Clients : p[c] \in Credit(c)}

(* A slot in use is handling a request of some client. *)
LEMMA InUse ==
  ASSUME TypeOK, NEW r \in Requests, request[r] # Idle
  PROVE  /\ request[r].client \in Clients
         /\ request[r] \in Handling(request[r].client)
         /\ request[r].credit \in Credit(request[r].client)
BY DEF TypeOK, Handling

LEMMA AtInUse ==
  ASSUME NEW r \in Requests, NEW s \in Steps, At(r, s)
  PROVE  request[r] # Idle
BY DEF At, Idle, Steps

LEMMA StartTyped ==
  ASSUME TypeOK, NEW r \in Requests, NEW c \in Clients, NEW s \in Steps,
         Start(r, c, s)
  PROVE  request' \in [Requests -> Handlers]
<1>1. [step |-> s, client |-> c, credit |-> lockTTL(c), applied |-> FALSE] \in Handlers
  BY TTLPositive DEF Handlers, Handling, Credit
<1> QED
  BY <1>1 DEF TypeOK, Start, Handlers

LEMMA ReturnTyped ==
  ASSUME TypeOK, NEW r \in Requests, Return(r)
  PROVE  request' \in [Requests -> Handlers]
BY DEF TypeOK, Return, Handlers

LEMMA GrantedTyped ==
  ASSUME TypeOK, NEW c \in Clients, NEW p \in Credit(c)
  PROVE  /\ Granted(c, p) \in Promises
         /\ \A d \in Clients : d # c => Granted(c, p)[d] = promised[d]
         /\ Granted(c, p)[c] \in {promised[c], p}
BY DEF TypeOK, Granted, Promises

(* What an INSERT IF NOT EXISTS does. *)
LEMMA InsertMoves ==
  ASSUME TypeOK, NEW c \in Clients, Insert(c)
  PROVE  /\ row' \in Rows /\ readable' \subseteq Clients \cup {NoClient}
         /\ applies(c) => row = Absent /\ row' = [owner |-> c, left |-> lockTTL(c)]
         /\ row' # row => applies(c)
BY TTLPositive, StoreAssumption
DEF StoreAssumption, TypeOK, Insert, Write, applies, Rows, Absent

-----------------------------------------------------------------------------
(* Type correctness. *)

LEMMA TypeStep == TypeOK /\ [Next]_vars => TypeOK'
<1> SUFFICES ASSUME TypeOK, [Next]_vars
             PROVE  TypeOK'
  OBVIOUS
<1> USE DEF TypeOK
<1> DEFINE Typed == /\ row' \in Rows
                    /\ readable' \subseteq Clients \cup {NoClient}
                    /\ request' \in [Requests -> Handlers]
                    /\ promised' \in Promises
<1> SUFFICES Typed
  BY DEF Promises, Handlers
<1>0. promised \in Promises /\ request \in [Requests -> Handlers]
  BY DEF Promises, Handlers
<1>a. Absent \in Rows /\ row.owner \in Clients \cup {NoClient}
  BY DEF Rows, Absent
<1>1. ASSUME NEW r \in Requests, NEW c \in Clients, Call(r, c)
      PROVE  Typed
  <2>1. request' \in [Requests -> Handlers]
    BY <1>1, StartTyped DEF Call, TryAcquireLock, ReleaseLock, KeepAlive, Steps
  <2>2. promised' \in Promises
    <3>1. 0 \in Credit(c)
      BY TTLPositive DEF Credit
    <3>2. [promised EXCEPT ![c] = 0] \in Promises
      BY <1>0, <3>1 DEF Promises
    <3> QED
      BY <1>0, <1>1, <3>2 DEF Call, TryAcquireLock, ReleaseLock, KeepAlive
  <2> QED
    BY <1>1, <2>1, <2>2 DEF Call, TryAcquireLock, ReleaseLock, KeepAlive
<1>2. ASSUME NEW r \in Requests, Query(r)
      PROVE  Typed
  <2> DEFINE c == request[r].client
  <2>0. request[r] # Idle
    BY <1>2, AtInUse DEF Query, TryInsert, verifyLockOwnership, ReleaseVerify,
       ReleaseDelete, KeepAliveInsert, QueryFails, Steps
  <2>c. c \in Clients /\ request[r] \in Handling(c) /\ request[r].credit \in Credit(c)
    BY <2>0, InUse
  <2>1. CASE TryInsert(r)
    <3>1. [request[r] EXCEPT !.step = "verify", !.applied = applies(c)] \in Handlers
      <4> DEFINE b == applies(c)
      <4>1. b \in BOOLEAN
        BY DEF applies
      <4> HIDE DEF b
      <4>2. [request[r] EXCEPT !.step = "verify", !.applied = b] \in Handling(c)
        BY <2>c, <4>1 DEF Handling, Steps
      <4> QED
        BY <2>c, <4>2 DEF Handlers, b
    <3>2. request' \in [Requests -> Handlers]
      BY <1>0, <2>1, <3>1, ReturnTyped DEF TryInsert
    <3> QED
      BY <1>0, <2>1, <2>c, <3>2, InsertMoves DEF TryInsert
  <2>2. CASE verifyLockOwnership(r)
    BY <1>0, <2>2, <2>c, ReturnTyped, GrantedTyped DEF verifyLockOwnership
  <2>3. CASE ReleaseVerify(r)
    <3>1. [request[r] EXCEPT !.step = "delete"] \in Handlers
      BY <2>c DEF Handlers, Handling, Steps
    <3> QED
      BY <1>0, <2>3, <3>1, ReturnTyped DEF ReleaseVerify
  <2>4. CASE ReleaseDelete(r)
    BY <1>0, <1>a, <2>4, ReturnTyped DEF ReleaseDelete, Write, Absent
  <2>5. CASE KeepAliveInsert(r)
    BY <1>0, <2>5, <2>c, InsertMoves, ReturnTyped, GrantedTyped DEF KeepAliveInsert
  <2>6. CASE QueryFails(r)
    BY <1>0, <2>6, ReturnTyped DEF QueryFails
  <2> QED
    BY <1>2, <2>1, <2>2, <2>3, <2>4, <2>5, <2>6 DEF Query
<1>3. CASE Converge
  BY <1>0, <1>3, <1>a DEF Converge
<1>4. CASE Tick
  <2>1. ASSUME NEW r \in Requests
        PROVE  [request[r] EXCEPT !.credit = Less(@)] \in Handlers
    <3>1. CASE request[r] = Idle
      <4>1. [request[r] EXCEPT !.credit = Less(@)] = Idle
        <5>1. Less(Idle.credit) = Idle.credit
          BY DEF Idle, Less
        <5>2. [Idle EXCEPT !.credit = Idle.credit] = Idle
          BY DEF Idle
        <5> QED
          BY <3>1, <5>1, <5>2
      <4> QED
        BY <4>1 DEF Handlers
    <3>2. CASE request[r] # Idle
      <4>1. PICK c \in Clients : request[r] \in Handling(c)
        BY <3>2, InUse
      <4>2. Less(request[r].credit) \in Credit(c)
        BY <4>1, TTLPositive DEF Handling, Less, Credit
      <4>3. [request[r] EXCEPT !.credit = Less(@)] \in Handling(c)
        BY <4>1, <4>2 DEF Handling
      <4>4. Handling(c) \subseteq Handlers
        BY DEF Handlers
      <4> QED
        BY <4>3, <4>4
    <3> QED
      BY <3>1, <3>2
  <2>2. promised' \in Promises
    BY <1>4, TTLPositive DEF Tick, Less, Promises, Credit
  <2>3. row' \in Rows /\ readable' \subseteq Clients \cup {NoClient}
    BY <1>4, <1>a DEF Tick, Less, Rows, Absent
  <2> QED
    BY <1>4, <2>1, <2>2, <2>3 DEF Tick
<1>5. CASE UNCHANGED vars
  BY <1>0, <1>5 DEF vars
<1> QED
  BY <1>1, <1>2, <1>3, <1>4, <1>5 DEF Next

LEMMA TypeInit == Init => TypeOK
<1> SUFFICES ASSUME Init PROVE TypeOK
  OBVIOUS
<1>1. ASSUME NEW c \in Clients
      PROVE  promised[c] \in Credit(c)
  BY TTLPositive DEF Init, Credit
<1>2. promised \in [Clients -> UNION {Credit(c) : c \in Clients}]
  BY <1>1 DEF Init
<1> QED
  BY <1>1, <1>2 DEF Init, TypeOK, Rows

(* Every execution keeps the types, and with them the bound that matters:  *)
(* nobody is promised more than its own TTL.                               *)
THEOREM TypeCorrect == Spec => []TypeOK
  BY TypeInit, TypeStep, PTL DEF Spec
-----------------------------------------------------------------------------
(* Lease safety.  Between its INSERT and its SELECT a handler carries the  *)
(* promise it is about to make: the strengthening says that whenever its   *)
(* client owns the row, the row's TTL covers that promise too, whichever   *)
(* INSERT of the client wrote the row.                                     *)

CreditCovered ==
  \A r \in Requests :
    request[r].applied /\ request[r].client = row.owner => row.left >= request[r].credit

LEMMA TickedCredit ==
  ASSUME TypeOK, Tick, NEW r \in Requests
  PROVE  /\ request'[r].client = request[r].client
         /\ request'[r].applied = request[r].applied
         /\ request'[r].credit = Less(request[r].credit)
<1>1. CASE request[r] = Idle
  BY <1>1 DEF Tick, Idle
<1>2. CASE request[r] # Idle
  BY <1>2, InUse DEF Tick, Handling
<1> QED
  BY <1>1, <1>2

(* A slot whose handler did not insert has nothing to cover. *)
LEMMA NotApplied ==
  ASSUME TypeOK, NEW r \in Requests,
         Return(r) \/ \E c \in Clients, s \in Steps : Start(r, c, s)
  PROVE  /\ ~ request'[r].applied
         /\ \A q \in Requests : q # r => request'[q] = request[q]
BY DEF TypeOK, Return, Start, Idle

LEMMA CreditStep ==
  ASSUME TypeOK, CreditCovered, Next
  PROVE  CreditCovered'
<1> SUFFICES ASSUME NEW q \in Requests, request'[q].applied,
                    request'[q].client = row'.owner
             PROVE  row'.left >= request'[q].credit
  BY DEF CreditCovered
<1>0. row \in Rows
  BY DEF TypeOK
<1>1. ASSUME NEW r \in Requests, NEW c \in Clients, Call(r, c)
      PROVE  row'.left >= request'[q].credit
  <2>1. row' = row /\ \E s \in Steps : Start(r, c, s)
    BY <1>1 DEF Call, TryAcquireLock, ReleaseLock, KeepAlive, Steps
  <2>2. q # r /\ request'[q] = request[q]
    BY <2>1, NotApplied
  <2> QED
    BY <2>1, <2>2 DEF CreditCovered
<1>2. ASSUME NEW r \in Requests, Query(r)
      PROVE  row'.left >= request'[q].credit
  <2>0. request[r] # Idle
    BY <1>2, AtInUse DEF Query, TryInsert, verifyLockOwnership, ReleaseVerify,
       ReleaseDelete, KeepAliveInsert, QueryFails, Steps
  <2> DEFINE c == request[r].client
  <2>c. c \in Clients /\ request[r] \in Handling(c)
    BY <2>0, InUse
  <2>o. ASSUME row' = row, Return(r)
        PROVE  row'.left >= request'[q].credit
    BY <2>o, NotApplied DEF CreditCovered
  (* An INSERT that is applied writes the full TTL of its client. *)
  <2>i. ASSUME Insert(c), row' # row, request'[q] \in Handlers
        PROVE  row'.left >= request'[q].credit
    <3>1. c \in Clients /\ c # NoClient /\ row' = [owner |-> c, left |-> lockTTL(c)]
      BY <2>c, <2>i, InsertMoves, StoreAssumption DEF StoreAssumption
    <3>2. request'[q].client = c
      BY <3>1
    <3>3. request'[q] # Idle
      BY <3>1, <3>2 DEF Idle
    <3>4. PICK d \in Clients : request'[q] \in Handling(d)
      BY <2>i, <3>3 DEF Handlers
    <3>5. request'[q].credit \in Credit(c)
      BY <3>2, <3>4 DEF Handling
    <3> QED
      BY <3>1, <3>5, TTLPositive DEF Credit
  <2>t. request' \in [Requests -> Handlers]
    BY <1>2, TypeStep DEF Next, TypeOK, Handlers
  <2>1. CASE TryInsert(r)
    <3>1. CASE row' # row
      BY <2>1, <2>i, <2>t, <3>1 DEF TryInsert
    <3>2. CASE row' = row
      <4>1. ~ applies(c)
        BY <3>2 DEF applies
      <4>2. CASE Return(r)
        BY <2>o, <3>2, <4>2
      <4>3. CASE request' = [request EXCEPT ![r].step = "verify", ![r].applied = applies(c)]
        <5>1. ~ request'[r].applied
          BY <2>c, <4>1, <4>3 DEF TypeOK, Handling
        <5>2. request'[q] = request[q]
          BY <4>3, <5>1 DEF TypeOK
        <5> QED
          BY <3>2, <5>2 DEF CreditCovered
      <4> QED
        BY <2>1, <4>2, <4>3 DEF TryInsert
    <3> QED
      BY <3>1, <3>2
  <2>2. CASE verifyLockOwnership(r) \/ QueryFails(r)
    BY <2>2, <2>o DEF verifyLockOwnership, QueryFails
  <2>3. CASE ReleaseVerify(r)
    <3>1. CASE Return(r)
      BY <2>3, <2>o, <3>1 DEF ReleaseVerify
    <3>2. CASE request' = [request EXCEPT ![r].step = "delete"]
      <4>1. /\ request'[q].applied = request[q].applied
            /\ request'[q].client = request[q].client
            /\ request'[q].credit = request[q].credit
        BY <2>c, <3>2 DEF TypeOK, Handling
      <4> QED
        BY <2>3, <4>1 DEF ReleaseVerify, CreditCovered
    <3> QED
      BY <2>3, <3>1, <3>2 DEF ReleaseVerify
  <2>4. CASE ReleaseDelete(r)
    <3>1. row'.owner = NoClient /\ Return(r)
      BY <2>4 DEF ReleaseDelete, Write, Absent
    <3>2. q # r /\ request'[q] = request[q]
      BY <3>1, NotApplied
    <3>3. request[q] # Idle
      BY <3>2 DEF Idle
    <3>4. request[q].client \in Clients
      BY <3>3, InUse
    <3> QED
      BY <3>1, <3>2, <3>4, StoreAssumption DEF StoreAssumption
  <2>5. CASE KeepAliveInsert(r)
    BY <2>5, <2>i, <2>o, <2>t DEF KeepAliveInsert
  <2> QED
    BY <1>2, <2>1, <2>2, <2>3, <2>4, <2>5 DEF Query
<1>3. CASE Converge
  BY <1>3 DEF Converge, CreditCovered
<1>4. CASE Tick
  <2>1. /\ request'[q].client = request[q].client
        /\ request[q].applied
        /\ request'[q].credit = Less(request[q].credit)
    BY <1>4, TickedCredit
  <2>2. request[q] # Idle
    BY <2>1 DEF Idle
  <2>3. request[q].client \in Clients /\ request[q].credit \in Nat
    BY <2>2, InUse, TTLPositive DEF Credit
  <2>4. row'.owner = row.owner /\ row'.left = Less(row.left) /\ row.left \in Nat
    BY <1>0, <1>4, <2>1, <2>3, StoreAssumption
    DEF Tick, Rows, Absent, Less, StoreAssumption
  <2>5. row.left >= request[q].credit
    BY <2>1, <2>4 DEF CreditCovered
  <2> QED
    BY <2>1, <2>3, <2>4, <2>5 DEF Less
<1> QED
  BY <1>1, <1>2, <1>3, <1>4 DEF Next

(* In every execution, the row of a client whose INSERT was applied covers *)
(* the answer the client's handler is about to give.                       *)
LEMMA CreditKept == Spec => []CreditCovered
<1>1. Init => CreditCovered
  BY DEF Init, Idle, CreditCovered
<1>2. TypeOK /\ CreditCovered /\ [Next]_vars => CreditCovered'
  BY CreditStep DEF vars, CreditCovered
<1> QED
  BY <1>1, <1>2, TypeCorrect, PTL DEF Spec

-----------------------------------------------------------------------------
(* What the steps do to the promises that are unbacked. *)

LEMMA QueryInUse ==
  ASSUME TypeOK, NEW r \in Requests, Query(r)
  PROVE  /\ request[r] # Idle /\ request[r].client \in Clients
         /\ request[r].credit \in Credit(request[r].client)
         /\ request[r] \in Handling(request[r].client)
<1>1. request[r] # Idle
  BY AtInUse DEF Query, TryInsert, verifyLockOwnership, ReleaseVerify,
     ReleaseDelete, KeepAliveInsert, QueryFails, Steps
<1> QED
  BY <1>1, InUse

(* A row without an owner is no row. *)
LEMMA RowOwner ==
  ASSUME TypeOK
  PROVE  /\ row.left \in Nat
         /\ row # Absent => row.owner \in Clients /\ row.owner # NoClient
         /\ row = Absent => row.owner = NoClient
BY StoreAssumption DEF TypeOK, Rows, Absent, StoreAssumption

(* The promise made to c by an answer; all others stay. *)
LEMMA GrantPromises ==
  ASSUME TypeOK, NEW c \in Clients, NEW p \in Credit(c), promised' = Granted(c, p)
  PROVE  /\ promised' \in Promises
         /\ \A d \in Clients : d # c => promised'[d] = promised[d]
         /\ promised'[c] \in {promised[c], p}
         /\ ~ (promised'[c] > 0) => promised'[c] = promised[c]
         /\ promised' = [promised EXCEPT ![c] = promised'[c]]
<1>1. /\ promised' \in Promises
      /\ \A d \in Clients : d # c => promised'[d] = promised[d]
      /\ promised'[c] \in {promised[c], p}
  BY GrantedTyped
<1>2. promised'[c] = IF promised[c] >= p THEN promised[c] ELSE p
  BY DEF Granted, TypeOK
<1>3. ~ (promised'[c] > 0) => promised'[c] = promised[c]
  BY <1>2, TTLPositive DEF TypeOK, Credit
<1>4. promised' = [promised EXCEPT ![c] = promised'[c]]
  BY <1>1 DEF TypeOK, Promises
<1> QED
  BY <1>1, <1>3, <1>4

(* An answer changes nothing for the other clients. *)
LEMMA AnswerUnbacks ==
  ASSUME TypeOK, row' = row, NEW c \in Clients, NEW p \in Credit(c),
         promised' = Granted(c, p)
  PROVE  /\ c \in Unbacked' => Unbacked' = Unbacked \cup {c}
         /\ c \notin Unbacked' => Unbacked' = Unbacked \ {c}
<1>1. ASSUME NEW d \in Clients, d # c
      PROVE  d \in Unbacked' <=> d \in Unbacked
  BY <1>1, GrantPromises DEF Unbacked
<1> QED
  BY <1>1 DEF Unbacked

(* An INSERT that is applied backs whatever its client is promised. *)
LEMMA InsertBacks ==
  ASSUME TypeOK, NEW c \in Clients, NEW p \in Credit(c), Insert(c), row = Absent,
         promised' = promised \/ promised' = Granted(c, p)
  PROVE  /\ row'.owner = c
         /\ Unbacked' = Unbacked \ {c}
         /\ promised' = [promised EXCEPT ![c] = promised'[c]]
<1>1. row' = [owner |-> c, left |-> lockTTL(c)] /\ row.owner = NoClient
  BY DEF Insert, Write, Absent
<1>2. /\ promised' \in Promises
      /\ \A d \in Clients : d # c => promised'[d] = promised[d]
      /\ promised' = [promised EXCEPT ![c] = promised'[c]]
  BY GrantPromises DEF TypeOK, Promises
<1>3. row'.left >= promised'[c]
  BY <1>1, <1>2, TTLPositive DEF Promises, Credit
<1>4. ASSUME NEW d \in Clients, d # c
      PROVE  d \in Unbacked' <=> d \in Unbacked
  <2>1. row.owner # d /\ row'.owner # d
    BY <1>1, <1>4, StoreAssumption DEF StoreAssumption
  <2> QED
    BY <1>2, <1>4, <2>1 DEF Unbacked
<1> QED
  BY <1>1, <1>2, <1>3, <1>4 DEF Unbacked

LEMMA DelUnbacks ==
  ASSUME TypeOK, NEW r \in Requests, ReleaseDelete(r)
  PROVE  /\ row'.owner = NoClient /\ promised' = promised
         /\ Unbacked' = IF row.owner = NoClient THEN Unbacked
                        ELSE {d \in Unbacked \cup {row.owner} : promised[d] > 0}
<1>1. row' = Absent /\ row'.owner = NoClient /\ promised' = promised
  BY DEF ReleaseDelete, Write, Absent
<1>2. ASSUME NEW d \in Clients
      PROVE  d \in Unbacked' <=> promised[d] > 0
  BY <1>1, <1>2, StoreAssumption DEF StoreAssumption, Unbacked
<1>3. ASSUME NEW d \in Clients
      PROVE  d \in Unbacked' <=> d \in Unbacked \cup {row.owner} /\ promised[d] > 0
  BY <1>2 DEF Unbacked
<1>4. CASE row.owner # NoClient
  BY <1>1, <1>3, <1>4, RowOwner DEF Unbacked
<1>5. CASE row.owner = NoClient
  <2>1. row' = row
    BY <1>1, <1>5, RowOwner
  <2> QED
    BY <1>1, <1>5, <2>1 DEF Unbacked
<1> QED
  BY <1>4, <1>5

LEMMA TickUnbacks ==
  ASSUME TypeOK, Tick
  PROVE  /\ promised' = [c \in Clients |-> IF promised[c] > 0 THEN promised[c] - 1 ELSE 0]
         /\ Unbacked' = {d \in Unbacked : promised'[d] > 0}
         /\ row'.owner \in {row.owner, NoClient}
<1>1. promised' = [c \in Clients |-> IF promised[c] > 0 THEN promised[c] - 1 ELSE 0]
  BY DEF Tick, Less
<1>2. row.left \in Nat
  BY RowOwner
<1>3. row.left > 1 => row'.owner = row.owner /\ row'.left = row.left - 1
  BY <1>2 DEF Tick, Less, TypeOK, Rows, Absent
<1>4. row.left = 1 => row'.owner = NoClient
  BY DEF Tick, Absent
<1>5. row.left = 0 => row'.owner = row.owner /\ row'.left = 0
  BY DEF Tick, Less, TypeOK, Rows, Absent
<1>6. ASSUME NEW d \in Clients, promised'[d] > 0
      PROVE  d \in Unbacked' <=> d \in Unbacked
  <2>1. promised[d] \in Nat /\ promised[d] > 1 /\ promised'[d] = promised[d] - 1
    <3>1. promised[d] \in Nat
      BY TTLPositive DEF TypeOK, Credit
    <3> QED
      BY <1>1, <1>6, <3>1
  <2>2. CASE row.left > 1
    BY <1>2, <1>3, <2>1, <2>2 DEF Unbacked
  <2>3. CASE row.left = 1
    BY <1>4, <2>1, <2>3, StoreAssumption DEF Unbacked, StoreAssumption
  <2>4. CASE row.left = 0
    BY <1>5, <2>1, <2>4 DEF Unbacked
  <2> QED
    BY <1>2, <2>2, <2>3, <2>4
<1>7. row'.owner \in {row.owner, NoClient}
  BY <1>2, <1>3, <1>4, <1>5
<1> QED
  BY <1>1, <1>6, <1>7 DEF Unbacked

LEMMA CallUnbacks ==
  ASSUME TypeOK, NEW r \in Requests, NEW c \in Clients, Call(r, c)
  PROVE  /\ row' = row
         /\ \/ promised' = promised /\ Unbacked' = Unbacked
            \/ promised' = [promised EXCEPT ![c] = 0] /\ Unbacked' = Unbacked \ {c}
<1>1. row' = row
  BY DEF Call, TryAcquireLock, ReleaseLock, KeepAlive
<1>2. CASE promised' = promised
  BY <1>1, <1>2 DEF Unbacked
<1>3. CASE promised' = [promised EXCEPT ![c] = 0]
  <2>1. promised'[c] = 0 /\ \A d \in Clients \ {c} : promised'[d] = promised[d]
    BY <1>3 DEF TypeOK
  <2> QED
    BY <1>1, <1>3, <2>1 DEF Unbacked
<1> QED
  BY <1>1, <1>2, <1>3 DEF Call, TryAcquireLock, ReleaseLock, KeepAlive

LEMMA Untouched ==
  ASSUME row' = row, promised' = promised
  PROVE  Unbacked' = Unbacked
BY DEF Unbacked

(* The INSERT of either operation, and what the handler makes of it. *)
LEMMA InsertCases ==
  ASSUME TypeOK, NEW r \in Requests, Query(r), TryInsert(r) \/ KeepAliveInsert(r)
  PROVE  LET c == request[r].client
             p == request[r].credit
         IN  \/ row = Absent /\ Insert(c) /\ promised' \in {promised, Granted(c, p)}
             \/ row # Absent /\ row' = row /\ promised' = promised
             \/ /\ KeepAliveInsert(r)
                /\ row # Absent /\ row' = row /\ promised' = Granted(c, p)
BY DEF TryInsert, KeepAliveInsert, Insert

-----------------------------------------------------------------------------
(* Lease safety. *)

LEMMA LeaseStep ==
  ASSUME TypeOK, CreditCovered, Next, NEW c \in Unbacked' \ Unbacked
  PROVE  \E r \in Requests :
           \/ AnswersOnNothing(r) /\ c = request[r].client
           \/ ReleaseDelete(r) /\ c = row.owner
<1>1. ASSUME NEW r \in Requests, NEW d \in Clients, Call(r, d)
      PROVE  FALSE
  BY <1>1, CallUnbacks
<1>2. ~Tick /\ ~Converge
  BY TickUnbacks, Untouched DEF Converge
<1>3. ASSUME NEW r \in Requests, Query(r)
      PROVE  \/ AnswersOnNothing(r) /\ c = request[r].client
             \/ ReleaseDelete(r) /\ c = row.owner
  <2>0. /\ request[r].client \in Clients
        /\ request[r].credit \in Credit(request[r].client)
    BY <1>3, QueryInUse
  <2>1. CASE TryInsert(r) \/ KeepAliveInsert(r)
    <3>1. row # Absent /\ KeepAliveInsert(r)
          /\ row' = row /\ promised' = Granted(request[r].client, request[r].credit)
      BY <1>3, <2>0, <2>1, InsertCases, InsertBacks, Untouched
    <3>2. c = request[r].client
      BY <2>0, <3>1, AnswerUnbacks
    <3> QED
      BY <3>1, <3>2 DEF AnswersOnNothing
  <2>2. CASE verifyLockOwnership(r)
    <3>1. row' = row /\ promised' = Granted(request[r].client, request[r].credit)
      BY <2>2, Untouched DEF verifyLockOwnership
    <3>2. c = request[r].client
      BY <2>0, <3>1, AnswerUnbacks
    <3>3. ~ (request[r].applied /\ row.owner = request[r].client)
      <4>1. SUFFICES ASSUME request[r].applied, row.owner = request[r].client
                     PROVE  FALSE
        OBVIOUS
      <4>2. row.left >= request[r].credit
        BY <4>1 DEF CreditCovered
      <4>3. promised'[c] \in {promised[c], request[r].credit}
        BY <2>0, <3>1, <3>2, GrantPromises
      <4>4. promised'[c] > 0 /\ ~ (row.left >= promised'[c])
        BY <3>1, <3>2, <4>1 DEF Unbacked
      <4>5. c \in Unbacked
        BY <3>2, <4>1, <4>2, <4>3, <4>4 DEF Unbacked
      <4> QED
        BY <4>5
    <3> QED
      BY <2>2, <3>2, <3>3 DEF AnswersOnNothing
  <2>3. ASSUME ReleaseVerify(r) \/ QueryFails(r)
        PROVE  FALSE
    BY <2>3, Untouched DEF ReleaseVerify, QueryFails
  <2>4. CASE ReleaseDelete(r)
    BY <2>4, DelUnbacks
  <2> QED
    BY <1>3, <2>1, <2>2, <2>3, <2>4 DEF Query
<1> QED
  BY <1>1, <1>2, <1>3 DEF Next

(* In every execution, a promise comes to be without its row only by an    *)
(* answer that the handler's own INSERT does not stand behind, or by a     *)
(* DELETE that is late.                                                     *)
THEOREM LeaseSafe == Spec => LeaseSafety
<1>1. TypeOK /\ CreditCovered /\ [Next]_vars =>
        [\A c \in Unbacked' \ Unbacked :
           \E r \in Requests :
             \/ AnswersOnNothing(r) /\ c = request[r].client
             \/ ReleaseDelete(r) /\ c = row.owner]_vars
  BY LeaseStep
<1> QED
  BY <1>1, TypeCorrect, CreditKept, PTL DEF Spec, LeaseSafety

-----------------------------------------------------------------------------
(* The store and the contract of LockStore. *)

LEMMA ServiceInit == Init => Service!Init
BY DEF Init, Idle, At, Absent, Unbacked, Acting, Service!Init

(* The step of a handler leaves the other handlers where they are. *)
LEMMA OthersStay ==
  ASSUME TypeOK, NEW r \in Requests,
         (\E c \in Clients : Call(r, c)) \/ Query(r),
         NEW q \in Requests, q # r
  PROVE  request'[q] = request[q]
BY DEF TypeOK, Call, TryAcquireLock, ReleaseLock, KeepAlive, Start, Query, TryInsert,
   verifyLockOwnership, ReleaseVerify, ReleaseDelete, KeepAliveInsert, QueryFails, Return

(* A handler gets to its DELETE only when its SELECT shows its client. *)
LEMMA HandlerActs ==
  ASSUME TypeOK, NEW r \in Requests, (\E c \in Clients : Call(r, c)) \/ Query(r)
  PROVE  Acting' \subseteq Acting \cup (IF ReleaseVerify(r) THEN ReadOwners ELSE {})
<1>1. ASSUME At(r, "delete")'
      PROVE  /\ ReleaseVerify(r)
             /\ request'[r].client = request[r].client /\ request[r].client \in ReadOwners
  <2>1. CASE \E c \in Clients : Call(r, c)
    BY <1>1, <2>1 DEF Call, TryAcquireLock, ReleaseLock, KeepAlive, Start, TypeOK, At
  <2>2. CASE Return(r)
    BY <1>1, <2>2 DEF Return, TypeOK, At, Idle
  <2>3. CASE TryInsert(r)
    <3>1. request[r] \in Handling(request[r].client)
      BY <2>3, AtInUse, InUse DEF TryInsert, Steps
    <3>2. Return(r) \/ request'[r].step = "verify"
      BY <2>3, <3>1 DEF TryInsert, Handling, TypeOK
    <3> QED
      BY <1>1, <2>2, <3>2 DEF At
  <2>4. CASE ReleaseVerify(r)
    <3>1. request[r] \in Handling(request[r].client)
      BY <2>4, AtInUse, InUse DEF ReleaseVerify, Steps
    <3>2. CASE request' = [request EXCEPT ![r].step = "delete"]
      <4>1. request'[r].client = request[r].client
        BY <3>1, <3>2 DEF Handling, TypeOK
      <4>2. ~ Return(r)
        BY <1>1 DEF Return, TypeOK, At, Idle
      <4> QED
        BY <2>4, <4>1, <4>2 DEF ReleaseVerify
    <3> QED
      BY <2>2, <2>4, <3>2 DEF ReleaseVerify
  <2> QED
    BY <2>1, <2>2, <2>3, <2>4 DEF Query, verifyLockOwnership, ReleaseDelete,
       KeepAliveInsert, QueryFails
<1>2. ASSUME NEW q \in Requests, At(q, "delete")'
      PROVE  request'[q].client \in
               Acting \cup (IF ReleaseVerify(r) THEN ReadOwners ELSE {})
  <2>1. CASE q = r
    BY <1>1, <1>2, <2>1
  <2>2. CASE q # r
    <3>1. request'[q] = request[q]
      BY <2>2, OthersStay
    <3> QED
      BY <1>2, <3>1 DEF At, Acting
  <2> QED
    BY <2>1, <2>2
<1> QED
  BY <1>2 DEF Acting

LEMMA ServiceStep ==
  ASSUME TypeOK, TypeOK', Next
  PROVE  \/ Service!Next
         \/ Service!Look
         \/ \E c \in Clients : Service!LateDrop(c)
         \/ \E r \in Requests : KeepAliveInsert(r) /\ Service!Mislead(request[r].client)
         \/ \E c \in ReadOwners \ {NoClient} : Service!Mislead(c)
         \/ UNCHANGED Service!vars
<1> DEFINE Leases == UNION {Credit(d) : d \in Clients}
           Goal == \/ Service!Next
                   \/ Service!Look
                   \/ \E c \in Clients : Service!LateDrop(c)
                   \/ \E r \in Requests :
                        KeepAliveInsert(r) /\ Service!Mislead(request[r].client)
                   \/ \E c \in ReadOwners \ {NoClient} : Service!Mislead(c)
                   \/ UNCHANGED Service!vars
<1>0. promised \in [Clients -> Leases] /\ promised' \in [Clients -> Leases]
  BY DEF TypeOK
<1>1. ASSUME NEW r \in Requests, NEW c \in Clients, Call(r, c)
      PROVE  Goal
  <2>1. Acting' \subseteq Acting
    <3>1. ~ReleaseVerify(r)
      BY <1>1 DEF Call, TryAcquireLock, ReleaseLock, KeepAlive, Start, ReleaseVerify,
         At, Idle
    <3> QED
      BY <1>1, <3>1, HandlerActs
  <2>2. CASE promised' = promised /\ Unbacked' = Unbacked
    BY <1>1, <2>1, <2>2, CallUnbacks DEF Service!Look
  <2>3. CASE promised' = [promised EXCEPT ![c] = 0] /\ Unbacked' = Unbacked \ {c}
    BY <1>1, <2>1, <2>3, CallUnbacks DEF Service!Next, Service!GiveUp, Service!Forget
  <2> QED
    BY <1>1, <2>2, <2>3, CallUnbacks
<1>2. ASSUME NEW r \in Requests, Query(r)
      PROVE  Goal
  <2> DEFINE c == request[r].client
             p == request[r].credit
  <2>0. /\ c \in Clients /\ c # NoClient /\ p \in Credit(c)
        /\ promised'[c] \in Leases /\ promised[c] \in Leases
    BY <1>0, <1>2, QueryInUse, StoreAssumption DEF StoreAssumption
  <2>1. CASE ReleaseVerify(r) \/ QueryFails(r)
    <3>1. Acting' \subseteq Acting \cup ReadOwners
      BY <1>2, HandlerActs
    <3>2. row' = row /\ promised' = promised
      BY <2>1 DEF ReleaseVerify, QueryFails
    <3> QED
      BY <3>1, <3>2, Untouched DEF Service!Look
  <2>a. ASSUME ~At(r, "releaseVerify")
        PROVE  Acting' \subseteq Acting
    BY <1>2, <2>a, HandlerActs DEF ReleaseVerify
  (* An answer with the row as it is. *)
  <2>b. ASSUME row' = row, promised' = Granted(c, p), Acting' \subseteq Acting
        PROVE  Service!KeepAlive(c) \/ Service!Mislead(c) \/ Service!Look
    <3>1. promised' = [promised EXCEPT ![c] = promised'[c]]
      BY <2>0, <2>b, GrantPromises
    <3>2. CASE c \in Unbacked'
      BY <2>0, <2>b, <3>1, <3>2, AnswerUnbacks DEF Service!Mislead, Service!Promise
    <3>3. CASE c \notin Unbacked' /\ row.owner = c
      BY <2>0, <2>b, <3>1, <3>3, AnswerUnbacks
      DEF Service!KeepAlive, Service!Grant, Service!Promise
    <3>4. CASE c \notin Unbacked' /\ row.owner # c
      <4>1. ~ (promised'[c] > 0)
        BY <2>0, <2>b, <3>4 DEF Unbacked
      <4>2. promised'[c] = promised[c]
        BY <2>0, <2>b, <4>1, GrantPromises
      <4>3. promised' = promised
        BY <1>0, <3>1, <4>2
      <4> QED
        BY <2>b, <4>3, Untouched DEF Service!Look
    <3> QED
      BY <3>2, <3>3, <3>4
  <2>2. CASE TryInsert(r) \/ KeepAliveInsert(r)
    <3>1. Acting' \subseteq Acting
      BY <2>2, <2>a DEF TryInsert, KeepAliveInsert, At
    <3>2. CASE row = Absent /\ Insert(c) /\ promised' \in {promised, Granted(c, p)}
      <4>1. /\ row.owner = NoClient /\ row'.owner = c
            /\ Unbacked' = Unbacked \ {c}
            /\ promised' = [promised EXCEPT ![c] = promised'[c]]
        BY <2>0, <3>2, InsertBacks, RowOwner
      <4> QED
        BY <2>0, <3>1, <4>1
        DEF Service!Next, Service!TryAcquireLock, Service!Grant, Service!Promise
    <3>3. CASE row' = row /\ promised' = promised
      BY <3>1, <3>3, Untouched DEF Service!Look
    <3>4. CASE KeepAliveInsert(r) /\ row' = row /\ promised' = Granted(c, p)
      BY <2>0, <2>b, <3>1, <3>4 DEF Service!Next
    <3> QED
      BY <1>2, <2>2, <3>2, <3>3, <3>4, InsertCases
  <2>3. CASE verifyLockOwnership(r)
    <3>1. Acting' \subseteq Acting /\ row' = row
      BY <2>3, <2>a DEF verifyLockOwnership, At
    <3>2. CASE promised' = promised
      BY <3>1, <3>2, Untouched DEF Service!Look
    <3>3. CASE c \in ReadOwners /\ promised' = Granted(c, p)
      BY <2>0, <2>b, <3>1, <3>3 DEF Service!Next
    <3> QED
      BY <2>3, <3>2, <3>3 DEF verifyLockOwnership
  <2>4. CASE ReleaseDelete(r)
    <3>1. Acting' \subseteq Acting /\ c \in Acting
      BY <2>4, <2>a DEF ReleaseDelete, At, Acting
    <3>2. CASE row.owner = NoClient
      BY <2>4, <3>1, <3>2, DelUnbacks DEF Service!Look
    <3>3. CASE row.owner = c /\ ~ (promised[c] > 0)
      <4>1. promised[c] = 0
        BY <2>0, <3>3, TTLPositive DEF TypeOK, Credit
      <4>2. promised' = [promised EXCEPT ![c] = 0]
        BY <1>0, <2>4, <4>1, DelUnbacks
      <4>3. Unbacked' = Unbacked \ {c}
        BY <2>0, <2>4, <3>3, DelUnbacks DEF Unbacked
      <4> QED
        BY <2>0, <2>4, <3>1, <3>3, <4>2, <4>3, DelUnbacks
        DEF Service!Next, Service!ReleaseLock, Service!Forget
    <3>4. CASE row.owner \notin {c, NoClient} \/ (row.owner = c /\ promised[c] > 0)
      BY <2>0, <2>4, <3>1, <3>4, DelUnbacks DEF Service!LateDrop, Service!Dropped
    <3> QED
      BY <3>2, <3>3, <3>4
  <2> QED
    BY <1>2, <2>1, <2>2, <2>3, <2>4 DEF Query
<1>3. CASE Converge
  BY <1>3, Untouched DEF Converge, Acting, At, Service!vars
<1>4. CASE Tick
  <2>1. Acting' = Acting
    <3>1. ASSUME NEW q \in Requests
          PROVE  request'[q].step = request[q].step /\ request'[q].client = request[q].client
      <4>1. CASE request[q] = Idle
        BY <1>4, <4>1 DEF Tick, Idle
      <4>2. CASE request[q] # Idle
        BY <1>4, <4>2, InUse DEF Tick, Handling
      <4> QED
        BY <4>1, <4>2
    <3> QED
      BY <3>1 DEF Acting, At
  <2>2. CASE row'.owner = row.owner
    BY <1>4, <2>1, <2>2, TickUnbacks DEF Service!Next, Service!Pass
  <2>3. CASE row'.owner = NoClient
    <3>1. ASSUME NEW d \in Clients, promised'[d] > 0
          PROVE  d \in Unbacked
      <4>1. d \in Unbacked'
        BY <2>3, <3>1, StoreAssumption DEF Unbacked, StoreAssumption
      <4> QED
        BY <1>4, <4>1, TickUnbacks
    <3> QED
      BY <1>4, <2>1, <2>3, <3>1, TickUnbacks DEF Service!Next, Service!Pass
  <2> QED
    BY <1>4, <2>2, <2>3, TickUnbacks
<1> QED
  BY <1>1, <1>2, <1>3, <1>4 DEF Next

(* In every execution, each step of the store, with the answers the code   *)
(* gives, is a step of the contract or one of the deviations it names.     *)
THEOREM StoreImplements == Spec => ImplementsLockService
<1>1. TypeOK /\ TypeOK' /\ [Next]_vars =>
        [\/ Service!Next
         \/ Service!Look
         \/ \E c \in Clients : Service!LateDrop(c)
         \/ \E r \in Requests : KeepAliveInsert(r) /\ Service!Mislead(request[r].client)
         \/ \E c \in ReadOwners \ {NoClient} : Service!Mislead(c)]_Service!vars
  <2>1. UNCHANGED vars => UNCHANGED Service!vars
    BY DEF vars, Service!vars, Unbacked, Acting, At
  <2> QED
    BY <2>1, ServiceStep
<1> QED
  BY <1>1, ServiceInit, TypeCorrect, PTL DEF Spec, ImplementsLockService

-----------------------------------------------------------------------------
(* What EveryLeaseEnds rests on: a row has its writer's TTL at most, and   *)
(* no query changes a row that is there, except to delete it.              *)

RowsExpire == row # Absent => row.left \in 1 .. lockTTL(row.owner)

NothingExtends ==
  [][row # Absent /\ row' # Absent => row'.owner = row.owner /\ row'.left <= row.left]_vars

RowOnlyAges ==
  \/ UNCHANGED row
  \/ row' = Absent
  \/ /\ row = Absent /\ row'.owner \in Clients
     /\ row'.left = lockTTL(row'.owner)
  \/ /\ row # Absent /\ row'.owner = row.owner
     /\ row.left > 1 /\ row'.left = row.left - 1

LEMMA RowMoves ==
  ASSUME TypeOK, RowsExpire, [Next]_vars
  PROVE  RowOnlyAges
<1>1. ASSUME NEW r \in Requests, NEW c \in Clients, Call(r, c)
      PROVE  RowOnlyAges
  BY <1>1 DEF Call, TryAcquireLock, ReleaseLock, KeepAlive, RowOnlyAges
<1>2. ASSUME NEW r \in Requests, Query(r)
      PROVE  RowOnlyAges
  <2>0. request[r].client \in Clients
    BY <1>2, AtInUse, InUse DEF Query, TryInsert, verifyLockOwnership, ReleaseVerify,
       ReleaseDelete, KeepAliveInsert, QueryFails, Steps
  <2>1. CASE TryInsert(r) \/ KeepAliveInsert(r)
    <3>1. Insert(request[r].client)
      BY <2>1 DEF TryInsert, KeepAliveInsert
    <3> QED
      BY <2>0, <3>1, InsertMoves DEF RowOnlyAges
  <2>2. CASE verifyLockOwnership(r) \/ ReleaseVerify(r) \/ QueryFails(r)
    BY <2>2 DEF verifyLockOwnership, ReleaseVerify, QueryFails, RowOnlyAges
  <2>3. CASE ReleaseDelete(r)
    BY <2>3 DEF ReleaseDelete, Write, RowOnlyAges
  <2> QED
    BY <1>2, <2>1, <2>2, <2>3 DEF Query
<1>3. CASE Converge \/ UNCHANGED vars
  BY <1>3 DEF Converge, vars, RowOnlyAges
<1>4. CASE Tick
  <2>1. CASE row = Absent
    <3>1. row' = [Absent EXCEPT !.left = Less(0)]
      BY <1>4, <2>1 DEF Tick, Absent
    <3>2. row' = row
      BY <2>1, <3>1 DEF Absent, Less
    <3> QED
      BY <3>2 DEF RowOnlyAges
  <2>2. CASE row # Absent /\ row.left = 1
    BY <1>4, <2>2 DEF Tick, RowOnlyAges
  <2>3. CASE row # Absent /\ row.left # 1
    <3>1. row \in [owner : Clients, left : Nat] /\ row.left > 1
      <4>1. row \in [owner : Clients, left : Nat]
        BY <2>3 DEF TypeOK, Rows
      <4> QED
        BY <2>3, <4>1, TTLPositive DEF RowsExpire
    <3>2. row' = [row EXCEPT !.left = row.left - 1]
      BY <1>4, <2>3, <3>1 DEF Tick, Less
    <3> QED
      BY <2>3, <3>1, <3>2 DEF RowOnlyAges
  <2> QED
    BY <2>1, <2>2, <2>3
<1> QED
  BY <1>1, <1>2, <1>3, <1>4 DEF Next

LEMMA RowsExpireStep ==
  ASSUME TypeOK, RowsExpire, [Next]_vars
  PROVE  RowsExpire'
<1>1. RowOnlyAges
  BY RowMoves
<1>2. CASE UNCHANGED row \/ row' = Absent
  BY <1>2 DEF RowsExpire
<1>3. CASE row'.owner \in Clients /\ row'.left = lockTTL(row'.owner)
  BY <1>3, TTLPositive DEF RowsExpire
<1>4. CASE /\ row # Absent /\ row'.owner = row.owner
           /\ row.left > 1 /\ row'.left = row.left - 1
  <2>1. row.owner \in Clients /\ row.left \in Nat
    BY <1>4 DEF TypeOK, Rows
  <2> QED
    BY <1>4, <2>1, TTLPositive DEF RowsExpire
<1> QED
  BY <1>1, <1>2, <1>3, <1>4 DEF RowOnlyAges

(* No row is written without a TTL, and none outlives the TTL of its owner *)
(* after the INSERT that wrote it.                                          *)
THEOREM NoRowIsForever == Spec => []RowsExpire
<1>1. Init => RowsExpire
  BY DEF Init, RowsExpire
<1> QED
  BY <1>1, RowsExpireStep, TypeCorrect, PTL DEF Spec

(* No step gives a row that is there another owner, nor a later end: the   *)
(* KeepAlive of the row's own client, too, leaves its TTL running, against *)
(* the comments in the code that say that it resets it.                    *)
THEOREM NoLeaseIsExtended == Spec => NothingExtends
<1>1. TypeOK /\ RowsExpire /\ [Next]_vars
        => [row # Absent /\ row' # Absent
              => row'.owner = row.owner /\ row'.left <= row.left]_vars
  <2> SUFFICES ASSUME TypeOK, RowsExpire, [Next]_vars, row # Absent, row' # Absent
               PROVE  row'.owner = row.owner /\ row'.left <= row.left
    OBVIOUS
  <2>1. row.left \in Nat
    BY DEF TypeOK, Rows
  <2> QED
    BY <2>1, RowMoves DEF RowOnlyAges
<1> QED
  BY <1>1, TypeCorrect, NoRowIsForever, PTL DEF Spec, NothingExtends
=============================================================================

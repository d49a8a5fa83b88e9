--------------------------- MODULE DynamoDBStore ---------------------------
(***************************************************************************)
(* The DynamoDB lock store, internal/store/dynamodb/dynamodb_store.go,     *)
(* called by concurrent gRPC handlers of any number of servers that share  *)
(* one table.                                                              *)
(*                                                                         *)
(* DynamoDB drops nothing by itself here: the servers' clocks decide when  *)
(* a lock has expired.  A handler reads its server's clock once, before it *)
(* sends its request; the request may arrive any time later, and after     *)
(* requests that were sent later.  Clocks count ticks; the store cuts them *)
(* to whole seconds (time.Time.Unix), of TicksPerSecond ticks each.        *)
(***************************************************************************)
EXTENDS Integers

CONSTANTS
  Clients,         \* the client ids that compete for the one lock modelled
  NoClient,        \* owner of an item that does not exist
  Servers,         \* the servers that share the table
  Requests,        \* slots for the requests in progress, all servers together
  MaxSkew,         \* by how many ticks two servers' clocks may differ
  Skew,            \* Skew[s]: how many ticks the clock of s is ahead
  TicksPerSecond,
  RequestTTL,      \* RequestTTL[c]: the ttl client c puts in its requests
  ConfigTTL,       \* DynamoDBConfig.TTL, which Validate wants positive
  MaxTime          \* bound of the clock, for TLC

(* The slowest clock counts as the true one.  Nothing bounds MaxSkew: a tick *)
(* may be as short, and the clocks as far apart, as one likes.               *)
ASSUME StoreAssumption ==
  /\ NoClient \notin Clients
  /\ MaxSkew \in Nat \ {0}
  /\ Skew \in [Servers -> 0 .. MaxSkew]
  /\ TicksPerSecond \in Nat \ {0}
  /\ RequestTTL \in [Clients -> Int]
  /\ ConfigTTL \in Nat \ {0}
  /\ MaxTime \in Nat

VARIABLES
  clock,           \* true time, in ticks
  item,            \* the lock's item: ClientID and ExpiresAt
  readable,        \* the owners an eventually consistent read may return
  request,         \* the handlers' control state
  promisedUntil    \* history: until when c was last told it holds the lock

vars == <<clock, item, readable, request, promisedUntil>>

-----------------------------------------------------------------------------
resolveTTL(ttl) == IF ttl > 0 THEN ttl ELSE ConfigTTL

lockTTL(c) == resolveTTL(RequestTTL[c])

Unix(t) == t \div TicksPerSecond

Lease(c) == lockTTL(c) * TicksPerSecond

NoItem == [owner |-> NoClient, expiresAt |-> 0]

Items == [owner : Clients, expiresAt : Nat] \cup {NoItem}

Idle == [step |-> "idle", client |-> NoClient, started |-> 0, now |-> 0]

(* A handler was called at true time started, and read now on the clock of *)
(* its server; ReleaseLock reads no clock.                                  *)
Timed ==
  {h \in [step : {"putItem", "updateItem"}, client : Clients, started : Nat, now : Nat] :
     \E s \in Servers : h.now = h.started + Skew[s]}

Untimed ==
  [step : {"getItem", "deleteItem"}, client : Clients, started : {0}, now : {0}]

Handling == Timed \cup Untimed

(* ExpiresAt of a lock taken or refreshed by the handler h. *)
expiryTime(h) == Unix(h.now + Lease(h.client))

TypeOK ==
  /\ clock \in Nat
  /\ item \in Items
  /\ readable \subseteq Clients \cup {NoClient}
  /\ request \in [Requests -> Handling \cup {Idle}]
  /\ \A r \in Requests : request[r].started <= clock
  /\ promisedUntil \in [Clients -> Nat]

Init ==
  /\ clock = 0
  /\ item = NoItem
  /\ readable = {NoClient}
  /\ request = [r \in Requests |-> Idle]
  /\ promisedUntil = [c \in Clients |-> 0]

-----------------------------------------------------------------------------
At(r, step) == request[r].step = step

Start(r, c, step, started, now) ==
  /\ request[r] = Idle
  /\ request' = [request EXCEPT ![r] =
                   [step |-> step, client |-> c, started |-> started, now |-> now]]

(* A handler that reads the clock of its server, before anything else. *)
StartTimed(r, c, step) ==
  \E s \in Servers : Start(r, c, step, clock, clock + Skew[s])

Return(r) == request' = [request EXCEPT ![r] = Idle]

(* What becomes of the reply to a request that took effect: it is lost for *)
(* good and the handler answers as on a failure; or the SDK, which sees no *)
(* reply, sends the request again.                                          *)
Replies == {"received", "lost", "resent"}

Proceed(r, reply) == IF reply = "resent" THEN UNCHANGED request ELSE Return(r)

(* The lease a positive answer promises, counted from the call. *)
Granted(h) ==
  LET until == h.started + Lease(h.client) IN
  [promisedUntil EXCEPT ![h.client] = IF @ >= until THEN @ ELSE until]

Write(new) ==
  /\ item' = new
  /\ readable' = readable \cup {new.owner}

(* A write of PutItem or UpdateItem that met its condition. *)
Renew(r, reply) ==
  LET h == request[r] IN
  /\ Write([owner |-> h.client, expiresAt |-> expiryTime(h)])
  /\ Proceed(r, reply)
  /\ promisedUntil' = IF reply = "received" THEN Granted(h) ELSE promisedUntil
  /\ UNCHANGED clock

-----------------------------------------------------------------------------
(* TryAcquireLock: one conditional PutItem. *)

TryAcquireLock(r, c) ==
  /\ StartTimed(r, c, "putItem")
  /\ UNCHANGED <<clock, item, readable, promisedUntil>>

(* Mutant: ExpiresAt <= :now, the last second of the lease is not honoured. *)
mayAcquireEarly(h) ==
  item = NoItem \/ item.expiresAt <= Unix(h.now) \/ item.owner = h.client

(* Mutant: the last alternative does not ask whose lock it is. *)
mayAcquireAny(h) ==
  item = NoItem \/ item.expiresAt < Unix(h.now) \/ item.expiresAt >= Unix(h.now)

(* attribute_not_exists(PK) OR ExpiresAt < :now OR (ClientID = :clientId   *)
(* AND ExpiresAt >= :now)                                                   *)
mayAcquire(h) ==
  \/ item = NoItem
  \/ item.expiresAt < Unix(h.now)
  \/ item.owner = h.client /\ item.expiresAt >= Unix(h.now)

PutItem(r, reply) ==
  /\ At(r, "putItem")
  /\ mayAcquire(request[r])
  /\ Renew(r, reply)

PutItemRefused(r) ==
  /\ At(r, "putItem")
  /\ ~mayAcquire(request[r])
  /\ Return(r)
  /\ UNCHANGED <<clock, item, readable, promisedUntil>>

(* ReleaseLock: GetItem, eventually consistent, then DeleteItem without a  *)
(* condition.                                                               *)
ReleaseLock(r, c) ==
  /\ Start(r, c, "getItem", 0, 0)
  /\ promisedUntil' = [promisedUntil EXCEPT ![c] = 0]
  /\ UNCHANGED <<clock, item, readable>>

GetItem(r) ==
  /\ At(r, "getItem")
  /\ \E owner \in readable :
       IF owner = request[r].client
         THEN request' = [request EXCEPT ![r].step = "deleteItem"]
         ELSE Return(r)
  /\ UNCHANGED <<clock, item, readable, promisedUntil>>

DeleteItem(r, reply) ==
  LET c == request[r].client IN
  /\ At(r, "deleteItem")
  /\ Write(NoItem)
  /\ Proceed(r, reply)
  /\ UNCHANGED <<clock, promisedUntil>>

(* KeepAlive: one UpdateItem on the condition that the client still owns   *)
(* the item, expired or not.                                                *)
KeepAlive(r, c) ==
  /\ StartTimed(r, c, "updateItem")
  /\ UNCHANGED <<clock, item, readable, promisedUntil>>

(* Mutant: without its condition UpdateItem writes to any item, and creates *)
(* one that has ExpiresAt only.                                             *)
UpdateItemUpserts(r, reply) ==
  /\ At(r, "updateItem")
  /\ item' = [item EXCEPT !.expiresAt = expiryTime(request[r])]
  /\ Proceed(r, reply)
  /\ UNCHANGED <<clock, readable, promisedUntil>>

UpdateItem(r, reply) ==
  /\ At(r, "updateItem")
  /\ item.owner = request[r].client
  /\ Renew(r, reply)

UpdateItemRefused(r) ==
  /\ At(r, "updateItem")
  /\ item.owner # request[r].client
  /\ Return(r)
  /\ UNCHANGED <<clock, item, readable, promisedUntil>>

(* A request fails without effect: the handler returns. *)
RequestFails(r) ==
  /\ request[r] # Idle
  /\ Return(r)
  /\ UNCHANGED <<clock, item, readable, promisedUntil>>

-----------------------------------------------------------------------------
(* All replicas have caught up. *)
Converge ==
  /\ readable' = {item.owner}
  /\ UNCHANGED <<clock, item, request, promisedUntil>>

Tick ==
  /\ clock < MaxTime
  /\ clock' = clock + 1
  /\ UNCHANGED <<item, readable, request, promisedUntil>>

Call(r, c) == TryAcquireLock(r, c) \/ ReleaseLock(r, c) \/ KeepAlive(r, c)

Handle(r) ==
  \/ PutItemRefused(r) \/ GetItem(r) \/ UpdateItemRefused(r) \/ RequestFails(r)
  \/ \E reply \in Replies :
       PutItem(r, reply) \/ DeleteItem(r, reply) \/ UpdateItem(r, reply)

Next ==
  \/ \E r \in Requests, c \in Clients : Call(r, c)
  \/ \E r \in Requests : Handle(r)
  \/ Converge
  \/ Tick

Spec == Init /\ [][Next]_vars

-----------------------------------------------------------------------------
(* Properties. *)

(* What is left of the lease the client was told of, less what clocks that *)
(* are up to MaxSkew apart cost it: the server that takes over may be the  *)
(* fastest, and the one that granted the slowest.  It is all of the lease  *)
(* if the clocks agree to a tick; cutting them to seconds costs nothing.   *)
promised ==
  [c \in Clients |-> IF promisedUntil[c] >= clock + MaxSkew
                     THEN promisedUntil[c] - clock - MaxSkew + 1 ELSE 0]

(* No server takes the item of c as expired as long as that lasts. *)
Covers(c) ==
  /\ item.owner = c
  /\ \A s \in Servers : Unix(promisedUntil[c] - MaxSkew + Skew[s]) <= item.expiresAt

(* The clients that were promised the lock and may not have it to the end. *)
Unbacked == {c \in Clients : promised[c] > 0 /\ ~Covers(c)}

(* The client's own write, computed before an earlier one or on a slower   *)
(* clock, moves ExpiresAt back.                                             *)
Shortens(r) ==
  /\ item'.expiresAt < item.expiresAt
  /\ \E reply \in Replies : PutItem(r, reply) \/ UpdateItem(r, reply)

(* Lease safety, in every execution: a client that was told it holds the   *)
(* lock owns the item, and no server, however fast its clock, takes the    *)
(* item as expired before the promise ends, until the DeleteItem of a      *)
(* release asked for before the client was promised the lock removes it,   *)
(* or one of the client's own delayed writes shortens it.  Nothing else    *)
(* breaks a promise: no other client's request, however old the clock it   *)
(* read, no lost or resent request, no rounding of the clocks.             *)
LeaseSafety ==
  [][\A c \in Unbacked' \ Unbacked :
       /\ item.owner = c
       /\ \E r \in Requests :
            \/ \E reply \in Replies : DeleteItem(r, reply)
            \/ Shortens(r) /\ request[r].client = c]_vars

(* To a caller, the lock is free once some server may take it as expired.  *)
holder ==
  IF \E s \in Servers : Unix(clock + Skew[s]) > item.expiresAt
    THEN NoClient ELSE item.owner

(* The clients whose items handlers are about to delete. *)
Acting == {request[r].client : r \in {q \in Requests : At(q, "deleteItem")}}

Service == INSTANCE LockService WITH
  Leases <- UNION {0 .. Lease(c) : c \in Clients},
  unbacked <- Unbacked, acting <- Acting, shown <- readable

(* Every step of the store is one of the contract of LockService, or one   *)
(* of two of its deviations: a delete that is late, or a shortened lease.  *)
(* An expired lock that goes over to another client in one write is, to    *)
(* the contract, dropped when it expires, and granted by the write.        *)
ImplementsLockService ==
  /\ Service!Init
  /\ [][\/ Service!Next
        \/ Service!Look
        \/ \E c \in Clients : Service!LateDrop(c) \/ Service!FallBack(c)]_Service!vars

-----------------------------------------------------------------------------
(* What the comments in the code say of single operations. *)

(* "KeepAlive extends the leadership lease": no UpdateItem shortens it. *)
KeepAliveExtends ==
  [][\A r \in Requests :
       (\E reply \in Replies : UpdateItem(r, reply))
         => item'.expiresAt >= item.expiresAt]_vars

(* "Lock has expired": a PutItem takes a lock over only when the lease its *)
(* owner was told of is over, unless that was shortened before.             *)
LeaseInFull ==
  [][\A r \in Requests, c \in Clients :
       item.owner = c /\ c \notin Unbacked /\ (\E reply \in Replies : PutItem(r, reply))
         => c = request[r].client \/ promisedUntil[c] <= clock]_vars

(* "If no lock exists or client doesn't own it, return": a ReleaseLock that *)
(* returns after its GetItem leaves no lock of its client behind.           *)
ReleaseFindsOwn ==
  [][\A r \in Requests :
       GetItem(r) /\ request'[r] = Idle => item.owner # request[r].client]_vars
=============================================================================

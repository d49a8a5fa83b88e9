---------------------------- MODULE RedisStore ----------------------------
(***************************************************************************)
(* The Redis lock store, internal/store/redis/redis_store.go, called by    *)
(* concurrent gRPC handlers of any number of servers that share one Redis. *)
(*                                                                         *)
(* Redis executes one command at a time; a handler sends one or two.  The  *)
(* steps of the model are the commands.  Between the two commands of a     *)
(* handler any other command may run and any time may pass.  A command may *)
(* fail without effect, or take effect and lose its reply; go-redis then   *)
(* sends it again, or the handler returns false (or -1s, or nothing).  A   *)
(* server that crashes between two commands of a handler looks the same to *)
(* Redis and to the client.                                                *)
(*                                                                         *)
(* Time is relative: key.left, request[r].credit and promised[c] are all   *)
(* durations that Tick lets run down, so no clock has to be bounded.       *)
(***************************************************************************)
EXTENDS Integers

CONSTANTS
  Clients,      \* the client ids that compete for the one lock modelled
  NoClient,     \* owner of a key that does not exist
  Requests,     \* slots for the requests in progress, all servers together
  RequestTTL,   \* RequestTTL[c]: the ttl client c puts in its requests
  ConfigTTL,    \* RedisConfig.TTL as configured
  FallbackTTL   \* the TTL Validate sets when none is configured (15)

ASSUME StoreAssumption ==
  /\ NoClient \notin Clients
  /\ RequestTTL \in [Clients -> Int]
  /\ ConfigTTL \in Nat
  /\ FallbackTTL \in Nat \ {0}

VARIABLES
  key,          \* the lock's key in Redis: its value and its remaining TTL
  request,      \* the handlers' control state
  promised      \* history: how much longer c was told that it holds the lock

vars == <<key, request, promised>>

-----------------------------------------------------------------------------
(* Configuration. *)

validTTL == IF ConfigTTL = 0 THEN FallbackTTL ELSE ConfigTTL

(* Mutant: the TTL of the request as it is, default or not. *)
resolveTTLAsSent(ttl) == ttl

resolveTTL(ttl) == IF ttl > 0 THEN ttl ELSE validTTL

lockTTL(c) == resolveTTL(RequestTTL[c])

-----------------------------------------------------------------------------
(* Redis.  A key set with expiration 0 has no TTL and never expires: that  *)
(* is left = 0 with an owner.  EXPIRE with 0 deletes the key.              *)

Absent == [owner |-> NoClient, left |-> 0]

Written(c, ttl) == [owner |-> c, left |-> ttl]

Expired(k, ttl) ==
  IF k = Absent \/ ttl <= 0 THEN Absent ELSE [k EXCEPT !.left = ttl]

Aged(k) ==
  CASE k.left = 0 -> k
    [] k.left = 1 -> Absent
    [] OTHER      -> [k EXCEPT !.left = @ - 1]

Less(n) == IF n > 0 THEN n - 1 ELSE 0

-----------------------------------------------------------------------------
(* Handlers. *)

Idle == [step |-> "idle", client |-> NoClient, credit |-> 0]

Steps == {"setNX", "acquireGet", "acquireExpire",
          "releaseGet", "releaseDel",
          "keepAliveGet", "keepAliveExpire"}

(* What client c may be promised, and be left with of it. *)
Credit(c) == 0 .. lockTTL(c)

Handling(c) == [step : Steps, client : {c}, credit : Credit(c)]

Handlers == {Idle} \cup UNION {Handling(c) : c \in Clients}

Keys == [owner : Clients, left : Nat] \cup {Absent}

(* Nobody is promised, or about to be promised, more than its own TTL. *)
TypeOK ==
  /\ key \in Keys
  /\ request \in [Requests -> Handlers]
  /\ promised \in [Clients -> UNION {Credit(c) : c \in Clients}]
  /\ \A c \in Clients : promised[c] \in Credit(c)

Init ==
  /\ key = Absent
  /\ request = [r \in Requests |-> Idle]
  /\ promised = [c \in Clients |-> 0]

At(r, step) == request[r].step = step

Start(r, c, step) ==
  /\ request[r] = Idle
  /\ request' = [request EXCEPT
                   ![r] = [step |-> step, client |-> c, credit |-> lockTTL(c)]]

Goto(r, step) == request' = [request EXCEPT ![r].step = step]

Return(r) == request' = [request EXCEPT ![r] = Idle]

(* Mutant: a refresh adds to the lease instead of restarting it. *)
GrantedOnTop(c, credit) == [promised EXCEPT ![c] = @ + credit]

(* The promise a positive answer carries, counted from the call: an older  *)
(* and longer promise stands.                                               *)
Granted(c, credit) ==
  [promised EXCEPT ![c] = IF @ >= credit THEN @ ELSE credit]

(* What becomes of the reply to a command that took effect: it is lost for *)
(* good and the handler answers false or -1s; or the client library, which *)
(* sees no reply, sends the command again.                                  *)
Replies == {"received", "lost", "resent"}

Proceed(r, reply) == IF reply = "resent" THEN UNCHANGED request ELSE Return(r)

Answer(r, c, positive, reply) ==
  /\ Proceed(r, reply)
  /\ promised' = IF positive /\ reply = "received"
                   THEN Granted(c, request[r].credit) ELSE promised

-----------------------------------------------------------------------------
(* TryAcquireLock: SET NX, and when the key exists GET and EXPIRE. *)

TryAcquireLock(r, c) ==
  /\ Start(r, c, "setNX")
  /\ UNCHANGED <<key, promised>>

SetNXWrites(r, reply) ==
  LET c == request[r].client IN
  /\ At(r, "setNX")
  /\ key = Absent
  /\ key' = Written(c, lockTTL(c))
  /\ Answer(r, c, TRUE, reply)

SetNXFindsKey(r) ==
  /\ At(r, "setNX")
  /\ key # Absent
  /\ Goto(r, "acquireGet")
  /\ UNCHANGED <<key, promised>>

(* Mutant: refreshLockIfOwned refreshes whoever owns the key. *)
AcquireGetAny(r) ==
  /\ At(r, "acquireGet")
  /\ IF key # Absent THEN Goto(r, "acquireExpire") ELSE Return(r)
  /\ UNCHANGED <<key, promised>>

AcquireGet(r) ==
  /\ At(r, "acquireGet")
  /\ IF key.owner = request[r].client THEN Goto(r, "acquireExpire") ELSE Return(r)
  /\ UNCHANGED <<key, promised>>

(* refreshLockIfOwned looks at the error of EXPIRE only, not at its result: *)
(* the answer is true also when the key is gone.                            *)
AcquireExpire(r, reply) ==
  LET c == request[r].client IN
  /\ At(r, "acquireExpire")
  /\ key' = Expired(key, lockTTL(c))
  /\ Answer(r, c, TRUE, reply)

(* ReleaseLock: GET, then DEL.  The client stops relying on the lock when  *)
(* it asks for the release; it may be granted the lock again before the    *)
(* DEL of a release it gave up waiting for.                                 *)
ReleaseLock(r, c) ==
  /\ Start(r, c, "releaseGet")
  /\ promised' = [promised EXCEPT ![c] = 0]
  /\ UNCHANGED key

ReleaseGet(r) ==
  /\ At(r, "releaseGet")
  /\ IF key.owner = request[r].client THEN Goto(r, "releaseDel") ELSE Return(r)
  /\ UNCHANGED <<key, promised>>

ReleaseDel(r, reply) ==
  /\ At(r, "releaseDel")
  /\ key' = Absent
  /\ Proceed(r, reply)
  /\ UNCHANGED promised

(* KeepAlive: GET, then EXPIRE, whose result is looked at here. *)
KeepAlive(r, c) ==
  /\ Start(r, c, "keepAliveGet")
  /\ UNCHANGED <<key, promised>>

KeepAliveGet(r) ==
  /\ At(r, "keepAliveGet")
  /\ IF key.owner = request[r].client THEN Goto(r, "keepAliveExpire") ELSE Return(r)
  /\ UNCHANGED <<key, promised>>

(* Mutant: KeepAlive, too, ignores that the key is gone. *)
KeepAliveExpireUnchecked(r, reply) ==
  LET c == request[r].client IN
  /\ At(r, "keepAliveExpire")
  /\ key' = Expired(key, lockTTL(c))
  /\ Answer(r, c, TRUE, reply)

KeepAliveExpire(r, reply) ==
  LET c == request[r].client IN
  /\ At(r, "keepAliveExpire")
  /\ key' = Expired(key, lockTTL(c))
  /\ Answer(r, c, key # Absent, reply)

(* Any command may fail without effect: every handler then returns. *)
CommandFails(r) ==
  /\ request[r] # Idle
  /\ Return(r)
  /\ UNCHANGED <<key, promised>>

-----------------------------------------------------------------------------
Tick ==
  /\ key' = Aged(key)
  /\ promised' = [c \in Clients |-> Less(promised[c])]
  /\ request' = [r \in Requests |-> [request[r] EXCEPT !.credit = Less(@)]]

Call(r, c) == TryAcquireLock(r, c) \/ ReleaseLock(r, c) \/ KeepAlive(r, c)

Command(r) ==
  \/ SetNXFindsKey(r) \/ AcquireGet(r) \/ ReleaseGet(r) \/ KeepAliveGet(r)
  \/ CommandFails(r)
  \/ \E reply \in Replies :
       \/ SetNXWrites(r, reply) \/ AcquireExpire(r, reply)
       \/ ReleaseDel(r, reply) \/ KeepAliveExpire(r, reply)

Next ==
  \/ \E r \in Requests, c \in Clients : Call(r, c)
  \/ \E r \in Requests : Command(r)
  \/ Tick

Spec == Init /\ [][Next]_vars

(* Every command ends, if only by an error, and is resent finitely often   *)
(* (go-redis gives up after MaxRetries).                                    *)
Progress(r) == Command(r) /\ request'[r] # request[r]

(* Time passes, and every handler's commands end. *)
FairSpec == Spec /\ WF_vars(Tick) /\ \A r \in Requests : WF_vars(Progress(r))

-----------------------------------------------------------------------------
(* Properties. *)

(* The clients that were told they hold the lock and may not have it to    *)
(* the end of what they were told.                                          *)
Unbacked ==
  {c \in Clients :
     promised[c] > 0 /\ ~(key.owner = c /\ key.left >= promised[c])}

(* An EXPIRE is late when the key is no longer its client's: it sets the   *)
(* TTL of somebody else's key, and the client is answered as if the key    *)
(* were its own.  KeepAlive notices a key that is gone, TryAcquireLock     *)
(* does not.                                                                *)
LateExpire(r) ==
  /\ key.owner # request[r].client
  /\ \E reply \in Replies :
       \/ AcquireExpire(r, reply)
       \/ KeepAliveExpire(r, reply) /\ key # Absent

(* Lease safety, in every execution: a client that was told it holds the   *)
(* lock holds it, and Redis keeps the key at least as long as it was told, *)
(* until an EXPIRE that is late answers this client, or cuts its TTL, or   *)
(* the DEL of a release asked for before the client was promised the lock  *)
(* removes it.                                                              *)
(* Nothing else breaks a promise: no lost or resent command, no failed     *)
(* one, no other request of the client, no other client's TTL, no late     *)
(* answer.                                                                  *)
LeaseSafety ==
  [][\A c \in Unbacked' \ Unbacked :
       \E r \in Requests :
         \/ LateExpire(r) /\ c \in {request[r].client, key.owner}
         \/ (\E reply \in Replies : ReleaseDel(r, reply)) /\ c = key.owner]_vars

(* The lock of a client that sends no more requests (it crashed, or was    *)
(* cut off) is freed: Redis never keeps a key without a TTL.               *)
DeadHolderFrees ==
  \A c \in Clients :
    <>[](\A r \in Requests : request[r].client # c) => []<>(key.owner # c)

(* The clients of the handlers between their two commands. *)
PastGet(r) == request[r].step \in {"acquireExpire", "releaseDel", "keepAliveExpire"}

Acting == {request[r].client : r \in {q \in Requests : PastGet(q)}}

Service == INSTANCE LockService WITH
  holder <- key.owner, Leases <- UNION {Credit(c) : c \in Clients},
  unbacked <- Unbacked, acting <- Acting, shown <- {key.owner}

(* Every step of the store is one of the contract of LockService, or one   *)
(* of two of its deviations: an answer, or a DEL, that is late.            *)
ImplementsLockService ==
  /\ Service!Init
  /\ [][\/ Service!Next
        \/ Service!Look
        \/ \E c \in Clients : Service!LateAnswer(c) \/ Service!LateDrop(c)]_Service!vars

-----------------------------------------------------------------------------
(* What the comments in the code say of single operations. *)

(* "Only delete if client owns the lock": the DEL of ReleaseLock removes   *)
(* nobody else's key.                                                       *)
ReleaseDeletesOwn ==
  [][\A r \in Requests :
       (\E reply \in Replies : ReleaseDel(r, reply)) /\ key # Absent
         => key.owner = request[r].client]_vars

(* "KeepAlive refreshes a lock's TTL if it's owned by the specified        *)
(* client": its EXPIRE changes nobody else's TTL.                           *)
KeepAliveRefreshesOwn ==
  [][\A r \in Requests :
       (\E reply \in Replies : KeepAliveExpire(r, reply)) /\ key' # key
         => key.owner = request[r].client]_vars

(* "Returns true if successful, false otherwise": a client whose           *)
(* TryAcquireLock is answered true holds the lock at that moment.          *)
TrueMeansAcquired ==
  [][\A c \in Clients : promised'[c] > promised[c] => key'.owner = c]_vars
=============================================================================

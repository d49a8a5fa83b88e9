--------------------------- MODULE ScyllaDBStore ---------------------------
(***************************************************************************)
(* The ScyllaDB lock store, internal/store/scylladb/scylladb_store.go,     *)
(* called by concurrent gRPC handlers of any number of servers that share  *)
(* one table.                                                              *)
(*                                                                         *)
(* A lock is a row with a TTL, written by INSERT ... IF NOT EXISTS only.   *)
(* The handlers do not look at whether the INSERT was applied: they        *)
(* read the row back, or, in KeepAlive, do not.  A query may fail without  *)
(* effect, or take effect and lose its reply; gocql does not retry it.     *)
(* Time is relative, as in RedisStore.                                     *)
(***************************************************************************)
EXTENDS Integers

CONSTANTS
  Clients,      \* the client ids that compete for the one lock modelled
  NoClient,     \* owner of a row that does not exist
  Requests,     \* slots for the requests in progress, all servers together
  RequestTTL,   \* RequestTTL[c]: the ttl client c puts in its requests
  ConfigTTL,    \* ScyllaDBConfig.TTL, which Validate wants positive
  Consistency   \* ScyllaDBConfig.Consistency

ASSUME StoreAssumption ==
  /\ NoClient \notin Clients
  /\ RequestTTL \in [Clients -> Int]
  /\ ConfigTTL \in Nat \ {0}

VARIABLES
  row,          \* the lock's row: client_id and remaining TTL
  readable,     \* the owners a replica may report
  request,      \* the handlers' control state
  promised      \* history: how much longer c was told that it holds the lock

vars == <<row, readable, request, promised>>

-----------------------------------------------------------------------------
(* Mutant: the TTL of the request as it is; USING TTL 0 means no TTL. *)
resolveTTLAsSent(ttl) == ttl

resolveTTL(ttl) == IF ttl > 0 THEN ttl ELSE ConfigTTL

lockTTL(c) == resolveTTL(RequestTTL[c])

parseConsistency(c) ==
  CASE c = "CONSISTENCY_ONE" -> "One"
    [] c = "CONSISTENCY_ALL" -> "All"
    [] OTHER                 -> "Quorum"

(* A row whose left is 0 but that has an owner has no TTL. *)
Absent == [owner |-> NoClient, left |-> 0]

Rows == [owner : Clients, left : Nat] \cup {Absent}

(* A SELECT that asks one replica may get an older answer; a majority      *)
(* knows the last write.                                                   *)
ReadOwners ==
  IF parseConsistency(Consistency) = "One" THEN readable ELSE {row.owner}

Less(n) == IF n > 0 THEN n - 1 ELSE 0

-----------------------------------------------------------------------------
Steps == {"insert", "verify", "releaseVerify", "delete", "keepAliveInsert"}

(* applied is history: the handlers do not look at it. *)
Idle == [step |-> "idle", client |-> NoClient, credit |-> 0, applied |-> FALSE]

Credit(c) == 0 .. lockTTL(c)

Handling(c) ==
  [step : Steps, client : {c}, credit : Credit(c), applied : BOOLEAN]

TypeOK ==
  /\ row \in Rows
  /\ readable \subseteq Clients \cup {NoClient}
  /\ request \in [Requests -> {Idle} \cup UNION {Handling(c) : c \in Clients}]
  /\ promised \in [Clients -> UNION {Credit(c) : c \in Clients}]
  /\ \A c \in Clients : promised[c] \in Credit(c)

Init ==
  /\ row = Absent
  /\ readable = {NoClient}
  /\ request = [r \in Requests |-> Idle]
  /\ promised = [c \in Clients |-> 0]

At(r, step) == request[r].step = step

Start(r, c, step) ==
  /\ request[r] = Idle
  /\ request' = [request EXCEPT ![r] =
       [step |-> step, client |-> c, credit |-> lockTTL(c), applied |-> FALSE]]

Return(r) == request' = [request EXCEPT ![r] = Idle]

(* Mutant: a refresh adds to the lease instead of restarting it. *)
GrantedOnTop(c, credit) == [promised EXCEPT ![c] = @ + credit]

(* The promise of a positive answer, counted from the call. *)
Granted(c, credit) ==
  [promised EXCEPT ![c] = IF @ >= credit THEN @ ELSE credit]

Write(new) ==
  /\ row' = new
  /\ readable' = readable \cup {new.owner}

(* Mutant: INSERT without IF NOT EXISTS, which overwrites the row. *)
InsertOverwrites(c) == Write([owner |-> c, left |-> lockTTL(c)])

(* INSERT ... IF NOT EXISTS USING TTL *)
Insert(c) ==
  IF row = Absent THEN Write([owner |-> c, left |-> lockTTL(c)])
                  ELSE UNCHANGED <<row, readable>>

applies(c) == row' # row /\ row'.owner = c

-----------------------------------------------------------------------------
(* TryAcquireLock: INSERT, then SELECT. *)

TryAcquireLock(r, c) ==
  /\ Start(r, c, "insert")
  /\ UNCHANGED <<row, readable, promised>>

TryInsert(r) ==
  LET c == request[r].client IN
  /\ At(r, "insert")
  /\ Insert(c)
  /\ \/ request' = [request EXCEPT ![r].step = "verify", ![r].applied = applies(c)]
     \/ Return(r)                                  \* the reply is lost
  /\ UNCHANGED promised

(* Mutant: an INSERT that got its reply counts as acquired. *)
verifyLockOwnershipTrusting(r) ==
  /\ At(r, "verify")
  /\ Return(r)
  /\ promised' = Granted(request[r].client, request[r].credit)
  /\ UNCHANGED <<row, readable>>

(* The answer is what the row says, whether the INSERT was applied or not, *)
(* and is true also for an older row of the client, with less of its TTL   *)
(* left.                                                                    *)
verifyLockOwnership(r) ==
  LET h == request[r] IN
  /\ At(r, "verify")
  /\ Return(r)
  /\ \E owner \in ReadOwners :
       promised' = IF owner = h.client THEN Granted(h.client, h.credit) ELSE promised
  /\ UNCHANGED <<row, readable>>

(* ReleaseLock: SELECT, then DELETE without a condition. *)
ReleaseLock(r, c) ==
  /\ Start(r, c, "releaseVerify")
  /\ promised' = [promised EXCEPT ![c] = 0]
  /\ UNCHANGED <<row, readable>>

ReleaseVerify(r) ==
  /\ At(r, "releaseVerify")
  /\ \E owner \in ReadOwners :
       IF owner = request[r].client
         THEN request' = [request EXCEPT ![r].step = "delete"]
         ELSE Return(r)
  /\ UNCHANGED <<row, readable, promised>>

ReleaseDelete(r) ==
  /\ At(r, "delete")
  /\ Write(Absent)
  /\ Return(r)
  /\ UNCHANGED promised

(* KeepAlive: the INSERT of TryAcquireLock, and no look at its outcome: the *)
(* answer is the TTL, whoever owns the row.                                 *)
KeepAlive(r, c) ==
  /\ Start(r, c, "keepAliveInsert")
  /\ UNCHANGED <<row, readable, promised>>

KeepAliveInsert(r) ==
  LET h == request[r] IN
  /\ At(r, "keepAliveInsert")
  /\ Insert(h.client)
  /\ Return(r)
  /\ \/ promised' = Granted(h.client, h.credit)
     \/ UNCHANGED promised                         \* the reply is lost

(* A query fails without effect: the handler returns. *)
QueryFails(r) ==
  /\ request[r] # Idle
  /\ Return(r)
  /\ UNCHANGED <<row, readable, promised>>

-----------------------------------------------------------------------------
(* All replicas have caught up. *)
Converge ==
  /\ readable' = {row.owner}
  /\ UNCHANGED <<row, request, promised>>

(* One time unit; a row whose TTL is over is gone from every replica. *)
Tick ==
  /\ IF row.left = 1
       THEN row' = Absent /\ readable' = (readable \ {row.owner}) \cup {NoClient}
       ELSE row' = [row EXCEPT !.left = Less(@)] /\ UNCHANGED readable
  /\ promised' = [c \in Clients |-> Less(promised[c])]
  /\ request' = [r \in Requests |-> [request[r] EXCEPT !.credit = Less(@)]]

Call(r, c) == TryAcquireLock(r, c) \/ ReleaseLock(r, c) \/ KeepAlive(r, c)

Query(r) ==
  \/ TryInsert(r) \/ verifyLockOwnership(r)
  \/ ReleaseVerify(r) \/ ReleaseDelete(r)
  \/ KeepAliveInsert(r) \/ QueryFails(r)

Next ==
  \/ \E r \in Requests, c \in Clients : Call(r, c)
  \/ \E r \in Requests : Query(r)
  \/ Converge
  \/ Tick

Spec == Init /\ [][Next]_vars

(* Time passes; nothing is assumed of clients and servers. *)
FairSpec == Spec /\ WF_vars(Tick)

-----------------------------------------------------------------------------
(* Properties. *)

(* The clients that were told they hold the lock and may not have it to    *)
(* the end of what they were told.                                          *)
Unbacked ==
  {c \in Clients :
     promised[c] > 0 /\ ~(row.owner = c /\ row.left >= promised[c])}

(* An answer that no INSERT of its own stands behind: KeepAlive's INSERT   *)
(* found a row, TryAcquireLock's did and the row read back is an older one *)
(* of the client, or its own row is gone and a replica still reports it.   *)
AnswersOnNothing(r) ==
  \/ KeepAliveInsert(r) /\ row # Absent
  \/ verifyLockOwnership(r) /\ ~(request[r].applied /\ row.owner = request[r].client)

(* Lease safety, in every execution and at every consistency level: a      *)
(* client that was told it holds the lock owns the row, and the row lives  *)
(* at least as long as it was told, unless it was answered on an INSERT    *)
(* that was not applied, or the DELETE of a release asked for before the   *)
(* client was promised the lock removed it.  An answer that the handler's  *)
(* own INSERT stands behind is kept, whatever expires, is lost, fails or   *)
(* is released meanwhile.                                                   *)
LeaseSafety ==
  [][\A c \in Unbacked' \ Unbacked :
       \E r \in Requests :
         \/ AnswersOnNothing(r) /\ c = request[r].client
         \/ ReleaseDelete(r) /\ c = row.owner]_vars

(* The lock of a client that sends no more requests is freed: no row is    *)
(* written without a TTL.                                                   *)
DeadHolderFrees ==
  \A c \in Clients :
    <>[](\A r \in Requests : request[r].client # c) => []<>(row.owner # c)

(* The clients of the handlers about to send their DELETE. *)
Acting == {request[r].client : r \in {q \in Requests : At(q, "delete")}}

Service == INSTANCE LockService WITH
  holder <- row.owner, Leases <- UNION {Credit(c) : c \in Clients},
  unbacked <- Unbacked, acting <- Acting, shown <- ReadOwners

(* Every step of the store, with the answers the code gives, is one of the *)
(* contract of LockService or one of three deviations: a DELETE that is    *)
(* late, a KeepAlive that answers whoever asks, and a TryAcquireLock that  *)
(* answers a client a replica reports as the owner.                         *)
ImplementsLockService ==
  /\ Service!Init
  /\ [][\/ Service!Next
        \/ Service!Look
        \/ \E c \in Clients : Service!LateDrop(c)
        \/ \E r \in Requests : KeepAliveInsert(r) /\ Service!Mislead(request[r].client)
        \/ \E c \in ReadOwners \ {NoClient} : Service!Mislead(c)]_Service!vars

-----------------------------------------------------------------------------
(* What the comments in the code say of single operations. *)

(* "KeepAlive refreshes a lock's TTL if it's owned by the specified        *)
(* client": a KeepAlive whose query succeeds, and that is therefore        *)
(* answered with a lease, finds or makes its client the owner.             *)
KeepAliveAnswersOwner ==
  [][\A r \in Requests :
       KeepAliveInsert(r) => row'.owner = request[r].client]_vars

(* "Try to reacquire the lock which will reset its TTL": after the query   *)
(* of the owner's KeepAlive the row has its full TTL.                      *)
KeepAliveResetsTTL ==
  [][\A r \in Requests :
       LET c == request[r].client IN
       KeepAliveInsert(r) /\ row.owner = c => row'.left = lockTTL(c)]_vars

(* "Verify the lock was acquired by reading it back": a client that was    *)
(* told it holds the lock does hold it at that moment.                     *)
TrueMeansAcquired ==
  [][\A c \in Clients : promised'[c] > promised[c] => row'.owner = c]_vars
=============================================================================

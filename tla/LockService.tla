---------------------------- MODULE LockService ----------------------------
(***************************************************************************)
(* What a lock store promises its callers: the contract of the interface   *)
(* store.LockStore, the same for the Redis, DynamoDB and ScyllaDB stores.  *)
(* One lock (one service and domain) is described: no operation touches    *)
(* more than one.  A client that is told it holds the lock is promised it  *)
(* for a number of time units; time passes by Pass, and no lock is granted *)
(* to another client, or dropped, while a promise is outstanding.          *)
(*                                                                         *)
(* That is Next.  What the stores do beyond it is stated here, too, as     *)
(* actions of their own, the deviations: each store names those it has in  *)
(* the property that it implements this contract.  A promise a deviation   *)
(* leaves without the lock is unbacked until it is renewed or runs out.    *)
(***************************************************************************)
EXTENDS Naturals

CONSTANTS Clients,    \* the client ids that compete for the lock
          NoClient,   \* the holder of a lock nobody holds
          Leases      \* the lease lengths an answer may promise, 0 included

VARIABLES holder,     \* who holds the lock
          promised,   \* promised[c]: for how long c was told it holds it
          unbacked,   \* the clients promised a lock they may not hold
          acting,     \* the clients a command is under way for that was decided
                      \* on by an earlier look at who holds the lock
          shown       \* input: whom a look may show as the holder

vars == <<holder, promised, unbacked, acting>>

TypeOK ==
  /\ holder \in Clients \cup {NoClient}
  /\ promised \in [Clients -> Leases]
  /\ unbacked \in SUBSET Clients
  /\ acting \in SUBSET Clients

Init ==
  /\ holder = NoClient
  /\ promised = [c \in Clients |-> 0]
  /\ unbacked = {}
  /\ acting = {}

Promise(c) == \E p \in Leases : promised' = [promised EXCEPT ![c] = p]

-----------------------------------------------------------------------------
(* An answer is lost when the client is told nothing, or told of a failure  *)
(* that was none: it then holds the lock on no promise, or on an older one. *)

Grant(c) ==
  /\ holder' = c
  /\ Promise(c)
  /\ \/ unbacked' = unbacked \ {c}
     \/ UNCHANGED <<promised, unbacked>>
  /\ acting' \subseteq acting

TryAcquireLock(c) == holder \in {c, NoClient} /\ Grant(c)

KeepAlive(c) == holder = c /\ Grant(c)

(* A client that asks for the release relies on its promise no longer, and *)
(* the lock is dropped then or later, if the client still holds it.         *)
Forget(c) ==
  /\ promised' = [promised EXCEPT ![c] = 0]
  /\ unbacked' = unbacked \ {c}
  /\ acting' \subseteq acting

ReleaseLock(c) == Forget(c) /\ holder' = IF holder = c THEN NoClient ELSE holder

GiveUp(c) == Forget(c) /\ UNCHANGED holder

(* One time unit; the store may drop a lock that is promised to nobody. *)
Pass ==
  /\ promised' = [c \in Clients |-> IF promised[c] > 0 THEN promised[c] - 1 ELSE 0]
  /\ unbacked' = {c \in unbacked : promised'[c] > 0}
  /\ \/ UNCHANGED holder
     \/ /\ \A c \in Clients : promised'[c] > 0 => c \in unbacked
        /\ holder' = NoClient
  /\ UNCHANGED acting

Next ==
  \/ \E c \in Clients :
       TryAcquireLock(c) \/ KeepAlive(c) \/ ReleaseLock(c) \/ GiveUp(c)
  \/ Pass

-----------------------------------------------------------------------------
(* Deviations. *)

(* A handler looks, and decides on a command; or such a command ends. *)
Look ==
  /\ acting' \subseteq acting \cup shown
  /\ UNCHANGED <<holder, promised, unbacked>>

(* A command for c is too late: c holds the lock no more, and is promised  *)
(* it, or changes for how long its holder holds it.                         *)
LateAnswer(c) ==
  /\ c \in acting
  /\ holder # c
  /\ Promise(c)
  /\ unbacked' \in SUBSET Clients
  /\ unbacked' \ {c, holder} = unbacked \ {c, holder}
  /\ promised'[c] > 0 => c \in unbacked'
  /\ acting' \subseteq acting
  /\ UNCHANGED holder

Dropped(lost) ==
  /\ unbacked' = {d \in unbacked \cup lost : promised[d] > 0}
  /\ acting' \subseteq acting
  /\ UNCHANGED promised

(* A delete for c is too late: it takes the lock from its new holder, or   *)
(* from c, which was promised it anew.                                      *)
LateDrop(c) ==
  /\ c \in acting
  /\ holder \notin {c, NoClient} \/ (holder = c /\ promised[c] > 0)
  /\ holder' = NoClient
  /\ Dropped({holder})

(* A request of the holder itself shortens its hold, or ends it. *)
FallBack(c) ==
  /\ holder = c
  /\ holder' \in {c, NoClient}
  /\ Dropped({c})

(* A client is promised a lock it may not hold. *)
Mislead(c) ==
  /\ Promise(c)
  /\ unbacked' = unbacked \cup {c}
  /\ acting' \subseteq acting
  /\ UNCHANGED holder

Deviation ==
  \/ Look
  \/ \E c \in Clients : LateAnswer(c) \/ LateDrop(c) \/ FallBack(c) \/ Mislead(c)

-----------------------------------------------------------------------------
Spec == Init /\ [][Next]_vars

LooseSpec == Init /\ [][Next \/ Deviation]_vars

(* A promised lock is held by the client it is promised to, so that no two *)
(* clients are promised it at once, except for the promises that one of    *)
(* the deviations left unbacked: the mutual exclusion callers rely on.     *)
PromiseKept == \A c \in Clients \ unbacked : promised[c] > 0 => holder = c
=============================================================================

--------------------------- MODULE LeaderElection ---------------------------
(***************************************************************************)
(* Applications that elect a leader as                                     *)
(* client/go/quorum-quest-client/example/main.go does, each with its       *)
(* client of client/go/quorum-quest-client/client.go, over any store that  *)
(* keeps the contract LockService.  What GoClient abstracts from is what   *)
(* matters here: how long leases, refresh intervals and timeouts are.      *)
(*                                                                         *)
(* All events happen at whole time units; Tick passes one.  An RPC reaches *)
(* the server at any moment of its call, once, and its reply may be lost.  *)
(* Processes run promptly: only an RPC takes time.                         *)
(***************************************************************************)
EXTENDS Integers

CONSTANTS
  Clients,        \* the applications; a restarted one has a new client id
  NoClient,
  TTL,            \* TTL[c]: the ttl of the client c
  MinRefresh,     \* least refresh interval (3 s)
  CallTimeout     \* timeout of a keep-alive RPC (5 s)

(* NewQuorumQuestClient wants a ttl that is positive, and no more. *)
ASSUME ElectionAssumption ==
  /\ NoClient \notin Clients
  /\ TTL \in [Clients -> Nat \ {0}]
  /\ MinRefresh \in Nat \ {0}
  /\ CallTimeout \in Nat

RefreshInterval(c) ==
  IF TTL[c] \div 3 < MinRefresh THEN MinRefresh ELSE TTL[c] \div 3

VARIABLES
  holder, promised,  \* the store
  state,       \* what the application and its keep-alive goroutine do
  leader,      \* isLeader
  started,     \* notifyStop is not nil: StartKeepAlive refuses
  since,       \* time since the ticker fired last
  due,         \* a tick waits in the ticker's channel
  age,         \* age of the keep-alive RPC in progress
  answer,      \* the server's answer to it
  late,        \* a keep-alive given up by its caller may still arrive
  lease,       \* history: what was left of the lease when StartKeepAlive ran,
               \* until it is renewed
  renewed,     \* history: a keep-alive has renewed the lease since
  unheld       \* history: for how long the client has gone on, as a leader
               \* that is kept alive, without holding the lock

store == <<holder, promised>>
ticker == <<since, due>>
call == <<age, answer>>
history == <<lease, renewed, unheld>>
vars == <<store, state, leader, started, ticker, call, late, history>>

\* "idle": no keep-alive goroutine runs, and the application waits for its
\* next status tick; "waiting", "calling": it runs, between RPCs or in one.
States == {"idle", "acquiring", "waiting", "calling", "releasing", "exited"}

(* The election relies on the contract alone, without the deviations. *)
Service == INSTANCE LockService WITH
  Leases <- UNION {0 .. TTL[c] : c \in Clients},
  unbacked <- {}, acting <- {}, shown <- {}

TypeOK ==
  /\ holder \in Clients \cup {NoClient}
  /\ promised \in [Clients -> Nat]
  /\ state \in [Clients -> States]
  /\ leader \in [Clients -> BOOLEAN]
  /\ started \in [Clients -> BOOLEAN]
  /\ since \in [Clients -> Nat]
  /\ due \in [Clients -> BOOLEAN]
  /\ age \in [Clients -> 0 .. CallTimeout]
  /\ answer \in [Clients -> {"none", "yes", "no"}]
  /\ late \in [Clients -> BOOLEAN]
  /\ lease \in [Clients -> Nat]
  /\ renewed \in [Clients -> BOOLEAN]
  /\ unheld \in [Clients -> Nat]
  /\ \A c \in Clients :
       /\ promised[c] <= TTL[c] /\ lease[c] <= TTL[c]
       /\ since[c] < RefreshInterval(c)

Init ==
  /\ Service!Init
  /\ state = [c \in Clients |-> "idle"]
  /\ leader = [c \in Clients |-> FALSE]
  /\ started = [c \in Clients |-> FALSE]
  /\ since = [c \in Clients |-> 0]
  /\ due = [c \in Clients |-> FALSE]
  /\ age = [c \in Clients |-> 0]
  /\ answer = [c \in Clients |-> "none"]
  /\ late = [c \in Clients |-> FALSE]
  /\ lease = [c \in Clients |-> 0]
  /\ renewed = [c \in Clients |-> FALSE]
  /\ unheld = [c \in Clients |-> 0]

-----------------------------------------------------------------------------
Goes(c, from, to) ==
  /\ state[c] = from
  /\ state' = [state EXCEPT ![c] = to]

Believes(c, b) == leader' = [leader EXCEPT ![c] = b]

Answers(c, a) == answer' = [answer EXCEPT ![c] = a]

NewCall(c) == age' = [age EXCEPT ![c] = 0] /\ Answers(c, "none")

NewTicker(c) == since' = [since EXCEPT ![c] = 0] /\ due' = [due EXCEPT ![c] = FALSE]

(* The history of a client that is kept alive. *)
Tracks(c, left, again) ==
  /\ lease' = [lease EXCEPT ![c] = left]
  /\ renewed' = [renewed EXCEPT ![c] = again]
  /\ unheld' = [unheld EXCEPT ![c] = 0]

(* The lease an answer grants begins when the server answers. *)
Grant(c) == promised' = [promised EXCEPT ![c] = TTL[c]]

-----------------------------------------------------------------------------
(* TryAcquireLock, called at the start and at every status tick of an      *)
(* application that is not the leader.  Its call has no deadline: the      *)
(* answer may come after any time, and after the lease is over.            *)

TryAcquireLock(c) ==
  /\ ~leader[c]
  /\ Goes(c, "idle", "acquiring")
  /\ NewCall(c)
  /\ UNCHANGED <<store, leader, started, ticker, late, history>>

(* The server may answer false for whatever went wrong at the store. *)
AcquireAtServer(c) ==
  /\ state[c] = "acquiring" /\ answer[c] = "none"
  /\ \/ Service!TryAcquireLock(c) /\ Grant(c) /\ Answers(c, "yes")
     \/ UNCHANGED store /\ Answers(c, "no")
  /\ UNCHANGED <<state, leader, started, ticker, age, late, history>>

(* A new leader calls StartKeepAlive.  notifyStop is set from the first    *)
(* call on, even if the goroutine has ended since: the call is refused and *)
(* the refusal is only logged.                                             *)
AcquireReturns(c) ==
  /\ answer[c] # "none"
  /\ Goes(c, "acquiring",
          IF answer[c] = "yes" /\ ~started[c] THEN "waiting" ELSE "idle")
  /\ Believes(c, answer[c] = "yes")
  /\ started' = [started EXCEPT ![c] = @ \/ answer[c] = "yes"]
  /\ NewTicker(c) /\ NewCall(c)
  /\ Tracks(c, promised[c], FALSE)
  /\ UNCHANGED <<store, late>>

(* Fatal at the start, logged later. *)
AcquireFails(c) ==
  /\ Goes(c, "acquiring", "idle") \/ Goes(c, "acquiring", "exited")
  /\ NewCall(c)
  /\ UNCHANGED <<store, leader, started, ticker, late, history>>

-----------------------------------------------------------------------------
(* The keep-alive goroutine *)

KeepAlive(c) ==
  /\ due[c]
  /\ Goes(c, "waiting", "calling")
  /\ due' = [due EXCEPT ![c] = FALSE]
  /\ NewCall(c)
  /\ UNCHANGED <<store, leader, started, since, late, history>>

KeepAliveAtServer(c) ==
  /\ state[c] = "calling" /\ answer[c] = "none"
  /\ \/ /\ Service!KeepAlive(c) /\ Grant(c) /\ Answers(c, "yes")
        /\ Tracks(c, 0, TRUE)
     \/ UNCHANGED <<store, history>> /\ Answers(c, "no")
  /\ UNCHANGED <<state, leader, started, ticker, age, late>>

KeepAliveReturns(c) ==
  /\ answer[c] = "yes"
  /\ Goes(c, "calling", "waiting")
  /\ NewCall(c)
  /\ UNCHANGED <<store, leader, started, ticker, late, history>>

(* Mutant: a failed RPC is taken for a lost message and tried again. *)
KeepAliveRetries(c) ==
  /\ Goes(c, "calling", "waiting")
  /\ late' = [late EXCEPT ![c] = answer[c] = "none"]
  /\ NewCall(c)
  /\ UNCHANGED <<store, leader, started, ticker, history>>

(* A negative lease, an error or the timeout: the goroutine ends. *)
KeepAliveEnds(c) ==
  /\ Goes(c, "calling", "idle")
  /\ Believes(c, FALSE)
  /\ late' = [late EXCEPT ![c] = answer[c] = "none"]
  /\ NewTicker(c) /\ NewCall(c) /\ Tracks(c, 0, FALSE)
  /\ UNCHANGED <<store, started>>

LateKeepAlive(c) ==
  /\ late[c]
  /\ late' = [late EXCEPT ![c] = FALSE]
  /\ (Service!KeepAlive(c) /\ Grant(c)) \/ UNCHANGED store
  /\ UNCHANGED <<state, leader, started, ticker, call, history>>

-----------------------------------------------------------------------------
(* The signal: a leader releases its lock, and the process ends.  A crash  *)
(* is the same without the release.                                        *)

Shutdown(c) ==
  /\ \E from \in {"idle", "acquiring", "waiting", "calling"} :
       Goes(c, from, "exited") \/ (leader[c] /\ Goes(c, from, "releasing"))
  /\ Believes(c, FALSE)
  /\ NewTicker(c) /\ NewCall(c) /\ Tracks(c, 0, FALSE)
  /\ UNCHANGED <<store, started, late>>

ReleaseAtServer(c) ==
  /\ Goes(c, "releasing", "exited")
  /\ Service!ReleaseLock(c) \/ UNCHANGED store
  /\ UNCHANGED <<leader, started, ticker, call, late, history>>

-----------------------------------------------------------------------------
HasTicker(c) == state[c] \in {"waiting", "calling"}

(* A leader whose keep-alive goroutine runs. *)
Kept(c) == leader[c] /\ HasTicker(c)

(* Mutant: the ticker fires one unit late. *)
TickerLags(c) == IF since[c] + 1 <= RefreshInterval(c) THEN since[c] + 1 ELSE 0

TickerGoesOn(c) == IF since[c] + 1 < RefreshInterval(c) THEN since[c] + 1 ELSE 0

(* Time does not pass a deadline: a tick that is due is taken, and an RPC  *)
(* that has timed out fails.                                               *)
Tick ==
  /\ \A c \in Clients :
       /\ state[c] = "waiting" => ~due[c]
       /\ state[c] = "calling" => age[c] < CallTimeout
  /\ Service!Pass
  /\ age' = [c \in Clients |-> IF state[c] = "calling" THEN age[c] + 1 ELSE age[c]]
  /\ since' = [c \in Clients |-> IF HasTicker(c) THEN TickerGoesOn(c) ELSE since[c]]
  /\ due' = [c \in Clients |->
               due[c] \/ (HasTicker(c) /\ since[c] + 1 >= RefreshInterval(c))]
  /\ unheld' = [c \in Clients |->
                  IF Kept(c) /\ holder # c THEN unheld[c] + 1 ELSE 0]
  /\ UNCHANGED <<state, leader, started, answer, late, lease, renewed>>

Client(c) ==
  \/ TryAcquireLock(c) \/ AcquireAtServer(c) \/ AcquireReturns(c) \/ AcquireFails(c)
  \/ KeepAlive(c) \/ KeepAliveAtServer(c) \/ KeepAliveReturns(c) \/ KeepAliveEnds(c)
  \/ LateKeepAlive(c) \/ Shutdown(c) \/ ReleaseAtServer(c)

Next == Tick \/ \E c \in Clients : Client(c)

Spec == Init /\ [][Next]_vars

(* Time passes, and keep-alives end before it does; an acquisition need not. *)
FairSpec ==
  /\ Spec
  /\ WF_vars(Tick)
  /\ \A c \in Clients :
       WF_vars(KeepAlive(c)) /\ WF_vars(KeepAliveReturns(c) \/ KeepAliveEnds(c))

-----------------------------------------------------------------------------
(* Properties. *)

Longer(t, u) == IF t < u THEN u ELSE t

(* The longest a kept leader can go on without the lock: until the end of  *)
(* the first keep-alive that its expired lease could not prolong, which    *)
(* begins a refresh interval after the acquisition was answered, or after  *)
(* the call that renewed the lease, if that call took longer.              *)
Overstay(c) ==
  IF renewed[c]
    THEN Longer(RefreshInterval(c), CallTimeout) + CallTimeout - TTL[c]
    ELSE RefreshInterval(c) + CallTimeout - lease[c]

(* A leader that is kept alive holds the lock, or goes on without it for   *)
(* no longer than Overstay: never, if that is negative, as it is with a    *)
(* ttl of 15 s from the first renewal on, or if the acquisition was        *)
(* answered in less than 5 s; for up to 8 s with a ttl of 4 s.  That is    *)
(* over late answers, lost replies, timeouts, ticks that fall into a slow  *)
(* RPC, crashes and releases, whatever the ttls.                           *)
KeptLeaderHolds ==
  \A c \in Clients : Kept(c) => holder = c \/ unheld[c] <= Overstay(c)

(* A leader that the server no longer lets keep the lock finds out, if its *)
(* keep-alive goroutine runs: it does not go on as the leader on a lease   *)
(* that is never renewed.                                                  *)
CutOffLeaderResigns ==
  \A c \in Clients :
    <>[](answer[c] # "yes") => <>[]~Kept(c)

-----------------------------------------------------------------------------
(* What the documentation says. *)

(* "The keepalive process automatically maintains leadership and handles   *)
(* transitions": at most one application believes that it leads.           *)
AtMostOneLeader == \A c, d \in Clients : leader[c] /\ leader[d] => c = d
=============================================================================

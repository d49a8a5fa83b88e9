-------------------------- MODULE MCLeaderElection --------------------------
(***************************************************************************)
(* A small instance of LeaderElection for TLC, with the durations of the   *)
(* code, in seconds: one application has a ttl that outlasts two slow      *)
(* keep-alives, the other one that is shorter than the timeout of one.     *)
(***************************************************************************)
EXTENDS LeaderElection, TLC

CONSTANTS long, short    \* two applications

MCClients == {long, short}
MCTTL == long :> 12 @@ short :> 4
=============================================================================

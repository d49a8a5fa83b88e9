----------------------------- MODULE MCGoClient -----------------------------
(***************************************************************************)
(* Small instances of GoClient for TLC: two goroutines of the application  *)
(* and two identities for keep-alive goroutines, so that one may outlive   *)
(* another.                                                                *)
(***************************************************************************)
EXTENDS GoClient, TLC

Symmetry == Permutations(Threads) \cup Permutations(Loops)
=============================================================================

------------------------------ MODULE MCServer ------------------------------
(***************************************************************************)
(* Small instances of Server for TLC.  RPC slots are interchangeable (not  *)
(* used with liveness).                                                    *)
(***************************************************************************)
EXTENDS Server, TLC

Symmetry == Permutations(Requests)
=============================================================================

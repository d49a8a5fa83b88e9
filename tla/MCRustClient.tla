---------------------------- MODULE MCRustClient ----------------------------
(***************************************************************************)
(* Small instances of RustClient for TLC: three identities for tasks, so   *)
(* that a third start may follow while two detached tasks still run.       *)
(***************************************************************************)
EXTENDS RustClient, TLC

Symmetry == Permutations(Tasks)
=============================================================================

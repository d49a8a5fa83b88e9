--------------------------- MODULE MCPythonClient ---------------------------
(***************************************************************************)
(* Small instances of PythonClient for TLC: two threads of the application *)
(* and two identities for workers, so that a forgotten worker may meet its *)
(* successor.                                                              *)
(***************************************************************************)
EXTENDS PythonClient, TLC

Symmetry == Permutations(Threads) \cup Permutations(Workers)
=============================================================================

-------------------------- MODULE MCScyllaDBStore --------------------------
(***************************************************************************)
(* Small instances of ScyllaDBStore for TLC: two clients with different    *)
(* TTLs, one of which leaves its TTL to the server.                        *)
(***************************************************************************)
EXTENDS ScyllaDBStore, TLC

CONSTANTS a, b    \* two clients

MCClients == {a, b}
MCRequestTTL == a :> 2 @@ b :> 0

SlotSymmetry == Permutations(Requests)
=============================================================================

--------------------------- MODULE MCRedisStore ---------------------------
(***************************************************************************)
(* Small instances of RedisStore for TLC: two clients with different TTLs, *)
(* one of which leaves its TTL to the server and the server to its default.*)
(***************************************************************************)
EXTENDS RedisStore, TLC

CONSTANTS a, b    \* two clients

MCClients == {a, b}
MCRequestTTL == a :> 2 @@ b :> 0

(* The slots of Requests are interchangeable (not used with liveness). *)
SlotSymmetry == Permutations(Requests)
=============================================================================

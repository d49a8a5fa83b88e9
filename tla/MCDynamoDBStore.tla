-------------------------- MODULE MCDynamoDBStore --------------------------
(***************************************************************************)
(* Small instances of DynamoDBStore for TLC: two clients with different    *)
(* TTLs, two servers whose clocks are a second apart, two ticks a second.  *)
(***************************************************************************)
EXTENDS DynamoDBStore, TLC

CONSTANTS a, b,           \* two clients
          fast, slow      \* two servers

MCClients == {a, b}
MCRequestTTL == a :> 1 @@ b :> 0
MCServers == {fast, slow}
MCSkew == fast :> MaxSkew @@ slow :> 0

SlotSymmetry == Permutations(Requests)
=============================================================================

----------------------------- MODULE MCRideService -----------------------------
(* Small instances of RideServices, with requests of which two have the same   *)
(* idempotency key.                                                            *)
EXTENDS RideServices, TLC

CONSTANTS r1, r2, r3, k1, k2

RepeatedKey == r1 :> k1 @@ r2 :> k1 @@ r3 :> k2
================================================================================

----------------------------- MODULE InventoryUses -----------------------------
(* Stock levels and uses for small instances of Inventory: a product p with a  *)
(* row in the read model and a product q without one.                          *)
EXTENDS Naturals, TLC

Reserve(id, k, n) == [id |-> id, kind |-> "reserve", key |-> k, quantity |-> n]
Release(id, k, n) == [id |-> id, kind |-> "release", key |-> k, quantity |-> n]
Sale(id, k, n) == [id |-> id, kind |-> "sale", key |-> k, quantity |-> n]

\* Three units of p available and one reserved; the row of q was never created.
Rows == ("p" :> << [available |-> 3, reserved |-> 1] >>) @@ ("q" :> << >>)

UseOf(cs, concurrent, lag, resent) ==
    [commands |-> cs, concurrent |-> concurrent, lag |-> lag, lost |-> resent]

\* Two reservations of which only one can be met, a release and a sale, at once
\* and with every disturbance; then more commands, one after the other.
Mixed == UseOf({Reserve("r1", "p", 2), Reserve("r2", "p", 2), Release("x", "p", 1),
                Sale("s", "q", 1)}, 4, 1, 1)
OneAfterTheOther == UseOf({Reserve("r1", "p", 2), Reserve("r2", "p", 1),
                           Reserve("r3", "p", 3), Release("x", "p", 1)}, 1, 0, 0)
BothUses == {Mixed, OneAfterTheOther}

\* Two reservations at once, on up-to-date reads.
AtOnce == {UseOf({Reserve("r1", "p", 2), Reserve("r2", "p", 2)}, 2, 0, 0)}
================================================================================

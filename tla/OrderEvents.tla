------------------------------ MODULE OrderEvents ------------------------------
(* The events of the order aggregate of the CQRS order system and what the   *)
(* command handler rebuilds from them                                        *)
(* (02-cqrs-saga/problem-1/command_handler.py).                              *)
EXTENDS VersionedItems

CONSTANTS
    Orders,    \* order identifiers (the aggregateId of an item)
    Ghosts,    \* identifiers a client may send although uuid4 never made them
    Products   \* product identifiers

ASSUME GhostsAreOrders == Ghosts \subseteq Orders

Created      == [type |-> "OrderCreated"]
ItemAdded(p) == [type |-> "ItemAdded", product |-> p]
Confirmed    == [type |-> "OrderConfirmed"]
Cancelled    == [type |-> "OrderCancelled"]

Events == {Created, Confirmed, Cancelled} \cup {ItemAdded(p) : p \in Products}

--------------------------------------------------------------------------------
\* The versions whose event decides the status in rebuild_state.
Decisions(history) ==
    {v \in DOMAIN history : history[v] \in {Confirmed, Cancelled}}

\* rebuild_state's items: the versions that appended one.
ItemVersions(history) ==
    {v \in DOMAIN history : history[v].type = "ItemAdded"}

\* rebuild_state's status: the last decision wins, 'draft' when there is none.
Status(history) ==
    IF Decisions(history) = {} THEN "draft"
    ELSE LET last == CHOOSE v \in Decisions(history) :
                         \A u \in Decisions(history) : u <= v
         IN  IF history[last] = Confirmed THEN "confirmed" ELSE "cancelled"

\* The two checks of handle_confirm_order on the rebuilt state.
Confirmable(history) ==
    /\ Status(history) = "draft"
    /\ ItemVersions(history) # {}

================================================================================

------------------------------- MODULE OrderWrites -----------------------------
(* The two write sides of the order system side by side, each over a table of  *)
(* its own: OrderCommands and AdvancedOrderCommands.  An instance runs one of  *)
(* them; "part" says which.                                                    *)
EXTENDS OrderCommands

CONSTANTS
    AdvancedOrders,   \* orders that clients name to the advanced handler
    Requests

VARIABLES part, store, requests

\* The clients of the advanced handler create the orders they name.
Advanced == INSTANCE AdvancedOrderCommands
                WITH Orders <- AdvancedOrders, Ghosts <- {}

\* The requests of the advanced handler matter only where it runs.
SameRequests ==
    \A r \in Requests : /\ requests[r].order = CHOOSE o \in AdvancedOrders : TRUE
                        /\ requests[r].event = Created

BothInit ==
    /\ part \in {"simple", "advanced"}
    /\ Init
    /\ Advanced!Init
    /\ part = "simple" => SameRequests

BothNext ==
    /\ UNCHANGED part
    /\ \/ part = "simple" /\ Next /\ UNCHANGED <<store, requests>>
       \/ part = "advanced" /\ Advanced!Next /\ UNCHANGED vars

BothSpec == BothInit /\ [][BothNext]_<<part, vars, store, requests>>

--------------------------------------------------------------------------------
\* The advanced handler's answers tell what its table holds, and its variables have
\* their types.
AdvancedAnswersTellTheStore == Advanced!TypeOK /\ Advanced!AnswersTellTheStore

\* The advanced handler implements the append-only log, too.
AdvancedImplementsOrderLog == Advanced!ImplementsOrderLog
================================================================================

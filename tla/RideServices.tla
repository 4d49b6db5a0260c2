------------------------------ MODULE RideServices -----------------------------
(* The two designs of the ride service side by side: RideService, and the      *)
(* simple services of RideDispatch, whose rides are here called orders.  An    *)
(* instance runs one of them; "part" says which.                               *)
EXTENDS RideService

CONSTANTS
    Orders,      \* the Rides of RideDispatch, which says what the others are
    Drivers,
    FirstPage,
    Workers,
    BatchSize,
    MaxRepeats,
    MaxFaults

VARIABLES
    part,
    orders, sent, delivered, drivers, lagging, workers, announced, unheard, payments,
    faults, repeats, overlap, misled

Dispatch == INSTANCE RideDispatch WITH Rides <- Orders, rides <- orders

\* A ride is no driver's currentRideId before the driver has one.
ASSUME DispatchAssumption ==
    /\ BatchSize \in Nat /\ MaxFaults \in Nat /\ MaxRepeats \in Nat
    /\ Dispatch!Available \notin Orders
    /\ FirstPage \subseteq Drivers

simple == <<orders, sent, delivered, drivers, lagging, workers, announced, unheard,
            payments, faults, repeats, overlap, misled>>

\* The containers of the advanced service matter only where it runs.
BothInit ==
    /\ part \in {"advanced", "simple"}
    /\ Init
    /\ part = "simple" => \A r \in Requests : requests[r].on = CHOOSE c \in Containers : TRUE
    /\ Dispatch!Init

BothNext ==
    /\ UNCHANGED part
    /\ \/ part = "advanced" /\ Next /\ UNCHANGED simple
       \/ part = "simple" /\ Dispatch!Next /\ UNCHANGED vars

BothSpec == BothInit /\ [][BothNext]_<<part, vars, simple>>

\* The fairness of the advanced service; the simple ones promise nothing that fairness
\* would have to bring about.
FairBoth ==
    /\ BothSpec
    /\ \A r \in Requests : WF_vars(requests[r].pc # "new" /\ Handle(r))

--------------------------------------------------------------------------------
\* Drivers, rides and charges of the simple services agree (and have their types).
DispatchIsSound == Dispatch!TypeOK /\ Dispatch!DispatchIsSound
================================================================================

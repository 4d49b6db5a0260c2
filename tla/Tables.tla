--------------------------------- MODULE Tables --------------------------------
(* Programs of several clients, each over DynamoDB tables of its own: Banking, *)
(* Inventory and DataAccess.  An instance runs one of them; "part" says which. *)
EXTENDS Banking

CONSTANTS
    Keys, Stock, Threshold, Uses,                                       \* Inventory
    InvoiceKeys, Statuses, PageLimit, MaxWrites                         \* DataAccess

VARIABLES
    part,
    use, log, rows, cmds, alerts, lost,                               \* Inventory
    invoices, older, used, writes, listing                            \* DataAccess

Inv == INSTANCE Inventory
Data == INSTANCE DataAccess

\* No handler checks that an amount is not negative: clients send none that is, and
\* the accounts they find were never overdrawn.
ASSUME AmountsAssumption ==
    /\ \A cs \in Workloads : \A c \in cs : c.amount \in Nat
    /\ \A a \in Accounts : \A v \in DOMAIN Opening[a] :
           Opening[a][v].amount \in Nat /\ Balance(View(Opening[a], v)) >= 0

\* Nor does the inventory check a quantity; what it sells was there at first.
ASSUME UsesAssumption ==
    /\ \A u \in Uses :
           /\ IsFiniteSet(u.commands)
           /\ \A c \in u.commands :
                  c.kind \in {"reserve", "release", "sale"} /\ c.key \in Keys /\ c.quantity \in Nat
           /\ u.concurrent \in Nat /\ u.lag \in Nat /\ u.lost \in Nat
    /\ Stock \in [Keys -> Seq([available : Int, reserved : Int])]
    /\ \A k \in Keys : Stock[k] # << >> => Stock[k][Len(Stock[k])].available >= 0
    /\ Threshold \in Int

\* The sort keys of invoices are numbered as queries return them, from 1.
ASSUME DataAssumption ==
    /\ InvoiceKeys \subseteq Nat \ {0} /\ IsFiniteSet(InvoiceKeys)
    /\ "pending" \in Statuses
    /\ PageLimit \in Nat /\ MaxWrites \in Nat

InventoryVars == <<use, log, rows, cmds, alerts, lost>>
DataVars == <<invoices, older, used, writes, listing>>

\* A part that does not run has one initial state.
AllInit ==
    /\ part \in {"banking", "inventory", "data"}
    /\ Init
    /\ part # "banking" => Commands = CHOOSE cs \in Workloads : TRUE
    /\ Inv!Init
    /\ part # "inventory" => use = CHOOSE u \in Uses : TRUE
    /\ Data!Init
    /\ part # "data" => listing.status = CHOOSE s \in Statuses : TRUE

AllNext ==
    /\ UNCHANGED part
    /\ \/ /\ part = "banking" /\ Next
          /\ UNCHANGED InventoryVars /\ UNCHANGED DataVars
       \/ /\ part = "inventory" /\ Inv!Next
          /\ UNCHANGED vars /\ UNCHANGED DataVars
       \/ /\ part = "data" /\ Data!Next
          /\ UNCHANGED vars /\ UNCHANGED InventoryVars

AllSpec == AllInit /\ [][AllNext]_<<part, vars, InventoryVars, DataVars>>

--------------------------------------------------------------------------------
\* The variables of the three programs have their types.
TypesOK == TypeOK /\ Inv!TypeOK /\ Data!TypeOK

\* Stock is never made from nothing, and no concurrent update of it is lost.
StockAddsUp == Inv!StockAddsUp

\* Commands on the inventory that come in turn keep what its README promises.
InTurnPromisesKept == Inv!InTurnPromisesKept

\* Following the pages of list_org_invoices lists every steady invoice once.
ListingIsComplete == Data!ListingIsComplete
================================================================================

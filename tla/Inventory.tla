------------------------------- MODULE Inventory -------------------------------
(* The commands of 02-cqrs-saga/problem-3/inventory_system.py over the table *)
(* inventory-events and the read model stock-levels, which the command       *)
(* handlers update themselves.  A command is a process; each step is one     *)
(* call to a table or to SNS, commands run concurrently, a replica may lag   *)
(* behind, and a process may die between two calls.                          *)
EXTENDS VersionedItems, Integers, Sequences, SequencesExt, FiniteSetsExt

CONSTANTS
    Keys,           \* pairs of a product and a warehouse
    Stock,          \* key |-> the rows its stock level went through so far, or << >>
    Threshold,      \* LOW_STOCK_THRESHOLD
    Uses            \* how the system may be used: [commands, concurrent, lag, lost],
                    \* the commands sent, [id, kind, key, quantity], and bounds on
                    \* how many run at the same time, by how many writes a read
                    \* is behind, and how many responses of update_item are lost

VARIABLES
    use,    \* the use at hand, chosen at the start
    log,    \* key |-> (version |-> event): the table inventory-events
    rows,   \* key |-> every row its stock level had, the current one last
    cmds,   \* command |-> its progress and what it has read
    alerts, \* the alerts published: <<key, stock level reported>>
    lost    \* responses lost so far

vars == <<use, log, rows, cmds, alerts, lost>>

Commands == use.commands
PCs == {"new", "version", "put", "update", "alert", "done", "refused", "failed"}
Running(c) == cmds[c].pc \in {"version", "put", "update", "alert"}

\* The versions of a key have no gap: each put uses a version read plus 1.
NoGaps(versions) == \A v \in versions : v >= 1 /\ (v > 1 => v - 1 \in versions)

TypeOK ==
    /\ \A k \in Keys : NoGaps(DOMAIN log[k])
    /\ \A k \in Keys : \A i \in DOMAIN rows[k] :
           rows[k][i] \in [available : Int, reserved : Int]
    /\ cmds \in [Commands -> [pc : PCs, seen : Int, base : Nat]]
    /\ alerts \subseteq Keys \X Int
    /\ lost \in 0 .. use.lost

Init ==
    /\ use \in Uses
    /\ log = [k \in Keys |-> << >>]
    /\ rows = Stock
    /\ cmds = [c \in Commands |-> [pc |-> "new", seen |-> 0, base |-> 0]]
    /\ alerts = {}
    /\ lost = 0

--------------------------------------------------------------------------------
Goto(c, pc) == cmds' = [cmds EXCEPT ![c].pc = pc]

\* A command begins when the bound on concurrent commands allows it.
MayBegin(c) ==
    /\ cmds[c].pc = "new"
    /\ Cardinality({d \in Commands : Running(d)}) < use.concurrent

\* The level a read lagging behind by lag writes returns; 0 without a row.
StockLevel(k, lag) ==
    IF rows[k] = << >> THEN 0
    ELSE rows[k][Max({1, Len(rows[k]) - lag})].available

\* Fault: the stock is not checked.
ReserveUnchecked(c, lag) ==
    /\ c.kind = "reserve"
    /\ MayBegin(c)
    /\ cmds' = [cmds EXCEPT ![c] =
           [@ EXCEPT !.pc = "version", !.seen = StockLevel(c.key, lag)]]
    /\ UNCHANGED <<log, rows, alerts, lost>>

\* reserve_stock: the stock is checked on the level read; too little is refused.
CheckStock(c, lag) ==
    /\ c.kind = "reserve"
    /\ MayBegin(c)
    /\ LET current == StockLevel(c.key, lag) IN
       cmds' = [cmds EXCEPT ![c] =
           IF current < c.quantity THEN [@ EXCEPT !.pc = "refused"]
           ELSE [@ EXCEPT !.pc = "version", !.seen = current]]
    /\ UNCHANGED <<log, rows, alerts, lost>>

\* Fault: the version after the last one is taken for the last.
GetNextVersion(c, lag) ==
    /\ IF c.kind = "reserve" THEN cmds[c].pc = "version" ELSE MayBegin(c)
    /\ LET latest == CurrentVersion(log[c.key]) IN
       cmds' = [cmds EXCEPT ![c] = [@ EXCEPT !.pc = "put",
                    !.base = CurrentVersion(View(log[c.key], latest - lag)) + 1]]
    /\ UNCHANGED <<log, rows, alerts, lost>>

\* get_version, the first call of a release and of a sale.
GetVersion(c, lag) ==
    /\ IF c.kind = "reserve" THEN cmds[c].pc = "version" ELSE MayBegin(c)
    /\ LET latest == CurrentVersion(log[c.key]) IN
       cmds' = [cmds EXCEPT ![c] = [@ EXCEPT !.pc = "put",
                    !.base = CurrentVersion(View(log[c.key], latest - lag))]]
    /\ UNCHANGED <<log, rows, alerts, lost>>

\* put_item without a condition.
PutEvent(c) ==
    /\ cmds[c].pc = "put"
    /\ log' = [log EXCEPT ![c.key] = WithItem(@, cmds[c].base + 1, c)]
    /\ Goto(c, "update")
    /\ UNCHANGED <<rows, alerts, lost>>

\* What the UpdateExpression of a command adds to each attribute.
AvailableDelta(c) ==
    CASE c.kind = "reserve" -> - c.quantity
      [] c.kind = "release" -> c.quantity
      [] c.kind = "sale" -> 0

ReservedDelta(c) == IF c.kind = "reserve" THEN c.quantity ELSE - c.quantity

\* Fault: a reservation stores the level it computed from what it read.
UpdatedFromRead(row, c) ==
    [available |-> (IF c.kind = "reserve" THEN cmds[c].seen ELSE row.available)
                   + AvailableDelta(c),
     reserved |-> row.reserved + ReservedDelta(c)]

\* The arithmetic is done by the table on the row itself.
Updated(row, c) == [available |-> row.available + AvailableDelta(c),
                    reserved |-> row.reserved + ReservedDelta(c)]

IsLow(level) == level <= Threshold

NewStock(c) == cmds[c].seen - c.quantity

\* update_item on an existing row.  A reservation compares the level it
\* computed from its read, not the one stored, with the threshold.
UpdateView(c) ==
    /\ cmds[c].pc = "update"
    /\ rows[c.key] # << >>
    /\ rows' = [rows EXCEPT ![c.key] = Append(@, Updated(Last(@), c))]
    /\ Goto(c, IF c.kind = "reserve" /\ IsLow(NewStock(c)) THEN "alert" ELSE "done")
    /\ UNCHANGED <<log, alerts, lost>>

\* The same, but the response is lost and the SDK sends the update once more.
UpdateUnacknowledged(c) ==
    /\ cmds[c].pc = "update"
    /\ rows[c.key] # << >>
    /\ lost < use.lost
    /\ rows' = [rows EXCEPT ![c.key] = Append(@, Updated(Last(@), c))]
    /\ lost' = lost + 1
    /\ UNCHANGED <<log, cmds, alerts>>

\* The attributes of a missing row are undefined: ValidationException.
UpdateFails(c) ==
    /\ cmds[c].pc = "update"
    /\ rows[c.key] = << >>
    /\ Goto(c, "failed")
    /\ UNCHANGED <<log, rows, alerts, lost>>

SendLowStockAlert(c) ==
    /\ cmds[c].pc = "alert"
    /\ alerts' = alerts \cup {<<c.key, NewStock(c)>>}
    /\ Goto(c, "done")
    /\ UNCHANGED <<log, rows, lost>>

\* The process dies or a call fails.
Die(c) ==
    /\ Running(c)
    /\ Goto(c, "failed")
    /\ UNCHANGED <<log, rows, alerts, lost>>

Next ==
    /\ UNCHANGED use
    /\ \E c \in Commands :
        \/ \E lag \in 0 .. use.lag : CheckStock(c, lag) \/ GetVersion(c, lag)
        \/ PutEvent(c)
        \/ UpdateView(c)
        \/ UpdateUnacknowledged(c)
        \/ UpdateFails(c)
        \/ SendLowStockAlert(c)
        \/ Die(c)

Spec == Init /\ [][Next]_vars

--------------------------------------------------------------------------------
HasRow == {k \in Keys : rows[k] # << >>}
Level(k) == Last(rows[k])

\* Available and reserved stock together never exceed what a key started with,
\* whatever is reserved, released, re-sent or given up in the middle.
NoStockFromNothing ==
    \A k \in HasRow :
        Level(k).available + Level(k).reserved
            <= Last(Stock[k]).available + Last(Stock[k]).reserved

\* No update is lost among concurrent commands: as long as every response
\* arrives, the available stock is the stock at the start less what was reserved
\* plus what was released.
Moved(k, kind, cs) ==
    MapThenSumSet(LAMBDA c : c.quantity, {c \in cs : c.key = k /\ c.kind = kind})
AvailableAfter(k, cs) ==
    Last(Stock[k]).available - Moved(k, "reserve", cs) + Moved(k, "release", cs)
Through == {c \in Commands : cmds[c].pc \in {"alert", "done"}}
UpdatesAddUp ==
    (lost = 0 /\ \A c \in Commands : cmds[c].pc # "failed") =>
        \A k \in HasRow : Level(k).available = AvailableAfter(k, Through)

\* "Prevent overselling": no more is reserved than there is.
NeverOversold == \A k \in HasRow : Level(k).available >= 0

\* Commands run one after the other on reads that are up to date.
InTurn == use.concurrent = 1 /\ use.lag = 0 /\ use.lost = 0

\* The check of reserve_stock prevents overselling when commands run in turn,
\* even if some of them die.
InTurnNeverOversold == InTurn => NeverOversold

\* In turn, the event of every command that completed is in the log ("Audit
\* trail"), although events are put without a condition.
InTurnAuditTrail ==
    InTurn => \A c \in Commands : cmds[c].pc = "done" =>
        \E v \in DOMAIN log[c.key] : log[c.key][v] = c

\* In turn, the view is what the events of the log make of the stock: only events of
\* commands that failed half way may be missing from it.
InTurnViewFollowsLog ==
    InTurn => \A k \in HasRow :
        \E failed \in SUBSET {c \in Range(log[k]) : cmds[c].pc = "failed"} :
            Level(k).available = AvailableAfter(k, Through \cup failed)

\* In turn, a key that reservations brought down to the threshold has been
\* reported once every command has completed ("Stock alerts").
InTurnLowStockAlerted ==
    InTurn /\ (\A c \in Commands : cmds[c].pc \in {"done", "refused"}) =>
        \A k \in HasRow :
            Level(k).available <= Threshold /\ Last(Stock[k]).available > Threshold
            => \E a \in alerts : a[1] = k

\* At once and with every disturbance: no stock from nothing, and no update lost.
StockAddsUp == NoStockFromNothing /\ UpdatesAddUp

\* In turn the documented promises hold: no overselling, an audit trail that explains
\* the view, alerts.
InTurnPromisesKept ==
    InTurnNeverOversold /\ InTurnAuditTrail /\ InTurnViewFollowsLog /\ InTurnLowStockAlerted
================================================================================

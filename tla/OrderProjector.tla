----------------------------- MODULE OrderProjector ----------------------------
(* The read side of the order system over the log that OrderLog promises:    *)
(* the DynamoDB stream of the event table (solution.tf) feeds batches of     *)
(* records to 02-cqrs-saga/problem-1/projector.py, which keeps the orders    *)
(* and inventory read models.  Every call to a table is a step; a get_item   *)
(* may return a row that has been replaced since; an invocation may die      *)
(* between two calls, and a failed batch is delivered again from the last    *)
(* checkpoint.  One invocation runs per shard and the events of an order     *)
(* share a shard, so there is one stream and one reader.                     *)
EXTENDS OrderEvents, Sequences, SequencesExt, Integers

CONSTANTS
    BatchSize,   \* most records in a batch (batch_size)
    MaxEvents,   \* bound on the records of the stream
    Malformed,   \* products whose items have a quantity or a price that the
                 \* projector cannot calculate with
    MaxFaults,   \* bound on crashes, lost responses and rows not found yet
    MaxCount     \* bound on the items of a row and on a reserved quantity: a
                 \* batch that fails for ever repeats its effects without end

VARIABLES
    log,        \* order |-> its events, written by the command side
    stream,     \* the stream records, in order: the new images of stored events
    pos,        \* number of records checkpointed by the event source mapping
    upto,       \* the last record of the batch in delivery, or pos
    run,        \* the projector invocation in flight, or NoRun
    orders,     \* order |-> its row in the orders read model, or Missing
    reserved,   \* product |-> its 'reserved' in the inventory read model
    past,       \* order |-> its rows before, which a get_item may still return
    misread,    \* the orders of which a get_item did
    faults      \* number of faults so far

ASSUME BoundsAssumption ==
    /\ BatchSize \in Nat /\ MaxEvents \in Nat /\ MaxFaults \in Nat /\ MaxCount \in Nat
    /\ Malformed \subseteq Products

table == <<orders, past>>
readModel == <<table, reserved, misread>>
vars == <<log, stream, pos, upto, run, readModel, faults>>

Missing == [status |-> "missing", items |-> << >>]
NoRun == [step |-> "none"]

\* The writes of the command side.
Commands == INSTANCE OrderLog

Records == [order : Orders, version : Nat \ {0}, event : Events]
Rows == [status : {"draft", "confirmed", "cancelled"}, items : Seq(Products)]
Runs == {NoRun}
        \cup [step : {"record", "reserve"}, at : Nat]
        \cup [step : {"write"}, at : Nat, row : Rows]
        \cup [step : {"release"}, at : Nat, items : Seq(Products)]

TypeOK ==
    /\ Commands!TypeOK
    /\ stream \in Seq(Records)
    /\ pos \in 0 .. Len(stream)
    /\ upto \in pos .. Len(stream)
    /\ run \in Runs
    /\ orders \in [Orders -> Rows \cup {Missing}]
    /\ reserved \in [Products -> Int]
    /\ past \in [Orders -> SUBSET (Rows \cup {Missing})]
    /\ misread \subseteq Orders
    /\ faults \in 0 .. MaxFaults

Init ==
    /\ Commands!Init
    /\ stream = << >>
    /\ pos = 0
    /\ upto = 0
    /\ run = NoRun
    /\ orders = [o \in Orders |-> Missing]
    /\ reserved = [p \in Products |-> 0]
    /\ past = [o \in Orders |-> {}]
    /\ misread = {}
    /\ faults = 0

--------------------------------------------------------------------------------
\* An event is stored, and the stream gets its NEW_IMAGE.
StoreEvent ==
    /\ Len(stream) < MaxEvents
    /\ Commands!Next
    /\ LET o == CHOOSE q \in Orders : log'[q] # log[q] IN
       stream' = Append(stream, [order |-> o, version |-> Len(log'[o]), event |-> Last(log'[o])])
    /\ UNCHANGED <<pos, upto, run, readModel, faults>>

\* The event source mapping invokes handler with records after the checkpoint;
\* how many it puts in one batch depends on timing.
StartBatch(n) ==
    /\ run = NoRun
    /\ upto = pos
    /\ pos + n <= Len(stream)
    /\ upto' = pos + n
    /\ run' = [step |-> "record", at |-> pos + 1]
    /\ UNCHANGED <<log, stream, pos, readModel, faults>>

\* After a failure it delivers the same batch again, from its first record.
RedeliverBatch ==
    /\ run = NoRun
    /\ upto > pos
    /\ run' = [step |-> "record", at |-> pos + 1]
    /\ UNCHANGED <<log, stream, pos, upto, readModel, faults>>

\* handler returns: the batch is checkpointed.
FinishBatch ==
    /\ run.step = "record"
    /\ run.at > upto
    /\ pos' = upto
    /\ run' = NoRun
    /\ UNCHANGED <<log, stream, upto, readModel, faults>>

--------------------------------------------------------------------------------
AtRecord(e) ==
    /\ run.step = "record"
    /\ run.at <= upto
    /\ stream[run.at].event = e

\* The order of the record being projected.
Order == stream[run.at].order

NextRecord == run' = [step |-> "record", at |-> run.at + 1]

SetRow(o, row) ==
    /\ orders' = [orders EXCEPT ![o] = row]
    /\ past' = [past EXCEPT ![o] = @ \cup {orders[o]}]

\* get_item without ConsistentRead: the row, or one that it replaced.
Seen(o) == ({orders[o]} \cup past[o]) \ {Missing}

GetItem(o, row) ==
    /\ row \in Seen(o)
    /\ misread' = IF row = orders[o] THEN misread ELSE misread \cup {o}

\* project_order_created: put_item replaces whatever row there is.
ProjectOrderCreated ==
    /\ AtRecord(Created)
    /\ SetRow(Order, [status |-> "draft", items |-> << >>])
    /\ NextRecord
    /\ UNCHANGED <<log, stream, pos, upto, reserved, misread, faults>>

\* project_item_added, the get_item.
ProjectItemAdded(p) ==
    /\ AtRecord(ItemAdded(p)) /\ p \notin Malformed
    /\ \E row \in Seen(Order) :
           /\ GetItem(Order, row)
           /\ run' = [step |-> "write", at |-> run.at, row |-> row]
    /\ UNCHANGED <<log, stream, pos, upto, table, reserved, faults>>

\* Fault: the row is written back as a draft.
PutRowAsDraft ==
    /\ run.step = "write"
    /\ Len(run.row.items) < MaxCount
    /\ SetRow(Order, [status |-> "draft",
                      items |-> Append(run.row.items, stream[run.at].event.product)])
    /\ run' = [step |-> "reserve", at |-> run.at]
    /\ UNCHANGED <<log, stream, pos, upto, reserved, misread, faults>>

\* project_item_added, the put_item: the row that was read, extended.
PutRow ==
    /\ run.step = "write"
    /\ Len(run.row.items) < MaxCount
    /\ SetRow(Order, [run.row EXCEPT !.items = Append(@, stream[run.at].event.product)])
    /\ run' = [step |-> "reserve", at |-> run.at]
    /\ UNCHANGED <<log, stream, pos, upto, reserved, misread, faults>>

AddReserved(p, n) ==
    /\ reserved[p] + n \in -MaxCount .. MaxCount
    /\ reserved' = [reserved EXCEPT ![p] = @ + n]

\* project_item_added, the last call: ADD reserved :qty.
ReserveItem ==
    /\ run.step = "reserve"
    /\ AddReserved(stream[run.at].event.product, 1)
    /\ NextRecord
    /\ UNCHANGED <<log, stream, pos, upto, table, misread, faults>>

\* project_order_confirmed: update_item of the status.
ProjectOrderConfirmed ==
    /\ AtRecord(Confirmed)
    /\ SetRow(Order, [orders[Order] EXCEPT !.status = "confirmed"])
    /\ NextRecord
    /\ UNCHANGED <<log, stream, pos, upto, reserved, misread, faults>>


\* project_order_cancelled: read the row to release its items one by one.
ProjectOrderCancelled ==
    /\ AtRecord(Cancelled)
    /\ \E row \in Seen(Order) :
           /\ GetItem(Order, row)
           /\ run' = [step |-> "release", at |-> run.at, items |-> row.items]
    /\ UNCHANGED <<log, stream, pos, upto, table, reserved, faults>>

\* Fault: the quantity is not negated.
ReleaseItemUnsigned ==
    /\ run.step = "release"
    /\ run.items # << >>
    /\ AddReserved(Head(run.items), 1)
    /\ run' = [run EXCEPT !.items = Tail(@)]
    /\ UNCHANGED <<log, stream, pos, upto, table, misread, faults>>

ReleaseItem ==
    /\ run.step = "release"
    /\ run.items # << >>
    /\ AddReserved(Head(run.items), -1)
    /\ run' = [run EXCEPT !.items = Tail(@)]
    /\ UNCHANGED <<log, stream, pos, upto, table, misread, faults>>

\* Fault: a misspelt status.
MarkCanceled ==
    /\ run.step = "release"
    /\ run.items = << >>
    /\ SetRow(Order, [orders[Order] EXCEPT !.status = "canceled"])
    /\ NextRecord
    /\ UNCHANGED <<log, stream, pos, upto, reserved, misread, faults>>

\* project_order_cancelled, the last call: update_item of the status.
MarkCancelled ==
    /\ run.step = "release"
    /\ run.items = << >>
    /\ SetRow(Order, [orders[Order] EXCEPT !.status = "cancelled"])
    /\ NextRecord
    /\ UNCHANGED <<log, stream, pos, upto, reserved, misread, faults>>

\* Events whose handler reads the row first.
ReadsRow == \E e \in Events \ {Created, Confirmed} : AtRecord(e)

\* response['Item'] raises KeyError for a row that does not exist: the
\* invocation fails and the batch will be delivered again.
MissingRow ==
    /\ ReadsRow
    /\ orders[Order] = Missing
    /\ run' = NoRun
    /\ UNCHANGED <<log, stream, pos, upto, readModel, faults>>

\* The total raises TypeError, or put_item refuses it: again, every time.
MalformedItem ==
    /\ \E p \in Malformed : AtRecord(ItemAdded(p))
    /\ run' = NoRun
    /\ UNCHANGED <<log, stream, pos, upto, readModel, faults>>

--------------------------------------------------------------------------------
Fault == faults < MaxFaults /\ faults' = faults + 1

\* A call fails, or the invocation times out: nothing is undone, the batch is
\* delivered again from the checkpoint.
Die ==
    /\ Fault
    /\ run # NoRun
    /\ run' = NoRun
    /\ UNCHANGED <<log, stream, pos, upto, readModel>>

\* get_item does not find a row that was put some time ago: KeyError once more.
RowNotFoundYet ==
    /\ Fault
    /\ ReadsRow
    /\ orders[Order] # Missing /\ Missing \in past[Order]
    /\ run' = NoRun
    /\ UNCHANGED <<log, stream, pos, upto, readModel>>

\* ADD is applied but its response is lost: the SDK sends the update again.
ReserveUnacknowledged ==
    /\ Fault
    /\ run.step = "reserve"
    /\ AddReserved(stream[run.at].event.product, 1)
    /\ UNCHANGED <<log, stream, pos, upto, run, table, misread>>

Project ==
    \/ \E n \in 1 .. BatchSize : StartBatch(n)
    \/ RedeliverBatch
    \/ FinishBatch
    \/ ProjectOrderCreated
    \/ \E p \in Products : ProjectItemAdded(p)
    \/ PutRow
    \/ ReserveItem
    \/ ProjectOrderConfirmed
    \/ ProjectOrderCancelled
    \/ ReleaseItem
    \/ MarkCancelled
    \/ MissingRow
    \/ MalformedItem

Next == StoreEvent \/ Project \/ Die \/ RowNotFoundYet \/ ReserveUnacknowledged

Spec == Init /\ [][Next]_vars

\* The event source mapping keeps polling and Lambda keeps running handler;
\* nothing makes a client send a command or a fault happen.
FairSpec == Spec /\ WF_vars(Project)

--------------------------------------------------------------------------------
\* The history of an order as far as the first n records of the stream.
Shown(o, n) == {stream[i].version : i \in {j \in 1 .. n : stream[j].order = o}}
Projected(o, n) == [v \in Shown(o, n) |-> log[o][v]]

\* The status that a row should show after them.
StatusAt(o, n) == IF Shown(o, n) = {} THEN "missing" ELSE Status(Projected(o, n))

Count(items, p) == Cardinality({i \in DOMAIN items : items[i] = p})

AddedIn(history, p) ==
    Cardinality({v \in DOMAIN history : history[v] = ItemAdded(p)})

BatchDone == run.step = "record" /\ run.at > upto

\* Whenever handler is about to return, the row of every order that was always read
\* as it was shows the status of the order's history up to the end of the batch,
\* although the batch may have been delivered several times, from several checkpoints,
\* and cut short anywhere.  Any other row shows a status that the order had.
StatusConverges ==
    BatchDone =>
        \A o \in Orders :
            /\ o \notin misread => orders[o].status = StatusAt(o, upto)
            /\ \E n \in 0 .. upto : orders[o].status = StatusAt(o, n)

\* No delivery loses an item: a row has at least the items of the history, unless it
\* was written from an older row; and it has no others, whatever was read, if no fault
\* made a record be projected twice.
ItemsMatchLog ==
    BatchDone => \A o \in Orders, p \in Products :
        LET kept  == Count(orders[o].items, p)
            added == AddedIn(Projected(o, upto), p)
        IN  (o \notin misread => kept >= added) /\ (faults = 0 => kept <= added)

\* A product is never reserved less than the items added, as long as no
\* cancellation was stored: redelivery errs on the side of reserving too much.
NeverUnderReserved ==
    BatchDone /\ (\A i \in DOMAIN stream : stream[i].event # Cancelled) =>
        \A p \in Products :
            reserved[p] >= Cardinality({i \in 1 .. upto :
                                          stream[i].event = ItemAdded(p)})

\* update_item would create a partial row for a confirmation without a row;
\* that never happens, because the write side confirms only orders with items
\* and an item of an order without a row stops the projector before.
ConfirmationFindsRow == AtRecord(Confirmed) => orders[Order] # Missing

\* Every stored event is eventually projected and checkpointed: the read model
\* catches up with the event store (README of problem 1: eventual consistency).
EventuallyConsistent ==
    \A i \in 1 .. MaxEvents : Len(stream) >= i ~> pos >= i


\* An order whose events stop at its first cancellation, if it has one.
EndsAtCancel(history) ==
    \A v \in DOMAIN history : history[v] = Cancelled => v = Len(history)

\* Without faults the inventory has every item of an order that was not cancelled,
\* provided nothing is stored for an order after its cancellation (the write side
\* accepts items and further cancellations, and the projector then reserves and
\* releases again).  It has no others unless a row was read that had been replaced:
\* a cancellation then releases fewer items than were reserved, never more.
ReservedMatchesLog ==
    BatchDone /\ faults = 0 /\ (\A o \in Orders : EndsAtCancel(log[o])) =>
        \A p \in Products :
            LET kept == Cardinality({i \in 1 .. upto :
                            /\ stream[i].event = ItemAdded(p)
                            /\ StatusAt(stream[i].order, upto) # "cancelled"})
            IN  reserved[p] >= kept /\ (misread = {} => reserved[p] = kept)

\* Between batches the rows are what the event store says, as far as they were not
\* written from older ones, and every confirmation on the way there finds its row.
RowsMatchLog == StatusConverges /\ ItemsMatchLog /\ ConfirmationFindsRow

\* What is reserved is at least what the event store says, and exactly that without
\* a fault or a row that was read late.
ReservationsMatchLog == NeverUnderReserved /\ ReservedMatchesLog

================================================================================

----------------------------- MODULE OrderCommands -----------------------------
(* The write side of the order system: concurrent Lambda invocations of      *)
(* 02-cqrs-saga/problem-1/command_handler.py over one DynamoDB event table   *)
(* (hash key aggregateId, range key version, see solution.tf).  An           *)
(* invocation reads, decides, and stores its event with a conditional put;   *)
(* between these calls every other invocation may run, and the invocation    *)
(* itself may die.                                                           *)
(*                                                                           *)
(* The queries are eventually consistent (ConsistentRead is not set), so a   *)
(* read sees any prefix of the versions stored.  rebuild_state reads one     *)
(* page and ignores LastEvaluatedKey: it sees at most PageLimit events.      *)
(* The AWS SDK re-sends a put whose response was lost.                       *)
EXTENDS OrderEvents, Sequences, FiniteSets

CONSTANTS
    Workers,     \* invocations that can be in flight together
    PageLimit,   \* events in one page of a query
    MaxEvents    \* bound: commands are only sent while fewer events are stored

ASSUME PageLimitAssumption == PageLimit \in Nat \ {0}

VARIABLES
    table,   \* order |-> (version |-> event): the items of the event table
    inv      \* worker |-> the invocation it runs

vars == <<table, inv>>

Idle == [pc |-> "idle"]
Loading(o, e) == [pc |-> "load", order |-> o, event |-> e]
Storing(o, e, b) == [pc |-> "put", order |-> o, event |-> e, base |-> b]

Invocations ==
    {Idle}
    \cup [pc : {"load"}, order : Orders, event : Events]
    \cup [pc : {"put"}, order : Orders, event : Events, base : Nat]

\* Every history is a sequence: versions 1, 2, ... without a gap, because each
\* version stored is one more than a version that was read.
NoGaps(versions) == \A v \in versions : v > 1 => v - 1 \in versions

TypeOK ==
    /\ \A o \in Orders : NoGaps(DOMAIN table[o])
    /\ table \in [Orders -> Seq(Events)]
    /\ inv \in [Workers -> Invocations]

Init ==
    /\ table = [o \in Orders |-> << >>]
    /\ inv = [w \in Workers |-> Idle]

--------------------------------------------------------------------------------
StoredEvents == UNION {{o} \X DOMAIN table[o] : o \in Orders}

\* A client can name an order whose OrderCreated is stored, or make one up.
Named(o) == o \in Ghosts \/ DOMAIN table[o] # {}

Accepts(w) == inv[w] = Idle /\ Cardinality(StoredEvents) < MaxEvents

\* Fault: the client chooses the identifier and the version is looked up.
CreateOrderByClientId(w, o) ==
    /\ Accepts(w)
    /\ o \notin Ghosts
    /\ inv' = [inv EXCEPT ![w] = Storing(o, Created, CurrentVersion(table[o]))]
    /\ UNCHANGED table

\* handle_create_order: a fresh identifier, the version is taken to be 0.
CreateOrder(w, o) ==
    /\ Accepts(w)
    /\ o \notin Ghosts
    /\ DOMAIN table[o] = {}
    /\ \A u \in Workers : inv[u] # Idle => inv[u].order # o
    /\ inv' = [inv EXCEPT ![w] = Storing(o, Created, 0)]
    /\ UNCHANGED table

\* handler: any other command starts by reading the order's events.
Dispatch(w, o, e) ==
    /\ Accepts(w)
    /\ Named(o)
    /\ e # Created
    /\ inv' = [inv EXCEPT ![w] = Loading(o, e)]
    /\ UNCHANGED table

\* handle_add_item and handle_cancel_order: get_current_version and nothing
\* else; k is how much of the history the replica that answers has seen.
LoadVersion(w, k) ==
    /\ inv[w].pc = "load"
    /\ inv[w].event # Confirmed
    /\ LET o == inv[w].order IN
       inv' = [inv EXCEPT ![w] =
                  Storing(o, inv[w].event, CurrentVersion(View(table[o], k)))]
    /\ UNCHANGED table

\* What rebuild_state works on: the first page of what the replica has seen.
Rebuilt(o, k) == View(View(table[o], k), PageLimit)

\* handle_confirm_order up to the put: the rebuilt state passes both checks.
LoadConfirmable(w, k) ==
    /\ inv[w].pc = "load"
    /\ inv[w].event = Confirmed
    /\ LET o == inv[w].order IN
       /\ Confirmable(Rebuilt(o, k))
       /\ inv' = [inv EXCEPT ![w] =
                     Storing(o, Confirmed, CurrentVersion(Rebuilt(o, k)))]
    /\ UNCHANGED table

\* handle_confirm_order answers 400: not a draft, or no items.
RefuseConfirm(w, k) ==
    /\ inv[w].pc = "load"
    /\ inv[w].event = Confirmed
    /\ ~ Confirmable(Rebuilt(inv[w].order, k))
    /\ inv' = [inv EXCEPT ![w] = Idle]
    /\ UNCHANGED table

--------------------------------------------------------------------------------
\* Fault: the ConditionExpression is dropped.
KeyUnchecked(o, v) == TRUE

\* put_item's condition: no item has this key.
KeyIsFree(o, v) == v \notin DOMAIN table[o]

PutItem(o, v, e) == table' = [table EXCEPT ![o] = WithItem(@, v, e)]

\* Fault: the version is read again just before the put.
StoreEventAtLatest(w) ==
    /\ inv[w].pc = "put"
    /\ PutItem(inv[w].order, CurrentVersion(table[inv[w].order]) + 1, inv[w].event)

StoreEvent(w) ==
    /\ inv[w].pc = "put"
    /\ KeyIsFree(inv[w].order, inv[w].base + 1)
    /\ PutItem(inv[w].order, inv[w].base + 1, inv[w].event)

\* The put succeeds and the caller is answered 200 or 201.
Store(w) ==
    /\ StoreEvent(w)
    /\ inv' = [inv EXCEPT ![w] = Idle]

\* The put succeeds but its response is lost: the SDK will send it again.
StoreUnacknowledged(w) ==
    /\ StoreEvent(w)
    /\ UNCHANGED inv

\* ConditionalCheckFailedException: 409, also for the re-sent put above.
Conflict(w) ==
    /\ inv[w].pc = "put"
    /\ ~ KeyIsFree(inv[w].order, inv[w].base + 1)
    /\ inv' = [inv EXCEPT ![w] = Idle]
    /\ UNCHANGED table

\* The invocation times out or dies at any point; nothing is undone.
Die(w) ==
    /\ inv[w] # Idle
    /\ inv' = [inv EXCEPT ![w] = Idle]
    /\ UNCHANGED table

--------------------------------------------------------------------------------
\* How much of an order's history a replica may have seen.
Staleness(w) == IF inv[w] = Idle THEN {}
                ELSE {0} \cup DOMAIN table[inv[w].order]

Next ==
    \E w \in Workers :
        \/ \E o \in Orders : CreateOrder(w, o)
        \/ \E o \in Orders, e \in Events : Dispatch(w, o, e)
        \/ \E k \in Staleness(w) :
               LoadVersion(w, k) \/ LoadConfirmable(w, k) \/ RefuseConfirm(w, k)
        \/ Store(w)
        \/ StoreUnacknowledged(w)
        \/ Conflict(w)
        \/ Die(w)

Spec == Init /\ [][Next]_vars

--------------------------------------------------------------------------------
\* The first n versions neither confirm nor cancel the order and add an item.
DraftWithItems(history, n) ==
    /\ \A v \in 1 .. n : history[v] \notin {Confirmed, Cancelled}
    /\ \E v \in 1 .. n : history[v].type = "ItemAdded"

ReadIsTrue(i) ==
    /\ i.event # Created => Named(i.order)
    /\ i.pc = "load" => i.event # Created
    /\ i.pc = "put" =>
          /\ i.base <= Len(table[i.order])
          /\ i.event = Created => i.base = 0 /\ i.order \notin Ghosts
          /\ i.event = Confirmed =>
                i.base <= PageLimit /\ DraftWithItems(table[i.order], i.base)

\* What an invocation has read when it is about to store is still part of the
\* order's history, with the same events: it was not overwritten meanwhile.
ReadsStayTrue == \A w \in Workers : inv[w] # Idle => ReadIsTrue(inv[w])

\* An order is confirmed only while its whole history up to that version was a
\* draft with an item, although handle_confirm_order decided on a stale page
\* and other invocations may have cancelled the order since.
ConfirmedOnlyDraftWithItems ==
    \A o \in Orders : \A v \in DOMAIN table[o] :
        table[o][v] = Confirmed => DraftWithItems(table[o], v - 1)

\* OrderCreated is version 1 of every order that was issued, and no other
\* version: no invocation that read an empty replica replaces it.
CreatedFirst ==
    \A o \in Orders : \A v \in DOMAIN table[o] :
        table[o][v] = Created <=> v = 1 /\ o \notin Ghosts

\* rebuild_state reads one page only: once a history is longer than the page,
\* every confirmation of that order conflicts, for ever.
ConfirmedWithinFirstPage ==
    \A o \in Orders : \A v \in DOMAIN table[o] :
        table[o][v] = Confirmed => v <= PageLimit + 1

\* What the handlers promise about every history, whatever they read and whoever
\* else wrote meanwhile: the three statements above, together.
HistoriesAreLegal ==
    /\ ConfirmedOnlyDraftWithItems
    /\ CreatedFirst
    /\ ConfirmedWithinFirstPage

\* A stored event is never replaced or removed (the event store is an immutable
\* log): what a client was told with 200 stays true.
AppendOnly ==
    [][\A o \in Orders : \A v \in DOMAIN table[o] :
           v \in DOMAIN table'[o] /\ table'[o][v] = table[o][v]]_table

\* The conditional puts of concurrent, stale invocations amount to atomic
\* appends, each legal for the order's whole log when it happens.
Abstract == INSTANCE OrderLog WITH log <- table
ImplementsOrderLog == Abstract!Spec

================================================================================

------------------------- MODULE AdvancedOrderCommands -------------------------
(* 02-cqrs-saga/problem-1/command_handler_advanced.py: the functional version  *)
(* of the write side.  The client names the order, every command loads and     *)
(* folds the order's events, and the one event it may lead to is appended with *)
(* a conditional put.  to_dict turns the price of an ItemAdded into a float,   *)
(* which the DynamoDB resource refuses before it sends anything.               *)
EXTENDS OrderEvents, Sequences

CONSTANT Requests    \* requests of the API, each handled by one invocation

VARIABLES
    store,      \* order |-> (version |-> [event, by]): the event table
    requests    \* request |-> the event it may lead to and how far it is

vars == <<store, requests>>

\* The events the three commands may lead to: CreateOrder, AddItem, ConfirmOrder.
Asked == {Created, Confirmed} \cup {ItemAdded(p) : p \in Products}

Answers == {"200", "400", "409", "500", "none"}

TypeOK ==
    /\ store \in [Orders -> Seq([event : Events, by : Requests])]
    /\ requests \in [Requests -> [pc : {"new", "load", "append"} \cup Answers,
                                  order : Orders, event : Asked,
                                  version : Nat \ {0}, resent : BOOLEAN]]

Init ==
    /\ store = [o \in Orders |-> << >>]
    /\ requests \in [Requests -> [pc : {"new"}, order : Orders, event : Asked,
                                  version : {1}, resent : {FALSE}]]

--------------------------------------------------------------------------------
\* OrderAggregate.apply: the events that set the status.  A creation sets it too.
Deciding(history) ==
    {v \in DOMAIN history : history[v].event \in {Created, Confirmed}}

\* _rebuild_aggregate: the fold of apply over the events that were loaded.
Aggregate(history) ==
    [version |-> CurrentVersion(history),
     draft   |-> \A v \in Deciding(history) :
                     (\A u \in Deciding(history) : u <= v) => history[v].event = Created,
     items   |-> {v \in DOMAIN history : history[v].event.type = "ItemAdded"}]

\* The business rules of the three handlers.
Allows(event, agg) ==
    IF event = Created THEN agg.version = 0
    ELSE agg.draft /\ (event = Confirmed => agg.items # {})

\* The version of the event a handler makes.
VersionOf(event, agg) == IF event = Created THEN 1 ELSE agg.version + 1

Goto(r, pc) == requests' = [requests EXCEPT ![r].pc = pc]

\* What r reads of its order when the replica has seen the versions up to k.
Loaded(r, k) == Aggregate(View(store[requests[r].order], k))

\* _parse_command and validate accept the body.
Accept(r) ==
    /\ requests[r].pc = "new"
    /\ Goto(r, "load")
    /\ UNCHANGED store

\* ParseError (an API gateway's body is a string, not an object),
\* UnknownCommandType, or validate fails; an event or a body in which what is
\* looked up is missing or of another type raises.
Reject(r, answer) ==
    /\ requests[r].pc = "new"
    /\ answer \in {"400", "500"}
    /\ Goto(r, answer)
    /\ UNCHANGED store

\* The handler makes its event from what was loaded.
Decide(r, k) ==
    /\ requests[r].pc = "load"
    /\ Allows(requests[r].event, Loaded(r, k))
    /\ requests' = [requests EXCEPT
           ![r].pc = "append",
           ![r].version = VersionOf(requests[r].event, Loaded(r, k))]
    /\ UNCHANGED store

\* OrderAlreadyExists, OrderNotInDraftState or OrderHasNoItems.
Refuse(r, k) ==
    /\ requests[r].pc = "load"
    /\ ~ Allows(requests[r].event, Loaded(r, k))
    /\ Goto(r, "400")
    /\ UNCHANGED store

\* The query or the put fails: LoadError or DynamoDBError, or, if there was no
\* answer at all, an exception that is no ClientError.
CallFails(r, answer) ==
    /\ requests[r].pc \in {"load", "append"}
    /\ answer \in {"400", "500"}
    /\ Goto(r, answer)
    /\ UNCHANGED store

\* Fault: the price is stored as a string.
StorablePrice(event) == TRUE

\* to_dict gives the table something it can store: not the float of a price.
Storable(event) == event.type # "ItemAdded"

\* append: TypeError, which is no ClientError, becomes InternalServerError.
RefuseFloat(r) ==
    /\ requests[r].pc = "append"
    /\ ~ Storable(requests[r].event)
    /\ Goto(r, "500")
    /\ UNCHANGED store

\* The ConditionExpression of append.
KeyIsFree(o, v) == v \notin DOMAIN store[o]

Put(r) ==
    /\ requests[r].pc = "append"
    /\ Storable(requests[r].event)
    /\ KeyIsFree(requests[r].order, requests[r].version)
    /\ store' = [store EXCEPT ![requests[r].order] =
           WithItem(@, requests[r].version, [event |-> requests[r].event, by |-> r])]

Append200(r) ==
    /\ Put(r)
    /\ Goto(r, "200")

\* The response of the put is lost: the SDK sends it again.
PutUnacknowledged(r) ==
    /\ Put(r)
    /\ requests' = [requests EXCEPT ![r].resent = TRUE]

\* Fault: a conflict is taken for the put's own first attempt.
ConflictIsSuccess(r) ==
    /\ requests[r].pc = "append"
    /\ Storable(requests[r].event)
    /\ ~ KeyIsFree(requests[r].order, requests[r].version)
    /\ Goto(r, "200")
    /\ UNCHANGED store

\* ConditionalCheckFailedException: ConcurrencyConflict.
Conflict(r) ==
    /\ requests[r].pc = "append"
    /\ Storable(requests[r].event)
    /\ ~ KeyIsFree(requests[r].order, requests[r].version)
    /\ Goto(r, "409")
    /\ UNCHANGED store

\* The invocation crashes or times out.
Die(r) ==
    /\ requests[r].pc \in {"load", "append"}
    /\ Goto(r, "none")
    /\ UNCHANGED store

\* How far behind the replica that answers a query may be.
Staleness(o) == {0} \cup DOMAIN store[o]

Next ==
    \E r \in Requests :
        \/ Accept(r) \/ \E answer \in Answers : Reject(r, answer) \/ CallFails(r, answer)
        \/ \E k \in Staleness(requests[r].order) : Decide(r, k) \/ Refuse(r, k)
        \/ RefuseFloat(r)
        \/ Append200(r) \/ PutUnacknowledged(r) \/ Conflict(r)
        \/ Die(r)

Spec == Init /\ [][Next]_vars

--------------------------------------------------------------------------------
Stored(r) ==
    \E v \in DOMAIN store[requests[r].order] : store[requests[r].order][v].by = r

\* An answer tells what the table holds, then and ever after: 200 means that the
\* request's own event is stored (so of several clients that create one order a
\* single one is told so), and any refusal means that it is not, unless a
\* response of the table was lost on the way.
AnswersTellTheStore ==
    \A r \in Requests :
        /\ requests[r].pc = "200" => Stored(r)
        /\ requests[r].pc \in {"400", "409", "500"} =>
               (Stored(r) <=> requests[r].resent)

\* What the table holds, without who asked for it.
Log == [o \in Orders |-> [v \in DOMAIN store[o] |-> store[o][v].event]]

Abstract == INSTANCE OrderLog WITH log <- Log

\* This handler, too, implements the append-only log of the order system.
ImplementsOrderLog == Abstract!Spec

================================================================================

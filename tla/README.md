# A TLA+ verification project for the DevOps bootcamp repository

`src/` is not one program. It is a collection of worked solutions:
event-driven and CQRS services for AWS Lambda, Step Functions sagas, security
automation, small servers and tools in Python, Go and bash, and a large body of
Terraform, Kubernetes manifests and prose. This project models the solutions
that keep state and whose steps can meet in an order nobody tested, and leaves
the declarative and textual part aside.

Paths below are relative to `src/`; `AA/` stands for
`aws-solutions-architect/advanced-architectures/`.

1. [Inventory](#1-inventory)
2. [Modules and how they correspond to the code](#2-modules-and-how-they-correspond-to-the-code)
3. [What each run checks](#3-what-each-run-checks)
4. [Bounds](#4-bounds)
5. [Fairness](#5-fairness)
6. [What is proved](#6-what-is-proved)
7. [Where the code departs from its documents](#7-where-the-code-departs-from-its-documents)
8. [What is not modelled](#8-what-is-not-modelled)
9. [Plan](#9-plan)

## 1. Inventory

### Order system, `AA/02-cqrs-saga/problem-1`

* **Write side**, `command_handler.py`, a Lambda function behind an API.
  State: the DynamoDB table of events, keyed by order and version.
  Operations: `handle_create_order`, `handle_add_item`, `handle_confirm_order`,
  `handle_cancel_order`. Each reads the order's events (or only its last
  version), decides, and stores one event with a conditional put.
  Hard: invocations run concurrently, queries are eventually consistent and
  return one page, the SDK re-sends a put whose response is lost, an invocation
  can die anywhere. Correct when histories are append-only logs and every
  decision is right for the whole log, not only for what was read.
* **Read side**, `projector.py`, fed by the table's stream through an event
  source mapping (`solution.tf`). State: the `orders` and `inventory` read
  models. Operations: one projection per event type, several table calls each.
  Hard: a batch that fails anywhere is delivered again from its first record;
  projections are not idempotent; every projection that looks at a row reads it with
  an eventually consistent `get_item` and writes later; a missing row or an item it
  cannot calculate with stops the shard. Correct when the read model converges to the log.
* **Advanced write side**, `command_handler_advanced.py`. State: a table keyed by
  `aggregate_id` and `version`, filled through `EventStore.append`. (Its name,
  `event-store`, is the one `solution.tf` gives the table of the simple handler, which
  has another key, `aggregateId`: nothing in the repository creates the table it needs.)
  Operation: `handle`, which rebuilds an aggregate from one query, lets it decide and
  stores its event with the same conditional put. Correct when it, too, writes an append-only log, and when its
  answer says what the table holds.

The simple write side and the read side share nothing but the stream: what the
projector may assume of its input is what that write side promises (`OrderLog`). The
advanced handler's events have other attributes than the projector reads.

### Banking, `AA/02-cqrs-saga/problem-2/banking_commands.py`

State: the table of account events. Operations: deposit, withdrawal, transfer,
each with a duplicate check by idempotency key, a rebuild of the account and
one or two puts; a snapshot every hundred versions. Hard: stale balances and
statuses, retried commands, a transfer that dies half way, puts without a
condition. Correct when no balance becomes negative, nothing enters a closed
account, no event is replaced and a transfer moves money instead of making or
losing it.

### Inventory, `AA/02-cqrs-saga/problem-3/inventory_system.py`

State: the table of inventory events and the read model `stock-levels`, written
by the command itself, and the low-stock alerts. Operations: reserve, release,
record a sale. Hard: check, event, update and alert are four calls without a
condition; updates are re-sent; a row may be missing. Correct when nothing is
oversold, no update is lost, every command leaves its event and low stock is
reported.

### Ride service, `AA/01-event-driven/problem-1/ride_service_advanced.py`

State: rides, idempotency records, the event bus, and one circuit breaker per
container. Operation: `create_ride`, with `EventPublisher.publish` under
retries and the breaker. Hard: requests repeated with one key at the same time,
publications that reach the bus although the call fails, a breaker whose
failure count and trial count are separate from its state. Correct when an
answer is true and the breaker's state follows its counters.

### Simple ride services, `AA/01-event-driven/problem-1`

`ride_service.py`, `driver_service.py` and `payment_service.py` around one event bus.
State: rides, drivers, charges and the events published. Operations: `create_ride`, the
assignment of the first available driver of a scan, the charge of a completed ride. The
last two are written for events with `Records` (`driver_service.py:20`). `solution.tf`
targets the functions directly from EventBridge (lines 154-167), whose events have none,
so that as deployed either raises `KeyError` at its first line and changes nothing. Hard:
records sent again, a stale scan of one page and an update without a condition, calls
that fail between an effect and its event. Correct when drivers, rides, charges and
events agree.

### Sagas

The order saga (`aws-solutions-architect/serverless/02-step-functions/problem-1/state_machine.json`)
and the travel saga (`AA/01-event-driven/problem-3/saga_state_machine.json`)
are Step Functions state machines; the functions they call are not in the
repository. State: the state data, which effects were done, and in the order
saga three parallel branches. Hard: any task may fail, before or after its
effect; compensations are entered from several places; what a branch catches is
a success for its Parallel state. Correct when a failed saga has undone what it
did, a successful one is complete, and every execution ends.

### Servers that shut down gracefully

`modules/C_full_project/app/app.py` (http.server), its asynchronous version
`app_faang.py` (aiohttp), `modules/A_zero_to_hero/go-basics/simple_http_server_faang.go`
and `practice_examples/go-http-service/main.go`. State: the listening socket,
the requests in flight, the signals taken and the shutdown sequences running.
Hard: which thread, task or goroutine waits for which; signals before
registration, twice, or during a request; a deadline that passes while handlers
run. Correct when a signal stops the server, a clean exit cuts nothing and an
accepted request is answered.

### Data access of a multi-tenant service, `aws-solutions-architect/databases/02-dynamodb-advanced/problem-1/data_access.py`

State: one organization's partition of a single table, with users, orders and
invoices, and two indexes behind it. Operations: creating users, orders and invoices,
setting an invoice's status, puts in batches, and lists and reports of one query each,
except `list_org_invoices`, which clients page through. Hard: writes, replacements and
TTL under a cursor, pages that are eventually consistent, `Limit` applied before the
filter. Correct when paging lists each invoice that stays what it is once.

### Programs that call other services

* **API clients**: `json_api_client_faang.go`, `api_client_faang.py` and
  `web_scraper_faang.py`. State: a circuit breaker and the attempts of each call.
  Hard: coroutines that share a breaker; a breaker without a way back. Correct when
  the breaker follows the failures and every call ends.
* **Programs that work on many tasks at once**: `concurrent_crawler_faang.go` and
  `concurrent_crawler_05.go`, `fetch.py`, `concurrency_faang.py`, and the thread pool
  of `security_automation_advanced.py`. State: the tasks, a channel or futures, what
  cancels them, the report. Hard: which goroutine waits for which, a channel closed
  too early or never, exceptions in a thread. Correct when the program reports,
  and counts every task once.
* **Account factory**, `account_factory.py`. State: AWS accounts, organizational
  units, the baseline of each account. Hard: more than a dozen calls of which any may fail, and
  operators who look for the same unit at once. Correct when nobody gets power over
  an account that is not yet governed.
* **Security automation**, `security_automation.py`. State: ingress rules, the
  public access of a bucket, an access key, and the invocations Lambda repeats.
  Correct when an answered finding is closed.
* **Cost optimizer**, `optimizer.py`. State: the resources, the tracking table.
  Hard: an instance is stopped, changed and started by three calls. Correct when
  the table tells the truth about every resource.

### The rest

`PROJECT.json` lists every other component, with the reason it is not modelled;
section 8 sums them up.

## 2. Modules and how they correspond to the code

| module | models |
|---|---|
| `VersionedItems` | a DynamoDB table of events keyed by aggregate and version: what a partial read sees, `get_current_version`, what `put_item` leaves |
| `OrderEvents` | the events of an order and `rebuild_state` |
| `OrderLog` | the abstract specification of both write sides: one atomic, append-only log per order |
| `OrderCommands` | `command_handler.py`; implements `OrderLog` |
| `AdvancedOrderCommands` | `command_handler_advanced.py`; implements `OrderLog` |
| `OrderWrites` | the composition of the two, for any constants |
| `OrderProjector` | `projector.py` call by call, and its event source mapping, reading what `OrderLog` writes |
| `Banking` | `banking_commands.py` |
| `Inventory` | `inventory_system.py` |
| `DataAccess` | the invoices of `data_access.py`, with TTL and eventually consistent pages |
| `CircuitBreaker` | the class `CircuitBreaker` of the ride service, as operators on a record |
| `RideService` | `create_ride` and `EventPublisher`, one `CircuitBreaker` per container |
| `RideDispatch` | `ride_service.py`, `driver_service.py`, `payment_service.py`, invoked with `Records` by somebody outside the repository |
| `RideServices` | the composition of the two ride services, for any constants |
| `StatesLanguage` | the kinds of states of the Amazon States Language, as records |
| `OrderSaga`, `TravelSaga` | the two state machines, state by state, as data |
| `SagaExecution` | Step Functions walking one of them |
| `ServerShutdown` | the four servers, in terms of one socket, one main and its shutdown sequences |
| `ApiClients` | the three API clients and their breakers |
| `TaskPools` | the five programs that work on tasks at once |
| `AccountFactory`, `Remediation`, `CostOptimizer` | the scripts of these names |
| `RemoteCalls` | the composition of `ApiClients`, `TaskPools` and the three scripts, for any constants |
| `Tables` | the composition of `Banking`, `Inventory` and `DataAccess`, for any constants |
| `DataLemmas` | lemmas on versioned items, sums and sets of numbers that several proofs use |
| `OrderCommandsProofs`, `OrderProjectorProofs`, `TablesProofs`, `RideServiceProofs`, `SagaExecutionProofs`, `ServerShutdownProofs`, `RemoteCallsProofs` | theorems |
| `InventoryUses` | stock levels and uses for the instances of `Inventory` |
| `MC*` | instances for TLC |

Composition: `OrderCommands` refines `OrderLog` (`log <- table`),
`AdvancedOrderCommands` refines it too (`log <- Log`, its table without the
requests that asked for the events), and `OrderProjector` takes the actions of `OrderLog` as its environment. The read
side is so checked against everything the write side may produce, without the
write side's internal steps. The three CQRS solutions share `VersionedItems`.
`SagaExecution` instantiates both saga modules and walks the one it drew.

Programs that share nothing but their shape are checked side by side: in
`OrderWrites`, `Tables`, `RideServices` and `RemoteCalls` the variable `part`
says which of them runs, the others keep one initial state, and a property of one
says nothing while another runs. There is no interaction between the parts.

**Granularity.** One step is one call to a store, a bus or a queue, with the
computation that follows it. In `OrderCommands`, `Dispatch` begins an
invocation, `Load...` is a query and the decision on it, `Store`,
`StoreUnacknowledged` and `Conflict` are the outcomes of the conditional put, and
`Die` may come at any time. `Banking`, `Inventory` and `RideService` are cut the
same way (`attempts[t].pc`, `cmds[c].pc`, `requests[r].pc`); so are the projector
(`run.step` and `run.at`, the record in hand, and `run.row` or `run.items`, what it read), `RideDispatch` (`workers[w].pc`), the
account factory (`calls[c].pc`, with the calls of the baseline in `Baseline`) and the
remediation. `DataAccess` is a set of single calls plus one client in the middle of a
listing.

**Eventually consistent reads.** No query of the code sets `ConsistentRead`. A read
sees `View(history, k)` for any `k`: every version up to some point. Two
successive reads need not be monotonic. Neither does any `get_item` or scan. Where rows
are replaced, a read may return a row that was there before: in `OrderProjector`, `past`
has all rows an order ever had and `Seen` is what `get_item` may return, with no limit on
its age, so the model allows more than DynamoDB, where copies are usually a second
behind; in `RideDispatch` a scan may show a taken driver available as long as it is
`lagging`; in `DataAccess` a query may return anything in `older`. `Settle` ends that in
the last two. `misread` and `misled` remember that such a read happened, so that
properties can say what holds without one. `rebuild_state` of the order system also
sees one page only (`PageLimit`), because it ignores `LastEvaluatedKey`.

**Lost responses.** The AWS SDK re-sends a request whose response does not
arrive: `StoreUnacknowledged`, `ReserveUnacknowledged`, `UpdateUnacknowledged`
apply the effect and leave the caller where it was;
`PutEventsRaises(r, TRUE)` is the publication that reached the bus although it raised.

**Identifiers.** `uuid4` never collides: `CreateOrder` picks an order nobody
uses. `Ghosts` are identifiers a client makes up, which `AddItem` and
`CancelOrder` accept.

**Data left out.** Prices, quantities and customers of orders; the text of
answers, logs and metrics; times, except where a comparison with one decides
(the breaker's `cooling`, deadlines of a shutdown). Quantities stay where they
are added or compared (banking, inventory). The ride service counts failures up
to the threshold only, since nothing but the comparison uses them.

**Conversions.** `banking_commands.py` snapshots a balance as a `float`, which
the DynamoDB resource refuses with `TypeError`: the step exists
(`SnapshotFails`), its handler fails after the event is stored, and no snapshot
is ever read back. `is_duplicate` scans with `Limit=1`, which limits the items
read, not the items found: it sees the first item of the table only.

The advanced handler hands a float price to the table, which refuses it: no
`AddItem` ever stores anything (`AdvancedOrderCommands` answers 500). `get_session`
of `security_automation_advanced.py` is cached by an unhashable object, so in
`TaskPools` every remediation ends as a failure that is reported as one.

**Delivery.** In `OrderProjector` the event source mapping delivers a failed batch
again, from its first record, and with the same records: `upto` keeps its end. In
`RideDispatch` there is no queue, because the repository puts none before the handlers:
`Invoke` and `ProcessPayment` are invocations by an outside caller with any batch of published rides
or any completed ride, for the first time or again (`Sending`, at most `MaxRepeats` times
again). The events that `solution.tf` delivers instead, which raise `KeyError`, change
nothing and are no step; nor is the missing permission to scan, which would end every
invocation there. What is modelled is thus what the handlers do with the input that they
are written for.

**Servers.** `ServerShutdown` has one set of variables for four programs;
an action names the program it belongs to. `main` is where the main thread,
task or goroutine is, `draining` counts the shutdown sequences in progress, and
`done` is the channel `done` of `simple_http_server_faang.go` or the end of
`shutdown` in `app_faang.py`. Python runs signal handlers on the main thread
between two bytecodes, so `AppHandlesSignal` suspends `serve_forever`; in aiohttp
and Go a signal is one more event.

**Operators named as faults.** A definition whose comment begins with `Fault:`
is a plausible mistake in the code it stands before. None of them is used by a
specification; replacing the definition that follows by it makes the property
that `PROJECT.json` names under `mutants` fail.

## 3. What each run checks

| run | question | outcome |
|---|---|---|
| `order_commands` | Do concurrent, stale, retried and dying invocations still write legal append-only logs, in both handlers? | holds: histories are legal at every version, reads stay true, and both handlers implement `OrderLog`. Part of legality is a limit: an order with more events than a page can no longer be confirmed. The advanced handler's answers tell what its table holds. |
| `projector` | Does the read model follow the log through crashes, lost responses, redelivered batches and rows that are read late? | holds with qualifications that are part of the properties. The row of an order that was never misread shows the right status and has at least its items; any row shows a status its order had and, without a fault, no item twice. Reservations err upwards. Every event is projected unless somebody sent one for an order that does not exist, or a malformed item |
| `projector_poison` | Without that last condition? | violated: the run's trace stores a cancellation of an order that does not exist, whose batch is delivered for ever |
| `tables` | Banking: deposits and withdrawals racing each other, a closed account, a transfer racing a deposit. Inventory: everything at once, and commands in turn. Data access: a listing while others write and TTL removes | holds. Banking: balances of accounts without transfers never go negative, nothing enters a closed account, only a transfer replaces an event, acknowledged commands are stored, a credit has its debit. Inventory: stock is never made from nothing and the table's arithmetic keeps all updates; in turn nothing is oversold, every command is in the log, the view is what the log makes of the stock and low stock is reported. Data access: each invoice of which no visible state fails the filter is listed once, and none twice |
| `banking_transfer` | Is a transfer atomic, as its comment says? | violated by a death between its puts |
| `inventory_oversold` | Is overselling prevented when two commands run at once? | violated |
| `ride_service` | The advanced service: requests with a repeated key over two containers, any publication failing. The simple services: two rides, three drivers of which two are on the page, two invocations, batches of two, a record sent again, a fault | holds. Advanced: `created` and `duplicate` are true, breakers stay sound, every begun request is answered. Simple: nobody is told of a ride before the table is, a taken driver is told unless a call failed, a ride sent once gets one driver, without overlap and stale scans a driver gets one ride, and every charge is for a ride with a driver and has its event unless something failed |
| `sagas` | Either saga, any task failing before its effect, up to two after | holds: a failed saga leaves nothing, a successful one is complete, every task finds its input, only the dead letter queue can stop a paid order, every execution ends |
| `saga_shipment` | Does a failed shipment refund and release? | violated: the saga completes instead |
| `server_shutdown` | Each server, three requests, two signals at any moment | holds: clean exits cut nothing, the Go servers stop even if a handler hangs, accepted requests are answered (for `app.py` only as long as no signal came) |
| `server_shutdown_hangs` | Does `app.py` stop on a signal? | violated: its handler waits for itself |
| `remote_calls` | Five programs whose remote calls fail anywhere: three API clients, five worker programs, the account factory, the remediation, the cost optimizer | holds: breakers that are asked agree with the failures, reports count every task once and always come, no account is half governed, an answered finding is closed, the tracking table is true |

Properties worth a second look:

* `ReadsStayTrue` relates the private state of an invocation about to store to a
  table others write: what it read is still a prefix of the history. It is why a
  conditional put on the *version* is enough, and what `AppendOnly` and
  `ConfirmedOnlyDraftWithItems` rest on.
* `ImplementsOrderLog` is a refinement, checked by TLC on a small instance and
  proved for all. The advanced handler implements the same abstract log, although the
  projector could not read its events: their attributes are others.
* `AdvancedAnswersTellTheStore` allows one lie and names it: a put re-sent by the SDK
  (`resent`) is refused by its own event.
* `ConfirmationFindsRow`, in `RowsMatchLog`, spans both sides of the order system:
  `update_item` would create a partial row, and only the order of the log prevents it.
* `NothingIsLost` of `Banking` joins what clients were told (`AcknowledgedIsStored`)
  with a transfer that is cut (`DebitComesFirst`). The second holds for transfers
  alone at their source: one from an account to itself has one key for
  both puts, so its deposit replaces its withdrawal and makes money.
* `UpdatesAddUp`, in `StockAddsUp`, fails as soon as the arithmetic moves from the
  table to the process, which `reserve_stock` does for the alert, and rightly not for
  the row.
* `StatusConverges` and `ItemsMatchLog`, in `RowsMatchLog`, say exactly what a stale
  `get_item` costs. `project_item_added` writes back the whole row that it read, so one
  stale read loses items or a status for good (nothing delivers the record again), while
  redelivery alone never does. What remains for a misread row is that its status was the
  order's once, and that it invents no item.
* `ListingIsComplete` looks at invoices that pass the filter in every state that a query
  may still return, from the first page to the last, whatever appears, goes or changes
  under the cursor. One that is written just before the listing may be missing from an
  eventually consistent page, and is not promised. `Limit` counts items before the
  filter, so a page may be empty and not the last.
* `DispatchIsSound` gives a driver one ride only where invocations do not overlap and no
  scan shows a taken driver: the update has no condition, so either is enough for two.
* `InputsPresent` looks at all ways into a compensation: `CancelHotel` is reached
  from a failed car reservation and from `CancelCar`, never without a hotel.
* `ClientBreakersSound` says of coroutines that share a breaker, in any interleaving
  of results, that it is open exactly after a streak of failures: a late success of
  another coroutine closes it again.
* `TrackingIsTrue` is about a resource that three calls change, an instance stopped and
  not started included.
* `AcceptedIsAnswered` carries its own fairness (`Respond`) as a premise, so that
  `GoServersStop` is checked with handlers that never return.

Deadlock checking is off in every configuration because all the systems may
stop: bounded clients send no more, an execution ends, a process exits, and
`app.py` hangs. Where something must go on, a liveness property says so.

## 4. Bounds

| run | bound | why it is enough |
|---|---|---|
| `order_commands` | one issued order and one made-up identifier, one product, 3 invocations, 4 events before a client stops (up to 6 stored), pages of 2 events; advanced: 3 requests over 2 orders | three invocations give a winner, a loser and a bystander; a history outgrows a page; orders do not interact |
| `projector` | two orders and a made-up one, a good and a malformed product, batches up to 2 of 4 events, 1 fault, counts up to 5 | creation, item, second item or confirmation, and cancellation of an order, with every stale read on the way; a fault at any call and the redelivery after it; a second order shows an effect on the wrong row. Without poison a batch fails at most once, so no count exceeds 5; only batches that fail for ever are cut |
| `projector_poison` | 2 events, no fault | the shortest violation |
| `tables`, banking | 3 accounts, each command attempted twice, snapshots every 2 versions | money for one withdrawal, two attempts at it and a deposit that makes room for the second; a snapshot is taken |
| `tables`, inventory | a product with a row and one without; 4 commands at once, reads one write behind, one re-sent update; or 4 commands in turn | stock for one of two reservations |
| `tables`, data | 3 invoices, 2 statuses, pages of 1, 3 writes, expiry and stale pages at any time | an organization outgrows a page; a write before, under and behind the cursor; an invoice that expires and is written again |
| `ride_service`, advanced | 3 requests on 2 keys and 2 containers, 3 attempts, thresholds of 2 | attempts exceed the failure threshold, so a breaker opens between the attempts of one request, half-opens and closes |
| `ride_service`, simple | 2 rides, 3 drivers, 2 of them on the page, 2 invocations, batches up to 2, 1 record sent again, 1 fault | two invocations, or a stale scan, pick one driver; a batch fails after its first record; a charge is repeated after its event failed |
| `sagas` | every task may fail as often as its retries allow; 2 failures after an effect | the state machines are complete; `unclear` bounds one kind of failure |
| `server_shutdown` | 3 requests, 2 signals | queued, active and late requests at once; a second signal during a shutdown |
| `remote_calls` | clients: 3 calls, threshold and attempts 3; workers: 3 tasks on 2 threads; factory: 2 calls, 2 e-mails, 2 units, pages of 1; remediation: 2 events, 2 ports, 2 attempts, 1 change by an administrator; optimizer: an instance and a function, 2 runs | a breaker opens with one call's failures or with several calls'; a task waits for a thread; a unit is missing from the page; an attempt repeats after a partial one; a run meets the tracking of the run before |

Named bounds in guards are `MaxEvents`, `MaxFaults`, `MaxCount`, `MaxAttempts` of
`Banking` (clients), `use.concurrent`, `use.lag`, `use.lost`, `MaxUnclear`,
`MaxSignals`, `MaxWrites`, `MaxRepeats`, `MaxChanges` and `MaxRuns`. `MaxAttempts` of
`RideService` and `Remediation`, `MaxRetries`, `MaxFailures`, `Pool`, `PageSize`,
`PageLimit`, `FirstPage`, `BatchSize`, `SnapshotEvery`, `Threshold`,
`FailureThreshold` and `HalfOpenMaxCalls` are parameters of the code or of a service
with small values. `MaxEvents` of `OrderCommands` stops the clients, not the
invocations in flight.

Histories in `Banking` and `Inventory` are assumed to fit one page.

## 5. Fairness

Clients, faults, signals, and time where nothing forces it are unfair in every
specification.

* `OrderProjector!FairSpec`: weak fairness of `Project`. The event source
  mapping polls without end and Lambda runs the handler it invoked. A batch that
  fails is retried as long as the stream keeps its records (`solution.tf` sets no
  `maximum_retry_attempts`, no maximum age and no destination). That the stream drops
  records after a day, which would unblock the shard and lose them, is left out. Stale
  reads are no obstacle: what is read late is still a row, and a row that is not found
  yet (`RowNotFoundYet`) is a fault, of which there are finitely many.
* `RideService!FairSpec`: weak fairness of the steps of a request once it was
  begun: Lambda runs an invocation until it returns or times out (`Die`, which
  answers it too).
* The simple ride services have no fairness and no liveness property: who invokes them,
  and whether, is not in the repository.
* `SagaExecution!FairSpec`: weak fairness of `Next`: Step Functions carries an
  execution on, and every task ends with a result or an error.
* `ServerShutdown!FairSpec`: weak fairness of `Step`, the control of the program
  itself and the expiry of its deadlines. Handlers are *not* assumed to return.
* `ApiClients!Fairness`: weak fairness of a call's own steps. Each request of these
  clients has a timeout, and pauses end. That an open breaker's pause ends (`Cool`)
  is not assumed.
* `TaskPools!FairSpec`: weak fairness of `Step`, since every fetch has a timeout
  and nothing else waits for the world; the crawler's deadline may never come.

## 6. What is proved

TLAPS proves the following for every value of the constants.

**`DataLemmas`**: what several proofs use. On histories, as `PutLeavesNoGap` (a
conditional put by somebody who read a prefix appends). On sums: the fold
`MapThenSumSet` of the library is a function defined by recursion on the subsets of a
set; `SumsExist` shows by induction on their sizes (`Induction`, a fact about sets of
numbers, since none of the provers can use an induction rule with a predicate as a
parameter) that there is one, so that `Total` has the laws of a sum: one more member
adds its value (`TotalAdd`). On a page of a query: the first n members of a set of numbers lie before
all others, and are n or all of them (`FirstsAre`).

**`OrderCommandsProofs`**, from `GhostsAreOrders` and `PageLimitAssumption`.

* `TypeCorrect`, `ConfirmationIsSound`, `ConfirmationFitsPage`, `CreationIsFirst`, which
  together give `LegalHistories`; `ReadsAreTrue`: `Spec => []...`.
* `StoredEventsStay`: `Spec => AppendOnly`.
* `Refinement`: `Spec => ImplementsOrderLog`.

The invariant `IInv` joins gapless histories with `ReadsStayTrue`: an invocation
about to store holds a version `base` that is at most the length of the history
and, for a confirmation, the knowledge that the first `base` events are a draft
with an item. None of the properties of histories is inductive without it: a
confirmation is legal because of what an invocation read, several steps of
others ago. `IInv` is inductive because a put that passes its condition
appends (`PutIsAppend`: the only free key a reader of a prefix can name without
leaving a gap is the next one, and it can name no other), and appending keeps
every prefix, hence everything every other invocation has read
(`AppendKeepsReads`). The refinement then maps `Store` and
`StoreUnacknowledged` to the abstract action of the event, everything else to a
stutter.

The same module proves about the functional version, for any orders, products and
requests, and about the composition of the two:

* `AdvancedAnswersAreTrue`: `BothSpec => []AdvancedAnswersTellTheStore`.
* `BothImplementTheLog`: `BothSpec => ImplementsOrderLog /\ AdvancedImplementsOrderLog`.

The table refuses the float price of every item, so no order ever has an item and none
is confirmed: every history is at most its creation, made by a request that was
answered 200 or sent again (`AtMostCreated`). The argument rests on that refusal and
would have to be redone if the price were repaired: an empty aggregate counts as a
draft (line 157), so an `AddItem` for an order nobody created would then be stored
first, and the handler would not implement `OrderLog`. Its instance of `OrderLog` has no
`Ghosts`: the abstract log stores nothing for an order before its creation.

**`TablesProofs`**, from the assumptions on the constants of `Banking` and `Tables`,
for any accounts, workloads and attempts, any keys, stock, threshold and uses, and any
invoices, statuses and page size.

* `TypeCorrect`, `ClosedStaysClosed` (`NoDepositAfterClosing`), `NothingGetsLost`
  (`NothingIsLost`), `EventsStay` (`AppendOnly`), `HistoriesLegal`
  (`HistoriesAreLegal`): `Spec => ...`, for banking.
* `TypesCorrect`, `StockSound` (`StockAddsUp`), `InTurnSound` (`InTurnPromisesKept`),
  `ListingComplete` (`ListingIsComplete`): `AllSpec => []...`, for the composition.

Banking. A transfer's puts have no condition, so here a put by somebody who read a prefix
either appends or replaces; in both cases histories stay gapless (`PutEffect`), and
away from transfers it appends. What an attempt about to put must know is in
`Sound`: the version it read, that the account was not closed in it
(`PutIsSound`), that its debit is stored once it goes for the target
(`TransferIsSound`), and that its event is stored once it answers
(`AnswerIsSound`). `KeysAreTrue` says that a stored key belongs to the command that
could have put it there: a duplicate found by key is this command's own event, which
is what lets an attempt that stores nothing answer `stored`. That no balance goes
negative needs `Covered` besides: a withdrawal about to be put is covered by the
balance *at the version it will follow*, and an append changes no earlier balance.
`AmountsAssumption` says what no handler checks: amounts are not negative, and no
account was overdrawn at first.

Inventory. The level of a key is the first level plus the sum of what the commands whose
update went through have moved, but for updates that were sent again or failed after
their effect (`StockIInv`, for every use). In turn more holds (`TurnIInv`): one command
runs at a time (`Alone`), what it has read is what there is (`KnowsInTurn`), and the
view is what the log makes of the stock, the events of failed commands taken or left
(`ViewFollows`).

Data access. Each invoice that is steady since the first page, and lies at or before the
cursor, was listed once; none beyond it was listed (`ListingFollows`). That
an invoice is steady is an invariant about all that a query may return: its current state
and every older one passes the filter, so whatever mixture of old and new a page is made
of, it is there and passes. A page keeps the listing up because it takes the first keys
after the cursor: all that it leaves out lie beyond its last one, and it leaves something
out only if it is full (`FirstsAre`).

**`RideServiceProofs`**, from `ThresholdsArePositive`, `AttemptsArePositive` and
`EveryRequestHasKey`.

* `TypeCorrect`, `BreakersStaySound`, `AnswersStayTrue`.

`AnswersAreTrue` needs two facts more to be inductive: how far a request has come
says what is in the tables (`Progress`), and every recorded key has a request that
was answered `created` (`RecordedByCreated`), which is what a duplicate check
relies on. `CallsKeepBreakerSound` is a lemma on the operators of
`CircuitBreaker` alone: admitting a call and then its success, its failure or
the passing of time keep a breaker sound.

The same module proves about the simple services, from `DispatchAssumption` and for any
rides, drivers, first page, invocations, batch size, repeated records and number of faults:

* `DispatchStaysSound`: `BothSpec => []DispatchIsSound`.

What is announced or is in a batch was published and sent, and a driver who is told or
about to be told is taken (`Known`, `Taken`); only a ride of which a driver was told is
charged, and a charge without an event has a fault of its own (`Charges`). A ride that was
sent once is left to one invocation, or has its one driver, or neither (`InOnePlace`);
that is why it gets one driver, and it takes that a batch holds each record once and that
a record done leaves the batch (`NextRecordLeaves`). A taken driver knows of the ride the
table says, or the invocation that wrote it is about to tell, or the call failed
(`TakenKnow`). While invocations do not overlap and no scan is stale, the driver that one
found is still available when it writes (`Alone`): nothing in the code ensures that, the
update has no condition.

**`ServerShutdownProofs`**, from `SignalsAreBounded` and `ProgramsAreKnown`.

* `TypeCorrect`, `CleanExit`.

`CleanExitCutsNothing` is inductive only together with: a Go program that drains
has shut its socket, so that idle stays idle (`Shut`); `done` means idle
(`DoneIsIdle`); and every shutdown sequence has a signal of its own (`OneEach`),
which bounds `draining`.

**`OrderProjectorProofs`**, from `BoundsAssumption`, for any orders, products and
batch size.

* `TypeCorrect`, `RowsMatch` (`RowsMatchLog`), `ReservationsMatch`
  (`ReservationsMatchLog`).

The environment is `OrderLog`, so the first part of the invariant is about the log
and its stream: the stream holds the events of each order in the order of the log
(`StreamIsLog`), which is what `ConfirmationFindsRow` needs: the creation lies
before the confirmation in the stream and was projected. The second part says where
redelivery leaves a row: its status is the status after *some* record between the
last one that is done with and the end of the batch in hand, so a batch that fails
and comes again moves it back and then forward, and where nothing is left to deliver it is the
status of the log (`StatusSound`). Between its two calls an invocation holds a row that
the order has or had, and the current one unless the order was misread (`RunSound`), for
nobody else writes the row meanwhile; so the part of the invariant that bounds from above
speaks of every version of a row, the old ones included (`Versions`), and the part that
bounds from below of orders outside `misread`. Items are bounded from below by what the
delivered records add, and from above too as long as nothing failed and no record in
delivery is poison (`ItemsSound`); reservations likewise, less what a cancellation in
progress has released or will not release (`ReservedSound`). The counts are
cardinalities of sets of records; that the greatest decision before a record exists is
shown from a minimal counterexample (`NatLessThanWellFounded`), not by induction.

**`RemoteCallsProofs`**, from `ClientsAssumption`, `PoolsAssumption`,
`FactoryAssumption`, `SecurityAssumption` and `OptimizerAssumption`, for any calls,
tasks, accounts, units, ports, findings and resources.

* `TypesCorrect`, `ReportsAddUp`, `AccountsGoverned`, `AnsweredClosed`,
  `TrackingTrue`: `AllSpec => []...`, for the composition.
* `TypeCorrect`, `BreakersSound` (`ClientBreakersSound`), `ScraperStaysOpen`
  (`OpenForEver`, an action property): `Spec => ...`, for the clients.

Each program has an invariant of its own, and a step of one leaves the others alone
(`StepsApart`).

* Clients: the count inside a breaker *is* the streak of failures, capped at the
  threshold (`BreakerSound`). A trial that fails then finds the count full and opens
  the breaker whatever its state was. `CallSound` ties each call's attempt to the
  requests it has sent.
* Workers: every task that is done has exactly one result, which is either counted or
  waiting (`ResultsSound`), results are of different tasks, a context is cancelled only
  after a failure that somebody will count or near the deadline (`CancelSound`). That no
  more results wait than there are tasks follows by an injection (`ResultsAreFew`).
* Account factory: an account has exactly the baseline calls that the call which
  asked for it has made (`AccountSound`), and no two calls have one account. The order of
  the baseline then gives the property.
* Remediation: while no administrator interferes, the open rules that an invocation still
  holds are all that are open (`InvocationSound`); a repeated invocation reads them again.
* Optimizer: an instance is down only in the hands of the run between its stop and the
  status, or has a status that says so, or was cut (`RunSound`, `StatusesSound`).

**`SagaExecutionProofs`**, from `SagasAssumption`, for any number of failures of tasks
that took effect.

* `SagaTypeCorrect` (`TypeOK`), `TasksHaveTheirInputs` (`InputsPresent`),
  `SagasDoAllOrNothing` (`AllOrNothing`): `Spec => []...`.
* `OnlyTheQueueBlocksOrders`: `Spec => OnlyDeadLetterQueueBlocks`.

The properties speak of the ends of an execution; the invariant speaks of every state on
the way there (`OrderAt`, `TravelAt`): which results are in the data, which steps are
done and, as long as no failure hid an effect, which are not done or already undone. So
a step of the proof is a fact about the state machine alone: from a state that agrees
with what is done, a task that succeeds, is tried again, is caught or aborts leads
to one that does (`OrderTaskSucceeds` and the lemmas after it, from the tables
`OrderTable` and `TravelTable`). The branches of the order saga write no result and
contain no step that another undoes (`OrderBranchDoes`), so it does not matter how they
interleave. `OrderAt` has no case for `CompensatePayment`: the proof
shows that the state is out of reach, which is the finding of `saga_shipment`.

**Model-checked only.** Liveness, all of it: fairness and `ENABLED` are out of the
prover's reach. Every other property of the passing runs is proved.

## 7. Where the code departs from its documents

Shown by a run that TLC must find violated:

* A cancellation of an order that does not exist is stored; `projector.py:98` then raises
  `KeyError` on every delivery and no later event of the shard is projected; an item
  added to such an order does the same at line 56 (problem-1 `README.md:29`, "Eventual consistency").
* `handle_transfer` stores its two events with two puts (`banking_commands.py:116`)
  under a comment that says "atomically" (line 114).
* `reserve_stock` oversells when two commands run at once (`inventory_system.py:23`;
  `README.md:25`, "Prevent overselling").
* A failed shipment is a success of its branch; `CompensatePayment` is
  unreachable and the order completes paid (`state_machine.json:124`; its `README.md:29`).
* On a signal `app.py` waits for its own thread (line 108) and neither stops nor
  answers (`modules/C_full_project/README.md:43`).

Met while modelling, part of the models, and kept out of the properties by their
premises:

* Both `get_item` calls of `projector.py` (lines 54 and 97) are eventually consistent, and
  line 71 writes back the row that was read: a late row loses an item, or brings back a
  status, for good, and a cancellation then releases less than was reserved. An
  `ItemAdded` whose quantity or price is no number, which `handle_add_item` stores
  unchecked, raises `TypeError` at line 66 on every delivery.
* A redelivered `ItemAdded` is appended and reserved again (the order system's
  projections are not idempotent). `ItemsMatchLog` and `NeverUnderReserved` say
  what is left: never too little.
* Orders: items after the confirmation, repeated cancellations and their repeated
  releases are accepted; `ReservedMatchesLog` excludes histories that go on after
  a cancellation. The advanced handler checks all of that, but its float price
  (line 127) is refused by the table, so no order ever gets an item.
* Banking: a transfer's puts have no condition, so they replace an event stored
  since the versions were read (line 115; `README.md:24`), its own withdrawal if it
  goes to the account it comes from; transfers check neither
  balance nor status; a retried command is stored again unless its event is the
  first item of the table (line 191; `README.md:28`); the hundredth version makes
  `create_snapshot` raise `TypeError` (line 183), so the command is reported failed
  although it is stored, and no snapshot ever exists.
* Inventory: two commands that read one version leave one event (line 38;
  `README.md:28`, audit trail); the alert is decided on the level read before the
  update (line 49; `README.md:27`), so concurrent reservations can cross the
  threshold unreported.
* Data access: reports and lists read one page; `update_invoice_status` creates a
  partial invoice if TTL was faster; `get_top_customers` groups by an attribute that
  no order has; `batch_get_items` ignores `UnprocessedKeys`.
* Advanced ride service: a ride whose event is refused, or meets an open breaker, is
  answered `pending` and nothing publishes it later (line 343; problem-1
  `README.md:78`, "All events delivered at-least-once"); `asyncio.sleep` at line 138 is
  not awaited, so attempts do not back off; two requests at once with one key make two
  rides; line 368 reads `context.request_id` outside the `try`.
* Simple ride services (problem-1 `README.md:34`, "Idempotent consumers"): the condition of
  the put looks at a fresh ride id, so an idempotency key never matches; it fails only
  for a put the SDK re-sent, which is answered "Already processed" and whose event is
  never published; two invocations, or a stale scan, give one driver two rides
  (`driver_service.py:29`), and drivers beyond the first page are never found (line 59);
  when `put_events` fails after a charge, or a record is sent again, the ride is charged
  again (`payment_service.py:24`); no service looks at `FailedEntryCount`. `solution.tf`
  sends the functions no `Records` and grants their role no scan, so as deployed every
  ride is forgotten; nothing publishes `RideCompleted`.
* API clients: `api_client_faang.py` makes a breaker and never asks it; the scraper's
  breaker never half-opens, so an open one ends all its requests for good
  (`ScraperStaysOpen`).
* `security_automation_advanced.py`: `get_session` is cached by an unhashable
  dataclass, so every remediation is reported as failed; a finding without `Id`
  leaves no result.
* `security_automation.py` looks at the first finding of an event only, and revoking an
  open rule takes the legitimate ranges of the same rule along.
* `account_factory.py`: boto3 has no waiter `account_created` (line 34), which the model
  takes as one that may fail; nothing is undone, so a failure leaves an account
  without its baseline, and the e-mail is taken for the next attempt.
* `optimizer.py`: the status is stored under a key without the time, so the monthly
  report, which reads recommendations, always counts none as executed; any RDS instance
  makes line 99 raise; `pending_approval` overwrites `failed`; a run cut off between two
  calls leaves an instance stopped and says nothing.
* Order saga: an aborted `ReleaseInventory`, or a dead letter queue that refuses the
  email, ends the execution with the reservation held (its `README.md:58`, "No orphaned
  reservations"). Travel saga: no state refunds a payment, and
  `SendConfirmation` has no `Catch`.
* `app_faang.py`: `_shutdown_event` is set (line 254, "Stop accepting new
  requests") and read nowhere; `main` waits for another event; after the cleanup
  the service goes on serving, and a second signal cleans up again.
* `go-http-service`: a signal between the start of the listening goroutine and
  `signal.Notify` kills the process (`main.go:37-46`).

## 8. What is not modelled

`PROJECT.json` gives the reason for each component. In groups:

* **Nothing left as written.** The clickstream processor parses base64 as JSON, and
  fails on its first record; a model of what was meant would not be of this code.
* **Linear scripts**: VMware migration, incident response, the IAM test, GCP and CLI
  examples, and the secret rotation function, whose steps Secrets Manager calls one
  after the other.
* **Filters and reports**: log and CSV parsers, log streamer, system health, most of
  the bash tools; their content is parsing, formatting and floating point.
* **Introductory programs**: the first versions of the Go and Python exercises,
  which make one request or print something, and the exam starters.
* **Declarative files**: Terraform, Kubernetes, CI, documentation. The parts of
  `solution.tf` that decide behaviour (key schema, stream, batch size, no retry
  limit, dead letter queues) are in the modules of the services they deploy.

Of the modelled components, left out are: in `data_access.py` users, orders and the
reports on them, which put or query once and promise nothing across calls; HTTP parsing and status codes beyond
success and failure, metrics and tracing, the ready flag and counters of the
servers, `handler` of the ride service around `create_ride`, the fraud service (which
publishes nothing), and the strategies of `security_automation_advanced.py` after
`get_session`.

## 9. Plan

Done: everything section 2 lists. What could follow, the most useful first:

1. Abstract specifications: an account ledger that deposits and withdrawals of
   `Banking` implement as `OrderCommands` implements `OrderLog`; one abstract breaker
   for `CircuitBreaker` and `ApiClients`.
2. The bash tools that move files in several steps and can be killed in between.

A new component joins an existing run where it shares a shape (a further value of
`part`, or of a constant such as `Programs`), so that the number of runs stays small.

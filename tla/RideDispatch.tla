------------------------------ MODULE RideDispatch -----------------------------
(* The simple services of 01-event-driven/problem-1: ride_service.py stores a  *)
(* ride and publishes it, driver_service.py gives it a driver, and             *)
(* payment_service.py charges it once it is completed.  The last two are       *)
(* written for events with Records (driver_service.py:20), which somebody      *)
(* outside the repository has to send: any batch of published rides, as often  *)
(* as they like.  What solution.tf sends, the event of the bus itself, has no  *)
(* Records: the first line of either handler raises KeyError and nothing       *)
(* changes.                                                                    *)
EXTENDS Naturals, Sequences, FiniteSets, SequencesExt

CONSTANTS
    Rides,        \* requests of clients: each makes a ride with an id of its own
    Drivers,
    FirstPage,    \* those on the one page that the scan reads
    Workers,      \* invocations of driver_service at one time
    BatchSize,
    MaxRepeats,   \* bound: invocations with a record that was sent before
    MaxFaults     \* bound: failed or refused calls, and lost responses

VARIABLES
    rides,        \* ride |-> how far ride_service is
    sent,         \* rides whose RideRequested the bus took
    delivered,    \* ride |-> how often driver_service was invoked with it
    drivers,      \* driver |-> currentRideId, or Available
    lagging,      \* taken drivers whom a scan may still see available
    workers,      \* invocation |-> its batch, where it is, and the driver it found
    announced,    \* the DriverAssigned events
    unheard,      \* those whose publication failed or was refused
    payments,     \* ride |-> charges, those whose event is to be published, events
    faults,
    repeats,
    overlap,      \* two invocations of driver_service were at work at once
    misled        \* a scan returned a driver who was taken

vars == <<rides, sent, delivered, drivers, lagging, workers, announced, unheard,
          payments, faults, repeats, overlap, misled>>

Available == "available"
Nobody == "nobody"

TypeOK ==
    /\ rides \in [Rides -> {"new", "resent", "stored", "201", "200", "failed", "completed"}]
    /\ sent \subseteq Rides
    /\ delivered \in [Rides -> Nat]
    /\ drivers \in [Drivers -> Rides \cup {Available}]
    /\ lagging \subseteq Drivers
    /\ workers \in [Workers -> [pc : {"idle", "find", "update", "publish"},
                                batch : Seq(Rides), at : Nat, found : Drivers \cup {Nobody}]]
    /\ announced \subseteq Drivers \X Rides /\ unheard \subseteq Drivers \X Rides
    /\ payments \in [Rides -> [charged : Nat, paying : Nat, told : Nat]]
    /\ faults \in 0 .. MaxFaults /\ repeats \in 0 .. MaxRepeats
    /\ overlap \in BOOLEAN /\ misled \in BOOLEAN

Idle == [pc |-> "idle", batch |-> << >>, at |-> 1, found |-> Nobody]

Init ==
    /\ rides = [r \in Rides |-> "new"]
    /\ sent = {}
    /\ delivered = [r \in Rides |-> 0]
    /\ drivers = [d \in Drivers |-> Available]
    /\ lagging = {}
    /\ workers = [w \in Workers |-> Idle]
    /\ announced = {} /\ unheard = {}
    /\ payments = [r \in Rides |-> [charged |-> 0, paying |-> 0, told |-> 0]]
    /\ faults = 0 /\ repeats = 0
    /\ overlap = FALSE /\ misled = FALSE

--------------------------------------------------------------------------------
Fault == faults < MaxFaults /\ faults' = faults + 1
Dispatch == <<delivered, drivers, lagging, workers, announced, unheard, repeats, overlap,
              misled>>

\* A record is sent for the first time, or once more.
Sending(again) ==
    IF again THEN repeats < MaxRepeats /\ repeats' = repeats + 1 ELSE UNCHANGED repeats

\* ride_service: the put.  Its condition looks at the item with the new ride id, so it
\* holds whatever the idempotency key.
StoreRide(r) ==
    /\ rides[r] = "new"
    /\ rides' = [rides EXCEPT ![r] = "stored"]
    /\ UNCHANGED <<sent, Dispatch, payments, faults>>

\* The response is lost, and the SDK puts the item again.
StoreUnacknowledged(r) ==
    /\ rides[r] = "new"
    /\ Fault
    /\ rides' = [rides EXCEPT ![r] = "resent"]
    /\ UNCHANGED <<sent, Dispatch, payments>>

\* Only then the condition fails, and the ride of this very request is taken for one
\* that was processed before.
AlreadyProcessed(r) ==
    /\ rides[r] = "resent"
    /\ rides' = [rides EXCEPT ![r] = "200"]
    /\ UNCHANGED <<sent, Dispatch, payments, faults>>

\* put_events: the bus takes the event.
PublishRide(r) ==
    /\ rides[r] = "stored"
    /\ rides' = [rides EXCEPT ![r] = "201"]
    /\ sent' = sent \cup {r}
    /\ UNCHANGED <<Dispatch, payments, faults>>

\* The answer of put_events says that the bus took no entry; no service looks at it.
PublishRideRefused(r) ==
    /\ rides[r] = "stored"
    /\ Fault
    /\ rides' = [rides EXCEPT ![r] = "201"]
    /\ UNCHANGED <<sent, Dispatch, payments>>

\* A call of ride_service fails: the ride is not stored, or stored and not published, or
\* published although the client is told of an error.
FailRequest(r) ==
    /\ rides[r] \in {"new", "stored"}
    /\ Fault
    /\ rides' = [rides EXCEPT ![r] = "failed"]
    /\ \/ UNCHANGED sent
       \/ rides[r] = "stored" /\ sent' = sent \cup {r}
    /\ UNCHANGED <<Dispatch, payments>>

--------------------------------------------------------------------------------
Busy == {w \in Workers : workers[w].pc # "idle"}
Ride(w) == workers[w].batch[workers[w].at]
ToFind(w) == [workers[w] EXCEPT !.pc = "find", !.found = Nobody]
Batches == UNION {{s \in [1 .. n -> Rides] : IsInjective(s)} : n \in 1 .. BatchSize}

\* driver_service is invoked with a batch of records, sent before or not.
Invoke(w, batch) ==
    /\ w \notin Busy
    /\ ToSet(batch) \subseteq sent
    /\ Sending(\E r \in ToSet(batch) : delivered[r] > 0)
    /\ delivered' = [r \in Rides |-> IF r \in ToSet(batch) THEN delivered[r] + 1
                                                           ELSE delivered[r]]
    /\ workers' = [workers EXCEPT ![w] = [Idle EXCEPT !.pc = "find", !.batch = batch]]
    /\ overlap' = (overlap \/ Busy # {})
    /\ UNCHANGED <<rides, sent, drivers, lagging, announced, unheard, payments, faults,
                   misled>>

\* The record is done: the next one, or the end of the batch.
NextRecord(w) ==
    IF workers[w].at < Len(workers[w].batch)
    THEN [ToFind(w) EXCEPT !.at = @ + 1]
    ELSE Idle

\* find_nearest_driver: an available driver of the page, or one whom the eventually
\* consistent scan still shows available.
FindNearestDriver(w, d) ==
    /\ workers[w].pc = "find"
    /\ d \in FirstPage /\ (drivers[d] = Available \/ d \in lagging)
    /\ workers' = [workers EXCEPT ![w].pc = "update", ![w].found = d]
    /\ misled' = (misled \/ drivers[d] # Available)
    /\ UNCHANGED <<rides, sent, delivered, drivers, lagging, announced, unheard,
                   payments, faults, repeats, overlap>>

\* Without one on the page the record is passed over.
FindNobody(w) ==
    /\ workers[w].pc = "find"
    /\ \A d \in FirstPage : drivers[d] # Available
    /\ workers' = [workers EXCEPT ![w] = NextRecord(w)]
    /\ UNCHANGED <<rides, sent, delivered, drivers, lagging, announced, unheard,
                   payments, faults, repeats, overlap, misled>>

\* Fault: the driver is told before the table is updated.
PublishFirst(w) ==
    /\ workers[w].pc = "update"
    /\ announced' = announced \cup {<<workers[w].found, Ride(w)>>}
    /\ workers' = [workers EXCEPT ![w].pc = "publish"]
    /\ UNCHANGED <<rides, sent, delivered, drivers, lagging, unheard, payments, faults,
                   repeats, overlap, misled>>

\* update_item, without a condition on the status the scan saw.
UpdateDriver(w) ==
    /\ workers[w].pc = "update"
    /\ drivers' = [drivers EXCEPT ![workers[w].found] = Ride(w)]
    /\ lagging' = lagging \cup {workers[w].found}
    /\ workers' = [workers EXCEPT ![w].pc = "publish"]
    /\ UNCHANGED <<rides, sent, delivered, announced, unheard, payments, faults,
                   repeats, overlap, misled>>

\* From now on every scan sees the driver as taken.
Settle(d) ==
    /\ d \in lagging
    /\ lagging' = lagging \ {d}
    /\ UNCHANGED <<rides, sent, delivered, drivers, workers, announced, unheard,
                   payments, faults, repeats, overlap, misled>>

PublishDriverAssigned(w) ==
    /\ workers[w].pc = "publish"
    /\ announced' = announced \cup {<<workers[w].found, Ride(w)>>}
    /\ workers' = [workers EXCEPT ![w] = NextRecord(w)]
    /\ UNCHANGED <<rides, sent, delivered, drivers, lagging, unheard, payments, faults,
                   repeats, overlap, misled>>

\* The bus takes no entry, which is not looked at.
PublishDriverRefused(w) ==
    /\ workers[w].pc = "publish"
    /\ Fault
    /\ unheard' = unheard \cup {<<workers[w].found, Ride(w)>>}
    /\ workers' = [workers EXCEPT ![w] = NextRecord(w)]
    /\ UNCHANGED <<rides, sent, delivered, drivers, lagging, announced, payments,
                   repeats, overlap, misled>>

\* A call raises or the invocation dies: the records done stay done, and the batch is
\* whoever's sent it.
FailInvocation(w) ==
    /\ w \in Busy
    /\ Fault
    /\ unheard' = IF workers[w].pc = "publish"
                  THEN unheard \cup {<<workers[w].found, Ride(w)>>}
                  ELSE unheard
    /\ workers' = [workers EXCEPT ![w] = Idle]
    /\ UNCHANGED <<rides, sent, delivered, drivers, lagging, announced, payments,
                   repeats, overlap, misled>>

--------------------------------------------------------------------------------
\* A ride that a driver was told of is completed.
Complete(r) ==
    /\ rides[r] # "completed" /\ \E d \in Drivers : <<d, r>> \in announced
    /\ rides' = [rides EXCEPT ![r] = "completed"]
    /\ UNCHANGED <<sent, Dispatch, payments, faults>>

\* payment_service is invoked with the record of a completed ride, for the first time or
\* again, and charges; process_payment never refuses and remembers nothing.
ProcessPayment(r) ==
    /\ rides[r] = "completed"
    /\ Sending(payments[r].charged > 0)
    /\ payments' = [payments EXCEPT ![r].charged = @ + 1, ![r].paying = @ + 1]
    /\ UNCHANGED <<rides, sent, delivered, drivers, lagging, workers, announced, unheard,
                   faults, overlap, misled>>

PublishPaymentProcessed(r) ==
    /\ payments[r].paying > 0
    /\ payments' = [payments EXCEPT ![r].paying = @ - 1, ![r].told = @ + 1]
    /\ UNCHANGED <<rides, sent, Dispatch, faults>>

\* put_events raises, or the invocation dies, or the bus takes no entry: the customer is
\* charged without an event, and charged once more if the record is sent again.
PaymentUnpublished(r) ==
    /\ payments[r].paying > 0
    /\ Fault
    /\ payments' = [payments EXCEPT ![r].paying = @ - 1]
    /\ UNCHANGED <<rides, sent, Dispatch>>

Serve(r) ==
    \/ StoreRide(r) \/ StoreUnacknowledged(r) \/ AlreadyProcessed(r)
    \/ PublishRide(r) \/ PublishRideRefused(r) \/ FailRequest(r)
Pay(r) ==
    Complete(r) \/ ProcessPayment(r) \/ PublishPaymentProcessed(r) \/ PaymentUnpublished(r)

Work(w) ==
    \/ \E batch \in Batches : Invoke(w, batch)
    \/ \E d \in Drivers : FindNearestDriver(w, d)
    \/ FindNobody(w) \/ UpdateDriver(w) \/ PublishDriverAssigned(w)
    \/ PublishDriverRefused(w) \/ FailInvocation(w)

Next ==
    \/ \E r \in Rides : Serve(r) \/ Pay(r)
    \/ \E w \in Workers : Work(w)
    \/ \E d \in Drivers : Settle(d)

Spec == Init /\ [][Next]_vars

--------------------------------------------------------------------------------
RidesOf(d) == {r \in Rides : <<d, r>> \in announced}
DriversOf(r) == {d \in Drivers : <<d, r>> \in announced}

\* A driver is told of a ride only when the table says so or said so before another
\* ride took its place, and every taken driver knows of the ride, or is about to be
\* told, or the call to tell failed.  A ride sent once gets one driver.  As long as the
\* invocations do not overlap and no scan shows a driver who is taken, a driver gets
\* one ride.  Only a ride with a driver is charged, and every charge has its event, or
\* waits for it, unless something failed.
DispatchIsSound ==
    /\ \A d \in Drivers : \A r \in RidesOf(d) : drivers[d] # Available /\ r \in sent
    /\ \A d \in Drivers : drivers[d] # Available =>
           \/ <<d, drivers[d]>> \in announced \cup unheard
           \/ \E w \in Workers : /\ workers[w].pc = "publish"
                                 /\ workers[w].found = d /\ Ride(w) = drivers[d]
    /\ \A r \in Rides : delivered[r] <= 1 => Cardinality(DriversOf(r)) <= 1
    /\ ~ overlap /\ ~ misled => \A d \in Drivers : Cardinality(RidesOf(d)) <= 1
    /\ \A r \in Rides :
           /\ payments[r].charged > 0 => DriversOf(r) # {}
           /\ payments[r].charged <= payments[r].told + payments[r].paying + faults
================================================================================

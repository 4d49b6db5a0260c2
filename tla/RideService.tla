------------------------------ MODULE RideService ------------------------------
(* create_ride of 01-event-driven/problem-1/ride_service_advanced.py: the      *)
(* idempotency check, the ride, its event with circuit breaker and retries,    *)
(* and the idempotency record, one call to AWS per step.  Requests run         *)
(* concurrently, each in a container with a breaker of its own, and clients    *)
(* repeat a request with its idempotency key whenever they want.               *)
EXTENDS CircuitBreaker

CONSTANTS
    Requests,     \* requests, each with a ride id of its own
    Keys,         \* idempotency keys
    KeyOf,        \* request |-> its idempotency key
    Containers,   \* execution environments, each with one EventPublisher
    MaxAttempts   \* max_attempts of retry_with_backoff

ASSUME AttemptsArePositive == MaxAttempts \in Nat \ {0}
ASSUME EveryRequestHasKey == KeyOf \in [Requests -> Keys]

VARIABLES
    requests,   \* request |-> its progress, container and failed publications
    breaker,    \* container |-> its circuit breaker
    rides,      \* requests whose ride is in the rides table
    published,  \* requests whose RideRequested event reached the bus
    recorded    \* keys in the idempotency table

vars == <<requests, breaker, rides, published, recorded>>

Working == {"store", "publish", "record"}
Answers == {"created", "pending", "duplicate", "error"}

TypeOK ==
    /\ requests \in [Requests -> [pc : {"new"} \cup Working \cup Answers,
                                  on : Containers, failed : 0 .. MaxAttempts - 1]]
    /\ breaker \in [Containers -> Breakers]
    /\ rides \subseteq Requests
    /\ published \subseteq Requests
    /\ recorded \subseteq Keys

Init ==
    /\ requests \in [Requests -> [pc : {"new"}, on : Containers, failed : {0}]]
    /\ breaker = [c \in Containers |-> NewBreaker]
    /\ rides = {}
    /\ published = {}
    /\ recorded = {}

--------------------------------------------------------------------------------
Goto(r, pc) == requests' = [requests EXCEPT ![r] = [@ EXCEPT !.pc = pc, !.failed = 0]]

\* A container runs one request at a time.
Free(c) == \A r \in Requests : requests[r].on = c => requests[r].pc \notin Working

\* is_duplicate: the read may be behind, and an error counts as not found.
CheckDuplicate(r, found) ==
    /\ requests[r].pc = "new"
    /\ Free(requests[r].on)
    /\ found => KeyOf[r] \in recorded
    /\ Goto(r, IF found THEN "duplicate" ELSE "store")
    /\ UNCHANGED <<breaker, rides, published, recorded>>

StoreRide(r) ==
    /\ requests[r].pc = "store"
    /\ rides' = rides \cup {r}
    /\ Goto(r, "publish")
    /\ UNCHANGED <<breaker, published, recorded>>

\* The breaker is open: publish returns False, the ride is answered as pending.
BreakerRefuses(r) ==
    /\ requests[r].pc = "publish"
    /\ ~ MayCall(breaker[requests[r].on])
    /\ Goto(r, "pending")
    /\ UNCHANGED <<breaker, rides, published, recorded>>

\* The breaker of the request's container while it lets a call through.
Admitting(r) == Admitted(breaker[requests[r].on])

\* A call of put_events leaves the breaker it goes through as after.
Calls(r, after) ==
    /\ requests[r].pc = "publish"
    /\ MayCall(breaker[requests[r].on])
    /\ breaker' = [breaker EXCEPT ![requests[r].on] = after]

PutEventsAccepts(r) ==
    /\ Calls(r, OnSuccess(Admitting(r)))
    /\ published' = published \cup {r}
    /\ Goto(r, "record")
    /\ UNCHANGED <<rides, recorded>>

\* Fault: a publication that the bus refused counts as one that it took.
PutEventsRefusesUnseen(r) ==
    /\ Calls(r, OnSuccess(Admitting(r)))
    /\ Goto(r, "record")
    /\ UNCHANGED <<rides, published, recorded>>

\* FailedEntryCount > 0: a success for the breaker, no retry, pending.
PutEventsRefuses(r) ==
    /\ Calls(r, OnSuccess(Admitting(r)))
    /\ Goto(r, "pending")
    /\ UNCHANGED <<rides, published, recorded>>

\* Fault: one attempt too many.
PutEventsRaisesOnceMore(r, reached) ==
    /\ Calls(r, OnFailure(Admitting(r)))
    /\ published' = IF reached THEN published \cup {r} ELSE published
    /\ IF requests[r].failed < MaxAttempts
       THEN requests' = [requests EXCEPT ![r].failed = @ + 1]
       ELSE Goto(r, "error")
    /\ UNCHANGED <<rides, recorded>>

\* Fault: the attempts are not counted.
PutEventsRaisesUncounted(r, reached) ==
    /\ Calls(r, OnFailure(Admitting(r)))
    /\ published' = IF reached THEN published \cup {r} ELSE published
    /\ UNCHANGED <<requests, rides, recorded>>

\* An exception, whether or not the event reached the bus: publish is tried again
\* at once (the sleep is never awaited) until the attempts are used up.
PutEventsRaises(r, reached) ==
    /\ Calls(r, OnFailure(Admitting(r)))
    /\ published' = IF reached THEN published \cup {r} ELSE published
    /\ IF requests[r].failed + 1 < MaxAttempts
       THEN requests' = [requests EXCEPT ![r].failed = @ + 1]
       ELSE Goto(r, "error")
    /\ UNCHANGED <<rides, recorded>>

RecordIdempotency(r) ==
    /\ requests[r].pc = "record"
    /\ recorded' = recorded \cup {KeyOf[r]}
    /\ Goto(r, "created")
    /\ UNCHANGED <<breaker, rides, published>>

\* A call to a table fails, or the invocation times out: 500.
Die(r) ==
    /\ requests[r].pc \in Working
    /\ Goto(r, "error")
    /\ UNCHANGED <<breaker, rides, published, recorded>>

\* timeout seconds pass without another failure in the container.
CoolDown(c) ==
    /\ breaker[c].cooling
    /\ breaker' = [breaker EXCEPT ![c] = Cooled(@)]
    /\ UNCHANGED <<requests, rides, published, recorded>>

Handle(r) ==
    \/ \E found \in BOOLEAN : CheckDuplicate(r, found)
    \/ StoreRide(r)
    \/ BreakerRefuses(r)
    \/ PutEventsAccepts(r)
    \/ PutEventsRefuses(r)
    \/ \E reached \in BOOLEAN : PutEventsRaises(r, reached)
    \/ RecordIdempotency(r)

Next ==
    \/ \E r \in Requests : Handle(r) \/ Die(r)
    \/ \E c \in Containers : CoolDown(c)

Spec == Init /\ [][Next]_vars

\* Lambda runs an invocation it has begun, at the latest until its time limit.
FairSpec == Spec /\ \A r \in Requests : WF_vars(requests[r].pc # "new" /\ Handle(r))

--------------------------------------------------------------------------------
\* In every container the breaker's state agrees with its counters.
BreakersSound == \A c \in Containers : Sound(breaker[c])

\* A client that was answered "created" has its ride stored, its event published
\* and its key recorded; one that was answered "duplicate" has all of that from
\* an earlier request with its key.
AnswersAreTrue ==
    \A r \in Requests :
        /\ requests[r].pc = "created" =>
               r \in rides /\ r \in published /\ KeyOf[r] \in recorded
        /\ requests[r].pc = "duplicate" =>
               \E q \in (rides \cap published) \ {r} : KeyOf[q] = KeyOf[r]

\* Every request that was begun is answered.
EventuallyAnswered ==
    \A r \in Requests : requests[r].pc \in Working ~> requests[r].pc \in Answers

================================================================================

--------------------------- MODULE RideServiceProofs ---------------------------
(* Proofs about RideService and its circuit breaker, for any number of         *)
(* requests, keys and containers and any thresholds, about RideDispatch for    *)
(* any rides, drivers, invocations, batches and failures, and about the two of   *)
(* them composed.                                                              *)
EXTENDS RideServices, FiniteSetTheorems, SequenceTheorems, TLAPS

\* What the handler's place in create_ride says about the tables.
Progress ==
    \A r \in Requests :
        /\ requests[r].pc \in {"publish", "record", "created"} => r \in rides
        /\ requests[r].pc \in {"record", "created"} => r \in published

\* A recorded key was recorded by a request that was answered "created".
RecordedByCreated ==
    \A k \in recorded : \E q \in Requests :
        KeyOf[q] = k /\ requests[q].pc = "created"

IInv == TypeOK /\ BreakersSound /\ Progress /\ RecordedByCreated /\ AnswersAreTrue

--------------------------------------------------------------------------------
\* A new breaker is sound.
LEMMA NewBreakerIsSound == NewBreaker \in Breakers /\ Sound(NewBreaker)
  BY ThresholdsArePositive DEF NewBreaker, Breakers, Sound

\* Admitting a call, then its success or its failure, keeps a breaker sound, and
\* so does time that passes.
LEMMA CallsKeepBreakerSound ==
    ASSUME NEW b \in Breakers, Sound(b)
    PROVE  /\ OnSuccess(Admitted(b)) \in Breakers /\ Sound(OnSuccess(Admitted(b)))
           /\ OnFailure(Admitted(b)) \in Breakers /\ Sound(OnFailure(Admitted(b)))
           /\ Cooled(b) \in Breakers /\ Sound(Cooled(b))
<1>1. Admitted(b) \in Breakers /\ Sound(Admitted(b))
  <2>1. CASE b.state = "open"
    <3>1. DEFINE a == [b EXCEPT !.state = "half_open", !.trials = 0]
    <3>2. /\ a \in Breakers
          /\ a.state = "half_open"
          /\ a.trials = 0
          /\ a.failures = b.failures
      <4>1. 0 \in 0 .. HalfOpenMaxCalls
        BY ThresholdsArePositive
      <4>2. QED
        BY <4>1 DEF Breakers
    <3>3. Sound(a)
      BY <2>1, <3>2, ThresholdsArePositive DEF Sound
    <3>4. QED
      BY <2>1, <3>2, <3>3 DEF Admitted
  <2>2. CASE b.state # "open"
    BY <2>2 DEF Admitted
  <2>3. QED
    BY <2>1, <2>2
<1>2. ASSUME NEW a \in Breakers, Sound(a)
      PROVE  OnSuccess(a) \in Breakers /\ Sound(OnSuccess(a))
  <2>1. CASE a.state # "half_open"
    BY <1>2, <2>1 DEF OnSuccess
  <2>2. CASE a.state = "half_open" /\ a.trials + 1 < HalfOpenMaxCalls
    <3>1. DEFINE d == [a EXCEPT !.trials = @ + 1]
    <3>2. /\ d \in Breakers
          /\ d.state = "half_open"
          /\ d.trials = a.trials + 1
          /\ d.failures = a.failures
      BY <2>2, ThresholdsArePositive DEF Breakers
    <3>3. QED
      BY <1>2, <2>2, <3>2 DEF OnSuccess, Sound
  <2>3. CASE a.state = "half_open" /\ ~ (a.trials + 1 < HalfOpenMaxCalls)
    <3>1. DEFINE d == [a EXCEPT !.state = "closed", !.trials = @ + 1, !.failures = 0]
    <3>2. d \in Breakers /\ d.state = "closed" /\ d.failures = 0
      <4>1. a.trials + 1 \in 0 .. HalfOpenMaxCalls
        BY <1>2, <2>3, ThresholdsArePositive DEF Breakers, Sound
      <4>2. 0 \in 0 .. FailureThreshold
        BY ThresholdsArePositive
      <4>3. QED
        BY <4>1, <4>2 DEF Breakers
    <3>3. QED
      BY <2>3, <3>2, ThresholdsArePositive DEF OnSuccess, Sound
  <2>4. QED
    BY <2>1, <2>2, <2>3
<1>3. ASSUME NEW a \in Breakers, Sound(a)
      PROVE  OnFailure(a) \in Breakers /\ Sound(OnFailure(a))
  <2>1. DEFINE failures == IF a.failures < FailureThreshold THEN a.failures + 1
                           ELSE FailureThreshold
               state == IF failures = FailureThreshold THEN "open" ELSE a.state
               d == [a EXCEPT !.failures = failures, !.cooling = TRUE, !.state = state]
  <2>2. failures \in 0 .. FailureThreshold /\ state \in {"closed", "open", "half_open"}
    BY ThresholdsArePositive DEF Breakers
  <2>3. state = "closed" <=> failures < FailureThreshold
    BY <1>3, ThresholdsArePositive DEF Breakers, Sound
  <2>4. state = "half_open" => a.trials < HalfOpenMaxCalls
    BY <1>3 DEF Sound
  <2>5. d \in Breakers /\ d.state = state /\ d.failures = failures /\ d.trials = a.trials
    <3> HIDE DEF failures, state
    <3> QED
      BY <2>2 DEF Breakers
  <2>6. OnFailure(a) = d
    BY DEF OnFailure, Breakers
  <2>7. QED
    <3> HIDE DEF failures, state, d
    <3> QED
      BY <2>3, <2>4, <2>5, <2>6 DEF Sound
<1>4. Cooled(b) \in Breakers /\ Sound(Cooled(b))
  BY DEF Breakers, Sound, Cooled
<1>5. QED
  BY <1>1, <1>2, <1>3, <1>4

--------------------------------------------------------------------------------
\* The invariant holds at the start.
LEMMA InitIsSound == Init => IInv
<1> SUFFICES ASSUME Init PROVE IInv
  OBVIOUS
<1>1. \A r \in Requests : requests[r].pc = "new"
  BY DEF Init
<1>2. TypeOK
  <2>1. 0 \in 0 .. MaxAttempts - 1
    BY AttemptsArePositive
  <2>2. requests \in [Requests -> [pc : {"new"} \cup Working \cup Answers,
                                   on : Containers, failed : 0 .. MaxAttempts - 1]]
    BY <2>1 DEF Init
  <2>3. QED
    BY <2>2, NewBreakerIsSound DEF Init, TypeOK
<1>3. BreakersSound
  BY NewBreakerIsSound DEF Init, BreakersSound
<1>4. Progress /\ RecordedByCreated /\ AnswersAreTrue
  BY <1>1 DEF Init, Progress, RecordedByCreated, AnswersAreTrue
<1>5. QED
  BY <1>2, <1>3, <1>4 DEF IInv

\* A request that moves on keeps its type.
LEMMA GotoIsTyped ==
    ASSUME TypeOK, NEW r \in Requests,
           NEW pc \in {"new"} \cup Working \cup Answers, Goto(r, pc)
    PROVE  /\ requests' \in [Requests -> [pc : {"new"} \cup Working \cup Answers,
                                          on : Containers, failed : 0 .. MaxAttempts - 1]]
           /\ requests'[r].pc = pc
           /\ \A q \in Requests \ {r} : requests'[q] = requests[q]
<1>1. 0 \in 0 .. MaxAttempts - 1
  BY AttemptsArePositive
<1>2. QED
  BY <1>1 DEF TypeOK, Goto

\* Every change of a breaker keeps all of them typed and sound.
LEMMA CallsAreSound ==
    ASSUME TypeOK, BreakersSound,
           NEW c \in Containers, NEW b \in Breakers, Sound(b),
           breaker' = [breaker EXCEPT ![c] = b]
    PROVE  breaker' \in [Containers -> Breakers] /\ BreakersSound'
BY DEF TypeOK, BreakersSound

\* Whatever happens to a call of put_events, the breakers stay sound.
LEMMA PutEventsIsSound ==
    ASSUME TypeOK, BreakersSound, NEW r \in Requests,
           Calls(r, OnSuccess(Admitting(r))) \/ Calls(r, OnFailure(Admitting(r)))
    PROVE  breaker' \in [Containers -> Breakers] /\ BreakersSound'
<1> DEFINE c == requests[r].on
<1>1. c \in Containers /\ breaker[c] \in Breakers /\ Sound(breaker[c])
  BY DEF TypeOK, BreakersSound
<1>2. CASE breaker' = [breaker EXCEPT ![c] = OnSuccess(Admitted(breaker[c]))]
  BY <1>1, <1>2, CallsKeepBreakerSound, CallsAreSound
<1>3. CASE breaker' = [breaker EXCEPT ![c] = OnFailure(Admitted(breaker[c]))]
  BY <1>1, <1>3, CallsKeepBreakerSound, CallsAreSound
<1>4. QED
  BY <1>2, <1>3 DEF Calls, Admitting

\* A step that moves one request on preserves the invariants about the tables,
\* as long as the tables only grow, and with what the request's place says.
LEMMA MovesKeepTables ==
    ASSUME Progress, RecordedByCreated, AnswersAreTrue,
           NEW r \in Requests,
           requests[r].pc \notin Answers,
           \A q \in Requests \ {r} : requests'[q] = requests[q],
           rides \subseteq rides', published \subseteq published',
           recorded \subseteq recorded',
           requests'[r].pc \in {"publish", "record", "created"} => r \in rides',
           requests'[r].pc \in {"record", "created"} => r \in published',
           requests'[r].pc = "created" => KeyOf[r] \in recorded',
           requests'[r].pc = "duplicate" => KeyOf[r] \in recorded,
           \A k \in recorded' \ recorded : k = KeyOf[r] /\ requests'[r].pc = "created"
    PROVE  Progress' /\ RecordedByCreated' /\ AnswersAreTrue'
<1>1. Progress'
  BY DEF Progress
<1>2. RecordedByCreated'
  <2> SUFFICES ASSUME NEW k \in recorded'
               PROVE  \E q \in Requests : KeyOf[q] = k /\ requests'[q].pc = "created"
    BY DEF RecordedByCreated
  <2>1. CASE k \in recorded
    <3>1. PICK q \in Requests : KeyOf[q] = k /\ requests[q].pc = "created"
      BY <2>1 DEF RecordedByCreated
    <3>2. q # r
      BY <3>1 DEF Answers
    <3>3. QED
      BY <3>1, <3>2
  <2>2. CASE k \notin recorded
    BY <2>2
  <2>3. QED
    BY <2>1, <2>2
<1>3. AnswersAreTrue'
  <2> SUFFICES ASSUME NEW p \in Requests
               PROVE  /\ requests'[p].pc = "created" =>
                            p \in rides' /\ p \in published' /\ KeyOf[p] \in recorded'
                      /\ requests'[p].pc = "duplicate" =>
                            \E q \in (rides' \cap published') \ {p} : KeyOf[q] = KeyOf[p]
    BY DEF AnswersAreTrue
  <2>1. CASE p # r
    BY <2>1 DEF AnswersAreTrue
  <2>2. CASE p = r
    <3>1. ASSUME requests'[r].pc = "duplicate"
          PROVE  \E q \in (rides' \cap published') \ {r} : KeyOf[q] = KeyOf[r]
      <4>1. PICK q \in Requests : KeyOf[q] = KeyOf[r] /\ requests[q].pc = "created"
        BY <3>1 DEF RecordedByCreated
      <4>2. q # r
        BY <4>1 DEF Answers
      <4>3. q \in rides /\ q \in published
        BY <4>1 DEF Progress
      <4>4. QED
        BY <4>1, <4>2, <4>3
    <3>2. QED
      BY <2>2, <3>1
  <2>3. QED
    BY <2>1, <2>2
<1>4. QED
  BY <1>1, <1>2, <1>3

--------------------------------------------------------------------------------
\* No step of a request, and no time that passes, breaks the invariant.
LEMMA StepKeepsSound == IInv /\ [Next]_vars => IInv'
<1> SUFFICES ASSUME IInv, [Next]_vars PROVE IInv'
  OBVIOUS
<1> USE DEF IInv
<1>1. ASSUME NEW r \in Requests, Handle(r) \/ Die(r) PROVE IInv'
  <2> DEFINE Tables == Progress' /\ RecordedByCreated' /\ AnswersAreTrue'
  <2>1. ASSUME NEW found \in BOOLEAN, CheckDuplicate(r, found) PROVE IInv'
    <3>1. DEFINE pc == IF found THEN "duplicate" ELSE "store"
    <3>2. Goto(r, pc) /\ pc \in {"new"} \cup Working \cup Answers
      BY <2>1 DEF CheckDuplicate, Working, Answers
    <3>3. TypeOK' /\ BreakersSound'
      BY <2>1, <3>2, GotoIsTyped DEF CheckDuplicate, TypeOK, BreakersSound
    <3>4. requests'[r].pc = pc /\ \A q \in Requests \ {r} : requests'[q] = requests[q]
      BY <3>2, GotoIsTyped
    <3>5. requests[r].pc \notin Answers
      BY <2>1 DEF CheckDuplicate, Answers
    <3>6. pc = "duplicate" => KeyOf[r] \in recorded
      BY <2>1 DEF CheckDuplicate
    <3>7. Tables
      BY <2>1, <3>4, <3>5, <3>6, MovesKeepTables DEF CheckDuplicate
    <3>8. QED
      BY <3>3, <3>7
  <2>2. CASE StoreRide(r)
    <3>1. Goto(r, "publish")
      BY <2>2 DEF StoreRide
    <3>2. TypeOK' /\ BreakersSound'
      BY <2>2, <3>1, GotoIsTyped DEF StoreRide, TypeOK, BreakersSound, Working
    <3>3. requests'[r].pc = "publish" /\ \A q \in Requests \ {r} : requests'[q] = requests[q]
      BY <3>1, GotoIsTyped DEF Working
    <3>4. Tables
      BY <2>2, <3>3, MovesKeepTables DEF StoreRide, Answers
    <3>5. QED
      BY <3>2, <3>4
  <2>3. CASE BreakerRefuses(r)
    <3>1. Goto(r, "pending")
      BY <2>3 DEF BreakerRefuses
    <3>2. TypeOK' /\ BreakersSound'
      BY <2>3, <3>1, GotoIsTyped DEF BreakerRefuses, TypeOK, BreakersSound, Answers
    <3>3. requests'[r].pc = "pending" /\ \A q \in Requests \ {r} : requests'[q] = requests[q]
      BY <3>1, GotoIsTyped DEF Answers
    <3>4. Tables
      BY <2>3, <3>3, MovesKeepTables DEF BreakerRefuses, Answers
    <3>5. QED
      BY <3>2, <3>4
  <2>4. CASE PutEventsAccepts(r)
    <3>1. Goto(r, "record") /\ Calls(r, OnSuccess(Admitting(r)))
      BY <2>4 DEF PutEventsAccepts
    <3>2. TypeOK' /\ BreakersSound'
      BY <2>4, <3>1, GotoIsTyped, PutEventsIsSound DEF PutEventsAccepts, TypeOK, Working
    <3>3. requests'[r].pc = "record" /\ \A q \in Requests \ {r} : requests'[q] = requests[q]
      BY <3>1, GotoIsTyped DEF Working
    <3>4. requests[r].pc = "publish"
      BY <3>1 DEF Calls
    <3>5. r \in rides
      BY <3>4 DEF Progress
    <3>6. Tables
      BY <2>4, <3>3, <3>4, <3>5, MovesKeepTables DEF PutEventsAccepts, Answers
    <3>7. QED
      BY <3>2, <3>6
  <2>5. CASE PutEventsRefuses(r)
    <3>1. Goto(r, "pending") /\ Calls(r, OnSuccess(Admitting(r)))
      BY <2>5 DEF PutEventsRefuses
    <3>2. TypeOK' /\ BreakersSound'
      BY <2>5, <3>1, GotoIsTyped, PutEventsIsSound DEF PutEventsRefuses, TypeOK, Answers
    <3>3. requests'[r].pc = "pending" /\ \A q \in Requests \ {r} : requests'[q] = requests[q]
      BY <3>1, GotoIsTyped DEF Answers
    <3>4. requests[r].pc = "publish"
      BY <3>1 DEF Calls
    <3>5. Tables
      BY <2>5, <3>3, <3>4, MovesKeepTables DEF PutEventsRefuses, Answers
    <3>6. QED
      BY <3>2, <3>5
  <2>6. ASSUME NEW reached \in BOOLEAN, PutEventsRaises(r, reached) PROVE IInv'
    <3>1. Calls(r, OnFailure(Admitting(r))) /\ UNCHANGED <<rides, recorded>>
      BY <2>6 DEF PutEventsRaises
    <3>2. published \subseteq published' /\ published' \subseteq Requests
      BY <2>6 DEF PutEventsRaises, TypeOK
    <3>3. requests[r].pc = "publish"
      BY <3>1 DEF Calls
    <3>4. /\ requests' \in [Requests -> [pc : {"new"} \cup Working \cup Answers,
                                         on : Containers, failed : 0 .. MaxAttempts - 1]]
          /\ requests'[r].pc \in {"publish", "error"}
          /\ \A q \in Requests \ {r} : requests'[q] = requests[q]
      <4>1. CASE requests[r].failed + 1 < MaxAttempts
        <5>1. requests' = [requests EXCEPT ![r].failed = @ + 1]
          BY <2>6, <4>1 DEF PutEventsRaises
        <5>2. requests[r].failed + 1 \in 0 .. MaxAttempts - 1
          BY <4>1, AttemptsArePositive DEF TypeOK
        <5>3. QED
          BY <3>3, <5>1, <5>2 DEF TypeOK
      <4>2. CASE ~ (requests[r].failed + 1 < MaxAttempts)
        <5>1. Goto(r, "error")
          BY <2>6, <4>2 DEF PutEventsRaises
        <5>2. QED
          BY <5>1, GotoIsTyped DEF Answers
      <4>3. QED
        BY <4>1, <4>2
    <3>5. TypeOK' /\ BreakersSound'
      BY <3>1, <3>2, <3>4, PutEventsIsSound DEF TypeOK
    <3>6. r \in rides
      BY <3>3 DEF Progress
    <3>7. Tables
      BY <3>1, <3>2, <3>3, <3>4, <3>6, MovesKeepTables DEF Answers
    <3>8. QED
      BY <3>5, <3>7
  <2>7. CASE RecordIdempotency(r)
    <3>1. Goto(r, "created") /\ requests[r].pc = "record"
      BY <2>7 DEF RecordIdempotency
    <3>2. KeyOf[r] \in Keys
      BY EveryRequestHasKey
    <3>3. TypeOK' /\ BreakersSound'
      BY <2>7, <3>1, <3>2, GotoIsTyped DEF RecordIdempotency, TypeOK, BreakersSound, Answers
    <3>4. requests'[r].pc = "created" /\ \A q \in Requests \ {r} : requests'[q] = requests[q]
      BY <3>1, GotoIsTyped DEF Answers
    <3>5. r \in rides /\ r \in published
      BY <3>1 DEF Progress
    <3>6. Tables
      BY <2>7, <3>1, <3>4, <3>5, MovesKeepTables DEF RecordIdempotency, Answers
    <3>7. QED
      BY <3>3, <3>6
  <2>8. CASE Die(r)
    <3>1. Goto(r, "error")
      BY <2>8 DEF Die
    <3>2. TypeOK' /\ BreakersSound'
      BY <2>8, <3>1, GotoIsTyped DEF Die, TypeOK, BreakersSound, Answers
    <3>3. requests'[r].pc = "error" /\ \A q \in Requests \ {r} : requests'[q] = requests[q]
      BY <3>1, GotoIsTyped DEF Answers
    <3>4. requests[r].pc \notin Answers
      BY <2>8 DEF Die, Working, Answers
    <3>5. Tables
      BY <2>8, <3>3, <3>4, MovesKeepTables DEF Die
    <3>6. QED
      BY <3>2, <3>5
  <2>9. QED
    BY <1>1, <2>1, <2>2, <2>3, <2>4, <2>5, <2>6, <2>7, <2>8 DEF Handle
<1>2. ASSUME NEW c \in Containers, CoolDown(c) PROVE IInv'
  <2>1. breaker[c] \in Breakers /\ Sound(breaker[c])
    BY DEF TypeOK, BreakersSound
  <2>2. breaker' = [breaker EXCEPT ![c] = Cooled(breaker[c])]
    BY <1>2 DEF CoolDown
  <2>3. breaker' \in [Containers -> Breakers] /\ BreakersSound'
    BY <2>1, <2>2, CallsKeepBreakerSound, CallsAreSound
  <2>4. UNCHANGED <<requests, rides, published, recorded>>
    BY <1>2 DEF CoolDown
  <2>5. QED
    BY <2>3, <2>4 DEF TypeOK, Progress, RecordedByCreated, AnswersAreTrue
<1>3. CASE UNCHANGED vars
  BY <1>3 DEF vars, TypeOK, BreakersSound, Progress, RecordedByCreated, AnswersAreTrue
<1>4. QED
  BY <1>1, <1>2, <1>3 DEF Next

\* The inductive invariant holds in every state of the service.
THEOREM Invariance == Spec => []IInv
<1>1. Init => IInv
  BY InitIsSound
<1>2. IInv /\ [Next]_vars => IInv'
  BY StepKeepsSound
<1>3. QED
  BY <1>1, <1>2, PTL DEF Spec

\* Requests, breakers and tables keep their types, for any number of requests,
\* containers and attempts (create_ride and retry_with_backoff).
THEOREM TypeCorrect == Spec => []TypeOK
<1>1. IInv => TypeOK
  BY DEF IInv
<1>2. QED
  BY <1>1, Invariance, PTL

\* In every container the state of the circuit breaker agrees with its counters,
\* so a half-open breaker opens again at its first failure (CircuitBreaker).
THEOREM BreakersStaySound == Spec => []BreakersSound
<1>1. IInv => BreakersSound
  BY DEF IInv
<1>2. QED
  BY <1>1, Invariance, PTL

\* Nobody is told "created" or "duplicate" unless a ride with the key is stored
\* and its event published, however requests interleave, fail or are repeated.
THEOREM AnswersStayTrue == Spec => []AnswersAreTrue
<1>1. IInv => AnswersAreTrue
  BY DEF IInv
<1>2. QED
  BY <1>1, Invariance, PTL

--------------------------------------------------------------------------------
(* RideDispatch: the simple services.                                          *)

\* The steps of a request to ride_service.
RideStates == {"new", "resent", "stored", "201", "200", "failed", "completed"}

\* An invocation of driver_service.
WorkerTypes == [pc : {"idle", "find", "update", "publish"},
                batch : Seq(Orders), at : Nat, found : Drivers \cup {Dispatch!Nobody}]

\* The payments for a ride.
PaymentTypes == [charged : Nat, paying : Nat, told : Nat]

\* The records of its batch that an invocation has still to do.
Left(x) == {x.batch[i] : i \in x.at .. Len(x.batch)}

\* An invocation is at a record of its batch, which holds each record once, and has
\* found a driver when it needs one.
RecordSound(x) ==
    /\ x.at \in Nat \ {0}
    /\ x.pc # "idle" => x.at \in 1 .. Len(x.batch)
    /\ x.pc \in {"update", "publish"} => x.found \in Drivers
    /\ Dispatch!IsInjective(x.batch)

\* What is worked on or announced was published and sent to driver_service.
Known ==
    /\ \A w \in Workers : \A r \in Dispatch!ToSet(workers[w].batch) :
           r \in sent /\ delivered[r] > 0
    /\ \A d \in Drivers, r \in Orders :
           <<d, r>> \in announced => r \in sent /\ delivered[r] > 0

\* A driver who is told, or about to be told, is taken.
Taken ==
    /\ \A w \in Workers : workers[w].pc = "publish" =>
           drivers[workers[w].found] # Dispatch!Available
    /\ \A d \in Drivers, r \in Orders :
           <<d, r>> \in announced => drivers[d] # Dispatch!Available

\* Only a completed ride, of which a driver was told, is charged; a charge is followed
\* by its event unless something fails.
Charges ==
    \A r \in Orders :
        /\ orders[r] = "completed" => \E d \in Drivers : <<d, r>> \in announced
        /\ payments[r].charged > 0 => orders[r] = "completed"
        /\ payments[r].charged <= payments[r].told + payments[r].paying + faults

\* A ride that was sent once is in one place: it is left to one invocation, or has its
\* one driver, or neither.
InOnePlace ==
    \A r \in Orders : delivered[r] <= 1 =>
        /\ \A u, w \in Workers : r \in Left(workers[u]) /\ r \in Left(workers[w]) => u = w
        /\ \A w \in Workers, d \in Drivers :
               r \in Left(workers[w]) => <<d, r>> \notin announced
        /\ \A d, e \in Drivers : <<d, r>> \in announced /\ <<e, r>> \in announced => d = e

\* A driver who is taken knows of the ride, or is about to be told, or the call failed.
TakenKnow ==
    \A d \in Drivers : drivers[d] # Dispatch!Available =>
        \/ <<d, drivers[d]>> \in announced \cup unheard
        \/ \E w \in Workers : /\ workers[w].pc = "publish" /\ workers[w].found = d
                              /\ Dispatch!Ride(w) = drivers[d]

\* Invocations that do not overlap are at most one.
OneAtWork == \A u, w \in Workers : workers[u].pc # "idle" /\ workers[w].pc # "idle" => u = w

\* ... and what it found is as it found it, if the scan showed what is.
Alone ==
    /\ \A w \in Workers :
           /\ workers[w].pc = "update" => drivers[workers[w].found] = Dispatch!Available
           /\ workers[w].pc = "publish" =>
                  \A r \in Orders : <<workers[w].found, r>> \notin announced
    /\ \A d \in Drivers, r, s \in Orders :
           <<d, r>> \in announced /\ <<d, s>> \in announced => r = s

\* All invocations are sound.
WorkersSound ==
    /\ workers \in [Workers -> WorkerTypes]
    /\ \A w \in Workers : RecordSound(workers[w])

\* The types of everything but the invocations.
RestTyped ==
    /\ orders \in [Orders -> RideStates]
    /\ sent \subseteq Orders
    /\ delivered \in [Orders -> Nat]
    /\ drivers \in [Drivers -> Orders \cup {Dispatch!Available}]
    /\ lagging \subseteq Drivers
    /\ announced \subseteq Drivers \X Orders /\ unheard \subseteq Drivers \X Orders
    /\ payments \in [Orders -> PaymentTypes]
    /\ faults \in 0 .. MaxFaults /\ repeats \in 0 .. MaxRepeats
    /\ overlap \in BOOLEAN /\ misled \in BOOLEAN

\* The inductive invariant of RideDispatch.
DispatchIInv ==
    /\ RestTyped /\ WorkersSound
    /\ Known /\ Taken /\ Charges /\ InOnePlace /\ TakenKnow
    /\ ~ overlap => OneAtWork
    /\ ~ overlap /\ ~ misled => Alone

--------------------------------------------------------------------------------
\* An idle invocation has nothing left to do.
LEMMA IdleIsSound ==
    /\ Dispatch!Idle \in WorkerTypes /\ RecordSound(Dispatch!Idle)
    /\ Left(Dispatch!Idle) = {} /\ Dispatch!ToSet(Dispatch!Idle.batch) = {}
<1>1. /\ Dispatch!Idle.pc = "idle" /\ Dispatch!Idle.batch = << >>
      /\ Dispatch!Idle.at = 1 /\ Dispatch!Idle.found = Dispatch!Nobody
  BY DEF Dispatch!Idle
<1>2. DOMAIN << >> = {} /\ Len(<< >>) = 0
  BY EmptySeq
<1>3. 1 .. 0 = {}
  OBVIOUS
<1>4. Dispatch!Idle \in WorkerTypes
  BY EmptySeq DEF Dispatch!Idle, WorkerTypes
<1>5. RecordSound(Dispatch!Idle)
  BY <1>1, <1>2 DEF RecordSound, Dispatch!IsInjective
<1>6. Left(Dispatch!Idle) = {}
  BY <1>1, <1>2, <1>3 DEF Left
<1>7. Dispatch!ToSet(Dispatch!Idle.batch) = {}
  BY <1>1, <1>2 DEF Dispatch!ToSet
<1>. QED  BY <1>4, <1>5, <1>6, <1>7

\* The next record, or the end: one record less is left.
LEMMA NextRecordLeaves ==
    ASSUME NEW w \in Workers, workers[w] \in WorkerTypes, RecordSound(workers[w]),
           workers[w].pc # "idle"
    PROVE  \E x \in WorkerTypes :
               /\ Dispatch!NextRecord(w) = x /\ RecordSound(x) /\ x.pc \in {"idle", "find"}
               /\ Left(x) = Left(workers[w]) \ {Dispatch!Ride(w)}
               /\ Dispatch!ToSet(x.batch) \subseteq Dispatch!ToSet(workers[w].batch)
<1> DEFINE b == workers[w].batch
           i == workers[w].at
           n == Len(b)
<1>1. /\ b \in Seq(Orders) /\ n \in Nat /\ i \in 1 .. n /\ DOMAIN b = 1 .. n
      /\ Dispatch!Ride(w) = b[i]
  BY DEF WorkerTypes, RecordSound, Dispatch!Ride
<1>2. \A j, k \in 1 .. n : b[j] = b[k] => j = k
  BY <1>1 DEF RecordSound, Dispatch!IsInjective
<1>3. Left(workers[w]) = {b[j] : j \in i .. n}
  BY DEF Left
<1>4. CASE i < n
  <2> DEFINE x == [Dispatch!ToFind(w) EXCEPT !.at = @ + 1]
  <2>1. /\ x \in WorkerTypes /\ x.pc = "find" /\ x.batch = b /\ x.at = i + 1
        /\ Dispatch!NextRecord(w) = x
    <3> DEFINE y == workers[w]
    <3>1. y \in WorkerTypes /\ y.batch = b /\ y.at = i /\ i + 1 \in Nat
      BY <1>1
    <3>2. x = [y EXCEPT !.pc = "find", !.found = Dispatch!Nobody, !.at = y.at + 1]
      BY <3>1 DEF Dispatch!ToFind, WorkerTypes
    <3>3. Dispatch!NextRecord(w) = x
      BY <1>4 DEF Dispatch!NextRecord
    <3>. HIDE DEF y, x
    <3>4. x \in WorkerTypes
      BY <3>1, <3>2 DEF WorkerTypes
    <3>5. x.pc = "find" /\ x.batch = b /\ x.at = i + 1
      BY <3>1, <3>2 DEF WorkerTypes
    <3>. QED  BY <3>3, <3>4, <3>5
  <2>. HIDE DEF x
  <2>2. RecordSound(x)
    <3>1. x.at \in 1 .. Len(x.batch)
      BY <1>1, <1>4, <2>1
    <3>2. x.at \in Nat \ {0}
      BY <1>1, <2>1
    <3>3. Dispatch!IsInjective(b)
      BY DEF RecordSound
    <3>. HIDE DEF b
    <3>. QED  BY <2>1, <3>1, <3>2, <3>3 DEF RecordSound
  <2>3. Left(x) = {b[j] : j \in i .. n} \ {b[i]}
    <3>1. Left(x) = {b[j] : j \in (i + 1) .. n}
      BY <2>1 DEF Left
    <3>. HIDE DEF b, i, n
    <3>2. \A j \in (i + 1) .. n : j \in i .. n /\ j # i /\ j \in 1 .. n
      BY <1>1
    <3>3. \A j \in i .. n : j \in 1 .. n /\ (j # i => j \in (i + 1) .. n)
      BY <1>1
    <3>. QED  BY <1>1, <1>2, <3>1, <3>2, <3>3
  <2>. QED  BY <1>1, <1>3, <2>1, <2>2, <2>3
<1>5. CASE ~ (i < n)
  <2>1. i = n /\ i .. n = {i}
    BY <1>1, <1>5
  <2>2. Left(workers[w]) \ {b[i]} = {}
    BY <1>3, <2>1
  <2>3. Dispatch!NextRecord(w) = Dispatch!Idle /\ Dispatch!Idle.pc = "idle"
    BY <1>5 DEF Dispatch!NextRecord, Dispatch!Idle
  <2>. QED  BY <1>1, <2>2, <2>3, IdleIsSound
<1>. QED  BY <1>4, <1>5

\* The record in hand is one of what is left, and all that is left was in the batch.
LEMMA RideIsLeft ==
    ASSUME NEW x \in WorkerTypes, RecordSound(x)
    PROVE  /\ x.pc # "idle" => x.batch[x.at] \in Left(x)
           /\ Left(x) \subseteq Dispatch!ToSet(x.batch)
           /\ Dispatch!ToSet(x.batch) \subseteq Orders
<1>1. x.batch \in Seq(Orders) /\ x.at \in Nat
  BY DEF WorkerTypes
<1>2. DOMAIN x.batch = 1 .. Len(x.batch) /\ Len(x.batch) \in Nat
      /\ \A i \in 1 .. Len(x.batch) : x.batch[i] \in Orders
  BY <1>1, LenProperties, ElementOfSeq
<1>3. x.pc # "idle" => x.at \in x.at .. Len(x.batch)
  BY <1>2 DEF RecordSound
<1>4. x.at .. Len(x.batch) \subseteq 1 .. Len(x.batch)
  BY <1>2 DEF RecordSound
<1>. QED  BY <1>2, <1>3, <1>4 DEF Left, Dispatch!ToSet

--------------------------------------------------------------------------------
\* Initially nothing was requested.
LEMMA DispatchInitial == Dispatch!Init => DispatchIInv
<1> SUFFICES ASSUME Dispatch!Init PROVE DispatchIInv
  OBVIOUS
<1>1. /\ workers \in [Workers -> WorkerTypes]
      /\ \A w \in Workers : workers[w] = Dispatch!Idle /\ workers[w].pc = "idle"
      /\ \A w \in Workers : RecordSound(workers[w]) /\ Left(workers[w]) = {}
                            /\ Dispatch!ToSet(workers[w].batch) = {}
  BY IdleIsSound DEF Dispatch!Init, Dispatch!Idle
<1>2. RestTyped
  <2>1. [charged |-> 0, paying |-> 0, told |-> 0] \in PaymentTypes
    BY DEF PaymentTypes
  <2>2. payments \in [Orders -> PaymentTypes]
    BY <2>1 DEF Dispatch!Init
  <2>3. faults \in 0 .. MaxFaults /\ repeats \in 0 .. MaxRepeats
    BY DispatchAssumption DEF Dispatch!Init
  <2>4. /\ orders \in [Orders -> RideStates]
        /\ sent \subseteq Orders /\ delivered \in [Orders -> Nat]
        /\ drivers \in [Drivers -> Orders \cup {Dispatch!Available}]
        /\ lagging \subseteq Drivers
        /\ announced \subseteq Drivers \X Orders /\ unheard \subseteq Drivers \X Orders
        /\ overlap \in BOOLEAN /\ misled \in BOOLEAN
    BY DEF Dispatch!Init, RideStates
  <2>. QED  BY <2>2, <2>3, <2>4 DEF RestTyped
<1>3. WorkersSound /\ Known /\ Taken
  BY <1>1 DEF Dispatch!Init, WorkersSound, Known, Taken
<1>4. Charges
  <2>1. \A r \in Orders : /\ orders[r] = "new"
                          /\ payments[r] = [charged |-> 0, paying |-> 0, told |-> 0]
    BY DEF Dispatch!Init
  <2>2. \A r \in Orders :
            payments[r].charged = 0 /\ payments[r].paying = 0 /\ payments[r].told = 0
    BY <2>1
  <2>3. faults = 0
    BY DEF Dispatch!Init
  <2>. QED  BY <2>1, <2>2, <2>3 DEF Charges
<1>5. InOnePlace /\ TakenKnow /\ OneAtWork /\ Alone
  BY <1>1 DEF Dispatch!Init, InOnePlace, TakenKnow, OneAtWork, Alone
<1>. QED  BY <1>2, <1>3, <1>4, <1>5 DEF DispatchIInv

\* A step that leaves the invocations, the drivers and what was announced alone.
LEMMA OutsideKeeps ==
    ASSUME DispatchIInv, UNCHANGED <<workers, drivers, announced, delivered, overlap, misled>>,
           sent \subseteq sent', unheard \subseteq unheard', RestTyped', Charges'
    PROVE  DispatchIInv'
<1>1. WorkersSound' /\ Taken' /\ InOnePlace' /\ (~ overlap' => OneAtWork')
      /\ (~ overlap' /\ ~ misled' => Alone')
  BY DEF DispatchIInv, WorkersSound, Taken, InOnePlace, OneAtWork, Alone
<1>2. Known'
  BY DEF DispatchIInv, Known
<1>3. TakenKnow'
  <2>1. \A w \in Workers : Dispatch!Ride(w)' = Dispatch!Ride(w)
    BY DEF Dispatch!Ride
  <2>. QED  BY <2>1 DEF DispatchIInv, TakenKnow
<1>. QED  BY <1>1, <1>2, <1>3 DEF DispatchIInv

\* The faults are counted up to their bound.
LEMMA FaultsCount ==
    ASSUME RestTyped
    PROVE  /\ faults \in Nat /\ repeats \in Nat
           /\ Dispatch!Fault => faults' \in 0 .. MaxFaults /\ faults' >= faults
           /\ \A again : Dispatch!Sending(again) => repeats' \in 0 .. MaxRepeats
BY DispatchAssumption DEF RestTyped, Dispatch!Fault, Dispatch!Sending

\* A step of ride_service, for a ride that nobody was told of.
LEMMA ServeKeeps ==
    ASSUME DispatchIInv, NEW r \in Orders, Dispatch!Serve(r)
    PROVE  DispatchIInv'
<1>1. PICK s \in {"resent", "stored", "200", "201", "failed"} :
          /\ orders[r] \in {"new", "resent", "stored"}
          /\ orders' = [orders EXCEPT ![r] = s]
  BY DEF Dispatch!Serve, Dispatch!StoreRide, Dispatch!StoreUnacknowledged,
         Dispatch!AlreadyProcessed, Dispatch!PublishRide, Dispatch!PublishRideRefused,
         Dispatch!FailRequest
<1>2. /\ UNCHANGED Dispatch!Dispatch /\ UNCHANGED payments
      /\ sent' = sent \/ sent' = sent \cup {r}
      /\ faults' = faults \/ Dispatch!Fault
  BY DEF Dispatch!Serve, Dispatch!StoreRide, Dispatch!StoreUnacknowledged,
         Dispatch!AlreadyProcessed, Dispatch!PublishRide, Dispatch!PublishRideRefused,
         Dispatch!FailRequest
<1>3. UNCHANGED <<delivered, drivers, lagging, workers, announced, unheard, repeats,
                  overlap, misled>>
  BY <1>2 DEF Dispatch!Dispatch
<1>4. RestTyped /\ Charges
  BY DEF DispatchIInv
<1>5. /\ faults \in Nat /\ faults' \in Nat /\ faults' \in 0 .. MaxFaults /\ faults' >= faults
  BY <1>2, <1>4, FaultsCount DEF RestTyped
<1>6. RestTyped'
  BY <1>1, <1>2, <1>3, <1>4, <1>5 DEF RestTyped, RideStates
<1>7. Charges'
  <2> SUFFICES ASSUME NEW q \in Orders
      PROVE  /\ orders'[q] = "completed" => \E d \in Drivers : <<d, q>> \in announced
             /\ payments[q].charged > 0 => orders'[q] = "completed"
             /\ payments[q].charged <= payments[q].told + payments[q].paying + faults'
    BY <1>2, <1>3 DEF Charges
  <2>1. /\ payments[q].charged \in Nat /\ payments[q].told \in Nat
        /\ payments[q].paying \in Nat
    BY <1>4 DEF RestTyped, PaymentTypes
  <2>2. payments[q].charged <= payments[q].told + payments[q].paying + faults
    BY <1>4 DEF Charges
  <2>3. payments[q].charged <= payments[q].told + payments[q].paying + faults'
    BY <1>5, <2>1, <2>2
  <2>4. orders'[q] = IF q = r THEN s ELSE orders[q]
    BY <1>1, <1>4 DEF RestTyped
  <2>. QED  BY <1>1, <1>4, <2>3, <2>4 DEF Charges
<1>. QED  BY <1>2, <1>3, <1>6, <1>7, OutsideKeeps

\* A ride is completed once a driver knows of it, and charged only then.
LEMMA PayKeeps ==
    ASSUME DispatchIInv, NEW r \in Orders, Dispatch!Pay(r)
    PROVE  DispatchIInv'
<1>1. RestTyped /\ Charges
  BY DEF DispatchIInv
<1>2. /\ faults \in Nat /\ payments[r] \in PaymentTypes
      /\ payments[r].charged \in Nat /\ payments[r].paying \in Nat /\ payments[r].told \in Nat
  BY <1>1, FaultsCount DEF RestTyped, PaymentTypes
<1>3. /\ UNCHANGED <<sent, delivered, drivers, lagging, workers, announced, unheard,
                     overlap, misled>>
      /\ faults' \in Nat /\ faults' \in 0 .. MaxFaults /\ faults' >= faults
      /\ repeats' \in 0 .. MaxRepeats
  <2>1. /\ UNCHANGED <<sent, delivered, drivers, lagging, workers, announced, unheard,
                       overlap, misled>>
        /\ faults' = faults \/ Dispatch!Fault
        /\ repeats' = repeats \/ Dispatch!Sending(payments[r].charged > 0)
    BY DEF Dispatch!Pay, Dispatch!Complete, Dispatch!ProcessPayment,
           Dispatch!PublishPaymentProcessed, Dispatch!PaymentUnpublished, Dispatch!Dispatch
  <2>2. faults' \in 0 .. MaxFaults /\ faults' >= faults
    BY <1>1, <1>2, <2>1, FaultsCount DEF RestTyped
  <2>3. repeats' \in 0 .. MaxRepeats
    BY <1>1, <2>1, FaultsCount DEF RestTyped
  <2>. QED  BY <2>1, <2>2, <2>3
<1>4. PICK p \in PaymentTypes, s \in {orders[r], "completed"} :
          /\ payments' = [payments EXCEPT ![r] = p] /\ orders' = [orders EXCEPT ![r] = s]
          /\ s = "completed" => \E d \in Drivers : <<d, r>> \in announced
          /\ p.charged > 0 => s = "completed"
          /\ p.charged <= p.told + p.paying + faults'
  <2>0. /\ orders = [orders EXCEPT ![r] = orders[r]]
        /\ payments = [payments EXCEPT ![r] = payments[r]]
        /\ orders[r] = "completed" => \E d \in Drivers : <<d, r>> \in announced
        /\ payments[r].charged > 0 => orders[r] = "completed"
        /\ payments[r].charged <= payments[r].told + payments[r].paying + faults'
    <3>1. payments[r].charged <= payments[r].told + payments[r].paying + faults
      BY <1>1 DEF Charges
    <3>2. payments[r].charged <= payments[r].told + payments[r].paying + faults'
      BY <1>2, <1>3, <3>1
    <3>. QED  BY <1>1, <3>2 DEF RestTyped, Charges
  <2>1. CASE Dispatch!Complete(r)
    <3>1. payments' = payments /\ orders' = [orders EXCEPT ![r] = "completed"]
          /\ \E d \in Drivers : <<d, r>> \in announced
      BY <2>1 DEF Dispatch!Complete
    <3>. QED  BY <1>2, <2>0, <3>1
  <2>2. CASE Dispatch!ProcessPayment(r)
    <3> DEFINE p == [payments[r] EXCEPT !.charged = payments[r].charged + 1,
                                        !.paying = payments[r].paying + 1]
    <3>1. payments' = [payments EXCEPT ![r] = p] /\ orders' = orders /\ orders[r] = "completed"
      BY <2>2 DEF Dispatch!ProcessPayment
    <3>0. payments[r].charged + 1 \in Nat /\ payments[r].paying + 1 \in Nat
      BY <1>2
    <3>2. /\ p \in PaymentTypes /\ p.charged = payments[r].charged + 1
          /\ p.paying = payments[r].paying + 1 /\ p.told = payments[r].told
      BY <1>2, <3>0 DEF PaymentTypes
    <3>. HIDE DEF p
    <3>3. p.charged <= p.told + p.paying + faults'
      BY <1>2, <1>3, <2>0, <3>2
    <3>. QED  BY <2>0, <3>1, <3>2, <3>3
  <2>3. CASE Dispatch!PublishPaymentProcessed(r)
    <3> DEFINE p == [payments[r] EXCEPT !.paying = payments[r].paying - 1,
                                        !.told = payments[r].told + 1]
    <3>1. /\ payments' = [payments EXCEPT ![r] = p] /\ orders' = orders
          /\ payments[r].paying > 0
      BY <2>3 DEF Dispatch!PublishPaymentProcessed
    <3>2. payments[r].paying - 1 \in Nat /\ payments[r].told + 1 \in Nat
      BY <1>2, <3>1
    <3>3. /\ p \in PaymentTypes /\ p.charged = payments[r].charged
          /\ p.paying = payments[r].paying - 1 /\ p.told = payments[r].told + 1
      BY <1>2, <3>2 DEF PaymentTypes
    <3>. HIDE DEF p
    <3>4. p.charged <= p.told + p.paying + faults'
      BY <1>2, <1>3, <2>0, <3>3
    <3>. QED  BY <2>0, <3>1, <3>3, <3>4
  <2>4. CASE Dispatch!PaymentUnpublished(r)
    <3> DEFINE p == [payments[r] EXCEPT !.paying = payments[r].paying - 1]
    <3>1. /\ payments' = [payments EXCEPT ![r] = p] /\ orders' = orders
          /\ payments[r].paying > 0 /\ faults' = faults + 1
      BY <2>4 DEF Dispatch!PaymentUnpublished, Dispatch!Fault
    <3>2. payments[r].paying - 1 \in Nat
      BY <1>2, <3>1
    <3>3. /\ p \in PaymentTypes /\ p.charged = payments[r].charged
          /\ p.paying = payments[r].paying - 1 /\ p.told = payments[r].told
      BY <1>2, <3>2 DEF PaymentTypes
    <3>. HIDE DEF p
    <3>4. payments[r].charged <= payments[r].told + payments[r].paying + faults
      BY <1>1 DEF Charges
    <3>5. p.charged <= p.told + p.paying + faults'
      BY <1>2, <3>1, <3>3, <3>4
    <3>. QED  BY <2>0, <3>1, <3>3, <3>5
  <2>. QED  BY <2>1, <2>2, <2>3, <2>4 DEF Dispatch!Pay
<1>5. /\ \A q \in Orders : q # r => orders'[q] = orders[q] /\ payments'[q] = payments[q]
      /\ orders'[r] = s /\ payments'[r] = p
  BY <1>1, <1>4 DEF RestTyped
<1>6. RestTyped'
  <2>1. s \in RideStates
    BY <1>1 DEF RestTyped, RideStates
  <2>2. orders' \in [Orders -> RideStates] /\ payments' \in [Orders -> PaymentTypes]
    BY <1>1, <1>4, <2>1 DEF RestTyped
  <2>. QED  BY <1>1, <1>3, <2>2 DEF RestTyped
<1>7. Charges'
  <2>1. ASSUME NEW q \in Orders
        PROVE  /\ orders'[q] = "completed" => \E d \in Drivers : <<d, q>> \in announced
               /\ payments'[q].charged > 0 => orders'[q] = "completed"
               /\ payments'[q].charged <= payments'[q].told + payments'[q].paying + faults'
    <3>1. CASE q = r
      BY <1>4, <1>5, <3>1
    <3>2. CASE q # r
      <4>1. /\ payments[q].charged \in Nat /\ payments[q].told \in Nat
            /\ payments[q].paying \in Nat
        BY <1>1 DEF RestTyped, PaymentTypes
      <4>2. payments[q].charged <= payments[q].told + payments[q].paying + faults
        BY <1>1 DEF Charges
      <4>3. payments[q].charged <= payments[q].told + payments[q].paying + faults'
        BY <1>2, <1>3, <4>1, <4>2
      <4>. QED  BY <1>1, <1>5, <3>2, <4>3 DEF Charges
    <3>. QED  BY <3>1, <3>2
  <2>. QED  BY <1>3, <2>1 DEF Charges
<1>. QED  BY <1>3, <1>6, <1>7, OutsideKeeps

\* What the table shows settles.
LEMMA SettleKeeps ==
    ASSUME DispatchIInv, NEW d \in Drivers, Dispatch!Settle(d)
    PROVE  DispatchIInv'
<1>1. /\ lagging' \subseteq lagging
      /\ UNCHANGED <<orders, sent, delivered, drivers, workers, announced, unheard,
                     payments, faults, repeats, overlap, misled>>
  BY DEF Dispatch!Settle
<1>2. RestTyped' /\ Charges'
  BY <1>1 DEF DispatchIInv, RestTyped, Charges
<1>. QED  BY <1>1, <1>2, OutsideKeeps

--------------------------------------------------------------------------------
\* An invocation that goes on keeps the invocations sound.
LEMMA WorkerGoesOn ==
    ASSUME WorkersSound, NEW w \in Workers, NEW x \in WorkerTypes, RecordSound(x),
           workers' = [workers EXCEPT ![w] = x]
    PROVE  /\ WorkersSound' /\ workers'[w] = x
           /\ \A u \in Workers : u # w => workers'[u] = workers[u]
BY DEF WorkersSound

\* More faults leave the charges accounted for.
LEMMA ChargesKeep ==
    ASSUME RestTyped, Charges, UNCHANGED <<orders, payments>>, announced \subseteq announced',
           faults' \in Nat, faults' >= faults
    PROVE  Charges'
<1> SUFFICES ASSUME NEW q \in Orders
             PROVE  payments[q].charged <= payments[q].told + payments[q].paying + faults'
  BY DEF Charges
<1>1. /\ payments[q].charged \in Nat /\ payments[q].told \in Nat
      /\ payments[q].paying \in Nat /\ faults \in Nat
  BY FaultsCount DEF RestTyped, PaymentTypes
<1>2. payments[q].charged <= payments[q].told + payments[q].paying + faults
  BY DEF Charges
<1>. QED  BY <1>1, <1>2

\* An invocation begins with a batch of records.
LEMMA InvokeKeeps ==
    ASSUME DispatchIInv, NEW w \in Workers, NEW batch \in Dispatch!Batches,
           Dispatch!Invoke(w, batch)
    PROVE  DispatchIInv'
<1> DEFINE y == [Dispatch!Idle EXCEPT !.pc = "find", !.batch = batch]
<1>1. PICK n \in 1 .. BatchSize : batch \in [1 .. n -> Orders] /\ Dispatch!IsInjective(batch)
  BY DEF Dispatch!Batches
<1>2. /\ n \in Nat \ {0} /\ batch \in Seq(Orders) /\ Len(batch) = n /\ DOMAIN batch = 1 .. n
  BY <1>1, DispatchAssumption, IsASeq, LenProperties
<1>3. /\ workers[w].pc = "idle" /\ workers' = [workers EXCEPT ![w] = y]
      /\ Dispatch!ToSet(batch) \subseteq sent
      /\ delivered' = [r \in Orders |->
                           IF r \in Dispatch!ToSet(batch) THEN delivered[r] + 1 ELSE delivered[r]]
      /\ overlap' = (overlap \/ Dispatch!Busy # {})
      /\ UNCHANGED <<orders, sent, drivers, lagging, announced, unheard, payments, faults,
                     misled>>
  BY DEF Dispatch!Invoke, Dispatch!Busy
<1>4. PICK x \in WorkerTypes :
          /\ workers' = [workers EXCEPT ![w] = x] /\ RecordSound(x)
          /\ x.pc = "find" /\ x.batch = batch /\ Left(x) = Dispatch!ToSet(batch)
  <2>1. Dispatch!Idle \in WorkerTypes /\ Dispatch!Idle.at = 1
    BY IdleIsSound DEF Dispatch!Idle
  <2>2. y \in WorkerTypes /\ y.pc = "find" /\ y.batch = batch /\ y.at = 1
    BY <1>2, <2>1 DEF WorkerTypes
  <2>. HIDE DEF y
  <2>3. RecordSound(y)
    BY <1>1, <1>2, <2>2 DEF RecordSound
  <2>4. Left(y) = Dispatch!ToSet(batch)
    BY <1>2, <2>2 DEF Left, Dispatch!ToSet
  <2>. QED  BY <1>3, <2>2, <2>3, <2>4
<1>5. /\ WorkersSound' /\ workers'[w] = x
      /\ \A u \in Workers : u # w => workers'[u] = workers[u]
  BY <1>4, WorkerGoesOn DEF DispatchIInv
<1>6. Dispatch!ToSet(batch) \subseteq Orders /\ RestTyped
  BY <1>1 DEF DispatchIInv, Dispatch!ToSet
<1>7. /\ delivered' \in [Orders -> Nat]
      /\ \A r \in Orders : r \in Dispatch!ToSet(batch) => delivered'[r] = delivered[r] + 1
      /\ \A r \in Orders : r \notin Dispatch!ToSet(batch) => delivered'[r] = delivered[r]
      /\ \A r \in Orders : delivered[r] \in Nat
  BY <1>3, <1>6 DEF RestTyped
<1>8. RestTyped'
  <2>1. overlap' \in BOOLEAN
    BY <1>3, <1>6 DEF RestTyped
  <2>2. repeats' \in 0 .. MaxRepeats
    BY <1>6, FaultsCount DEF Dispatch!Invoke
  <2>. QED  BY <1>3, <1>6, <1>7, <2>1, <2>2 DEF RestTyped
<1>9. Known'
  <2>1. \A r \in Orders : delivered[r] > 0 => delivered'[r] > 0
    BY <1>7
  <2>2. \A r \in Dispatch!ToSet(batch) : r \in sent /\ delivered'[r] > 0
    BY <1>3, <1>6, <1>7
  <2>3. \A u \in Workers : Dispatch!ToSet(workers[u].batch) \subseteq Orders
    BY RideIsLeft DEF DispatchIInv, WorkersSound
  <2>. QED  BY <1>3, <1>4, <1>5, <2>1, <2>2, <2>3 DEF DispatchIInv, Known
<1>10. Taken' /\ Charges'
  BY <1>3, <1>4, <1>5 DEF DispatchIInv, Taken, Charges
<1>11. InOnePlace'
  <2>1. ASSUME NEW r \in Orders, delivered'[r] <= 1
        PROVE  /\ \A u, v \in Workers :
                      r \in Left(workers'[u]) /\ r \in Left(workers'[v]) => u = v
               /\ \A u \in Workers, d \in Drivers :
                      r \in Left(workers'[u]) => <<d, r>> \notin announced
               /\ \A d, e \in Drivers :
                      <<d, r>> \in announced /\ <<e, r>> \in announced => d = e
    <3>1. CASE r \in Dispatch!ToSet(batch)
      <4>1. delivered[r] = 0 /\ ~ (delivered[r] > 0)
        BY <1>7, <2>1, <3>1
      <4>2. /\ \A u \in Workers : r \notin Dispatch!ToSet(workers[u].batch)
            /\ \A d \in Drivers : <<d, r>> \notin announced
        BY <4>1 DEF DispatchIInv, Known
      <4>3. \A u \in Workers : r \notin Left(workers[u])
        BY <4>2, RideIsLeft DEF DispatchIInv, WorkersSound
      <4>. QED  BY <1>5, <4>2, <4>3
    <3>2. CASE r \notin Dispatch!ToSet(batch)
      <4>1. delivered[r] <= 1 /\ r \notin Left(workers'[w])
        BY <1>4, <1>5, <1>7, <2>1, <3>2
      <4>. QED  BY <1>5, <4>1 DEF DispatchIInv, InOnePlace
    <3>. QED  BY <3>1, <3>2
  <2>. QED  BY <1>3, <2>1 DEF InOnePlace
<1>12. TakenKnow'
  <2>1. \A u \in Workers : workers[u].pc = "publish" => u # w /\ workers'[u] = workers[u]
    BY <1>3, <1>5
  <2>. QED  BY <1>3, <2>1 DEF DispatchIInv, TakenKnow, Dispatch!Ride
<1>13. ASSUME ~ overlap' PROVE OneAtWork' /\ (~ misled' => Alone')
  <2>1. ~ overlap /\ \A u \in Workers : workers[u].pc = "idle"
    BY <1>3, <1>13 DEF Dispatch!Busy
  <2>2. OneAtWork'
    BY <1>5, <2>1 DEF OneAtWork
  <2>. QED  BY <1>3, <1>4, <1>5, <2>1, <2>2 DEF DispatchIInv, Alone
<1>. QED  BY <1>5, <1>8, <1>9, <1>10, <1>11, <1>12, <1>13 DEF DispatchIInv

\* The scan finds a driver, who is available or seems so.
LEMMA FoundKeeps ==
    ASSUME DispatchIInv, NEW w \in Workers, NEW d \in Drivers,
           Dispatch!FindNearestDriver(w, d)
    PROVE  DispatchIInv'
<1>0. /\ workers[w].pc = "find"
      /\ workers' = [workers EXCEPT ![w].pc = "update", ![w].found = d]
      /\ misled' = (misled \/ drivers[d] # Dispatch!Available)
      /\ UNCHANGED <<orders, sent, delivered, drivers, lagging, announced, unheard, payments,
                     faults, repeats, overlap>>
  BY DEF Dispatch!FindNearestDriver
<1>1. PICK x \in WorkerTypes :
          /\ workers' = [workers EXCEPT ![w] = x] /\ RecordSound(x)
          /\ x.pc = "update" /\ x.found = d /\ x.batch = workers[w].batch
          /\ Left(x) = Left(workers[w])
  <2> DEFINE y == [workers[w] EXCEPT !.pc = "update", !.found = d]
  <2>1. workers[w] \in WorkerTypes /\ RecordSound(workers[w])
    BY DEF DispatchIInv, WorkersSound
  <2>2. workers' = [workers EXCEPT ![w] = y]
    BY <1>0
  <2>3. /\ y \in WorkerTypes /\ y.pc = "update" /\ y.found = d
        /\ y.batch = workers[w].batch /\ y.at = workers[w].at
    BY <2>1 DEF WorkerTypes
  <2>. HIDE DEF y
  <2>4. RecordSound(y) /\ Left(y) = Left(workers[w])
    BY <1>0, <2>1, <2>3 DEF RecordSound, Left
  <2>. QED  BY <2>2, <2>3, <2>4
<1>2. /\ WorkersSound' /\ workers'[w] = x
      /\ \A u \in Workers : u # w => workers'[u] = workers[u]
  BY <1>1, WorkerGoesOn DEF DispatchIInv
<1>3. RestTyped'
  <2>1. misled' \in BOOLEAN
    BY <1>0 DEF DispatchIInv, RestTyped
  <2>. QED  BY <1>0, <2>1 DEF DispatchIInv, RestTyped
<1>4. Known'
  <2>1. \A u \in Workers : workers'[u].batch = workers[u].batch
    BY <1>1, <1>2
  <2>. QED  BY <1>0, <2>1 DEF DispatchIInv, Known
<1>5. Taken' /\ Charges'
  BY <1>0, <1>1, <1>2 DEF DispatchIInv, Taken, Charges
<1>6. InOnePlace'
  <2>1. \A u \in Workers : Left(workers'[u]) = Left(workers[u])
    BY <1>1, <1>2
  <2>. QED  BY <1>0, <2>1 DEF DispatchIInv, InOnePlace
<1>7. TakenKnow'
  <2>1. \A u \in Workers : workers[u].pc = "publish" =>
            workers'[u] = workers[u] /\ Dispatch!Ride(u)' = Dispatch!Ride(u)
    BY <1>0, <1>2 DEF Dispatch!Ride
  <2>2. ASSUME NEW e \in Drivers, drivers[e] # Dispatch!Available,
               <<e, drivers[e]>> \notin announced \cup unheard
        PROVE  \E u \in Workers : /\ workers'[u].pc = "publish" /\ workers'[u].found = e
                                  /\ Dispatch!Ride(u)' = drivers[e]
    <3>1. PICK u \in Workers : /\ workers[u].pc = "publish" /\ workers[u].found = e
                               /\ Dispatch!Ride(u) = drivers[e]
      BY <2>2 DEF DispatchIInv, TakenKnow
    <3>2. workers'[u] = workers[u] /\ Dispatch!Ride(u)' = Dispatch!Ride(u)
      BY <2>1, <3>1
    <3>. QED  BY <3>1, <3>2
  <2>. QED  BY <1>0, <2>2 DEF TakenKnow
<1>8. ASSUME ~ overlap' PROVE OneAtWork' /\ (~ misled' => Alone')
  <2>1. OneAtWork /\ \A u \in Workers : u # w => workers[u].pc = "idle"
    BY <1>0, <1>8 DEF DispatchIInv, OneAtWork
  <2>2. OneAtWork'
    BY <1>2, <2>1 DEF OneAtWork
  <2>3. ASSUME ~ misled' PROVE Alone'
    <3>1. Alone /\ drivers[d] = Dispatch!Available
      BY <1>0, <1>8, <2>3 DEF DispatchIInv
    <3>2. \A u \in Workers : workers'[u].pc # "idle" => u = w
      BY <1>2, <2>1
    <3>. QED  BY <1>0, <1>1, <1>2, <3>1, <3>2 DEF Alone
  <2>. QED  BY <2>2, <2>3
<1>. QED  BY <1>2, <1>3, <1>4, <1>5, <1>6, <1>7, <1>8 DEF DispatchIInv

\* The table takes the ride for the driver who was found.
LEMMA UpdateDriverKeeps ==
    ASSUME DispatchIInv, NEW w \in Workers, Dispatch!UpdateDriver(w)
    PROVE  DispatchIInv'
<1>1. workers[w] \in WorkerTypes /\ RecordSound(workers[w]) /\ workers[w].pc = "update"
  BY DEF DispatchIInv, WorkersSound, Dispatch!UpdateDriver
<1>2. PICK d \in Drivers, r \in Orders :
          /\ d = workers[w].found /\ r = workers[w].batch[workers[w].at]
          /\ drivers' = [drivers EXCEPT ![d] = r] /\ lagging' = lagging \cup {d}
          /\ UNCHANGED <<orders, sent, delivered, announced, unheard, payments, faults,
                         repeats, overlap, misled>>
  <2>1. workers[w].found \in Drivers
    BY <1>1 DEF RecordSound
  <2>2. Dispatch!Ride(w) \in Orders /\ Dispatch!Ride(w) = workers[w].batch[workers[w].at]
    BY <1>1, RideIsLeft DEF Dispatch!Ride
  <2>. QED  BY <2>1, <2>2 DEF Dispatch!UpdateDriver
<1>3. PICK x \in WorkerTypes :
          /\ workers' = [workers EXCEPT ![w] = x] /\ RecordSound(x)
          /\ x.pc = "publish" /\ x.found = d /\ x.batch = workers[w].batch
          /\ x.at = workers[w].at /\ Left(x) = Left(workers[w])
  <2> DEFINE y == [workers[w] EXCEPT !.pc = "publish"]
  <2>1. workers' = [workers EXCEPT ![w] = y]
    BY DEF Dispatch!UpdateDriver
  <2>2. /\ y \in WorkerTypes /\ y.pc = "publish" /\ y.found = d
        /\ y.batch = workers[w].batch /\ y.at = workers[w].at
    BY <1>1, <1>2 DEF WorkerTypes
  <2>. HIDE DEF y
  <2>3. RecordSound(y) /\ Left(y) = Left(workers[w])
    BY <1>1, <1>2, <2>2 DEF RecordSound, Left
  <2>. QED  BY <2>1, <2>2, <2>3
<1>4. /\ WorkersSound' /\ workers'[w] = x
      /\ \A u \in Workers : u # w => workers'[u] = workers[u]
  BY <1>3, WorkerGoesOn DEF DispatchIInv
<1>5. /\ drivers' \in [Drivers -> Orders \cup {Dispatch!Available}] /\ drivers'[d] = r
      /\ \A e \in Drivers : e # d => drivers'[e] = drivers[e]
      /\ r # Dispatch!Available
  BY <1>2, DispatchAssumption DEF DispatchIInv, RestTyped
<1>6. RestTyped'
  BY <1>2, <1>5 DEF DispatchIInv, RestTyped
<1>7. Known' /\ Charges'
  BY <1>2, <1>3, <1>4 DEF DispatchIInv, Known, Charges
<1>8. Taken'
  <2>1. ASSUME NEW u \in Workers, workers'[u].pc = "publish"
        PROVE  drivers'[workers'[u].found] # Dispatch!Available
    <3>1. CASE u = w
      BY <1>3, <1>4, <1>5, <3>1
    <3>2. CASE u # w
      <4>1. workers[u].pc = "publish" /\ workers[u].found \in Drivers
        BY <1>4, <2>1, <3>2 DEF DispatchIInv, WorkersSound, RecordSound
      <4>2. drivers[workers[u].found] # Dispatch!Available
        BY <4>1 DEF DispatchIInv, Taken
      <4>. QED  BY <1>4, <1>5, <3>2, <4>1, <4>2
    <3>. QED  BY <3>1, <3>2
  <2>. QED  BY <1>2, <1>5, <2>1 DEF DispatchIInv, Taken
<1>9. \A u \in Workers : Left(workers'[u]) = Left(workers[u])
  BY <1>3, <1>4
<1>10. InOnePlace'
  BY <1>2, <1>9 DEF DispatchIInv, InOnePlace
<1>11. TakenKnow'
  <2>1. TakenKnow
    BY DEF DispatchIInv
  <2>2. Dispatch!Ride(w)' = r /\ workers'[w].pc = "publish" /\ workers'[w].found = d
    BY <1>2, <1>3, <1>4 DEF Dispatch!Ride
  <2>3. \A u \in Workers : workers[u].pc = "publish" => u # w
    BY <1>1
  <2>4. \A u \in Workers : u # w => Dispatch!Ride(u)' = Dispatch!Ride(u)
    BY <1>4 DEF Dispatch!Ride
  <2>5. ASSUME NEW e \in Drivers, drivers'[e] # Dispatch!Available, e # d
        PROVE  \/ <<e, drivers'[e]>> \in announced' \cup unheard'
               \/ \E u \in Workers : /\ workers'[u].pc = "publish" /\ workers'[u].found = e
                                     /\ Dispatch!Ride(u)' = drivers'[e]
    BY <1>2, <1>4, <1>5, <2>1, <2>3, <2>4, <2>5 DEF TakenKnow
  <2>. QED  BY <1>5, <2>2, <2>5 DEF TakenKnow
<1>12. ASSUME ~ overlap' PROVE OneAtWork' /\ (~ misled' => Alone')
  <2>1. OneAtWork /\ \A u \in Workers : u # w => workers[u].pc = "idle"
    BY <1>1, <1>2, <1>12 DEF DispatchIInv, OneAtWork
  <2>2. OneAtWork'
    BY <1>4, <2>1 DEF OneAtWork
  <2>3. ASSUME ~ misled' PROVE Alone'
    <3>1. Alone
      BY <1>2, <1>12, <2>3 DEF DispatchIInv
    <3>2. \A s \in Orders : <<d, s>> \notin announced
      BY <1>1, <1>2, <3>1 DEF DispatchIInv, Taken, Alone
    <3>. QED  BY <1>2, <1>3, <1>4, <2>1, <3>1, <3>2 DEF Alone
  <2>. QED  BY <2>2, <2>3
<1>. QED  BY <1>4, <1>6, <1>7, <1>8, <1>10, <1>11, <1>12 DEF DispatchIInv

\* An invocation is done with a record, or with all, and its driver, if it was about to
\* tell one, is told or was not to be reached.
LEMMA RecordDoneKeeps ==
    ASSUME DispatchIInv, NEW w \in Workers, workers[w].pc # "idle",
           NEW x \in WorkerTypes, RecordSound(x), x.pc \in {"idle", "find"},
           workers' = [workers EXCEPT ![w] = x],
           Left(x) \subseteq Left(workers[w]) \ {Dispatch!Ride(w)},
           Dispatch!ToSet(x.batch) \subseteq Dispatch!ToSet(workers[w].batch),
           UNCHANGED <<orders, sent, delivered, drivers, lagging, payments, repeats, overlap,
                       misled>>,
           faults' \in 0 .. MaxFaults, faults' >= faults,
           announced \subseteq announced', unheard \subseteq unheard',
           workers[w].pc = "publish" =>
               <<workers[w].found, Dispatch!Ride(w)>> \in announced' \cup unheard',
           \/ announced' = announced
           \/ workers[w].pc = "publish"
              /\ announced' = announced \cup {<<workers[w].found, Dispatch!Ride(w)>>},
           unheard' \subseteq Drivers \X Orders
    PROVE  DispatchIInv'
<1> DEFINE d == workers[w].found
           r == Dispatch!Ride(w)
<1>1. /\ workers[w] \in WorkerTypes /\ RecordSound(workers[w])
      /\ workers[w].pc = "publish" => d \in Drivers
      /\ RestTyped
  BY DEF DispatchIInv, WorkersSound, RecordSound
<1>2. r \in Left(workers[w]) /\ r \in Orders /\ r \in Dispatch!ToSet(workers[w].batch)
  BY <1>1, RideIsLeft DEF Dispatch!Ride
<1>3. /\ WorkersSound' /\ workers'[w] = x
      /\ \A u \in Workers : u # w => workers'[u] = workers[u]
  BY WorkerGoesOn DEF DispatchIInv
<1>4. \A e \in Drivers, s \in Orders :
          <<e, s>> \in announced' =>
              <<e, s>> \in announced \/ (workers[w].pc = "publish" /\ e = d /\ s = r)
  OBVIOUS
<1>5. faults \in Nat /\ faults' \in Nat /\ (MaxFaults \in Nat)
  BY <1>1, FaultsCount, DispatchAssumption
<1>6. RestTyped'
  <2>1. announced' \subseteq Drivers \X Orders
    BY <1>1, <1>2 DEF RestTyped
  <2>. QED  BY <1>1, <2>1 DEF RestTyped
<1>7. Charges'
  BY <1>1, <1>5, ChargesKeep DEF DispatchIInv
<1>8. Known'
  <2>1. r \in sent /\ delivered[r] > 0
    BY <1>2 DEF DispatchIInv, Known
  <2>2. \A u \in Workers : Dispatch!ToSet(workers'[u].batch) \subseteq
                               Dispatch!ToSet(workers[u].batch)
    BY <1>3
  <2>. HIDE DEF r, d
  <2>. QED  BY <1>4, <2>1, <2>2 DEF DispatchIInv, Known
<1>9. Taken'
  <2>1. workers[w].pc = "publish" => drivers[d] # Dispatch!Available
    BY DEF DispatchIInv, Taken
  <2>2. \A u \in Workers : workers'[u].pc = "publish" =>
            workers[u].pc = "publish" /\ workers'[u].found = workers[u].found
    BY <1>3
  <2>. HIDE DEF r, d
  <2>. QED  BY <1>4, <2>1, <2>2 DEF DispatchIInv, Taken
<1>10. InOnePlace'
  <2>1. \A u \in Workers, s \in Orders :
            s \in Left(workers'[u]) => s \in Left(workers[u]) /\ (u = w => s # r)
    BY <1>3
  <2>2. ASSUME NEW s \in Orders, delivered[s] <= 1
        PROVE  /\ \A u, v \in Workers :
                      s \in Left(workers'[u]) /\ s \in Left(workers'[v]) => u = v
               /\ \A u \in Workers, e \in Drivers :
                      s \in Left(workers'[u]) => <<e, s>> \notin announced'
               /\ \A e, f \in Drivers :
                      <<e, s>> \in announced' /\ <<f, s>> \in announced' => e = f
    <3>1. /\ \A u, v \in Workers :
                 s \in Left(workers[u]) /\ s \in Left(workers[v]) => u = v
          /\ \A u \in Workers, e \in Drivers :
                 s \in Left(workers[u]) => <<e, s>> \notin announced
          /\ \A e, f \in Drivers :
                 <<e, s>> \in announced /\ <<f, s>> \in announced => e = f
      BY <2>2 DEF DispatchIInv, InOnePlace
    <3>. HIDE DEF r, d
    <3>2. CASE s = r
      <4>1. /\ \A e \in Drivers : <<e, s>> \notin announced
            /\ \A u \in Workers : s \notin Left(workers'[u])
        BY <1>2, <2>1, <3>1, <3>2
      <4>. QED  BY <1>4, <4>1
    <3>3. CASE s # r
      BY <1>4, <2>1, <3>1, <3>3
    <3>. QED  BY <3>2, <3>3
  <2>. HIDE DEF r, d
  <2>. QED  BY <2>2 DEF InOnePlace
<1>11. TakenKnow'
  <2>1. \A u \in Workers : u # w =>
            workers'[u] = workers[u] /\ Dispatch!Ride(u)' = Dispatch!Ride(u)
    BY <1>3 DEF Dispatch!Ride
  <2>2. ASSUME NEW e \in Drivers, drivers[e] # Dispatch!Available
        PROVE  \/ <<e, drivers[e]>> \in announced' \cup unheard'
               \/ \E u \in Workers : /\ workers'[u].pc = "publish" /\ workers'[u].found = e
                                     /\ Dispatch!Ride(u)' = drivers[e]
    <3>1. CASE <<e, drivers[e]>> \in announced \cup unheard
      BY <3>1
    <3>2. CASE \E u \in Workers : /\ workers[u].pc = "publish" /\ workers[u].found = e
                                  /\ Dispatch!Ride(u) = drivers[e]
      <4>1. PICK u \in Workers : /\ workers[u].pc = "publish" /\ workers[u].found = e
                                 /\ Dispatch!Ride(u) = drivers[e]
        BY <3>2
      <4>2. CASE u = w
        BY <4>1, <4>2
      <4>3. CASE u # w
        BY <2>1, <4>1, <4>3
      <4>. QED  BY <4>2, <4>3
    <3>. QED  BY <2>2, <3>1, <3>2 DEF DispatchIInv, TakenKnow
  <2>. QED  BY <2>2 DEF TakenKnow
<1>12. ASSUME ~ overlap' PROVE OneAtWork' /\ (~ misled' => Alone')
  <2>1. OneAtWork /\ \A u \in Workers : u # w => workers[u].pc = "idle"
    BY <1>12 DEF DispatchIInv, OneAtWork
  <2>2. OneAtWork'
    BY <1>3, <2>1 DEF OneAtWork
  <2>3. ASSUME ~ misled' PROVE Alone'
    <3>1. Alone
      BY <1>12, <2>3 DEF DispatchIInv
    <3>2. workers[w].pc = "publish" => \A s \in Orders : <<d, s>> \notin announced
      BY <3>1 DEF Alone
    <3>3. \A u \in Workers : workers'[u].pc \notin {"update", "publish"}
      BY <1>3, <2>1
    <3>4. \A e \in Drivers, s, t \in Orders :
              <<e, s>> \in announced /\ <<e, t>> \in announced => s = t
      BY <3>1 DEF Alone
    <3>. HIDE DEF r, d
    <3>5. \A e \in Drivers, s, t \in Orders :
              <<e, s>> \in announced' /\ <<e, t>> \in announced' => s = t
      BY <1>4, <3>2, <3>4
    <3>. QED  BY <3>3, <3>5 DEF Alone
  <2>. QED  BY <2>2, <2>3
<1>. QED  BY <1>3, <1>6, <1>7, <1>8, <1>9, <1>10, <1>11, <1>12 DEF DispatchIInv

\* Nobody is found, the driver is told, or the bus takes no event: the next record.
LEMMA NextRecordKeeps ==
    ASSUME DispatchIInv, NEW w \in Workers,
           \/ Dispatch!FindNobody(w) \/ Dispatch!PublishDriverAssigned(w)
           \/ Dispatch!PublishDriverRefused(w)
    PROVE  DispatchIInv'
<1>1. /\ workers[w] \in WorkerTypes /\ RecordSound(workers[w]) /\ RestTyped
      /\ workers[w].pc # "idle"
  BY DEF DispatchIInv, WorkersSound, Dispatch!FindNobody, Dispatch!PublishDriverAssigned,
         Dispatch!PublishDriverRefused
<1>2. PICK x \in WorkerTypes :
          /\ Dispatch!NextRecord(w) = x /\ RecordSound(x) /\ x.pc \in {"idle", "find"}
          /\ Left(x) = Left(workers[w]) \ {Dispatch!Ride(w)}
          /\ Dispatch!ToSet(x.batch) \subseteq Dispatch!ToSet(workers[w].batch)
  BY <1>1, NextRecordLeaves
<1>3. /\ workers' = [workers EXCEPT ![w] = x]
      /\ UNCHANGED <<orders, sent, delivered, drivers, lagging, payments, repeats, overlap,
                     misled>>
  BY <1>2 DEF Dispatch!FindNobody, Dispatch!PublishDriverAssigned,
              Dispatch!PublishDriverRefused
<1>4. faults' \in 0 .. MaxFaults /\ faults' >= faults
  <2>1. faults' = faults \/ Dispatch!Fault
    BY DEF Dispatch!FindNobody, Dispatch!PublishDriverAssigned, Dispatch!PublishDriverRefused
  <2>. QED  BY <1>1, <2>1, FaultsCount DEF RestTyped
<1>5. /\ announced \subseteq announced' /\ unheard \subseteq unheard'
      /\ workers[w].pc = "publish" =>
             <<workers[w].found, Dispatch!Ride(w)>> \in announced' \cup unheard'
      /\ \/ announced' = announced
         \/ workers[w].pc = "publish"
            /\ announced' = announced \cup {<<workers[w].found, Dispatch!Ride(w)>>}
      /\ unheard' = unheard \/ (workers[w].pc = "publish" /\
             unheard' = unheard \cup {<<workers[w].found, Dispatch!Ride(w)>>})
  BY DEF Dispatch!FindNobody, Dispatch!PublishDriverAssigned, Dispatch!PublishDriverRefused
<1>6. unheard' \subseteq Drivers \X Orders
  <2>1. /\ workers[w].pc = "publish" => workers[w].found \in Drivers
        /\ Dispatch!Ride(w) \in Orders
    BY <1>1, RideIsLeft DEF RecordSound, Dispatch!Ride
  <2>. QED  BY <1>1, <1>5, <2>1 DEF RestTyped
<1>. QED  BY <1>1, <1>2, <1>3, <1>4, <1>5, <1>6, RecordDoneKeeps

\* An invocation that fails leaves nothing that it would have to do.
LEMMA FailInvocationKeeps ==
    ASSUME DispatchIInv, NEW w \in Workers, Dispatch!FailInvocation(w)
    PROVE  DispatchIInv'
<1>1. /\ workers[w] \in WorkerTypes /\ RecordSound(workers[w]) /\ RestTyped
      /\ workers[w].pc # "idle"
  BY DEF DispatchIInv, WorkersSound, Dispatch!FailInvocation, Dispatch!Busy
<1>2. /\ workers' = [workers EXCEPT ![w] = Dispatch!Idle]
      /\ UNCHANGED <<orders, sent, delivered, drivers, lagging, announced, payments, repeats,
                     overlap, misled>>
      /\ Dispatch!Fault
      /\ unheard' = IF workers[w].pc = "publish"
                    THEN unheard \cup {<<workers[w].found, Dispatch!Ride(w)>>}
                    ELSE unheard
  BY DEF Dispatch!FailInvocation
<1>3. /\ Dispatch!Idle \in WorkerTypes /\ RecordSound(Dispatch!Idle)
      /\ Dispatch!Idle.pc \in {"idle", "find"}
      /\ Left(Dispatch!Idle) \subseteq Left(workers[w]) \ {Dispatch!Ride(w)}
      /\ Dispatch!ToSet(Dispatch!Idle.batch) \subseteq Dispatch!ToSet(workers[w].batch)
  BY IdleIsSound DEF Dispatch!Idle
<1>4. faults' \in 0 .. MaxFaults /\ faults' >= faults
  BY <1>1, <1>2, FaultsCount
<1>5. unheard' \subseteq Drivers \X Orders
  <2>1. /\ workers[w].pc = "publish" => workers[w].found \in Drivers
        /\ Dispatch!Ride(w) \in Orders
    BY <1>1, RideIsLeft DEF RecordSound, Dispatch!Ride
  <2>. QED  BY <1>1, <1>2, <2>1 DEF RestTyped
<1>. QED  BY <1>1, <1>2, <1>3, <1>4, <1>5, RecordDoneKeeps

--------------------------------------------------------------------------------
\* Every step keeps the invariant.
LEMMA DispatchStep == DispatchIInv /\ [Dispatch!Next]_simple => DispatchIInv'
<1> SUFFICES ASSUME DispatchIInv, [Dispatch!Next]_simple PROVE DispatchIInv'
  OBVIOUS
<1>1. CASE UNCHANGED simple
  <2>1. RestTyped' /\ Charges'
    BY <1>1 DEF simple, DispatchIInv, RestTyped, Charges
  <2>. QED  BY <1>1, <2>1, OutsideKeeps DEF simple
<1>2. ASSUME NEW r \in Orders, Dispatch!Serve(r) \/ Dispatch!Pay(r) PROVE DispatchIInv'
  BY <1>2, ServeKeeps, PayKeeps
<1>3. ASSUME NEW w \in Workers, Dispatch!Work(w) PROVE DispatchIInv'
  BY <1>3, InvokeKeeps, FoundKeeps, UpdateDriverKeeps, NextRecordKeeps, FailInvocationKeeps
     DEF Dispatch!Work
<1>4. ASSUME NEW d \in Drivers, Dispatch!Settle(d) PROVE DispatchIInv'
  BY <1>4, SettleKeeps
<1>. QED  BY <1>1, <1>2, <1>3, <1>4 DEF Dispatch!Next

\* A set of which any two members are the same has at most one.
LEMMA AtMostOne ==
    ASSUME NEW S, \A x, y \in S : x = y
    PROVE  Dispatch!Cardinality(S) <= 1
<1>1. Cardinality(S) <= 1
  <2>1. CASE S = {}
    BY <2>1, FS_EmptySet
  <2>2. CASE S # {}
    <3>1. PICK x \in S : S = {x}
      BY <2>2
    <3>. QED  BY <3>1, FS_Singleton
  <2>. QED  BY <2>1, <2>2
<1>. QED  BY <1>1 DEF Dispatch!Cardinality, Cardinality

\* What the runs check follows from the invariant.
LEMMA InvariantSuffices == DispatchIInv => Dispatch!TypeOK /\ Dispatch!DispatchIsSound
<1> SUFFICES ASSUME DispatchIInv PROVE Dispatch!TypeOK /\ Dispatch!DispatchIsSound
  OBVIOUS
<1>0. Dispatch!TypeOK
  BY DEF DispatchIInv, RestTyped, WorkersSound, WorkerTypes, PaymentTypes, RideStates,
         Dispatch!TypeOK
<1>1. \A d \in Drivers : \A r \in Dispatch!RidesOf(d) :
          drivers[d] # Dispatch!Available /\ r \in sent
  BY DEF DispatchIInv, Known, Taken, Dispatch!RidesOf
<1>2. ASSUME NEW d \in Drivers, drivers[d] # Dispatch!Available
      PROVE  \/ <<d, drivers[d]>> \in announced \cup unheard
             \/ \E w \in Workers : /\ workers[w].pc = "publish"
                                   /\ workers[w].found = d /\ Dispatch!Ride(w) = drivers[d]
  BY <1>2 DEF DispatchIInv, TakenKnow
<1>3. ASSUME NEW r \in Orders, delivered[r] <= 1
      PROVE  Dispatch!Cardinality(Dispatch!DriversOf(r)) <= 1
  <2>1. \A d, e \in Dispatch!DriversOf(r) : d = e
    BY <1>3 DEF DispatchIInv, InOnePlace, Dispatch!DriversOf
  <2>. QED  BY <2>1, AtMostOne
<1>4. ASSUME ~ overlap, ~ misled, NEW d \in Drivers
      PROVE  Dispatch!Cardinality(Dispatch!RidesOf(d)) <= 1
  <2>1. \A r, s \in Dispatch!RidesOf(d) : r = s
    BY <1>4 DEF DispatchIInv, Alone, Dispatch!RidesOf
  <2>. QED  BY <2>1, AtMostOne
<1>5. ASSUME NEW r \in Orders
      PROVE  /\ payments[r].charged > 0 => Dispatch!DriversOf(r) # {}
             /\ payments[r].charged <= payments[r].told + payments[r].paying + faults
  BY DEF DispatchIInv, Charges, Dispatch!DriversOf
<1>. QED  BY <1>0, <1>1, <1>2, <1>3, <1>4, <1>5 DEF Dispatch!DispatchIsSound

\* The invariant holds in every state.
THEOREM DispatchInvariance == Dispatch!Spec => []DispatchIInv
<1>1. DispatchIInv /\ [Dispatch!Next]_(Dispatch!vars) => DispatchIInv'
  BY DispatchStep DEF Dispatch!vars, simple
<1>. QED  BY <1>1, DispatchInitial, PTL DEF Dispatch!Spec

--------------------------------------------------------------------------------
\* Each design of the composition behaves as it does alone: they share nothing.
LEMMA DesignsBehaveAsAlone == BothSpec => Spec /\ Dispatch!Spec
<1>1. BothInit => Init /\ Dispatch!Init
  BY DEF BothInit
<1>2. [BothNext]_<<part, vars, simple>> => [Next]_vars /\ [Dispatch!Next]_(Dispatch!vars)
  BY DEF BothNext, Dispatch!vars, simple
<1>. QED  BY <1>1, <1>2, PTL DEF BothSpec, Spec, Dispatch!Spec

\* For any rides, drivers, pages of the scan, invocations, batches, repeated records and
\* failed calls: nobody is told of a ride before the table is, a taken driver is told unless
\* the call failed, a ride sent once gets one driver, and without overlap and stale scans a
\* driver gets one ride; a charge is for a ride with a driver and has its event unless
\* something failed (driver_service.py, payment_service.py).
THEOREM DispatchStaysSound == BothSpec => []DispatchIsSound
<1>1. DispatchIInv => DispatchIsSound
  BY InvariantSuffices DEF DispatchIsSound
<1>. QED  BY <1>1, DesignsBehaveAsAlone, DispatchInvariance, PTL

================================================================================

---------------------------- MODULE RemoteCallsProofs --------------------------
(* Proofs about RemoteCalls and its five programs: ApiClients, AccountFactory,  *)
(* Remediation, TaskPools and CostOptimizer, for any calls, tasks, accounts,    *)
(* ports, resources and bounds.                                                 *)
EXTENDS RemoteCalls, FiniteSetTheorems, SequenceTheorems, FunctionTheorems, TLAPS


--------------------------------------------------------------------------------
(* The inductive invariant: the failures a breaker has counted are the streak   *)
(* of failed requests, up to the threshold; a call has sent at most one request *)
(* for each attempt, and without a breaker exactly one.                         *)
BreakerSound ==
    /\ breaker \in [state : {"closed", "open", "half-open"}, failures : 0 .. MaxFailures,
                    cooling : BOOLEAN]
    /\ streak \in Nat
    /\ program # "api_client" =>
           /\ breaker.failures = IF streak < MaxFailures THEN streak ELSE MaxFailures
           /\ breaker.state = "closed" <=> streak < MaxFailures
           /\ breaker.state = "half-open" => program = "go_client" /\ Sending # {}
    /\ program = "api_client" => breaker.state = "closed" /\ breaker.failures = 0

CallSound(call) ==
    /\ call \in [pc : {"new", "attempt", "sending", "ok", "error"},
                 attempt : 1 .. MaxRetries, sent : 0 .. MaxRetries]
    /\ call.attempt <= Attempts
    /\ call.pc \in {"new", "attempt"} => call.sent < call.attempt
    /\ call.sent <= call.attempt
    /\ call.pc = "error" => call.attempt = Attempts
    /\ program = "api_client" =>
           /\ call.pc \in {"new", "attempt"} => call.sent = call.attempt - 1
           /\ call.pc \in {"sending", "error"} => call.sent = call.attempt

IInv ==
    /\ program \in Programs
    /\ BreakerSound
    /\ DOMAIN calls = Calls /\ calls = [c \in Calls |-> calls[c]]
    /\ \A c \in Calls : CallSound(calls[c])

--------------------------------------------------------------------------------
\* How many attempts a call has.
LEMMA AttemptsAre == Attempts \in 1 .. MaxRetries /\ (program = "api_client" => Attempts = MaxRetries)
BY ClientsAssumption DEF Attempts

\* RecordFailure counts up to the threshold, where it opens the breaker.
LEMMA FailureIsCounted ==
    ASSUME NEW b, b.failures \in 0 .. MaxFailures
    PROVE  LET n == IF b.failures < MaxFailures THEN b.failures + 1 ELSE MaxFailures
           IN  RecordFailure(b) = [state |-> IF n = MaxFailures THEN "open" ELSE b.state,
                                   failures |-> n, cooling |-> TRUE]
<1> DEFINE n == IF b.failures < MaxFailures THEN b.failures + 1 ELSE MaxFailures
           S == {MaxFailures, b.failures + 1}
<1>1. n \in S /\ \A y \in S : n <= y
  BY ClientsAssumption
<1>2. \A x \in S : (\A y \in S : x <= y) => x = n
  BY <1>1, ClientsAssumption
<1>3. Min(S) = n
  <2> HIDE DEF n, S
  <2>. QED  BY <1>1, <1>2 DEF Min
<1> HIDE DEF n
<1>. QED  BY <1>3 DEF RecordFailure, n

\* An attempt that came to nothing leaves a sound call.
LEMMA RetriedIsSound ==
    ASSUME NEW call, CallSound(call), call.pc \in {"attempt", "sending"},
           call.pc = "attempt" => program # "api_client"
    PROVE  CallSound(Retried(call)) /\ Retried(call).pc # "sending"
<1> DEFINE Call == [pc : {"new", "attempt", "sending", "ok", "error"},
                    attempt : 1 .. MaxRetries, sent : 0 .. MaxRetries]
<1>1. /\ call \in Call /\ call.attempt <= Attempts /\ call.sent <= call.attempt
      /\ call.attempt \in 1 .. MaxRetries /\ call.sent \in 0 .. MaxRetries
      /\ Attempts \in 1 .. MaxRetries
      /\ call.pc = "attempt" => call.sent < call.attempt
      /\ program = "api_client" => call.sent = call.attempt
  BY AttemptsAre DEF CallSound
<1>2. CASE call.attempt < Attempts
  <2>1. Retried(call) = [call EXCEPT !.pc = "attempt", !.attempt = call.attempt + 1]
    BY <1>2 DEF Retried
  <2>2. /\ Retried(call).pc = "attempt" /\ Retried(call).attempt = call.attempt + 1
        /\ Retried(call).sent = call.sent /\ call.attempt + 1 \in 1 .. MaxRetries
    BY <1>1, <1>2, <2>1, ClientsAssumption
  <2>3. Retried(call) \in Call
    BY <1>1, <2>1, <2>2
  <2>4. Retried(call).sent < Retried(call).attempt /\ Retried(call).attempt <= Attempts
    BY <1>1, <1>2, <2>2, ClientsAssumption
  <2>. QED  BY <1>1, <2>2, <2>3, <2>4 DEF CallSound
<1>3. CASE ~ (call.attempt < Attempts)
  <2>1. Retried(call) = [call EXCEPT !.pc = "error"]
    BY <1>3 DEF Retried
  <2>2. /\ Retried(call).pc = "error" /\ Retried(call).attempt = call.attempt
        /\ Retried(call).sent = call.sent /\ Retried(call) \in Call
    BY <1>1, <2>1
  <2>3. call.attempt = Attempts
    BY <1>1, <1>3, ClientsAssumption
  <2>. QED  BY <1>1, <2>2, <2>3 DEF CallSound
<1>. QED  BY <1>2, <1>3

\* The initial states satisfy the invariant.
LEMMA InitIInv == Init => IInv
BY AttemptsAre, ClientsAssumption DEF Init, IInv, BreakerSound, CallSound

\* One call changes, to a sound one, and the breaker with it.
LEMMA CallStepKeepsIInv ==
    ASSUME IInv, NEW c \in Calls, NEW x, CallSound(x), calls' = [calls EXCEPT ![c] = x],
           program' = program, BreakerSound'
    PROVE  IInv'
<1>1. Attempts' = Attempts
  BY DEF Attempts
<1>2. ASSUME NEW d \in Calls PROVE CallSound(calls[d])'
  <2>1. CallSound(calls'[d])
    BY DEF IInv
  <2>. QED  BY <1>1, <2>1 DEF CallSound
<1>. QED  BY <1>2 DEF IInv

--------------------------------------------------------------------------------
(* Each action keeps the invariant.                                             *)

\* Sending one more request keeps the call sound.
LEMMA SentIsSound ==
    ASSUME NEW call, CallSound(call), call.pc = "attempt"
    PROVE  CallSound([call EXCEPT !.pc = "sending", !.sent = @ + 1])
<1> DEFINE next == [call EXCEPT !.pc = "sending", !.sent = @ + 1]
<1>1. /\ call.attempt \in 1 .. MaxRetries /\ call.sent \in 0 .. MaxRetries
      /\ call.sent < call.attempt /\ call.attempt <= Attempts
      /\ program = "api_client" => call.sent = call.attempt - 1
  BY DEF CallSound
<1>2. next.pc = "sending" /\ next.attempt = call.attempt /\ next.sent = call.sent + 1
  BY DEF CallSound
<1>3. next \in [pc : {"new", "attempt", "sending", "ok", "error"},
                attempt : 1 .. MaxRetries, sent : 0 .. MaxRetries]
  <2>1. call.sent + 1 \in 0 .. MaxRetries
    BY <1>1, AttemptsAre, ClientsAssumption
  <2>. QED  BY <2>1 DEF CallSound
<1>. HIDE DEF next
<1>4. CallSound(next)
  BY <1>1, <1>2, <1>3, ClientsAssumption DEF CallSound
<1>. QED  BY <1>4 DEF next

\* The request of a call is under way after it was sent, and stays so while other
\* calls change.
LEMMA SendingAfter ==
    ASSUME DOMAIN calls = Calls, NEW c \in Calls, NEW x,
           calls' = [calls EXCEPT ![c] = x],
           x.pc = "sending" \/ (calls[c].pc # "sending" /\ Sending # {})
    PROVE  Sending' # {}
<1>1. \A d \in Calls : calls'[d] = IF d = c THEN x ELSE calls[d]
  OBVIOUS
<1>2. CASE x.pc = "sending"
  BY <1>1, <1>2 DEF Sending, At
<1>3. CASE calls[c].pc # "sending" /\ Sending # {}
  <2>1. PICK d \in Calls : calls[d].pc = "sending"
    BY <1>3 DEF Sending, At
  <2>2. calls'[d].pc = "sending"
    BY <1>1, <1>3, <2>1
  <2>. QED  BY <2>2 DEF Sending, At
<1>. QED  BY <1>2, <1>3

\* A step that sends nothing and leaves the breaker alone.
LEMMA BreakerUntouched ==
    ASSUME BreakerSound, program' = program, breaker' = breaker, streak' = streak,
           Sending # {} => Sending' # {}
    PROVE  BreakerSound'
BY DEF BreakerSound

\* A call begins; it has sent nothing yet.
LEMMA BeginKeepsIInv == ASSUME IInv, NEW c \in Calls, Begin(c) PROVE IInv'
<1> DEFINE x == [calls[c] EXCEPT !.pc = "attempt"]
<1>1. calls' = [calls EXCEPT ![c] = x] /\ CallSound(calls[c]) /\ calls[c].pc = "new"
  BY DEF Begin, Goto, At, IInv
<1>2. CallSound(x) /\ x.pc = "attempt"
  BY <1>1 DEF CallSound
<1>. HIDE DEF x
<1>3. Sending # {} => Sending' # {}
  BY <1>1, SendingAfter DEF IInv
<1>4. BreakerSound'
  BY <1>3, BreakerUntouched DEF Begin, IInv
<1>. QED  BY <1>1, <1>2, <1>4, CallStepKeepsIInv DEF Begin

\* A step that sends leaves the breaker's counts alone, and may half-open it.
LEMMA GoAttemptKeepsIInv == ASSUME IInv, NEW c \in Calls, GoAttempt(c) PROVE IInv'
<1>1. /\ CallSound(calls[c]) /\ calls[c].pc = "attempt" /\ program = "go_client"
      /\ BreakerSound /\ DOMAIN calls = Calls
  BY DEF GoAttempt, At, IInv
<1>2. CASE breaker.state = "open" /\ breaker.cooling
  <2>1. calls' = [calls EXCEPT ![c] = Retried(calls[c])] /\ breaker' = breaker
    BY <1>2 DEF GoAttempt
  <2>2. CallSound(Retried(calls[c]))
    BY <1>1, RetriedIsSound
  <2>3. Sending # {} => Sending' # {}
    BY <1>1, <2>1, SendingAfter
  <2>4. BreakerSound'
    BY <1>1, <2>1, <2>3, BreakerUntouched DEF GoAttempt
  <2>. QED  BY <2>1, <2>2, <2>4, CallStepKeepsIInv DEF GoAttempt
<1>3. CASE ~ (breaker.state = "open" /\ breaker.cooling)
  <2> DEFINE x == [calls[c] EXCEPT !.pc = "sending", !.sent = @ + 1]
             mode == IF breaker.state = "open" THEN "half-open" ELSE breaker.state
  <2>1. calls' = [calls EXCEPT ![c] = x]
    BY <1>1, <1>3 DEF GoAttempt, Send
  <2>2. CallSound(x)
    BY <1>1, SentIsSound
  <2>3. x.pc = "sending"
    BY <1>1 DEF CallSound
  <2>4. breaker' = [breaker EXCEPT !.state = mode]
    BY <1>3 DEF GoAttempt
  <2>. HIDE DEF x
  <2>5. Sending' # {}
    BY <1>1, <2>1, <2>3, SendingAfter
  <2>6. /\ breaker'.state = mode /\ breaker'.failures = breaker.failures
        /\ breaker' \in [state : {"closed", "open", "half-open"},
                         failures : 0 .. MaxFailures, cooling : BOOLEAN]
    BY <1>1, <2>4 DEF BreakerSound
  <2>7. mode = "closed" <=> breaker.state = "closed"
    OBVIOUS
  <2>. HIDE DEF mode
  <2>8. BreakerSound'
    BY <1>1, <2>5, <2>6, <2>7 DEF BreakerSound, GoAttempt
  <2>. QED  BY <2>1, <2>2, <2>8, CallStepKeepsIInv DEF GoAttempt
<1>. QED  BY <1>2, <1>3

\* api_client sends without asking its breaker.
LEMMA ApiAttemptKeepsIInv == ASSUME IInv, NEW c \in Calls, ApiAttempt(c) PROVE IInv'
<1> DEFINE x == [calls[c] EXCEPT !.pc = "sending", !.sent = @ + 1]
<1>1. CallSound(calls[c]) /\ calls[c].pc = "attempt" /\ calls' = [calls EXCEPT ![c] = x]
  BY DEF ApiAttempt, At, Send, IInv
<1>2. CallSound(x)
  BY <1>1, SentIsSound
<1>3. x.pc = "sending"
  BY <1>1 DEF CallSound
<1>. HIDE DEF x
<1>4. Sending # {} => Sending' # {}
  BY <1>1, <1>3, SendingAfter DEF IInv
<1>5. BreakerSound'
  BY <1>4, BreakerUntouched DEF ApiAttempt, IInv
<1>. QED  BY <1>1, <1>2, <1>5, CallStepKeepsIInv DEF ApiAttempt

\* A coroutine of the scraper sends, or gives up without sending.
LEMMA ScrapeKeepsIInv == ASSUME IInv, NEW c \in Calls, Scrape(c) PROVE IInv'
<1>1. CallSound(calls[c]) /\ calls[c].pc = "attempt" /\ program = "scraper"
  BY DEF Scrape, At, IInv
<1>2. CASE Goto(c, "error")
  <2> DEFINE x == [calls[c] EXCEPT !.pc = "error"]
  <2>1. calls' = [calls EXCEPT ![c] = x]
    BY <1>2 DEF Goto
  <2>2. /\ x.pc = "error" /\ x.attempt = calls[c].attempt /\ x.sent = calls[c].sent
        /\ x \in [pc : {"new", "attempt", "sending", "ok", "error"},
                  attempt : 1 .. MaxRetries, sent : 0 .. MaxRetries]
    BY <1>1 DEF CallSound
  <2>. HIDE DEF x
  <2>3. calls[c].attempt = Attempts
    BY <1>1, ClientsAssumption DEF CallSound, Attempts
  <2>4. CallSound(x)
    BY <1>1, <2>2, <2>3 DEF CallSound
  <2>5. Sending # {} => Sending' # {}
    BY <1>1, <2>1, SendingAfter DEF IInv
  <2>6. BreakerSound'
    BY <2>5, BreakerUntouched DEF Scrape, IInv
  <2>. QED  BY <2>1, <2>4, <2>6, CallStepKeepsIInv DEF Scrape
<1>3. CASE Send(c)
  <2> DEFINE x == [calls[c] EXCEPT !.pc = "sending", !.sent = @ + 1]
  <2>1. calls' = [calls EXCEPT ![c] = x]
    BY <1>3 DEF Send
  <2>2. CallSound(x)
    BY <1>1, SentIsSound
  <2>3. x.pc = "sending"
    BY <1>1 DEF CallSound
  <2>. HIDE DEF x
  <2>4. Sending # {} => Sending' # {}
    BY <1>1, <2>1, <2>3, SendingAfter DEF IInv
  <2>5. BreakerSound'
    BY <2>4, BreakerUntouched DEF Scrape, IInv
  <2>. QED  BY <2>1, <2>2, <2>5, CallStepKeepsIInv DEF Scrape
<1>. QED  BY <1>2, <1>3 DEF Scrape

\* A success closes the breaker and ends the streak.
LEMMA SucceedKeepsIInv == ASSUME IInv, NEW c \in Calls, Succeed(c) PROVE IInv'
<1> DEFINE x == [calls[c] EXCEPT !.pc = "ok"]
<1>1. /\ CallSound(calls[c]) /\ calls[c].pc = "sending" /\ calls' = [calls EXCEPT ![c] = x]
      /\ program' = program /\ streak' = 0 /\ BreakerSound
  BY DEF Succeed, At, Goto, IInv
<1>2. /\ x.pc = "ok" /\ x.attempt = calls[c].attempt /\ x.sent = calls[c].sent
      /\ x \in [pc : {"new", "attempt", "sending", "ok", "error"},
                attempt : 1 .. MaxRetries, sent : 0 .. MaxRetries]
  BY <1>1 DEF CallSound
<1>. HIDE DEF x
<1>3. CallSound(x)
  BY <1>1, <1>2 DEF CallSound
<1>4. CASE program = "api_client"
  <2>1. breaker' = breaker
    BY <1>4 DEF Succeed, Recorded
  <2>. QED  BY <1>1, <1>3, <1>4, <2>1, CallStepKeepsIInv DEF BreakerSound
<1>5. CASE program # "api_client"
  <2>1. breaker' = [breaker EXCEPT !.state = "closed", !.failures = 0]
    BY <1>5 DEF Succeed, Recorded, RecordSuccess
  <2>2. /\ breaker'.state = "closed" /\ breaker'.failures = 0
        /\ breaker' \in [state : {"closed", "open", "half-open"},
                         failures : 0 .. MaxFailures, cooling : BOOLEAN]
    <3> DEFINE Breakers == [state : {"closed", "open", "half-open"},
                            failures : 0 .. MaxFailures, cooling : BOOLEAN]
    <3>1. breaker \in Breakers /\ 0 \in 0 .. MaxFailures
      BY <1>1, ClientsAssumption DEF BreakerSound
    <3>. QED  BY <2>1, <3>1
  <2>3. BreakerSound'
    BY <1>1, <1>5, <2>2, ClientsAssumption DEF BreakerSound
  <2>. QED  BY <1>1, <1>3, <2>3, CallStepKeepsIInv
<1>. QED  BY <1>4, <1>5

\* A failure lengthens the streak; the breaker opens when it reaches the threshold, and
\* a trial that fails finds it reached.
LEMMA FailKeepsIInv == ASSUME IInv, NEW c \in Calls, Fail(c) PROVE IInv'
<1>1. /\ CallSound(calls[c]) /\ calls[c].pc = "sending"
      /\ calls' = [calls EXCEPT ![c] = Retried(calls[c])]
      /\ program' = program /\ streak' = streak + 1 /\ BreakerSound
  BY DEF Fail, At, IInv
<1>2. CallSound(Retried(calls[c]))
  BY <1>1, RetriedIsSound
<1>3. CASE program = "api_client"
  <2>1. breaker' = breaker
    BY <1>3 DEF Fail, Recorded
  <2>2. BreakerSound'
    BY <1>1, <1>3, <2>1 DEF BreakerSound
  <2>. QED  BY <1>1, <1>2, <2>2, CallStepKeepsIInv
<1>4. CASE program # "api_client"
  <2> DEFINE n == IF breaker.failures < MaxFailures THEN breaker.failures + 1 ELSE MaxFailures
             mode == IF n = MaxFailures THEN "open" ELSE breaker.state
  <2>1. breaker.failures \in 0 .. MaxFailures
    BY <1>1 DEF BreakerSound
  <2>2. RecordFailure(breaker) = [state |-> mode, failures |-> n, cooling |-> TRUE]
    BY <2>1, FailureIsCounted
  <2>3. breaker' = [state |-> mode, failures |-> n, cooling |-> TRUE]
    BY <1>4, <2>2 DEF Fail, Recorded
  <2>4. /\ breaker.failures = IF streak < MaxFailures THEN streak ELSE MaxFailures
        /\ breaker.state = "closed" <=> streak < MaxFailures
        /\ breaker.state \in {"closed", "open", "half-open"} /\ streak \in Nat
    BY <1>1, <1>4 DEF BreakerSound
  <2>5. /\ n = IF streak + 1 < MaxFailures THEN streak + 1 ELSE MaxFailures
        /\ n \in 0 .. MaxFailures
        /\ n = MaxFailures <=> ~ (streak + 1 < MaxFailures)
    BY <2>4, ClientsAssumption
  <2>6. /\ mode \in {"closed", "open"}
        /\ mode = "closed" <=> streak + 1 < MaxFailures
    <3>1. CASE streak + 1 < MaxFailures
      BY <2>4, <2>5, <3>1, ClientsAssumption
    <3>2. CASE ~ (streak + 1 < MaxFailures)
      BY <2>4, <2>5, <3>2, ClientsAssumption
    <3>. QED  BY <3>1, <3>2
  <2>. HIDE DEF n, mode
  <2>7. BreakerSound'
    BY <1>1, <1>4, <2>3, <2>4, <2>5, <2>6 DEF BreakerSound
  <2>. QED  BY <1>1, <1>2, <2>7, CallStepKeepsIInv
<1>. QED  BY <1>3, <1>4

\* The pause of a breaker ends.
LEMMA CoolKeepsIInv == ASSUME IInv, Cool PROVE IInv'
<1>1. /\ program' = program /\ calls' = calls /\ streak' = streak
      /\ breaker' = [breaker EXCEPT !.cooling = FALSE] /\ BreakerSound
      /\ program = "go_client"
  BY DEF Cool, IInv
<1>2. /\ breaker'.state = breaker.state /\ breaker'.failures = breaker.failures
      /\ breaker' \in [state : {"closed", "open", "half-open"},
                       failures : 0 .. MaxFailures, cooling : BOOLEAN]
  BY <1>1 DEF BreakerSound
<1>3. Sending' = Sending /\ Attempts' = Attempts
  BY <1>1 DEF Sending, At, Attempts
<1>4. BreakerSound'
  BY <1>1, <1>2, <1>3 DEF BreakerSound
<1>5. ASSUME NEW d \in Calls PROVE CallSound(calls[d])'
  BY <1>1, <1>3 DEF IInv, CallSound
<1>. QED  BY <1>1, <1>4, <1>5 DEF IInv

\* Every step of the specification keeps the invariant.
LEMMA NextIInv == ASSUME IInv, [Next]_vars PROVE IInv'
<1>1. CASE UNCHANGED vars
  BY <1>1 DEF vars, IInv, BreakerSound, CallSound, Sending, At, Attempts
<1>2. CASE Cool
  BY <1>2, CoolKeepsIInv
<1>3. ASSUME NEW c \in Calls, Begin(c) \/ Step(c) PROVE IInv'
  BY <1>3, BeginKeepsIInv, GoAttemptKeepsIInv, ApiAttemptKeepsIInv, ScrapeKeepsIInv,
     SucceedKeepsIInv, FailKeepsIInv DEF Step
<1>. QED  BY <1>1, <1>2, <1>3 DEF Next

--------------------------------------------------------------------------------
\* In every reachable state the failures a breaker has counted are the streak of failed
\* requests, and every call is sound.
THEOREM Invariance == Spec => []IInv
<1>1. Init => IInv
  BY InitIInv
<1>2. IInv /\ [Next]_vars => IInv'
  BY NextIInv
<1>. QED  BY <1>1, <1>2, PTL DEF Spec

\* The invariant is one of types, too.
LEMMA TypesOfClients == IInv => TypeOK
<1>. SUFFICES ASSUME IInv PROVE TypeOK
  OBVIOUS
<1>1. calls \in [Calls -> [pc : {"new", "attempt", "sending", "ok", "error"},
                         attempt : 1 .. MaxRetries, sent : 0 .. MaxRetries]]
  BY DEF IInv, CallSound
<1>. QED  BY <1>1 DEF IInv, BreakerSound, TypeOK

\* The clients' state keeps its types: no call has more attempts than MaxRetries or
\* sends more requests.
THEOREM TypeCorrect == Spec => []TypeOK
BY TypesOfClients, Invariance, PTL

\* For any threshold, any number of calls and however the coroutines interleave: a
\* breaker that is asked is open exactly after MaxFailures failures in a row, half-opens
\* only for a request under way, and a call gives up only after its last attempt.
THEOREM BreakersSound == Spec => []ClientBreakersSound
<1>1. IInv => ClientBreakersSound
  <2>. SUFFICES ASSUME IInv PROVE ClientBreakersSound
    OBVIOUS
  <2>1. ASSUME NEW c \in Calls, At(c, "error")
        PROVE  /\ calls[c].attempt = Attempts
               /\ program = "api_client" => calls[c].sent = Attempts
    BY <2>1 DEF IInv, CallSound, At
  <2>. QED  BY <2>1 DEF IInv, BreakerSound, ClientBreakersSound
<1>. QED  BY <1>1, Invariance, PTL

\* The scraper's breaker never recovers: once it is open and no request is under way,
\* nothing is ever sent again.
THEOREM ScraperStaysOpen == Spec => OpenForEver
<1> DEFINE Stuck == program = "scraper" /\ breaker.state = "open" /\ Sending = {}
           Same == breaker' = breaker /\ Sending' = {}
<1>1. ASSUME IInv, Next, Stuck PROVE Same
  <2>1. PICK c \in Calls : Begin(c) \/ Scrape(c)
    BY <1>1 DEF Next, Step, Cool, GoAttempt, ApiAttempt, Succeed, Fail, Sending
  <2>2. PICK pc \in {"attempt", "error"} : Goto(c, pc)
    BY <1>1, <2>1 DEF Begin, Scrape
  <2>3. breaker' = breaker
    BY <2>1 DEF Begin, Scrape
  <2>4. ASSUME NEW d \in Calls PROVE calls'[d].pc # "sending"
    <3>1. calls[d].pc # "sending"
      BY <1>1 DEF Sending, At
    <3>2. CASE d = c
      <4>1. calls'[c] = [calls[c] EXCEPT !.pc = pc]
        BY <1>1, <2>2 DEF Goto, IInv
      <4>2. CallSound(calls[c])
        BY <1>1 DEF IInv
      <4>3. calls'[c].pc = pc
        BY <4>1, <4>2 DEF CallSound
      <4>. QED  BY <2>2, <3>2, <4>3
    <3>3. CASE d # c
      BY <1>1, <2>2, <3>1, <3>3 DEF Goto, IInv
    <3>. QED  BY <3>2, <3>3
  <2>. QED  BY <2>3, <2>4 DEF Sending, At
<1>2. IInv /\ [Next]_vars => [Stuck => Same]_vars
  BY <1>1
<1>. QED  BY <1>2, Invariance, PTL DEF Spec, OpenForEver

--------------------------------------------------------------------------------
(* AccountFactory.                                                              *)

\* What the call c of create_account knows of the account it asked for.
CreationSound(c, call, account) ==
    /\ call.pc \in {"request", "wait", "list", "create", "move"} => call.next = 1
    /\ call.pc = "wait" => account # Factory!None
    /\ call.pc \in {"list", "create", "move", "baseline", "returned"} =>
           account # Factory!None /\ account.by = c
    /\ call.pc \in {"baseline", "returned"} => account.unit = call.unit
    /\ call.pc = "baseline" => call.next <= Len(Factory!Baseline)
    /\ call.pc = "returned" => call.next = Len(Factory!Baseline) + 1

\* An account is as far as the call that made it: it has the part of the baseline that
\* call has behind it, and left the root before the first of it.
AccountSound(e, account, call) ==
    /\ call.email = e /\ call.pc # "request"
    /\ account.done = {Factory!Baseline[i] : i \in 1 .. call.next - 1}
    /\ call.next > 1 => account.unit # "root"

FactorySound ==
    /\ Factory!TypeOK
    /\ \A c \in Creations : CreationSound(c, requests[c], accounts[requests[c].email])
    /\ \A e \in Emails : accounts[e] # Factory!None =>
           AccountSound(e, accounts[e], requests[accounts[e].by])

\* The baseline: 13 calls, of which attach_role_policy is the last.
LEMMA BaselineIs ==
    LET B == Factory!Baseline
    IN  /\ Len(B) = 13 /\ DOMAIN B = 1 .. 13
        /\ \A i \in 1 .. 13 : B[i] = "attach_role_policy" => i = 13
        /\ B[3] = "start_logging" /\ B[6] = "start_configuration_recorder"
        /\ B[8] = "accept_invitation"
<1> DEFINE B == Factory!Baseline
<1>1. Len(B) = 13 /\ DOMAIN B = 1 .. 13
  BY DEF Factory!Baseline, Factory!EnableCloudtrail, Factory!EnableConfig,
     Factory!EnableGuardduty, Factory!SetupVpc, Factory!CreateCrossAccountRoles
<1>2. /\ B[1] = "assume_role" /\ B[2] = "create_trail" /\ B[3] = "start_logging"
      /\ B[4] = "put_configuration_recorder" /\ B[5] = "put_delivery_channel"
      /\ B[6] = "start_configuration_recorder" /\ B[7] = "create_detector"
      /\ B[8] = "accept_invitation" /\ B[9] = "create_vpc" /\ B[10] = "create_subnet"
      /\ B[11] = "create_transit_gateway_vpc_attachment" /\ B[12] = "create_role"
  BY DEF Factory!Baseline, Factory!EnableCloudtrail, Factory!EnableConfig,
     Factory!EnableGuardduty, Factory!SetupVpc, Factory!CreateCrossAccountRoles
<1> HIDE DEF B
<1>3. ASSUME NEW i \in 1 .. 13, B[i] = "attach_role_policy" PROVE i = 13
  <2>1. i \in {1, 2, 3, 4, 5, 6, 7, 8, 9, 10, 11, 12, 13}
    OBVIOUS
  <2>. QED  BY <1>2, <1>3, <2>1
<1>. QED  BY <1>1, <1>2, <1>3 DEF B

\* None is no account.
LEMMA NoneIsNoAccount == Factory!None \notin Factory!Accounts
BY DEF Factory!None, Factory!Accounts

\* The state of a call of create_account.
Creation == [pc : {"request", "wait", "list", "create", "move", "baseline", "returned", "raised"},
             email : Emails, unit : UnitNames, next : 1 .. Len(Factory!Baseline) + 1]

\* What the types say of a call and of an account.
LEMMA FactoryTypes ==
    ASSUME Factory!TypeOK
    PROVE  /\ requests \in [Creations -> Creation]
           /\ \A c \in Creations : requests[c] \in Creation /\ requests[c].email \in Emails
           /\ \A e \in Emails : accounts[e] # Factory!None =>
                  /\ accounts[e] \in Factory!Accounts /\ accounts[e].by \in Creations
                  /\ accounts[e].unit \in UnitNames \cup {"root"}
BY DEF Factory!TypeOK, Factory!Accounts, Creation

\* One call and the account of its e-mail change; the account is new, or the call's own.
LEMMA CreationStepKeeps ==
    ASSUME FactorySound, NEW c \in Creations,
           NEW call \in Creation, call.email = requests[c].email,
           requests' = [requests EXCEPT ![c] = call],
           NEW account \in Factory!Accounts \cup {Factory!None},
           accounts' = [accounts EXCEPT ![call.email] = account],
           units' \subseteq UnitNames,
           CreationSound(c, call, account),
           account # accounts[call.email] =>
               /\ account \in Factory!Accounts /\ account.by = c
               /\ accounts[call.email] # Factory!None => accounts[call.email].by = c,
           account # Factory!None /\ account.by = c => AccountSound(call.email, account, call)
    PROVE  FactorySound'
<1> DEFINE e == call.email
<1>1. /\ e \in Emails /\ DOMAIN requests = Creations /\ DOMAIN accounts = Emails
      /\ accounts \in [Emails -> Factory!Accounts \cup {Factory!None}]
      /\ requests \in [Creations -> Creation]
  BY FactoryTypes DEF FactorySound, Factory!TypeOK, Creation
<1>2. accounts' \in [Emails -> Factory!Accounts \cup {Factory!None}] /\ requests' \in [Creations -> Creation]
  BY <1>1
<1>3. Factory!TypeOK'
  BY <1>2 DEF Factory!TypeOK, Creation
<1>4. /\ requests'[c] = call /\ \A d \in Creations : d # c => requests'[d] = requests[d]
      /\ accounts'[e] = account /\ \A f \in Emails : f # e => accounts'[f] = accounts[f]
  BY <1>1
<1>5. ASSUME NEW d \in Creations
      PROVE  CreationSound(d, requests'[d], accounts'[requests'[d].email])
  <2>1. CreationSound(d, requests[d], accounts[requests[d].email])
    BY DEF FactorySound
  <2>2. CASE d = c
    BY <1>4, <2>2
  <2>3. CASE d # c /\ accounts'[requests[d].email] = accounts[requests[d].email]
    BY <1>4, <2>1, <2>3
  <2>4. CASE d # c /\ accounts'[requests[d].email] # accounts[requests[d].email]
    <3>1. requests[d].email = e
      BY <1>4, <2>4, FactoryTypes DEF FactorySound
    <3>2. account \in Factory!Accounts /\ (accounts[e] # Factory!None => accounts[e].by = c)
      BY <1>4, <2>4, <3>1
    <3>3. account # Factory!None
      BY <3>2, NoneIsNoAccount
    <3>. QED  BY <1>4, <2>1, <2>4, <3>1, <3>2, <3>3 DEF CreationSound
  <2>. QED  BY <2>2, <2>3, <2>4
<1>6. ASSUME NEW f \in Emails, accounts'[f] # Factory!None
      PROVE  AccountSound(f, accounts'[f], requests'[accounts'[f].by])
  <2>1. accounts[f] # Factory!None =>
            accounts[f].by \in Creations /\ AccountSound(f, accounts[f], requests[accounts[f].by])
    BY FactoryTypes DEF FactorySound
  <2>2. CASE f = e /\ account.by = c
    BY <1>4, <1>6, <2>2
  <2>3. CASE f = e /\ account.by # c
    <3>1. account = accounts[f] /\ accounts[f] # Factory!None
      BY <1>4, <1>6, <2>3
    <3>. QED  BY <1>4, <2>1, <2>3, <3>1
  <2>4. CASE f # e
    <3>1. accounts'[f] = accounts[f] /\ accounts[f] # Factory!None
      BY <1>4, <1>6, <2>4
    <3>2. requests[accounts[f].by].email = f
      BY <2>1, <3>1 DEF AccountSound
    <3>3. accounts[f].by # c
      BY <2>4, <3>2
    <3>. QED  BY <1>4, <2>1, <3>1, <3>3
  <2>. QED  BY <2>2, <2>3, <2>4
<1>. QED  BY <1>3, <1>5, <1>6 DEF FactorySound

\* A call goes on, or ends, and no account changes.
LEMMA GotoKeeps ==
    ASSUME FactorySound, NEW c \in Creations, NEW pc, Factory!Goto(c, pc),
           [requests[c] EXCEPT !.pc = pc] \in Creation, pc # "request",
           CreationSound(c, [requests[c] EXCEPT !.pc = pc], accounts[requests[c].email]),
           accounts' = accounts, units' \subseteq UnitNames
    PROVE  FactorySound'
<1> DEFINE call == [requests[c] EXCEPT !.pc = pc]
           account == accounts[requests[c].email]
<1>1. requests[c] \in Creation /\ requests[c].email \in Emails
  BY FactoryTypes DEF FactorySound
<1>2. /\ call.email = requests[c].email /\ call.next = requests[c].next /\ call.pc = pc
      /\ requests' = [requests EXCEPT ![c] = call]
  BY <1>1 DEF Factory!Goto, Creation
<1>3. accounts \in [Emails -> Factory!Accounts \cup {Factory!None}]
  BY DEF FactorySound, Factory!TypeOK
<1>4. /\ account \in Factory!Accounts \cup {Factory!None}
      /\ accounts' = [accounts EXCEPT ![call.email] = account]
  BY <1>1, <1>2, <1>3
<1>5. ASSUME account # Factory!None, account.by = c PROVE AccountSound(call.email, account, call)
  <2>1. AccountSound(requests[c].email, account, requests[c])
    BY <1>1, <1>5 DEF FactorySound
  <2> HIDE DEF call
  <2>. QED  BY <1>2, <2>1 DEF AccountSound
<1>6. account = accounts[call.email]
  BY <1>2
<1> HIDE DEF call, account
<1>7. call \in Creation /\ CreationSound(c, call, account)
  BY DEF call, account
<1>. QED  BY <1>2, <1>4, <1>5, <1>6, <1>7, CreationStepKeeps

\* The steps that make no difference to accounts.
LEMMA QuietCreationKeeps ==
    ASSUME FactorySound, NEW c \in Creations, NEW page,
           \/ Factory!Created(c) \/ Factory!ListUnits(c, page)
           \/ Factory!CreateUnit(c) \/ Factory!Raise(c)
    PROVE  FactorySound'
<1>1. /\ requests[c] \in Creation /\ units \subseteq UnitNames
      /\ CreationSound(c, requests[c], accounts[requests[c].email])
  BY FactoryTypes DEF FactorySound, Factory!TypeOK
<1>2. ASSUME NEW pc \in {"list", "create", "move", "raised"}
      PROVE  [requests[c] EXCEPT !.pc = pc] \in Creation /\ pc # "request"
  BY <1>1 DEF Creation
<1>3. CASE Factory!Created(c)
  <2>1. /\ requests[c].pc = "wait" /\ accounts[requests[c].email].by = c
        /\ Factory!Goto(c, "list") /\ accounts' = accounts /\ units' = units
    BY <1>3 DEF Factory!Created, Factory!At
  <2>2. CreationSound(c, [requests[c] EXCEPT !.pc = "list"], accounts[requests[c].email])
    BY <1>1, <2>1 DEF CreationSound, Creation
  <2>. QED  BY <1>1, <1>2, <2>1, <2>2, GotoKeeps
<1>4. CASE Factory!ListUnits(c, page)
  <2>1. PICK pc \in {"move", "create"} : Factory!Goto(c, pc)
    BY <1>4 DEF Factory!ListUnits
  <2>2. requests[c].pc = "list" /\ accounts' = accounts /\ units' = units
    BY <1>4 DEF Factory!ListUnits, Factory!At
  <2>3. CreationSound(c, [requests[c] EXCEPT !.pc = pc], accounts[requests[c].email])
    BY <1>1, <2>2 DEF CreationSound, Creation
  <2>. QED  BY <1>1, <1>2, <2>1, <2>2, <2>3, GotoKeeps
<1>5. CASE Factory!CreateUnit(c)
  <2>1. /\ requests[c].pc = "create" /\ accounts' = accounts
        /\ units' = units \cup {requests[c].unit} /\ Factory!Goto(c, "move")
    BY <1>5 DEF Factory!CreateUnit, Factory!At
  <2>2. CreationSound(c, [requests[c] EXCEPT !.pc = "move"], accounts[requests[c].email])
    BY <1>1, <2>1 DEF CreationSound, Creation
  <2>3. units' \subseteq UnitNames
    BY <1>1, <2>1 DEF Creation
  <2>. QED  BY <1>1, <1>2, <2>1, <2>2, <2>3, GotoKeeps
<1>6. CASE Factory!Raise(c)
  <2>1. accounts' = accounts /\ units' = units /\ Factory!Goto(c, "raised")
    BY <1>6 DEF Factory!Raise
  <2>2. CreationSound(c, [requests[c] EXCEPT !.pc = "raised"], accounts[requests[c].email])
    BY <1>1 DEF CreationSound, Creation
  <2>. QED  BY <1>1, <1>2, <2>1, <2>2, GotoKeeps
<1>. QED  BY <1>3, <1>4, <1>5, <1>6

\* A requested account is new, in the root and bare; an e-mail that is taken changes nothing.
LEMMA RequestKeeps ==
    ASSUME FactorySound, NEW c \in Creations, Factory!Request(c) PROVE FactorySound'
<1> DEFINE call == [requests[c] EXCEPT !.pc = "wait"]
           e == requests[c].email
<1>1. /\ requests[c] \in Creation /\ e \in Emails /\ units \subseteq UnitNames
      /\ CreationSound(c, requests[c], accounts[e])
      /\ requests[c].pc = "request" /\ units' = units
      /\ requests' = [requests EXCEPT ![c] = call]
  BY FactoryTypes DEF FactorySound, Factory!TypeOK, Factory!Request, Factory!At, Factory!Goto
<1>2. call \in Creation /\ call.email = e /\ call.pc = "wait" /\ call.next = 1
  BY <1>1 DEF Creation, CreationSound
<1>3. CASE accounts[e] = Factory!None
  <2> DEFINE account == [by |-> c, unit |-> "root", done |-> {}]
  <2>1. accounts' = [accounts EXCEPT ![e] = account]
    BY <1>3 DEF Factory!Request, Factory!SetAccount
  <2>2. account \in Factory!Accounts /\ account # Factory!None
    BY NoneIsNoAccount DEF Factory!Accounts
  <2>3. AccountSound(e, account, call)
    BY <1>2 DEF AccountSound
  <2>4. CreationSound(c, call, account)
    BY <1>2, <2>2 DEF CreationSound
  <2>5. account.by = c
    OBVIOUS
  <2> HIDE DEF call, account
  <2>. QED  BY <1>1, <1>2, <1>3, <2>1, <2>2, <2>3, <2>4, <2>5, CreationStepKeeps
<1>4. CASE accounts[e] # Factory!None
  <2>1. accounts' = accounts /\ Factory!Goto(c, "wait")
    BY <1>4 DEF Factory!Request
  <2>2. CreationSound(c, call, accounts[e])
    BY <1>2, <1>4 DEF CreationSound
  <2>. QED  BY <1>1, <1>2, <2>1, <2>2, GotoKeeps
<1>. QED  BY <1>3, <1>4

\* The account leaves the root for the unit asked for.
LEMMA MoveKeeps ==
    ASSUME FactorySound, NEW c \in Creations, Factory!MoveAccount(c) PROVE FactorySound'
<1> DEFINE call == [requests[c] EXCEPT !.pc = "baseline"]
           e == requests[c].email
           account == [accounts[e] EXCEPT !.unit = requests[c].unit]
<1>1. /\ requests[c] \in Creation /\ e \in Emails /\ units \subseteq UnitNames
      /\ CreationSound(c, requests[c], accounts[e])
      /\ requests[c].pc = "move" /\ units' = units
      /\ requests' = [requests EXCEPT ![c] = call]
      /\ accounts' = [accounts EXCEPT ![e] = account]
  BY FactoryTypes DEF FactorySound, Factory!TypeOK, Factory!MoveAccount, Factory!At,
     Factory!Goto, Factory!SetAccount
<1>2. call \in Creation /\ call.email = e /\ call.pc = "baseline" /\ call.next = 1 /\ call.unit = requests[c].unit
  BY <1>1 DEF Creation, CreationSound
<1>3. accounts[e] # Factory!None /\ accounts[e].by = c /\ accounts[e] \in Factory!Accounts
  BY <1>1, FactoryTypes DEF CreationSound, FactorySound
<1>4. AccountSound(e, accounts[e], requests[c])
  BY <1>1, <1>3 DEF FactorySound
<1>5. /\ account \in Factory!Accounts /\ account.by = c /\ account.unit = requests[c].unit
      /\ account.done = accounts[e].done
  BY <1>1, <1>3 DEF Factory!Accounts, Creation
<1>6. account # Factory!None
  BY <1>5, NoneIsNoAccount
<1> HIDE DEF call, account
<1>7. requests[c].next = 1
  BY <1>1 DEF CreationSound
<1>8. AccountSound(e, account, call)
  BY <1>2, <1>4, <1>5, <1>7 DEF AccountSound
<1>9. CreationSound(c, call, account)
  BY <1>2, <1>5, <1>6, BaselineIs DEF CreationSound
<1>. QED  BY <1>1, <1>2, <1>3, <1>5, <1>8, <1>9, CreationStepKeeps

\* The next call of the baseline is made.
LEMMA SetUpKeeps ==
    ASSUME FactorySound, NEW c \in Creations, Factory!SetUp(c) PROVE FactorySound'
<1> DEFINE B == Factory!Baseline
           n == requests[c].next
           pc == IF n = Len(B) THEN "returned" ELSE requests[c].pc
           call == [requests[c] EXCEPT !.next = n + 1, !.pc = pc]
           e == requests[c].email
           account == [accounts[e] EXCEPT !.done = @ \cup {B[n]}]
<1>1. /\ requests[c] \in Creation /\ e \in Emails /\ units \subseteq UnitNames
      /\ CreationSound(c, requests[c], accounts[e])
      /\ requests[c].pc = "baseline" /\ units' = units
  BY FactoryTypes DEF FactorySound, Factory!TypeOK, Factory!SetUp, Factory!At
<1>2. /\ requests' = [requests EXCEPT ![c] = call]
      /\ accounts' = [accounts EXCEPT ![e] = account]
  BY <1>1, FactoryTypes DEF Factory!SetUp, Factory!SetAccount, FactorySound, Creation
<1>3. n \in 1 .. Len(B) /\ Len(B) = 13 /\ DOMAIN B = 1 .. 13
  BY <1>1, BaselineIs DEF Creation, CreationSound
<1>4. call \in Creation /\ call.email = e /\ call.pc = pc /\ call.next = n + 1 /\ call.unit = requests[c].unit
  <2>1. n + 1 \in 1 .. Len(B) + 1 /\ pc \in {"returned", "baseline"}
    BY <1>1, <1>3
  <2>. QED  BY <1>1, <2>1 DEF Creation
<1>5. /\ accounts[e] # Factory!None /\ accounts[e].by = c /\ accounts[e] \in Factory!Accounts
      /\ accounts[e].unit = requests[c].unit
  BY <1>1, FactoryTypes DEF CreationSound, FactorySound
<1>6. AccountSound(e, accounts[e], requests[c])
  BY <1>1, <1>5 DEF FactorySound
<1>7. B[n] \in Factory!ToSet(B)
  BY <1>3 DEF Factory!ToSet
<1>8. /\ account \in Factory!Accounts /\ account.by = c /\ account.unit = requests[c].unit
      /\ account.done = accounts[e].done \cup {B[n]}
  BY <1>5, <1>7 DEF Factory!Accounts
<1>9. account # Factory!None
  BY <1>8, NoneIsNoAccount
<1>10. requests[c].unit # "root"
  BY <1>1, FactoryAssumption DEF Creation
<1>11. {B[i] : i \in 1 .. n + 1 - 1} = {B[i] : i \in 1 .. n - 1} \cup {B[n]}
  <2>1. \A i : i \in 1 .. n + 1 - 1 <=> i \in 1 .. n - 1 \/ i = n
    BY <1>3
  <2>. QED  BY <2>1
<1> HIDE DEF call, account, B
<1>14. call.next = n + 1 /\ n \in Nat /\ call.pc # "request"
  BY <1>1, <1>3, <1>4
<1>12. AccountSound(e, account, call)
  <2>1. accounts[e].done = {B[i] : i \in 1 .. n - 1}
    BY <1>6 DEF AccountSound, B
  <2>2. account.done = {B[i] : i \in 1 .. n + 1 - 1}
    BY <1>8, <1>11, <2>1
  <2>5. call.next - 1 = n + 1 - 1
    BY <1>14
  <2>3. account.done = {B[i] : i \in 1 .. call.next - 1}
    BY <2>2, <2>5, Zenon
  <2>4. call.pc # "request" /\ account.unit # "root"
    BY <1>8, <1>10, <1>14
  <2>. QED  BY <1>4, <2>3, <2>4 DEF AccountSound, B
<1>13. CreationSound(c, call, account)
  BY <1>1, <1>3, <1>4, <1>8, <1>9 DEF CreationSound, B
<1>. QED  BY <1>1, <1>2, <1>4, <1>5, <1>8, <1>12, <1>13, CreationStepKeeps

\* Initially there are no accounts, and every call is at its request.
LEMMA FactoryInit == Factory!Init => FactorySound
<1> SUFFICES ASSUME Factory!Init PROVE FactorySound
  OBVIOUS
<1>1. \A e \in Emails : accounts[e] = Factory!None
  BY DEF Factory!Init
<1>2. 1 \in 1 .. Len(Factory!Baseline) + 1
  BY BaselineIs
<1>3. Factory!TypeOK
  BY <1>2 DEF Factory!Init, Factory!TypeOK
<1>4. \A c \in Creations : requests[c].pc = "request" /\ requests[c].next = 1
  BY DEF Factory!Init
<1>5. ASSUME NEW c \in Creations PROVE CreationSound(c, requests[c], accounts[requests[c].email])
  BY <1>4 DEF CreationSound
<1>. QED  BY <1>1, <1>3, <1>5 DEF FactorySound

\* Every step of the account factory keeps its invariant.
LEMMA FactoryNext == FactorySound /\ [Factory!Next]_FactoryVars => FactorySound'
<1> SUFFICES ASSUME FactorySound, [Factory!Next]_FactoryVars PROVE FactorySound'
  OBVIOUS
<1>1. CASE UNCHANGED FactoryVars
  BY <1>1 DEF FactoryVars, FactorySound, Factory!TypeOK
<1>2. CASE Factory!Next
  BY <1>2, QuietCreationKeeps, RequestKeeps, MoveKeeps, SetUpKeeps DEF Factory!Next
<1>. QED  BY <1>1, <1>2

\* The invariant says what a returned account has, and what every account has.
LEMMA FactoryIsGoverned == FactorySound => AccountsAreGoverned
<1> SUFFICES ASSUME FactorySound PROVE Factory!AccountsAreGoverned
  BY DEF AccountsAreGoverned
<1> DEFINE B == Factory!Baseline
<1>1. ASSUME NEW c \in Creations, requests[c].pc = "returned"
      PROVE  accounts[requests[c].email] = [by |-> c, unit |-> requests[c].unit, done |-> Factory!ToSet(B)]
  <2> DEFINE account == accounts[requests[c].email]
  <2>1. /\ account # Factory!None /\ account.by = c /\ account.unit = requests[c].unit
        /\ requests[c].next = Len(B) + 1 /\ account \in Factory!Accounts
        /\ AccountSound(requests[c].email, account, requests[c])
    BY <1>1, FactoryTypes DEF FactorySound, CreationSound
  <2>2. account.done = Factory!ToSet(B)
    <3>1. requests[c].next - 1 = 13 /\ DOMAIN B = 1 .. 13
      BY <2>1, BaselineIs
    <3>. QED  BY <2>1, <3>1 DEF AccountSound, Factory!ToSet
  <2> HIDE DEF account, B
  <2>3. account = [by |-> c, unit |-> requests[c].unit, done |-> Factory!ToSet(B)]
    BY <2>1, <2>2 DEF Factory!Accounts
  <2>. QED  BY <2>3 DEF account
<1>2. ASSUME NEW e \in Emails, accounts[e] # Factory!None
      PROVE  /\ accounts[e].done # {} => accounts[e].unit # "root"
             /\ "attach_role_policy" \in accounts[e].done =>
                  {"start_logging", "start_configuration_recorder", "accept_invitation"}
                      \subseteq accounts[e].done
  <2> DEFINE n == requests[accounts[e].by].next
  <2>1. /\ accounts[e].done = {B[i] : i \in 1 .. n - 1}
        /\ n > 1 => accounts[e].unit # "root"
        /\ n \in 1 .. 14
    BY <1>2, FactoryTypes, BaselineIs DEF FactorySound, AccountSound, Creation
  <2>2. /\ \A i \in 1 .. 13 : B[i] = "attach_role_policy" => i = 13
        /\ B[3] = "start_logging" /\ B[6] = "start_configuration_recorder"
        /\ B[8] = "accept_invitation"
    BY BaselineIs
  <2> HIDE DEF B, n
  <2>3. accounts[e].done # {} => n > 1
    BY <2>1
  <2>4. ASSUME "attach_role_policy" \in accounts[e].done PROVE 3 \in 1 .. n - 1 /\ 6 \in 1 .. n - 1 /\ 8 \in 1 .. n - 1
    <3>1. PICK i \in 1 .. n - 1 : B[i] = "attach_role_policy"
      BY <2>1, <2>4
    <3>2. i \in 1 .. 13
      BY <2>1
    <3>3. i = 13
      BY <2>2, <3>1, <3>2
    <3>. QED  BY <2>1, <3>3
  <2>. QED  BY <2>1, <2>2, <2>3, <2>4
<1>. QED  BY <1>1, <1>2 DEF Factory!AccountsAreGoverned, Factory!At

--------------------------------------------------------------------------------
(* Remediation.                                                                 *)

\* What an invocation knows: of the group it has left only open rules to revoke that
\* were open, and while no administrator interferes, all that are still open.
InvocationSound(i, private, open, opened, n) ==
    /\ i.pc = "revoke" => i.route = "remediate_security_group"
    /\ Security!Open(i.rules) \subseteq opened
    /\ i.pc = "answered" /\ i.route = "remediate_public_s3" => private
    /\ i.route = "remediate_security_group" /\ n = 0 =>
           /\ i.pc = "revoke" => open \subseteq Security!Open(i.rules)
           /\ i.pc = "answered" => open = {}

SecuritySound ==
    /\ Security!TypeOK
    /\ Security!Open(ingress) \subseteq exposed
    /\ \A p \in Ports \ exposed : ingress[p] = kept[p]
    /\ \A e \in Events : InvocationSound(invocations[e], blocked, Security!Open(ingress), exposed, changes)

\* The state of an invocation.
Invocation == [pc : {"invoked", "assumed", "revoke", "answered", "failed", "dropped"},
               route : Security!Routes, attempt : 1 .. MaxAttempts,
               rules : [Ports -> SUBSET Security!Ranges]]

\* An invocation changes, at most closing the bucket, the key and ports, and of these
\* only ports that were open.
LEMMA InvocationStepKeeps ==
    ASSUME SecuritySound, NEW e \in Events, NEW i \in Invocation,
           invocations' = [invocations EXCEPT ![e] = i],
           UNCHANGED <<exposed, changes, kept>>,
           blocked' \in BOOLEAN, active' \in BOOLEAN, blocked => blocked',
           ingress' \in [Ports -> SUBSET Security!Ranges],
           \A p \in Ports : ingress'[p] \subseteq ingress[p],
           \A p \in Ports \ exposed : ingress'[p] = ingress[p],
           InvocationSound(i, blocked', Security!Open(ingress'), exposed, changes)
    PROVE  SecuritySound'
<1>1. Security!TypeOK /\ Security!TypeOK'
  BY DEF SecuritySound, Security!TypeOK, Invocation
<1>2. Security!Open(ingress') \subseteq Security!Open(ingress)
  BY DEF Security!Open
<1>3. ASSUME NEW d \in Events PROVE InvocationSound(invocations'[d], blocked', Security!Open(ingress'), exposed', changes')
  <2>1. InvocationSound(invocations[d], blocked, Security!Open(ingress), exposed, changes)
    BY DEF SecuritySound
  <2>2. invocations'[e] = i /\ (d # e => invocations'[d] = invocations[d])
    BY <1>1 DEF Security!TypeOK
  <2>3. CASE d = e
    BY <2>2, <2>3 DEF InvocationSound
  <2>4. CASE d # e
    BY <1>2, <2>1, <2>2, <2>4 DEF InvocationSound
  <2>. QED  BY <2>3, <2>4
<1>4. Security!Open(ingress)' \subseteq exposed' /\ \A p \in Ports \ exposed' : ingress'[p] = kept'[p]
  BY <1>2 DEF SecuritySound, Security!Open
<1>. QED  BY <1>1, <1>3, <1>4 DEF SecuritySound

\* The types, and what an invocation at "pc" looks like after it.
LEMMA SecurityTypes ==
    ASSUME SecuritySound, NEW e \in Events
    PROVE  /\ invocations[e] \in Invocation /\ InvocationSound(invocations[e], blocked, Security!Open(ingress), exposed, changes)
           /\ ingress \in [Ports -> SUBSET Security!Ranges]
           /\ blocked \in BOOLEAN /\ active \in BOOLEAN
           /\ \A pc \in {"invoked", "assumed", "revoke", "answered", "failed", "dropped"} :
                  [invocations[e] EXCEPT !.pc = pc] \in Invocation
BY DEF SecuritySound, Security!TypeOK, Invocation

\* An invocation moves on and may close the bucket or the key.
LEMMA GotoKeepsSecurity ==
    ASSUME SecuritySound, NEW e \in Events,
           NEW pc \in {"invoked", "assumed", "answered", "failed", "dropped"},
           Security!Goto(e, pc), UNCHANGED <<ingress, exposed, changes, kept>>,
           blocked' \in BOOLEAN, active' \in BOOLEAN, blocked => blocked',
           pc = "answered" => /\ invocations[e].route = "remediate_public_s3" => blocked'
                              /\ invocations[e].route # "remediate_security_group"
    PROVE  SecuritySound'
<1> DEFINE i == [invocations[e] EXCEPT !.pc = pc]
<1>1. /\ invocations[e] \in Invocation /\ InvocationSound(invocations[e], blocked, Security!Open(ingress), exposed, changes)
      /\ ingress \in [Ports -> SUBSET Security!Ranges] /\ i \in Invocation
  BY SecurityTypes
<1>2. i.pc = pc /\ i.route = invocations[e].route /\ i.rules = invocations[e].rules
  BY <1>1 DEF Invocation
<1>3. invocations' = [invocations EXCEPT ![e] = i]
  BY DEF Security!Goto
<1> HIDE DEF i
<1>4. InvocationSound(i, blocked', Security!Open(ingress'), exposed, changes)
  BY <1>1, <1>2 DEF InvocationSound
<1>. QED  BY <1>1, <1>3, <1>4, InvocationStepKeeps

\* Every step but those at the rules of a group.
LEMMA SimpleStepsKeep ==
    ASSUME SecuritySound, NEW e \in Events,
           \/ Security!Route(e) \/ Security!RemediatePublicS3(e)
           \/ Security!RemediateIamIssue(e) \/ Security!Fail(e)
    PROVE  SecuritySound'
<1>1. blocked \in BOOLEAN /\ active \in BOOLEAN
  BY SecurityTypes
<1>2. CASE Security!Route(e)
  <2>1. CASE invocations[e].route = "nothing"
    BY <1>1, <1>2, <2>1, GotoKeepsSecurity DEF Security!Route, Security!Account, Security!Administration
  <2>2. CASE invocations[e].route # "nothing"
    BY <1>1, <1>2, <2>2, GotoKeepsSecurity DEF Security!Route, Security!Account, Security!Administration
  <2>. QED  BY <2>1, <2>2
<1>3. CASE Security!RemediatePublicS3(e)
  BY <1>1, <1>3, GotoKeepsSecurity DEF Security!RemediatePublicS3, Security!Administration
<1>4. CASE Security!RemediateIamIssue(e)
  BY <1>1, <1>4, GotoKeepsSecurity DEF Security!RemediateIamIssue, Security!Administration
<1>5. CASE Security!Fail(e)
  BY <1>1, <1>5, GotoKeepsSecurity DEF Security!Fail, Security!Account, Security!Administration
<1>. QED  BY <1>2, <1>3, <1>4, <1>5

\* The rules are read as they are.
LEMMA DescribeKeeps ==
    ASSUME SecuritySound, NEW e \in Events, Security!DescribeSecurityGroup(e)
    PROVE  SecuritySound'
<1> DEFINE pc == IF Security!Open(ingress) = {} THEN "answered" ELSE "revoke"
           i == [invocations[e] EXCEPT !.rules = ingress, !.pc = pc]
<1>1. /\ invocations[e] \in Invocation /\ invocations[e].route = "remediate_security_group"
      /\ ingress \in [Ports -> SUBSET Security!Ranges] /\ blocked \in BOOLEAN /\ active \in BOOLEAN
      /\ UNCHANGED <<ingress, blocked, active, exposed, changes, kept>>
      /\ invocations' = [invocations EXCEPT ![e] = i]
  BY SecurityTypes DEF Security!DescribeSecurityGroup, Security!Account, Security!Administration
<1>2. /\ i \in Invocation /\ i.route = "remediate_security_group" /\ i.rules = ingress /\ i.pc = pc
  BY <1>1 DEF Invocation
<1>3. InvocationSound(i, blocked', Security!Open(ingress'), exposed, changes)
  BY <1>1, <1>2 DEF InvocationSound, SecuritySound
<1> HIDE DEF i
<1>. QED  BY <1>1, <1>2, <1>3, InvocationStepKeeps

\* Revoking a rule that was read closes its port.
LEMMA RevokeKeeps ==
    ASSUME SecuritySound, NEW e \in Events, NEW p \in Ports, Security!Revoke(e, p)
    PROVE  SecuritySound'
<1> DEFINE old == invocations[e]
           pc == IF Security!Open(old.rules) = {p} THEN "answered" ELSE old.pc
           rules == [old.rules EXCEPT ![p] = {}]
           i == [old EXCEPT !.rules = rules, !.pc = pc]
<1>1. /\ old \in Invocation /\ InvocationSound(old, blocked, Security!Open(ingress), exposed, changes) /\ old.pc = "revoke"
      /\ p \in Security!Open(old.rules)
      /\ ingress \in [Ports -> SUBSET Security!Ranges] /\ blocked \in BOOLEAN /\ active \in BOOLEAN
      /\ UNCHANGED <<blocked, active, exposed, changes, kept>>
      /\ ingress' = [ingress EXCEPT ![p] = @ \ old.rules[p]]
  BY SecurityTypes DEF Security!Revoke, Security!At, Security!Administration
<1>2. invocations' = [invocations EXCEPT ![e] = i]
  <2>1. /\ invocations' = [invocations EXCEPT ![e].rules[p] = {}, ![e].pc = pc]
        /\ DOMAIN invocations = Events
    BY DEF Security!Revoke, SecuritySound, Security!TypeOK
  <2>2. [[old EXCEPT !.rules[p] = {}] EXCEPT !.pc = pc] = i
    BY <1>1 DEF Invocation
  <2>. QED  BY <2>1, <2>2
<1>3. /\ i \in Invocation /\ i.route = old.route /\ i.rules = rules /\ i.pc = pc
      /\ rules[p] = {} /\ \A q \in Ports : q # p => rules[q] = old.rules[q]
  BY <1>1 DEF Invocation
<1>4. Security!Open(rules) = Security!Open(old.rules) \ {p}
  BY <1>3 DEF Security!Open
<1>5. /\ ingress' \in [Ports -> SUBSET Security!Ranges]
      /\ ingress'[p] = ingress[p] \ old.rules[p]
      /\ \A q \in Ports : q # p => ingress'[q] = ingress[q]
  BY <1>1
<1>6. Security!Open(ingress') = Security!Open(ingress) \ {p}
  BY <1>1, <1>5 DEF Security!Open
<1>7. p \in exposed
  BY <1>1 DEF InvocationSound
<1>8. InvocationSound(i, blocked', Security!Open(ingress'), exposed, changes)
  <2> HIDE DEF i, rules
  <2>. QED  BY <1>1, <1>3, <1>4, <1>6 DEF InvocationSound
<1> HIDE DEF i
<1>. QED  BY <1>1, <1>2, <1>3, <1>5, <1>7, <1>8, InvocationStepKeeps

\* Lambda starts over with nothing read, or gives up.
LEMMA InvokeAgainKeeps ==
    ASSUME SecuritySound, NEW e \in Events, Security!InvokeAgain(e)
    PROVE  SecuritySound'
<1>1. /\ invocations[e] \in Invocation /\ InvocationSound(invocations[e], blocked, Security!Open(ingress), exposed, changes)
      /\ ingress \in [Ports -> SUBSET Security!Ranges] /\ blocked \in BOOLEAN /\ active \in BOOLEAN
      /\ UNCHANGED <<ingress, blocked, active, exposed, changes, kept>>
  BY SecurityTypes DEF Security!InvokeAgain, Security!Account, Security!Administration
<1>2. CASE invocations[e].attempt < MaxAttempts
  <2> DEFINE i == [invocations[e] EXCEPT !.pc = "invoked", !.attempt = @ + 1, !.rules = Security!NoRules]
  <2>1. invocations' = [invocations EXCEPT ![e] = i]
    BY <1>2 DEF Security!InvokeAgain
  <2>2. invocations[e].attempt + 1 \in 1 .. MaxAttempts
    BY <1>1, <1>2, SecurityAssumption DEF Invocation
  <2>3. i \in Invocation /\ i.pc = "invoked" /\ i.rules = Security!NoRules
    BY <1>1, <2>2 DEF Invocation, Security!NoRules
  <2>4. Security!Open(Security!NoRules) = {}
    BY DEF Security!Open, Security!NoRules
  <2> HIDE DEF i
  <2>5. InvocationSound(i, blocked', Security!Open(ingress'), exposed, changes)
    BY <2>3, <2>4 DEF InvocationSound
  <2>. QED  BY <1>1, <2>1, <2>3, <2>5, InvocationStepKeeps
<1>3. CASE ~ (invocations[e].attempt < MaxAttempts)
  <2>1. Security!Goto(e, "dropped")
    BY <1>3 DEF Security!InvokeAgain, Security!Goto
  <2>. QED  BY <1>1, <2>1, GotoKeepsSecurity
<1>. QED  BY <1>2, <1>3

\* Administrators change a rule: a port that lets the world in counts as exposed.
LEMMA AdministerKeeps ==
    ASSUME SecuritySound, NEW p \in Ports, NEW r \in Security!Ranges, Security!Administer(p, r)
    PROVE  SecuritySound'
<1> DEFINE let == IF r \in ingress[p] THEN ingress[p] \ {r} ELSE ingress[p] \cup {r}
           want == IF r \in let THEN kept[p] \cup ({r} \cap Offices) ELSE kept[p] \ {r}
<1>1. Security!TypeOK
  BY DEF SecuritySound
<1>2. /\ UNCHANGED <<blocked, active, invocations>>
      /\ changes \in Nat /\ changes < MaxChanges /\ changes' = changes + 1
      /\ ingress' = [ingress EXCEPT ![p] = let] /\ kept' = [kept EXCEPT ![p] = want]
      /\ exposed' = IF Security!World \in let THEN exposed \cup {p} ELSE exposed
  BY <1>1 DEF Security!Administer, Security!TypeOK
<1>3. /\ let \subseteq Security!Ranges /\ want \subseteq Offices
      /\ ingress'[p] = let /\ kept'[p] = want
      /\ \A q \in Ports : q # p => ingress'[q] = ingress[q] /\ kept'[q] = kept[q]
  BY <1>1, <1>2 DEF Security!TypeOK
<1>4. ingress' \in [Ports -> SUBSET Security!Ranges] /\ kept' \in [Ports -> SUBSET Offices]
  <2> HIDE DEF let, want
  <2>. QED  BY <1>1, <1>2, <1>3 DEF Security!TypeOK
<1>5. changes' \in 0 .. MaxChanges /\ changes' # 0
  BY <1>2, SecurityAssumption
<1>6. exposed' \subseteq Ports /\ exposed \subseteq exposed'
  BY <1>1, <1>2 DEF Security!TypeOK
<1>7. Security!TypeOK'
  BY <1>1, <1>2, <1>4, <1>5, <1>6 DEF Security!TypeOK
<1>8. Security!Open(ingress)' \subseteq exposed'
  <2> HIDE DEF let, want
  <2>. QED  BY <1>2, <1>3, <1>6 DEF Security!Open, SecuritySound
<1>9. ASSUME NEW q \in Ports \ exposed' PROVE ingress'[q] = kept'[q]
  <2>1. ingress[q] = kept[q]
    BY <1>6 DEF SecuritySound
  <2>2. CASE q = p
    <3>1. Security!World \notin let
      BY <1>2, <1>9, <2>2
    <3>2. r \in let => r \in Offices
      BY <3>1 DEF Security!Ranges
    <3>. QED  BY <1>3, <2>1, <2>2, <3>2
  <2>. QED  BY <1>3, <2>1, <2>2
<1>10. ASSUME NEW e \in Events PROVE InvocationSound(invocations'[e], blocked', Security!Open(ingress'), exposed', changes')
  BY <1>2, <1>5, <1>6 DEF SecuritySound, InvocationSound
<1>. QED  BY <1>7, <1>8, <1>9, <1>10 DEF SecuritySound

\* Initially no invocation knows of any rule.
LEMMA SecurityInit == Security!Init => SecuritySound
<1> SUFFICES ASSUME Security!Init PROVE SecuritySound
  OBVIOUS
<1>1. 1 \in 1 .. MaxAttempts /\ 0 \in 0 .. MaxChanges
  BY SecurityAssumption
<1>2. kept \in [Ports -> SUBSET Offices] /\ exposed \subseteq Ports
  BY DEF Security!Init
<1>3. Security!TypeOK
  <2>1. invocations \in [Events -> Invocation]
    <3>1. Security!NoRules \in [Ports -> SUBSET Security!Ranges]
      BY DEF Security!NoRules
    <3>. QED  BY <1>1, <3>1 DEF Security!Init, Invocation
  <2>. QED  BY <1>1, <1>2, <2>1 DEF Security!Init, Security!TypeOK, Invocation
<1>4. ASSUME NEW p \in Ports \ exposed PROVE ingress[p] = kept[p]
  BY DEF Security!Init, Security!Ranges
<1>5. ASSUME NEW e \in Events PROVE InvocationSound(invocations[e], blocked, Security!Open(ingress), exposed, changes)
  <2>1. invocations[e].pc = "invoked" /\ invocations[e].rules = Security!NoRules
    BY DEF Security!Init
  <2>2. Security!Open(Security!NoRules) = {}
    BY DEF Security!Open, Security!NoRules
  <2>. QED  BY <2>1, <2>2 DEF InvocationSound
<1>. QED  BY <1>3, <1>4, <1>5 DEF SecuritySound, Security!Init, Security!Open

\* Every step of the security automation keeps its invariant.
LEMMA SecurityNext == SecuritySound /\ [Security!Next]_SecurityVars => SecuritySound'
<1> SUFFICES ASSUME SecuritySound, [Security!Next]_SecurityVars PROVE SecuritySound'
  OBVIOUS
<1>1. CASE UNCHANGED SecurityVars
  BY <1>1 DEF SecurityVars, SecuritySound, Security!TypeOK, InvocationSound
<1>2. CASE Security!Next
  BY <1>2, SimpleStepsKeep, DescribeKeeps, RevokeKeeps, InvokeAgainKeeps, AdministerKeeps
     DEF Security!Next
<1>. QED  BY <1>1, <1>2

\* The invariant says what an answer is worth.
LEMMA SecurityIsAnswered == SecuritySound => AnsweredIsClosed
BY DEF SecuritySound, InvocationSound, AnsweredIsClosed, Security!AnsweredIsClosed, Security!At

\* The instances of TaskPools and CostOptimizer count as everybody does.
LEMMA CardinalitiesAgree ==
    \A S : Optimizer!Cardinality(S) = Cardinality(S) /\ Pools!Cardinality(S) = Cardinality(S)
BY DEF Optimizer!Cardinality, Pools!Cardinality, Cardinality
--------------------------------------------------------------------------------
(* TaskPools.                                                                   *)

TaskResults == [task : Tasks, outcome : Pools!Outcomes]

\* The types but for the number of results.
PoolTypes ==
    /\ work \in PoolPrograms
    /\ findings \in [Tasks -> Pools!Inputs(work)]
    /\ tasks \in [Tasks -> {"waiting", "running", "done", "refused", "raised"}]
    /\ tries \in [Tasks -> 0 .. 1]
    /\ results \in Seq(TaskResults)
    /\ cancelled \in BOOLEAN /\ late \in BOOLEAN /\ closed \in BOOLEAN
    /\ report \in [success : Nat, failure : Nat, of : SUBSET Tasks]
    /\ main \in {"collecting", "reported", "500"}

Ended == \A t \in Tasks : tasks[t] \notin {"waiting", "running"}

\* Every task that is done has one result, which main has counted or has yet to take.
ResultsSound ==
    /\ \A i \in 1 .. Len(results) :
           tasks[results[i].task] = "done" /\ results[i].task \notin report.of
    /\ \A i, j \in 1 .. Len(results) : i # j => results[i].task # results[j].task
    /\ \A t \in report.of : tasks[t] = "done"
    /\ \A t \in Tasks : tasks[t] = "done" =>
           t \in report.of \/ \E i \in 1 .. Len(results) : results[i].task = t
    /\ report.success + report.failure = Cardinality(report.of)

\* Why a task has no result.
MissingSound ==
    \A t \in Tasks : tasks[t] \in {"refused", "raised"} =>
        \/ work = "crawler" /\ cancelled
        \/ work = "remediation" /\ (~ Pools!Submitted(t) \/ ~ findings[t].id)

\* The context of the crawler is cancelled by a failure, or near its deadline.
CancelSound ==
    work = "crawler" /\ cancelled =>
        late \/ report.failure > 0 \/ \E i \in 1 .. Len(results) : results[i].outcome = "failure"

\* The channel is closed, and main reports, when all tasks have ended.
EndSound ==
    /\ closed \/ main = "reported" => Ended
    /\ main = "reported" => results = << >>

PoolsSound == PoolTypes /\ ResultsSound /\ MissingSound /\ CancelSound /\ EndSound

\* The model's condition for the end.
LEMMA AllDoneIsEnded == Pools!AllDone <=> Ended
BY DEF Pools!AllDone, Pools!In, Ended

\* A task changes and main does not.
LEMMA TaskStepKeeps ==
    ASSUME PoolsSound, NEW t \in Tasks, tasks[t] \in {"waiting", "running"},
           NEW w \in {"running", "refused", "raised"}, tasks' = [tasks EXCEPT ![t] = w],
           UNCHANGED <<work, findings, tries, results, late, closed, report, main>>,
           cancelled' \in BOOLEAN, cancelled => cancelled',
           w \in {"refused", "raised"} =>
               \/ work = "crawler" /\ cancelled'
               \/ work = "remediation" /\ (~ Pools!Submitted(t) \/ ~ findings[t].id),
           CancelSound'
    PROVE  PoolsSound'
<1>1. tasks' \in [Tasks -> {"waiting", "running", "done", "refused", "raised"}]
      /\ tasks'[t] = w /\ \A u \in Tasks : u # t => tasks'[u] = tasks[u]
  BY DEF PoolsSound, PoolTypes
<1>2. PoolTypes'
  BY <1>1 DEF PoolsSound, PoolTypes
<1>3. /\ ~ Ended /\ ~ closed /\ main # "reported"
      /\ \A u \in Tasks : tasks'[u] = "done" <=> tasks[u] = "done"
  BY <1>1 DEF PoolsSound, EndSound, Ended
<1>4. /\ results \in Seq(TaskResults) /\ report.of \subseteq Tasks
      /\ \A i \in 1 .. Len(results) : results[i].task \in Tasks
  <2>1. results \in Seq(TaskResults) /\ report.of \subseteq Tasks
    BY DEF PoolsSound, PoolTypes
  <2>2. \A i \in 1 .. Len(results) : results[i] \in TaskResults
    BY <2>1
  <2>. QED  BY <2>1, <2>2 DEF TaskResults
<1>5. ResultsSound'
  BY <1>3, <1>4 DEF PoolsSound, ResultsSound
<1>6. MissingSound'
  BY <1>1 DEF PoolsSound, MissingSound, Pools!Submitted
<1>7. EndSound'
  BY <1>3 DEF PoolsSound, EndSound
<1>. QED  BY <1>2, <1>5, <1>6, <1>7 DEF PoolsSound

\* Appending to a sequence adds one place and leaves the others.
LEMMA AppendedIs ==
    ASSUME NEW S, NEW s \in Seq(S), NEW e \in S
    PROVE  /\ Len(Append(s, e)) = Len(s) + 1 /\ Append(s, e) \in Seq(S)
           /\ Append(s, e)[Len(s) + 1] = e /\ \A i \in 1 .. Len(s) : Append(s, e)[i] = s[i]
BY AppendProperties

\* A task ends with a result.
LEMMA ResultKeeps ==
    ASSUME PoolsSound, NEW t \in Tasks, tasks[t] = "running", NEW outcome \in Pools!Outcomes,
           Pools!Result(t, outcome),
           UNCHANGED <<work, findings, late, closed, report, main>>, tries' \in [Tasks -> 0 .. 1],
           cancelled' \in BOOLEAN, cancelled => cancelled',
           cancelled' => cancelled \/ outcome = "failure"
    PROVE  PoolsSound'
<1> DEFINE r == [task |-> t, outcome |-> outcome]
           n == Len(results)
<1>1. /\ tasks' = [tasks EXCEPT ![t] = "done"] /\ results' = Append(results, r)
      /\ results \in Seq(TaskResults) /\ r \in TaskResults /\ r.task = t /\ r.outcome = outcome
  BY DEF Pools!Result, Pools!Goto, PoolsSound, PoolTypes, TaskResults
<1> HIDE DEF r
<1>2. /\ results' \in Seq(TaskResults) /\ Len(results') = n + 1 /\ results'[n + 1] = r
      /\ n \in Nat /\ \A i \in 1 .. n : results'[i] = results[i]
  BY <1>1, AppendedIs
<1>3. /\ tasks' \in [Tasks -> {"waiting", "running", "done", "refused", "raised"}]
      /\ tasks'[t] = "done" /\ \A u \in Tasks : u # t => tasks'[u] = tasks[u]
  BY <1>1 DEF PoolsSound, PoolTypes
<1>4. PoolTypes'
  BY <1>2, <1>3 DEF PoolsSound, PoolTypes
<1>5. /\ ~ Ended /\ ~ closed /\ main # "reported" /\ t \notin report.of
      /\ \A i \in 1 .. n : results[i].task \in Tasks /\ results[i].task # t
  <2>1. \A i \in 1 .. n : results[i] \in TaskResults
    BY <1>1
  <2>. QED  BY <2>1 DEF PoolsSound, EndSound, Ended, ResultsSound, TaskResults
<1> HIDE DEF n
<1>6. \A i \in 1 .. n + 1 : i \in 1 .. n \/ i = n + 1
  BY <1>2
<1>7. n + 1 \in 1 .. n + 1 /\ 1 .. n \subseteq 1 .. n + 1
  BY <1>2
<1>8. ResultsSound'
  <2>1. ASSUME NEW i \in 1 .. n + 1
        PROVE  tasks'[results'[i].task] = "done" /\ results'[i].task \notin report.of
    BY <1>1, <1>2, <1>3, <1>5, <1>6 DEF PoolsSound, ResultsSound, n
  <2>2. ASSUME NEW i \in 1 .. n + 1, NEW j \in 1 .. n + 1, i # j
        PROVE  results'[i].task # results'[j].task
    BY <1>1, <1>2, <1>5, <1>6, <2>2 DEF PoolsSound, ResultsSound, n
  <2>3. ASSUME NEW u \in report.of PROVE tasks'[u] = "done"
    BY <1>3, <1>5 DEF PoolsSound, ResultsSound, PoolTypes
  <2>4. ASSUME NEW u \in Tasks, tasks'[u] = "done"
        PROVE  u \in report.of \/ \E i \in 1 .. n + 1 : results'[i].task = u
    <3>1. CASE u = t
      BY <1>1, <1>2, <1>7, <3>1
    <3>2. CASE u # t
      BY <1>2, <1>3, <1>7, <2>4, <3>2 DEF PoolsSound, ResultsSound, n
    <3>. QED  BY <3>1, <3>2
  <2>. QED  BY <1>2, <2>1, <2>2, <2>3, <2>4 DEF PoolsSound, ResultsSound
<1>9. MissingSound'
  BY <1>3 DEF PoolsSound, MissingSound, Pools!Submitted
<1>10. CancelSound'
  <2> SUFFICES ASSUME work = "crawler", cancelled', ~ late, ~ report.failure > 0
               PROVE  \E i \in 1 .. n + 1 : results'[i].outcome = "failure"
    BY <1>2 DEF CancelSound
  <2>1. CASE cancelled
    BY <1>2, <1>7, <2>1 DEF PoolsSound, CancelSound, n
  <2>2. CASE outcome = "failure"
    BY <1>1, <1>2, <1>7, <2>2
  <2>. QED  BY <2>1, <2>2
<1>11. EndSound'
  BY <1>5 DEF EndSound
<1>. QED  BY <1>4, <1>8, <1>9, <1>10, <1>11 DEF PoolsSound

\* Taking the first of a sequence leaves the others, one place further on.
LEMMA TailIs ==
    ASSUME NEW S, NEW s \in Seq(S), s # << >>
    PROVE  /\ Len(s) \in Nat \ {0} /\ Tail(s) \in Seq(S) /\ Len(Tail(s)) = Len(s) - 1
           /\ Head(s) = s[1] /\ Head(s) \in S
           /\ \A i \in 1 .. Len(s) - 1 : Tail(s)[i] = s[i + 1]
<1>1. Len(s) \in Nat /\ Len(s) # 0
  BY EmptySeq
<1>2. Tail(s) \in Seq(S) /\ Len(Tail(s)) = Len(s) - 1 /\ Head(s) \in S
  BY HeadTailProperties
<1>3. \A i \in 1 .. Len(Tail(s)) : Tail(s)[i] = s[i + 1]
  BY HeadTailProperties
<1>4. Head(s) = s[1]
  OBVIOUS
<1>. QED  BY <1>1, <1>2, <1>3, <1>4

\* main counts the first of the results, of a task it has not counted before.
LEMMA CollectKeeps == ASSUME PoolsSound, Pools!Collect PROVE PoolsSound'
<1> DEFINE r == Head(results)
           n == Len(results)
<1>1. /\ results \in Seq(TaskResults) /\ results # << >> /\ main = "collecting"
      /\ results' = Tail(results)
      /\ report' = [report EXCEPT ![r.outcome] = @ + 1, !.of = @ \cup {r.task}]
      /\ UNCHANGED <<work, findings, tasks, tries, cancelled, late, closed, main>>
  BY DEF Pools!Collect, Pools!Input, PoolsSound, PoolTypes
<1>2. /\ n \in Nat \ {0} /\ results' \in Seq(TaskResults) /\ Len(results') = n - 1
      /\ r = results[1] /\ r \in TaskResults
      /\ \A i \in 1 .. n - 1 : results'[i] = results[i + 1]
  BY <1>1, TailIs
<1>3. /\ \A i \in 1 .. n : results[i] \in TaskResults /\ results[i].task \in Tasks
      /\ r.task \in Tasks /\ r.outcome \in {"success", "failure"}
      /\ 1 \in 1 .. n /\ \A i \in 1 .. n - 1 : i \in Nat /\ i + 1 \in 1 .. n /\ i + 1 # 1
      /\ \A i \in 1 .. n : i # 1 => i - 1 \in 1 .. n - 1 /\ (i - 1) + 1 = i
  <2> HIDE DEF r
  <2>0. results \in Seq(TaskResults)
    BY <1>1
  <2>1. \A i \in 1 .. n : results[i] \in TaskResults
    BY <2>0
  <2>2. /\ \A i \in 1 .. n : results[i].task \in Tasks
        /\ r.task \in Tasks /\ r.outcome \in {"success", "failure"}
    BY <1>2, <2>1 DEF TaskResults, Pools!Outcomes
  <2> HIDE DEF n
  <2>3. /\ 1 \in 1 .. n /\ \A i \in 1 .. n - 1 : i \in Nat /\ i + 1 \in 1 .. n /\ i + 1 # 1
        /\ \A i \in 1 .. n : i # 1 => i - 1 \in 1 .. n - 1 /\ (i - 1) + 1 = i
    BY <1>2
  <2>. QED  BY <2>1, <2>2, <2>3
<1>4. /\ report \in [success : Nat, failure : Nat, of : SUBSET Tasks]
      /\ report.of \subseteq Tasks /\ report.success \in Nat /\ report.failure \in Nat
  BY DEF PoolsSound, PoolTypes
<1> HIDE DEF r, n
<1>5. /\ report'.of = report.of \cup {r.task}
      /\ report'.success = IF r.outcome = "success" THEN report.success + 1 ELSE report.success
      /\ report'.failure = IF r.outcome = "failure" THEN report.failure + 1 ELSE report.failure
      /\ report' \in [success : Nat, failure : Nat, of : SUBSET Tasks]
  <2>5. r.task \in Tasks
    BY <1>3
  <2>0. report' = [report EXCEPT ![r.outcome] = @ + 1, !.of = @ \cup {r.task}]
    BY <1>1
  <2>1. CASE r.outcome = "success"
    <3>1. report' = [report EXCEPT !.success = @ + 1, !.of = @ \cup {r.task}]
      BY <2>0, <2>1
    <3>2. report.success + 1 \in Nat /\ report.of \cup {r.task} \in SUBSET Tasks
      BY <1>4, <2>5
    <3>3. /\ report' \in [success : Nat, failure : Nat, of : SUBSET Tasks]
          /\ report'.of = report.of \cup {r.task}
          /\ report'.success = report.success + 1 /\ report'.failure = report.failure
      BY <1>4, <3>1, <3>2
    <3>. QED  BY <2>1, <3>3
  <2>2. CASE r.outcome = "failure"
    <3>1. report' = [report EXCEPT !.failure = @ + 1, !.of = @ \cup {r.task}]
      BY <2>0, <2>2
    <3>2. report.failure + 1 \in Nat /\ report.of \cup {r.task} \in SUBSET Tasks
      BY <1>4, <2>5
    <3>3. /\ report' \in [success : Nat, failure : Nat, of : SUBSET Tasks]
          /\ report'.of = report.of \cup {r.task}
          /\ report'.failure = report.failure + 1 /\ report'.success = report.success
      BY <1>4, <3>1, <3>2
    <3>. QED  BY <2>2, <3>3
  <2>. QED  BY <1>3, <2>1, <2>2
<1>6. r.task \notin report.of /\ tasks[r.task] = "done"
  BY <1>2, <1>3 DEF PoolsSound, ResultsSound, n
<1>7. Cardinality(report'.of) = Cardinality(report.of) + 1 /\ Cardinality(report.of) \in Nat
  <2>1. IsFiniteSet(report.of)
    BY <1>4, PoolsAssumption, FS_Subset
  <2>. QED  BY <1>5, <1>6, <2>1, FS_AddElement, FS_CardinalityType
<1>8. report'.success + report'.failure = Cardinality(report'.of)
  <2>1. report.success + report.failure = Cardinality(report.of)
    BY DEF PoolsSound, ResultsSound
  <2>2. CASE r.outcome = "success"
    BY <1>4, <1>5, <1>7, <2>1, <2>2
  <2>3. CASE r.outcome = "failure"
    BY <1>4, <1>5, <1>7, <2>1, <2>3
  <2>. QED  BY <1>3, <2>2, <2>3
<1>9. PoolTypes'
  BY <1>1, <1>2, <1>5 DEF PoolsSound, PoolTypes
<1>10. ResultsSound'
  <2>1. ASSUME NEW i \in 1 .. n - 1
        PROVE  tasks[results'[i].task] = "done" /\ results'[i].task \notin report'.of
    BY <1>2, <1>3, <1>5 DEF PoolsSound, ResultsSound, n
  <2>2. ASSUME NEW i \in 1 .. n - 1, NEW j \in 1 .. n - 1, i # j
        PROVE  results'[i].task # results'[j].task
    <3>1. i \in Nat /\ j \in Nat /\ i + 1 \in 1 .. n /\ j + 1 \in 1 .. n
      BY <1>3
    <3>2. i + 1 # j + 1
      BY <2>2, <3>1
    <3>3. results[i + 1].task # results[j + 1].task
      BY <3>1, <3>2 DEF PoolsSound, ResultsSound, n
    <3>. QED  BY <1>2, <3>3
  <2>3. ASSUME NEW u \in Tasks, tasks[u] = "done"
        PROVE  u \in report'.of \/ \E i \in 1 .. n - 1 : results'[i].task = u
    <3>1. CASE u \in report.of
      BY <1>5, <3>1
    <3>2. CASE u \notin report.of
      <4>1. PICK i \in 1 .. n : results[i].task = u
        BY <2>3, <3>2 DEF PoolsSound, ResultsSound, n
      <4>2. CASE i = 1
        BY <1>2, <1>5, <4>1, <4>2
      <4>3. CASE i # 1
        <5>1. i - 1 \in 1 .. n - 1 /\ (i - 1) + 1 = i
          BY <1>3, <4>3
        <5>2. results'[i - 1] = results[i]
          BY <1>2, <5>1
        <5>. QED  BY <4>1, <5>1, <5>2
      <4>. QED  BY <4>2, <4>3
    <3>. QED  BY <3>1, <3>2
  <2>4. \A u \in report'.of : tasks[u] = "done"
    BY <1>5, <1>6 DEF PoolsSound, ResultsSound
  <2>. QED  BY <1>1, <1>2, <1>8, <2>1, <2>2, <2>3, <2>4 DEF ResultsSound
<1>11. MissingSound'
  BY <1>1 DEF PoolsSound, MissingSound, Pools!Submitted
<1>12. CancelSound'
  <2> SUFFICES ASSUME work = "crawler", cancelled, ~ late, ~ report'.failure > 0
               PROVE  \E i \in 1 .. n - 1 : results'[i].outcome = "failure"
    BY <1>1, <1>2 DEF CancelSound
  <2>1. ~ report.failure > 0 /\ r.outcome # "failure"
    BY <1>4, <1>5
  <2>2. PICK i \in 1 .. n : results[i].outcome = "failure"
    BY <2>1 DEF PoolsSound, CancelSound, n
  <2>3. i # 1
    BY <1>2, <2>1, <2>2
  <2>4. i - 1 \in 1 .. n - 1 /\ (i - 1) + 1 = i
    BY <1>3, <2>3
  <2>5. results'[i - 1] = results[i]
    BY <1>2, <2>4
  <2>. QED  BY <2>2, <2>4, <2>5
<1>13. EndSound'
  BY <1>1 DEF PoolsSound, EndSound, Ended
<1>. QED  BY <1>9, <1>10, <1>11, <1>12, <1>13 DEF PoolsSound

\* The steps of main, of the clock and of a first attempt: no task and no result changes.
LEMMA OtherPoolStepsKeep ==
    ASSUME PoolsSound, UNCHANGED <<work, findings, tasks, results, cancelled, report>>,
           tries' \in [Tasks -> 0 .. 1], late' \in BOOLEAN, late => late',
           closed' \in BOOLEAN, closed' => closed \/ Ended,
           main' \in {"collecting", "reported", "500"},
           main' = "reported" => main = "reported" \/ (results = << >> /\ Ended)
    PROVE  PoolsSound'
<1>1. PoolTypes'
  BY DEF PoolsSound, PoolTypes
<1>2. ResultsSound' /\ MissingSound' /\ CancelSound'
  BY DEF PoolsSound, ResultsSound, MissingSound, CancelSound, Pools!Submitted
<1>3. EndSound'
  BY DEF PoolsSound, EndSound, Ended
<1>. QED  BY <1>1, <1>2, <1>3 DEF PoolsSound

\* A task starts, or ends without a result.
LEMMA TaskStepsKeep ==
    ASSUME PoolsSound, NEW t \in Tasks,
           Pools!Start(t) \/ Pools!LimiterRefuses(t) \/ Pools!NoStrategy(t)
    PROVE  PoolsSound'
<1>1. cancelled \in BOOLEAN
  BY DEF PoolsSound, PoolTypes
<1>2. CASE Pools!Start(t)
  <2>1. /\ tasks[t] = "waiting" /\ tasks' = [tasks EXCEPT ![t] = "running"]
        /\ UNCHANGED <<work, findings, tries, results, cancelled, late, closed, report, main>>
    BY <1>2 DEF Pools!Start, Pools!Goto, Pools!Input, Pools!Main
  <2>2. CancelSound'
    BY <2>1 DEF PoolsSound, CancelSound
  <2>. QED  BY <1>1, <2>1, <2>2, TaskStepKeeps
<1>3. CASE Pools!LimiterRefuses(t)
  <2>1. /\ tasks[t] = "waiting" /\ tasks' = [tasks EXCEPT ![t] = "refused"] /\ work = "crawler"
        /\ cancelled \/ late
        /\ UNCHANGED <<work, findings, tries, results, late, closed, report, main>> /\ cancelled'
    BY <1>3 DEF Pools!LimiterRefuses, Pools!Goto, Pools!Input, Pools!Main
  <2>2. CancelSound'
    BY <2>1 DEF PoolsSound, CancelSound
  <2>3. cancelled' \in BOOLEAN
    BY <1>3 DEF Pools!LimiterRefuses
  <2>. QED  BY <1>1, <2>1, <2>2, <2>3, TaskStepKeeps
<1>4. CASE Pools!NoStrategy(t)
  <2>1. /\ tasks[t] = "waiting" /\ tasks' = [tasks EXCEPT ![t] = "refused"] /\ work = "remediation"
        /\ ~ Pools!Submitted(t)
        /\ UNCHANGED <<work, findings, tries, results, cancelled, late, closed, report, main>>
    BY <1>4 DEF Pools!NoStrategy, Pools!Goto, Pools!Input, Pools!Main
  <2>2. CancelSound'
    BY <2>1 DEF PoolsSound, CancelSound
  <2>. QED  BY <1>1, <2>1, <2>2, TaskStepKeeps
<1>. QED  BY <1>2, <1>3, <1>4

\* A task is worked on.
LEMMA WorkKeeps ==
    ASSUME PoolsSound, NEW t \in Tasks, NEW outcome \in Pools!Outcomes, NEW err \in BOOLEAN,
           \/ Pools!CrawlUrl(t, outcome, err) \/ Pools!CrawlIntoChannel(t, outcome)
           \/ Pools!FetchWithRetry(t, outcome) \/ Pools!FetchUrl(t, outcome) \/ Pools!SafeRemediate(t)
    PROVE  PoolsSound'
<1>1. cancelled \in BOOLEAN /\ late \in BOOLEAN /\ closed \in BOOLEAN /\ tries \in [Tasks -> 0 .. 1]
  BY DEF PoolsSound, PoolTypes
<1>2. CASE Pools!CrawlUrl(t, outcome, err)
  <2>1. /\ tasks[t] = "running" /\ Pools!Result(t, outcome)
        /\ UNCHANGED <<work, findings, tries, late, closed, report, main>>
        /\ cancelled' = (cancelled \/ err) /\ (err => outcome = "failure")
    BY <1>2 DEF Pools!CrawlUrl, Pools!Input, Pools!Main
  <2>. QED  BY <1>1, <2>1, ResultKeeps
<1>3. CASE Pools!CrawlIntoChannel(t, outcome)
  <2>1. /\ tasks[t] = "running" /\ Pools!Result(t, outcome)
        /\ UNCHANGED <<work, findings, tries, cancelled, late, closed, report, main>>
    BY <1>3 DEF Pools!CrawlIntoChannel, Pools!Input, Pools!Main
  <2>. QED  BY <1>1, <2>1, ResultKeeps
<1>4. CASE Pools!FetchUrl(t, outcome)
  <2>1. /\ tasks[t] = "running" /\ Pools!Result(t, outcome)
        /\ UNCHANGED <<work, findings, tries, cancelled, late, closed, report, main>>
    BY <1>4 DEF Pools!FetchUrl, Pools!Input, Pools!Main
  <2>. QED  BY <1>1, <2>1, ResultKeeps
<1>5. CASE Pools!FetchWithRetry(t, outcome)
  <2>1. /\ tasks[t] = "running"
        /\ UNCHANGED <<work, findings, cancelled, late, closed, report, main>>
    BY <1>5 DEF Pools!FetchWithRetry, Pools!Input, Pools!Main
  <2>2. CASE outcome = "failure" /\ tries[t] = 0
    <3>1. tries' = [tries EXCEPT ![t] = 1] /\ tasks' = tasks /\ results' = results
      BY <1>5, <2>2 DEF Pools!FetchWithRetry
    <3>2. tries' \in [Tasks -> 0 .. 1]
      BY <1>1, <3>1
    <3>3. main \in {"collecting", "reported", "500"}
      BY DEF PoolsSound, PoolTypes
    <3>. QED  BY <1>1, <2>1, <3>1, <3>2, <3>3, OtherPoolStepsKeep
  <2>3. CASE ~ (outcome = "failure" /\ tries[t] = 0)
    <3>1. Pools!Result(t, outcome) /\ tries' = tries
      BY <1>5, <2>3 DEF Pools!FetchWithRetry
    <3>. QED  BY <1>1, <2>1, <3>1, ResultKeeps
  <2>. QED  BY <2>2, <2>3
<1>6. CASE Pools!SafeRemediate(t)
  <2>1. /\ tasks[t] = "running" /\ work = "remediation"
        /\ UNCHANGED <<work, findings, tries, cancelled, late, closed, report, main>>
    BY <1>6 DEF Pools!SafeRemediate, Pools!Input, Pools!Main
  <2>2. CASE findings[t].id
    <3>1. Pools!Result(t, "failure") /\ "failure" \in Pools!Outcomes
      BY <1>6, <2>2 DEF Pools!SafeRemediate, Pools!GetSession, Pools!Outcomes
    <3>. QED  BY <1>1, <2>1, <3>1, ResultKeeps
  <2>3. CASE ~ findings[t].id
    <3>1. tasks' = [tasks EXCEPT ![t] = "raised"] /\ results' = results
      BY <1>6, <2>3 DEF Pools!SafeRemediate, Pools!Goto
    <3>2. CancelSound'
      BY <2>1, <3>1 DEF PoolsSound, CancelSound
    <3>. QED  BY <1>1, <2>1, <2>3, <3>1, <3>2, TaskStepKeeps
  <2>. QED  BY <2>2, <2>3
<1>. QED  BY <1>2, <1>3, <1>4, <1>5, <1>6

\* main closes the channel and reports when all tasks have ended.
LEMMA MainKeeps ==
    ASSUME PoolsSound,
           Pools!CloseChannel \/ Pools!Report \/ Pools!UnknownSeverity \/ Pools!Deadline
    PROVE  PoolsSound'
<1>1. /\ cancelled \in BOOLEAN /\ late \in BOOLEAN /\ closed \in BOOLEAN
      /\ tries \in [Tasks -> 0 .. 1] /\ main \in {"collecting", "reported", "500"}
  BY DEF PoolsSound, PoolTypes
<1>2. CASE Pools!CloseChannel
  BY <1>1, <1>2, AllDoneIsEnded, OtherPoolStepsKeep DEF Pools!CloseChannel, Pools!Input
<1>3. CASE Pools!Report
  <2>1. Ended
    BY <1>3, AllDoneIsEnded DEF Pools!Report, PoolsSound, EndSound
  <2>. QED  BY <1>1, <1>3, <2>1, OtherPoolStepsKeep DEF Pools!Report, Pools!Input
<1>4. CASE Pools!UnknownSeverity
  BY <1>1, <1>4, OtherPoolStepsKeep DEF Pools!UnknownSeverity, Pools!Input
<1>5. CASE Pools!Deadline
  BY <1>1, <1>5, OtherPoolStepsKeep DEF Pools!Deadline, Pools!Input, Pools!Main
<1>. QED  BY <1>2, <1>3, <1>4, <1>5

\* Initially there are neither results nor tasks that ended.
LEMMA PoolsInit == Pools!Init => PoolsSound
<1> SUFFICES ASSUME Pools!Init PROVE PoolsSound
  OBVIOUS
<1>1. results = << >> /\ results \in Seq(TaskResults) /\ Len(results) = 0
  BY EmptySeq DEF Pools!Init
<1>2. PoolTypes
  <2>1. /\ tasks \in [Tasks -> {"waiting", "running", "done", "refused", "raised"}]
        /\ tries \in [Tasks -> 0 .. 1]
    BY DEF Pools!Init
  <2>2. report \in [success : Nat, failure : Nat, of : SUBSET Tasks]
    BY DEF Pools!Init
  <2>. QED  BY <1>1, <2>1, <2>2 DEF Pools!Init, PoolTypes
<1>3. Cardinality({}) = 0
  BY FS_EmptySet
<1>4. ResultsSound
  BY <1>1, <1>3 DEF Pools!Init, ResultsSound
<1>. QED  BY <1>2, <1>4 DEF Pools!Init, PoolsSound, MissingSound, CancelSound, EndSound

\* Every step of the pools keeps their invariant.
LEMMA PoolsNext == PoolsSound /\ [Pools!Next]_PoolVars => PoolsSound'
<1> SUFFICES ASSUME PoolsSound, [Pools!Next]_PoolVars PROVE PoolsSound'
  OBVIOUS
<1>1. CASE UNCHANGED PoolVars
  BY <1>1 DEF PoolVars, PoolsSound, PoolTypes, ResultsSound, MissingSound, CancelSound, EndSound, Ended,
     Pools!Submitted
<1>2. CASE Pools!Next
  <2>1. "success" \in Pools!Outcomes /\ TRUE \in BOOLEAN
    BY DEF Pools!Outcomes
  <2>. QED  BY <1>2, <2>1, TaskStepsKeep, WorkKeeps, MainKeeps, CollectKeeps DEF Pools!Next, Pools!Step
<1>. QED  BY <1>1, <1>2

\* Results are of different tasks, so there are no more of them than tasks.
LEMMA ResultsAreFew == PoolsSound => Len(results) <= Cardinality(Tasks)
<1> SUFFICES ASSUME PoolsSound PROVE Len(results) <= Cardinality(Tasks)
  OBVIOUS
<1> DEFINE n == Len(results)
           f == [i \in 1 .. n |-> results[i].task]
<1>1. n \in Nat /\ \A i \in 1 .. n : results[i].task \in Tasks
  <2>1. results \in Seq(TaskResults)
    BY DEF PoolsSound, PoolTypes
  <2>2. \A i \in 1 .. n : results[i] \in TaskResults
    BY <2>1
  <2>. QED  BY <2>1, <2>2 DEF TaskResults
<1>2. \A i, j \in 1 .. n : i # j => results[i].task # results[j].task
  BY DEF PoolsSound, ResultsSound
<1> HIDE DEF n
<1>3. f \in Injection(1 .. n, Tasks)
  <2>1. f \in [1 .. n -> Tasks]
    BY <1>1
  <2>2. \A i, j \in 1 .. n : f[i] = f[j] => i = j
    BY <1>2
  <2>. QED  BY <2>1, <2>2, Fun_IsInj
<1>4. Cardinality(1 .. n) <= Cardinality(Tasks)
  BY <1>3, PoolsAssumption, FS_Injection DEF ExistsInjection
<1>5. Cardinality(1 .. n) = n
  BY <1>1, FS_Interval
<1>. QED  BY <1>4, <1>5 DEF n

\* The invariant says what a report is worth.
LEMMA PoolsAddUp == PoolsSound => ReportAddsUp
<1> SUFFICES ASSUME PoolsSound, main = "reported" PROVE Pools!ReportAddsUp
  BY DEF ReportAddsUp, Pools!ReportAddsUp
<1>1. Ended /\ results = << >> /\ Len(results) = 0
  BY DEF PoolsSound, EndSound
<1>2. report.of \subseteq Tasks /\ tasks \in [Tasks -> {"waiting", "running", "done", "refused", "raised"}]
  BY DEF PoolsSound, PoolTypes
<1>3. Pools!Missing = {t \in Tasks : tasks[t] \in {"refused", "raised"}}
  BY DEF Pools!Missing, Pools!In
<1>4. ASSUME NEW t \in Tasks PROVE t \in report.of <=> t \notin Pools!Missing
  BY <1>1, <1>2, <1>3 DEF PoolsSound, ResultsSound, Ended
<1>5. report.of = Tasks \ Pools!Missing
  BY <1>2, <1>4
<1>6. report.success + report.failure = Pools!Cardinality(report.of)
  BY CardinalitiesAgree DEF PoolsSound, ResultsSound
<1>7. \A t \in Pools!Missing :
          \/ work = "crawler" /\ cancelled
          \/ work = "remediation" /\ (~ Pools!Submitted(t) \/ ~ findings[t].id)
  BY <1>3 DEF PoolsSound, MissingSound
<1>8. work = "crawler" /\ cancelled => report.failure > 0 \/ late
  BY <1>1 DEF PoolsSound, CancelSound
<1>. QED  BY <1>1, <1>5, <1>6, <1>7, <1>8, AllDoneIsEnded DEF Pools!ReportAddsUp

--------------------------------------------------------------------------------
(* CostOptimizer.                                                               *)

\* A run is at a recommendation from its "store" to the update of its status.
AtRecommendation == {"store", "decide", "stop", "modify", "start", "executed", "failed", "published"}

RunSound ==
    /\ run.pc \in AtRecommendation <=> run.todo # << >>
    /\ run.pc # "idle" => runs # 0
    /\ run.pc \in AtRecommendation \ {"store"} =>
           tracking[<<Optimizer!Rec.resource, runs>>] = "identified"
    /\ run.pc \in {"stop", "start"} => Optimizer!Rec.resource \in Instances
    /\ run.pc \in {"start", "executed"} => Optimizer!Rec.resource \in resized
    /\ run.pc = "executed" /\ Optimizer!Rec.resource \in Instances =>
           state[Optimizer!Rec.resource] # "down"

\* What the tracking says is so, and of an instance that is down it says enough, or the
\* run is between the stop and the update of the status.
StatusesSound ==
    \A r \in Optimizer!Resources :
        LET status == tracking[<<r, 0>>]
        IN  /\ status = "executed" => r \in resized
            /\ status # "none" => \E n \in 1 .. runs : tracking[<<r, n>>] = "identified"
            /\ r \in Instances \ cut /\ state[r] = "down" =>
                   \/ status \in {"failed", "pending_approval"}
                   \/ /\ run.todo # << >> /\ Optimizer!Rec.resource = r
                      /\ run.pc \in {"modify", "start", "failed"}

OptimizerSound == Optimizer!TypeOK /\ RunSound /\ StatusesSound

\* What the types say of the recommendation at hand.
LEMMA OptimizerTypes ==
    ASSUME Optimizer!TypeOK
    PROVE  /\ runs \in Nat
           /\ run.todo \in Seq(Optimizer!Recommendations)
           /\ run = [pc |-> run.pc, todo |-> run.todo]
           /\ run.todo # << >> =>
                  /\ Optimizer!Rec.resource \in Optimizer!Resources
                  /\ Optimizer!Rec.savings \in Optimizer!Savings
                  /\ Tail(run.todo) \in Seq(Optimizer!Recommendations)
           /\ \A pc : [run EXCEPT !.pc = pc] = [pc |-> pc, todo |-> run.todo]
<1>1. run.todo \in Seq(Optimizer!Recommendations) /\ runs \in Nat
  BY OptimizerAssumption DEF Optimizer!TypeOK
<1>2. ASSUME run.todo # << >>
      PROVE  Head(run.todo) \in Optimizer!Recommendations /\ Tail(run.todo) \in Seq(Optimizer!Recommendations)
  BY <1>1, <1>2, HeadTailProperties
<1>3. run = [pc |-> run.pc, todo |-> run.todo] /\ \A pc : [run EXCEPT !.pc = pc] = [pc |-> pc, todo |-> run.todo]
  BY DEF Optimizer!TypeOK
<1>. QED  BY <1>1, <1>2, <1>3 DEF Optimizer!Rec, Optimizer!Recommendations

\* The keys of the tracking table, and changing the status under one.
LEMMA KeysAre ==
    /\ \A r \in Optimizer!Resources, n \in 0 .. MaxRuns : <<r, n>> \in Optimizer!Keys
    /\ \A r, n : Optimizer!Tracked(r, n) = <<r, n>>
BY DEF Optimizer!Keys, Optimizer!Tracked

\* An enumeration of a set.
LEMMA EnumerationIs ==
    ASSUME NEW S, NEW q \in Optimizer!SetToSeqs(S) PROVE q \in [1 .. Cardinality(S) -> S]
<1>1. q \in [1 .. Optimizer!Cardinality(S) -> S]
  BY DEF Optimizer!SetToSeqs
<1>. QED  BY <1>1, CardinalitiesAgree

\* Recommendations are listed in sequences.
LEMMA ListedIs ==
    ASSUME NEW resources \in SUBSET Optimizer!Resources, IsFiniteSet(resources),
           NEW savings \in [Optimizer!Resources -> Optimizer!Savings \cup {"none"}],
           NEW s \in Optimizer!Listed(resources, savings)
    PROVE  s \in Seq(Optimizer!Recommendations)
<1> DEFINE R == {r \in resources : savings[r] # "none"}
           D == 1 .. Cardinality(R)
<1>1. Cardinality(R) \in Nat
  BY FS_Subset, FS_CardinalityType
<1>2. PICK q \in Optimizer!SetToSeqs(R) :
          s = [n \in DOMAIN q |-> [resource |-> q[n], savings |-> savings[q[n]]]]
  BY DEF Optimizer!Listed
<1>3. q \in [D -> R]
  BY <1>2, EnumerationIs
<1>4. \A r \in R : [resource |-> r, savings |-> savings[r]] \in Optimizer!Recommendations
  BY DEF Optimizer!Recommendations
<1> HIDE DEF R
<1>5. DOMAIN q = D /\ \A n \in D : q[n] \in R
  BY <1>3
<1>6. s = [n \in D |-> [resource |-> q[n], savings |-> savings[q[n]]]]
  BY <1>2, <1>5
<1>7. s \in [1 .. Cardinality(R) -> Optimizer!Recommendations]
  BY <1>4, <1>5, <1>6
<1>. QED  BY <1>1, <1>7

\* The resources of the account are finitely many, so the report counts numbers.
LEMMA ItemsAreCounted ==
    ASSUME NEW items \in SUBSET Optimizer!Keys PROVE Cardinality(items) \in Nat
<1>1. IsFiniteSet(Optimizer!Resources)
  BY OptimizerAssumption, FS_Union DEF Optimizer!Resources
<1>2. IsFiniteSet(0 .. MaxRuns)
  BY OptimizerAssumption, FS_Interval
<1>3. IsFiniteSet(Optimizer!Keys)
  BY <1>1, <1>2, FS_Product DEF Optimizer!Keys
<1>. QED  BY <1>3, FS_Subset, FS_CardinalityType

\* A run gathers its recommendations, stores and decides on one, and asks for approval.
LEMMA GatherKeeps ==
    ASSUME OptimizerSound, NEW savings \in [Optimizer!Resources -> Optimizer!Savings \cup {"none"}],
           Optimizer!Gather(savings)
    PROVE  OptimizerSound'
<1>1. PICK ec2 \in Optimizer!Ec2Recommendations(savings), rds \in Optimizer!RdsRecommendations,
           fns \in Optimizer!LambdaRecommendations(savings) :
           run' = [pc |-> IF ec2 \o rds \o fns = << >> THEN "report" ELSE "store",
                   todo |-> ec2 \o rds \o fns]
  BY DEF Optimizer!Gather
<1>2. Instances \subseteq Optimizer!Resources /\ Functions \subseteq Optimizer!Resources
  BY DEF Optimizer!Resources
<1>3. /\ ec2 \in Optimizer!Listed(Instances, savings) /\ rds = << >>
      /\ fns \in Optimizer!Listed(Functions, savings)
  BY DEF Optimizer!Ec2Recommendations, Optimizer!RdsRecommendations, Optimizer!LambdaRecommendations
<1>4. /\ ec2 \in Seq(Optimizer!Recommendations) /\ fns \in Seq(Optimizer!Recommendations)
      /\ rds \in Seq(Optimizer!Recommendations)
  BY <1>2, <1>3, ListedIs, OptimizerAssumption
<1> DEFINE todo == ec2 \o rds \o fns
<1>5. todo \in Seq(Optimizer!Recommendations)
  <2>1. \A s, t \in Seq(Optimizer!Recommendations) : s \o t \in Seq(Optimizer!Recommendations)
    BY ConcatProperties
  <2>. QED  BY <1>4, <2>1
<1>6. run'.todo = todo /\ run'.pc = IF todo = << >> THEN "report" ELSE "store"
  BY <1>1
<1> HIDE DEF todo
<1>7. /\ run.pc = "gather" /\ run.todo = << >>
      /\ UNCHANGED <<state, resized, tracking, cut, runs, monthly>>
  BY DEF Optimizer!Gather, Optimizer!At, Optimizer!Fleet, Optimizer!Tracking, OptimizerSound, RunSound,
     AtRecommendation
<1>8. Optimizer!TypeOK'
  BY <1>1, <1>5, <1>6, <1>7 DEF Optimizer!TypeOK, OptimizerSound, todo
<1>9. RunSound'
  BY <1>6, <1>7 DEF OptimizerSound, RunSound, AtRecommendation
<1>10. StatusesSound'
  BY <1>7 DEF OptimizerSound, StatusesSound
<1>. QED  BY <1>8, <1>9, <1>10 DEF OptimizerSound

\* A run goes on without touching anything.
LEMMA GotoKeepsOptimizer ==
    ASSUME OptimizerSound, NEW pc \in {"stop", "modify", "failed", "published"}, run.pc \in AtRecommendation \ {"store"},
           Optimizer!Goto(pc), UNCHANGED <<state, resized, tracking, cut, runs, monthly>>,
           pc = "stop" => Optimizer!Rec.resource \in Instances,
           pc # "failed" => run.pc = "decide"
    PROVE  OptimizerSound'
<1>1. /\ run' = [pc |-> pc, todo |-> run.todo] /\ run'.pc = pc /\ run'.todo = run.todo
      /\ run.todo \in Seq(Optimizer!Recommendations)
  BY OptimizerTypes DEF Optimizer!Goto, OptimizerSound
<1>2. Optimizer!Rec' = Optimizer!Rec
  BY <1>1 DEF Optimizer!Rec
<1>3. Optimizer!TypeOK'
  BY <1>1 DEF OptimizerSound, Optimizer!TypeOK, AtRecommendation
<1>4. RunSound'
  BY <1>1, <1>2 DEF OptimizerSound, RunSound, AtRecommendation
<1>5. StatusesSound'
  BY <1>1, <1>2 DEF OptimizerSound, StatusesSound, RunSound, AtRecommendation
<1>. QED  BY <1>3, <1>4, <1>5 DEF OptimizerSound

\* A run begins.
LEMMA InvokeKeeps == ASSUME OptimizerSound, Optimizer!Invoke PROVE OptimizerSound'
<1>1. /\ run.pc = "idle" /\ run.todo = << >> /\ runs < MaxRuns /\ runs' = runs + 1 /\ runs \in Nat
      /\ run' = [pc |-> "gather", todo |-> << >>] /\ run'.pc = "gather" /\ run'.todo = << >>
      /\ UNCHANGED <<state, resized, tracking, cut, monthly>>
  BY OptimizerTypes DEF Optimizer!Invoke, Optimizer!At, Optimizer!Goto, Optimizer!Fleet,
     Optimizer!Tracking, OptimizerSound, RunSound, AtRecommendation
<1>2. runs' \in 0 .. MaxRuns /\ runs' # 0 /\ 1 .. runs \subseteq 1 .. runs'
  BY <1>1, OptimizerAssumption
<1>3. Optimizer!TypeOK'
  BY <1>1, <1>2 DEF OptimizerSound, Optimizer!TypeOK
<1>4. RunSound'
  BY <1>1, <1>2 DEF OptimizerSound, RunSound, AtRecommendation
<1>5. StatusesSound'
  BY <1>1, <1>2 DEF OptimizerSound, StatusesSound
<1>. QED  BY <1>3, <1>4, <1>5 DEF OptimizerSound

\* The recommendation at hand is stored under its resource and the time of the run.
LEMMA StoreRecommendationKeeps ==
    ASSUME OptimizerSound, Optimizer!StoreRecommendation PROVE OptimizerSound'
<1> DEFINE r == Optimizer!Rec.resource
<1>1. /\ run.pc = "store" /\ run.todo # << >> /\ runs # 0 /\ runs \in 0 .. MaxRuns
      /\ run' = [pc |-> "decide", todo |-> run.todo] /\ run'.pc = "decide" /\ run'.todo = run.todo
      /\ r \in Optimizer!Resources
      /\ tracking' = [tracking EXCEPT ![<<r, runs>>] = "identified"]
      /\ UNCHANGED <<state, resized, cut, runs, monthly>>
  BY OptimizerTypes, KeysAre DEF Optimizer!StoreRecommendation, Optimizer!At, Optimizer!Goto,
     Optimizer!Fleet, OptimizerSound, RunSound, AtRecommendation, Optimizer!TypeOK
<1>2. Optimizer!Rec' = Optimizer!Rec
  BY <1>1 DEF Optimizer!Rec
<1> HIDE DEF r
<1>3. <<r, runs>> \in Optimizer!Keys /\ DOMAIN tracking = Optimizer!Keys
  BY <1>1, KeysAre DEF OptimizerSound, Optimizer!TypeOK
<1>4. /\ tracking'[<<r, runs>>] = "identified"
      /\ \A k \in Optimizer!Keys : tracking'[k] = tracking[k] \/ tracking'[k] = "identified"
      /\ \A s \in Optimizer!Resources : tracking'[<<s, 0>>] = tracking[<<s, 0>>]
  <2>1. \A s \in Optimizer!Resources : <<s, 0>> \in Optimizer!Keys /\ <<s, 0>> # <<r, runs>>
    BY <1>1, KeysAre, OptimizerAssumption
  <2>. QED  BY <1>1, <1>3, <2>1
<1>5. Optimizer!TypeOK'
  <2>1. tracking' \in [Optimizer!Keys -> {"none", "identified", "executed", "failed", "pending_approval"}]
    BY <1>1 DEF OptimizerSound, Optimizer!TypeOK
  <2>. QED  BY <1>1, <2>1 DEF OptimizerSound, Optimizer!TypeOK
<1>6. RunSound'
  BY <1>1, <1>2, <1>4 DEF OptimizerSound, RunSound, AtRecommendation, r
<1>7. ASSUME NEW s \in Optimizer!Resources, NEW n \in 1 .. runs, tracking[<<s, n>>] = "identified"
      PROVE  tracking'[<<s, n>>] = "identified"
  <2>1. n \in 0 .. MaxRuns
    BY <1>1, OptimizerAssumption
  <2>. QED  BY <1>4, <1>7, <2>1, KeysAre
<1>8. StatusesSound'
  <2> SUFFICES ASSUME NEW s \in Optimizer!Resources
               PROVE  /\ tracking'[<<s, 0>>] = "executed" => s \in resized'
                      /\ tracking'[<<s, 0>>] # "none" =>
                             \E n \in 1 .. runs' : tracking'[<<s, n>>] = "identified"
                      /\ s \in Instances \ cut' /\ state'[s] = "down" =>
                             tracking'[<<s, 0>>] \in {"failed", "pending_approval"}
    BY DEF StatusesSound
  <2>. QED  BY <1>1, <1>4, <1>7 DEF OptimizerSound, StatusesSound
<1>. QED  BY <1>5, <1>6, <1>8 DEF OptimizerSound

\* The decision on the recommendation at hand.
LEMMA DecisionKeeps ==
    ASSUME OptimizerSound, Optimizer!ProcessRecommendation \/ Optimizer!RequestApproval \/ Optimizer!CallFails
    PROVE  OptimizerSound'
<1>1. UNCHANGED <<state, resized, tracking, cut, runs, monthly>>
  BY DEF Optimizer!ProcessRecommendation, Optimizer!RequestApproval, Optimizer!CallFails,
     Optimizer!Fleet, Optimizer!Tracking
<1>2. CASE Optimizer!ProcessRecommendation
  <2>1. CASE Optimizer!Rec.resource \in Instances
    BY <1>1, <1>2, <2>1, GotoKeepsOptimizer DEF Optimizer!ProcessRecommendation, Optimizer!At, AtRecommendation
  <2>2. CASE Optimizer!Rec.resource \notin Instances
    BY <1>1, <1>2, <2>2, GotoKeepsOptimizer DEF Optimizer!ProcessRecommendation, Optimizer!At, AtRecommendation
  <2>. QED  BY <2>1, <2>2
<1>3. CASE Optimizer!RequestApproval
  <2>1. run.pc = "decide" /\ Optimizer!Goto("published")
    BY <1>3 DEF Optimizer!RequestApproval, Optimizer!At
  <2>2. run.pc \in AtRecommendation \ {"store"}
    BY <2>1 DEF AtRecommendation
  <2>. QED  BY <1>1, <2>1, <2>2, GotoKeepsOptimizer
<1>4. CASE Optimizer!CallFails
  <2>1. run.pc \in {"stop", "modify", "start", "executed"} /\ Optimizer!Goto("failed")
    BY <1>4 DEF Optimizer!CallFails
  <2>2. run.pc \in AtRecommendation \ {"store"}
    BY <2>1 DEF AtRecommendation
  <2>. QED  BY <1>1, <2>1, <2>2, GotoKeepsOptimizer
<1>. QED  BY <1>2, <1>3, <1>4

\* The instance is stopped: the run is at it until it says something about it.
LEMMA StopKeeps == ASSUME OptimizerSound, Optimizer!Stop PROVE OptimizerSound'
<1> DEFINE r == Optimizer!Rec.resource
<1>1. PICK pc \in {"modify", "failed"} : run' = [run EXCEPT !.pc = pc]
  BY DEF Optimizer!Stop
<1>2. /\ run.pc = "stop" /\ run.todo # << >> /\ r \in Instances
      /\ run' = [pc |-> pc, todo |-> run.todo] /\ run'.pc = pc /\ run'.todo = run.todo
      /\ state' = [state EXCEPT ![r] = IF @ = "running" THEN "down" ELSE @]
      /\ UNCHANGED <<resized, tracking, cut, runs, monthly>>
  BY <1>1, OptimizerTypes DEF Optimizer!Stop, Optimizer!At, Optimizer!Tracking, OptimizerSound,
     RunSound, AtRecommendation
<1>3. Optimizer!Rec' = Optimizer!Rec
  BY <1>2 DEF Optimizer!Rec
<1> HIDE DEF r
<1>4. /\ state' \in [Instances -> {"running", "stopped", "down"}]
      /\ \A s \in Instances : s # r => state'[s] = state[s]
  BY <1>2 DEF OptimizerSound, Optimizer!TypeOK
<1>5. Optimizer!TypeOK'
  BY <1>2, <1>4 DEF OptimizerSound, Optimizer!TypeOK
<1>6. RunSound'
  BY <1>2, <1>3 DEF OptimizerSound, RunSound, AtRecommendation
<1>7. StatusesSound'
  BY <1>2, <1>3, <1>4 DEF OptimizerSound, StatusesSound, r
<1>. QED  BY <1>5, <1>6, <1>7 DEF OptimizerSound

\* The configuration is changed: an instance has to be started now.
LEMMA ModifyKeeps == ASSUME OptimizerSound, Optimizer!Modify PROVE OptimizerSound'
<1> DEFINE r == Optimizer!Rec.resource
           pc == IF r \in Instances THEN "start" ELSE "executed"
<1>1. /\ run.pc = "modify" /\ run.todo # << >> /\ r \in Optimizer!Resources
      /\ run' = [pc |-> pc, todo |-> run.todo] /\ run'.pc = pc /\ run'.todo = run.todo
      /\ resized' = resized \cup {r}
      /\ UNCHANGED <<state, tracking, cut, runs, monthly>>
  BY OptimizerTypes DEF Optimizer!Modify, Optimizer!At, Optimizer!Goto, Optimizer!Tracking, OptimizerSound,
     RunSound, AtRecommendation
<1>2. Optimizer!Rec' = Optimizer!Rec
  BY <1>1 DEF Optimizer!Rec
<1>3. Optimizer!TypeOK'
  BY <1>1 DEF OptimizerSound, Optimizer!TypeOK
<1>4. RunSound'
  BY <1>1, <1>2 DEF OptimizerSound, RunSound, AtRecommendation
<1>5. StatusesSound'
  BY <1>1, <1>2 DEF OptimizerSound, StatusesSound
<1>. QED  BY <1>3, <1>4, <1>5 DEF OptimizerSound

\* The instance runs again.
LEMMA StartKeeps == ASSUME OptimizerSound, Optimizer!Start PROVE OptimizerSound'
<1> DEFINE r == Optimizer!Rec.resource
<1>1. /\ run.pc = "start" /\ run.todo # << >> /\ r \in Instances
      /\ run' = [pc |-> "executed", todo |-> run.todo] /\ run'.pc = "executed" /\ run'.todo = run.todo
      /\ state' = [state EXCEPT ![r] = "running"]
      /\ UNCHANGED <<resized, tracking, cut, runs, monthly>>
  BY OptimizerTypes DEF Optimizer!Start, Optimizer!At, Optimizer!Goto, Optimizer!Tracking, OptimizerSound,
     RunSound, AtRecommendation
<1>2. Optimizer!Rec' = Optimizer!Rec
  BY <1>1 DEF Optimizer!Rec
<1> HIDE DEF r
<1>3. /\ state' \in [Instances -> {"running", "stopped", "down"}] /\ state'[r] = "running"
      /\ \A s \in Instances : s # r => state'[s] = state[s]
  BY <1>1 DEF OptimizerSound, Optimizer!TypeOK
<1>4. Optimizer!TypeOK'
  BY <1>1, <1>3 DEF OptimizerSound, Optimizer!TypeOK
<1>5. RunSound'
  BY <1>1, <1>2, <1>3 DEF OptimizerSound, RunSound, AtRecommendation, r
<1>6. StatusesSound'
  BY <1>1, <1>3 DEF OptimizerSound, StatusesSound, r
<1>. QED  BY <1>4, <1>5, <1>6 DEF OptimizerSound

\* The status of the recommendation at hand is stored and the run goes on to the next.
LEMMA UpdateTrackingKeeps == ASSUME OptimizerSound, Optimizer!UpdateTracking PROVE OptimizerSound'
<1> DEFINE r == Optimizer!Rec.resource
           status == Optimizer!StatusOf[run.pc]
           rest == Tail(run.todo)
           pc == IF rest = << >> THEN "report" ELSE "store"
<1>1. /\ run.pc \in {"executed", "failed", "published"}
      /\ run.pc = "executed" => status = "executed"
      /\ run.pc # "executed" => status \in {"failed", "pending_approval"}
  BY DEF Optimizer!UpdateTracking, Optimizer!StatusOf
<1>2. /\ run.todo # << >> /\ r \in Optimizer!Resources /\ runs \in 0 .. MaxRuns /\ runs # 0
      /\ rest \in Seq(Optimizer!Recommendations)
      /\ run' = [pc |-> pc, todo |-> rest] /\ run'.pc = pc /\ run'.todo = rest
      /\ tracking' = [tracking EXCEPT ![<<r, 0>>] = status]
      /\ UNCHANGED <<state, resized, cut, runs, monthly>>
  BY <1>1, OptimizerTypes, KeysAre DEF Optimizer!UpdateTracking, Optimizer!Fleet, OptimizerSound, RunSound,
     AtRecommendation, Optimizer!TypeOK
<1>3. /\ tracking[<<r, runs>>] = "identified"
      /\ run.pc = "executed" => r \in resized
      /\ run.pc = "executed" /\ r \in Instances => state[r] # "down"
  BY <1>1 DEF OptimizerSound, RunSound, AtRecommendation
<1> HIDE DEF r, status, rest
<1>4. DOMAIN tracking = Optimizer!Keys /\ <<r, 0>> \in Optimizer!Keys
  BY <1>2, KeysAre, OptimizerAssumption DEF OptimizerSound, Optimizer!TypeOK
<1>5. /\ tracking'[<<r, 0>>] = status
      /\ \A s \in Optimizer!Resources, n \in 0 .. MaxRuns :
             s # r \/ n # 0 => tracking'[<<s, n>>] = tracking[<<s, n>>]
  BY <1>2, <1>4, KeysAre
<1>6. Optimizer!TypeOK'
  <2>1. tracking' \in [Optimizer!Keys -> {"none", "identified", "executed", "failed", "pending_approval"}]
    BY <1>1, <1>2 DEF OptimizerSound, Optimizer!TypeOK
  <2>. QED  BY <1>2, <2>1 DEF OptimizerSound, Optimizer!TypeOK
<1>7. RunSound'
  BY <1>2 DEF OptimizerSound, RunSound, AtRecommendation
<1>8. StatusesSound'
  <2> SUFFICES ASSUME NEW s \in Optimizer!Resources
               PROVE  /\ tracking'[<<s, 0>>] = "executed" => s \in resized
                      /\ tracking'[<<s, 0>>] # "none" =>
                             \E n \in 1 .. runs : tracking'[<<s, n>>] = "identified"
                      /\ s \in Instances \ cut /\ state[s] = "down" =>
                             tracking'[<<s, 0>>] \in {"failed", "pending_approval"}
    BY <1>2 DEF StatusesSound
  <2>1. \A n \in 1 .. runs : n \in 0 .. MaxRuns /\ n # 0
    BY <1>2, OptimizerAssumption
  <2>2. CASE s = r
    <3>1. runs \in 1 .. runs /\ tracking'[<<r, runs>>] = "identified"
      <4>1. runs \in 1 .. runs
        BY <1>2, OptimizerAssumption
      <4>. QED  BY <1>2, <1>3, <1>5, <4>1
    <3>. QED  BY <1>1, <1>3, <1>5, <2>2, <3>1
  <2>3. CASE s # r
    <3>1. tracking'[<<s, 0>>] = tracking[<<s, 0>>]
      BY <1>2, <1>5, <2>3, OptimizerAssumption
    <3>2. ASSUME tracking[<<s, 0>>] # "none"
          PROVE  \E n \in 1 .. runs : tracking'[<<s, n>>] = "identified"
      <4>1. PICK n \in 1 .. runs : tracking[<<s, n>>] = "identified"
        BY <3>2 DEF OptimizerSound, StatusesSound
      <4>. QED  BY <1>5, <2>1, <4>1
    <3>. QED  BY <2>3, <3>1, <3>2 DEF OptimizerSound, StatusesSound, r
  <2>. QED  BY <2>2, <2>3
<1>. QED  BY <1>6, <1>7, <1>8 DEF OptimizerSound

\* The report changes nothing but itself.
LEMMA ReportKeeps == ASSUME OptimizerSound, Optimizer!GenerateMonthlyReport PROVE OptimizerSound'
<1>1. /\ run.pc = "report" /\ run.todo = << >>
      /\ run' = [pc |-> "idle", todo |-> << >>] /\ run'.pc = "idle" /\ run'.todo = << >>
      /\ UNCHANGED <<state, resized, tracking, cut, runs>>
  BY OptimizerTypes DEF Optimizer!GenerateMonthlyReport, Optimizer!At, Optimizer!Goto, Optimizer!Fleet,
     Optimizer!Tracking, OptimizerSound, RunSound, AtRecommendation
<1>2. monthly' \in [identified : Nat, executed : Nat]
  <2> DEFINE items == {k \in Optimizer!Keys : k[2] # 0 /\ tracking[k] # "none"}
             done == {k \in items : tracking[k] = "executed"}
  <2>1. monthly' = [identified |-> Cardinality(items), executed |-> Cardinality(done)]
    BY CardinalitiesAgree DEF Optimizer!GenerateMonthlyReport
  <2>2. items \in SUBSET Optimizer!Keys /\ done \in SUBSET Optimizer!Keys
    OBVIOUS
  <2> HIDE DEF items, done
  <2>. QED  BY <2>1, <2>2, ItemsAreCounted
<1>3. Optimizer!TypeOK'
  BY <1>1, <1>2 DEF OptimizerSound, Optimizer!TypeOK
<1>4. RunSound' /\ StatusesSound'
  BY <1>1 DEF OptimizerSound, RunSound, StatusesSound, AtRecommendation
<1>. QED  BY <1>3, <1>4 DEF OptimizerSound

\* A run is cut off; what it was at is remembered.
LEMMA AbortKeeps == ASSUME OptimizerSound, Optimizer!Abort PROVE OptimizerSound'
<1>1. /\ run' = [pc |-> "idle", todo |-> << >>] /\ run'.pc = "idle" /\ run'.todo = << >>
      /\ UNCHANGED <<state, resized, tracking, runs, monthly>>
      /\ cut' = IF run.todo = << >> THEN cut ELSE cut \cup {Optimizer!Rec.resource}
  BY DEF Optimizer!Abort, Optimizer!Fleet
<1>2. cut' \subseteq Optimizer!Resources /\ cut \subseteq cut'
  BY <1>1, OptimizerTypes DEF OptimizerSound, Optimizer!TypeOK
<1>3. Optimizer!TypeOK'
  BY <1>1, <1>2 DEF OptimizerSound, Optimizer!TypeOK
<1>4. RunSound'
  BY <1>1 DEF RunSound, AtRecommendation
<1>5. StatusesSound'
  BY <1>1, <1>2 DEF OptimizerSound, StatusesSound
<1>. QED  BY <1>3, <1>4, <1>5 DEF OptimizerSound

\* Between runs operators start and stop instances.
LEMMA OperateKeeps == ASSUME OptimizerSound, NEW i \in Instances, Optimizer!Operate(i) PROVE OptimizerSound'
<1>1. /\ run.pc = "idle" /\ UNCHANGED <<resized, tracking, cut, run, runs, monthly>>
      /\ state' = [state EXCEPT ![i] = IF @ = "running" THEN "stopped" ELSE "running"]
  BY DEF Optimizer!Operate, Optimizer!At, Optimizer!Tracking
<1>2. /\ state' \in [Instances -> {"running", "stopped", "down"}] /\ state'[i] # "down"
      /\ \A s \in Instances : s # i => state'[s] = state[s]
  BY <1>1 DEF OptimizerSound, Optimizer!TypeOK
<1>3. Optimizer!TypeOK'
  BY <1>1, <1>2 DEF OptimizerSound, Optimizer!TypeOK
<1>4. RunSound'
  BY <1>1 DEF OptimizerSound, RunSound, Optimizer!Rec, AtRecommendation
<1>5. StatusesSound'
  BY <1>1, <1>2 DEF OptimizerSound, StatusesSound, Optimizer!Rec
<1>. QED  BY <1>3, <1>4, <1>5 DEF OptimizerSound

\* Initially nothing is tracked and nothing is down.
LEMMA OptimizerInit == Optimizer!Init => OptimizerSound
<1> SUFFICES ASSUME Optimizer!Init PROVE OptimizerSound
  OBVIOUS
<1>1. Optimizer!TypeOK
  BY OptimizerAssumption DEF Optimizer!Init, Optimizer!TypeOK
<1>2. RunSound
  BY DEF Optimizer!Init, RunSound, AtRecommendation
<1>3. \A r \in Optimizer!Resources : tracking[<<r, 0>>] = "none"
  BY KeysAre, OptimizerAssumption DEF Optimizer!Init
<1>4. \A i \in Instances : state[i] # "down"
  BY DEF Optimizer!Init
<1>5. StatusesSound
  BY <1>3, <1>4 DEF StatusesSound
<1>. QED  BY <1>1, <1>2, <1>5 DEF OptimizerSound

\* Every step of the optimizer keeps its invariant.
LEMMA OptimizerNext == OptimizerSound /\ [Optimizer!Next]_OptimizerVars => OptimizerSound'
<1> SUFFICES ASSUME OptimizerSound, [Optimizer!Next]_OptimizerVars PROVE OptimizerSound'
  OBVIOUS
<1>1. CASE UNCHANGED OptimizerVars
  BY <1>1 DEF OptimizerVars, OptimizerSound, Optimizer!TypeOK, RunSound, StatusesSound, Optimizer!Rec
<1>2. CASE Optimizer!Next
  BY <1>2, InvokeKeeps, StoreRecommendationKeeps, DecisionKeeps, StopKeeps, ModifyKeeps, StartKeeps,
     UpdateTrackingKeeps, ReportKeeps, AbortKeeps, OperateKeeps, GatherKeeps DEF Optimizer!Next
<1>. QED  BY <1>1, <1>2

\* The invariant says what the tracking table is good for.
LEMMA OptimizerTracks == OptimizerSound => TrackingIsTrue
BY KeysAre DEF OptimizerSound, RunSound, StatusesSound, TrackingIsTrue, Optimizer!TrackingIsTrue, Optimizer!At,
   AtRecommendation

--------------------------------------------------------------------------------
(* The five programs together.                                                  *)
AllInv == IInv /\ PoolsSound /\ FactorySound /\ SecuritySound /\ OptimizerSound

\* Every state of the composition has the invariants of the five programs.
LEMMA AllInitially == AllInit => AllInv
BY InitIInv, PoolsInit, FactoryInit, SecurityInit, OptimizerInit DEF AllInit, AllInv

\* A step is one of a single program and leaves the others as they are.
LEMMA StepsApart ==
    ASSUME [AllNext]_AllVars
    PROVE  /\ [Next]_vars /\ [Pools!Next]_PoolVars /\ [Factory!Next]_FactoryVars
           /\ [Security!Next]_SecurityVars /\ [Optimizer!Next]_OptimizerVars
BY DEF AllNext, AllVars

\* Every step of the composition keeps the invariant.
LEMMA AllNextKeeps == ASSUME AllInv, [AllNext]_AllVars PROVE AllInv'
BY StepsApart, NextIInv, PoolsNext, FactoryNext, SecurityNext, OptimizerNext DEF AllInv

\* In every reachable state every account is as far as the call that asked for it, the
\* rules an invocation has still to revoke cover what is open, every task that is done
\* has one result, and an instance is down only between its stop and its status.
THEOREM AllInvariance == AllSpec => []AllInv
<1>1. AllInit => AllInv
  BY AllInitially
<1>2. AllInv /\ [AllNext]_AllVars => AllInv'
  BY AllNextKeeps
<1>. QED  BY <1>1, <1>2, PTL DEF AllSpec

\* The state of the five programs keeps its types: in particular no more results wait
\* than there are tasks, and no lambda is invoked more often than it may be.
THEOREM TypesCorrect == AllSpec => []TypesOK
<1>1. AllInv => TypesOK
  <2> SUFFICES ASSUME AllInv PROVE TypesOK
    OBVIOUS
  <2>1. TypeOK
    BY TypesOfClients DEF AllInv
  <2>2. Pools!TypeOK
    <3>1. Len(results) <= Pools!Cardinality(Tasks)
      BY ResultsAreFew, CardinalitiesAgree DEF AllInv
    <3>. QED  BY <3>1 DEF AllInv, PoolsSound, PoolTypes, TaskResults, Pools!TypeOK
  <2>3. Factory!TypeOK /\ Security!TypeOK /\ Optimizer!TypeOK
    BY DEF AllInv, FactorySound, SecuritySound, OptimizerSound
  <2>. QED  BY <2>1, <2>2, <2>3 DEF TypesOK
<1>. QED  BY <1>1, AllInvariance, PTL

\* For any list of tasks and any number of threads: when a program reports, every task
\* was counted exactly once, but for those it has no result of, which it shows.
THEOREM ReportsAddUp == AllSpec => []ReportAddsUp
<1>1. AllInv => ReportAddsUp
  BY PoolsAddUp DEF AllInv
<1>. QED  BY <1>1, AllInvariance, PTL

\* For any requests, however they interleave: an account is in its unit and recorded
\* before anyone gets power over it, and a returned one has the whole baseline.
THEOREM AccountsGoverned == AllSpec => []AccountsAreGoverned
<1>1. AllInv => AccountsAreGoverned
  BY FactoryIsGoverned DEF AllInv
<1>. QED  BY <1>1, AllInvariance, PTL

\* For any findings, ports and numbers of attempts: what was answered is closed unless
\* an administrator opened it, and only ports that were open to the world lose a rule.
THEOREM AnsweredClosed == AllSpec => []AnsweredIsClosed
<1>1. AllInv => AnsweredIsClosed
  BY SecurityIsAnswered DEF AllInv
<1>. QED  BY <1>1, AllInvariance, PTL

\* For any resources and any number of runs, some of them cut short: the tracking table
\* says of a resource what was done to it.
THEOREM TrackingTrue == AllSpec => []TrackingIsTrue
<1>1. AllInv => TrackingIsTrue
  BY OptimizerTracks DEF AllInv
<1>. QED  BY <1>1, AllInvariance, PTL
================================================================================

------------------------------- MODULE ApiClients ------------------------------
(* Clients of an HTTP service and their circuit breakers:                       *)
(*   go_client   go-basics/json_api_client_faang.go: retries through a breaker, *)
(*               one call after the other, as the breaker has no lock           *)
(*   api_client  python-basics/api_client_faang.py: retries; its breaker is     *)
(*               made and never asked                                           *)
(*   scraper     python-basics/web_scraper_faang.py: one attempt, by coroutines *)
(*               that share a breaker without a way back                        *)
EXTENDS Naturals, FiniteSets, FiniteSetsExt

CONSTANTS
    Programs, Calls,
    MaxFailures,    \* maxFailures, failure_threshold
    MaxRetries      \* attempts of one call: maxRetries

ASSUME ClientsAssumption == MaxFailures \in Nat \ {0} /\ MaxRetries \in Nat \ {0}

VARIABLES
    program,
    breaker,        \* failures is counted up to MaxFailures; cooling: less than
                    \* timeout has passed since the last failure
    calls,          \* call |-> how far it is, its attempt, and requests it sent
    streak          \* failed requests since the last successful one

vars == <<program, breaker, calls, streak>>

TypeOK ==
    /\ program \in Programs
    /\ breaker \in [state : {"closed", "open", "half-open"}, failures : 0 .. MaxFailures,
                    cooling : BOOLEAN]
    /\ calls \in [Calls -> [pc : {"new", "attempt", "sending", "ok", "error"},
                            attempt : 1 .. MaxRetries, sent : 0 .. MaxRetries]]
    /\ streak \in Nat

Init ==
    /\ program \in Programs
    /\ breaker = [state |-> "closed", failures |-> 0, cooling |-> FALSE]
    /\ calls = [c \in Calls |-> [pc |-> "new", attempt |-> 1, sent |-> 0]]
    /\ streak = 0

--------------------------------------------------------------------------------
At(c, pc) == calls[c].pc = pc
Goto(c, pc) == calls' = [calls EXCEPT ![c].pc = pc]
Attempts == IF program = "scraper" THEN 1 ELSE MaxRetries

\* Fault: one attempt more than there are.
RetriedOnceMore(call) ==
    IF call.attempt <= Attempts
    THEN [call EXCEPT !.pc = "attempt", !.attempt = @ + 1]
    ELSE [call EXCEPT !.pc = "error"]

\* An attempt came to nothing: the next one, after a pause, or the end of the call.
Retried(call) ==
    IF call.attempt < Attempts
    THEN [call EXCEPT !.pc = "attempt", !.attempt = @ + 1]
    ELSE [call EXCEPT !.pc = "error"]

\* main, or a user of the scraper, calls.
Begin(c) ==
    /\ At(c, "new")
    /\ program = "go_client" => \A d \in Calls : calls[d].pc \in {"new", "ok", "error"}
    /\ Goto(c, "attempt")
    /\ UNCHANGED <<program, breaker, streak>>

Send(c) == calls' = [calls EXCEPT ![c].pc = "sending", ![c].sent = @ + 1]

\* Call of the Go breaker lets a request through, the first one after the timeout as a
\* trial, or fails at once; the other clients do not ask, or ask for the state only.
GoAttempt(c) ==
    /\ program = "go_client" /\ At(c, "attempt")
    /\ IF breaker.state = "open" /\ breaker.cooling
       THEN calls' = [calls EXCEPT ![c] = Retried(@)] /\ UNCHANGED breaker
       ELSE /\ Send(c)
            /\ breaker' = [breaker EXCEPT !.state = IF @ = "open" THEN "half-open" ELSE @]
    /\ UNCHANGED <<program, streak>>

ApiAttempt(c) ==
    /\ program = "api_client" /\ At(c, "attempt")
    /\ Send(c)
    /\ UNCHANGED <<program, breaker, streak>>

\* scrape looks at the state, then waits for the rate limiter, then sends; an invalid
\* url it does not send.
Scrape(c) ==
    /\ program = "scraper" /\ At(c, "attempt")
    /\ Goto(c, "error") \/ (breaker.state # "open" /\ Send(c))
    /\ UNCHANGED <<program, breaker, streak>>

\* Fault: a success closes the breaker and the failures stay counted.
SuccessKeepsFailures(b) == [b EXCEPT !.state = "closed"]

\* A success closes the breaker.
RecordSuccess(b) == [b EXCEPT !.state = "closed", !.failures = 0]

\* A failure is counted, and opens the breaker when there are enough of them; a trial
\* that fails finds them counted already.
RecordFailure(b) ==
    LET failures == Min({MaxFailures, b.failures + 1})
    IN  [state |-> IF failures = MaxFailures THEN "open" ELSE b.state,
         failures |-> failures, cooling |-> TRUE]

Recorded(b) == IF program = "api_client" THEN breaker ELSE b

Succeed(c) ==
    /\ At(c, "sending")
    /\ Goto(c, "ok")
    /\ breaker' = Recorded(RecordSuccess(breaker))
    /\ streak' = 0
    /\ UNCHANGED program

\* A timeout, or any other error; for the Go client also the end of the 30 seconds all
\* attempts share.
Fail(c) ==
    /\ At(c, "sending")
    /\ calls' = [calls EXCEPT ![c] = Retried(@)]
    /\ breaker' = Recorded(RecordFailure(breaker))
    /\ streak' = streak + 1
    /\ UNCHANGED program

\* More than timeout passes without a failure.
Cool ==
    /\ program = "go_client" /\ breaker.cooling
    /\ breaker' = [breaker EXCEPT !.cooling = FALSE]
    /\ UNCHANGED <<program, calls, streak>>

Step(c) == GoAttempt(c) \/ ApiAttempt(c) \/ Scrape(c) \/ Succeed(c) \/ Fail(c)
Next == Cool \/ \E c \in Calls : Begin(c) \/ Step(c)
Spec == Init /\ [][Next]_vars

\* A call that was begun goes on: requests time out and pauses end.
Fairness == \A c \in Calls : WF_vars(Step(c))
FairSpec == Spec /\ Fairness

--------------------------------------------------------------------------------
Sending == {c \in Calls : At(c, "sending")}

\* A breaker that is asked is open exactly after MaxFailures failures in a row, whoever
\* had them and however the coroutines interleave; the Go breaker half-opens only for a
\* request that is under way, and one failure opens it again.  A call gives up only
\* when all its attempts were used; without a breaker all of them were sent.
ClientBreakersSound ==
    /\ program # "api_client" =>
           /\ breaker.state = "closed" <=> streak < MaxFailures
           /\ breaker.state = "half-open" => program = "go_client" /\ Sending # {}
    /\ \A c \in Calls : At(c, "error") =>
           /\ calls[c].attempt = Attempts
           /\ program = "api_client" => calls[c].sent = Attempts

\* A call that was begun ends, with the answer or with an error.
EveryCallEnds == \A c \in Calls : At(c, "attempt") ~> calls[c].pc \in {"ok", "error"}

\* The scraper's breaker has no way back: once it is open and no request is under way,
\* no call sends anything any more.
OpenForEver ==
    [][program = "scraper" /\ breaker.state = "open" /\ Sending = {}
           => breaker' = breaker /\ Sending' = {}]_vars
================================================================================

----------------------------- MODULE CircuitBreaker ----------------------------
(* The CircuitBreaker of 01-event-driven/problem-1/ride_service_advanced.py:  *)
(* what a call, a success and a failure do to its state.                      *)
EXTENDS Integers

CONSTANTS
    FailureThreshold,   \* failure_threshold
    HalfOpenMaxCalls    \* half_open_max_calls

ASSUME ThresholdsArePositive ==
    FailureThreshold \in Nat \ {0} /\ HalfOpenMaxCalls \in Nat \ {0}

\* failures is _failure_count up to the threshold (beyond it only the comparison
\* matters), trials is _half_open_calls, and cooling says that the last failure
\* is no more than timeout ago.
Breakers == [state : {"closed", "open", "half_open"},
             failures : 0 .. FailureThreshold,
             trials : 0 .. HalfOpenMaxCalls,
             cooling : BOOLEAN]

NewBreaker == [state |-> "closed", failures |-> 0, trials |-> 0, cooling |-> FALSE]

\* call raises CircuitBreakerOpenError unless enough time has passed.
MayCall(b) == b.state = "open" => ~ b.cooling

\* The state in which call runs the function.
Admitted(b) ==
    IF b.state = "open" THEN [b EXCEPT !.state = "half_open", !.trials = 0] ELSE b

\* Fault: the failures are not forgotten when the breaker closes.
OnSuccessRemembering(b) ==
    IF b.state # "half_open" THEN b
    ELSE IF b.trials + 1 < HalfOpenMaxCalls THEN [b EXCEPT !.trials = @ + 1]
    ELSE [b EXCEPT !.state = "closed", !.trials = @ + 1]

\* _on_success: only trial calls count, and enough of them close the breaker.
OnSuccess(b) ==
    IF b.state # "half_open" THEN b
    ELSE IF b.trials + 1 < HalfOpenMaxCalls THEN [b EXCEPT !.trials = @ + 1]
    ELSE [b EXCEPT !.state = "closed", !.trials = @ + 1, !.failures = 0]

\* _on_failure: failures are counted in every state, and never forgotten while
\* the breaker is closed.
OnFailure(b) ==
    LET failures == IF b.failures < FailureThreshold THEN b.failures + 1
                    ELSE FailureThreshold
    IN  [b EXCEPT !.failures = failures, !.cooling = TRUE,
             !.state = IF failures = FailureThreshold THEN "open" ELSE @]

\* More than timeout seconds pass without a failure.
Cooled(b) == [b EXCEPT !.cooling = FALSE]

--------------------------------------------------------------------------------
\* A closed breaker has failures left before it opens; an open or half-open one
\* has none, so that the first failed trial call opens it again; and a half-open
\* one still needs a successful trial call before it closes.
Sound(b) ==
    /\ b.state = "closed" <=> b.failures < FailureThreshold
    /\ b.state = "half_open" => b.trials < HalfOpenMaxCalls
================================================================================

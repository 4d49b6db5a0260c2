---------------------------- MODULE SagaExecution -----------------------------
(* One execution of one of the two sagas by Step Functions.  The Lambda       *)
(* functions are not in the repository: a task may succeed, fail without an    *)
(* effect, or fail although it took effect (a timeout, a lost response); a     *)
(* function invoked again for the same execution has the same effect once.     *)
EXTENDS StatesLanguage, Integers, Sequences, FiniteSets

CONSTANTS
    Sagas,      \* the state machines that may run: subset of {"order", "travel"}
    MaxUnclear  \* bound: failures of tasks that took effect

ASSUME SagasAssumption == Sagas \subseteq {"order", "travel"} /\ MaxUnclear \in Nat

Order == INSTANCE OrderSaga
Travel == INSTANCE TravelSaga

VARIABLES
    saga,    \* the state machine of this execution
    at,      \* thread |-> the state it is in; Main, and one per parallel branch
    tries,   \* thread |-> failed attempts at the task it is in
    data,    \* the paths present in the state data
    done,    \* the tasks that took effect and the Pass states passed
    unclear  \* failures of tasks that took effect

vars == <<saga, at, tries, data, done, unclear>>

Main == 0
Branches == 1 .. 3
Threads == {Main} \cup Branches
Idle == "idle"
Aborted == "aborted"

States == IF saga = "order" THEN Order!States ELSE Travel!States
UndoneBy == IF saga = "order" THEN Order!UndoneBy ELSE Travel!UndoneBy

In(th, type) == at[th] \in DOMAIN States /\ States[at[th]].type = type
State(th) == States[at[th]]

TypeOK ==
    /\ saga \in Sagas
    /\ at \in [Threads -> DOMAIN States \cup {Idle, End, Aborted}]
    /\ tries \in [Threads -> Nat]
    /\ done \subseteq DOMAIN States
    /\ unclear \in 0 .. MaxUnclear
    \* branches run only while the execution is in its Parallel state
    /\ (\E b \in Branches : at[b] # Idle) => In(Main, "Parallel")

Init ==
    /\ saga \in Sagas
    /\ at = [th \in Threads |->
                IF th # Main THEN Idle
                ELSE IF saga = "order" THEN Order!StartAt ELSE Travel!StartAt]
    /\ tries = [th \in Threads |-> 0]
    /\ data = IF saga = "order" THEN Order!Input ELSE Travel!Input
    /\ done = {}
    /\ unclear = 0

-------------------------------------------------------------------------------
Goto(th, next) ==
    /\ at' = [at EXCEPT ![th] = next]
    /\ tries' = [tries EXCEPT ![th] = 0]

TaskSucceeds(th) ==
    /\ In(th, "Task")
    /\ done' = done \cup {at[th]}
    /\ data' = data \cup ({State(th).writes} \ {None})
    /\ Goto(th, State(th).next)
    /\ UNCHANGED <<saga, unclear>>

\* A failed attempt, with its effect or without.
Attempt(th, effect) ==
    /\ In(th, "Task")
    /\ unclear + effect <= MaxUnclear
    /\ unclear' = unclear + effect
    /\ UNCHANGED saga

EffectOf(th, effect) == IF effect = 1 THEN {at[th]} ELSE {}

\* The Retry field allows one more attempt.
Retry(th, effect) ==
    /\ Attempt(th, effect)
    /\ tries[th] < State(th).retries
    /\ tries' = [tries EXCEPT ![th] = @ + 1]
    /\ done' = done \cup EffectOf(th, effect)
    /\ UNCHANGED <<at, data>>

\* Retries are used up; the Catch field takes the error.  What a branch catches
\* stays in the data of the branch.
Catch(th, effect) ==
    /\ Attempt(th, effect)
    /\ tries[th] = State(th).retries
    /\ State(th).catch # None
    /\ done' = done \cup EffectOf(th, effect)
    /\ data' = IF th = Main THEN data \cup {"error"} ELSE data
    /\ Goto(th, State(th).catch)

\* Without a Catch the execution fails where it stands.
AbortExecution(effect) ==
    /\ Attempt(Main, effect)
    /\ tries[Main] = State(Main).retries
    /\ State(Main).catch = None
    /\ done' = done \cup EffectOf(Main, effect)
    /\ Goto(Main, Aborted)
    /\ UNCHANGED data

\* In a branch, the Parallel state fails: the other branches are stopped, but
\* their Lambda functions in flight may still take effect.
AbortBranch(b, effect, strays) ==
    /\ b # Main
    /\ Attempt(b, effect)
    /\ tries[b] = State(b).retries
    /\ State(b).catch = None
    /\ strays \subseteq {at[c] : c \in {d \in Branches \ {b} : In(d, "Task")}}
    /\ done' = done \cup EffectOf(b, effect) \cup strays
    /\ data' = data \cup {"parallel_error"}
    /\ at' = [th \in Threads |-> IF th = Main THEN State(Main).catch ELSE Idle]
    /\ tries' = [th \in Threads |-> 0]

PassOn(th) ==
    /\ In(th, "Pass")
    /\ done' = done \cup {at[th]}
    /\ Goto(th, State(th).next)
    /\ UNCHANGED <<saga, data, unclear>>

Fork ==
    /\ In(Main, "Parallel")
    /\ \A b \in Branches : at[b] = Idle
    /\ at' = [th \in Threads |-> IF th = Main THEN at[Main] ELSE State(Main).starts[th]]
    /\ UNCHANGED <<saga, tries, data, done, unclear>>

\* Fault: the branches are not left.
JoinStaying ==
    /\ In(Main, "Parallel")
    /\ \A b \in Branches : at[b] = End
    /\ data' = data \cup {State(Main).writes}
    /\ at' = [at EXCEPT ![Main] = State(Main).next]
    /\ UNCHANGED <<saga, tries, done, unclear>>

Join ==
    /\ In(Main, "Parallel")
    /\ \A b \in Branches : at[b] = End
    /\ data' = data \cup {State(Main).writes}
    /\ at' = [th \in Threads |-> IF th = Main THEN State(Main).next ELSE Idle]
    /\ UNCHANGED <<saga, tries, done, unclear>>

\* A Choice over a path that is not in the data is a runtime error, which no
\* Catch takes.
Choose ==
    /\ In(Main, "Choice")
    /\ Goto(Main, IF State(Main).path \notin data THEN Aborted
                  ELSE IF State(Main).was \in done THEN State(Main).then
                  ELSE State(Main).default)
    /\ UNCHANGED <<saga, data, done, unclear>>

Next ==
    \/ \E th \in Threads, effect \in {0, 1} :
           \/ TaskSucceeds(th)
           \/ Retry(th, effect)
           \/ Catch(th, effect)
           \/ \E strays \in SUBSET {at[b] : b \in Branches} : AbortBranch(th, effect, strays)
           \/ PassOn(th)
    \/ \E effect \in {0, 1} : AbortExecution(effect)
    \/ Fork
    \/ Join
    \/ Choose

Spec == Init /\ [][Next]_vars

\* Step Functions carries an execution on; every task ends, by its time limit
\* at the latest.
FairSpec == Spec /\ WF_vars(Next)

-------------------------------------------------------------------------------
Ended == In(Main, "Succeed") \/ In(Main, "Fail") \/ at[Main] = Aborted

\* Every execution comes to an end, whatever fails.
EventuallyEnds == <>[]Ended

\* An execution that ends in the saga's own failure state has undone every step
\* that succeeded: nothing stays reserved, booked or paid, unless a task failed
\* although it took effect.
FailedLeavesNothing ==
    In(Main, "Fail") /\ unclear = 0 =>
        \A step \in DOMAIN UndoneBy \cap done : UndoneBy[step] \in done

\* An execution that ends well has done every step and undone none.
SucceededIsComplete ==
    In(Main, "Succeed") =>
        /\ DOMAIN UndoneBy \subseteq done
        /\ \A step \in DOMAIN UndoneBy : UndoneBy[step] \notin done

\* Whatever path led to a task, the data it names in its Parameters is there: a
\* compensation in particular is reached only with the result of the step that
\* it undoes.
InputsPresent ==
    \A th \in Threads : In(th, "Task") => State(th).reads \subseteq data

\* A paid order's parallel steps cannot block it, failed shipment, analytics
\* and email included, unless the dead letter queue refuses the email.
OnlyDeadLetterQueueBlocks ==
    [][at[Main] = "ParallelProcessing" /\ at'[Main] = "CheckShipmentStatus"
       => \E b \in Branches : at[b] = "EmailFailedDLQ"]_vars

\* "Shipment failed: refund payment, release inventory."
ShipmentFailureIsUndone ==
    saga = "order" /\ Ended /\ "ShipmentFailed" \in done
        => {"CompensatePayment", "ReleaseInventory"} \subseteq done

\* An execution that ends has done all of its work or none of it.
AllOrNothing == FailedLeavesNothing /\ SucceededIsComplete

===============================================================================

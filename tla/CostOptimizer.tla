----------------------------- MODULE CostOptimizer -----------------------------
(* cost-optimization/01-rightsizing/problem-1/optimizer.py: the Lambda function  *)
(* gathers recommendations, stores each one, carries the cheap ones out and asks *)
(* for approval of the others, and reports.  Its runs follow one another; any    *)
(* call may fail and any run may be cut off.  The savings are two classes: below *)
(* and from 100 dollars a month on.                                              *)
EXTENDS Naturals, Sequences, FiniteSets, SequencesExt

CONSTANTS
    Instances,   \* EC2 instances
    Functions,   \* Lambda functions
    Databases,   \* RDS instances
    MaxRuns      \* bound: runs of the function

VARIABLES
    state,       \* instance |-> running, stopped, or down: stopped by the optimizer
    resized,     \* resources that have their recommended configuration
    tracking,    \* the tracking table: key |-> status
    cut,         \* resources at which a run was cut off
    run,         \* the current run: its recommendations and how far it is
    runs,        \* runs so far
    report       \* the last report

vars == <<state, resized, tracking, cut, run, runs, report>>

Resources == Instances \cup Functions
Savings == {"low", "high"}
Recommendations == [resource : Resources, savings : Savings]

\* Keys of the tracking table: a resource and the time of a run, or 0 for no time.
Tracked(r, n) == <<r, n>>
Keys == Resources \X (0 .. MaxRuns)

TypeOK ==
    /\ state \in [Instances -> {"running", "stopped", "down"}]
    /\ resized \subseteq Resources
    /\ tracking \in [Keys -> {"none", "identified", "executed", "failed", "pending_approval"}]
    /\ cut \subseteq Resources
    /\ runs \in 0 .. MaxRuns
    /\ run \in [pc : {"idle", "gather", "store", "decide", "stop", "modify", "start",
                      "executed", "failed", "published", "report"},
                todo : Seq(Recommendations)]
    /\ report \in [identified : Nat, executed : Nat]

Init ==
    /\ state \in [Instances -> {"running", "stopped"}]
    /\ resized = {}
    /\ tracking = [k \in Keys |-> "none"]
    /\ cut = {}
    /\ run = [pc |-> "idle", todo |-> << >>]
    /\ runs = 0
    /\ report = [identified |-> 0, executed |-> 0]

--------------------------------------------------------------------------------
At(pc) == run.pc = pc
Goto(pc) == run' = [run EXCEPT !.pc = pc]
Rec == Head(run.todo)
Fleet == <<state, resized>>
Tracking == <<tracking, cut>>

\* lambda_handler is invoked.
Invoke ==
    /\ At("idle") /\ runs < MaxRuns
    /\ runs' = runs + 1
    /\ Goto("gather")
    /\ UNCHANGED <<Fleet, Tracking, report>>

\* Recommendations of the resources that save something, one after another.
Listed(resources, savings) ==
    {[n \in DOMAIN s |-> [resource |-> s[n], savings |-> savings[s[n]]]] :
        s \in SetToSeqs({r \in resources : savings[r] # "none"})}

\* get_ec2_recommendations: the largest savings first.
Ec2Recommendations(savings) ==
    {recs \in Listed(Instances, savings) :
        \A n \in 1 .. Len(recs) - 1 : recs[n].savings = "low" => recs[n + 1].savings = "low"}

\* get_rds_recommendations: memory_avg is always 50, so nothing is downsized and
\* current_cost is never set; the name of no class ends in g, so line 99 reads it.
RdsRecommendations == IF Databases = {} THEN {<< >>} ELSE {}

\* get_lambda_recommendations, in the order of list_functions; a function whose
\* recommendation cannot be had is passed over.
LambdaRecommendations(savings) == Listed(Functions, savings)

\* lambda_handler puts the three together.
Gather(savings) ==
    /\ At("gather")
    /\ \E ec2 \in Ec2Recommendations(savings), rds \in RdsRecommendations,
          fns \in LambdaRecommendations(savings) :
           run' = [pc |-> IF ec2 \o rds \o fns = << >> THEN "report" ELSE "store",
                   todo |-> ec2 \o rds \o fns]
    /\ UNCHANGED <<Fleet, Tracking, runs, report>>

\* _store_recommendation: the time is part of the key, so every run adds an item.
StoreRecommendation ==
    /\ At("store")
    /\ tracking' = [tracking EXCEPT ![Tracked(Rec.resource, runs)] = "identified"]
    /\ Goto("decide")
    /\ UNCHANGED <<Fleet, cut, runs, report>>

\* process_recommendations carries out what is of low risk and saves less than 100.
ProcessRecommendation ==
    /\ At("decide") /\ Rec.savings = "low"
    /\ Goto(IF Rec.resource \in Instances THEN "stop" ELSE "modify")
    /\ UNCHANGED <<Fleet, Tracking, runs, report>>

\* _request_approval publishes the others.
RequestApproval ==
    /\ At("decide") /\ Rec.savings = "high"
    /\ Goto("published")
    /\ UNCHANGED <<Fleet, Tracking, runs, report>>

\* _execute_recommendation: stop_instances, and the waiter that sees it stopped.
Stop ==
    /\ At("stop")
    /\ state' = [state EXCEPT ![Rec.resource] = IF @ = "running" THEN "down" ELSE @]
    /\ run' \in {[run EXCEPT !.pc = "modify"], [run EXCEPT !.pc = "failed"]}
    /\ UNCHANGED <<resized, Tracking, runs, report>>

\* modify_instance_attribute, or update_function_configuration.
Modify ==
    /\ At("modify")
    /\ resized' = resized \cup {Rec.resource}
    /\ Goto(IF Rec.resource \in Instances THEN "start" ELSE "executed")
    /\ UNCHANGED <<state, Tracking, runs, report>>

Start ==
    /\ At("start")
    /\ state' = [state EXCEPT ![Rec.resource] = "running"]
    /\ Goto("executed")
    /\ UNCHANGED <<resized, Tracking, runs, report>>

\* Fault: the failure of a call is logged and the tracking says executed.
CallFailsUnnoticed ==
    /\ run.pc \in {"stop", "modify", "start", "executed"}
    /\ Goto("executed")
    /\ UNCHANGED <<Fleet, Tracking, runs, report>>

\* A call fails, the update of the tracking after it included: except.
CallFails ==
    /\ run.pc \in {"stop", "modify", "start", "executed"}
    /\ Goto("failed")
    /\ UNCHANGED <<Fleet, Tracking, runs, report>>

StatusOf == [executed |-> "executed", failed |-> "failed", published |-> "pending_approval"]

\* _update_tracking: the key is without the time, so this is an item of its own.
UpdateTracking ==
    /\ run.pc \in DOMAIN StatusOf
    /\ tracking' = [tracking EXCEPT ![Tracked(Rec.resource, 0)] = StatusOf[run.pc]]
    /\ run' = [pc |-> IF Tail(run.todo) = << >> THEN "report" ELSE "store", todo |-> Tail(run.todo)]
    /\ UNCHANGED <<Fleet, cut, runs, report>>

\* generate_monthly_report scans for items with a created_at: those with a time in
\* their key, whose status nothing updates.
GenerateMonthlyReport ==
    /\ At("report")
    /\ LET items == {k \in Keys : k[2] # 0 /\ tracking[k] # "none"}
       IN  report' = [identified |-> Cardinality(items),
                      executed |-> Cardinality({k \in items : tracking[k] = "executed"})]
    /\ Goto("idle")
    /\ UNCHANGED <<Fleet, Tracking, runs>>

\* A failed call outside the try, line 99, or Lambda's time limit ends the run.
Abort ==
    /\ ~ At("idle")
    /\ run' = [pc |-> "idle", todo |-> << >>]
    /\ cut' = IF run.todo = << >> THEN cut ELSE cut \cup {Rec.resource}
    /\ UNCHANGED <<Fleet, tracking, runs, report>>

\* Operators start and stop the instances that no run is at.
Operate(i) ==
    /\ At("idle") /\ runs < MaxRuns
    /\ state' = [state EXCEPT ![i] = IF @ = "running" THEN "stopped" ELSE "running"]
    /\ UNCHANGED <<resized, Tracking, run, runs, report>>

Next ==
    \/ Invoke \/ StoreRecommendation \/ ProcessRecommendation \/ RequestApproval
    \/ Stop \/ Modify \/ Start \/ CallFails \/ UpdateTracking
    \/ GenerateMonthlyReport \/ Abort
    \/ \E i \in Instances : Operate(i)
    \/ \E savings \in [Resources -> Savings \cup {"none"}] : Gather(savings)

Spec == Init /\ [][Next]_vars

--------------------------------------------------------------------------------
\* What the tracking table says can be relied on, run after run: executed means that
\* the resource has the recommended configuration, and every status was stored as
\* identified before.  An instance that was stopped for a change and not started
\* again is never called executed and never without a status, unless a run was cut
\* off at it.
TrackingIsTrue ==
    \A r \in Resources :
        LET status == tracking[Tracked(r, 0)]
        IN  /\ status = "executed" => r \in resized
            /\ status # "none" => \E n \in 1 .. runs : tracking[Tracked(r, n)] = "identified"
            /\ At("idle") /\ r \in Instances \ cut /\ state[r] = "down"
                   => status \in {"failed", "pending_approval"}
================================================================================

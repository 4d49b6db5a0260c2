------------------------------- MODULE RemoteCalls -----------------------------
(* Five programs whose calls to other services fail: ApiClients, TaskPools,    *)
(* AccountFactory, Remediation and CostOptimizer.  They share nothing; "part"  *)
(* says which of them runs.  Programs and Calls are those of ApiClients.       *)
EXTENDS ApiClients, Sequences

CONSTANTS
    PoolPrograms, Tasks, Pool,                       \* TaskPools
    Creations, Emails, UnitNames, PageSize,          \* AccountFactory
    Events, Ports, Offices, MaxAttempts, MaxChanges, \* Remediation
    Instances, Functions, Databases, MaxRuns         \* CostOptimizer

\* A list of tasks is finite.
ASSUME PoolsAssumption == IsFiniteSet(Tasks)

\* The root of an organization is not one of the units below it.
ASSUME FactoryAssumption == "root" \notin UnitNames

\* Lambda invokes a function at least once.
ASSUME SecurityAssumption == MaxAttempts \in Nat \ {0} /\ MaxChanges \in Nat

\* An account has finitely many resources.
ASSUME OptimizerAssumption ==
    IsFiniteSet(Instances) /\ IsFiniteSet(Functions) /\ MaxRuns \in Nat

VARIABLES
    part,
    work, findings, tasks, tries, results, cancelled, late, closed, report, main, \* TaskPools
    accounts, units, requests,                                              \* AccountFactory
    ingress, blocked, active, invocations, exposed, changes, kept,          \* Remediation
    state, resized, tracking, cut, run, runs, monthly                       \* CostOptimizer

Pools == INSTANCE TaskPools WITH Programs <- PoolPrograms, program <- work
Factory == INSTANCE AccountFactory WITH Calls <- Creations, calls <- requests
Security == INSTANCE Remediation WITH runs <- invocations
Optimizer == INSTANCE CostOptimizer WITH report <- monthly

PoolVars == <<work, findings, tasks, tries, results, cancelled, late, closed, report, main>>
FactoryVars == <<accounts, units, requests>>
SecurityVars == <<ingress, blocked, active, invocations, exposed, changes, kept>>
OptimizerVars == <<state, resized, tracking, cut, run, runs, monthly>>

\* A part that does not run has one initial state.
AllInit ==
    /\ part \in {"clients", "pools", "factory", "security", "optimizer"}
    /\ Init
    /\ part # "clients" => program = CHOOSE p \in Programs : TRUE
    /\ Pools!Init
    /\ part # "pools" => work = CHOOSE p \in PoolPrograms \ {"remediation"} : TRUE
    /\ Factory!Init
    /\ part # "factory" =>
           /\ units = {}
           /\ \A c \in Creations : /\ requests[c].email = CHOOSE e \in Emails : TRUE
                                   /\ requests[c].unit = CHOOSE u \in UnitNames : TRUE
    /\ Security!Init
    /\ part # "security" =>
           /\ \A p \in Ports : ingress[p] = {}
           /\ \A e \in Events : invocations[e].route = "nothing"
    /\ Optimizer!Init
    /\ part # "optimizer" => \A i \in Instances : state[i] = "running"

AllNext ==
    /\ UNCHANGED part
    /\ \/ /\ part = "clients" /\ Next
          /\ UNCHANGED PoolVars /\ UNCHANGED FactoryVars
          /\ UNCHANGED SecurityVars /\ UNCHANGED OptimizerVars
       \/ /\ part = "pools" /\ Pools!Next
          /\ UNCHANGED vars /\ UNCHANGED FactoryVars
          /\ UNCHANGED SecurityVars /\ UNCHANGED OptimizerVars
       \/ /\ part = "factory" /\ Factory!Next
          /\ UNCHANGED vars /\ UNCHANGED PoolVars
          /\ UNCHANGED SecurityVars /\ UNCHANGED OptimizerVars
       \/ /\ part = "security" /\ Security!Next
          /\ UNCHANGED vars /\ UNCHANGED PoolVars
          /\ UNCHANGED FactoryVars /\ UNCHANGED OptimizerVars
       \/ /\ part = "optimizer" /\ Optimizer!Next
          /\ UNCHANGED vars /\ UNCHANGED PoolVars
          /\ UNCHANGED FactoryVars /\ UNCHANGED SecurityVars

AllVars == <<part, vars, PoolVars, FactoryVars, SecurityVars, OptimizerVars>>
AllSpec == AllInit /\ [][AllNext]_AllVars

\* The clients' and the pools' fairness; a client that does not run has no step.
FairAll == AllSpec /\ Fairness /\ WF_PoolVars(part = "pools" /\ Pools!Step)

--------------------------------------------------------------------------------
\* The variables of the five programs have their types.
TypesOK ==
    TypeOK /\ Pools!TypeOK /\ Factory!TypeOK /\ Security!TypeOK /\ Optimizer!TypeOK

\* What a program that works on tasks at once reports adds up.
ReportAddsUp == Pools!ReportAddsUp

\* Accounts are moved and recorded before anyone has power over them.
AccountsAreGoverned == Factory!AccountsAreGoverned

\* A finding that was answered is closed, and only open ports lose anything.
AnsweredIsClosed == Security!AnsweredIsClosed

\* What the optimizer says of a resource in its tracking table is so.
TrackingIsTrue == Optimizer!TrackingIsTrue

\* Every call of a client ends, and every program that works on tasks reports.
EverythingEnds == EveryCallEnds /\ <>(part = "pools" => main # "collecting")
================================================================================

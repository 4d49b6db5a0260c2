------------------------------ MODULE Remediation ------------------------------
(* 03-multi-account/problem-2/security_automation.py: a Lambda function that    *)
(* answers a Security Hub finding by closing a bucket, removing open rules of a *)
(* security group, or deactivating an access key.  Lambda invokes it again when *)
(* it fails; several invocations and the administrators work on one account.    *)
EXTENDS Naturals, FiniteSets

CONSTANTS
    Events,       \* events with findings
    Ports,        \* rules of the security group: one per port
    Offices,      \* address ranges that are not 0.0.0.0/0
    MaxAttempts,  \* times Lambda invokes the function for one event
    MaxChanges    \* bound: changes by administrators

VARIABLES
    ingress,      \* port |-> address ranges its rule lets in: no range, no rule
    blocked,      \* the bucket blocks public access
    active,       \* the access key is active
    runs,         \* event |-> its finding and the invocation for it
    exposed,      \* ports that were open at some time
    changes,      \* changes by administrators
    kept          \* port |-> office ranges administrators want there

vars == <<ingress, blocked, active, runs, exposed, changes, kept>>

World == "0.0.0.0/0"
Ranges == Offices \cup {World}

\* What lambda_handler makes of the type and the resource of the first finding;
\* the further findings of an event are not looked at.
Routes == {"remediate_public_s3", "remediate_security_group", "remediate_iam_issue", "nothing"}

TypeOK ==
    /\ ingress \in [Ports -> SUBSET Ranges]
    /\ blocked \in BOOLEAN /\ active \in BOOLEAN
    /\ runs \in [Events -> [pc : {"invoked", "assumed", "revoke", "answered", "failed", "dropped"},
                            route : Routes, attempt : 1 .. MaxAttempts,
                            rules : [Ports -> SUBSET Ranges]]]
    /\ exposed \subseteq Ports
    /\ changes \in 0 .. MaxChanges
    /\ kept \in [Ports -> SUBSET Offices]

NoRules == [p \in Ports |-> {}]

Init ==
    /\ ingress \in [Ports -> SUBSET Ranges]
    /\ blocked = FALSE /\ active = TRUE
    /\ runs \in [Events -> [pc : {"invoked"}, route : Routes, attempt : {1}, rules : {NoRules}]]
    /\ exposed = {p \in Ports : World \in ingress[p]}
    /\ changes = 0
    /\ kept = [p \in Ports |-> ingress[p] \cap Offices]

--------------------------------------------------------------------------------
At(e, pc) == runs[e].pc = pc
Goto(e, pc) == runs' = [runs EXCEPT ![e].pc = pc]
Account == <<ingress, blocked, active>>
Administration == <<exposed, changes, kept>>

\* lambda_handler finds nothing to do; or the role of the account is assumed.
Route(e) ==
    /\ At(e, "invoked")
    /\ Goto(e, IF runs[e].route = "nothing" THEN "answered" ELSE "assumed")
    /\ UNCHANGED <<Account, Administration>>

RemediatePublicS3(e) ==
    /\ At(e, "assumed") /\ runs[e].route = "remediate_public_s3"
    /\ blocked' = TRUE
    /\ Goto(e, "answered")
    /\ UNCHANGED <<ingress, active, Administration>>

\* Only a resource that is an access key is changed.
RemediateIamIssue(e) ==
    /\ At(e, "assumed") /\ runs[e].route = "remediate_iam_issue"
    /\ active' \in {active, FALSE}
    /\ Goto(e, "answered")
    /\ UNCHANGED <<ingress, blocked, Administration>>

\* The rules of an answer of describe_security_groups that the loop still has to revoke.
Open(rules) == {p \in Ports : World \in rules[p]}

\* remediate_security_group reads the rules.
DescribeSecurityGroup(e) ==
    /\ At(e, "assumed") /\ runs[e].route = "remediate_security_group"
    /\ runs' = [runs EXCEPT ![e].rules = ingress,
                            ![e].pc = IF Open(ingress) = {} THEN "answered" ELSE "revoke"]
    /\ UNCHANGED <<Account, Administration>>

\* Fault: the loop stops after the first rule that it revokes.
RevokeFirst(e, p) ==
    /\ At(e, "revoke") /\ p \in Open(runs[e].rules)
    /\ ingress' = [ingress EXCEPT ![p] = @ \ runs[e].rules[p]]
    /\ runs' = [runs EXCEPT ![e].rules[p] = {}, ![e].pc = "answered"]
    /\ UNCHANGED <<blocked, active, Administration>>

\* It revokes a rule as it was read, with the ranges beside 0.0.0.0/0.  Ranges that
\* are gone by now are ignored, or make the call fail.
Revoke(e, p) ==
    /\ At(e, "revoke") /\ p \in Open(runs[e].rules)
    /\ ingress' = [ingress EXCEPT ![p] = @ \ runs[e].rules[p]]
    /\ runs' = [runs EXCEPT ![e].rules[p] = {},
                            ![e].pc = IF Open(runs[e].rules) = {p} THEN "answered" ELSE @]
    /\ UNCHANGED <<blocked, active, Administration>>

\* A call fails, or the invocation times out.
Fail(e) ==
    /\ runs[e].pc \in {"invoked", "assumed", "revoke"}
    /\ Goto(e, "failed")
    /\ UNCHANGED <<Account, Administration>>

\* Lambda invokes the function again from its start, a few times.
InvokeAgain(e) ==
    /\ At(e, "failed")
    /\ runs' = IF runs[e].attempt < MaxAttempts
               THEN [runs EXCEPT ![e].pc = "invoked", ![e].attempt = @ + 1, ![e].rules = NoRules]
               ELSE [runs EXCEPT ![e].pc = "dropped"]
    /\ UNCHANGED <<Account, Administration>>

\* Administrators let a range in at a port, or close it.
Administer(p, r) ==
    /\ changes < MaxChanges /\ changes' = changes + 1
    /\ ingress' = [ingress EXCEPT ![p] = IF r \in @ THEN @ \ {r} ELSE @ \cup {r}]
    /\ exposed' = IF World \in ingress'[p] THEN exposed \cup {p} ELSE exposed
    /\ kept' = [kept EXCEPT ![p] = IF r \in ingress'[p] THEN @ \cup ({r} \cap Offices) ELSE @ \ {r}]
    /\ UNCHANGED <<blocked, active, runs>>

Next ==
    \/ \E e \in Events :
           \/ Route(e) \/ RemediatePublicS3(e) \/ RemediateIamIssue(e)
           \/ DescribeSecurityGroup(e) \/ Fail(e) \/ InvokeAgain(e)
           \/ \E p \in Ports : Revoke(e, p)
    \/ \E p \in Ports, r \in Ranges : Administer(p, r)

Spec == Init /\ [][Next]_vars

--------------------------------------------------------------------------------
\* 200 means done, however often Lambda had to invoke the function and whatever an
\* earlier attempt left behind: with nobody opening the group meanwhile, no port of
\* it is open, and the bucket is closed.  The work has a price, paid only at ports
\* that were open: elsewhere every range the administrators want is still let in.
AnsweredIsClosed ==
    /\ \A e \in Events : At(e, "answered") =>
           /\ runs[e].route = "remediate_public_s3" => blocked
           /\ runs[e].route = "remediate_security_group" /\ changes = 0 => Open(ingress) = {}
    /\ \A p \in Ports \ exposed : ingress[p] = kept[p]
================================================================================

----------------------------- MODULE AccountFactory ----------------------------
(* 03-multi-account/problem-1/account_factory.py: create_account requests an   *)
(* account, waits for it, moves it to its organizational unit and sets up a    *)
(* baseline, one API call after another.  Any call may fail and nothing is     *)
(* undone; several operators run the script at once, also for one e-mail.      *)
EXTENDS Naturals, Sequences, FiniteSets, FiniteSetsExt, SequencesExt

CONSTANTS
    Calls,       \* calls of create_account
    Emails,      \* e-mail addresses of accounts: AWS takes each of them once
    UnitNames,   \* names of organizational units
    PageSize     \* units in the one page of list_organizational_units_for_parent

VARIABLES
    accounts,    \* e-mail |-> the account, or None
    units,       \* names of the units below the root
    calls        \* call |-> its arguments and how far it is

vars == <<accounts, units, calls>>

EnableCloudtrail == <<"create_trail", "start_logging">>
EnableConfig == <<"put_configuration_recorder", "put_delivery_channel",
                  "start_configuration_recorder">>
EnableGuardduty == <<"create_detector", "accept_invitation">>
SetupVpc == <<"create_vpc", "create_subnet", "create_transit_gateway_vpc_attachment">>
CreateCrossAccountRoles == <<"create_role", "attach_role_policy">>

\* Fault: developers get their role before anything records what they do.
BaselineRolesFirst == <<"assume_role">> \o CreateCrossAccountRoles
    \o EnableCloudtrail \o EnableConfig \o EnableGuardduty \o SetupVpc

\* setup_account_baseline: the calls it makes, in this order.
Baseline == <<"assume_role">> \o EnableCloudtrail \o EnableConfig \o EnableGuardduty
                \o SetupVpc \o CreateCrossAccountRoles

None == [none |-> TRUE]
Accounts == [by : Calls, unit : UnitNames \cup {"root"}, done : SUBSET ToSet(Baseline)]

TypeOK ==
    /\ accounts \in [Emails -> Accounts \cup {None}]
    /\ units \subseteq UnitNames
    /\ calls \in [Calls -> [pc : {"request", "wait", "list", "create", "move", "baseline",
                                  "returned", "raised"},
                            email : Emails, unit : UnitNames, next : 1 .. Len(Baseline) + 1]]

Init ==
    /\ accounts = [e \in Emails |-> None]
    /\ units \in SUBSET UnitNames
    /\ calls \in [Calls -> [pc : {"request"}, email : Emails, unit : UnitNames, next : {1}]]

--------------------------------------------------------------------------------
At(c, pc) == calls[c].pc = pc
Goto(c, pc) == calls' = [calls EXCEPT ![c].pc = pc]

\* The account of c's e-mail is changed.
SetAccount(c, account) == accounts' = [accounts EXCEPT ![calls[c].email] = account]

\* Organizations takes the request, and creates the account if the e-mail is new.
Request(c) ==
    /\ At(c, "request")
    /\ Goto(c, "wait")
    /\ IF accounts[calls[c].email] = None
       THEN SetAccount(c, [by |-> c, unit |-> "root", done |-> {}])
       ELSE UNCHANGED accounts
    /\ UNCHANGED units

\* The status of a request that succeeded has an AccountId.
Created(c) ==
    /\ At(c, "wait")
    /\ accounts[calls[c].email].by = c
    /\ Goto(c, "list")
    /\ UNCHANGED <<accounts, units>>

\* move_to_ou looks for the unit in one page of the root's units.
ListUnits(c, page) ==
    /\ At(c, "list")
    /\ page \subseteq units
    /\ Cardinality(page) = Min({PageSize, Cardinality(units)})
    /\ Goto(c, IF calls[c].unit \in page THEN "move" ELSE "create")
    /\ UNCHANGED <<accounts, units>>

\* Two units of one parent cannot have one name.
CreateUnit(c) ==
    /\ At(c, "create")
    /\ calls[c].unit \notin units
    /\ units' = units \cup {calls[c].unit}
    /\ Goto(c, "move")
    /\ UNCHANGED accounts

MoveAccount(c) ==
    /\ At(c, "move")
    /\ SetAccount(c, [accounts[calls[c].email] EXCEPT !.unit = calls[c].unit])
    /\ Goto(c, "baseline")
    /\ UNCHANGED units

\* The next call of the baseline; create_account returns after the last one.
SetUp(c) ==
    /\ At(c, "baseline")
    /\ SetAccount(c, [accounts[calls[c].email] EXCEPT !.done = @ \cup {Baseline[calls[c].next]}])
    /\ calls' = [calls EXCEPT ![c].next = @ + 1,
                              ![c].pc = IF calls[c].next = Len(Baseline) THEN "returned" ELSE @]
    /\ UNCHANGED units

\* A call fails: the exception ends create_account and what was made stays.  This
\* stands too for a status without AccountId, and for the waiter of line 34, which
\* boto3 has only if someone adds its model.
Raise(c) ==
    /\ calls[c].pc \notin {"returned", "raised"}
    /\ Goto(c, "raised")
    /\ UNCHANGED <<accounts, units>>

Next ==
    \E c \in Calls :
        \/ Request(c) \/ Created(c) \/ CreateUnit(c) \/ MoveAccount(c) \/ SetUp(c) \/ Raise(c)
        \/ \E page \in SUBSET units : ListUnits(c, page)

Spec == Init /\ [][Next]_vars

--------------------------------------------------------------------------------
\* An account id is returned to one caller only, for an account in the unit asked
\* for with its whole baseline.  However the calls of others interleave and
\* whatever failed, no account has anything of the baseline outside a unit, whose
\* policies would not hold for it, and developers have power over none whose
\* trail, configuration and threat detection are not running.
AccountsAreGoverned ==
    /\ \A c \in Calls : At(c, "returned") =>
           accounts[calls[c].email] = [by |-> c, unit |-> calls[c].unit, done |-> ToSet(Baseline)]
    /\ \A e \in Emails : accounts[e] # None =>
           /\ accounts[e].done # {} => accounts[e].unit # "root"
           /\ "attach_role_policy" \in accounts[e].done =>
                  {"start_logging", "start_configuration_recorder", "accept_invitation"}
                      \subseteq accounts[e].done
================================================================================

-------------------------------- MODULE Banking --------------------------------
(* The command handlers of 02-cqrs-saga/problem-2/banking_commands.py over   *)
(* the table banking-events.  Each attempt at a command is a process: it     *)
(* looks for a duplicate, loads the account(s), and stores its event(s), one *)
(* call to a table per step.  Clients retry a command, with its idempotency  *)
(* key, whenever they want; attempts run concurrently and may die between    *)
(* any two steps.                                                            *)
(*                                                                           *)
(* create_snapshot hands a float to the DynamoDB resource, which accepts     *)
(* only Decimal and raises TypeError: no snapshot is ever stored, and        *)
(* load_account_state always starts from version 1.                          *)
EXTENDS VersionedItems, Integers, Sequences, FiniteSetsExt

CONSTANTS
    Accounts,       \* account identifiers
    Opening,        \* account |-> the history it starts with
    ScanOrder,      \* the accounts in the order a table scan meets them
    Workloads,      \* sets of commands, each with its own key: clients send one set
    MaxAttempts,    \* bound: attempts at one command
    SnapshotEvery   \* a deposit with such a version takes a snapshot (100)

VARIABLES
    events,     \* account |-> (version |-> event): the table banking-events
    attempts    \* <<command, i>> |-> the state of the i-th attempt at it

vars == <<events, attempts>>

Attempts == DOMAIN attempts
Commands == {t[1] : t \in Attempts}
Idle == [pc |-> "new", base |-> 0, toBase |-> 0]

Deposited(n, key) == [type |-> "MoneyDeposited", amount |-> n, key |-> key]
Withdrawn(n, key) == [type |-> "MoneyWithdrawn", amount |-> n, key |-> key]
Opened == [type |-> "AccountOpened", amount |-> 0, key |-> << >>]
Closed == [type |-> "AccountClosed", amount |-> 0, key |-> << >>]

\* The idempotency key of a command, and those its transfer legs are stored with.
Key(c) == <<c.id>>
WithdrawKey(c) == <<c.id, "withdraw">>
DepositKey(c) == <<c.id, "deposit">>

\* Commands have keys of their own.
ASSUME WorkloadsAssumption ==
    /\ \A cs \in Workloads : \A c \in cs :
           /\ c.kind \in {"deposit", "withdraw", "transfer"}
           /\ c.account \in Accounts /\ c.to \in Accounts
           /\ \A d \in cs : c.id = d.id => c = d
    /\ ScanOrder \in Seq(Accounts) /\ MaxAttempts \in Nat

PCs == {"new", "load", "put", "snapshot", "loadTo", "putFrom", "putTo",
        "stored", "failed"}

\* The versions of an account have no gap: each put uses a version read plus 1.
NoGaps(versions) == \A v \in versions : v > 1 => v - 1 \in versions

TypeOK ==
    /\ \A a \in Accounts : NoGaps(DOMAIN events[a]) /\ 0 \notin DOMAIN events[a]
    /\ \A t \in Attempts : attempts[t] \in [pc : PCs, base : Nat, toBase : Nat]

Init ==
    /\ events = Opening
    /\ attempts \in {[t \in cs \X (1 .. MaxAttempts) |-> Idle] : cs \in Workloads}

--------------------------------------------------------------------------------
\* apply_event on the balance, over a whole history.
Balance(history) ==
    MapThenSumSet(LAMBDA v : IF history[v].type = "MoneyDeposited" THEN history[v].amount
                             ELSE IF history[v].type = "MoneyWithdrawn" THEN - history[v].amount
                             ELSE 0,
                  DOMAIN history)

\* apply_event on the status: the last opening or closing wins.
IsClosed(history) ==
    \E v \in DOMAIN history :
        /\ history[v] = Closed
        /\ \A u \in DOMAIN history : u > v => history[u] # Opened

\* Accounts start with a history without gaps, with keys of its own, and with nothing
\* deposited after a closing.
ASSUME OpeningAssumption ==
    /\ DOMAIN Opening = Accounts
    /\ \A a \in Accounts :
           /\ CurrentVersion(Opening[a]) \in Nat
           /\ DOMAIN Opening[a] = 1 .. CurrentVersion(Opening[a])
           /\ \A v \in DOMAIN Opening[a] :
                  /\ Opening[a][v].type = "MoneyDeposited" => ~ IsClosed(View(Opening[a], v))
                  /\ \A cs \in Workloads : \A c \in cs :
                         Opening[a][v].key \notin {Key(c), WithdrawKey(c), DepositKey(c)}

\* is_duplicate, on what a replica has seen: scan with Limit=1 reads ONE item of
\* the table and only then applies the filter, so only the very first item of
\* the table can be recognised.
IsDuplicate(key, k) ==
    \E i \in DOMAIN ScanOrder :
        LET seen(j) == View(events[ScanOrder[j]], k) IN
        /\ DOMAIN seen(i) # {}
        /\ \A j \in 1 .. (i - 1) : DOMAIN seen(j) = {}
        /\ seen(i)[1].key = key

Goto(t, pc) == attempts' = [attempts EXCEPT ![t].pc = pc]

\* The duplicate check of the three handlers; a duplicate is answered as such.
CheckDuplicate(t, k) ==
    /\ attempts[t].pc = "new"
    /\ Goto(t, IF IsDuplicate(Key(t[1]), k) THEN "stored" ELSE "load")
    /\ UNCHANGED events

--------------------------------------------------------------------------------
\* handle_deposit up to the put, on what the replica has seen of the account.
LoadForDeposit(t, k) ==
    /\ attempts[t].pc = "load"
    /\ t[1].kind = "deposit"
    /\ LET seen == View(events[t[1].account], k) IN
       attempts' = [attempts EXCEPT ![t] =
           IF IsClosed(seen) THEN [@ EXCEPT !.pc = "failed"]
           ELSE [@ EXCEPT !.pc = "put", !.base = CurrentVersion(seen)]]
    /\ UNCHANGED events

\* Fault: the balance check is dropped.
LoadForWithdrawUnchecked(t, k) ==
    /\ attempts[t].pc = "load"
    /\ t[1].kind = "withdraw"
    /\ LET seen == View(events[t[1].account], k) IN
       attempts' = [attempts EXCEPT ![t] =
           [@ EXCEPT !.pc = "put", !.base = CurrentVersion(seen)]]
    /\ UNCHANGED events

\* handle_withdraw up to the put: the balance must suffice.
LoadForWithdraw(t, k) ==
    /\ attempts[t].pc = "load"
    /\ t[1].kind = "withdraw"
    /\ LET seen == View(events[t[1].account], k) IN
       attempts' = [attempts EXCEPT ![t] =
           IF Balance(seen) < t[1].amount THEN [@ EXCEPT !.pc = "failed"]
           ELSE [@ EXCEPT !.pc = "put", !.base = CurrentVersion(seen)]]
    /\ UNCHANGED events

EventOf(c) == IF c.kind = "deposit" THEN Deposited(c.amount, Key(c))
              ELSE Withdrawn(c.amount, Key(c))

\* Fault: the ConditionExpression is dropped.
KeyUnchecked(a, v) == TRUE

\* put_item's condition: no item has this account and version.
KeyIsFree(a, v) == v \notin DOMAIN events[a]

\* The conditional put of a deposit or a withdrawal.  A deposit whose version
\* is a multiple of SnapshotEvery goes on to take a snapshot.
PutConditionally(t) ==
    LET a == t[1].account
        v == attempts[t].base + 1
    IN  /\ attempts[t].pc = "put"
        /\ KeyIsFree(a, v)
        /\ events' = [events EXCEPT ![a] = WithItem(@, v, EventOf(t[1]))]
        /\ Goto(t, IF t[1].kind = "deposit" /\ v % SnapshotEvery = 0
                   THEN "snapshot" ELSE "stored")

\* ConditionalCheckFailedException becomes ValueError('Concurrency conflict').
Conflict(t) ==
    /\ attempts[t].pc = "put"
    /\ ~ KeyIsFree(t[1].account, attempts[t].base + 1)
    /\ Goto(t, "failed")
    /\ UNCHANGED events

\* create_snapshot raises TypeError on the float: the handler fails although
\* its event is stored.
SnapshotFails(t) ==
    /\ attempts[t].pc = "snapshot"
    /\ Goto(t, "failed")
    /\ UNCHANGED events

--------------------------------------------------------------------------------
\* handle_transfer: the versions of both accounts are read one after the other;
\* neither the balance nor the status is looked at.
LoadSource(t, k) ==
    /\ attempts[t].pc = "load"
    /\ t[1].kind = "transfer"
    /\ attempts' = [attempts EXCEPT ![t].pc = "loadTo",
                    ![t].base = CurrentVersion(View(events[t[1].account], k))]
    /\ UNCHANGED events

LoadTarget(t, k) ==
    /\ attempts[t].pc = "loadTo"
    /\ attempts' = [attempts EXCEPT ![t].pc = "putFrom",
                    ![t].toBase = CurrentVersion(View(events[t[1].to], k))]
    /\ UNCHANGED events

\* Fault: the handler goes on when the first put has failed.
PutWithdrawalLost(t) ==
    /\ attempts[t].pc = "putFrom"
    /\ UNCHANGED events
    /\ Goto(t, "putTo")

\* Two puts without any condition, one after the other.
PutWithdrawal(t) ==
    /\ attempts[t].pc = "putFrom"
    /\ events' = [events EXCEPT ![t[1].account] =
           WithItem(@, attempts[t].base + 1, Withdrawn(t[1].amount, WithdrawKey(t[1])))]
    /\ Goto(t, "putTo")

PutDeposit(t) ==
    /\ attempts[t].pc = "putTo"
    /\ events' = [events EXCEPT ![t[1].to] =
           WithItem(@, attempts[t].toBase + 1, Deposited(t[1].amount, DepositKey(t[1])))]
    /\ Goto(t, "stored")

--------------------------------------------------------------------------------
\* The process dies or a call fails: the client sees an error.
Die(t) ==
    /\ attempts[t].pc \notin {"new", "stored", "failed"}
    /\ Goto(t, "failed")
    /\ UNCHANGED events

\* How far a replica of either account may have got.
Staleness == UNION {{0} \cup DOMAIN events[a] : a \in Accounts}

Next ==
    \E t \in Attempts :
        \/ \E k \in Staleness :
               \/ CheckDuplicate(t, k)
               \/ LoadForDeposit(t, k)
               \/ LoadForWithdraw(t, k)
               \/ LoadSource(t, k)
               \/ LoadTarget(t, k)
        \/ PutConditionally(t)
        \/ Conflict(t)
        \/ SnapshotFails(t)
        \/ PutWithdrawal(t)
        \/ PutDeposit(t)
        \/ Die(t)

Spec == Init /\ [][Next]_vars

--------------------------------------------------------------------------------
\* The accounts no transfer of the workload touches.
Untransferred ==
    {a \in Accounts : \A c \in Commands : c.kind = "transfer" => a \notin {c.account, c.to}}

\* A withdrawal is decided on a stale balance and stored later, yet no history
\* ever shows a negative balance at any of its versions, away from transfers.
BalanceNeverNegative ==
    \A a \in Untransferred : \A v \in DOMAIN events[a] :
        Balance(View(events[a], v)) >= 0

\* Nothing is deposited into an account after it was closed (handle_deposit checks a
\* status that may be stale), away from transfers, which look at no status.
NoDepositAfterClosing ==
    \A a \in Untransferred : \A v \in DOMAIN events[a] :
        events[a][v].type = "MoneyDeposited" => ~ IsClosed(View(events[a], v))

\* No step removes an event, and none but the puts of a transfer, which have no
\* condition, replaces one (the immutable event log of the README): a deposit or a
\* withdrawal never does, whoever else writes to the account.
AppendOnly ==
    [][\A a \in Accounts : \A v \in DOMAIN events[a] :
           /\ v \in DOMAIN events'[a]
           /\ \/ events'[a][v] = events[a][v]
              \/ \E t \in Attempts : (a = t[1].account /\ PutWithdrawal(t))
                                    \/ (a = t[1].to /\ PutDeposit(t))]_vars

\* When no attempt is running, a transfer has both events or none ("Store both
\* events atomically").
Stored(a, key) == \E v \in DOMAIN events[a] : events[a][v].key = key
Over == \A t \in Attempts : attempts[t].pc \in {"new", "stored", "failed"}
TransfersAreAtomic ==
    Over => \A c \in Commands : c.kind = "transfer" =>
        (Stored(c.account, WithdrawKey(c)) <=> Stored(c.to, DepositKey(c)))

\* The commands whose source no other command touches, nor their own deposit: the
\* deposit of a transfer to the account itself replaces its withdrawal.
SoleAtSource ==
    {c \in Commands : /\ c.account # c.to
                      /\ \A d \in Commands \ {c} : c.account \notin {d.account, d.to}}

\* A transfer that dies half way loses money but never makes any: its deposit is
\* stored only once its withdrawal is.
DebitComesFirst ==
    \A c \in SoleAtSource :
        c.kind = "transfer" /\ Stored(c.to, DepositKey(c)) => Stored(c.account, WithdrawKey(c))

\* A client that was answered that its deposit or withdrawal is stored, or is a
\* duplicate, finds it in the history: no concurrent attempt displaces it.
AcknowledgedIsStored ==
    \A t \in Attempts :
        /\ attempts[t].pc = "stored"
        /\ t[1].kind # "transfer"
        /\ t[1].account \in Untransferred
        => Stored(t[1].account, Key(t[1]))

\* Accounts obey the rules of the bank at every version of their histories.
HistoriesAreLegal == BalanceNeverNegative /\ NoDepositAfterClosing

\* Neither a deposit nor a withdrawal that a client knows of, nor the debit behind a
\* credit, is ever missing.
NothingIsLost == AcknowledgedIsStored /\ DebitComesFirst
================================================================================

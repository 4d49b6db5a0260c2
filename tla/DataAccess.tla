------------------------------- MODULE DataAccess ------------------------------
(* The invoices of SaaSDataAccess in databases/02-dynamodb-advanced/problem-1/ *)
(* data_access.py: one organization's partition of a DynamoDB table.  TTL      *)
(* removes invoices some time after they expire, which is modelled as any time *)
(* later; and a client lists them page by page, with eventually consistent     *)
(* queries, while others write.                                                *)
EXTENDS Naturals, FiniteSets, FiniteSetsExt

CONSTANTS
    InvoiceKeys,     \* sort keys of invoices: numbers, as queries return them in order
    Statuses,        \* statuses of an invoice
    PageLimit,       \* limit of list_org_invoices
    MaxWrites        \* bound: writes by clients

VARIABLES
    invoices,   \* sort key |-> the current item, or None
    older,      \* sort key |-> what a query may return in its place
    used,       \* sort keys that were ever written
    writes,
    listing     \* the client of list_org_invoices

vars == <<invoices, older, used, writes, listing>>

None == [none |-> TRUE]
AnyStatus == "any"

\* One put in a batch may have no status, which is a status of its own here, or no TTL.
Items == [status : Statuses, ttl : BOOLEAN]

TypeOK ==
    /\ invoices \in [InvoiceKeys -> Items \cup {None}]
    /\ older \in [InvoiceKeys -> SUBSET (Items \cup {None})]
    /\ used \subseteq InvoiceKeys
    /\ writes \in 0 .. MaxWrites
    /\ listing \in [pc : {"idle", "page", "done"}, status : Statuses \cup {AnyStatus},
                    last : Nat, got : [InvoiceKeys -> Nat], steady : SUBSET InvoiceKeys]

Init ==
    /\ invoices = [i \in InvoiceKeys |-> None]
    /\ older = [i \in InvoiceKeys |-> {}]
    /\ used = {}
    /\ writes = 0
    /\ listing \in [pc : {"idle"}, status : Statuses \cup {AnyStatus}, last : {0},
                    got : {[i \in InvoiceKeys |-> 0]}, steady : {{}}]

--------------------------------------------------------------------------------
Write == writes < MaxWrites /\ writes' = writes + 1

\* The filter lets an item pass; a listing without a status has no filter.
Passes(x) == x # None /\ (listing.status = AnyStatus \/ x.status = listing.status)

\* An invoice is steady as long as no state of it fails the filter.
PutInvoice(i, item) ==
    /\ invoices' = [invoices EXCEPT ![i] = item]
    /\ older' = [older EXCEPT ![i] = @ \cup {invoices[i]}]
    /\ used' = used \cup {i}
    /\ listing' = [listing EXCEPT !.steady = IF Passes(item) THEN @ ELSE @ \ {i}]

\* A put with a fresh uuid.
CreateInvoice(i) ==
    /\ Write
    /\ i \notin used
    /\ PutInvoice(i, [status |-> "pending", ttl |-> TRUE])

\* update_item has no condition: an invoice that is gone, or never was, is there
\* afterwards, without a TTL.
UpdateInvoiceStatus(i, s) ==
    /\ Write
    /\ PutInvoice(i, IF invoices[i] = None THEN [status |-> s, ttl |-> FALSE]
                     ELSE [invoices[i] EXCEPT !.status = s])

\* batch_write_items puts whole items, one by one, whatever is there.
BatchWriteItem(i, item) ==
    /\ Write
    /\ PutInvoice(i, item)

\* Some time after its TTL the table drops the item.
Expire(i) ==
    /\ invoices[i] # None /\ invoices[i].ttl
    /\ PutInvoice(i, None)
    /\ UNCHANGED writes

\* From now on every query sees the current item.
Settle(i) ==
    /\ older[i] # {}
    /\ older' = [older EXCEPT ![i] = {}]
    /\ UNCHANGED <<invoices, used, writes, listing>>

--------------------------------------------------------------------------------
\* What a query may see under a key.
Visible(i) == {invoices[i]} \cup older[i]
Views == {v \in [InvoiceKeys -> UNION {Visible(i) : i \in InvoiceKeys}] :
              \A i \in InvoiceKeys : v[i] \in Visible(i)}

\* The smallest n members of a set of numbers: a page of a query.
FirstOf(n, S) == {x \in S : Cardinality({y \in S : y < x}) < n}

BeginListing ==
    /\ listing.pc = "idle"
    /\ listing' = [listing EXCEPT
           !.pc = "page",
           !.steady = {i \in InvoiceKeys : \A x \in Visible(i) : Passes(x)}]
    /\ UNCHANGED <<invoices, older, used, writes>>

\* Fault: ExclusiveStartKey is the number of items, not the last key.
PageReadFromCount(last, v) == FirstOf(PageLimit, {i \in InvoiceKeys : v[i] # None /\ i >= last})

\* The items read for one page: Limit counts them before the filter is applied.
PageRead(last, v) == FirstOf(PageLimit, {i \in InvoiceKeys : v[i] # None /\ i > last})

\* list_org_invoices once: the page's matching items, and LastEvaluatedKey if
\* the limit was reached.  The client goes on until there is none.
ListOrgInvoices(v) ==
    /\ listing.pc = "page"
    /\ LET read == PageRead(listing.last, v) IN
       listing' = [listing EXCEPT
           !.pc = IF Cardinality(read) = PageLimit THEN "page" ELSE "done",
           !.last = IF read = {} THEN @ ELSE Max(read),
           !.got = [i \in InvoiceKeys |-> IF i \in read /\ Passes(v[i]) THEN @[i] + 1 ELSE @[i]]]
    /\ UNCHANGED <<invoices, older, used, writes>>

Next ==
    \/ \E i \in InvoiceKeys :
           \/ CreateInvoice(i) \/ Expire(i) \/ Settle(i)
           \/ \E s \in Statuses : UpdateInvoiceStatus(i, s)
           \/ \E item \in Items : BatchWriteItem(i, item)
    \/ BeginListing \/ \E v \in Views : ListOrgInvoices(v)

Spec == Init /\ [][Next]_vars

--------------------------------------------------------------------------------
\* Following last_key lists every invoice that passed the filter, in all that a query
\* could see of it, from the first page to the last exactly once, and none twice,
\* whatever is created, paid, replaced or expires before, behind and under the cursor.
ListingIsComplete ==
    /\ \A i \in InvoiceKeys : listing.got[i] <= 1
    /\ listing.pc = "done" => \A i \in listing.steady : listing.got[i] = 1
================================================================================

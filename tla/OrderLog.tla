------------------------------- MODULE OrderLog --------------------------------
(* What the write side of the order system promises: one append-only log of  *)
(* events per order, each step appending one event that is legal for the     *)
(* WHOLE log at that moment, however stale the reads and however concurrent  *)
(* the invocations that produced it.  OrderCommands implements it.           *)
EXTENDS OrderEvents, Sequences

VARIABLE log    \* order |-> the sequence of its events

TypeOK == log \in [Orders -> Seq(Events)]

Init == log = [o \in Orders |-> << >>]

\* An order a client can name: one that exists, or an identifier never issued.
Named(o) == o \in Ghosts \/ log[o] # << >>

AppendEvent(o, e) == log' = [log EXCEPT ![o] = Append(@, e)]

CreateOrder(o) ==
    /\ o \notin Ghosts
    /\ log[o] = << >>
    /\ AppendEvent(o, Created)

\* Neither the status nor the existence of the order is checked.
AddItem(o, p) ==
    /\ Named(o)
    /\ AppendEvent(o, ItemAdded(p))

ConfirmOrder(o) ==
    /\ Confirmable(log[o])
    /\ AppendEvent(o, Confirmed)

\* Cancelling twice, or after the confirmation, is accepted.
CancelOrder(o) ==
    /\ Named(o)
    /\ AppendEvent(o, Cancelled)

Next ==
    \E o \in Orders :
        \/ CreateOrder(o)
        \/ \E p \in Products : AddItem(o, p)
        \/ ConfirmOrder(o)
        \/ CancelOrder(o)

Spec == Init /\ [][Next]_log

================================================================================

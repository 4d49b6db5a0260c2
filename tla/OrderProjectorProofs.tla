-------------------------- MODULE OrderProjectorProofs -------------------------
(* Proofs about OrderProjector for any orders, products, batch size and number *)
(* of events and faults.                                                       *)
EXTENDS OrderProjector, FiniteSetTheorems, SequenceTheorems, FunctionTheorems,
        WellFoundedInduction, TLAPS

--------------------------------------------------------------------------------
(* The inductive invariant.                                                    *)

\* The stream shows the events of the log, all of them, an order's in their order.
StreamIsLog ==
    /\ \A i \in 1 .. Len(stream) :
           /\ stream[i].version \in 1 .. Len(log[stream[i].order])
           /\ stream[i].event = log[stream[i].order][stream[i].version]
    /\ \A i, j \in 1 .. Len(stream) :
           i < j /\ stream[i].order = stream[j].order => stream[i].version < stream[j].version
    /\ \A o \in Orders : \A v \in 1 .. Len(log[o]) :
           \E i \in 1 .. Len(stream) : stream[i].order = o /\ stream[i].version = v

\* What the histories of the log have in common.
LogIsLegal ==
    \A o \in Orders : \A v \in 1 .. Len(log[o]) :
        /\ log[o][v] = Created => v = 1
        /\ log[o][v] = Confirmed => \E u \in 1 .. v - 1 : \E p \in Products : log[o][u] = ItemAdded(p)

\* Records that this delivery of the batch is done with, counted from the start of
\* the stream; and those of them, or one more, whose item is in its row.
Passed == IF run = NoRun THEN pos ELSE run.at - 1
Entered == IF run.step = "reserve" THEN run.at ELSE Passed

\* An invocation is at a record of the batch, or behind the last one.  A row that was
\* read is one of the order, and the current one unless the order was misread.
RunSound ==
    run # NoRun =>
        /\ run.at \in pos + 1 .. upto + 1
        /\ run.step # "record" => run.at <= upto /\ orders[Order] # Missing
        /\ run.step \in {"write", "reserve"} =>
               \E p \in Products \ Malformed : stream[run.at].event = ItemAdded(p)
        /\ run.step = "write" =>
               /\ run.row \in Seen(Order)
               /\ Order \notin misread => run.row = orders[Order]
        /\ run.step = "release" => stream[run.at].event = Cancelled

\* A record is passed only if its order has a row and its item can be calculated with.
\* An order has a row only if it was created, and an older one only if it has one.
RowsSound ==
    /\ \A i \in 1 .. Passed : orders[stream[i].order] # Missing
    /\ \A i \in 1 .. Passed : \A p \in Malformed : stream[i].event # ItemAdded(p)
    /\ \A o \in Orders : orders[o] # Missing => log[o] # << >> /\ log[o][1] = Created
    /\ \A o \in Orders : orders[o] = Missing => past[o] = {}

\* The rows that an order has or had, or none.
Versions(o) == {orders[o]} \cup past[o]

\* A row shows a status that the order had after some record up to the end of the
\* batch; if the order was never misread, not before the last passed one.
StatusSound ==
    /\ \A o \in Orders \ misread : \E m \in Passed .. upto : orders[o].status = StatusAt(o, m)
    /\ \A o \in Orders : \A row \in Versions(o) : \E m \in 0 .. upto : row.status = StatusAt(o, m)

\* All orders of the first n records were created, and no item of them is malformed.
Clean(n) ==
    \A i \in 1 .. n : /\ log[stream[i].order][1] = Created
                      /\ \A p \in Malformed : stream[i].event # ItemAdded(p)

\* A row has the items that were entered, if the order was not misread; and no others
\* without a fault and without a record that no row takes, for then nothing is
\* delivered twice.
ItemsSound ==
    /\ \A o \in Orders \ misread, p \in Products :
           AddedIn(Projected(o, Entered), p) <= Count(orders[o].items, p)
    /\ faults = 0 /\ Clean(upto) =>
           /\ run = NoRun => upto = pos
           /\ \A o \in Orders, p \in Products : \A row \in Versions(o) :
                  Count(row.items, p) <= AddedIn(Projected(o, Entered), p)

\* The records among the first n that reserve p, and those that still do.
Reserving(p, n) == {i \in 1 .. n : stream[i].event = ItemAdded(p)}
Reserved(p, n) == {i \in Reserving(p, n) : StatusAt(stream[i].order, n) # "cancelled"}

NeverReleased == \A i \in DOMAIN stream : stream[i].event # Cancelled
EndAtCancel == \A o \in Orders : EndsAtCancel(log[o])

\* What a cancellation in progress has released already, or will not release because
\* the row that it read does not have it.
Released(p) ==
    IF run.step = "release"
    THEN AddedIn(Projected(Order, Passed), p) - Count(run.items, p) ELSE 0

ReservedSound ==
    /\ NeverReleased => \A p \in Products : Cardinality(Reserving(p, Passed)) <= reserved[p]
    /\ faults = 0 /\ Clean(upto) /\ EndAtCancel =>
           \A p \in Products :
               /\ reserved[p] >= Cardinality(Reserved(p, Passed)) - Released(p)
               /\ misread = {} => reserved[p] = Cardinality(Reserved(p, Passed)) - Released(p)

IInv == /\ TypeOK /\ StreamIsLog /\ LogIsLegal /\ RunSound /\ RowsSound
        /\ StatusSound /\ ItemsSound /\ ReservedSound

--------------------------------------------------------------------------------
(* Lemmas on histories and prefixes of the stream.                             *)

\* The kinds of events are told apart.
LEMMA EventsDiffer ==
    /\ Created # Confirmed /\ Created # Cancelled /\ Confirmed # Cancelled
    /\ \A p : ItemAdded(p) \notin {Created, Confirmed, Cancelled}
    /\ \A p, q : ItemAdded(p) = ItemAdded(q) => p = q
    /\ Created \in Events /\ Confirmed \in Events /\ Cancelled \in Events
    /\ \A p \in Products : ItemAdded(p) \in Events
    /\ \A e \in Events : e \in {Created, Confirmed, Cancelled} \/ \E p \in Products : e = ItemAdded(p)
BY DEF Created, Confirmed, Cancelled, ItemAdded, Events

\* The events of the log are those of the projector.
LEMMA SameEvents == Commands!Events = Events
BY DEF Commands!Events, Commands!Created, Commands!Confirmed, Commands!Cancelled,
       Commands!ItemAdded, Events, Created, Confirmed, Cancelled, ItemAdded

\* The sequences of the state and their lengths.
LEMMA TypeFacts ==
    ASSUME TypeOK
    PROVE  /\ log \in [Orders -> Seq(Events)]
           /\ stream \in Seq(Records) /\ Len(stream) \in Nat /\ DOMAIN stream = 1 .. Len(stream)
           /\ pos \in Nat /\ upto \in Nat /\ pos <= upto /\ upto <= Len(stream)
           /\ run \in Runs /\ faults \in Nat
           /\ orders \in [Orders -> Rows \cup {Missing}] /\ reserved \in [Products -> Int]
           /\ past \in [Orders -> SUBSET (Rows \cup {Missing})] /\ misread \subseteq Orders
           /\ \A o \in Orders : /\ log[o] \in Seq(Events) /\ Len(log[o]) \in Nat
                               /\ DOMAIN log[o] = 1 .. Len(log[o])
<1>1. log \in [Orders -> Seq(Events)]
  BY SameEvents DEF TypeOK, Commands!TypeOK
<1>2. stream \in Seq(Records) /\ Len(stream) \in Nat /\ DOMAIN stream = 1 .. Len(stream)
  BY LenProperties DEF TypeOK
<1>3. \A o \in Orders : /\ log[o] \in Seq(Events) /\ Len(log[o]) \in Nat
                       /\ DOMAIN log[o] = 1 .. Len(log[o])
  BY <1>1, LenProperties
<1>. QED  BY <1>1, <1>2, <1>3, BoundsAssumption DEF TypeOK

\* The record at i and its event.
LEMMA RecordType ==
    ASSUME TypeOK, StreamIsLog, NEW i \in 1 .. Len(stream)
    PROVE  /\ stream[i] \in Records /\ stream[i].order \in Orders /\ stream[i].event \in Events
           /\ log[stream[i].order] \in Seq(Events)
           /\ Len(log[stream[i].order]) \in Nat
           /\ stream[i].version \in 1 .. Len(log[stream[i].order])
           /\ stream[i].event = log[stream[i].order][stream[i].version]
<1>1. stream[i] \in Records
  BY TypeFacts, ElementOfSeq
<1>. QED  BY <1>1, TypeFacts DEF StreamIsLog, Records

\* One record more shows one version more of its order, the largest so far.
LEMMA ShownNext ==
    ASSUME TypeOK, StreamIsLog, NEW o \in Orders, NEW n \in Nat, n + 1 <= Len(stream)
    PROVE  /\ stream[n + 1].order # o => Shown(o, n + 1) = Shown(o, n)
           /\ stream[n + 1].order = o =>
                  /\ Shown(o, n + 1) = Shown(o, n) \cup {stream[n + 1].version}
                  /\ \A v \in Shown(o, n) : v < stream[n + 1].version
<1>1. Len(stream) \in Nat /\ n + 1 \in 1 .. Len(stream)
  BY DEF TypeOK
<1>2. 1 .. n + 1 = (1 .. n) \cup {n + 1}
  OBVIOUS
<1>3. CASE stream[n + 1].order # o
  BY <1>2, <1>3 DEF Shown
<1>4. CASE stream[n + 1].order = o
  <2>1. Shown(o, n + 1) = Shown(o, n) \cup {stream[n + 1].version}
    BY <1>2, <1>4 DEF Shown
  <2>2. ASSUME NEW v \in Shown(o, n) PROVE v < stream[n + 1].version
    <3>1. PICK i \in 1 .. n : stream[i].order = o /\ v = stream[i].version
      BY DEF Shown
    <3>2. i \in 1 .. Len(stream) /\ i < n + 1
      BY <1>1
    <3>. QED  BY <1>1, <1>4, <3>1, <3>2 DEF StreamIsLog
  <2>. QED  BY <1>4, <2>1, <2>2
<1>. QED  BY <1>3, <1>4

\* What is shown of an order is a prefix of its history.
LEMMA ShownIsPrefix ==
    ASSUME TypeOK, StreamIsLog, NEW o \in Orders, NEW n \in 0 .. Len(stream), NEW v \in Shown(o, n)
    PROVE  v \in 1 .. Len(log[o]) /\ 1 .. v \subseteq Shown(o, n)
<1>1. Len(stream) \in Nat /\ Len(log[o]) \in Nat
  BY TypeFacts
<1>2. PICK i \in 1 .. n : stream[i].order = o /\ v = stream[i].version
  BY DEF Shown
<1>3. i \in 1 .. Len(stream)
  BY <1>1
<1>4. v \in 1 .. Len(log[o])
  BY <1>2, <1>3 DEF StreamIsLog
<1>6. \A a, b \in 1 .. Len(stream) :
           a < b /\ stream[a].order = stream[b].order => stream[a].version < stream[b].version
  BY DEF StreamIsLog
<1>5. ASSUME NEW u \in 1 .. v PROVE u \in Shown(o, n)
  <2>1. u \in 1 .. Len(log[o]) /\ ~ (v < u)
    BY <1>1, <1>4
  <2>2. PICK j \in 1 .. Len(stream) : stream[j].order = o /\ stream[j].version = u
    BY <2>1 DEF StreamIsLog
  <2>3. ~ (i < j)
    BY <1>2, <1>3, <1>6, <2>1, <2>2
  <2>4. j \in 1 .. n
    BY <1>1, <1>2, <2>2, <2>3
  <2>. QED  BY <2>2, <2>4 DEF Shown
<1>. QED  BY <1>4, <1>5

\* A record that shows a version of an order comes after all that showed earlier ones.
LEMMA EarlierIsPassed ==
    ASSUME TypeOK, StreamIsLog, NEW i \in 1 .. Len(stream),
           NEW v \in Nat \ {0}, v < stream[i].version
    PROVE  \E j \in 1 .. i - 1 : stream[j].order = stream[i].order /\ stream[j].version = v
<1>1. /\ stream[i].order \in Orders /\ stream[i].version \in 1 .. Len(log[stream[i].order])
      /\ Len(log[stream[i].order]) \in Nat /\ Len(stream) \in Nat
  BY RecordType, TypeFacts
<1>2. v \in 1 .. Len(log[stream[i].order])
  BY <1>1
<1>5. \A o \in Orders : \A u \in 1 .. Len(log[o]) :
           \E j \in 1 .. Len(stream) : stream[j].order = o /\ stream[j].version = u
  BY DEF StreamIsLog
<1>3. PICK j \in 1 .. Len(stream) : stream[j].order = stream[i].order /\ stream[j].version = v
  BY <1>1, <1>2, <1>5
<1>4. ~ (i < j) /\ i # j
  BY <1>1, <1>3 DEF StreamIsLog
<1>. QED  BY <1>1, <1>3, <1>4

--------------------------------------------------------------------------------
(* Lemmas on statuses.                                                         *)

\* A decision that comes last decides.
LEMMA LastDecides ==
    ASSUME NEW h, NEW k \in Nat, k \in DOMAIN h, DOMAIN h \subseteq Nat,
           \A v \in DOMAIN h : v <= k, h[k] \in {Confirmed, Cancelled}
    PROVE  Status(h) = IF h[k] = Confirmed THEN "confirmed" ELSE "cancelled"
<1>1. k \in Decisions(h) /\ \A u \in Decisions(h) : u \in Nat /\ u <= k
  BY DEF Decisions
<1>2. \A v \in Decisions(h) : (\A u \in Decisions(h) : u <= v) => v = k
  BY <1>1
<1>3. (CHOOSE v \in Decisions(h) : \A u \in Decisions(h) : u <= v) = k
  BY <1>1, <1>2
<1>. QED  BY <1>1, <1>3 DEF Status

\* A bounded set of numbers that is not empty has a greatest one.
LEMMA GreatestExists ==
    ASSUME NEW S \in SUBSET Nat, NEW n \in Nat, \A v \in S : v <= n, S # {}
    PROVE  \E k \in S : \A u \in S : u <= k
<1> DEFINE T == {m \in Nat : \A v \in S : v <= m}
<1>1. T \subseteq Nat /\ n \in T
  OBVIOUS
<1>2. PICK m \in T : \A k \in T : ~ (<<k, m>> \in OpToRel(<, Nat))
  <2>1. T # {}
    BY <1>1
  <2>. QED  BY <1>1, <2>1, NatLessThanWellFounded, WFMin
<1>3. \A k \in T : ~ (k < m)
  BY <1>1, <1>2 DEF OpToRel
<1>4. m \in S
  <2>1. SUFFICES ASSUME m \notin S PROVE FALSE
    OBVIOUS
  <2>2. \A v \in S : v <= m - 1 /\ v \in Nat
    BY <2>1
  <2>4. PICK v \in S : TRUE
    OBVIOUS
  <2>5. m - 1 \in Nat
    BY <2>2, <2>4
  <2>3. m - 1 \in T
    BY <2>2, <2>5
  <2>. QED  BY <1>3, <2>3
<1>. QED  BY <1>4

\* Histories with the same decisions have the same status.
LEMMA SameDecisions ==
    ASSUME NEW h, NEW g, Decisions(h) = Decisions(g), \A v \in Decisions(h) : h[v] = g[v],
           \E k \in Decisions(h) : \A u \in Decisions(h) : u <= k,
           Decisions(h) \subseteq Nat
    PROVE  Status(h) = Status(g)
<1> DEFINE last(f) == CHOOSE v \in Decisions(f) : \A u \in Decisions(f) : u <= v
<1>1. last(h) \in Decisions(h)
  OBVIOUS
<1>2. last(g) = last(h)
  OBVIOUS
<1>3. h[last(h)] = g[last(g)]
  BY <1>1, <1>2
<1>4. Decisions(h) # {} /\ Decisions(g) # {}
  OBVIOUS
<1>. QED  BY <1>3, <1>4 DEF Status

\* A record says nothing of the other orders.
LEMMA OthersStay ==
    ASSUME TypeOK, StreamIsLog, NEW n \in Nat, n + 1 <= Len(stream),
           NEW o \in Orders, stream[n + 1].order # o
    PROVE  /\ Shown(o, n + 1) = Shown(o, n)
           /\ Projected(o, n + 1) = Projected(o, n)
           /\ StatusAt(o, n + 1) = StatusAt(o, n)
<1>1. Shown(o, n + 1) = Shown(o, n)
  BY ShownNext
<1>. QED  BY <1>1 DEF Projected, StatusAt

\* A record of a decision decides the status.
LEMMA DecisionShows ==
    ASSUME TypeOK, StreamIsLog, NEW n \in Nat, n + 1 <= Len(stream),
           stream[n + 1].event \in {Confirmed, Cancelled}
    PROVE  StatusAt(stream[n + 1].order, n + 1) =
               IF stream[n + 1].event = Confirmed THEN "confirmed" ELSE "cancelled"
<1> DEFINE o == stream[n + 1].order
           k == stream[n + 1].version
           h == Projected(o, n + 1)
<1>1. n + 1 \in 1 .. Len(stream)
  BY TypeFacts
<1>2. o \in Orders /\ k \in 1 .. Len(log[o]) /\ stream[n + 1].event = log[o][k]
  BY <1>1, RecordType
<1>3. /\ Shown(o, n + 1) = Shown(o, n) \cup {k}
      /\ \A v \in Shown(o, n) : v < k
  BY <1>2, ShownNext
<1>4. n + 1 \in 0 .. Len(stream) /\ n \in 0 .. Len(stream)
  BY <1>1
<1>5. Shown(o, n + 1) \subseteq Nat
  <2>1. \A v \in Shown(o, n + 1) : v \in 1 .. Len(log[o])
    BY <1>2, <1>4, ShownIsPrefix
  <2>. QED  BY <2>1
<1>6. /\ DOMAIN h = Shown(o, n + 1) /\ k \in DOMAIN h /\ h[k] = log[o][k]
      /\ k \in Nat
  BY <1>2, <1>3 DEF Projected
<1>7. \A v \in DOMAIN h : v <= k
  BY <1>3, <1>5, <1>6
<1> HIDE DEF h
<1>8. Status(h) = IF h[k] = Confirmed THEN "confirmed" ELSE "cancelled"
  BY <1>2, <1>5, <1>6, <1>7, LastDecides
<1>9. StatusAt(o, n + 1) = Status(h)
  BY <1>3 DEF StatusAt, h
<1>. QED  BY <1>2, <1>6, <1>8, <1>9

\* A record of an item leaves the status of an order that has one.
LEMMA ItemKeepsStatus ==
    ASSUME TypeOK, StreamIsLog, NEW n \in Nat, n + 1 <= Len(stream),
           NEW p \in Products, stream[n + 1].event = ItemAdded(p),
           Shown(stream[n + 1].order, n) # {}
    PROVE  StatusAt(stream[n + 1].order, n + 1) = StatusAt(stream[n + 1].order, n)
<1> DEFINE o == stream[n + 1].order
           k == stream[n + 1].version
           h == Projected(o, n + 1)
           g == Projected(o, n)
<1>1. n + 1 \in 1 .. Len(stream) /\ n \in 0 .. Len(stream)
  BY TypeFacts
<1>2. o \in Orders /\ k \in 1 .. Len(log[o]) /\ stream[n + 1].event = log[o][k]
  BY <1>1, RecordType
<1>3. /\ Shown(o, n + 1) = Shown(o, n) \cup {k}
      /\ \A v \in Shown(o, n) : v < k
  BY <1>2, ShownNext
<1>4. \A v \in Shown(o, n) : v \in 1 .. Len(log[o])
  BY <1>1, <1>2, ShownIsPrefix
<1>5. /\ DOMAIN h = Shown(o, n) \cup {k} /\ DOMAIN g = Shown(o, n)
      /\ \A v \in DOMAIN g : h[v] = g[v]
      /\ h[k] = ItemAdded(p)
  BY <1>2, <1>3 DEF Projected
<1>6. StatusAt(o, n + 1) = Status(h) /\ StatusAt(o, n) = Status(g)
  BY <1>3 DEF StatusAt
<1> HIDE DEF h, g
<1>7. Decisions(h) = Decisions(g) /\ \A v \in Decisions(g) : h[v] = g[v]
  BY <1>5, EventsDiffer DEF Decisions
<1>8. CASE Decisions(g) = {}
  BY <1>6, <1>7, <1>8 DEF Status
<1>9. CASE Decisions(g) # {}
  <2>1. Decisions(g) \subseteq Nat /\ \A v \in Decisions(g) : v <= k /\ k \in Nat
    BY <1>2, <1>3, <1>4, <1>5 DEF Decisions
  <2>2. \E v \in Decisions(g) : \A u \in Decisions(g) : u <= v
    BY <1>9, <2>1, GreatestExists
  <2>3. Status(g) = Status(h)
    BY <1>7, <2>1, <2>2, SameDecisions
  <2>. QED  BY <1>6, <2>3
<1>. QED  BY <1>8, <1>9

\* The record of a creation is the first of its order and shows a draft.
LEMMA CreationShows ==
    ASSUME TypeOK, StreamIsLog, LogIsLegal, NEW n \in Nat, n + 1 <= Len(stream),
           stream[n + 1].event = Created
    PROVE  /\ stream[n + 1].version = 1
           /\ Shown(stream[n + 1].order, n) = {}
           /\ StatusAt(stream[n + 1].order, n + 1) = "draft"
<1> DEFINE o == stream[n + 1].order
           k == stream[n + 1].version
           h == Projected(o, n + 1)
<1>1. n + 1 \in 1 .. Len(stream) /\ n \in 0 .. Len(stream)
  BY TypeFacts
<1>2. o \in Orders /\ k \in 1 .. Len(log[o]) /\ stream[n + 1].event = log[o][k]
  BY <1>1, RecordType
<1>3. k = 1
  BY <1>2 DEF LogIsLegal
<1>4. /\ Shown(o, n + 1) = Shown(o, n) \cup {k}
      /\ \A v \in Shown(o, n) : v < k
  BY <1>2, ShownNext
<1>5. \A v \in Shown(o, n) : v \in 1 .. Len(log[o])
  BY <1>1, <1>2, ShownIsPrefix
<1>6. Shown(o, n) = {}
  <2>1. \A v \in Shown(o, n) : FALSE
    BY <1>2, <1>3, <1>4, <1>5
  <2>. QED  BY <2>1
<1>7. h = [v \in {1} |-> log[o][v]] /\ h[1] = Created
  BY <1>2, <1>3, <1>4, <1>6 DEF Projected
<1>8. Decisions(h) = {}
  BY <1>7, EventsDiffer DEF Decisions
<1>9. StatusAt(o, n + 1) = "draft"
  BY <1>4, <1>8 DEF StatusAt, Status
<1>. QED  BY <1>3, <1>6, <1>9

--------------------------------------------------------------------------------
(* Lemmas on items.                                                            *)

\* The versions shown that add an item of the product.
VersionsOf(o, n, p) == {v \in Shown(o, n) : log[o][v] = ItemAdded(p)}

\* They are what AddedIn counts, and finitely many.
LEMMA AddedCounts ==
    ASSUME TypeOK, StreamIsLog, NEW o \in Orders, NEW n \in 0 .. Len(stream), NEW p
    PROVE  /\ AddedIn(Projected(o, n), p) = Cardinality(VersionsOf(o, n, p))
           /\ IsFiniteSet(VersionsOf(o, n, p))
           /\ AddedIn(Projected(o, n), p) \in Nat
<1>1. Len(log[o]) \in Nat
  BY TypeFacts
<1>2. VersionsOf(o, n, p) \subseteq 1 .. Len(log[o])
  <2>1. \A v \in VersionsOf(o, n, p) : v \in Shown(o, n)
    BY DEF VersionsOf
  <2>. QED  BY <2>1, ShownIsPrefix
<1>3. IsFiniteSet(1 .. Len(log[o]))
  BY <1>1, FS_Interval
<1>4. IsFiniteSet(VersionsOf(o, n, p))
  BY <1>2, <1>3, FS_Subset
<1>5. {v \in DOMAIN Projected(o, n) : Projected(o, n)[v] = ItemAdded(p)} = VersionsOf(o, n, p)
  BY DEF Projected, VersionsOf
<1>. QED  BY <1>4, <1>5, FS_CardinalityType DEF AddedIn

\* A record adds one item if it is one of the order that adds this product.
LEMMA AddedNext ==
    ASSUME TypeOK, StreamIsLog, NEW n \in Nat, n + 1 <= Len(stream),
           NEW o \in Orders, NEW p
    PROVE  AddedIn(Projected(o, n + 1), p) =
               AddedIn(Projected(o, n), p)
                 + IF stream[n + 1].order = o /\ stream[n + 1].event = ItemAdded(p)
                   THEN 1 ELSE 0
<1>1. n + 1 \in 1 .. Len(stream) /\ n \in 0 .. Len(stream) /\ n + 1 \in 0 .. Len(stream)
  BY TypeFacts
<1>2. AddedIn(Projected(o, n), p) \in Nat /\ AddedIn(Projected(o, n + 1), p) \in Nat
  BY <1>1, AddedCounts
<1>3. CASE stream[n + 1].order # o
  BY <1>2, <1>3, OthersStay
<1>4. CASE stream[n + 1].order = o
  <2> DEFINE k == stream[n + 1].version
  <2>1. stream[n + 1].event = log[o][k]
    BY <1>1, <1>4, RecordType
  <2>2. /\ Shown(o, n + 1) = Shown(o, n) \cup {k}
        /\ \A v \in Shown(o, n) : v < k
    BY <1>4, ShownNext
  <2>3. k \notin Shown(o, n)
    <3>1. k \in Nat
      BY <1>1, RecordType
    <3>. QED  BY <2>2, <3>1
  <2>4. k \notin VersionsOf(o, n, p)
    BY <2>3 DEF VersionsOf
  <2>5. CASE stream[n + 1].event = ItemAdded(p)
    <3>1. VersionsOf(o, n + 1, p) = VersionsOf(o, n, p) \cup {k}
      BY <2>1, <2>2, <2>5 DEF VersionsOf
    <3>2. IsFiniteSet(VersionsOf(o, n, p))
      BY <1>1, AddedCounts
    <3>3. Cardinality(VersionsOf(o, n + 1, p)) = Cardinality(VersionsOf(o, n, p)) + 1
      BY <2>4, <3>1, <3>2, FS_AddElement
    <3>. QED  BY <1>1, <1>4, <2>5, <3>3, AddedCounts
  <2>6. CASE stream[n + 1].event # ItemAdded(p)
    <3>1. VersionsOf(o, n + 1, p) = VersionsOf(o, n, p)
      BY <2>1, <2>2, <2>6 DEF VersionsOf
    <3>. QED  BY <1>1, <1>2, <2>6, <3>1, AddedCounts
  <2>. QED  BY <2>5, <2>6
<1>. QED  BY <1>3, <1>4

\* Fewer records show no more items.
LEMMA AddedGrows ==
    ASSUME TypeOK, StreamIsLog, NEW o \in Orders, NEW p,
           NEW n \in 0 .. Len(stream), NEW m \in 0 .. n
    PROVE  AddedIn(Projected(o, m), p) <= AddedIn(Projected(o, n), p)
<1>1. Len(stream) \in Nat /\ m \in 0 .. Len(stream) /\ 1 .. m \subseteq 1 .. n
  BY TypeFacts
<1>2. VersionsOf(o, m, p) \subseteq VersionsOf(o, n, p)
  BY <1>1 DEF VersionsOf, Shown
<1>3. Cardinality(VersionsOf(o, m, p)) <= Cardinality(VersionsOf(o, n, p))
  BY <1>2, AddedCounts, FS_Subset
<1>. QED  BY <1>1, <1>3, AddedCounts

\* The items of a row are finitely many.
LEMMA CountType ==
    ASSUME NEW items \in Seq(Products), NEW p
    PROVE  Count(items, p) \in Nat /\ IsFiniteSet({i \in DOMAIN items : items[i] = p})
<1>1. DOMAIN items = 1 .. Len(items) /\ Len(items) \in Nat
  BY LenProperties
<1>2. IsFiniteSet(1 .. Len(items))
  BY <1>1, FS_Interval
<1>3. IsFiniteSet({i \in DOMAIN items : items[i] = p})
  BY <1>1, <1>2, FS_Subset
<1>. QED  BY <1>3, FS_CardinalityType DEF Count

\* An empty row counts nothing.
LEMMA CountEmpty == \A p : Count(<< >>, p) = 0
<1>1. \A p : {i \in DOMAIN << >> : << >>[i] = p} = {}
  OBVIOUS
<1>. QED  BY <1>1, FS_EmptySet DEF Count

\* An item more counts one more of its product.
LEMMA CountAppend ==
    ASSUME NEW items \in Seq(Products), NEW q \in Products, NEW p
    PROVE  Count(Append(items, q), p) = Count(items, p) + IF p = q THEN 1 ELSE 0
<1> DEFINE n == Len(items)
           S == {i \in DOMAIN items : items[i] = p}
           T == {i \in DOMAIN Append(items, q) : Append(items, q)[i] = p}
<1>1. n \in Nat /\ DOMAIN items = 1 .. n
  BY LenProperties
<1>2. /\ DOMAIN Append(items, q) = 1 .. n + 1
      /\ \A i \in 1 .. n : Append(items, q)[i] = items[i]
      /\ Append(items, q)[n + 1] = q
  BY AppendProperties, LenProperties
<1>3. IsFiniteSet(S) /\ Cardinality(S) \in Nat
  BY CountType DEF Count
<1>4. T = IF p = q THEN S \cup {n + 1} ELSE S
  <2> HIDE DEF n
  <2>. QED  BY <1>1, <1>2
<1>5. n + 1 \notin S
  BY <1>1
<1>6. Count(items, p) = Cardinality(S) /\ Count(Append(items, q), p) = Cardinality(T)
  BY DEF Count
<1> HIDE DEF S, T
<1>7. Cardinality(S \cup {n + 1}) = Cardinality(S) + 1
  BY <1>3, <1>5, FS_AddElement
<1>. QED  BY <1>3, <1>4, <1>6, <1>7

\* Without its first item it counts one less of its product.
LEMMA CountTail ==
    ASSUME NEW items \in Seq(Products), items # << >>, NEW p
    PROVE  Count(Tail(items), p) = Count(items, p) - IF p = Head(items) THEN 1 ELSE 0
<1> DEFINE n == Len(items)
           S == {i \in DOMAIN items : items[i] = p}
           T == {i \in DOMAIN Tail(items) : Tail(items)[i] = p}
<1>1. n \in Nat \ {0} /\ DOMAIN items = 1 .. n /\ Head(items) = items[1]
  BY LenProperties, EmptySeq
<1>2. /\ DOMAIN Tail(items) = 1 .. n - 1
      /\ \A i \in 1 .. n - 1 : Tail(items)[i] = items[i + 1]
  BY HeadTailProperties, LenProperties
<1>3. IsFiniteSet(S) /\ Cardinality(S) \in Nat
  BY CountType DEF Count
<1> DEFINE f == [i \in T |-> i + 1]
<1>4. f \in Bijection(T, S \ {1})
  <2> HIDE DEF n
  <2>1. \A i \in T : i \in Nat /\ i + 1 \in S \ {1}
    BY <1>1, <1>2
  <2>2. f \in [T -> S \ {1}]
    BY <2>1
  <2>3. \A i, j \in T : f[i] = f[j] => i = j
    BY <2>1
  <2>4. \A j \in S \ {1} : \E i \in T : f[i] = j
    <3> SUFFICES ASSUME NEW j \in S \ {1} PROVE \E i \in T : f[i] = j
      OBVIOUS
    <3>1. j - 1 \in T
      BY <1>1, <1>2
    <3>2. f[j - 1] = j
      BY <1>1, <3>1
    <3>. QED  BY <3>1, <3>2
  <2>. QED  BY <2>2, <2>3, <2>4, Fun_IsBij
<1>5. Cardinality(S \ {1}) = IF 1 \in S THEN Cardinality(S) - 1 ELSE Cardinality(S)
  <2> HIDE DEF S
  <2>. QED  BY <1>3, FS_RemoveElement
<1>6. Cardinality(T) = Cardinality(S \ {1})
  <2>1. IsFiniteSet(T)
    BY HeadTailProperties, CountType
  <2>2. ExistsBijection(T, S \ {1})
    BY <1>4 DEF ExistsBijection
  <2>. QED  BY <2>1, <2>2, FS_Bijection
<1>7. 1 \in S <=> p = Head(items)
  BY <1>1
<1>8. Count(items, p) = Cardinality(S) /\ Count(Tail(items), p) = Cardinality(T)
  BY DEF Count
<1> HIDE DEF S, T
<1>. QED  BY <1>3, <1>5, <1>6, <1>7, <1>8

--------------------------------------------------------------------------------
(* Lemmas on reservations.                                                     *)

\* The records that reserve a product are finitely many, and the next one is another.
LEMMA ReservingNext ==
    ASSUME NEW n \in Nat, NEW p
    PROVE  /\ IsFiniteSet(Reserving(p, n)) /\ Cardinality(Reserving(p, n)) \in Nat
           /\ Reserving(p, n + 1) = IF stream[n + 1].event = ItemAdded(p)
                                    THEN Reserving(p, n) \cup {n + 1} ELSE Reserving(p, n)
           /\ n + 1 \notin Reserving(p, n)
<1>1. IsFiniteSet(1 .. n)
  BY FS_Interval
<1>2. IsFiniteSet(Reserving(p, n))
  BY <1>1, FS_Subset DEF Reserving
<1>3. 1 .. n + 1 = (1 .. n) \cup {n + 1} /\ n + 1 \notin 1 .. n
  OBVIOUS
<1>. QED  BY <1>2, <1>3, FS_CardinalityType DEF Reserving

\* So are those that still do.
LEMMA ReservedType ==
    ASSUME NEW n \in Nat, NEW p
    PROVE  IsFiniteSet(Reserved(p, n)) /\ Cardinality(Reserved(p, n)) \in Nat
<1>1. IsFiniteSet(Reserved(p, n))
  BY ReservingNext, FS_Subset DEF Reserved
<1>. QED  BY <1>1, FS_CardinalityType

\* A status shown as cancelled has a cancellation behind it.
LEMMA CancellationShown ==
    ASSUME TypeOK, StreamIsLog, NEW o \in Orders, NEW n \in 0 .. Len(stream),
           StatusAt(o, n) = "cancelled"
    PROVE  \E v \in Shown(o, n) : log[o][v] = Cancelled
<1> DEFINE h == Projected(o, n)
           D == Decisions(h)
           last == CHOOSE v \in D : \A u \in D : u <= v
<1>1. Status(h) = "cancelled"
  BY DEF StatusAt
<1>2. D # {} /\ h[last] # Confirmed
  BY <1>1 DEF Status
<1>3. D \subseteq Shown(o, n) /\ \A v \in D : h[v] = log[o][v] /\ h[v] \in {Confirmed, Cancelled}
  BY DEF Decisions, Projected
<1>4. Len(log[o]) \in Nat
  BY TypeFacts
<1>5. \A v \in D : v \in 1 .. Len(log[o])
  BY <1>3, ShownIsPrefix
<1> HIDE DEF h, D
<1>6. D \subseteq Nat /\ \A v \in D : v <= Len(log[o])
  BY <1>4, <1>5
<1>7. \E k \in D : \A u \in D : u <= k
  BY <1>2, <1>4, <1>6, GreatestExists
<1>8. last \in D
  BY <1>7
<1>. QED  BY <1>2, <1>3, <1>8

\* If histories end at a cancellation, no record comes after the one of a cancellation.
LEMMA NotCancelledYet ==
    ASSUME TypeOK, StreamIsLog, EndAtCancel, NEW n \in Nat, n + 1 <= Len(stream)
    PROVE  /\ StatusAt(stream[n + 1].order, n) # "cancelled"
           /\ stream[n + 1].event # Cancelled => StatusAt(stream[n + 1].order, n + 1) # "cancelled"
<1> DEFINE o == stream[n + 1].order
           k == stream[n + 1].version
<1>1. n + 1 \in 1 .. Len(stream) /\ n + 1 \in 0 .. Len(stream) /\ n \in 0 .. Len(stream)
  BY TypeFacts
<1>2. /\ o \in Orders /\ k \in 1 .. Len(log[o]) /\ stream[n + 1].event = log[o][k]
      /\ Len(log[o]) \in Nat
  BY <1>1, RecordType
<1>3. Shown(o, n + 1) = Shown(o, n) \cup {k} /\ \A v \in Shown(o, n) : v < k
  BY <1>2, ShownNext
<1>4. ASSUME NEW v \in Shown(o, n) PROVE log[o][v] # Cancelled
  <2>1. v \in 1 .. Len(log[o]) /\ v < k
    BY <1>1, <1>2, <1>3, ShownIsPrefix
  <2>2. v \in DOMAIN log[o] /\ v # Len(log[o])
    BY <1>2, <2>1, TypeFacts
  <2>. QED  BY <1>2, <2>2 DEF EndAtCancel, EndsAtCancel
<1>5. StatusAt(o, n) # "cancelled"
  BY <1>1, <1>2, <1>4, CancellationShown
<1>6. ASSUME stream[n + 1].event # Cancelled PROVE StatusAt(o, n + 1) # "cancelled"
  <2>1. \A v \in Shown(o, n + 1) : log[o][v] # Cancelled
    BY <1>2, <1>3, <1>4, <1>6
  <2>. QED  BY <1>1, <1>2, <2>1, CancellationShown
<1>. QED  BY <1>5, <1>6

\* A record that is no cancellation releases nothing.
LEMMA ReservedNext ==
    ASSUME TypeOK, StreamIsLog, EndAtCancel, NEW n \in Nat, n + 1 <= Len(stream),
           stream[n + 1].event # Cancelled, NEW p
    PROVE  Cardinality(Reserved(p, n + 1)) =
               Cardinality(Reserved(p, n)) + IF stream[n + 1].event = ItemAdded(p) THEN 1 ELSE 0
<1> DEFINE o == stream[n + 1].order
<1>1. StatusAt(o, n) # "cancelled" /\ StatusAt(o, n + 1) # "cancelled"
  BY NotCancelledYet
<1>2. ASSUME NEW i \in Reserving(p, n)
      PROVE  StatusAt(stream[i].order, n + 1) # "cancelled" <=>
             StatusAt(stream[i].order, n) # "cancelled"
  <2>1. stream[i].order \in Orders
    <3>1. i \in 1 .. Len(stream)
      BY TypeFacts DEF Reserving
    <3>. QED  BY <3>1, RecordType
  <2>2. CASE stream[i].order = o
    BY <1>1, <2>2
  <2>3. CASE stream[i].order # o
    BY <2>1, <2>3, OthersStay
  <2>. QED  BY <2>2, <2>3
<1>3. CASE stream[n + 1].event = ItemAdded(p)
  <2>1. Reserving(p, n + 1) = Reserving(p, n) \cup {n + 1} /\ n + 1 \notin Reserving(p, n)
    BY <1>3, ReservingNext
  <2>2. Reserved(p, n + 1) = Reserved(p, n) \cup {n + 1} /\ n + 1 \notin Reserved(p, n)
    BY <1>1, <1>2, <2>1 DEF Reserved
  <2>3. Cardinality(Reserved(p, n + 1)) = Cardinality(Reserved(p, n)) + 1
    BY <2>2, ReservedType, FS_AddElement
  <2>. QED  BY <1>3, <2>3
<1>4. CASE stream[n + 1].event # ItemAdded(p)
  <2>1. Reserving(p, n + 1) = Reserving(p, n)
    BY <1>4, ReservingNext
  <2>2. Reserved(p, n + 1) = Reserved(p, n)
    BY <1>2, <2>1 DEF Reserved
  <2>. QED  BY <1>4, <2>2, ReservedType
<1>. QED  BY <1>3, <1>4

\* A cancellation releases what its order had reserved.
LEMMA ReservedCancelled ==
    ASSUME TypeOK, StreamIsLog, EndAtCancel, NEW n \in Nat, n + 1 <= Len(stream),
           stream[n + 1].event = Cancelled, NEW p
    PROVE  Cardinality(Reserved(p, n + 1)) =
               Cardinality(Reserved(p, n)) - AddedIn(Projected(stream[n + 1].order, n), p)
<1> DEFINE o == stream[n + 1].order
           Own == {i \in Reserving(p, n) : stream[i].order = o}
           V == VersionsOf(o, n, p)
           f == [i \in Own |-> stream[i].version]
<1>1. n + 1 \in 1 .. Len(stream) /\ n \in 0 .. Len(stream) /\ Len(stream) \in Nat
  BY TypeFacts
<1>2. o \in Orders
  BY <1>1, RecordType
<1>3. StatusAt(o, n) # "cancelled" /\ StatusAt(o, n + 1) = "cancelled"
  BY NotCancelledYet, DecisionShows, EventsDiffer
<1>4. Reserving(p, n + 1) = Reserving(p, n)
  BY ReservingNext, EventsDiffer
<1>5. ASSUME NEW i \in Reserving(p, n)
      PROVE  /\ i \in 1 .. n /\ i \in 1 .. Len(stream) /\ stream[i].order \in Orders
             /\ stream[i].event = ItemAdded(p)
             /\ stream[i].event = log[stream[i].order][stream[i].version]
             /\ stream[i].version \in Nat
             /\ stream[i].order # o => StatusAt(stream[i].order, n + 1) = StatusAt(stream[i].order, n)
  <2>1. i \in 1 .. n /\ i \in 1 .. Len(stream) /\ stream[i].event = ItemAdded(p)
    BY <1>1 DEF Reserving
  <2>2. /\ stream[i].order \in Orders
        /\ stream[i].event = log[stream[i].order][stream[i].version]
        /\ stream[i].version \in Nat
    BY <2>1, RecordType
  <2>. QED  BY <2>1, <2>2, OthersStay
<1>6. Reserved(p, n + 1) = Reserved(p, n) \ Own /\ Own \subseteq Reserved(p, n)
  BY <1>3, <1>4, <1>5 DEF Reserved
<1>7. f \in Bijection(Own, V)
  <2>1. ASSUME NEW i \in Own PROVE f[i] \in V
    <3>1. stream[i].version \in Shown(o, n) /\ log[o][stream[i].version] = ItemAdded(p)
      BY <1>5 DEF Shown
    <3>. QED  BY <3>1 DEF VersionsOf
  <2>2. f \in [Own -> V]
    BY <2>1
  <2>3. ASSUME NEW i \in Own, NEW j \in Own, f[i] = f[j] PROVE i = j
    <3>1. i \in 1 .. Len(stream) /\ j \in 1 .. Len(stream) /\ stream[i].version = stream[j].version
          /\ stream[i].order = stream[j].order /\ stream[i].version \in Nat
      BY <1>5, <2>3
    <3>2. ~ (i < j) /\ ~ (j < i)
      BY <3>1 DEF StreamIsLog
    <3>. QED  BY <1>1, <3>1, <3>2
  <2>4. ASSUME NEW v \in V PROVE \E i \in Own : f[i] = v
    <3>1. v \in Shown(o, n) /\ log[o][v] = ItemAdded(p)
      BY DEF VersionsOf
    <3>2. PICK i \in 1 .. n : stream[i].order = o /\ stream[i].version = v
      BY <3>1 DEF Shown
    <3>3. i \in 1 .. Len(stream)
      BY <1>1
    <3>4. stream[i].event = ItemAdded(p)
      BY <3>1, <3>2, <3>3, RecordType
    <3>5. i \in Own
      BY <3>2, <3>4 DEF Reserving
    <3>. QED  BY <3>2, <3>5
  <2> HIDE DEF f, Own, V
  <2>. QED  BY <2>2, <2>3, <2>4, Fun_IsBij
<1> HIDE DEF f, Own, V
<1>8. IsFiniteSet(Own) /\ Cardinality(Own) \in Nat
  BY <1>6, ReservedType, FS_Subset, FS_CardinalityType
<1>9. Cardinality(Own) = Cardinality(V)
  BY <1>7, <1>8, FS_Bijection DEF ExistsBijection
<1>10. Cardinality(V) = AddedIn(Projected(o, n), p)
  BY <1>1, <1>2, AddedCounts DEF V
<1>11. Reserved(p, n) \cap Own = Own
  BY <1>6
<1>12. Cardinality(Reserved(p, n) \ Own) = Cardinality(Reserved(p, n)) - Cardinality(Own)
  <2>1. IsFiniteSet(Reserved(p, n))
    BY ReservedType
  <2>2. Cardinality(Reserved(p, n) \ Own) =
            Cardinality(Reserved(p, n)) - Cardinality(Reserved(p, n) \cap Own)
    BY <1>8, <2>1, FS_Difference
  <2>. QED  BY <1>11, <2>2
<1>13. Cardinality(Reserved(p, n + 1)) = Cardinality(Reserved(p, n)) - Cardinality(V)
  BY <1>6, <1>9, <1>12
<1>. QED  BY <1>10, <1>13

--------------------------------------------------------------------------------
(* Lemmas on the state.                                                        *)

\* A row, or its absence, and the rows that it had before.
LEMMA RowType ==
    ASSUME TypeOK, NEW o \in Orders
    PROVE  /\ orders[o].items \in Seq(Products)
           /\ orders[o] # Missing <=> orders[o].status # "missing"
           /\ orders[o] # Missing => orders[o] \in Rows
           /\ Missing.items = << >> /\ Missing.status = "missing"
           /\ \A row \in Rows : row # Missing /\ row.items \in Seq(Products)
           /\ orders[o] \in Versions(o) /\ Seen(o) \subseteq Rows /\ Seen(o) \subseteq Versions(o)
           /\ \A row \in Versions(o) : row.items \in Seq(Products)
<1>1. << >> \in Seq(Products)
  BY EmptySeq
<1>2. orders[o] \in Rows \cup {Missing} /\ past[o] \subseteq Rows \cup {Missing}
  BY TypeFacts
<1>3. Missing.items = << >> /\ Missing.status = "missing"
  BY DEF Missing
<1>4. \A row \in Rows : row.status # "missing" /\ row.items \in Seq(Products)
  BY DEF Rows
<1>5. \A row \in Rows \cup {Missing} : row.items \in Seq(Products)
  BY <1>1, <1>3, <1>4
<1>6. Seen(o) = Versions(o) \ {Missing} /\ Versions(o) \subseteq Rows \cup {Missing}
  BY <1>2 DEF Seen, Versions
<1>7. orders[o] \in Versions(o)
  BY DEF Versions
<1>. QED  BY <1>2, <1>3, <1>4, <1>5, <1>6, <1>7

\* A row that a get_item returns.
LEMMA RowRead ==
    ASSUME TypeOK, RowsSound, NEW o \in Orders, NEW row, GetItem(o, row)
    PROVE  /\ row \in Seen(o) /\ row \in Rows /\ row \in Versions(o) /\ orders[o] # Missing
           /\ misread \subseteq misread' /\ misread' \subseteq Orders
           /\ o \notin misread' => row = orders[o]
<1>1. row \in Seen(o) /\ misread' = IF row = orders[o] THEN misread ELSE misread \cup {o}
  BY DEF GetItem
<1>2. orders[o] # Missing
  BY <1>1 DEF RowsSound, Seen
<1>. QED  BY <1>1, <1>2, RowType, TypeFacts

\* A row that is put takes the place of the one before, which may still be read.
LEMMA RowWritten ==
    ASSUME TypeOK, RowsSound, NEW o \in Orders, NEW row \in Rows, SetRow(o, row)
    PROVE  /\ orders'[o] = row /\ row # Missing
           /\ \A q \in Orders : q # o => orders'[q] = orders[q]
           /\ \A q \in Orders : orders[q] # Missing => orders'[q] # Missing
           /\ \A q \in Orders : orders'[q] = Missing => past'[q] = {}
           /\ \A q \in Orders : \A v \in Versions(q)' : v \in Versions(q) \/ v = orders'[q]
           /\ \A q \in Orders : q # o => Versions(q)' = Versions(q)
           /\ orders' \in [Orders -> Rows \cup {Missing}]
           /\ past' \in [Orders -> SUBSET (Rows \cup {Missing})]
<1>1. /\ orders \in [Orders -> Rows \cup {Missing}]
      /\ past \in [Orders -> SUBSET (Rows \cup {Missing})]
  BY TypeFacts
<1>2. /\ orders' = [orders EXCEPT ![o] = row]
      /\ past' = [past EXCEPT ![o] = past[o] \cup {orders[o]}]
  BY DEF SetRow
<1>3. row # Missing
  BY RowType
<1>4. /\ orders'[o] = row /\ past'[o] = past[o] \cup {orders[o]}
      /\ \A q \in Orders : q # o => orders'[q] = orders[q] /\ past'[q] = past[q]
  BY <1>1, <1>2
<1>5. /\ orders' \in [Orders -> Rows \cup {Missing}]
      /\ past' \in [Orders -> SUBSET (Rows \cup {Missing})]
  <2>1. orders[o] \in Rows \cup {Missing} /\ past[o] \in SUBSET (Rows \cup {Missing})
    BY <1>1
  <2>2. past[o] \cup {orders[o]} \in SUBSET (Rows \cup {Missing})
    BY <2>1
  <2>. QED  BY <1>1, <1>2, <2>2
<1>6. \A q \in Orders : q # o => Versions(q)' = Versions(q)
  BY <1>4 DEF Versions
<1>7. \A v \in Versions(o)' : v \in Versions(o) \/ v = orders'[o]
  BY <1>4 DEF Versions
<1>8. \A q \in Orders : orders'[q] = Missing => past'[q] = {}
  BY <1>3, <1>4 DEF RowsSound
<1>. QED  BY <1>3, <1>4, <1>5, <1>6, <1>7, <1>8

\* Where the invocation is in the batch.
LEMMA RunFacts ==
    ASSUME TypeOK, RunSound
    PROVE  /\ Passed \in Nat /\ pos <= Passed /\ Passed <= upto
           /\ Entered \in Nat /\ Passed <= Entered /\ Entered <= upto
           /\ run # NoRun => /\ run.step \in {"record", "write", "reserve", "release"}
                             /\ run.at \in Nat /\ Passed = run.at - 1
                             /\ run.step # "reserve" => Entered = Passed
           /\ NoRun.step = "none"
           /\ run = NoRun => Passed = pos /\ Entered = pos
           /\ run.step # "none" => run # NoRun
           /\ run.step = "release" => run.items \in Seq(Products)
           /\ run.step = "write" => run.row \in Rows
<1>1. /\ run \in Runs /\ pos \in Nat /\ upto \in Nat /\ pos <= upto
  BY TypeFacts
<1>2. NoRun.step = "none"
  BY DEF NoRun
<1>3. run # NoRun => run.step \in {"record", "write", "reserve", "release"} /\ run.at \in Nat
  BY <1>1 DEF Runs
<1>4. /\ run.step = "release" => run.items \in Seq(Products)
      /\ run.step = "write" => run.row \in Rows
  BY <1>1, <1>2 DEF Runs
<1>5. run # NoRun => Passed = run.at - 1 /\ run.at \in pos + 1 .. upto + 1
  BY DEF RunSound, Passed
<1>6. run.step = "reserve" => run.at <= upto /\ run # NoRun /\ Entered = run.at
  BY <1>2 DEF RunSound, Entered
<1>7. run.step # "reserve" => Entered = Passed
  BY DEF Entered
<1>8. run = NoRun => Passed = pos
  BY DEF Passed
<1>. QED  BY <1>1, <1>2, <1>3, <1>4, <1>5, <1>6, <1>7, <1>8

\* The record being projected.
LEMMA AtFacts ==
    ASSUME TypeOK, StreamIsLog, RunSound, run # NoRun, run.at <= upto
    PROVE  /\ run.at \in 1 .. Len(stream) /\ run.at - 1 \in Nat /\ (run.at - 1) + 1 = run.at
           /\ Passed = run.at - 1
           /\ Order \in Orders /\ stream[run.at].event \in Events
<1>1. run.at \in Nat /\ run.at \in pos + 1 .. upto + 1 /\ pos \in Nat /\ upto <= Len(stream)
      /\ Len(stream) \in Nat /\ upto \in Nat /\ Passed = run.at - 1
  BY RunFacts, TypeFacts DEF RunSound
<1>2. run.at \in 1 .. Len(stream)
  BY <1>1
<1>3. Order \in Orders /\ stream[run.at].event \in Events
  BY <1>2, RecordType DEF Order
<1>. QED  BY <1>1, <1>2, <1>3

\* What depends on the log and the stream only stays while they do.
LEMMA LogKept ==
    ASSUME log' = log, stream' = stream
    PROVE  /\ \A o, n : Shown(o, n)' = Shown(o, n)
           /\ \A o, n : StatusAt(o, n)' = StatusAt(o, n)
           /\ \A o, p : AddedIn(Projected(o, Entered), p)' = AddedIn(Projected(o, Entered'), p)
           /\ \A p : Released(p)' =
                  IF run'.step = "release"
                  THEN AddedIn(Projected(Order', Passed'), p) - Count(run'.items, p) ELSE 0
           /\ \A p : Reserving(p, Passed)' = Reserving(p, Passed')
           /\ \A p : Reserved(p, Passed)' = Reserved(p, Passed')
           /\ Clean(upto)' <=> Clean(upto')
           /\ NeverReleased' <=> NeverReleased
           /\ EndAtCancel' <=> EndAtCancel
           /\ StreamIsLog => StreamIsLog'
           /\ LogIsLegal => LogIsLegal'
<1>1. \A o, n : Shown(o, n)' = Shown(o, n) /\ StatusAt(o, n)' = StatusAt(o, n)
  BY DEF Shown, StatusAt, Projected
<1>2. \A o, p : AddedIn(Projected(o, Entered), p)' = AddedIn(Projected(o, Entered'), p)
  BY DEF Projected, Shown, AddedIn
<1>7. \A p : Released(p)' =
          IF run'.step = "release"
          THEN AddedIn(Projected(Order', Passed'), p) - Count(run'.items, p) ELSE 0
  BY DEF Released, Projected, Shown, AddedIn, Count
<1>3. \A p : Reserving(p, Passed)' = Reserving(p, Passed')
  BY DEF Reserving
<1>4. \A p : Reserved(p, Passed)' = Reserved(p, Passed')
  BY DEF Reserved, Reserving, StatusAt, Shown, Projected
<1>5. /\ Clean(upto)' <=> Clean(upto')
      /\ NeverReleased' <=> NeverReleased
      /\ EndAtCancel' <=> EndAtCancel
  BY DEF Clean, NeverReleased, EndAtCancel
<1>6. (StreamIsLog => StreamIsLog') /\ (LogIsLegal => LogIsLegal')
  BY DEF StreamIsLog, LogIsLegal
<1>. QED  BY <1>1, <1>2, <1>3, <1>4, <1>5, <1>6, <1>7

--------------------------------------------------------------------------------
(* Each step keeps the invariant.                                              *)

\* A step that changes neither the read model nor what of the batch is done; it may
\* read a row that has been replaced, and then find less to release.
LEMMA PlaceKept ==
    ASSUME IInv, TypeOK', RunSound', UNCHANGED <<log, stream, orders, past, reserved, faults>>,
           upto' \in Nat, upto <= upto', Passed' = Passed, Entered' = Entered,
           run' = NoRun => upto' = pos', misread \subseteq misread',
           \A p \in Products : Released(p) \in Int /\ Released(p)' \in Int,
           faults = 0 /\ Clean(upto) => \A p \in Products :
               Released(p) <= Released(p)' /\ (misread' = {} => Released(p)' = Released(p))
    PROVE  IInv'
<1> USE DEF IInv
<1>1. StreamIsLog' /\ LogIsLegal'
  BY LogKept
<1>2. upto \in Nat /\ Passed \in Nat /\ Passed <= upto
  BY TypeFacts, RunFacts
<1>3. RowsSound'
  BY DEF RowsSound
<1>4. \A o : Versions(o)' = Versions(o)
  BY DEF Versions
<1>5. StatusSound'
  <2>1. ASSUME NEW o \in Orders \ misread'
        PROVE  \E m \in Passed' .. upto' : orders'[o].status = StatusAt(o, m)'
    <3>1. PICK m \in Passed .. upto : orders[o].status = StatusAt(o, m)
      BY DEF StatusSound
    <3>2. m \in Passed' .. upto'
      BY <1>2
    <3>. QED  BY <3>1, <3>2, LogKept
  <2>2. ASSUME NEW o \in Orders, NEW row \in Versions(o)
        PROVE  \E m \in 0 .. upto' : row.status = StatusAt(o, m)'
    <3>1. PICK m \in 0 .. upto : row.status = StatusAt(o, m)
      BY DEF StatusSound
    <3>2. m \in 0 .. upto'
      BY <1>2
    <3>. QED  BY <3>1, <3>2, LogKept
  <2>. QED  BY <1>4, <2>1, <2>2 DEF StatusSound
<1>6. Clean(upto)' => Clean(upto)
  BY <1>2, LogKept DEF Clean
<1>7. ItemsSound'
  BY <1>4, <1>6, LogKept DEF ItemsSound
<1>8. ReservedSound'
  <2>1. NeverReleased' => \A p \in Products : Cardinality(Reserving(p, Passed)') <= reserved'[p]
    BY LogKept DEF ReservedSound
  <2>2. ASSUME faults' = 0, Clean(upto)', EndAtCancel', NEW p \in Products
        PROVE  /\ reserved'[p] >= Cardinality(Reserved(p, Passed)') - Released(p)'
               /\ misread' = {} => reserved'[p] = Cardinality(Reserved(p, Passed)') - Released(p)'
    <3>1. /\ reserved[p] >= Cardinality(Reserved(p, Passed)) - Released(p)
          /\ misread = {} => reserved[p] = Cardinality(Reserved(p, Passed)) - Released(p)
      BY <1>6, <2>2, LogKept DEF ReservedSound
    <3>2. Reserved(p, Passed)' = Reserved(p, Passed)
      BY LogKept
    <3>3. /\ Cardinality(Reserved(p, Passed)) \in Nat /\ reserved[p] \in Int
          /\ Released(p) \in Int /\ Released(p)' \in Int
      BY <1>2, ReservedType, TypeFacts
    <3>4. Released(p) <= Released(p)' /\ (misread' = {} => Released(p)' = Released(p))
      BY <1>6, <2>2
    <3>5. misread' = {} => misread = {}
      OBVIOUS
    <3>6. reserved'[p] = reserved[p]
      OBVIOUS
    <3>. QED  BY <3>1, <3>2, <3>3, <3>4, <3>5, <3>6
  <2>. QED  BY <2>1, <2>2 DEF ReservedSound
<1>. QED  BY <1>1, <1>3, <1>5, <1>7, <1>8

\* An invocation that ends early leaves the batch to a redelivery, which would repeat
\* effects: there was a fault, or there is a record that no row takes.
LEMMA FallBack ==
    ASSUME IInv, TypeOK', UNCHANGED <<log, stream, pos, upto, orders, past, misread, reserved>>,
           run # NoRun, run' = NoRun, faults' # 0 \/ ~ Clean(upto)
    PROVE  IInv'
<1> USE DEF IInv
<1>1. StreamIsLog' /\ LogIsLegal'
  BY LogKept
<1>2. /\ upto \in Nat /\ Passed \in Nat /\ Passed <= upto /\ pos \in Nat /\ pos <= Passed
      /\ Entered \in Nat /\ Passed <= Entered /\ Entered <= upto
      /\ upto <= Len(stream) /\ Len(stream) \in Nat
  BY TypeFacts, RunFacts
<1>3. Passed' = pos /\ Entered' = pos
  BY DEF Passed, Entered, NoRun
<1>4. RunSound'
  BY DEF RunSound
<1>5. RowsSound'
  <2>1. 1 .. pos \subseteq 1 .. Passed
    BY <1>2
  <2>2. /\ \A i \in 1 .. pos : orders[stream[i].order] # Missing
        /\ \A i \in 1 .. pos : \A p \in Malformed : stream[i].event # ItemAdded(p)
    BY <2>1 DEF RowsSound
  <2>. QED  BY <1>3, <2>2 DEF RowsSound
<1>6. StatusSound'
  <2>1. ASSUME NEW o \in Orders \ misread
        PROVE  \E m \in Passed' .. upto' : orders'[o].status = StatusAt(o, m)'
    <3>1. PICK m \in Passed .. upto : orders[o].status = StatusAt(o, m)
      BY DEF StatusSound
    <3>2. m \in Passed' .. upto'
      BY <1>2, <1>3
    <3>. QED  BY <3>1, <3>2, LogKept
  <2>. QED  BY <2>1, LogKept DEF StatusSound, Versions
<1>7. ~ (faults' = 0 /\ Clean(upto)')
  BY LogKept
<1>8. ItemsSound'
  <2> SUFFICES ASSUME NEW o \in Orders \ misread, NEW p \in Products
               PROVE  AddedIn(Projected(o, Entered), p)' <= Count(orders'[o].items, p)
    BY <1>7 DEF ItemsSound
  <2>1. AddedIn(Projected(o, pos), p) <= AddedIn(Projected(o, Entered), p)
    BY <1>2, AddedGrows
  <2>2. AddedIn(Projected(o, Entered), p) <= Count(orders[o].items, p)
    BY DEF ItemsSound
  <2>3. AddedIn(Projected(o, pos), p) \in Nat /\ AddedIn(Projected(o, Entered), p) \in Nat
    BY <1>2, AddedCounts
  <2>4. Count(orders[o].items, p) \in Nat
    BY RowType, CountType
  <2>5. AddedIn(Projected(o, Entered), p)' = AddedIn(Projected(o, pos), p)
    BY <1>3, LogKept
  <2>. QED  BY <2>1, <2>2, <2>3, <2>4, <2>5
<1>9. ReservedSound'
  <2> SUFFICES ASSUME NeverReleased', NEW p \in Products
               PROVE  Cardinality(Reserving(p, Passed)') <= reserved'[p]
    BY <1>7 DEF ReservedSound
  <2>1. Cardinality(Reserving(p, Passed)) <= reserved[p] /\ reserved[p] \in Int
    BY LogKept, TypeFacts DEF ReservedSound
  <2>2. Reserving(p, pos) \subseteq Reserving(p, Passed)
    BY <1>2 DEF Reserving
  <2>3. Cardinality(Reserving(p, pos)) <= Cardinality(Reserving(p, Passed))
    BY <1>2, <2>2, ReservingNext, FS_Subset
  <2>4. Cardinality(Reserving(p, pos)) \in Nat /\ Cardinality(Reserving(p, Passed)) \in Nat
    BY <1>2, ReservingNext
  <2>5. Reserving(p, Passed)' = Reserving(p, pos)
    BY <1>3, LogKept
  <2>. QED  BY <2>1, <2>3, <2>4, <2>5
<1>. QED  BY <1>1, <1>4, <1>5, <1>6, <1>8, <1>9

\* handler goes on to the next record.
LEMMA Advance ==
    ASSUME IInv, TypeOK', UNCHANGED <<log, stream, pos, upto, faults>>,
           run # NoRun, run.at <= upto, NextRecord
    PROVE  /\ Passed' = run.at /\ Entered' = run.at /\ Passed = run.at - 1
           /\ run' # NoRun /\ RunSound'
           /\ \A p : Released(p)' = 0
<1>1. /\ run.at \in Nat /\ run.at \in pos + 1 .. upto + 1 /\ Passed = run.at - 1
      /\ upto \in Nat /\ pos \in Nat
  BY RunFacts, TypeFacts DEF IInv, RunSound
<1>2. run' = [step |-> "record", at |-> run.at + 1]
  BY DEF NextRecord
<1>3. run'.step = "record" /\ run'.at = run.at + 1
  BY <1>2
<1>4. run' # NoRun
  BY <1>3 DEF NoRun
<1>5. Passed' = run.at /\ Entered' = run.at
  BY <1>1, <1>3, <1>4 DEF Passed, Entered
<1>6. RunSound'
  BY <1>1, <1>3 DEF RunSound
<1>7. \A p : Released(p)' = 0
  BY <1>3 DEF Released
<1>. QED  BY <1>1, <1>4, <1>5, <1>6, <1>7

\* A record passed brings the row of its order to the status after it.
LEMMA StatusAdvances ==
    ASSUME IInv, UNCHANGED <<log, stream, upto, misread>>,
           Passed' = Passed + 1, Passed + 1 <= upto,
           \A q \in Orders : q # stream[Passed + 1].order => orders'[q] = orders[q],
           LET o == stream[Passed + 1].order IN orders'[o].status = StatusAt(o, Passed + 1),
           \A q \in Orders : \A row \in Versions(q)' : row \in Versions(q) \/ row = orders'[q]
    PROVE  StatusSound'
<1> USE DEF IInv
<1>1. /\ Passed \in Nat /\ upto \in Nat /\ upto <= Len(stream) /\ Len(stream) \in Nat
      /\ Passed + 1 <= Len(stream)
  BY TypeFacts, RunFacts
<1>2. ASSUME NEW q \in Orders \ misread
      PROVE  \E k \in Passed + 1 .. upto : orders'[q].status = StatusAt(q, k)
  <2>1. CASE q = stream[Passed + 1].order
    BY <1>1, <2>1
  <2>2. CASE q # stream[Passed + 1].order
    <3>1. PICK m \in Passed .. upto : orders[q].status = StatusAt(q, m)
      BY DEF StatusSound
    <3>2. StatusAt(q, Passed + 1) = StatusAt(q, Passed)
      BY <1>1, <2>2, OthersStay
    <3>3. CASE m = Passed
      BY <1>1, <2>2, <3>1, <3>2, <3>3
    <3>4. CASE m # Passed
      BY <1>1, <2>2, <3>1, <3>4
    <3>. QED  BY <3>3, <3>4
  <2>. QED  BY <2>1, <2>2
<1>3. ASSUME NEW q \in Orders, NEW row \in Versions(q)'
      PROVE  \E k \in 0 .. upto : row.status = StatusAt(q, k)
  <2>1. CASE row \in Versions(q)
    BY <2>1 DEF StatusSound
  <2>2. CASE row = orders'[q] /\ q = stream[Passed + 1].order
    BY <1>1, <2>2
  <2>3. CASE row = orders'[q] /\ q # stream[Passed + 1].order
    <3>1. row \in Versions(q)
      BY <2>3, RowType
    <3>. QED  BY <3>1 DEF StatusSound
  <2>. QED  BY <2>1, <2>2, <2>3
<1>4. ASSUME NEW q \in Orders \ misread
      PROVE  \E m \in Passed' .. upto' : orders'[q].status = StatusAt(q, m)'
  BY <1>2, LogKept
<1>5. ASSUME NEW q \in Orders, NEW row \in Versions(q)'
      PROVE  \E m \in 0 .. upto' : row.status = StatusAt(q, m)'
  BY <1>3, LogKept
<1>. QED  BY <1>4, <1>5 DEF StatusSound

\* A record passed that is neither of an item nor of a cancellation changes no reservation.
LEMMA ReservationsStay ==
    ASSUME IInv, UNCHANGED <<log, stream, upto, misread, reserved, faults>>,
           Passed' = Passed + 1, Passed + 1 <= upto,
           stream[Passed + 1].event \in {Created, Confirmed},
           \A p \in Products : Released(p) = 0 /\ Released(p)' = 0
    PROVE  ReservedSound'
<1> USE DEF IInv
<1>1. Passed \in Nat /\ upto \in Nat /\ upto <= Len(stream) /\ Len(stream) \in Nat
  BY TypeFacts, RunFacts
<1>2. \A p : /\ Reserving(p, Passed)' = Reserving(p, Passed + 1)
             /\ Reserved(p, Passed)' = Reserved(p, Passed + 1)
  BY LogKept
<1>3. \A p : stream[Passed + 1].event # ItemAdded(p) /\ stream[Passed + 1].event # Cancelled
  BY EventsDiffer
<1>4. \A p : Reserving(p, Passed + 1) = Reserving(p, Passed)
  BY <1>1, <1>3, ReservingNext
<1>5. ASSUME EndAtCancel, NEW p
      PROVE  Cardinality(Reserved(p, Passed + 1)) = Cardinality(Reserved(p, Passed))
  <2>1. Passed + 1 <= Len(stream)
    BY <1>1
  <2>2. Cardinality(Reserved(p, Passed + 1)) = Cardinality(Reserved(p, Passed)) + 0
    BY <1>1, <1>3, <1>5, <2>1, ReservedNext
  <2>. QED  BY <1>1, <2>2, ReservedType
<1>6. /\ Clean(upto)' => Clean(upto)
      /\ EndAtCancel' => EndAtCancel
      /\ NeverReleased' => NeverReleased
  BY LogKept
<1>. QED  BY <1>2, <1>4, <1>5, <1>6 DEF ReservedSound

\* A record passed that is not of an item leaves the items right as they are.
LEMMA ItemsStay ==
    ASSUME IInv, UNCHANGED <<log, stream, upto, misread, faults>>, run' # NoRun,
           Entered = Passed, Entered' = Passed + 1, Passed + 1 <= upto,
           \A p : stream[Passed + 1].event # ItemAdded(p),
           \A q \in Orders : \/ orders'[q].items = orders[q].items
                             \/ orders'[q].items = << >> /\ Shown(q, Passed) = {},
           \A q \in Orders : \A row \in Versions(q)' : row \in Versions(q) \/ row = orders'[q]
    PROVE  ItemsSound'
<1> USE DEF IInv
<1>1. /\ Passed \in Nat /\ upto \in Nat /\ upto <= Len(stream) /\ Len(stream) \in Nat
      /\ Passed \in 0 .. Len(stream) /\ Passed + 1 <= Len(stream)
  BY TypeFacts, RunFacts
<1>2. Clean(upto)' => Clean(upto)
  BY LogKept
<1>3. ASSUME NEW q \in Orders, NEW p \in Products
      PROVE  /\ q \notin misread => AddedIn(Projected(q, Entered), p)' <= Count(orders'[q].items, p)
             /\ faults' = 0 /\ Clean(upto)' =>
                    \A row \in Versions(q)' :
                        Count(row.items, p) <= AddedIn(Projected(q, Entered), p)'
  <2>1. AddedIn(Projected(q, Entered), p)' = AddedIn(Projected(q, Passed + 1), p)
    BY LogKept
  <2>2. AddedIn(Projected(q, Passed + 1), p) = AddedIn(Projected(q, Passed), p)
    BY <1>1, AddedNext, AddedCounts
  <2>5. /\ q \notin misread => AddedIn(Projected(q, Passed), p) <= Count(orders[q].items, p)
        /\ faults = 0 /\ Clean(upto) =>
               \A row \in Versions(q) : Count(row.items, p) <= AddedIn(Projected(q, Passed), p)
    BY DEF ItemsSound
  <2>6. orders[q] \in Versions(q)
    BY RowType
  <2>3. CASE orders'[q].items = orders[q].items
    BY <1>2, <2>1, <2>2, <2>3, <2>5, <2>6
  <2>4. CASE orders'[q].items = << >> /\ Shown(q, Passed) = {}
    <3>1. VersionsOf(q, Passed, p) = {}
      BY <2>4 DEF VersionsOf
    <3>2. AddedIn(Projected(q, Passed), p) = 0
      BY <1>1, <3>1, AddedCounts, FS_EmptySet
    <3>3. Count(orders'[q].items, p) = 0
      BY <2>4, CountEmpty
    <3>. QED  BY <1>2, <2>1, <2>2, <2>5, <3>2, <3>3
  <2>. QED  BY <2>3, <2>4
<1>. QED  BY <1>3 DEF ItemsSound

\* A record is passed when its order has a row and its item can be calculated with.
LEMMA RowsAdvance ==
    ASSUME IInv, UNCHANGED <<log, stream, upto>>, Passed' = Passed + 1, Passed + 1 <= upto,
           \A q \in Orders : orders[q] # Missing => orders'[q] # Missing,
           \A q \in Orders : orders[q] = Missing /\ orders'[q] # Missing =>
                                log[q] # << >> /\ log[q][1] = Created,
           \A q \in Orders : orders'[q] = Missing => past'[q] = {},
           orders'[stream[Passed + 1].order] # Missing,
           \A p \in Malformed : stream[Passed + 1].event # ItemAdded(p)
    PROVE  RowsSound'
<1> USE DEF IInv
<1>1. Passed \in Nat /\ upto \in Nat /\ upto <= Len(stream) /\ Len(stream) \in Nat
  BY TypeFacts, RunFacts
<1>2. ASSUME NEW i \in 1 .. Passed + 1
      PROVE  /\ orders'[stream[i].order] # Missing
             /\ \A p \in Malformed : stream[i].event # ItemAdded(p)
  <2>1. CASE i = Passed + 1
    BY <2>1
  <2>2. CASE i # Passed + 1
    <3>1. i \in 1 .. Passed /\ i \in 1 .. Len(stream)
      BY <1>1, <2>2
    <3>2. orders[stream[i].order] # Missing /\ stream[i].order \in Orders
      BY <3>1, RecordType DEF RowsSound
    <3>3. \A p \in Malformed : stream[i].event # ItemAdded(p)
      BY <3>1 DEF RowsSound
    <3>. QED  BY <3>2, <3>3
  <2>. QED  BY <2>1, <2>2
<1>. QED  BY <1>2 DEF RowsSound

\* project_order_created passes a record.
LEMMA CreatedKeeps ==
    ASSUME IInv, TypeOK', ProjectOrderCreated
    PROVE  IInv'
<1> USE DEF IInv
<1> DEFINE n == run.at - 1
           o == Order
<1>1. /\ run.step = "record" /\ run # NoRun /\ run.at <= upto /\ stream[run.at].event = Created
      /\ UNCHANGED <<log, stream, pos, upto, reserved, misread, faults>> /\ NextRecord
      /\ SetRow(o, [status |-> "draft", items |-> << >>])
  BY DEF ProjectOrderCreated, AtRecord, NoRun
<1>2. /\ run.at \in 1 .. Len(stream) /\ n \in Nat /\ n + 1 = run.at /\ Passed = n
      /\ o \in Orders /\ Entered = n /\ n + 1 <= Len(stream) /\ o = stream[n + 1].order
  BY <1>1, AtFacts, RunFacts, TypeFacts DEF Order
<1>3. /\ Passed' = n + 1 /\ Entered' = n + 1 /\ run' # NoRun /\ RunSound'
      /\ \A p : Released(p)' = 0
  BY <1>1, <1>2, Advance
<1>4. StreamIsLog' /\ LogIsLegal'
  BY <1>1, LogKept
<1>5. stream[n + 1].version = 1 /\ Shown(o, n) = {} /\ StatusAt(o, n + 1) = "draft"
  BY <1>1, <1>2, CreationShows
<1>6. [status |-> "draft", items |-> << >>] \in Rows
  BY EmptySeq DEF Rows
<1>7. /\ orders'[o] = [status |-> "draft", items |-> << >>] /\ orders'[o] # Missing
      /\ \A q \in Orders : q # o => orders'[q] = orders[q]
      /\ \A q \in Orders : orders[q] # Missing => orders'[q] # Missing
      /\ \A q \in Orders : orders'[q] = Missing => past'[q] = {}
      /\ \A q \in Orders : \A v \in Versions(q)' : v \in Versions(q) \/ v = orders'[q]
  BY <1>1, <1>2, <1>6, RowWritten
<1>8. orders'[o].status = "draft" /\ orders'[o].items = << >>
  BY <1>7
<1>9. log[o] # << >> /\ log[o][1] = Created
  <2>1. log[o][1] = Created /\ 1 \in 1 .. Len(log[o]) /\ log[o] \in Seq(Events)
    BY <1>1, <1>2, <1>5, RecordType
  <2>2. 1 \in DOMAIN log[o]
    BY <2>1, LenProperties
  <2>. QED  BY <2>1, <2>2
<1>10. \A p : stream[n + 1].event # ItemAdded(p) /\ Released(p) = 0
  BY <1>1, <1>2, EventsDiffer DEF Released
<1> HIDE DEF n, o
<1>11. RowsSound'
  BY <1>1, <1>2, <1>3, <1>7, <1>9, <1>10, RowsAdvance
<1>12. StatusSound'
  BY <1>1, <1>2, <1>3, <1>5, <1>7, <1>8, StatusAdvances
<1>13. ItemsSound'
  <2>1. \A q \in Orders : \/ orders'[q].items = orders[q].items
                          \/ orders'[q].items = << >> /\ Shown(q, Passed) = {}
    BY <1>2, <1>5, <1>7, <1>8
  <2>2. \A p : stream[Passed + 1].event # ItemAdded(p)
    BY <1>2, <1>10
  <2>. QED  BY <1>1, <1>2, <1>3, <1>7, <2>1, <2>2, ItemsStay
<1>14. ReservedSound'
  BY <1>1, <1>2, <1>3, <1>10, ReservationsStay
<1>. QED  BY <1>3, <1>4, <1>11, <1>12, <1>13, <1>14

\* A confirmation finds the row of its order.
LEMMA ConfirmationHasRow ==
    ASSUME IInv, run.step = "record", run.at <= upto, stream[run.at].event = Confirmed
    PROVE  orders[Order] # Missing
<1> USE DEF IInv
<1>1. run # NoRun
  BY RunFacts
<1>2. run.at \in 1 .. Len(stream) /\ Passed = run.at - 1 /\ Order \in Orders
  BY <1>1, AtFacts
<1>3. /\ stream[run.at].version \in 1 .. Len(log[Order])
      /\ log[Order][stream[run.at].version] = Confirmed /\ Len(log[Order]) \in Nat
  BY <1>2, RecordType DEF Order
<1>4. PICK u \in 1 .. stream[run.at].version - 1 : TRUE
  BY <1>2, <1>3 DEF LogIsLegal
<1>5. u \in Nat \ {0} /\ u < stream[run.at].version
  BY <1>3
<1>6. PICK j \in 1 .. run.at - 1 : stream[j].order = stream[run.at].order
  BY <1>2, <1>5, EarlierIsPassed
<1>. QED  BY <1>2, <1>6 DEF RowsSound, Order

\* project_order_confirmed passes a record.
LEMMA ConfirmedKeeps ==
    ASSUME IInv, TypeOK', ProjectOrderConfirmed
    PROVE  IInv'
<1> USE DEF IInv
<1> DEFINE n == run.at - 1
           o == Order
<1>1. /\ run.step = "record" /\ run # NoRun /\ run.at <= upto /\ stream[run.at].event = Confirmed
      /\ UNCHANGED <<log, stream, pos, upto, reserved, misread, faults>> /\ NextRecord
      /\ SetRow(o, [orders[o] EXCEPT !.status = "confirmed"])
  BY DEF ProjectOrderConfirmed, AtRecord, NoRun
<1>2. /\ run.at \in 1 .. Len(stream) /\ n \in Nat /\ n + 1 = run.at /\ Passed = n
      /\ o \in Orders /\ Entered = n /\ n + 1 <= Len(stream) /\ o = stream[n + 1].order
  BY <1>1, AtFacts, RunFacts, TypeFacts DEF Order
<1>3. /\ Passed' = n + 1 /\ Entered' = n + 1 /\ run' # NoRun /\ RunSound'
      /\ \A p : Released(p)' = 0
  BY <1>1, <1>2, Advance
<1>4. StreamIsLog' /\ LogIsLegal'
  BY <1>1, LogKept
<1>5. StatusAt(o, n + 1) = "confirmed"
  BY <1>1, <1>2, DecisionShows
<1>6. /\ orders[o] # Missing /\ orders[o] \in Rows
      /\ [orders[o] EXCEPT !.status = "confirmed"] \in Rows
  <2>1. orders[o] # Missing /\ orders[o] \in Rows
    BY <1>1, <1>2, RowType, ConfirmationHasRow
  <2>. QED  BY <2>1 DEF Rows
<1>7. /\ orders'[o] = [orders[o] EXCEPT !.status = "confirmed"] /\ orders'[o] # Missing
      /\ \A q \in Orders : q # o => orders'[q] = orders[q]
      /\ \A q \in Orders : orders[q] # Missing => orders'[q] # Missing
      /\ \A q \in Orders : orders'[q] = Missing => past'[q] = {}
      /\ \A q \in Orders : \A v \in Versions(q)' : v \in Versions(q) \/ v = orders'[q]
  BY <1>1, <1>2, <1>6, RowWritten
<1>8. orders'[o].status = "confirmed" /\ orders'[o].items = orders[o].items
  BY <1>6, <1>7 DEF Rows
<1>9. \A p : stream[n + 1].event # ItemAdded(p) /\ Released(p) = 0
  BY <1>1, <1>2, EventsDiffer DEF Released
<1> HIDE DEF n, o
<1>10. RowsSound'
  BY <1>1, <1>2, <1>3, <1>6, <1>7, <1>9, RowsAdvance
<1>11. StatusSound'
  BY <1>1, <1>2, <1>3, <1>5, <1>7, <1>8, StatusAdvances
<1>12. ItemsSound'
  <2>1. \A q \in Orders : orders'[q].items = orders[q].items
    BY <1>7, <1>8
  <2>2. \A p : stream[Passed + 1].event # ItemAdded(p)
    BY <1>2, <1>9
  <2>. QED  BY <1>1, <1>2, <1>3, <1>7, <2>1, <2>2, ItemsStay
<1>13. ReservedSound'
  BY <1>1, <1>2, <1>3, <1>9, ReservationsStay
<1>. QED  BY <1>3, <1>4, <1>10, <1>11, <1>12, <1>13

\* project_order_cancelled passes a record with its last call.
LEMMA CancelledKeeps ==
    ASSUME IInv, TypeOK', MarkCancelled
    PROVE  IInv'
<1> USE DEF IInv
<1> DEFINE n == run.at - 1
           o == Order
<1>1. /\ run.step = "release" /\ run.items = << >> /\ run # NoRun
      /\ UNCHANGED <<log, stream, pos, upto, reserved, misread, faults>> /\ NextRecord
      /\ SetRow(o, [orders[o] EXCEPT !.status = "cancelled"])
  BY DEF MarkCancelled, NoRun
<1>2. run.at <= upto /\ orders[o] # Missing /\ stream[run.at].event = Cancelled
  BY <1>1 DEF RunSound
<1>3. /\ run.at \in 1 .. Len(stream) /\ n \in Nat /\ n + 1 = run.at /\ Passed = n
      /\ o \in Orders /\ Entered = n /\ n + 1 <= Len(stream) /\ o = stream[n + 1].order
  BY <1>1, <1>2, AtFacts, RunFacts, TypeFacts DEF Order
<1>4. /\ Passed' = n + 1 /\ Entered' = n + 1 /\ run' # NoRun /\ RunSound'
      /\ \A p : Released(p)' = 0
  BY <1>1, <1>2, <1>3, Advance
<1>5. StreamIsLog' /\ LogIsLegal'
  BY <1>1, LogKept
<1>6. StatusAt(o, n + 1) = "cancelled"
  BY <1>2, <1>3, DecisionShows, EventsDiffer
<1>7. orders[o] \in Rows /\ [orders[o] EXCEPT !.status = "cancelled"] \in Rows
  <2>1. orders[o] \in Rows
    BY <1>2, <1>3, RowType
  <2>. QED  BY <2>1 DEF Rows
<1>8. /\ orders'[o] = [orders[o] EXCEPT !.status = "cancelled"] /\ orders'[o] # Missing
      /\ \A q \in Orders : q # o => orders'[q] = orders[q]
      /\ \A q \in Orders : orders[q] # Missing => orders'[q] # Missing
      /\ \A q \in Orders : orders'[q] = Missing => past'[q] = {}
      /\ \A q \in Orders : \A v \in Versions(q)' : v \in Versions(q) \/ v = orders'[q]
  BY <1>1, <1>3, <1>7, RowWritten
<1>9. orders'[o].status = "cancelled" /\ orders'[o].items = orders[o].items
  BY <1>7, <1>8 DEF Rows
<1>10. \A p : stream[n + 1].event # ItemAdded(p)
  BY <1>2, <1>3, EventsDiffer
<1>11. \A p : Released(p) = AddedIn(Projected(o, n), p)
  <2>1. \A p : Released(p) = AddedIn(Projected(o, n), p) - 0
    BY <1>1, <1>3, CountEmpty DEF Released
  <2>2. \A p : AddedIn(Projected(o, n), p) \in Nat
    <3>1. n \in 0 .. Len(stream)
      BY <1>3, TypeFacts
    <3>. QED  BY <1>3, <3>1, AddedCounts
  <2>. QED  BY <2>1, <2>2
<1> HIDE DEF n, o
<1>12. RowsSound'
  BY <1>1, <1>2, <1>3, <1>4, <1>8, <1>10, RowsAdvance
<1>13. StatusSound'
  BY <1>1, <1>2, <1>3, <1>4, <1>6, <1>8, <1>9, StatusAdvances
<1>14. ItemsSound'
  <2>1. \A q \in Orders : orders'[q].items = orders[q].items
    BY <1>8, <1>9
  <2>2. \A p : stream[Passed + 1].event # ItemAdded(p)
    BY <1>3, <1>10
  <2>. QED  BY <1>1, <1>2, <1>3, <1>4, <1>8, <2>1, <2>2, ItemsStay
<1>15. ReservedSound'
  <2>1. ~ NeverReleased'
    BY <1>1, <1>2, <1>3, TypeFacts, LogKept DEF NeverReleased
  <2>2. ASSUME faults = 0, Clean(upto), EndAtCancel, NEW p \in Products
        PROVE  /\ reserved[p] >= Cardinality(Reserved(p, n + 1))
               /\ misread = {} => reserved[p] = Cardinality(Reserved(p, n + 1))
    <3>1. Cardinality(Reserved(p, n + 1)) = Cardinality(Reserved(p, n)) - AddedIn(Projected(o, n), p)
      BY <1>2, <1>3, <2>2, ReservedCancelled
    <3>2. /\ reserved[p] >= Cardinality(Reserved(p, n)) - Released(p)
          /\ misread = {} => reserved[p] = Cardinality(Reserved(p, n)) - Released(p)
      BY <1>3, <2>2 DEF ReservedSound
    <3>. QED  BY <1>11, <3>1, <3>2
  <2>3. ASSUME NEW p \in Products
        PROVE  Reserved(p, Passed)' = Reserved(p, n + 1) /\ Cardinality(Reserved(p, n + 1)) \in Nat
    BY <1>1, <1>3, <1>4, LogKept, ReservedType
  <2>4. faults' = 0 /\ Clean(upto)' /\ EndAtCancel' => faults = 0 /\ Clean(upto) /\ EndAtCancel
    BY <1>1, LogKept
  <2>. QED  BY <1>1, <1>4, <2>1, <2>2, <2>3, <2>4 DEF ReservedSound
<1>. QED  BY <1>4, <1>5, <1>12, <1>13, <1>14, <1>15

\* project_item_added reads the row that it will write.
LEMMA ItemReadKeeps ==
    ASSUME IInv, TypeOK', NEW p \in Products, ProjectItemAdded(p)
    PROVE  IInv'
<1> USE DEF IInv
<1>1. PICK row \in Seen(Order) : GetItem(Order, row) /\ run' = [step |-> "write", at |-> run.at, row |-> row]
  BY DEF ProjectItemAdded
<1>2. /\ run.step = "record" /\ run # NoRun /\ run.at <= upto /\ stream[run.at].event = ItemAdded(p)
      /\ UNCHANGED <<log, stream, pos, upto, orders, past, reserved, faults>> /\ p \notin Malformed
  BY DEF ProjectItemAdded, AtRecord, NoRun, table
<1>3. run'.step = "write" /\ run'.at = run.at /\ run'.row = row /\ run' # NoRun
  BY <1>1 DEF NoRun
<1>4. Order \in Orders /\ run.at \in pos + 1 .. upto + 1 /\ Order' = Order
  BY <1>2, <1>3, AtFacts DEF RunSound, Order
<1>5. /\ row \in Seen(Order) /\ orders[Order] # Missing /\ misread \subseteq misread'
      /\ Order \notin misread' => row = orders[Order]
  BY <1>1, <1>4, RowRead
<1>6. Seen(Order)' = Seen(Order)
  BY <1>2, <1>4 DEF Seen
<1>7. RunSound'
  BY <1>2, <1>3, <1>4, <1>5, <1>6 DEF RunSound
<1>8. Passed' = Passed /\ Entered' = Entered
  BY <1>2, <1>3 DEF Passed, Entered
<1>9. \A q : Released(q) = 0 /\ Released(q)' = 0
  BY <1>2, <1>3 DEF Released
<1>10. upto' \in Nat /\ upto <= upto'
  BY <1>2, TypeFacts
<1>. QED  BY <1>2, <1>3, <1>5, <1>7, <1>8, <1>9, <1>10, PlaceKept

\* project_item_added enters the item in the row and stays at its record.
LEMMA ItemEnteredKeeps ==
    ASSUME IInv, TypeOK', PutRow
    PROVE  IInv'
<1> USE DEF IInv
<1> DEFINE n == run.at - 1
           o == Order
           p == stream[run.at].event.product
           new == [run.row EXCEPT !.items = Append(@, p)]
<1>1. /\ run.step = "write" /\ run # NoRun
      /\ UNCHANGED <<log, stream, pos, upto, reserved, misread, faults>>
      /\ SetRow(o, new) /\ run' = [step |-> "reserve", at |-> run.at]
  BY DEF PutRow, NoRun
<1>2. /\ run.at <= upto /\ run.at \in pos + 1 .. upto + 1
      /\ \E q \in Products \ Malformed : stream[run.at].event = ItemAdded(q)
      /\ run.row \in Seen(o) /\ (o \notin misread => run.row = orders[o])
  BY <1>1 DEF RunSound
<1>3. /\ run.at \in 1 .. Len(stream) /\ n \in Nat /\ n + 1 = run.at /\ Passed = n
      /\ o \in Orders /\ Entered = n /\ n + 1 <= Len(stream) /\ o = stream[n + 1].order
  BY <1>1, <1>2, AtFacts, RunFacts, TypeFacts DEF Order
<1>4. p \in Products /\ p \notin Malformed /\ stream[run.at].event = ItemAdded(p)
  BY <1>2 DEF ItemAdded
<1>5. run'.step = "reserve" /\ run'.at = run.at /\ run' # NoRun
  BY <1>1 DEF NoRun
<1>6. Passed' = n /\ Entered' = n + 1 /\ \A q : Released(q)' = 0 /\ Released(q) = 0
  BY <1>1, <1>3, <1>5 DEF Passed, Entered, Released
<1>7. StreamIsLog' /\ LogIsLegal'
  BY <1>1, LogKept
<1>8. /\ run.row \in Rows /\ run.row \in Versions(o) /\ run.row.items \in Seq(Products)
      /\ Append(run.row.items, p) \in Seq(Products) /\ new \in Rows
      /\ new.status = run.row.status /\ new.items = Append(run.row.items, p)
  <2>1. run.row \in Rows /\ run.row \in Versions(o)
    BY <1>2, <1>3, RowType
  <2>2. run.row.items \in Seq(Products) /\ Append(run.row.items, p) \in Seq(Products)
    BY <1>4, <2>1, AppendProperties DEF Rows
  <2>. QED  BY <2>1, <2>2 DEF Rows
<1> HIDE DEF new
<1>9. /\ orders'[o] = new /\ orders'[o] # Missing
      /\ \A q \in Orders : q # o => orders'[q] = orders[q]
      /\ \A q \in Orders : orders[q] # Missing => orders'[q] # Missing
      /\ \A q \in Orders : orders'[q] = Missing => past'[q] = {}
      /\ \A q \in Orders : \A v \in Versions(q)' : v \in Versions(q) \/ v = orders'[q]
  BY <1>1, <1>3, <1>8, RowWritten
<1>10. RunSound'
  <2>1. Order' = o
    BY <1>1, <1>5 DEF Order
  <2>. QED  BY <1>1, <1>2, <1>5, <1>9, <2>1 DEF RunSound
<1>16. orders[o] # Missing
  BY <1>1 DEF RunSound
<1> HIDE DEF n, o, p
<1>11. RowsSound'
  <2>1. ASSUME NEW i \in 1 .. n
        PROVE  /\ orders'[stream[i].order] # Missing
               /\ \A q \in Malformed : stream[i].event # ItemAdded(q)
    <3>1. i \in 1 .. Len(stream)
      BY <1>3, TypeFacts
    <3>2. orders[stream[i].order] # Missing /\ \A q \in Malformed : stream[i].event # ItemAdded(q)
      BY <1>3 DEF RowsSound
    <3>. QED  BY <1>9, <3>1, <3>2, RecordType
  <2>2. ASSUME NEW q \in Orders, orders'[q] # Missing PROVE log[q] # << >> /\ log[q][1] = Created
    <3>1. orders[q] # Missing
      BY <1>9, <1>16, <2>2
    <3>. QED  BY <3>1 DEF RowsSound
  <2>. QED  BY <1>1, <1>6, <1>9, <2>1, <2>2 DEF RowsSound
<1>12. StatusSound'
  <2>1. ASSUME NEW q \in Orders \ misread
        PROVE  \E m \in Passed .. upto : orders'[q].status = StatusAt(q, m)
    <3>1. orders'[q].status = orders[q].status
      BY <1>2, <1>8, <1>9
    <3>2. PICK m \in Passed .. upto : orders[q].status = StatusAt(q, m)
      BY DEF StatusSound
    <3>. QED  BY <3>1, <3>2
  <2>2. ASSUME NEW q \in Orders, NEW row \in Versions(q)'
        PROVE  \E m \in 0 .. upto : row.status = StatusAt(q, m)
    <3>1. PICK old \in Versions(q) : row.status = old.status
      <4>1. CASE row \in Versions(q)
        BY <4>1
      <4>2. CASE row = orders'[q] /\ q = o
        BY <1>8, <1>9, <4>2
      <4>3. CASE row = orders'[q] /\ q # o
        BY <1>9, <4>3, RowType
      <4>. QED  BY <1>9, <4>1, <4>2, <4>3
    <3>2. PICK m \in 0 .. upto : old.status = StatusAt(q, m)
      BY DEF StatusSound
    <3>. QED  BY <3>1, <3>2
  <2>3. ASSUME NEW q \in Orders \ misread
        PROVE  \E m \in Passed' .. upto' : orders'[q].status = StatusAt(q, m)'
    BY <1>1, <1>3, <1>6, <2>1, LogKept
  <2>4. ASSUME NEW q \in Orders, NEW row \in Versions(q)'
        PROVE  \E m \in 0 .. upto' : row.status = StatusAt(q, m)'
    BY <1>1, <2>2, LogKept
  <2>. QED  BY <1>1, <2>3, <2>4 DEF StatusSound
<1>13. ItemsSound'
  <2>1. Clean(upto)' => Clean(upto)
    BY <1>1, LogKept
  <2>2. ASSUME NEW q \in Orders, NEW r \in Products
        PROVE  /\ q \notin misread => AddedIn(Projected(q, Entered), r)' <= Count(orders'[q].items, r)
               /\ faults' = 0 /\ Clean(upto)' =>
                      \A row \in Versions(q)' :
                          Count(row.items, r) <= AddedIn(Projected(q, Entered), r)'
    <3> DEFINE more == IF q = o /\ r = p THEN 1 ELSE 0
               added == AddedIn(Projected(q, n), r)
    <3>1. AddedIn(Projected(q, Entered), r)' = AddedIn(Projected(q, n + 1), r)
      BY <1>1, <1>6, LogKept
    <3>2. AddedIn(Projected(q, n + 1), r) = added + more
      <4>1. stream[n + 1].order = q /\ stream[n + 1].event = ItemAdded(r) <=> q = o /\ r = p
        BY <1>3, <1>4, EventsDiffer
      <4>. QED  BY <1>3, <4>1, AddedNext
    <3>3. /\ q \notin misread => added <= Count(orders[q].items, r)
          /\ faults = 0 /\ Clean(upto) => \A row \in Versions(q) : Count(row.items, r) <= added
      BY <1>3 DEF ItemsSound
    <3>4. added \in Nat /\ \A row \in Versions(q) : Count(row.items, r) \in Nat
      <4>1. n \in 0 .. Len(stream)
        BY <1>3, TypeFacts
      <4>. QED  BY <4>1, AddedCounts, RowType, CountType
    <3>5. ASSUME q = o
          PROVE  Count(orders'[o].items, r) = Count(run.row.items, r) + more
      <4>1. Count(Append(run.row.items, p), r) = Count(run.row.items, r) + IF r = p THEN 1 ELSE 0
        BY <1>4, <1>8, CountAppend
      <4>. QED  BY <1>8, <1>9, <3>5, <4>1
    <3>6. ASSUME q # o PROVE orders'[q] = orders[q] /\ orders[q] \in Versions(q) /\ more = 0
      BY <1>9, <3>6, RowType
    <3>7. more \in {0, 1} /\ orders[q] \in Versions(q)
      BY RowType
    <3> HIDE DEF more, added
    <3>8. ASSUME q \notin misread PROVE added + more <= Count(orders'[q].items, r)
      <4>1. CASE q = o
        <5>1. run.row = orders[o]
          BY <1>2, <3>8, <4>1
        <5>2. Count(orders'[o].items, r) = Count(orders[o].items, r) + more
          BY <3>5, <4>1, <5>1
        <5>3. added <= Count(orders[o].items, r) /\ Count(orders[o].items, r) \in Nat
          BY <3>3, <3>4, <3>7, <3>8, <4>1
        <5>. QED  BY <3>4, <3>7, <4>1, <5>2, <5>3
      <4>2. CASE q # o
        BY <3>3, <3>4, <3>6, <3>8, <4>2
      <4>. QED  BY <4>1, <4>2
    <3>9. ASSUME faults = 0, Clean(upto), NEW row \in Versions(q)'
          PROVE  Count(row.items, r) <= added + more
      <4>1. CASE row \in Versions(q)
        <5>1. Count(row.items, r) <= added /\ Count(row.items, r) \in Nat
          BY <3>3, <3>4, <3>9, <4>1
        <5>. QED  BY <3>4, <3>7, <5>1
      <4>2. CASE row = orders'[q] /\ q = o
        <5>1. Count(run.row.items, r) <= added /\ Count(run.row.items, r) \in Nat
          BY <1>8, <3>3, <3>4, <3>9, <4>2
        <5>2. Count(row.items, r) = Count(run.row.items, r) + more
          BY <3>5, <4>2
        <5>. QED  BY <3>4, <3>7, <5>1, <5>2
      <4>3. CASE row = orders'[q] /\ q # o
        <5>1. row \in Versions(q)
          BY <3>6, <4>3
        <5>. QED  BY <4>1, <5>1
      <4>. QED  BY <1>9, <4>1, <4>2, <4>3
    <3>. QED  BY <1>1, <2>1, <3>1, <3>2, <3>8, <3>9
  <2>. QED  BY <1>1, <1>5, <2>2 DEF ItemsSound
<1>14. ReservedSound'
  <2>1. \A q : /\ Reserving(q, Passed)' = Reserving(q, n)
               /\ Reserved(q, Passed)' = Reserved(q, n)
    BY <1>1, <1>6, LogKept
  <2>2. /\ Clean(upto)' => Clean(upto)
        /\ EndAtCancel' => EndAtCancel
        /\ NeverReleased' => NeverReleased
    BY <1>1, LogKept
  <2>. QED  BY <1>1, <1>3, <1>6, <2>1, <2>2 DEF ReservedSound
<1>. QED  BY <1>7, <1>10, <1>11, <1>12, <1>13, <1>14

\* project_item_added reserves the item and passes its record.
LEMMA ReserveKeeps ==
    ASSUME IInv, TypeOK', ReserveItem
    PROVE  IInv'
<1> USE DEF IInv
<1> DEFINE n == run.at - 1
           o == Order
           p == stream[run.at].event.product
<1>1. /\ run.step = "reserve" /\ run # NoRun
      /\ UNCHANGED <<log, stream, pos, upto, orders, past, misread, faults>> /\ NextRecord
      /\ reserved' = [reserved EXCEPT ![p] = @ + 1]
  BY DEF ReserveItem, AddReserved, NoRun, table
<1>2. /\ run.at <= upto /\ orders[o] # Missing
      /\ \E q \in Products \ Malformed : stream[run.at].event = ItemAdded(q)
  BY <1>1 DEF RunSound
<1>3. /\ run.at \in 1 .. Len(stream) /\ n \in Nat /\ n + 1 = run.at /\ Passed = n
      /\ o \in Orders /\ n + 1 <= Len(stream) /\ o = stream[n + 1].order
  BY <1>1, <1>2, AtFacts, RunFacts, TypeFacts DEF Order
<1>4. Entered = n + 1 /\ \A q : Released(q) = 0
  BY <1>1, <1>3 DEF Entered, Released
<1>5. p \in Products /\ p \notin Malformed /\ stream[n + 1].event = ItemAdded(p)
  BY <1>2, <1>3 DEF ItemAdded
<1>6. /\ Passed' = n + 1 /\ Entered' = n + 1 /\ run' # NoRun /\ RunSound'
      /\ \A q : Released(q)' = 0
  BY <1>1, <1>2, <1>3, Advance
<1>7. StreamIsLog' /\ LogIsLegal'
  BY <1>1, LogKept
<1> HIDE DEF n, o, p
<1>8. RowsSound'
  <2>1. \A q \in Malformed : stream[n + 1].event # ItemAdded(q)
    BY <1>5, EventsDiffer
  <2>2. \A q \in Orders : orders'[q] = Missing => past'[q] = {}
    BY <1>1 DEF RowsSound
  <2>. QED  BY <1>1, <1>2, <1>3, <1>6, <2>1, <2>2, RowsAdvance
<1>12. \A q : Versions(q)' = Versions(q)
  BY <1>1 DEF Versions
<1>9. StatusSound'
  <2>4. ASSUME NEW q \in Orders, NEW row \in Versions(q)
        PROVE  \E m \in 0 .. upto' : row.status = StatusAt(q, m)'
    BY <1>1, LogKept DEF StatusSound
  <2> SUFFICES ASSUME NEW q \in Orders \ misread
               PROVE  \E m \in Passed' .. upto' : orders'[q].status = StatusAt(q, m)'
    BY <1>1, <1>12, <2>4 DEF StatusSound
  <2>1. PICK m \in n .. upto : orders[q].status = StatusAt(q, m)
    BY <1>3 DEF StatusSound
  <2>2. upto \in Nat
    BY TypeFacts
  <2>3. \E k \in n + 1 .. upto : orders[q].status = StatusAt(q, k)
    <3>1. CASE m # n
      BY <1>3, <2>1, <2>2, <3>1
    <3>2. CASE m = n
      <4>1. StatusAt(q, n + 1) = StatusAt(q, n)
        <5>1. CASE q # o
          BY <1>3, <5>1, OthersStay
        <5>2. CASE q = o
          <6>1. orders[o].status # "missing"
            BY <1>2, <1>3, RowType
          <6>2. Shown(o, n) # {}
            BY <2>1, <3>2, <5>2, <6>1 DEF StatusAt
          <6>. QED  BY <1>3, <1>5, <5>2, <6>2, ItemKeepsStatus
        <5>. QED  BY <5>1, <5>2
      <4>2. n + 1 \in n + 1 .. upto
        BY <1>2, <1>3, <2>2
      <4>. QED  BY <2>1, <3>2, <4>1, <4>2
    <3>. QED  BY <3>1, <3>2
  <2>. QED  BY <1>1, <1>6, <2>3, LogKept
<1>10. ItemsSound'
  BY <1>1, <1>4, <1>6, <1>12, LogKept DEF ItemsSound
<1>11. ReservedSound'
  <2>1. \A q : /\ Reserving(q, Passed)' = Reserving(q, n + 1)
               /\ Reserved(q, Passed)' = Reserved(q, n + 1)
    BY <1>1, <1>6, LogKept
  <2>2. /\ Clean(upto)' => Clean(upto)
        /\ EndAtCancel' => EndAtCancel
        /\ NeverReleased' => NeverReleased
    BY <1>1, LogKept
  <2>3. ASSUME NEW q \in Products
        PROVE  /\ reserved[q] \in Int
               /\ reserved'[q] = reserved[q] + IF q = p THEN 1 ELSE 0
    BY <1>1, <1>5, TypeFacts
  <2>4. ASSUME NEW q \in Products
        PROVE  Cardinality(Reserving(q, n + 1)) =
                   Cardinality(Reserving(q, n)) + IF q = p THEN 1 ELSE 0
    <3>1. stream[n + 1].event = ItemAdded(q) <=> q = p
      BY <1>5, EventsDiffer
    <3>2. CASE q = p
      <4>1. Reserving(q, n + 1) = Reserving(q, n) \cup {n + 1} /\ n + 1 \notin Reserving(q, n)
            /\ IsFiniteSet(Reserving(q, n))
        BY <1>3, <3>1, <3>2, ReservingNext
      <4>. QED  BY <3>2, <4>1, FS_AddElement
    <3>3. CASE q # p
      <4>1. Reserving(q, n + 1) = Reserving(q, n) /\ Cardinality(Reserving(q, n)) \in Nat
        BY <1>3, <3>1, <3>3, ReservingNext
      <4>. QED  BY <3>3, <4>1
    <3>. QED  BY <3>2, <3>3
  <2>5. ASSUME EndAtCancel, NEW q \in Products
        PROVE  Cardinality(Reserved(q, n + 1)) =
                   Cardinality(Reserved(q, n)) + IF q = p THEN 1 ELSE 0
    <3>1. stream[n + 1].event = ItemAdded(q) <=> q = p
      BY <1>5, EventsDiffer
    <3>2. stream[n + 1].event # Cancelled
      BY <1>5, EventsDiffer
    <3>. QED  BY <1>3, <2>5, <3>1, <3>2, ReservedNext
  <2>6. \A q : Cardinality(Reserving(q, n)) \in Nat /\ Cardinality(Reserved(q, n)) \in Nat
    BY <1>3, ReservingNext, ReservedType
  <2>7. ASSUME NeverReleased', NEW q \in Products
        PROVE  Cardinality(Reserving(q, Passed))' <= reserved'[q]
    <3>1. Cardinality(Reserving(q, n)) <= reserved[q]
      BY <1>3, <2>2, <2>7 DEF ReservedSound
    <3>. QED  BY <2>1, <2>3, <2>4, <2>6, <3>1
  <2>8. ASSUME faults' = 0, Clean(upto)', EndAtCancel', NEW q \in Products
        PROVE  /\ reserved'[q] >= Cardinality(Reserved(q, Passed))' - Released(q)'
               /\ misread' = {} => reserved'[q] = Cardinality(Reserved(q, Passed))' - Released(q)'
    <3>1. /\ reserved[q] >= Cardinality(Reserved(q, n)) - Released(q)
          /\ misread = {} => reserved[q] = Cardinality(Reserved(q, n)) - Released(q)
      BY <1>1, <1>3, <2>2, <2>8 DEF ReservedSound
    <3>. QED  BY <1>1, <1>4, <1>6, <2>1, <2>2, <2>3, <2>5, <2>6, <2>8, <3>1
  <2>. QED  BY <2>7, <2>8 DEF ReservedSound
<1>. QED  BY <1>6, <1>7, <1>8, <1>9, <1>10, <1>11

\* ADD applied and sent again reserves too much, which only a fault explains.
LEMMA UnacknowledgedKeeps ==
    ASSUME IInv, TypeOK', ReserveUnacknowledged
    PROVE  IInv'
<1> USE DEF IInv
<1> DEFINE p == stream[run.at].event.product
<1>1. /\ UNCHANGED <<log, stream, pos, upto, run, orders, past, misread>> /\ faults' = faults + 1
      /\ reserved' = [reserved EXCEPT ![p] = @ + 1]
  BY DEF ReserveUnacknowledged, Fault, AddReserved, table
<1>2. faults' # 0 /\ reserved \in [Products -> Int]
  BY <1>1, TypeFacts
<1>3. Passed' = Passed /\ Entered' = Entered
  BY <1>1 DEF Passed, Entered
<1>4. StreamIsLog' /\ LogIsLegal' /\ RunSound' /\ RowsSound'
  BY <1>1, <1>3, LogKept DEF RunSound, RowsSound, Order, Seen
<1>5. StatusSound'
  BY <1>1, <1>3, LogKept DEF StatusSound, Versions
<1>6. ItemsSound'
  BY <1>1, <1>2, <1>3, LogKept DEF ItemsSound
<1> HIDE DEF p
<1>7. ReservedSound'
  <2> SUFFICES ASSUME NeverReleased', NEW q \in Products
               PROVE  Cardinality(Reserving(q, Passed))' <= reserved'[q]
    BY <1>2 DEF ReservedSound
  <2>1. Cardinality(Reserving(q, Passed)) <= reserved[q]
    BY <1>1, LogKept DEF ReservedSound
  <2>2. Cardinality(Reserving(q, Passed)) \in Nat
    BY RunFacts, ReservingNext
  <2>3. reserved[q] \in Int /\ reserved'[q] \in {reserved[q], reserved[q] + 1}
    BY <1>1, <1>2
  <2>4. Cardinality(Reserving(q, Passed))' = Cardinality(Reserving(q, Passed))
    BY <1>1, <1>3, LogKept
  <2>. QED  BY <2>1, <2>2, <2>3, <2>4
<1>. QED  BY <1>4, <1>5, <1>6, <1>7

\* project_order_cancelled releases the next item.
LEMMA ReleaseKeeps ==
    ASSUME IInv, TypeOK', ReleaseItem
    PROVE  IInv'
<1> USE DEF IInv
<1> DEFINE p == Head(run.items)
<1>1. /\ UNCHANGED <<log, stream, pos, upto, orders, past, misread, faults>>
      /\ run.step = "release" /\ run.items # << >> /\ reserved' = [reserved EXCEPT ![p] = @ + (-1)]
      /\ run' = [run EXCEPT !.items = Tail(@)] /\ run # NoRun
  BY DEF ReleaseItem, AddReserved, NoRun, table
<1>2. run \in [step : {"release"}, at : Nat, items : Seq(Products)] /\ reserved \in [Products -> Int]
  BY <1>1, TypeFacts DEF Runs
<1>3. run'.step = "release" /\ run'.at = run.at /\ run'.items = Tail(run.items) /\ run' # NoRun
  BY <1>1, <1>2 DEF NoRun
<1>4. Passed' = Passed /\ Entered' = Entered
  BY <1>1, <1>3 DEF Passed, Entered
<1>5. StreamIsLog' /\ LogIsLegal' /\ RunSound' /\ RowsSound'
  BY <1>1, <1>3, <1>4, LogKept DEF RunSound, RowsSound, Order
<1>14. \A q : Versions(q)' = Versions(q)
  BY <1>1 DEF Versions
<1>6. StatusSound'
  BY <1>1, <1>4, <1>14, LogKept DEF StatusSound
<1>7. ItemsSound'
  BY <1>1, <1>3, <1>4, <1>14, LogKept DEF ItemsSound
<1>8. run.at <= upto /\ stream[run.at].event = Cancelled /\ run.at \in 1 .. Len(stream)
      /\ Order \in Orders
  BY <1>1, AtFacts DEF RunSound
<1>9. ~ NeverReleased'
  BY <1>1, <1>8, TypeFacts, LogKept DEF NeverReleased
<1>10. p \in Products
  BY <1>1, <1>2, HeadTailProperties
<1>11. ASSUME NEW q \in Products
       PROVE  /\ Released(q)' = Released(q) + IF q = p THEN 1 ELSE 0
              /\ reserved'[q] = reserved[q] - IF q = p THEN 1 ELSE 0
              /\ Released(q) \in Int /\ reserved[q] \in Int
  <2> DEFINE added == AddedIn(Projected(Order, Passed), q)
  <2>1. /\ Released(q) = added - Count(run.items, q)
        /\ Released(q)' = added - Count(Tail(run.items), q)
    <3>1. Order' = Order
      BY <1>1, <1>3 DEF Order
    <3>2. Released(q)' = AddedIn(Projected(Order', Passed'), q) - Count(run'.items, q)
      BY <1>1, <1>3, LogKept
    <3>. QED  BY <1>1, <1>3, <1>4, <3>1, <3>2 DEF Released
  <2>2. Count(Tail(run.items), q) = Count(run.items, q) - IF q = p THEN 1 ELSE 0
    BY <1>1, <1>2, CountTail
  <2>3. Count(run.items, q) \in Nat /\ added \in Nat
    <3>1. Passed \in 0 .. Len(stream)
      BY RunFacts, TypeFacts
    <3>. QED  BY <1>2, <1>8, <3>1, AddedCounts, CountType
  <2>4. /\ reserved'[q] = reserved[q] - IF q = p THEN 1 ELSE 0
        /\ reserved[q] \in Int
    BY <1>1, <1>2, <1>10
  <2> HIDE DEF p, added
  <2>. QED  BY <2>1, <2>2, <2>3, <2>4
<1> HIDE DEF p
<1>12. ASSUME faults' = 0, Clean(upto)', EndAtCancel', NEW q \in Products
       PROVE  /\ reserved'[q] >= Cardinality(Reserved(q, Passed))' - Released(q)'
              /\ misread' = {} => reserved'[q] = Cardinality(Reserved(q, Passed))' - Released(q)'
  <2>1. /\ reserved[q] >= Cardinality(Reserved(q, Passed)) - Released(q)
        /\ misread = {} => reserved[q] = Cardinality(Reserved(q, Passed)) - Released(q)
    BY <1>1, <1>12, LogKept DEF ReservedSound
  <2>2. Cardinality(Reserved(q, Passed))' = Cardinality(Reserved(q, Passed))
    BY <1>1, <1>4, LogKept
  <2>3. Cardinality(Reserved(q, Passed)) \in Nat
    BY RunFacts, ReservedType
  <2>. QED  BY <1>1, <1>11, <2>1, <2>2, <2>3
<1>13. ReservedSound'
  BY <1>9, <1>12 DEF ReservedSound
<1>. QED  BY <1>5, <1>6, <1>7, <1>13

\* project_order_cancelled reads the row it will release.
LEMMA ReleaseStartsKeeps ==
    ASSUME IInv, TypeOK', ProjectOrderCancelled
    PROVE  IInv'
<1> USE DEF IInv
<1>1. PICK row \in Seen(Order) :
          GetItem(Order, row) /\ run' = [step |-> "release", at |-> run.at, items |-> row.items]
  BY DEF ProjectOrderCancelled
<1>2. /\ UNCHANGED <<log, stream, pos, upto, orders, past, reserved, faults>> /\ run.step = "record"
      /\ run # NoRun /\ run.at <= upto /\ stream[run.at].event = Cancelled
  BY DEF ProjectOrderCancelled, AtRecord, table, NoRun
<1>3. run'.step = "release" /\ run'.at = run.at /\ run'.items = row.items /\ run' # NoRun
  BY <1>1 DEF NoRun
<1>4. /\ Passed' = Passed /\ Entered' = Entered /\ Order' = Order /\ Entered = Passed
      /\ Order \in Orders /\ Passed \in 0 .. Len(stream)
  <2>1. Passed' = Passed /\ Entered' = Entered /\ Order' = Order /\ Entered = Passed
    BY <1>2, <1>3 DEF Passed, Entered, Order
  <2>. QED  BY <1>2, <2>1, AtFacts, RunFacts, TypeFacts
<1>5. /\ row \in Versions(Order) /\ orders[Order] # Missing /\ misread \subseteq misread'
      /\ Order \notin misread' => row = orders[Order]
  BY <1>1, <1>4, RowRead
<1>6. RunSound'
  BY <1>2, <1>3, <1>4, <1>5 DEF RunSound
<1>7. ASSUME NEW p \in Products
      PROVE  /\ Released(p) = 0
             /\ Released(p)' = AddedIn(Projected(Order, Passed), p) - Count(row.items, p)
             /\ AddedIn(Projected(Order, Passed), p) \in Nat /\ Count(row.items, p) \in Nat
  <2>1. AddedIn(Projected(Order, Passed), p) \in Nat /\ Count(row.items, p) \in Nat
    BY <1>4, <1>5, AddedCounts, RowType, CountType
  <2>2. Released(p)' = AddedIn(Projected(Order', Passed'), p) - Count(run'.items, p)
    BY <1>2, <1>3, LogKept
  <2>. QED  BY <1>2, <1>3, <1>4, <2>1, <2>2 DEF Released
<1>8. ASSUME faults = 0, Clean(upto), NEW p \in Products
      PROVE  Count(row.items, p) <= AddedIn(Projected(Order, Passed), p)
  BY <1>4, <1>5, <1>8 DEF ItemsSound
<1>9. ASSUME faults = 0, Clean(upto) PROVE \A p \in Products : Released(p) <= Released(p)'
  BY <1>7, <1>8, <1>9
<1>10. ASSUME faults = 0, Clean(upto), misread' = {}, NEW p \in Products
       PROVE  Released(p)' = Released(p)
  <2>1. row = orders[Order] /\ Order \notin misread
    BY <1>5, <1>10
  <2>2. AddedIn(Projected(Order, Passed), p) <= Count(row.items, p)
    BY <1>4, <2>1 DEF ItemsSound
  <2>3. Count(row.items, p) <= AddedIn(Projected(Order, Passed), p)
    BY <1>8, <1>10
  <2>. QED  BY <1>7, <2>2, <2>3
<1>11. upto' \in Nat /\ upto <= upto' /\ run' # NoRun
  BY <1>2, <1>3, TypeFacts
<1>12. \A p \in Products : Released(p) \in Int /\ Released(p)' \in Int
  BY <1>7
<1>. QED  BY <1>2, <1>4, <1>5, <1>6, <1>9, <1>10, <1>11, <1>12, PlaceKept

\* A record that takes a row and finds none shows an order that was never created.
LEMMA MissingRowKeeps ==
    ASSUME IInv, TypeOK', MissingRow
    PROVE  IInv'
<1> USE DEF IInv
<1>1. /\ UNCHANGED <<log, stream, pos, upto, orders, past, misread, reserved, faults>>
      /\ run.step = "record" /\ run # NoRun /\ run.at <= upto /\ stream[run.at].event # Created
      /\ orders[Order] = Missing /\ run' = NoRun
  BY DEF MissingRow, ReadsRow, AtRecord, readModel, table, NoRun
<1>2. run.at \in 1 .. Len(stream) /\ Passed = run.at - 1 /\ Order \in Orders /\ upto \in Nat
  BY <1>1, AtFacts, TypeFacts
<1>3. log[Order][1] # Created
  <2>1. SUFFICES ASSUME log[Order][1] = Created PROVE FALSE
    OBVIOUS
  <2>2. /\ stream[run.at].version \in 1 .. Len(log[Order])
        /\ stream[run.at].event = log[Order][stream[run.at].version] /\ Len(log[Order]) \in Nat
    BY <1>2, RecordType DEF Order
  <2>3. 1 < stream[run.at].version
    BY <1>1, <2>1, <2>2
  <2>4. PICK j \in 1 .. run.at - 1 : stream[j].order = stream[run.at].order
    BY <1>2, <2>3, EarlierIsPassed
  <2>. QED  BY <1>1, <1>2, <2>4 DEF RowsSound, Order
<1>4. run.at \in 1 .. upto
  BY <1>1, <1>2
<1>5. ~ Clean(upto)
  BY <1>3, <1>4 DEF Clean, Order
<1>. QED  BY <1>1, <1>5, FallBack

\* An item that cannot be calculated with is a record that no row takes.
LEMMA MalformedItemKeeps ==
    ASSUME IInv, TypeOK', MalformedItem
    PROVE  IInv'
<1> USE DEF IInv
<1>1. PICK p \in Malformed : AtRecord(ItemAdded(p))
  BY DEF MalformedItem
<1>2. /\ UNCHANGED <<log, stream, pos, upto, orders, past, misread, reserved, faults>>
      /\ run # NoRun /\ run' = NoRun /\ run.at <= upto /\ stream[run.at].event = ItemAdded(p)
  BY <1>1 DEF MalformedItem, AtRecord, readModel, table, NoRun
<1>3. run.at \in 1 .. upto
  BY <1>2, AtFacts, TypeFacts
<1>4. ~ Clean(upto)
  BY <1>2, <1>3 DEF Clean
<1>. QED  BY <1>2, <1>4, FallBack

\* The event source mapping and the end of handler keep the invariant.
LEMMA DeliveryKeeps ==
    ASSUME IInv, TypeOK', (\E n \in 1 .. BatchSize : StartBatch(n)) \/ RedeliverBatch \/ FinishBatch
    PROVE  IInv'
<1> USE DEF IInv
<1>1. /\ UNCHANGED <<log, stream, orders, past, misread, reserved, faults>>
      /\ run.step \in {"none", "record"}
  BY DEF StartBatch, RedeliverBatch, FinishBatch, readModel, table, NoRun
<1>2. pos \in Nat /\ upto \in Nat /\ pos <= upto /\ pos' \in Nat /\ upto' \in Nat
  BY TypeFacts, BoundsAssumption DEF StartBatch, RedeliverBatch, FinishBatch
<1>3. CASE run = NoRun /\ run' = [step |-> "record", at |-> pos + 1] /\ pos' = pos /\ upto <= upto'
  <2>1. run'.step = "record" /\ run'.at = pos + 1 /\ run' # NoRun /\ run.step = "none"
    BY <1>3 DEF NoRun
  <2>2. Passed' = Passed /\ Entered' = Entered /\ \A p : Released(p) = 0 /\ Released(p)' = 0
    BY <1>2, <1>3, <2>1 DEF Passed, Entered, Released
  <2>3. RunSound'
    <3>0. pos' = pos /\ upto <= upto'
      BY <1>3
    <3>1. pos + 1 \in pos + 1 .. upto' + 1
      <4>1. \A a, b, c \in Nat : a <= b /\ b <= c => a + 1 \in a + 1 .. c + 1
        OBVIOUS
      <4>. QED  BY <1>2, <3>0, <4>1
    <3>2. run'.at \in pos' + 1 .. upto' + 1
      BY <2>1, <3>0, <3>1
    <3>. QED  BY <2>1, <3>2 DEF RunSound
  <2>. QED  BY <1>1, <1>2, <1>3, <2>1, <2>2, <2>3, PlaceKept
<1>4. CASE FinishBatch
  <2>1. run.step = "record" /\ run # NoRun /\ run.at > upto /\ pos' = upto /\ run' = NoRun /\ upto' = upto
    BY <1>4 DEF FinishBatch, NoRun
  <2>2. run.at = upto + 1 /\ Passed = run.at - 1 /\ Entered = Passed
    BY <1>2, <2>1, RunFacts DEF RunSound
  <2>3. Passed' = upto /\ Entered' = upto /\ \A p : Released(p) = 0 /\ Released(p)' = 0
    BY <2>1 DEF Passed, Entered, Released, NoRun
  <2>4. RunSound'
    BY <2>1 DEF RunSound
  <2>. QED  BY <1>1, <1>2, <2>1, <2>2, <2>3, <2>4, PlaceKept
<1>5. FinishBatch \/ (run = NoRun /\ run' = [step |-> "record", at |-> pos + 1] /\ pos' = pos /\ upto <= upto')
  BY <1>2 DEF StartBatch, RedeliverBatch
<1>. QED  BY <1>3, <1>4, <1>5

--------------------------------------------------------------------------------
(* Storing an event keeps the invariant.                                       *)

\* Appending to a sequence adds one place and leaves the others.
LEMMA AppendedIs ==
    ASSUME NEW S, NEW s \in Seq(S), NEW e \in S
    PROVE  /\ Len(Append(s, e)) = Len(s) + 1 /\ DOMAIN Append(s, e) = 1 .. Len(s) + 1
           /\ Append(s, e)[Len(s) + 1] = e /\ \A i \in 1 .. Len(s) : Append(s, e)[i] = s[i]
<1>1. Append(s, e) \in Seq(S) /\ Len(Append(s, e)) = Len(s) + 1
  BY AppendProperties
<1>2. DOMAIN Append(s, e) = 1 .. Len(s) + 1
  BY <1>1, LenProperties
<1>3. Append(s, e)[Len(s) + 1] = e /\ \A i \in 1 .. Len(s) : Append(s, e)[i] = s[i]
  BY AppendProperties
<1>. QED  BY <1>1, <1>2, <1>3

\* A stored event is appended to the history of one order, for which it is legal, and
\* to the stream.
LEMMA StoredIsAppended ==
    ASSUME TypeOK, StoreEvent
    PROVE  \E o \in Orders : \E e \in Events :
               /\ log' = [log EXCEPT ![o] = Append(log[o], e)]
               /\ e = Created => log[o] = << >>
               /\ e = Confirmed => \E v \in 1 .. Len(log[o]) : \E p \in Products : log[o][v] = ItemAdded(p)
               /\ stream' = Append(stream, [order |-> o, version |-> Len(log[o]) + 1, event |-> e])
<1>1. log \in [Orders -> Seq(Events)]
  BY TypeFacts
<1>2. PICK o \in Orders : \E e \in Events :
          /\ log' = [log EXCEPT ![o] = Append(log[o], e)]
          /\ e = Created => log[o] = << >>
          /\ e = Confirmed => Confirmable(log[o])
  <2>1. PICK o \in Orders : \/ Commands!CreateOrder(o)
                            \/ \E p \in Products : Commands!AddItem(o, p)
                            \/ Commands!ConfirmOrder(o)
                            \/ Commands!CancelOrder(o)
    BY DEF StoreEvent, Commands!Next
  <2>2. /\ Commands!Created = Created /\ Commands!Confirmed = Confirmed
        /\ Commands!Cancelled = Cancelled /\ \A p : Commands!ItemAdded(p) = ItemAdded(p)
    BY DEF Commands!Created, Commands!Confirmed, Commands!Cancelled, Commands!ItemAdded,
           Created, Confirmed, Cancelled, ItemAdded
  <2>3. Commands!Confirmable(log[o]) <=> Confirmable(log[o])
    BY <2>2 DEF Commands!Confirmable, Commands!Status, Commands!Decisions, Commands!ItemVersions,
           Confirmable, Status, Decisions, ItemVersions
  <2>. QED
    BY <2>1, <2>2, <2>3, EventsDiffer
    DEF Commands!CreateOrder, Commands!AddItem, Commands!ConfirmOrder, Commands!CancelOrder,
        Commands!AppendEvent
<1>3. PICK e \in Events :
          /\ log' = [log EXCEPT ![o] = Append(log[o], e)]
          /\ e = Created => log[o] = << >>
          /\ e = Confirmed => Confirmable(log[o])
  BY <1>2
<1>4. log[o] \in Seq(Events) /\ Len(log[o]) \in Nat /\ DOMAIN log[o] = 1 .. Len(log[o])
  BY TypeFacts
<1>5. /\ log'[o] = Append(log[o], e)
      /\ \A q \in Orders : q # o => log'[q] = log[q]
  BY <1>1, <1>3
<1>6. /\ Len(log'[o]) = Len(log[o]) + 1 /\ log'[o][Len(log[o]) + 1] = e
  BY <1>4, <1>5, AppendProperties
<1>7. log'[o] # log[o]
  BY <1>4, <1>6
<1>8. (CHOOSE q \in Orders : log'[q] # log[q]) = o
  BY <1>5, <1>7
<1>9. Last(log'[o]) = e
  BY <1>6 DEF Last
<1>10. stream' = Append(stream, [order |-> o, version |-> Len(log[o]) + 1, event |-> e])
  BY <1>6, <1>8, <1>9 DEF StoreEvent
<1>11. ASSUME e = Confirmed
       PROVE  \E v \in 1 .. Len(log[o]) : \E p \in Products : log[o][v] = ItemAdded(p)
  <2>1. PICK v \in DOMAIN log[o] : log[o][v].type = "ItemAdded"
    BY <1>3, <1>11 DEF Confirmable, ItemVersions
  <2>2. log[o][v] \in Events
    BY <1>4, <2>1, ElementOfSeq
  <2>3. log[o][v] \notin {Created, Confirmed, Cancelled}
    BY <2>1 DEF Created, Confirmed, Cancelled
  <2>. QED  BY <1>4, <2>1, <2>2, <2>3, EventsDiffer
<1>. QED  BY <1>3, <1>10, <1>11

\* A stored event keeps the invariant: nothing before it changes.
LEMMA StoreKeeps ==
    ASSUME IInv, TypeOK', StoreEvent
    PROVE  IInv'
<1> USE DEF IInv
<1>1. PICK o \in Orders : \E e \in Events :
               /\ log' = [log EXCEPT ![o] = Append(log[o], e)]
               /\ e = Created => log[o] = << >>
               /\ e = Confirmed => \E v \in 1 .. Len(log[o]) : \E p \in Products : log[o][v] = ItemAdded(p)
               /\ stream' = Append(stream, [order |-> o, version |-> Len(log[o]) + 1, event |-> e])
  BY StoredIsAppended
<1>2. PICK e \in Events :
               /\ log' = [log EXCEPT ![o] = Append(log[o], e)]
               /\ e = Created => log[o] = << >>
               /\ e = Confirmed => \E v \in 1 .. Len(log[o]) : \E p \in Products : log[o][v] = ItemAdded(p)
               /\ stream' = Append(stream, [order |-> o, version |-> Len(log[o]) + 1, event |-> e])
  BY <1>1
<1> DEFINE r == [order |-> o, version |-> Len(log[o]) + 1, event |-> e]
           k == Len(log[o])
           n == Len(stream)
<1>3. /\ log \in [Orders -> Seq(Events)] /\ stream \in Seq(Records) /\ n \in Nat
      /\ k \in Nat /\ log[o] \in Seq(Events) /\ DOMAIN stream = 1 .. n
      /\ \A q \in Orders : Len(log[q]) \in Nat /\ DOMAIN log[q] = 1 .. Len(log[q])
      /\ upto \in Nat /\ upto <= n /\ pos \in Nat
  BY TypeFacts
<1>4. UNCHANGED <<pos, upto, run, orders, past, misread, reserved, faults>>
  BY DEF StoreEvent, readModel, table
<1>5. /\ log'[o] = Append(log[o], e) /\ Len(log'[o]) = k + 1 /\ log'[o][k + 1] = e
      /\ DOMAIN log'[o] = 1 .. k + 1
      /\ \A v \in 1 .. k : log'[o][v] = log[o][v]
      /\ \A q \in Orders : q # o => log'[q] = log[q]
  <2>1. log'[o] = Append(log[o], e) /\ \A q \in Orders : q # o => log'[q] = log[q]
    BY <1>2, <1>3
  <2>2. /\ Len(Append(log[o], e)) = k + 1 /\ DOMAIN Append(log[o], e) = 1 .. k + 1
        /\ Append(log[o], e)[k + 1] = e /\ \A v \in 1 .. k : Append(log[o], e)[v] = log[o][v]
    BY <1>3, AppendedIs
  <2>. QED  BY <2>1, <2>2
<1>6. r \in Records /\ r.order = o /\ r.version = k + 1 /\ r.event = e
  BY <1>3 DEF Records
<1>7. /\ Len(stream') = n + 1 /\ stream'[n + 1] = r /\ DOMAIN stream' = 1 .. n + 1
      /\ \A i \in 1 .. n : stream'[i] = stream[i]
  <2>1. stream' = Append(stream, r)
    BY <1>2
  <2>2. /\ Len(Append(stream, r)) = n + 1 /\ DOMAIN Append(stream, r) = 1 .. n + 1
        /\ Append(stream, r)[n + 1] = r /\ \A i \in 1 .. n : Append(stream, r)[i] = stream[i]
    BY <1>3, <1>6, AppendedIs
  <2>. QED  BY <2>1, <2>2
<1> HIDE DEF r, k, n
<1>8. \A q \in Orders : \A v \in 1 .. Len(log[q]) :
          v \in 1 .. Len(log'[q]) /\ log'[q][v] = log[q][v]
  <2>1. ASSUME NEW v \in 1 .. Len(log[o])
        PROVE  v \in 1 .. Len(log'[o]) /\ log'[o][v] = log[o][v]
    <3>1. v \in 1 .. k /\ v \in 1 .. k + 1
      BY <1>3 DEF k
    <3>. QED  BY <1>5, <3>1
  <2>. QED  BY <1>5, <2>1
<1>9. \A i \in 1 .. n : /\ stream[i].order \in Orders
                        /\ stream[i].version \in 1 .. Len(log[stream[i].order])
                        /\ stream[i].event = log[stream[i].order][stream[i].version]
  BY RecordType DEF n
<1>10. StreamIsLog'
  <2>1. ASSUME NEW i \in 1 .. n + 1
        PROVE  /\ stream'[i].version \in 1 .. Len(log'[stream'[i].order])
               /\ stream'[i].event = log'[stream'[i].order][stream'[i].version]
    <3>1. CASE i \in 1 .. n
      <4>1. stream'[i] = stream[i]
        BY <1>7, <3>1
      <4>2. /\ stream[i].order \in Orders
            /\ stream[i].version \in 1 .. Len(log[stream[i].order])
            /\ stream[i].event = log[stream[i].order][stream[i].version]
        BY <1>9, <3>1
      <4>. QED  BY <1>8, <4>1, <4>2
    <3>2. CASE i = n + 1
      BY <1>3, <1>5, <1>6, <1>7, <3>2
    <3>. QED  BY <1>3, <3>1, <3>2
  <2>2. ASSUME NEW i \in 1 .. n + 1, NEW j \in 1 .. n + 1, i < j, stream'[i].order = stream'[j].order
        PROVE  stream'[i].version < stream'[j].version
    <3>1. i \in 1 .. n
      BY <1>3, <2>2
    <3>2. CASE j \in 1 .. n
      BY <1>7, <2>2, <3>1, <3>2 DEF StreamIsLog, n
    <3>3. CASE j = n + 1
      <4>1. stream[i].order = o /\ stream[i].version \in 1 .. k
        BY <1>6, <1>7, <1>9, <2>2, <3>1, <3>3 DEF k
      <4>. QED  BY <1>3, <1>6, <1>7, <3>1, <3>3, <4>1
    <3>4. n \in Nat
      BY <1>3
    <3> HIDE DEF n
    <3>5. j \in 1 .. n \/ j = n + 1
      BY <3>4
    <3>. QED  BY <3>2, <3>3, <3>5
  <2>3. ASSUME NEW q \in Orders, NEW v \in 1 .. Len(log'[q])
        PROVE  \E i \in 1 .. n + 1 : stream'[i].order = q /\ stream'[i].version = v
    <3>1. CASE v \in 1 .. Len(log[q])
      <4>1. \A s \in Orders : \A u \in 1 .. Len(log[s]) :
                \E i \in 1 .. n : stream[i].order = s /\ stream[i].version = u
        BY DEF StreamIsLog, n
      <4>2. PICK i \in 1 .. n : stream[i].order = q /\ stream[i].version = v
        BY <3>1, <4>1
      <4>. QED  BY <1>3, <1>7, <4>2
    <3>2. CASE v \notin 1 .. Len(log[q])
      <4>1. q = o /\ v = k + 1
        BY <1>3, <1>5, <3>2 DEF k
      <4>2. n + 1 \in 1 .. n + 1
        BY <1>3
      <4>. QED  BY <1>6, <1>7, <4>1, <4>2
    <3>. QED  BY <3>1, <3>2
  <2>. QED  BY <1>7, <2>1, <2>2, <2>3 DEF StreamIsLog
<1>11. LogIsLegal'
  <2> SUFFICES ASSUME NEW q \in Orders, NEW v \in 1 .. Len(log'[q])
               PROVE  /\ log'[q][v] = Created => v = 1
                      /\ log'[q][v] = Confirmed =>
                             \E u \in 1 .. v - 1 : \E p \in Products : log'[q][u] = ItemAdded(p)
    BY DEF LogIsLegal
  <2>1. CASE v \in 1 .. Len(log[q])
    <3>1. \A u \in 1 .. v - 1 : u \in 1 .. Len(log[q])
      BY <1>3, <2>1
    <3>. QED  BY <1>8, <2>1, <3>1 DEF LogIsLegal
  <2>2. CASE v \notin 1 .. Len(log[q])
    <3>1. q = o /\ v = k + 1 /\ log'[q][v] = e
      BY <1>3, <1>5, <2>2 DEF k
    <3>2. e = Created => k = 0
      BY <1>2, EmptySeq DEF k
    <3>3. 1 .. v - 1 = 1 .. k
      BY <1>3, <3>1
    <3>. QED  BY <1>2, <1>3, <1>5, <3>1, <3>2, <3>3 DEF k
  <2>. QED  BY <2>1, <2>2
<1>12. /\ Passed' = Passed /\ Entered' = Entered
       /\ Passed \in Nat /\ Entered \in Nat /\ Passed <= upto /\ Entered <= upto
  <2>1. Passed' = Passed /\ Entered' = Entered
    BY <1>4 DEF Passed, Entered
  <2>. QED  BY <2>1, RunFacts
<1>13. ASSUME NEW q \in Orders, NEW m \in 0 .. n
       PROVE  /\ Shown(q, m)' = Shown(q, m) /\ StatusAt(q, m)' = StatusAt(q, m)
              /\ \A p : VersionsOf(q, m, p)' = VersionsOf(q, m, p)
              /\ Projected(q, m)' = Projected(q, m)
  <2>1. 1 .. m \subseteq 1 .. n
    BY <1>3
  <2>2. Shown(q, m)' = Shown(q, m)
    BY <1>7, <2>1 DEF Shown
  <2>3. \A v \in Shown(q, m) : log'[q][v] = log[q][v]
    BY <1>8, ShownIsPrefix DEF n
  <2>4. Projected(q, m)' = Projected(q, m)
    BY <2>2, <2>3 DEF Projected
  <2>. QED  BY <2>2, <2>3, <2>4 DEF StatusAt, VersionsOf
<1>14. ASSUME NEW q \in Orders PROVE Projected(q, Entered)' = Projected(q, Entered)
  <2>1. PICK m \in 0 .. n : m = Entered
    BY <1>3, <1>12
  <2>2. Projected(q, Entered)' = Projected(q, m)'
    BY <1>12, <2>1 DEF Projected, Shown
  <2>. QED  BY <1>13, <2>1, <2>2
<1>15. \A i \in 1 .. Passed : i \in 1 .. n /\ stream'[i] = stream[i]
  BY <1>3, <1>7, <1>12
<1>16. \A p : Reserving(p, Passed)' = Reserving(p, Passed)
  BY <1>12, <1>15 DEF Reserving
<1>17. ASSUME NEW p PROVE Reserved(p, Passed)' = Reserved(p, Passed)
  <2>1. PICK m \in 0 .. n : m = Passed
    BY <1>3, <1>12
  <2>2. Reserved(p, Passed)' = Reserved(p, m)'
    BY <1>12, <2>1 DEF Reserved, Reserving, StatusAt, Projected, Shown
  <2>3. Reserving(p, m)' = Reserving(p, m)
    BY <1>15, <2>1 DEF Reserving
  <2>4. ASSUME NEW i \in Reserving(p, m)
        PROVE  StatusAt(stream[i].order, m)' = StatusAt(stream[i].order, m)
    <3>1. i \in 1 .. n /\ stream'[i] = stream[i] /\ stream[i].order \in Orders
      BY <1>9, <1>15, <2>1 DEF Reserving
    <3>2. PICK q \in Orders : q = stream[i].order
      BY <3>1
    <3>3. StatusAt(stream[i].order, m)' = StatusAt(q, m)'
      BY <3>1, <3>2 DEF StatusAt, Projected, Shown
    <3>. QED  BY <1>13, <3>2, <3>3
  <2>. QED  BY <2>1, <2>2, <2>3, <2>4 DEF Reserved
<1>18. Clean(upto)' => Clean(upto)
  <2>1. ASSUME NEW i \in 1 .. upto
        PROVE  stream'[i] = stream[i] /\ log'[stream[i].order][1] = log[stream[i].order][1]
    <3>1. i \in 1 .. n
      BY <1>3
    <3>2. 1 \in 1 .. Len(log[stream[i].order])
      <4>1. /\ stream[i].version \in 1 .. Len(log[stream[i].order])
            /\ Len(log[stream[i].order]) \in Nat
        BY <3>1, RecordType DEF n
      <4>. QED  BY <4>1
    <3>3. stream'[i] = stream[i] /\ stream[i].order \in Orders
      BY <1>7, <1>9, <3>1
    <3>. QED  BY <1>8, <3>2, <3>3
  <2>. QED  BY <1>4, <2>1 DEF Clean
<1>19. NeverReleased' => NeverReleased
  BY <1>3, <1>7 DEF NeverReleased
<1>20. EndAtCancel' => EndAtCancel
  <2> SUFFICES ASSUME EndAtCancel', NEW q \in Orders, NEW v \in 1 .. Len(log[q]), log[q][v] = Cancelled
               PROVE  v = Len(log[q])
    BY <1>3 DEF EndAtCancel, EndsAtCancel
  <2>3. /\ v \in 1 .. Len(log'[q]) /\ log'[q][v] = Cancelled
        /\ \A u \in 1 .. Len(log'[q]) : log'[q][u] = Cancelled => u = Len(log'[q])
    BY <1>3, <1>8 DEF EndAtCancel, EndsAtCancel
  <2>1. CASE q # o
    BY <1>5, <2>1, <2>3
  <2>2. CASE q = o
    <3>1. v \in DOMAIN log'[o] /\ log'[o][v] = Cancelled /\ v # k + 1
      BY <1>3, <1>5, <2>2 DEF k
    <3>. QED  BY <1>5, <3>1 DEF EndAtCancel, EndsAtCancel
  <2>. QED  BY <2>1, <2>2
<1>21. run # NoRun /\ run.step # "record" =>
           /\ run.at \in 1 .. n /\ stream'[run.at] = stream[run.at] /\ Order' = Order
           /\ Order \in Orders
  <2>1. ASSUME run # NoRun, run.step # "record" PROVE run.at \in 1 .. n /\ Order \in Orders
    BY <2>1, AtFacts, RunFacts DEF RunSound, n
  <2>. QED  BY <1>4, <1>7, <2>1 DEF Order
<1>28. \A q : Versions(q)' = Versions(q) /\ Seen(q)' = Seen(q)
  BY <1>4 DEF Versions, Seen
<1>22. RunSound'
  <2> SUFFICES ASSUME run # NoRun PROVE RunSound'
    BY <1>4 DEF RunSound
  <2>1. CASE run.step = "record"
    BY <1>4, <2>1 DEF RunSound
  <2>2. CASE run.step # "record"
    <3>1. Seen(Order)' = Seen(Order)
      BY <1>4, <1>21, <2>2 DEF Seen
    <3>. QED  BY <1>4, <1>21, <2>2, <3>1 DEF RunSound
  <2>. QED  BY <2>1, <2>2
<1>23. RowsSound'
  <2>1. \A q \in Orders : log[q] # << >> /\ log[q][1] = Created => log'[q] # << >> /\ log'[q][1] = Created
    <3> SUFFICES ASSUME NEW q \in Orders, log[q] # << >>, log[q][1] = Created
                 PROVE  log'[q] # << >> /\ log'[q][1] = Created
      OBVIOUS
    <3>1. 1 \in 1 .. Len(log[q])
      BY <1>3, EmptySeq, TypeFacts
    <3>2. 1 \in 1 .. Len(log'[q]) /\ log'[q][1] = Created
      BY <1>8, <3>1
    <3>3. q = o => log'[q] # << >>
      BY <1>3, <1>5, AppendProperties
    <3>. QED  BY <1>5, <3>2, <3>3
  <2>. QED  BY <1>4, <1>12, <1>15, <2>1 DEF RowsSound
<1>24. StatusSound'
  <2>3. ASSUME NEW q \in Orders, NEW row \in Versions(q)
        PROVE  \E m \in 0 .. upto' : row.status = StatusAt(q, m)'
    <3>1. PICK m \in 0 .. upto : row.status = StatusAt(q, m)
      BY DEF StatusSound
    <3>2. m \in 0 .. n
      BY <1>3
    <3>. QED  BY <1>4, <1>13, <3>1, <3>2
  <2> SUFFICES ASSUME NEW q \in Orders \ misread
               PROVE  \E m \in Passed' .. upto' : orders'[q].status = StatusAt(q, m)'
    BY <1>4, <1>28, <2>3 DEF StatusSound
  <2>1. PICK m \in Passed .. upto : orders[q].status = StatusAt(q, m)
    BY DEF StatusSound
  <2>2. m \in 0 .. n
    BY <1>3, <1>12
  <2>. QED  BY <1>4, <1>12, <1>13, <2>1, <2>2
<1>25. ItemsSound'
  BY <1>4, <1>14, <1>18, <1>28 DEF ItemsSound
<1>26. ASSUME NEW p PROVE Released(p)' = Released(p)
  <2>1. CASE run.step = "release"
    <3>1. PICK m \in 0 .. n : m = Passed
      BY <1>3, <1>12
    <3>4. Order' = Order /\ Order \in Orders
      BY <1>21, <2>1, RunFacts
    <3>5. PICK q \in Orders : q = Order
      BY <3>4
    <3>2. Projected(Order, Passed)' = Projected(q, m)'
      BY <1>12, <3>1, <3>4, <3>5 DEF Projected, Shown
    <3>3. Projected(Order, Passed)' = Projected(Order, Passed)
      BY <1>13, <3>1, <3>2, <3>5
    <3>. QED  BY <1>4, <2>1, <3>3 DEF Released, AddedIn, Count
  <2>2. CASE run.step # "release"
    BY <1>4, <2>2 DEF Released
  <2>. QED  BY <2>1, <2>2
<1>27. ReservedSound'
  BY <1>4, <1>16, <1>17, <1>18, <1>19, <1>20, <1>26 DEF ReservedSound
<1>. QED  BY <1>10, <1>11, <1>22, <1>23, <1>24, <1>25, <1>27

--------------------------------------------------------------------------------
\* The rows, the run and the counters keep their types.
LEMMA NextTypeOK ==
    ASSUME IInv, Next
    PROVE  TypeOK'
<1> USE DEF IInv
<1>1. /\ log \in [Orders -> Seq(Events)] /\ stream \in Seq(Records) /\ Len(stream) \in Nat
      /\ pos \in Nat /\ upto \in Nat /\ pos <= upto /\ upto <= Len(stream)
      /\ run \in Runs /\ faults \in 0 .. MaxFaults /\ MaxFaults \in Nat
      /\ orders \in [Orders -> Rows \cup {Missing}] /\ reserved \in [Products -> Int]
      /\ past \in [Orders -> SUBSET (Rows \cup {Missing})] /\ misread \subseteq Orders
  BY TypeFacts, BoundsAssumption DEF TypeOK
<1>2. NoRun \in Runs
  BY DEF Runs
<1>3. ASSUME StoreEvent PROVE TypeOK'
  <2>1. PICK o \in Orders, e \in Events :
               /\ log' = [log EXCEPT ![o] = Append(log[o], e)]
               /\ stream' = Append(stream, [order |-> o, version |-> Len(log[o]) + 1, event |-> e])
    BY <1>3, StoredIsAppended
  <2>2. log[o] \in Seq(Events) /\ Len(log[o]) \in Nat
    BY TypeFacts
  <2>3. log' \in [Orders -> Seq(Events)]
    BY <1>1, <2>1, <2>2, AppendProperties
  <2>4. [order |-> o, version |-> Len(log[o]) + 1, event |-> e] \in Records
    BY <2>2 DEF Records
  <2>5. stream' \in Seq(Records) /\ Len(stream') = Len(stream) + 1
    BY <1>1, <2>1, <2>4, AppendProperties
  <2>6. Commands!TypeOK'
    BY <2>3, SameEvents DEF Commands!TypeOK
  <2>7. UNCHANGED <<pos, upto, run, orders, past, misread, reserved, faults>>
    BY <1>3 DEF StoreEvent, readModel, table
  <2>8. upto' <= Len(stream')
    BY <1>1, <2>5, <2>7
  <2>9. pos' \in 0 .. Len(stream') /\ upto' \in pos' .. Len(stream')
    BY <1>1, <2>5, <2>7
  <2>. QED  BY <1>1, <2>5, <2>6, <2>7, <2>9 DEF TypeOK
<1>4. ASSUME log' = log, stream' = stream,
             pos' \in 0 .. Len(stream), upto' \in pos' .. Len(stream), run' \in Runs,
             orders' \in [Orders -> Rows \cup {Missing}], reserved' \in [Products -> Int],
             past' \in [Orders -> SUBSET (Rows \cup {Missing})], misread' \subseteq Orders,
             faults' \in 0 .. MaxFaults
      PROVE  TypeOK'
  <2>1. Commands!TypeOK'
    BY <1>1, <1>4, SameEvents DEF Commands!TypeOK
  <2>. QED  BY <1>1, <1>4, <2>1 DEF TypeOK
<1>5. pos \in 0 .. Len(stream) /\ upto \in pos .. Len(stream)
  BY DEF TypeOK
<1>6. ASSUME NEW n \in 1 .. BatchSize, StartBatch(n) PROVE TypeOK'
  <2>1. n \in Nat /\ pos + 1 \in Nat
    BY <1>1, BoundsAssumption
  <2>2. run' \in Runs
    BY <1>6, <2>1 DEF StartBatch, Runs
  <2>. QED  BY <1>1, <1>4, <1>5, <1>6, <2>1, <2>2 DEF StartBatch, readModel, table
<1>7. ASSUME RedeliverBatch PROVE TypeOK'
  <2>1. run' \in Runs
    BY <1>1, <1>7 DEF RedeliverBatch, Runs
  <2>. QED  BY <1>1, <1>4, <1>5, <1>7, <2>1 DEF RedeliverBatch, readModel, table
<1>8. ASSUME FinishBatch PROVE TypeOK'
  BY <1>1, <1>2, <1>4, <1>5, <1>8 DEF FinishBatch, readModel, table
<1>9. ASSUME NextRecord, run # NoRun PROVE run' \in Runs
  <2>1. run.at + 1 \in Nat
    BY <1>9, RunFacts
  <2>. QED  BY <1>9, <2>1 DEF NextRecord, Runs
<1>10. ASSUME NEW row \in Rows, NEW o, o \in Orders, SetRow(o, row)
       PROVE  /\ orders' \in [Orders -> Rows \cup {Missing}]
              /\ past' \in [Orders -> SUBSET (Rows \cup {Missing})]
  BY <1>10, RowWritten
<1>11. ASSUME run.step \in {"record", "write", "reserve", "release"}
       PROVE  run # NoRun /\ (run.at <= upto => Order \in Orders)
  BY <1>11, RunFacts, AtFacts
<1>12. ASSUME ProjectOrderCreated PROVE TypeOK'
  <2>1. [status |-> "draft", items |-> << >>] \in Rows
    BY EmptySeq DEF Rows
  <2>2. Order \in Orders /\ run # NoRun
    BY <1>11, <1>12 DEF ProjectOrderCreated, AtRecord
  <2>3. /\ orders' \in [Orders -> Rows \cup {Missing}]
        /\ past' \in [Orders -> SUBSET (Rows \cup {Missing})]
    BY <1>10, <1>12, <2>1, <2>2 DEF ProjectOrderCreated
  <2>. QED  BY <1>1, <1>4, <1>5, <1>9, <1>12, <2>2, <2>3 DEF ProjectOrderCreated
<1>13. ASSUME NEW p \in Products, ProjectItemAdded(p) PROVE TypeOK'
  <2>1. PICK row \in Seen(Order) :
            GetItem(Order, row) /\ run' = [step |-> "write", at |-> run.at, row |-> row]
    BY <1>13 DEF ProjectItemAdded
  <2>2. Order \in Orders /\ run # NoRun /\ run.at \in Nat
    BY <1>11, <1>13, RunFacts DEF ProjectItemAdded, AtRecord
  <2>3. row \in Rows /\ misread' \subseteq Orders
    BY <2>1, <2>2, RowRead
  <2>4. run' \in Runs
    BY <2>1, <2>2, <2>3 DEF Runs
  <2>. QED  BY <1>1, <1>4, <1>5, <1>13, <2>3, <2>4 DEF ProjectItemAdded, table
<1>24. ASSUME PutRow PROVE TypeOK'
  <2>1. run # NoRun /\ run.at \in Nat /\ run.row \in Rows
    BY <1>11, <1>24, RunFacts DEF PutRow
  <2>2. Order \in Orders
    BY <1>11, <1>24, <2>1 DEF PutRow, RunSound
  <2>3. stream[run.at].event.product \in Products
    <3>1. PICK p \in Products : stream[run.at].event = ItemAdded(p)
      BY <1>24, <2>1 DEF PutRow, RunSound
    <3>. QED  BY <3>1 DEF ItemAdded
  <2>4. Append(run.row.items, stream[run.at].event.product) \in Seq(Products)
    BY <2>1, <2>3, AppendProperties DEF Rows
  <2>5. [run.row EXCEPT !.items = Append(@, stream[run.at].event.product)] \in Rows
    BY <2>1, <2>4 DEF Rows
  <2>6. /\ orders' \in [Orders -> Rows \cup {Missing}]
        /\ past' \in [Orders -> SUBSET (Rows \cup {Missing})]
    BY <1>10, <1>24, <2>2, <2>5 DEF PutRow
  <2>7. run' \in Runs
    BY <1>24, <2>1 DEF PutRow, Runs
  <2>. QED  BY <1>1, <1>4, <1>5, <1>24, <2>6, <2>7 DEF PutRow
<1>14. ASSUME NEW status \in {"confirmed", "cancelled"}, Order \in Orders, orders[Order] # Missing,
              SetRow(Order, [orders[Order] EXCEPT !.status = status])
       PROVE  /\ orders' \in [Orders -> Rows \cup {Missing}]
              /\ past' \in [Orders -> SUBSET (Rows \cup {Missing})]
  <2>1. orders[Order] \in Rows
    BY <1>14, RowType
  <2>2. [orders[Order] EXCEPT !.status = status] \in Rows
    BY <2>1 DEF Rows
  <2>. QED  BY <1>10, <1>14, <2>2
<1>15. ASSUME NEW p, NEW n, AddReserved(p, n) PROVE reserved' \in [Products -> Int]
  <2>1. reserved[p] + n \in Int
    BY <1>15, BoundsAssumption DEF AddReserved
  <2>2. reserved' = [reserved EXCEPT ![p] = reserved[p] + n]
    BY <1>15 DEF AddReserved
  <2>. QED  BY <1>1, <2>1, <2>2
<1>16. ASSUME ReserveItem PROVE TypeOK'
  BY <1>1, <1>4, <1>5, <1>9, <1>11, <1>15, <1>16 DEF ReserveItem, table
<1>17. ASSUME ReserveUnacknowledged PROVE TypeOK'
  BY <1>1, <1>4, <1>5, <1>15, <1>17 DEF ReserveUnacknowledged, Fault, table
<1>18. ASSUME ReleaseItem PROVE TypeOK'
  <2>1. run \in [step : {"release"}, at : Nat, items : Seq(Products)]
    BY <1>1, <1>18 DEF ReleaseItem, Runs, NoRun
  <2>2. Tail(run.items) \in Seq(Products)
    BY <1>18, <2>1, HeadTailProperties DEF ReleaseItem
  <2>3. run' \in [step : {"release"}, at : Nat, items : Seq(Products)]
    BY <1>18, <2>1, <2>2 DEF ReleaseItem
  <2>4. run' \in Runs
    BY <2>3 DEF Runs
  <2>. QED  BY <1>1, <1>4, <1>5, <1>15, <1>18, <2>4 DEF ReleaseItem, table
<1>19. ASSUME ProjectOrderCancelled PROVE TypeOK'
  <2>1. PICK row \in Seen(Order) :
            GetItem(Order, row) /\ run' = [step |-> "release", at |-> run.at, items |-> row.items]
    BY <1>19 DEF ProjectOrderCancelled
  <2>2. Order \in Orders /\ run # NoRun /\ run.at \in Nat
    BY <1>11, <1>19, RunFacts DEF ProjectOrderCancelled, AtRecord
  <2>3. row.items \in Seq(Products) /\ misread' \subseteq Orders
    BY <2>1, <2>2, RowRead, RowType
  <2>4. run' \in Runs
    BY <2>1, <2>2, <2>3 DEF Runs
  <2>. QED  BY <1>1, <1>4, <1>5, <1>19, <2>3, <2>4 DEF ProjectOrderCancelled, table
<1>25. ASSUME MalformedItem PROVE TypeOK'
  BY <1>1, <1>2, <1>4, <1>5, <1>25 DEF MalformedItem, readModel, table
<1>26. ASSUME RowNotFoundYet PROVE TypeOK'
  BY <1>1, <1>2, <1>4, <1>5, <1>26 DEF RowNotFoundYet, Fault, readModel, table
<1>20. ASSUME MissingRow PROVE TypeOK'
  BY <1>1, <1>2, <1>4, <1>5, <1>20 DEF MissingRow, readModel, table
<1>21. ASSUME Die PROVE TypeOK'
  BY <1>1, <1>2, <1>4, <1>5, <1>21 DEF Die, Fault, readModel, table
<1>22. ASSUME MarkCancelled PROVE TypeOK'
  <2>1. run # NoRun /\ Order \in Orders /\ orders[Order] # Missing
    BY <1>11, <1>22 DEF MarkCancelled, RunSound
  <2>2. /\ orders' \in [Orders -> Rows \cup {Missing}]
        /\ past' \in [Orders -> SUBSET (Rows \cup {Missing})]
    BY <1>14, <1>22, <2>1 DEF MarkCancelled
  <2>. QED  BY <1>1, <1>4, <1>5, <1>9, <1>22, <2>1, <2>2 DEF MarkCancelled
<1>23. ASSUME ProjectOrderConfirmed PROVE TypeOK'
  <2>1. run # NoRun /\ Order \in Orders /\ orders[Order] # Missing
    BY <1>11, <1>23, ConfirmationHasRow DEF ProjectOrderConfirmed, AtRecord
  <2>2. /\ orders' \in [Orders -> Rows \cup {Missing}]
        /\ past' \in [Orders -> SUBSET (Rows \cup {Missing})]
    BY <1>14, <1>23, <2>1 DEF ProjectOrderConfirmed
  <2>. QED  BY <1>1, <1>4, <1>5, <1>9, <1>23, <2>1, <2>2 DEF ProjectOrderConfirmed
<1>. QED
  BY <1>3, <1>6, <1>7, <1>8, <1>12, <1>13, <1>16, <1>17, <1>18, <1>19, <1>20, <1>21, <1>22, <1>23,
     <1>24, <1>25, <1>26
  DEF Next, Project

\* Every step keeps the invariant.
LEMMA NextIInv == IInv /\ [Next]_vars => IInv'
<1> SUFFICES ASSUME IInv, [Next]_vars PROVE IInv'
  OBVIOUS
<1>1. CASE Next
  <2> USE <1>1
  <2>1. TypeOK'
    BY NextTypeOK
  <2>2. ASSUME StoreEvent PROVE IInv'
    BY <2>1, <2>2, StoreKeeps
  <2>3. ASSUME (\E n \in 1 .. BatchSize : StartBatch(n)) \/ RedeliverBatch \/ FinishBatch
        PROVE  IInv'
    BY <2>1, <2>3, DeliveryKeeps
  <2>4. ASSUME ProjectOrderCreated PROVE IInv'
    BY <2>1, <2>4, CreatedKeeps
  <2>5. ASSUME NEW p \in Products, ProjectItemAdded(p) PROVE IInv'
    BY <2>1, <2>5, ItemReadKeeps
  <2>14. ASSUME PutRow PROVE IInv'
    BY <2>1, <2>14, ItemEnteredKeeps
  <2>6. ASSUME ReserveItem PROVE IInv'
    BY <2>1, <2>6, ReserveKeeps
  <2>7. ASSUME ProjectOrderConfirmed PROVE IInv'
    BY <2>1, <2>7, ConfirmedKeeps
  <2>8. ASSUME ProjectOrderCancelled PROVE IInv'
    BY <2>1, <2>8, ReleaseStartsKeeps
  <2>9. ASSUME ReleaseItem PROVE IInv'
    BY <2>1, <2>9, ReleaseKeeps
  <2>10. ASSUME MarkCancelled PROVE IInv'
    BY <2>1, <2>10, CancelledKeeps
  <2>11. ASSUME MissingRow PROVE IInv'
    BY <2>1, <2>11, MissingRowKeeps
  <2>12. ASSUME Die PROVE IInv'
    <3>1. faults' # 0
      BY <2>12, TypeFacts DEF Die, Fault, IInv
    <3>. QED  BY <2>1, <2>12, <3>1, FallBack DEF Die, readModel, table
  <2>15. ASSUME MalformedItem PROVE IInv'
    BY <2>1, <2>15, MalformedItemKeeps
  <2>16. ASSUME RowNotFoundYet PROVE IInv'
    <3>1. faults' # 0
      BY <2>16, TypeFacts DEF RowNotFoundYet, Fault, IInv
    <3>2. run # NoRun /\ run' = NoRun
      BY <2>16, RunFacts DEF RowNotFoundYet, ReadsRow, AtRecord, IInv
    <3>. QED  BY <2>1, <2>16, <3>1, <3>2, FallBack DEF RowNotFoundYet, readModel, table
  <2>13. ASSUME ReserveUnacknowledged PROVE IInv'
    BY <2>1, <2>13, UnacknowledgedKeeps
  <2>. QED
    BY <2>2, <2>3, <2>4, <2>5, <2>6, <2>7, <2>8, <2>9, <2>10, <2>11, <2>12, <2>13,
       <2>14, <2>15, <2>16
    DEF Next, Project
<1>2. CASE UNCHANGED vars
  <2>1. UNCHANGED <<log, stream, pos, upto, run, orders, past, misread, reserved, faults>>
    BY <1>2 DEF vars, readModel, table
  <2>2. TypeOK' /\ RunSound' /\ Passed' = Passed /\ Entered' = Entered
    BY <2>1 DEF IInv, TypeOK, Commands!TypeOK, RunSound, Order, Passed, Entered, Seen
  <2>3. \A p \in Products : Released(p)' = Released(p)
    BY <2>1 DEF Released, Order, Projected, Shown, AddedIn, Count, Passed
  <2>6. \A o : Versions(o)' = Versions(o)
    BY <2>1 DEF Versions
  <2>4. RowsSound' /\ StreamIsLog' /\ LogIsLegal'
    BY <2>1, <2>2, LogKept DEF IInv, RowsSound
  <2>5. StatusSound' /\ ItemsSound' /\ ReservedSound'
    BY <2>1, <2>2, <2>3, <2>6, LogKept DEF IInv, StatusSound, ItemsSound, ReservedSound
  <2>. QED  BY <2>2, <2>4, <2>5 DEF IInv
<1>. QED  BY <1>1, <1>2

\* Initially nothing is stored and nothing is projected.
LEMMA InitIInv == Init => IInv
<1> SUFFICES ASSUME Init PROVE IInv
  OBVIOUS
<1>1. /\ log = [o \in Orders |-> << >>] /\ stream = << >> /\ pos = 0 /\ upto = 0 /\ run = NoRun
      /\ orders = [o \in Orders |-> Missing] /\ reserved = [p \in Products |-> 0] /\ faults = 0
      /\ past = [o \in Orders |-> {}] /\ misread = {}
  BY DEF Init, Commands!Init
<1>2. << >> \in Seq(Records) /\ << >> \in Seq(Events) /\ Len(<< >>) = 0 /\ DOMAIN << >> = {}
  BY EmptySeq
<1>3. NoRun.step = "none" /\ Missing.status = "missing" /\ Missing.items = << >>
  BY DEF NoRun, Missing
<1>4. TypeOK
  <2>1. Commands!TypeOK
    BY <1>1, <1>2, SameEvents DEF Commands!TypeOK
  <2>. QED  BY <1>1, <1>2, <2>1, BoundsAssumption DEF TypeOK, Runs
<1>5. Passed = 0 /\ Entered = 0 /\ \A p : Released(p) = 0
  BY <1>1, <1>3 DEF Passed, Entered, Released
<1>6. StreamIsLog /\ LogIsLegal /\ RunSound
  BY <1>1, <1>2 DEF StreamIsLog, LogIsLegal, RunSound
<1>7. RowsSound
  BY <1>1, <1>5 DEF RowsSound
<1>8. \A o : Shown(o, 0) = {}
  BY DEF Shown
<1>14. \A o \in Orders : Versions(o) = {Missing}
  BY <1>1 DEF Versions
<1>9. StatusSound
  <2>1. \A o \in Orders : orders[o].status = StatusAt(o, 0) /\ Missing.status = StatusAt(o, 0)
    BY <1>1, <1>3, <1>8 DEF StatusAt
  <2>. QED  BY <1>1, <1>5, <1>14, <2>1 DEF StatusSound
<1>10. ASSUME NEW o \in Orders, NEW p
       PROVE  /\ AddedIn(Projected(o, 0), p) = 0 /\ Count(orders[o].items, p) = 0
              /\ Count(Missing.items, p) = 0
  <2>1. VersionsOf(o, 0, p) = {}
    BY <1>8 DEF VersionsOf
  <2>2. AddedIn(Projected(o, 0), p) = 0
    BY <1>1, <1>2, <1>4, <1>6, <2>1, AddedCounts, FS_EmptySet
  <2>. QED  BY <1>1, <1>3, <2>2, CountEmpty
<1>11. ItemsSound
  BY <1>1, <1>5, <1>10, <1>14 DEF ItemsSound
<1>12. \A p : Reserving(p, 0) = {} /\ Reserved(p, 0) = {}
  BY DEF Reserving, Reserved
<1>13. ReservedSound
  <2>1. \A p : Cardinality(Reserving(p, Passed)) = 0 /\ Cardinality(Reserved(p, Passed)) = 0
    BY <1>5, <1>12, FS_EmptySet
  <2>2. \A p \in Products : reserved[p] = 0
    BY <1>1
  <2>. QED  BY <1>5, <2>1, <2>2 DEF ReservedSound
<1>. QED  BY <1>4, <1>6, <1>7, <1>9, <1>11, <1>13 DEF IInv

\* The invariant holds of every reachable state.
THEOREM Invariance == Spec => []IInv
BY InitIInv, NextIInv, PTL DEF Spec

\* The stream, the checkpoint, the rows and the quantities keep their types, for any
\* commands, batches, redeliveries and faults.
THEOREM TypeCorrect == Spec => []TypeOK
<1>1. IInv => TypeOK
  BY DEF IInv
<1>. QED  BY <1>1, Invariance, PTL

--------------------------------------------------------------------------------
(* What the invariant says at the end of a batch.                              *)

\* When handler is about to return, all of the batch was passed and found its rows.
LEMMA DoneIsPassed ==
    ASSUME IInv, BatchDone
    PROVE  /\ Passed = upto /\ Entered = upto /\ upto \in Nat
           /\ Clean(upto) /\ \A p : Released(p) = 0
<1> USE DEF IInv
<1>1. run.step = "record" /\ run # NoRun /\ run.at > upto
  BY RunFacts DEF BatchDone
<1>2. /\ run.at \in pos + 1 .. upto + 1 /\ pos \in Nat /\ upto \in Nat
      /\ upto <= Len(stream) /\ Len(stream) \in Nat
  BY <1>1, TypeFacts DEF RunSound
<1>3. run.at = upto + 1
  BY <1>1, <1>2
<1>4. Passed = upto /\ Entered = upto
  BY <1>1, <1>2, <1>3 DEF Passed, Entered
<1>5. Clean(upto)
  <2> SUFFICES ASSUME NEW i \in 1 .. upto
               PROVE  /\ log[stream[i].order][1] = Created
                      /\ \A p \in Malformed : stream[i].event # ItemAdded(p)
    BY DEF Clean
  <2>1. i \in 1 .. Len(stream)
    BY <1>2
  <2>2. stream[i].order \in Orders
    BY <2>1, RecordType
  <2>. QED  BY <1>4, <2>2 DEF RowsSound
<1>6. \A p : Released(p) = 0
  BY <1>1 DEF Released
<1>. QED  BY <1>2, <1>4, <1>5, <1>6

\* After every batch the row of an order that was never misread shows the status and has
\* the items of the event store, after any number of redeliveries; any row shows a status
\* that the order had, and without a fault no item twice; and a confirmation always finds
\* its row, which update_item relies on.
THEOREM RowsMatch == Spec => []RowsMatchLog
<1>1. IInv => RowsMatchLog
  <2> SUFFICES ASSUME IInv PROVE RowsMatchLog
    OBVIOUS
  <2> USE DEF IInv
  <2>1. StatusConverges
    <3> SUFFICES ASSUME BatchDone, NEW o \in Orders
                 PROVE  /\ o \notin misread => orders[o].status = StatusAt(o, upto)
                        /\ \E n \in 0 .. upto : orders[o].status = StatusAt(o, n)
      BY DEF StatusConverges
    <3>1. ASSUME o \notin misread PROVE orders[o].status = StatusAt(o, upto)
      <4>1. PICK m \in Passed .. upto : orders[o].status = StatusAt(o, m)
        BY <3>1 DEF StatusSound
      <4>2. m = upto
        BY DoneIsPassed
      <4>. QED  BY <4>1, <4>2
    <3>2. orders[o] \in Versions(o)
      BY RowType
    <3>3. \E n \in 0 .. upto : orders[o].status = StatusAt(o, n)
      BY <3>2 DEF StatusSound
    <3>. QED  BY <3>1, <3>3
  <2>2. ItemsMatchLog
    <3> SUFFICES ASSUME BatchDone, NEW o \in Orders, NEW p \in Products
                 PROVE  /\ o \notin misread => Count(orders[o].items, p) >= AddedIn(Projected(o, upto), p)
                        /\ faults = 0 => Count(orders[o].items, p) <= AddedIn(Projected(o, upto), p)
      BY DEF ItemsMatchLog
    <3>1. Entered = upto /\ Clean(upto)
      BY DoneIsPassed
    <3>2. orders[o] \in Versions(o)
      BY RowType
    <3>3. /\ o \notin misread => AddedIn(Projected(o, upto), p) <= Count(orders[o].items, p)
          /\ faults = 0 => Count(orders[o].items, p) <= AddedIn(Projected(o, upto), p)
      BY <3>1, <3>2 DEF ItemsSound
    <3>. QED  BY <3>3
  <2>3. ConfirmationFindsRow
    BY ConfirmationHasRow DEF ConfirmationFindsRow, AtRecord
  <2>. QED  BY <2>1, <2>2, <2>3 DEF RowsMatchLog
<1>. QED  BY <1>1, Invariance, PTL

\* After every batch at least what the event store says is reserved while nothing was
\* cancelled; without a fault at least what the orders that were not cancelled hold, and
\* exactly that if no row was read that had been replaced.
THEOREM ReservationsMatch == Spec => []ReservationsMatchLog
<1>1. IInv => ReservationsMatchLog
  <2> SUFFICES ASSUME IInv PROVE ReservationsMatchLog
    OBVIOUS
  <2> USE DEF IInv
  <2>1. NeverUnderReserved
    <3> SUFFICES ASSUME BatchDone, NeverReleased, NEW p \in Products
                 PROVE  reserved[p] >= Cardinality(Reserving(p, upto))
      BY DEF NeverUnderReserved, NeverReleased, Reserving
    <3>1. Passed = upto
      BY DoneIsPassed
    <3>2. Cardinality(Reserving(p, upto)) <= reserved[p]
      BY <3>1 DEF ReservedSound
    <3>. QED  BY <3>2
  <2>2. ReservedMatchesLog
    <3> DEFINE kept(p) == Cardinality({i \in 1 .. upto :
                           /\ stream[i].event = ItemAdded(p)
                           /\ StatusAt(stream[i].order, upto) # "cancelled"})
    <3> SUFFICES ASSUME BatchDone, faults = 0, EndAtCancel, NEW p \in Products
                 PROVE  reserved[p] >= kept(p) /\ (misread = {} => reserved[p] = kept(p))
      BY DEF ReservedMatchesLog, EndAtCancel
    <3>1. Passed = upto /\ Clean(upto) /\ Released(p) = 0 /\ upto \in Nat
      BY DoneIsPassed
    <3>2. /\ reserved[p] >= Cardinality(Reserved(p, upto)) - 0
          /\ misread = {} => reserved[p] = Cardinality(Reserved(p, upto)) - 0
      BY <3>1 DEF ReservedSound
    <3>3. Cardinality(Reserved(p, upto)) \in Nat
      BY <3>1, ReservedType
    <3>4. kept(p) = Cardinality(Reserved(p, upto))
      <4>1. Reserved(p, upto) = {i \in 1 .. upto :
                                  /\ stream[i].event = ItemAdded(p)
                                  /\ StatusAt(stream[i].order, upto) # "cancelled"}
        BY DEF Reserved, Reserving
      <4>. QED  BY <4>1
    <3> HIDE DEF kept
    <3>. QED  BY <3>2, <3>3, <3>4
  <2>. QED  BY <2>1, <2>2 DEF ReservationsMatchLog
<1>. QED  BY <1>1, Invariance, PTL

================================================================================

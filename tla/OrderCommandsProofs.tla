-------------------------- MODULE OrderCommandsProofs --------------------------
(* Proofs about OrderCommands for every set of orders, products and          *)
(* invocations, every page size and every bound, about the functional        *)
(* version AdvancedOrderCommands for every set of orders and requests, and   *)
(* about the two of them composed.                                           *)
EXTENDS OrderWrites, DataLemmas, SequenceTheorems

--------------------------------------------------------------------------------
(* Lemmas about what the handlers compute from a history.                    *)

\* What rebuild_state works on is the history up to the version it returns,
\* which lies on the first page.
LEMMA RebuiltIsPrefix ==
    ASSUME NEW s \in Seq(Events), NEW k \in Nat, NEW page \in Nat
    PROVE  LET m == CurrentVersion(View(View(s, k), page)) IN
           /\ m \in Nat /\ m <= Len(s) /\ m <= page
           /\ View(View(s, k), page) = [v \in 1 .. m |-> s[v]]
<1> DEFINE n == Len(s)
           i == IF k <= n THEN k ELSE n
           j == IF page <= i THEN page ELSE i
           seen == [v \in 1 .. i |-> s[v]]
<1>1. n \in Nat /\ DOMAIN s = 1 .. n
  BY LenProperties
<1>2. i \in Nat /\ i <= n /\ j \in Nat /\ j <= i /\ j <= page
  BY <1>1
<1>3. DOMAIN seen = 1 .. i
  OBVIOUS
<1>4. View(s, k) = seen
  BY <1>1, ViewIsPrefix
<1>5. View(seen, page) = [v \in 1 .. j |-> seen[v]]
  <2> HIDE DEF i, seen, n
  <2>1. {u \in DOMAIN seen : u <= page} = 1 .. j
    BY <1>2, <1>3
  <2> HIDE DEF j
  <2>. QED  BY <2>1 DEF View
<1>6. [v \in 1 .. j |-> seen[v]] = [v \in 1 .. j |-> s[v]]
  <2> HIDE DEF i, j
  <2>. QED  BY <1>2
<1>8. CurrentVersion([v \in 1 .. j |-> s[v]]) = j
  <2> HIDE DEF j
  <2>. QED  BY <1>2, CurrentVersionIsLength
<1>9. View(View(s, k), page) = [v \in 1 .. j |-> s[v]]
  BY <1>4, <1>5, <1>6
<1>10. j <= n
  BY <1>1, <1>2
<1> HIDE DEF j
<1>. QED  BY <1>2, <1>8, <1>9, <1>10

\* Storing the version after the last one is appending to the history.
LEMMA PutIsAppend ==
    ASSUME NEW s \in Seq(Events), NEW e \in Events, NEW b \in Nat,
           b <= Len(s), b + 1 \notin DOMAIN s
    PROVE  /\ b = Len(s)
           /\ [u \in DOMAIN s \cup {b + 1} |-> IF u = b + 1 THEN e ELSE s[u]]
                = Append(s, e)
<1> DEFINE put == [u \in DOMAIN s \cup {b + 1} |-> IF u = b + 1 THEN e ELSE s[u]]
           n == Len(s)
<1>1. n \in Nat /\ DOMAIN s = 1 .. n /\ s \in [1 .. n -> Events]
  BY LenProperties
<1>2. /\ Append(s, e) \in Seq(Events)
      /\ Len(Append(s, e)) = n + 1
      /\ \A i \in 1 .. n : Append(s, e)[i] = s[i]
      /\ Append(s, e)[n + 1] = e
  BY AppendProperties
<1>3. Append(s, e) \in [1 .. (n + 1) -> Events]
  BY <1>2, LenProperties
<1> HIDE DEF n
<1>4. b = n
  <2>1. b <= n
    BY DEF n
  <2>2. b + 1 \notin 1 .. n
    BY <1>1
  <2>. QED  BY <1>1, <2>1, <2>2
<1>5. DOMAIN s \cup {b + 1} = 1 .. (n + 1)
  BY <1>1, <1>4
<1>6. put \in [1 .. (n + 1) -> Events]
  BY <1>1, <1>4, <1>5
<1>7. ASSUME NEW u \in 1 .. (n + 1)
      PROVE  put[u] = Append(s, e)[u]
  BY <1>1, <1>2, <1>4, <1>5
<1>. QED  BY <1>3, <1>4, <1>6, <1>7 DEF n

\* What handle_confirm_order accepts is a draft with an item.
LEMMA ConfirmableIsDraft ==
    ASSUME NEW history, NEW n \in Nat, DOMAIN history = 1 .. n
    PROVE  Confirmable(history) <=> DraftWithItems(history, n)
<1>1. Status(history) = "draft" <=> Decisions(history) = {}
  BY DEF Status
<1>. QED  BY <1>1 DEF Confirmable, Decisions, ItemVersions, DraftWithItems

\* The first versions of a history are not changed by appending to it.
LEMMA DraftAppend ==
    ASSUME NEW s \in Seq(Events), NEW e \in Events, NEW n \in Nat, n <= Len(s),
           DraftWithItems(s, n)
    PROVE  DraftWithItems(Append(s, e), n)
<1>1. \A v \in 1 .. n : Append(s, e)[v] = s[v]
  BY AppendProperties, LenProperties
<1>. QED  BY <1>1 DEF DraftWithItems

\* A sequence has no gaps: this conjunct of TypeOK follows from the other.
LEMMA SequencesHaveNoGaps ==
    ASSUME NEW t \in [Orders -> Seq(Events)]
    PROVE  \A o \in Orders : NoGaps(DOMAIN t[o])
<1> SUFFICES ASSUME NEW o \in Orders
             PROVE  NoGaps(DOMAIN t[o])
  OBVIOUS
<1>1. PICK n \in Nat : DOMAIN t[o] = 1 .. n
  BY LenProperties
<1>. QED  BY <1>1 DEF NoGaps

--------------------------------------------------------------------------------
(* The inductive invariant.  The three properties of the histories are not   *)
(* inductive by themselves: an invocation stores what it decided before, so  *)
(* the invariant also says that what it read is still true (ReadsStayTrue).  *)
IInv ==
    /\ TypeOK
    /\ ReadsStayTrue
    /\ ConfirmedOnlyDraftWithItems
    /\ CreatedFirst
    /\ ConfirmedWithinFirstPage

\* The event of an invocation about to store, and what is known of it.
Legal(o, e) ==
    /\ e = Created => table[o] = << >> /\ o \notin Ghosts
    /\ e # Created => Named(o)
    /\ e = Confirmed => DraftWithItems(table[o], Len(table[o]))
                       /\ Len(table[o]) <= PageLimit

AppendsTo(o, e) == table' = [table EXCEPT ![o] = Append(table[o], e)]

\* A put that passes its condition appends an event legal for the history.
LEMMA StoreIsLegalAppend ==
    ASSUME IInv, NEW w \in Workers, StoreEvent(w)
    PROVE  /\ inv[w].order \in Orders /\ inv[w].event \in Events
           /\ Legal(inv[w].order, inv[w].event)
           /\ AppendsTo(inv[w].order, inv[w].event)
<1> DEFINE o == inv[w].order
           e == inv[w].event
           b == inv[w].base
           s == table[o]
<1>1. inv[w] # Idle /\ o \in Orders /\ e \in Events /\ b \in Nat
  BY DEF IInv, TypeOK, Invocations, StoreEvent, Idle
<1>2. s \in Seq(Events)
  BY <1>1 DEF IInv, TypeOK
<1>3. /\ b <= Len(s)
      /\ e # Created => Named(o)
      /\ e = Created => b = 0 /\ o \notin Ghosts
      /\ e = Confirmed => b <= PageLimit /\ DraftWithItems(s, b)
  BY <1>1 DEF IInv, ReadsStayTrue, ReadIsTrue, StoreEvent
<1>4. b + 1 \notin DOMAIN s
  BY DEF StoreEvent, KeyIsFree
<1>5. /\ b = Len(s)
      /\ [u \in DOMAIN s \cup {b + 1} |-> IF u = b + 1 THEN e ELSE s[u]]
            = Append(s, e)
  BY <1>1, <1>2, <1>3, <1>4, PutIsAppend
<1>7. e = Created => s = << >>
  BY <1>2, <1>3, <1>5
<1>8. Legal(o, e)
  BY <1>3, <1>5, <1>7 DEF Legal
<1>9. AppendsTo(o, e)
  BY <1>5 DEF StoreEvent, PutItem, WithItem, AppendsTo
<1>. QED  BY <1>1, <1>8, <1>9

\* Appending a legal event keeps the properties of the histories.
LEMMA LegalAppendKeepsHistories ==
    ASSUME IInv, NEW o \in Orders, NEW e \in Events, Legal(o, e), AppendsTo(o, e)
    PROVE  /\ table' \in [Orders -> Seq(Events)]
           /\ ConfirmedOnlyDraftWithItems'
           /\ CreatedFirst'
           /\ ConfirmedWithinFirstPage'
<1> DEFINE s == table[o]
           n == Len(s)
<1>1. s \in Seq(Events) /\ n \in Nat /\ DOMAIN s = 1 .. n
  BY LenProperties DEF IInv, TypeOK
<1>2. table \in [Orders -> Seq(Events)]
  BY DEF IInv, TypeOK
<1>3. /\ Append(s, e) \in Seq(Events)
      /\ DOMAIN Append(s, e) = 1 .. (n + 1)
      /\ \A v \in 1 .. n : Append(s, e)[v] = s[v]
      /\ Append(s, e)[n + 1] = e
  BY <1>1, AppendProperties, LenProperties
<1>4. /\ table' \in [Orders -> Seq(Events)]
      /\ table'[o] = Append(s, e)
      /\ \A q \in Orders : q # o => table'[q] = table[q]
  BY <1>2, <1>3 DEF AppendsTo
<1> HIDE DEF s, n
<1>7. ConfirmedOnlyDraftWithItems'
  <2> SUFFICES ASSUME NEW q \in Orders, NEW v \in DOMAIN table'[q],
                      table'[q][v] = Confirmed
               PROVE  DraftWithItems(table'[q], v - 1)
    BY DEF ConfirmedOnlyDraftWithItems
  <2>1. CASE q # o
    BY <2>1, <1>4 DEF IInv, ConfirmedOnlyDraftWithItems
  <2>2. CASE q = o /\ v \in 1 .. n
    <3>1. DraftWithItems(s, v - 1)
      BY <2>2, <1>1, <1>3, <1>4 DEF IInv, ConfirmedOnlyDraftWithItems, s
    <3>. QED  BY <2>2, <3>1, <1>1, <1>4, DraftAppend DEF n
  <2>3. CASE q = o /\ v = n + 1
    <3>1. DraftWithItems(s, n)
      BY <2>3, <1>3, <1>4 DEF Legal, s, n
    <3>2. v - 1 = n
      BY <2>3, <1>1
    <3>. QED  BY <2>3, <3>1, <3>2, <1>1, <1>4, DraftAppend DEF n
  <2>4. q = o => v \in 1 .. (n + 1)
    BY <1>3, <1>4
  <2>. QED  BY <1>1, <2>1, <2>2, <2>3, <2>4
<1>8. CreatedFirst'
  <2> SUFFICES ASSUME NEW q \in Orders, NEW v \in DOMAIN table'[q]
               PROVE  table'[q][v] = Created <=> v = 1 /\ q \notin Ghosts
    BY DEF CreatedFirst
  <2>1. CASE q # o
    BY <2>1, <1>4 DEF IInv, CreatedFirst
  <2>2. CASE q = o /\ v \in 1 .. n
    BY <2>2, <1>1, <1>3, <1>4 DEF IInv, CreatedFirst, s
  <2>3. CASE q = o /\ v = n + 1
    <3>1. table'[q][v] = e
      BY <2>3, <1>3, <1>4
    <3>2. s = << >> => n = 0
      BY <1>1 DEF n
    <3>3. n = 0 => DOMAIN s = {}
      BY <1>1
    <3>. QED  BY <2>3, <3>1, <3>2, <3>3, <1>1 DEF Legal, Named, s
  <2>4. q = o => v \in 1 .. (n + 1)
    BY <1>3, <1>4
  <2>. QED  BY <1>1, <2>1, <2>2, <2>3, <2>4
<1>9. ConfirmedWithinFirstPage'
  <2> SUFFICES ASSUME NEW q \in Orders, NEW v \in DOMAIN table'[q],
                      table'[q][v] = Confirmed
               PROVE  v <= PageLimit + 1
    BY DEF ConfirmedWithinFirstPage
  <2>1. CASE q # o
    BY <2>1, <1>4 DEF IInv, ConfirmedWithinFirstPage
  <2>2. CASE q = o /\ v \in 1 .. n
    BY <2>2, <1>1, <1>3, <1>4 DEF IInv, ConfirmedWithinFirstPage, s
  <2>3. CASE q = o /\ v = n + 1
    <3>1. n <= PageLimit
      BY <2>3, <1>3, <1>4 DEF Legal, s, n
    <3>. QED  BY <2>3, <3>1, <1>1, PageLimitAssumption
  <2>4. q = o => v \in 1 .. (n + 1)
    BY <1>3, <1>4
  <2>. QED  BY <1>1, <2>1, <2>2, <2>3, <2>4
<1>. QED  BY <1>4, <1>7, <1>8, <1>9

\* What the other invocations have read is still true after the append.
LEMMA AppendKeepsReads ==
    ASSUME IInv, NEW o \in Orders, NEW e \in Events, AppendsTo(o, e),
           NEW i \in Invocations, i # Idle, ReadIsTrue(i)
    PROVE  ReadIsTrue(i)'
<1>1. /\ table \in [Orders -> Seq(Events)]
      /\ i.order \in Orders
      /\ i.pc = "put" => i.base \in Nat
  BY DEF IInv, TypeOK, Invocations
<1>2. CASE i.order # o
  <2>1. table'[i.order] = table[i.order]
    BY <1>1, <1>2 DEF AppendsTo
  <2>. QED  BY <2>1 DEF ReadIsTrue, Named
<1>3. CASE i.order = o
  <2>1. table'[o] = Append(table[o], e) /\ table[o] \in Seq(Events)
    BY <1>1 DEF AppendsTo
  <2>2. /\ Len(table[o]) \in Nat
        /\ Len(table'[o]) = Len(table[o]) + 1
        /\ DOMAIN table'[o] # {}
    <3>1. /\ Len(table[o]) \in Nat /\ Len(table'[o]) = Len(table[o]) + 1
          /\ DOMAIN table'[o] = 1 .. (Len(table[o]) + 1)
      BY <2>1, AppendProperties, LenProperties
    <3>2. 1 \in 1 .. (Len(table[o]) + 1)
      BY <3>1
    <3>. QED  BY <3>1, <3>2
  <2>3. ASSUME i.pc = "put", DraftWithItems(table[o], i.base)
        PROVE  DraftWithItems(table'[o], i.base)
    <3>1. i.base <= Len(table[o])
      BY <1>3, <2>3 DEF ReadIsTrue
    <3>. QED  BY <1>1, <2>1, <2>3, <3>1, DraftAppend
  <2>. QED  BY <1>1, <1>3, <2>2, <2>3 DEF ReadIsTrue, Named
<1>. QED  BY <1>2, <1>3

--------------------------------------------------------------------------------
\* Initially there is no event and no invocation.
LEMMA InitIInv == Init => IInv
<1> SUFFICES ASSUME Init PROVE IInv
  OBVIOUS
<1>1. << >> \in Seq(Events) /\ DOMAIN << >> = {}
  BY EmptySeq
<1>2. \A o \in Orders : DOMAIN table[o] = {}
  BY <1>1 DEF Init
<1>3. \A o \in Orders : NoGaps(DOMAIN table[o])
  BY <1>2 DEF NoGaps
<1>. QED
  BY <1>1, <1>2, <1>3 DEF Init, IInv, TypeOK, Invocations, ReadsStayTrue,
       ConfirmedOnlyDraftWithItems, CreatedFirst, ConfirmedWithinFirstPage

\* A put that passes its condition keeps the invariant, whether the response
\* reaches the invocation or not.
LEMMA StoreKeepsIInv ==
    ASSUME IInv, NEW w \in Workers, StoreEvent(w),
           inv' \in {inv, [inv EXCEPT ![w] = Idle]}
    PROVE  IInv'
<1> DEFINE o == inv[w].order
           e == inv[w].event
<1>1. o \in Orders /\ e \in Events /\ Legal(o, e) /\ AppendsTo(o, e)
  BY StoreIsLegalAppend
<1>2. /\ table' \in [Orders -> Seq(Events)]
      /\ ConfirmedOnlyDraftWithItems'
      /\ CreatedFirst'
      /\ ConfirmedWithinFirstPage'
  BY <1>1, LegalAppendKeepsHistories
<1>3. inv \in [Workers -> Invocations] /\ Idle \in Invocations
  BY DEF IInv, TypeOK, Invocations
<1>4. ReadsStayTrue'
  <2> SUFFICES ASSUME NEW u \in Workers, inv'[u] # Idle
               PROVE  ReadIsTrue(inv[u])'
    BY DEF ReadsStayTrue
  <2>1. inv'[u] = inv[u] /\ inv[u] # Idle /\ inv[u] \in Invocations
    BY <1>3
  <2>2. ReadIsTrue(inv[u])
    BY <2>1 DEF IInv, ReadsStayTrue
  <2>3. \A i \in Invocations : i # Idle /\ ReadIsTrue(i) => ReadIsTrue(i)'
    BY <1>1, AppendKeepsReads
  <2>4. \A i : i = inv[u] => ReadIsTrue(i)'
    BY <2>1, <2>2, <2>3
  <2>. QED  BY <2>1, <2>4 DEF ReadIsTrue, Named
<1>5. inv' \in [Workers -> Invocations]
  BY <1>3
<1>6. \A q \in Orders : NoGaps(DOMAIN table'[q])
  BY <1>2, SequencesHaveNoGaps
<1>. QED  BY <1>2, <1>4, <1>5, <1>6 DEF IInv, TypeOK

\* A step that leaves the table alone keeps the invariant when the one
\* invocation it changes has read something true, or has ended.
LEMMA ReadKeepsIInv ==
    ASSUME IInv, table' = table, NEW w \in Workers, NEW i \in Invocations,
           inv' = [inv EXCEPT ![w] = i], i = Idle \/ ReadIsTrue(i)
    PROVE  IInv'
<1>1. inv \in [Workers -> Invocations]
  BY DEF IInv, TypeOK
<1>2. inv' \in [Workers -> Invocations]
  BY <1>1
<1>3. ReadsStayTrue'
  BY <1>1 DEF IInv, ReadsStayTrue, ReadIsTrue, Named
<1>4. /\ ConfirmedOnlyDraftWithItems'
      /\ CreatedFirst'
      /\ ConfirmedWithinFirstPage'
  BY DEF IInv, ConfirmedOnlyDraftWithItems, CreatedFirst, ConfirmedWithinFirstPage
<1>. QED  BY <1>2, <1>3, <1>4 DEF IInv, TypeOK

\* Every step keeps the invariant.
LEMMA NextIInv == IInv /\ [Next]_vars => IInv'
<1> SUFFICES ASSUME IInv, [Next]_vars PROVE IInv'
  OBVIOUS
<1>1. /\ inv \in [Workers -> Invocations]
      /\ table \in [Orders -> Seq(Events)]
      /\ Idle \in Invocations
      /\ Idle.pc = "idle"
  BY DEF IInv, TypeOK, Invocations, Idle
<1>2. ASSUME NEW w \in Workers, NEW o \in Orders, CreateOrder(w, o)
      PROVE  IInv'
  <2>1. Storing(o, Created, 0) \in Invocations
    BY DEF Invocations, Storing, Events
  <2>2. ReadIsTrue(Storing(o, Created, 0))
    <3>1. Len(table[o]) \in Nat
      BY <1>1, LenProperties
    <3>. QED  BY <1>2, <3>1 DEF CreateOrder, ReadIsTrue, Storing, Created, Confirmed
  <2>. QED  BY <1>2, <2>1, <2>2, ReadKeepsIInv DEF CreateOrder
<1>3. ASSUME NEW w \in Workers, NEW o \in Orders, NEW e \in Events,
             Dispatch(w, o, e)
      PROVE  IInv'
  <2>1. Loading(o, e) \in Invocations
    BY DEF Invocations, Loading
  <2>2. ReadIsTrue(Loading(o, e))
    BY <1>3 DEF Dispatch, ReadIsTrue, Loading
  <2>. QED  BY <1>3, <2>1, <2>2, ReadKeepsIInv DEF Dispatch
<1>4. ASSUME NEW w \in Workers, NEW k \in Staleness(w), LoadVersion(w, k)
      PROVE  IInv'
  <2> DEFINE o == inv[w].order
             e == inv[w].event
             b == CurrentVersion(View(table[o], k))
  <2>1. inv[w] # Idle /\ o \in Orders /\ e \in Events
    BY <1>1, <1>4 DEF LoadVersion, Invocations
  <2>2. k \in Nat /\ table[o] \in Seq(Events)
    BY <1>1, <2>1, LenProperties DEF Staleness
  <2>3. b \in Nat /\ b <= Len(table[o])
    <3> DEFINE n == Len(table[o])
    <3>1. n \in Nat /\ DOMAIN table[o] = 1 .. n
      BY <2>2, LenProperties
    <3> HIDE DEF n
    <3>2. View(table[o], k) = [v \in 1 .. (IF k <= n THEN k ELSE n) |-> table[o][v]]
      BY <2>2, <3>1, ViewIsPrefix
    <3>3. b = IF k <= n THEN k ELSE n
      BY <2>2, <3>1, <3>2, CurrentVersionIsLength
    <3>. QED  BY <2>2, <3>1, <3>3 DEF n
  <2>4. ReadIsTrue(inv[w])
    BY <2>1 DEF IInv, ReadsStayTrue
  <2> HIDE DEF b
  <2>5. Storing(o, e, b) \in Invocations
    BY <2>1, <2>3 DEF Storing, Invocations
  <2>6. ReadIsTrue(Storing(o, e, b))
    BY <1>4, <2>1, <2>3, <2>4 DEF LoadVersion, ReadIsTrue, Storing
  <2>7. table' = table /\ inv' = [inv EXCEPT ![w] = Storing(o, e, b)]
    BY <1>4 DEF LoadVersion, b
  <2>. QED  BY <2>5, <2>6, <2>7, ReadKeepsIInv
<1>5. ASSUME NEW w \in Workers, NEW k \in Staleness(w), LoadConfirmable(w, k)
      PROVE  IInv'
  <2> DEFINE o == inv[w].order
             b == CurrentVersion(Rebuilt(o, k))
  <2>1. inv[w] # Idle /\ o \in Orders /\ inv[w].event = Confirmed
    BY <1>1, <1>5 DEF LoadConfirmable, Invocations
  <2>2. k \in Nat /\ table[o] \in Seq(Events) /\ PageLimit \in Nat
    BY <1>1, <2>1, LenProperties, PageLimitAssumption DEF Staleness
  <2>3. /\ b \in Nat /\ b <= Len(table[o]) /\ b <= PageLimit
        /\ Rebuilt(o, k) = [v \in 1 .. b |-> table[o][v]]
    BY <2>2, RebuiltIsPrefix DEF Rebuilt
  <2>4. ReadIsTrue(inv[w])
    BY <2>1 DEF IInv, ReadsStayTrue
  <2>5. DraftWithItems(table[o], b)
    <3>1. Confirmable(Rebuilt(o, k)) /\ DOMAIN Rebuilt(o, k) = 1 .. b
      BY <1>5, <2>3 DEF LoadConfirmable
    <3>2. DraftWithItems(Rebuilt(o, k), b)
      BY <2>3, <3>1, ConfirmableIsDraft
    <3>. QED  BY <2>3, <3>2 DEF DraftWithItems
  <2>6. table' = table /\ inv' = [inv EXCEPT ![w] = Storing(o, Confirmed, b)]
    BY <1>5 DEF LoadConfirmable
  <2> HIDE DEF b
  <2>7. Storing(o, Confirmed, b) \in Invocations
    BY <2>1, <2>3 DEF Storing, Invocations, Events
  <2>8. ReadIsTrue(Storing(o, Confirmed, b))
    BY <2>1, <2>3, <2>4, <2>5 DEF ReadIsTrue, Storing, Created, Confirmed
  <2>. QED  BY <2>6, <2>7, <2>8, ReadKeepsIInv
<1>6. ASSUME NEW w \in Workers, NEW k \in Staleness(w), RefuseConfirm(w, k)
      PROVE  IInv'
  BY <1>1, <1>6, ReadKeepsIInv DEF RefuseConfirm
<1>7. ASSUME NEW w \in Workers, Store(w)
      PROVE  IInv'
  BY <1>7, StoreKeepsIInv DEF Store
<1>8. ASSUME NEW w \in Workers, StoreUnacknowledged(w)
      PROVE  IInv'
  BY <1>8, StoreKeepsIInv DEF StoreUnacknowledged
<1>9. ASSUME NEW w \in Workers, Conflict(w)
      PROVE  IInv'
  BY <1>1, <1>9, ReadKeepsIInv DEF Conflict
<1>10. ASSUME NEW w \in Workers, Die(w)
       PROVE  IInv'
  BY <1>1, <1>10, ReadKeepsIInv DEF Die
<1>11. CASE UNCHANGED vars
  BY <1>11 DEF vars, IInv, TypeOK, ReadsStayTrue, ReadIsTrue, Named,
       ConfirmedOnlyDraftWithItems, CreatedFirst, ConfirmedWithinFirstPage
<1>. QED
  BY <1>2, <1>3, <1>4, <1>5, <1>6, <1>7, <1>8, <1>9, <1>10, <1>11 DEF Next

\* The invariant holds in every reachable state.
THEOREM Invariance == Spec => []IInv
BY InitIInv, NextIInv, PTL DEF Spec

\* Every history is a gapless sequence of events, whatever the interleaving.
THEOREM TypeCorrect == Spec => []TypeOK
<1>1. IInv => TypeOK
  BY DEF IInv
<1>. QED  BY <1>1, Invariance, PTL

\* An order is confirmed only while its whole history was a draft with an item
\* (handle_confirm_order), although the decision was made on a stale page.
THEOREM ConfirmationIsSound == Spec => []ConfirmedOnlyDraftWithItems
<1>1. IInv => ConfirmedOnlyDraftWithItems
  BY DEF IInv
<1>. QED  BY <1>1, Invariance, PTL

\* Every confirmation is at most the event after the first page: rebuild_state
\* reads no further, so an order that outgrew a page is never confirmed.
THEOREM ConfirmationFitsPage == Spec => []ConfirmedWithinFirstPage
<1>1. IInv => ConfirmedWithinFirstPage
  BY DEF IInv
<1>. QED  BY <1>1, Invariance, PTL

\* The OrderCreated of an order is its version 1 and no other version.
THEOREM CreationIsFirst == Spec => []CreatedFirst
<1>1. IInv => CreatedFirst
  BY DEF IInv
<1>. QED  BY <1>1, Invariance, PTL

\* Whatever they read and whoever else wrote meanwhile, the handlers keep every
\* history legal (handle_create_order, handle_confirm_order, rebuild_state).
THEOREM LegalHistories == Spec => []HistoriesAreLegal
<1>1. IInv => HistoriesAreLegal
  BY DEF IInv, HistoriesAreLegal
<1>. QED  BY <1>1, Invariance, PTL

\* What an invocation has read when it is about to store is still part of the history
\* (get_current_version and rebuild_state against concurrent puts).
THEOREM ReadsAreTrue == Spec => []ReadsStayTrue
<1>1. IInv => ReadsStayTrue
  BY DEF IInv
<1>. QED  BY <1>1, Invariance, PTL

--------------------------------------------------------------------------------
(* Refinement: each step is an atomic append of OrderLog or leaves the       *)
(* histories alone.                                                          *)

\* The table changes only when a conditional put succeeds.
LEMMA TableChange ==
    ASSUME [Next]_vars
    PROVE  table' = table \/ \E w \in Workers : StoreEvent(w)
BY DEF Next, vars, CreateOrder, Dispatch, LoadVersion, LoadConfirmable,
       RefuseConfirm, Store, StoreUnacknowledged, Conflict, Die

\* A legal append is one of the four steps of OrderLog.
LEMMA LegalAppendIsAbstractStep ==
    ASSUME IInv, NEW o \in Orders, NEW e \in Events, Legal(o, e), AppendsTo(o, e)
    PROVE  Abstract!Next
<1>1. Abstract!AppendEvent(o, e)
  BY DEF AppendsTo, Abstract!AppendEvent, IInv, TypeOK
<1>2. e # Created => Abstract!Named(o)
  <2>1. table[o] = << >> => DOMAIN table[o] = {}
    BY EmptySeq
  <2>. QED  BY <2>1 DEF Legal, Named, Abstract!Named
<1>3. /\ Abstract!Created = Created
      /\ Abstract!Confirmed = Confirmed
      /\ Abstract!Cancelled = Cancelled
      /\ \A p : Abstract!ItemAdded(p) = ItemAdded(p)
  BY DEF Abstract!Created, Created, Abstract!Confirmed, Confirmed,
         Abstract!Cancelled, Cancelled, Abstract!ItemAdded, ItemAdded
<1>4. e = Confirmed => Abstract!Confirmable(table[o])
  <2>1. DOMAIN table[o] = 1 .. Len(table[o]) /\ Len(table[o]) \in Nat
    BY LenProperties DEF IInv, TypeOK
  <2>2. e = Confirmed => Confirmable(table[o])
    BY <2>1, ConfirmableIsDraft DEF Legal
  <2>. QED
    BY <1>3, <2>2 DEF Confirmable, Status, Decisions, ItemVersions,
       Abstract!Confirmable, Abstract!Status, Abstract!Decisions,
       Abstract!ItemVersions
<1>5. CASE e = Created
  BY <1>1, <1>3, <1>5 DEF Legal, Abstract!Next, Abstract!CreateOrder
<1>6. CASE e = Confirmed
  BY <1>1, <1>3, <1>4, <1>6 DEF Legal, Abstract!Next, Abstract!ConfirmOrder
<1>7. CASE e = Cancelled
  <2>1. e # Created
    BY <1>7 DEF Created, Cancelled
  <2>. QED  BY <1>1, <1>2, <1>3, <1>7, <2>1 DEF Abstract!Next, Abstract!CancelOrder
<1>8. ASSUME NEW p \in Products, e = ItemAdded(p)
      PROVE  Abstract!Next
  <2>1. e # Created
    BY <1>8 DEF Created, ItemAdded
  <2>2. Abstract!AddItem(o, p)
    BY <1>1, <1>2, <1>3, <1>8, <2>1 DEF Abstract!AddItem
  <2>. QED  BY <2>2 DEF Abstract!Next
<1>. QED  BY <1>5, <1>6, <1>7, <1>8 DEF Events

\* command_handler.py implements OrderLog: concurrent invocations with stale
\* reads behave like atomic appends to one log per order, each legal for the
\* whole log it extends.
THEOREM Refinement == Spec => ImplementsOrderLog
<1>1. Init => Abstract!Init
  BY DEF Init, Abstract!Init
<1>2. IInv /\ [Next]_vars => [Abstract!Next]_table
  <2> SUFFICES ASSUME IInv, [Next]_vars, table' # table
               PROVE  Abstract!Next
    OBVIOUS
  <2>1. PICK w \in Workers : StoreEvent(w)
    BY TableChange
  <2>. QED  BY <2>1, StoreIsLegalAppend, LegalAppendIsAbstractStep
<1>. QED
  BY <1>1, <1>2, Invariance, PTL DEF Spec, ImplementsOrderLog, Abstract!Spec

\* No step replaces or removes a stored event: the event store of solution.tf
\* is an immutable log.
THEOREM StoredEventsStay == Spec => AppendOnly
<1> DEFINE Kept == \A o \in Orders : \A v \in DOMAIN table[o] :
                      v \in DOMAIN table'[o] /\ table'[o][v] = table[o][v]
<1>1. IInv /\ [Next]_vars => [Kept]_table
  <2> SUFFICES ASSUME IInv, [Next]_vars, table' # table
               PROVE  Kept
    OBVIOUS
  <2>1. PICK w \in Workers : StoreEvent(w)
    BY TableChange
  <2>2. PICK q \in Orders, e \in Events : AppendsTo(q, e)
    BY <2>1, StoreIsLegalAppend
  <2> SUFFICES ASSUME NEW o \in Orders, NEW v \in DOMAIN table[o]
               PROVE  v \in DOMAIN table'[o] /\ table'[o][v] = table[o][v]
    OBVIOUS
  <2>3. table \in [Orders -> Seq(Events)]
    BY DEF IInv, TypeOK
  <2>4. CASE o # q
    BY <2>2, <2>3, <2>4 DEF AppendsTo
  <2>5. CASE o = q
    <3> DEFINE s == table[q]
    <3>1. s \in Seq(Events) /\ DOMAIN s = 1 .. Len(s) /\ Len(s) \in Nat
      BY <2>3, LenProperties
    <3>2. /\ DOMAIN Append(s, e) = 1 .. (Len(s) + 1)
          /\ \A i \in 1 .. Len(s) : Append(s, e)[i] = s[i]
      BY <3>1, AppendProperties, LenProperties
    <3>3. table'[q] = Append(s, e)
      BY <2>2, <2>3 DEF AppendsTo
    <3>. QED  BY <2>5, <3>1, <3>2, <3>3
  <2>. QED  BY <2>4, <2>5
<1>. QED
  BY <1>1, Invariance, PTL DEF Spec, AppendOnly

--------------------------------------------------------------------------------
(* The functional version.  These proofs rest on what the table does to the    *)
(* float price: no item is ever stored, so no order is ever confirmed and      *)
(* every history is at most its creation.  Without that an AddItem for an      *)
(* order that does not exist, whose empty aggregate counts as a draft, would   *)
(* come before the creation.                                                   *)

\* The request that created the order was told so, or its answer was lost.
MadeBy(o, r) ==
    /\ store[o] = <<[event |-> Advanced!Created, by |-> r]>>
    /\ requests[r].order = o /\ requests[r].event = Advanced!Created
    /\ requests[r].pc = "200" \/ requests[r].resent

\* A history is empty or a creation.
Histories == {<< >>} \cup {<<[event |-> Advanced!Created, by |-> r]>> : r \in Requests}
\* ... and who made the creation knows it.
AtMostCreated ==
    \A o \in AdvancedOrders : store[o] = << >> \/ \E r \in Requests : MadeBy(o, r)

RequestTypes == [pc : {"new", "load", "append"} \cup Advanced!Answers,
                 order : AdvancedOrders, event : Advanced!Asked,
                 version : Nat \ {0}, resent : BOOLEAN]

\* What is known of a request: what it appends, and what it has stored.
RequestSound(r) ==
    /\ requests[r].pc = "append" =>
           /\ requests[r].event # Advanced!Confirmed
           /\ requests[r].event = Advanced!Created => requests[r].version = 1
    /\ requests[r].pc = "200" => Advanced!Stored(r)
    /\ requests[r].resent => Advanced!Stored(r) /\ requests[r].pc \notin {"new", "load", "200"}

AdvancedIInv ==
    /\ requests \in [Requests -> RequestTypes]
    /\ store \in [AdvancedOrders -> Histories]
    /\ AtMostCreated
    /\ \A r \in Requests : RequestSound(r)

--------------------------------------------------------------------------------
\* The events differ from each other.
LEMMA EventsDiffer ==
    /\ Advanced!Created # Advanced!Confirmed
    /\ \A p : /\ Advanced!ItemAdded(p) # Advanced!Created
              /\ Advanced!ItemAdded(p) # Advanced!Confirmed
    /\ Advanced!Created.type = "OrderCreated" /\ Advanced!Confirmed.type = "OrderConfirmed"
    /\ \A p : Advanced!ItemAdded(p).type = "ItemAdded"
BY DEF Advanced!Created, Advanced!Confirmed, Advanced!ItemAdded

\* A put into an empty history makes a history of one event.
LEMMA FirstPut ==
    ASSUME NEW x
    PROVE  Advanced!WithItem(<< >>, 1, x) = <<x>>
<1>1. DOMAIN << >> \cup {1} = 1 .. 1
  BY EmptySeq
<1>2. Advanced!WithItem(<< >>, 1, x) = [u \in 1 .. 1 |-> x]
  BY <1>1 DEF Advanced!WithItem
<1>. QED  BY <1>2

\* Initially nothing is stored and nothing was asked.
LEMMA AdvancedInitial == Advanced!Init => AdvancedIInv
<1> SUFFICES ASSUME Advanced!Init PROVE AdvancedIInv
  OBVIOUS
<1>1. requests \in [Requests -> [pc : {"new"}, order : AdvancedOrders, event : Advanced!Asked,
                                version : {1}, resent : {FALSE}]]
  BY DEF Advanced!Init
<1>2. ASSUME NEW r \in Requests
      PROVE  requests[r] \in RequestTypes /\ requests[r].pc = "new" /\ ~ requests[r].resent
  <2>1. requests[r] \in [pc : {"new"}, order : AdvancedOrders, event : Advanced!Asked,
                        version : {1}, resent : {FALSE}]
    BY <1>1
  <2>2. requests[r].pc = "new" /\ requests[r].version = 1 /\ requests[r].resent = FALSE
    BY <2>1
  <2>3. requests[r] = [pc |-> "new", order |-> requests[r].order, event |-> requests[r].event,
                       version |-> 1, resent |-> FALSE]
    BY <2>1
  <2>4. requests[r].order \in AdvancedOrders /\ requests[r].event \in Advanced!Asked
    BY <2>1
  <2>5. [pc |-> "new", order |-> requests[r].order, event |-> requests[r].event,
         version |-> 1, resent |-> FALSE] \in RequestTypes
    BY <2>4 DEF RequestTypes
  <2>. QED  BY <2>2, <2>3, <2>5
<1>3. requests \in [Requests -> RequestTypes]
  BY <1>1, <1>2
<1>4. \A r \in Requests : RequestSound(r)
  BY <1>2 DEF RequestSound
<1>. QED  BY <1>3, <1>4 DEF Advanced!Init, AdvancedIInv, AtMostCreated, Histories

\* A request that is not over goes on; what it must know of what it appends holds.
LEMMA GoOnKeeps ==
    ASSUME AdvancedIInv, NEW r \in Requests, requests[r].pc \in {"new", "load", "append"},
           NEW x \in RequestTypes, store' = store, requests' = [requests EXCEPT ![r] = x],
           x.order = requests[r].order, x.event = requests[r].event,
           x.resent = requests[r].resent, x.pc \notin {"new", "load", "200"} \/ ~ x.resent,
           x.pc # "200",
           x.pc = "append" => /\ x.event # Advanced!Confirmed
                              /\ (x.event = Advanced!Created => x.version = 1)
    PROVE  AdvancedIInv'
<1>1. /\ requests' \in [Requests -> RequestTypes]
      /\ requests'[r] = x
      /\ \A q \in Requests : q # r => requests'[q] = requests[q]
      /\ \A q \in Requests : requests'[q].order = requests[q].order
  BY DEF AdvancedIInv
<1>2. \A q \in Requests : Advanced!Stored(q)' <=> Advanced!Stored(q)
  BY <1>1 DEF Advanced!Stored
<1>3. \A o \in AdvancedOrders, q \in Requests : MadeBy(o, q) => MadeBy(o, q)'
  BY <1>1 DEF MadeBy
<1>4. AtMostCreated'
  BY <1>3 DEF AdvancedIInv, AtMostCreated
<1>5. ASSUME NEW q \in Requests PROVE RequestSound(q)'
  BY <1>1, <1>2 DEF AdvancedIInv, RequestSound
<1>. QED  BY <1>1, <1>4, <1>5 DEF AdvancedIInv

\* A step that only moves a request to another place.
LEMMA GotoKeeps ==
    ASSUME AdvancedIInv, NEW r \in Requests, requests[r].pc \in {"new", "load", "append"},
           NEW pc \in {"load", "400", "409", "500", "none"},
           pc = "load" => requests[r].pc = "new", Advanced!Goto(r, pc), store' = store
    PROVE  AdvancedIInv'
<1> DEFINE x == [requests[r] EXCEPT !.pc = pc]
<1>1. requests' = [requests EXCEPT ![r] = x] /\ requests[r] \in RequestTypes
  BY DEF Advanced!Goto, AdvancedIInv
<1>2. /\ x \in RequestTypes /\ x.pc = pc /\ x.order = requests[r].order
      /\ x.event = requests[r].event /\ x.resent = requests[r].resent
  BY <1>1 DEF RequestTypes, Advanced!Answers
<1>3. pc = "load" => ~ x.resent
  BY <1>2 DEF AdvancedIInv, RequestSound
<1>. HIDE DEF x
<1>. QED  BY <1>1, <1>2, <1>3, GoOnKeeps

\* No history has an item, so no confirmation is ever decided.
LEMMA DecideKeeps ==
    ASSUME AdvancedIInv, NEW r \in Requests, NEW k \in Nat, Advanced!Decide(r, k)
    PROVE  AdvancedIInv'
<1> DEFINE h == Advanced!View(store[requests[r].order], k)
           n == Advanced!VersionOf(requests[r].event, Advanced!Aggregate(h))
           x == [requests[r] EXCEPT !.pc = "append", !.version = n]
<1>1. /\ requests[r].pc = "load" /\ requests[r] \in RequestTypes /\ store' = store
      /\ requests' = [requests EXCEPT ![r] = x]
      /\ Advanced!Allows(requests[r].event, Advanced!Aggregate(h))
  BY DEF Advanced!Decide, Advanced!Loaded, AdvancedIInv
<1>2. requests[r].order \in AdvancedOrders
  BY <1>1 DEF RequestTypes
<1>3. \A v \in DOMAIN store[requests[r].order] :
          store[requests[r].order][v].event = Advanced!Created /\ v = 1
  BY <1>2 DEF AdvancedIInv, AtMostCreated, MadeBy
<1>4. \A v \in DOMAIN h : h[v].event = Advanced!Created /\ v = 1
  BY <1>3 DEF Advanced!View
<1>. HIDE DEF h
<1>5. Advanced!Aggregate(h).items = {}
  BY <1>4, EventsDiffer DEF Advanced!Aggregate
<1>6. requests[r].event # Advanced!Confirmed
  BY <1>1, <1>5, EventsDiffer DEF Advanced!Allows
<1>7. Advanced!CurrentVersion(h) \in {0, 1}
  <2>1. CASE DOMAIN h = {}
    BY <2>1 DEF Advanced!CurrentVersion
  <2>2. CASE DOMAIN h # {}
    <3>1. 1 \in DOMAIN h /\ \A u \in DOMAIN h : u <= 1
      BY <2>2, <1>4
    <3>2. (CHOOSE v \in DOMAIN h : \A u \in DOMAIN h : u <= v) = 1
      BY <3>1, <1>4
    <3>. QED  BY <2>2, <3>2 DEF Advanced!CurrentVersion
  <2>. QED  BY <2>1, <2>2
<1>8. n \in Nat \ {0} /\ (requests[r].event = Advanced!Created => n = 1)
  BY <1>7 DEF Advanced!VersionOf, Advanced!Aggregate
<1>. HIDE DEF n
<1>9. /\ x \in RequestTypes /\ x.pc = "append" /\ x.order = requests[r].order
      /\ x.event = requests[r].event /\ x.resent = requests[r].resent /\ x.version = n
  BY <1>1, <1>8 DEF RequestTypes
<1>10. ~ x.resent
  BY <1>1, <1>9 DEF AdvancedIInv, RequestSound
<1>. HIDE DEF x
<1>. QED  BY <1>1, <1>6, <1>8, <1>9, <1>10, GoOnKeeps

\* The put that passes its condition creates an order that was not there.
LEMMA PutCreates ==
    ASSUME AdvancedIInv, NEW r \in Requests, Advanced!Put(r)
    PROVE  LET o == requests[r].order IN
           /\ o \in AdvancedOrders /\ requests[r].event = Advanced!Created /\ store[o] = << >>
           /\ store' = [store EXCEPT ![o] = <<[event |-> Advanced!Created, by |-> r]>>]
<1> DEFINE o == requests[r].order
<1>1. /\ o \in AdvancedOrders /\ requests[r].event \in Advanced!Asked /\ requests[r].pc = "append"
      /\ requests[r].event # Advanced!Confirmed
      /\ requests[r].event = Advanced!Created => requests[r].version = 1
  BY DEF Advanced!Put, AdvancedIInv, RequestTypes, RequestSound
<1>2. requests[r].event = Advanced!Created
  BY <1>1, EventsDiffer DEF Advanced!Put, Advanced!Storable, Advanced!Asked
<1>3. 1 \notin DOMAIN store[o]
  BY <1>1, <1>2 DEF Advanced!Put, Advanced!KeyIsFree
<1>4. store[o] = << >>
  BY <1>1, <1>3 DEF AdvancedIInv, AtMostCreated, MadeBy
<1>. QED  BY <1>1, <1>2, <1>4, FirstPut DEF Advanced!Put

\* The request that put its event is answered 200, or sends it again.
LEMMA PutKeeps ==
    ASSUME AdvancedIInv, NEW r \in Requests, Advanced!Append200(r) \/ Advanced!PutUnacknowledged(r)
    PROVE  AdvancedIInv'
<1>1. Advanced!Put(r) /\ requests[r] \in RequestTypes /\ requests[r].pc = "append"
  BY DEF Advanced!Append200, Advanced!PutUnacknowledged, Advanced!Put, AdvancedIInv
<1> DEFINE item == [event |-> Advanced!Created, by |-> r]
<1>2. PICK o \in AdvancedOrders :
          /\ o = requests[r].order /\ requests[r].event = Advanced!Created /\ store[o] = << >>
          /\ store' = [store EXCEPT ![o] = <<item>>]
  BY <1>1, PutCreates
<1>3. /\ store' \in [AdvancedOrders -> Histories] /\ store'[o] = <<item>>
      /\ \A q \in AdvancedOrders : q # o => store'[q] = store[q]
  <2>1. <<item>> \in Histories
    BY DEF Histories
  <2>. QED  BY <1>2, <2>1 DEF AdvancedIInv
<1>4. ~ requests[r].resent
  BY <1>2, EmptySeq DEF AdvancedIInv, RequestSound, Advanced!Stored
<1>5. PICK x \in RequestTypes :
          /\ requests' = [requests EXCEPT ![r] = x]
          /\ x.order = o /\ x.event = Advanced!Created /\ x.version = requests[r].version
          /\ (x.pc = "200" /\ ~ x.resent) \/ (x.pc = "append" /\ x.resent)
  <2>1. CASE Advanced!Append200(r)
    <3> DEFINE x == [requests[r] EXCEPT !.pc = "200"]
    <3>1. requests' = [requests EXCEPT ![r] = x]
      BY <2>1 DEF Advanced!Append200, Advanced!Goto
    <3>2. /\ x \in RequestTypes /\ x.order = o /\ x.event = Advanced!Created
          /\ x.version = requests[r].version /\ x.pc = "200" /\ ~ x.resent
      BY <1>1, <1>2, <1>4 DEF RequestTypes, Advanced!Answers
    <3>. QED  BY <3>1, <3>2
  <2>2. CASE Advanced!PutUnacknowledged(r)
    <3> DEFINE x == [requests[r] EXCEPT !.resent = TRUE]
    <3>1. requests' = [requests EXCEPT ![r] = x]
      BY <2>2 DEF Advanced!PutUnacknowledged
    <3>2. /\ x \in RequestTypes /\ x.order = o /\ x.event = Advanced!Created
          /\ x.version = requests[r].version /\ x.pc = "append" /\ x.resent
      BY <1>1, <1>2 DEF RequestTypes
    <3>. QED  BY <3>1, <3>2
  <2>. QED  BY <2>1, <2>2
<1>6. /\ requests' \in [Requests -> RequestTypes]
      /\ requests'[r] = x
      /\ \A q \in Requests : q # r => requests'[q] = requests[q]
  BY <1>5 DEF AdvancedIInv
<1>7. MadeBy(o, r)'
  BY <1>2, <1>3, <1>5, <1>6 DEF MadeBy
<1>8. ASSUME NEW p \in AdvancedOrders, p # o
      PROVE  store'[p] = << >> \/ \E q \in Requests : MadeBy(p, q)'
  <2>1. CASE store[p] = << >>
    BY <1>3, <1>8, <2>1
  <2>2. CASE \E q \in Requests : MadeBy(p, q)
    <3>1. PICK q \in Requests : MadeBy(p, q)
      BY <2>2
    <3>2. q # r
      BY <1>2, <1>8, <3>1 DEF MadeBy
    <3>. QED  BY <1>3, <1>6, <1>8, <3>1, <3>2 DEF MadeBy
  <2>. QED  BY <2>1, <2>2 DEF AdvancedIInv, AtMostCreated
<1>9. AtMostCreated'
  BY <1>7, <1>8 DEF AtMostCreated
<1>10. Advanced!Stored(r)'
  <2>1. 1 \in DOMAIN <<item>> /\ <<item>>[1] = item
    OBVIOUS
  <2>. QED  BY <1>3, <1>5, <1>6, <2>1 DEF Advanced!Stored
<1>11. ASSUME NEW q \in Requests, q # r PROVE Advanced!Stored(q) => Advanced!Stored(q)'
  <2>1. CASE requests[q].order = o
    BY <1>2, <2>1, EmptySeq DEF Advanced!Stored
  <2>2. CASE requests[q].order # o
    <3>1. requests[q].order \in AdvancedOrders
      BY DEF AdvancedIInv, RequestTypes
    <3>. QED  BY <1>3, <1>6, <1>11, <2>2, <3>1 DEF Advanced!Stored
  <2>. QED  BY <2>1, <2>2
<1>12. ASSUME NEW q \in Requests PROVE RequestSound(q)'
  <2>1. CASE q = r
    <3>1. requests[r].version = 1
      BY <1>1, <1>2 DEF AdvancedIInv, RequestSound
    <3>. QED  BY <1>5, <1>6, <1>10, <2>1, <3>1, EventsDiffer DEF RequestSound
  <2>2. CASE q # r
    BY <1>6, <1>11, <2>2 DEF AdvancedIInv, RequestSound
  <2>. QED  BY <2>1, <2>2
<1>. QED  BY <1>3, <1>6, <1>9, <1>12 DEF AdvancedIInv

\* Every step keeps the invariant.
LEMMA AdvancedStep == AdvancedIInv /\ [Advanced!Next]_<<store, requests>> => AdvancedIInv'
<1> SUFFICES ASSUME AdvancedIInv, [Advanced!Next]_<<store, requests>> PROVE AdvancedIInv'
  OBVIOUS
<1>1. CASE UNCHANGED <<store, requests>>
  BY <1>1 DEF AdvancedIInv, AtMostCreated, MadeBy, RequestSound, Advanced!Stored
<1>2. ASSUME NEW r \in Requests, Advanced!Accept(r) PROVE AdvancedIInv'
  BY <1>2, GotoKeeps DEF Advanced!Accept
<1>3. ASSUME NEW r \in Requests, NEW answer,
             Advanced!Reject(r, answer) \/ Advanced!CallFails(r, answer)
      PROVE  AdvancedIInv'
  BY <1>3, GotoKeeps DEF Advanced!Reject, Advanced!CallFails
<1>4. ASSUME NEW r \in Requests, NEW k \in Advanced!Staleness(requests[r].order),
             Advanced!Decide(r, k)
      PROVE  AdvancedIInv'
  <2>1. requests[r].order \in AdvancedOrders
    BY DEF AdvancedIInv, RequestTypes
  <2>2. k \in Nat
    BY <2>1 DEF Advanced!Staleness, AdvancedIInv, AtMostCreated, MadeBy
  <2>. QED  BY <1>4, <2>2, DecideKeeps
<1>5. ASSUME NEW r \in Requests, NEW k, Advanced!Refuse(r, k) PROVE AdvancedIInv'
  BY <1>5, GotoKeeps DEF Advanced!Refuse
<1>6. ASSUME NEW r \in Requests,
             Advanced!RefuseFloat(r) \/ Advanced!Conflict(r) \/ Advanced!Die(r)
      PROVE  AdvancedIInv'
  BY <1>6, GotoKeeps DEF Advanced!RefuseFloat, Advanced!Conflict, Advanced!Die
<1>7. ASSUME NEW r \in Requests, Advanced!Append200(r) \/ Advanced!PutUnacknowledged(r)
      PROVE  AdvancedIInv'
  BY <1>7, PutKeeps
<1>. QED  BY <1>1, <1>2, <1>3, <1>4, <1>5, <1>6, <1>7 DEF Advanced!Next

--------------------------------------------------------------------------------
\* In every reachable state each history is at most its creation.
THEOREM AdvancedInvariance == Advanced!Spec => []AdvancedIInv
BY AdvancedInitial, AdvancedStep, PTL DEF Advanced!Spec, Advanced!vars

\* The table holds sequences of events; every request keeps its types.
THEOREM AdvancedTypeCorrect == Advanced!Spec => []Advanced!TypeOK
<1>1. AdvancedIInv => Advanced!TypeOK
  <2> SUFFICES ASSUME AdvancedIInv PROVE Advanced!TypeOK
    OBVIOUS
  <2>1. ASSUME NEW o \in AdvancedOrders
        PROVE  store[o] \in Seq([event : Advanced!Events, by : Requests])
    <3>1. CASE store[o] = << >>
      BY <3>1, EmptySeq
    <3>2. CASE \E r \in Requests : MadeBy(o, r)
      <4>1. PICK r \in Requests : store[o] = <<[event |-> Advanced!Created, by |-> r]>>
        BY <3>2 DEF MadeBy
      <4>2. [event |-> Advanced!Created, by |-> r] \in [event : Advanced!Events, by : Requests]
        BY DEF Advanced!Events
      <4>. QED  BY <4>1, <4>2
    <3>. QED  BY <3>1, <3>2 DEF AdvancedIInv, AtMostCreated
  <2>2. store \in [AdvancedOrders -> Histories]
    BY DEF AdvancedIInv
  <2>. QED  BY <2>1, <2>2 DEF AdvancedIInv, RequestTypes, Advanced!TypeOK
<1>. QED  BY <1>1, AdvancedInvariance, PTL

\* The answers of the advanced handler, which runs alone, tell what its table holds.
THEOREM AnswersAreTrue == Advanced!Spec => []Advanced!AnswersTellTheStore
<1>1. AdvancedIInv => Advanced!AnswersTellTheStore
  <2> SUFFICES ASSUME AdvancedIInv, NEW r \in Requests
               PROVE  /\ requests[r].pc = "200" => Advanced!Stored(r)
                      /\ requests[r].pc \in {"400", "409", "500"} =>
                             (Advanced!Stored(r) <=> requests[r].resent)
    BY DEF Advanced!AnswersTellTheStore
  <2>1. requests[r].order \in AdvancedOrders /\ RequestSound(r) /\ requests[r].resent \in BOOLEAN
    BY DEF AdvancedIInv, RequestTypes
  <2>2. ASSUME Advanced!Stored(r) PROVE requests[r].pc = "200" \/ requests[r].resent
    <3>1. store[requests[r].order] # << >>
      BY <2>2, EmptySeq DEF Advanced!Stored
    <3>2. PICK q \in Requests : MadeBy(requests[r].order, q)
      BY <2>1, <3>1 DEF AdvancedIInv, AtMostCreated
    <3>3. q = r
      BY <2>2, <3>2 DEF Advanced!Stored, MadeBy
    <3>. QED  BY <3>2, <3>3 DEF MadeBy
  <2>. QED  BY <2>1, <2>2 DEF RequestSound
<1>. QED  BY <1>1, AdvancedInvariance, PTL

\* command_handler_advanced.py implements OrderLog without ghosts, the orders that the
\* log takes events for before their creation: every put creates an order atomically.
THEOREM AdvancedRefinement == Advanced!Spec => Advanced!ImplementsOrderLog
<1>1. Advanced!Init => Advanced!Abstract!Init
  <2> SUFFICES ASSUME Advanced!Init PROVE Advanced!Log = [o \in AdvancedOrders |-> << >>]
    BY DEF Advanced!Abstract!Init
  <2>1. ASSUME NEW o \in AdvancedOrders
        PROVE  [v \in DOMAIN store[o] |-> store[o][v].event] = << >>
    <3>1. store[o] = << >>
      BY DEF Advanced!Init
    <3>2. DOMAIN store[o] = {} /\ DOMAIN << >> = {}
      BY <3>1, EmptySeq
    <3>. QED  BY <3>1, <3>2
  <2>. QED  BY <2>1 DEF Advanced!Log
<1>2. AdvancedIInv /\ [Advanced!Next]_<<store, requests>> =>
          [Advanced!Abstract!Next]_(Advanced!Log)
  <2> SUFFICES ASSUME AdvancedIInv, [Advanced!Next]_<<store, requests>>,
                      Advanced!Log' # Advanced!Log
               PROVE  Advanced!Abstract!Next
    OBVIOUS
  <2>1. PICK r \in Requests : Advanced!Put(r)
    <3>1. store' = store => Advanced!Log' = Advanced!Log
      BY DEF Advanced!Log
    <3>. QED  BY <3>1 DEF Advanced!Next, Advanced!Accept, Advanced!Reject,
                        Advanced!CallFails, Advanced!Decide, Advanced!Refuse,
                        Advanced!RefuseFloat, Advanced!Append200,
                        Advanced!PutUnacknowledged, Advanced!Conflict, Advanced!Die
  <2>2. PICK o \in AdvancedOrders :
            /\ store[o] = << >>
            /\ store' = [store EXCEPT ![o] = <<[event |-> Advanced!Created, by |-> r]>>]
    BY <2>1, PutCreates
  <2>3. Advanced!Log[o] = << >>
    <3>1. DOMAIN store[o] = {} /\ DOMAIN << >> = {}
      BY <2>2, EmptySeq
    <3>2. [v \in DOMAIN store[o] |-> store[o][v].event] = << >>
      BY <2>2, <3>1
    <3>. QED  BY <3>2 DEF Advanced!Log
  <2>4. Append(Advanced!Log[o], Advanced!Created) = <<Advanced!Created>>
    BY <2>3
  <2>5. Advanced!Log' = [Advanced!Log EXCEPT ![o] = <<Advanced!Created>>]
    <3>1. ASSUME NEW p \in AdvancedOrders
          PROVE  Advanced!Log'[p] = [Advanced!Log EXCEPT ![o] = <<Advanced!Created>>][p]
      <4>1. CASE p = o
        <5>1. store'[o] = <<[event |-> Advanced!Created, by |-> r]>>
          BY <2>2 DEF AdvancedIInv
        <5>2. [v \in DOMAIN store'[o] |-> store'[o][v].event] = <<Advanced!Created>>
          BY <5>1
        <5>. QED  BY <4>1, <5>2 DEF Advanced!Log
      <4>2. CASE p # o
        <5>1. store'[p] = store[p]
          BY <2>2, <4>2 DEF AdvancedIInv
        <5>. QED  BY <4>2, <5>1 DEF Advanced!Log
      <4>. QED  BY <4>1, <4>2
    <3>. QED  BY <3>1 DEF Advanced!Log
  <2>6. Advanced!Abstract!Created = Advanced!Created
    BY DEF Advanced!Abstract!Created, Advanced!Created
  <2>7. Advanced!Abstract!CreateOrder(o)
    BY <2>3, <2>4, <2>5, <2>6 DEF Advanced!Abstract!CreateOrder, Advanced!Abstract!AppendEvent
  <2>. QED  BY <2>7 DEF Advanced!Abstract!Next
<1>. QED  BY <1>1, <1>2, AdvancedInvariance, PTL
     DEF Advanced!Spec, Advanced!vars, Advanced!ImplementsOrderLog, Advanced!Abstract!Spec

--------------------------------------------------------------------------------
(* The two write sides side by side, as OrderWrites composes them.             *)

\* Each write side of the composition behaves as it does alone: neither reads nor
\* writes the other's table, which the two deployments do not share.
LEMMA SidesBehaveAsAlone == BothSpec => Spec /\ Advanced!Spec
<1>1. BothInit => Init /\ Advanced!Init
  BY DEF BothInit
<1>2. [BothNext]_<<part, vars, store, requests>> =>
          [Next]_vars /\ [Advanced!Next]_(Advanced!vars)
  BY DEF BothNext, Advanced!vars
<1>. QED  BY <1>1, <1>2, PTL DEF BothSpec, Spec, Advanced!Spec

\* Of any number of clients at once, exactly those with 200 stored their event, and a
\* refusal is false only for a put that the SDK re-sent (command_handler_advanced.py).
THEOREM AdvancedAnswersAreTrue == BothSpec => []AdvancedAnswersTellTheStore
BY SidesBehaveAsAlone, AdvancedTypeCorrect, AnswersAreTrue, PTL
    DEF AdvancedAnswersTellTheStore

\* Both write sides implement the append-only log of the order system.
THEOREM BothImplementTheLog == BothSpec => ImplementsOrderLog /\ AdvancedImplementsOrderLog
BY SidesBehaveAsAlone, Refinement, AdvancedRefinement, PTL DEF AdvancedImplementsOrderLog
================================================================================

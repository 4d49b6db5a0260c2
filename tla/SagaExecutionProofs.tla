-------------------------- MODULE SagaExecutionProofs --------------------------
(* Proofs about SagaExecution for any number of failures of tasks that took    *)
(* effect.  The inductive invariant tells for every state of a state machine   *)
(* what led to it: the results that are in the data, and the steps that are    *)
(* done, not done, or undone.                                                  *)
EXTENDS SagaExecution, TLAPS

--------------------------------------------------------------------------------
\* The states of the order saga outside of the branches.
OrderMain ==
    {"ValidateOrder", "ReserveInventory", "ProcessPayment", "ParallelProcessing",
     "CheckShipmentStatus", "ReleaseInventory", "NotifyCustomerFailure",
     "ValidationFailed", "ReservationFailed", "OrderCompleted", "OrderFailed"}

\* The order saga is in state s with the data d and the tasks x done, after u failures
\* of tasks that took effect.
OrderAt(s, d, x, u) ==
    /\ s \in OrderMain \cup {Aborted}   \* CompensatePayment is out of reach
    /\ x \subseteq DOMAIN Order!States /\ "CompensatePayment" \notin x
    /\ "order" \in d
    /\ s \in {"ProcessPayment", "ParallelProcessing", "ReleaseInventory"} => "reservation" \in d
    /\ s = "ParallelProcessing" => "payment" \in d
    /\ s \in {"ReleaseInventory", "NotifyCustomerFailure", "ValidationFailed",
              "ReservationFailed"} => "error" \in d
    /\ s # "OrderCompleted" => "parallel_results" \notin d
    \* forward: the steps before are done, and none is undone
    /\ s \in {"ProcessPayment", "ParallelProcessing", "OrderCompleted"} =>
           "ReserveInventory" \in x
    /\ s \in {"ParallelProcessing", "OrderCompleted"} => "ProcessPayment" \in x
    /\ s \in {"ValidateOrder", "ReserveInventory", "ProcessPayment", "ParallelProcessing",
              "OrderCompleted"} => "ReleaseInventory" \notin x
    \* and back: what is still to be undone is undone, unless a failure hid an effect
    /\ u = 0 =>
           /\ s \in {"ValidateOrder", "ReserveInventory", "ValidationFailed",
                     "ReservationFailed"} => "ReserveInventory" \notin x
           /\ s \notin {"ParallelProcessing", "OrderCompleted", "CheckShipmentStatus", Aborted}
                  => "ProcessPayment" \notin x
           /\ s \in {"NotifyCustomerFailure", "OrderFailed"} =>
                  "ReserveInventory" \notin x \/ "ReleaseInventory" \in x

\* The states of the three branches of ParallelProcessing.
BranchStates(b) ==
    IF b = 1 THEN {"CreateShipment", "ShipmentFailed"}
    ELSE IF b = 2 THEN {"SendConfirmationEmail", "EmailFailedDLQ"}
    ELSE {"UpdateAnalytics", "AnalyticsFailedIgnore"}

\* The states of the travel saga on the way forward, and on the way back.
TravelAt(s, d, x, u) ==
    /\ s \in DOMAIN Travel!States \cup {Aborted} /\ x \subseteq DOMAIN Travel!States
    /\ {"booking", "idempotencyKey"} \subseteq d
    /\ s \in {"ReserveHotel", "ReserveCar", "ProcessPayment", "CancelCar", "CancelHotel",
              "CancelFlight"} => "flight" \in d
    /\ s \in {"ReserveCar", "ProcessPayment", "CancelCar", "CancelHotel"} => "hotel" \in d
    /\ s \in {"ProcessPayment", "CancelCar"} => "car" \in d
    /\ s \in {"CancelCar", "CancelHotel", "CancelFlight", "NotifyFailure"} => "error" \in d
    /\ s \in {"ReserveHotel", "ReserveCar", "ProcessPayment", "SendConfirmation",
              "BookingSuccess"} => "ReserveFlight" \in x
    /\ s \in {"ReserveCar", "ProcessPayment", "SendConfirmation", "BookingSuccess"} =>
           "ReserveHotel" \in x
    /\ s \in {"ProcessPayment", "SendConfirmation", "BookingSuccess"} => "ReserveCar" \in x
    /\ s \in {"SendConfirmation", "BookingSuccess"} => "ProcessPayment" \in x
    /\ s \in {"ReserveFlight", "ReserveHotel", "ReserveCar", "ProcessPayment",
              "SendConfirmation", "BookingSuccess"} =>
           x \cap {"CancelCar", "CancelHotel", "CancelFlight"} = {}
    /\ u = 0 =>
           /\ s = "ReserveFlight" => "ReserveFlight" \notin x
           /\ s \in {"ReserveFlight", "ReserveHotel", "CancelFlight"} =>
                  "ReserveHotel" \notin x \/ "CancelHotel" \in x
           /\ s \in {"ReserveFlight", "ReserveHotel", "ReserveCar", "CancelHotel", "CancelFlight"} =>
                  "ReserveCar" \notin x \/ "CancelCar" \in x
           /\ s \notin {"SendConfirmation", "BookingSuccess", Aborted} => "ProcessPayment" \notin x
           /\ s \in {"NotifyFailure", "BookingFailed"} =>
                  /\ "ReserveFlight" \notin x \/ "CancelFlight" \in x
                  /\ "ReserveHotel" \notin x \/ "CancelHotel" \in x
                  /\ "ReserveCar" \notin x \/ "CancelCar" \in x

OrderSound ==
    /\ OrderAt(at[Main], data, done, unclear)
    /\ \A b \in Branches : at[b] \in BranchStates(b) \cup {Idle, End}
    /\ (\E b \in Branches : at[b] # Idle) => at[Main] = "ParallelProcessing"

TravelSound ==
    /\ TravelAt(at[Main], data, done, unclear)
    /\ \A b \in Branches : at[b] = Idle

SagaIInv ==
    /\ TypeOK
    /\ saga = "order" => OrderSound
    /\ saga = "travel" => TravelSound

\* What SagaStep knows of the variables before their type.
SagaShape ==
    /\ saga \in Sagas /\ unclear \in 0 .. MaxUnclear
    /\ at = [th \in Threads |-> at[th]] /\ tries \in [Threads -> Nat]
    /\ saga = "order" => OrderSound
    /\ saga = "travel" => TravelSound

--------------------------------------------------------------------------------
\* The order saga as a table: what each state is, and where it leads.
LEMMA OrderTable ==
    /\ DOMAIN Order!States =
           {"ValidateOrder", "ReserveInventory", "ProcessPayment",
            "ParallelProcessing", "CreateShipment", "ShipmentFailed",
            "SendConfirmationEmail", "EmailFailedDLQ", "UpdateAnalytics",
            "AnalyticsFailedIgnore", "CheckShipmentStatus", "CompensatePayment",
            "ReleaseInventory", "NotifyCustomerFailure", "ValidationFailed",
            "ReservationFailed", "OrderCompleted", "OrderFailed"}
    /\ Order!States["ValidateOrder"] =
           Task({"order"}, "validation", 3, "ValidationFailed", "ReserveInventory")
    /\ Order!States["ReserveInventory"] =
           Task({"order"}, "reservation", 2, "ReservationFailed", "ProcessPayment")
    /\ Order!States["ProcessPayment"] =
           Task({"order", "reservation"}, "payment", 2, "ReleaseInventory", "ParallelProcessing")
    /\ Order!States["ParallelProcessing"] =
           Parallel(<<"CreateShipment", "SendConfirmationEmail", "UpdateAnalytics">>,
                    "parallel_results", "CheckShipmentStatus", "OrderCompleted")
    /\ Order!States["CreateShipment"] =
           Task({"order", "payment"}, None, 2, "ShipmentFailed", End)
    /\ Order!States["ShipmentFailed"] =
           Pass(End)
    /\ Order!States["SendConfirmationEmail"] =
           Task({"order"}, None, 3, "EmailFailedDLQ", End)
    /\ Order!States["EmailFailedDLQ"] =
           Task({"order"}, None, 0, None, End)
    /\ Order!States["UpdateAnalytics"] =
           Task({"order"}, None, 2, "AnalyticsFailedIgnore", End)
    /\ Order!States["AnalyticsFailedIgnore"] =
           Pass(End)
    /\ Order!States["CheckShipmentStatus"] =
           Choice("parallel_results", "ShipmentFailed", "CompensatePayment", "OrderCompleted")
    /\ Order!States["CompensatePayment"] =
           Task({"payment"}, "refund", 5, None, "ReleaseInventory")
    /\ Order!States["ReleaseInventory"] =
           Task({"reservation"}, "release", 5, None, "NotifyCustomerFailure")
    /\ Order!States["NotifyCustomerFailure"] =
           Task({"order", "error"}, None, 0, None, "OrderFailed")
    /\ Order!States["ValidationFailed"] =
           Task({"order", "error"}, None, 0, None, "OrderFailed")
    /\ Order!States["ReservationFailed"] =
           Task({"order", "error"}, None, 0, None, "OrderFailed")
    /\ Order!States["OrderCompleted"] =
           Succeed
    /\ Order!States["OrderFailed"] =
           Fail
BY DEF Order!States, Order!ValidateOrder, Order!ReserveInventory, Order!ProcessPayment,
       Order!ParallelProcessing, Order!CreateShipment, Order!SendConfirmationEmail,
       Order!EmailFailedDLQ, Order!UpdateAnalytics, Order!CheckShipmentStatus,
       Order!CompensatePayment, Order!ReleaseInventory, Order!NotifyCustomerFailure,
       Order!Task, Task, Order!Parallel, Parallel, Order!Choice, Choice, Order!Pass,
       Pass, Order!Succeed, Succeed, Order!Fail, Fail, Order!None, None, Order!End, End

\* The travel saga as a table: what each state is, and where it leads.
LEMMA TravelTable ==
    /\ DOMAIN Travel!States =
           {"ReserveFlight", "ReserveHotel", "ReserveCar", "ProcessPayment",
            "SendConfirmation", "CancelCar", "CancelHotel", "CancelFlight",
            "NotifyFailure", "BookingSuccess", "BookingFailed"}
    /\ Travel!States["ReserveFlight"] =
           Task({"booking", "idempotencyKey"}, "flight", 0, "BookingFailed", "ReserveHotel")
    /\ Travel!States["ReserveHotel"] =
           Task({"booking", "idempotencyKey"}, "hotel", 0, "CancelFlight", "ReserveCar")
    /\ Travel!States["ReserveCar"] =
           Task({"booking", "idempotencyKey"}, "car", 0, "CancelHotel", "ProcessPayment")
    /\ Travel!States["ProcessPayment"] =
           Task({"booking", "flight", "hotel", "car"}, "payment", 0, "CancelCar",
                "SendConfirmation")
    /\ Travel!States["SendConfirmation"] =
           Task({"booking"}, None, 0, None, "BookingSuccess")
    /\ Travel!States["CancelCar"] =
           Task({"car"}, "cancelCar", 0, None, "CancelHotel")
    /\ Travel!States["CancelHotel"] =
           Task({"hotel"}, "cancelHotel", 0, None, "CancelFlight")
    /\ Travel!States["CancelFlight"] =
           Task({"flight"}, "cancelFlight", 0, None, "NotifyFailure")
    /\ Travel!States["NotifyFailure"] =
           Task({"booking", "error"}, None, 0, None, "BookingFailed")
    /\ Travel!States["BookingSuccess"] =
           Succeed
    /\ Travel!States["BookingFailed"] =
           Fail
BY DEF Travel!States, Travel!ReserveFlight, Travel!ReserveHotel, Travel!ReserveCar,
       Travel!ProcessPayment, Travel!SendConfirmation, Travel!CancelCar,
       Travel!CancelHotel, Travel!CancelFlight, Travel!NotifyFailure, Travel!Task, Task,
       Travel!Succeed, Succeed, Travel!Fail, Fail, Travel!None, None

--------------------------------------------------------------------------------
\* A task of the order saga that succeeds leads to a state that agrees with what is done.
LEMMA OrderTaskSucceeds ==
    ASSUME NEW s, NEW d, NEW x, NEW u, OrderAt(s, d, x, u), s \in OrderMain,
           Order!States[s].type = "Task"
    PROVE  OrderAt(Order!States[s].next, d \cup ({Order!States[s].writes} \ {None}),
                   x \cup {s}, u)
BY OrderTable DEF OrderAt, OrderMain, Task, Parallel, Choice, Pass, Succeed, Fail, None, End,
                  Aborted

\* So does a task that fails, with an effect or without, and is tried again ...
LEMMA OrderTaskRetried ==
    ASSUME NEW s, NEW d, NEW x, NEW u, OrderAt(s, d, x, u), s \in OrderMain,
           Order!States[s].type = "Task",
           NEW e \in SUBSET {s}, NEW v, v = 0 => u = 0 /\ e = {}
    PROVE  OrderAt(s, d, x \cup e, v)
<1>1. CASE e = {}
  BY <1>1, OrderTable DEF OrderAt, OrderMain, Task, Parallel, Choice, Pass, Succeed, Fail,
         None, End, Aborted
<1>2. CASE e = {s}
  BY <1>2, OrderTable DEF OrderAt, OrderMain, Task, Parallel, Choice, Pass, Succeed, Fail,
         None, End, Aborted
<1> QED
  BY <1>1, <1>2

\* ... or whose error is caught ...
LEMMA OrderTaskCaught ==
    ASSUME NEW s, NEW d, NEW x, NEW u, OrderAt(s, d, x, u), s \in OrderMain,
           Order!States[s].type = "Task", Order!States[s].catch # None,
           NEW e \in SUBSET {s}, NEW v, v = 0 => u = 0 /\ e = {}
    PROVE  OrderAt(Order!States[s].catch, d \cup {"error"}, x \cup e, v)
<1>1. CASE e = {}
  BY <1>1, OrderTable DEF OrderAt, OrderMain, Task, Parallel, Choice, Pass, Succeed, Fail,
         None, End, Aborted
<1>2. CASE e = {s}
  BY <1>2, OrderTable DEF OrderAt, OrderMain, Task, Parallel, Choice, Pass, Succeed, Fail,
         None, End, Aborted
<1> QED
  BY <1>1, <1>2

\* ... or which aborts the execution.
LEMMA OrderTaskAborts ==
    ASSUME NEW s, NEW d, NEW x, NEW u, OrderAt(s, d, x, u), s \in OrderMain,
           Order!States[s].type = "Task",
           NEW e \in SUBSET {s}, NEW v, v = 0 => u = 0 /\ e = {}
    PROVE  OrderAt(Aborted, d, x \cup e, v)
<1>1. CASE e = {}
  BY <1>1, OrderTable DEF OrderAt, OrderMain, Task, Parallel, Choice, Pass, Succeed, Fail,
         None, End, Aborted
<1>2. CASE e = {s}
  BY <1>2, OrderTable DEF OrderAt, OrderMain, Task, Parallel, Choice, Pass, Succeed, Fail,
         None, End, Aborted
<1> QED
  BY <1>1, <1>2

--------------------------------------------------------------------------------
\* A task of the travel saga that succeeds leads to a state that agrees with what is done.
LEMMA TravelTaskSucceeds ==
    ASSUME NEW s, NEW d, NEW x, NEW u, TravelAt(s, d, x, u), s \in DOMAIN Travel!States,
           Travel!States[s].type = "Task"
    PROVE  TravelAt(Travel!States[s].next, d \cup ({Travel!States[s].writes} \ {None}),
                    x \cup {s}, u)
BY TravelTable DEF TravelAt, Task, Parallel, Choice, Pass, Succeed, Fail, None, End, Aborted

\* So does a task that fails, with an effect or without, and is tried again ...
LEMMA TravelTaskRetried ==
    ASSUME NEW s, NEW d, NEW x, NEW u, TravelAt(s, d, x, u), s \in DOMAIN Travel!States,
           Travel!States[s].type = "Task",
           NEW e \in SUBSET {s}, NEW v, v = 0 => u = 0 /\ e = {}
    PROVE  TravelAt(s, d, x \cup e, v)
BY TravelTable DEF TravelAt, Task, Parallel, Choice, Pass, Succeed, Fail, None, End, Aborted

\* ... or whose error is caught ...
LEMMA TravelTaskCaught ==
    ASSUME NEW s, NEW d, NEW x, NEW u, TravelAt(s, d, x, u), s \in DOMAIN Travel!States,
           Travel!States[s].type = "Task", Travel!States[s].catch # None,
           NEW e \in SUBSET {s}, NEW v, v = 0 => u = 0 /\ e = {}
    PROVE  TravelAt(Travel!States[s].catch, d \cup {"error"}, x \cup e, v)
BY TravelTable DEF TravelAt, Task, Parallel, Choice, Pass, Succeed, Fail, None, End, Aborted

\* ... or which aborts the execution.
LEMMA TravelTaskAborts ==
    ASSUME NEW s, NEW d, NEW x, NEW u, TravelAt(s, d, x, u), s \in DOMAIN Travel!States,
           Travel!States[s].type = "Task",
           NEW e \in SUBSET {s}, NEW v, v = 0 => u = 0 /\ e = {}
    PROVE  TravelAt(Aborted, d, x \cup e, v)
BY TravelTable DEF TravelAt, Task, Parallel, Choice, Pass, Succeed, Fail, None, End, Aborted

--------------------------------------------------------------------------------
\* What the states of the branches are: tasks that write no result and end their
\* branch, directly or by a state of the same branch that takes the error; only the
\* task for the dead letter queue has no such state.
LEMMA BranchTable ==
    ASSUME NEW b \in Branches, NEW s \in BranchStates(b)
    PROVE  /\ s \in DOMAIN Order!States
           /\ Order!States[s].type = "Task" =>
                  /\ Order!States[s].next = End /\ Order!States[s].writes = None
                  /\ Order!States[s].reads \subseteq {"order", "payment"}
                  /\ Order!States[s].catch = None => s = "EmailFailedDLQ"
                  /\ Order!States[s].catch # None => Order!States[s].catch \in BranchStates(b)
           /\ Order!States[s].type # "Task" =>
                  Order!States[s].type = "Pass" /\ Order!States[s].next = End
           /\ s \notin OrderMain \cup {Idle, End, Aborted}
BY OrderTable DEF BranchStates, OrderMain, Task, Pass, None, Idle, End, Aborted

\* What a branch does changes nothing that the execution needs, and when it fails the
\* execution goes to CheckShipmentStatus.
LEMMA OrderBranchDoes ==
    ASSUME NEW d, NEW x, NEW u, OrderAt("ParallelProcessing", d, x, u),
           NEW e \in SUBSET UNION {BranchStates(b) : b \in Branches},
           NEW v, v = 0 => u = 0
    PROVE  /\ OrderAt("ParallelProcessing", d, x \cup e, v)
           /\ OrderAt("CheckShipmentStatus", d \cup {"parallel_error"}, x \cup e, v)
<1>1. /\ e \subseteq DOMAIN Order!States
      /\ e \cap OrderMain = {}
      /\ "CompensatePayment" \notin e
  BY OrderTable DEF BranchStates, OrderMain, Branches
<1> QED
  BY <1>1, OrderTable DEF OrderAt, OrderMain, Aborted

\* Both ways on from ParallelProcessing: all branches ended, or one failed and there is
\* no result to choose by, so the execution aborts.
LEMMA OrderGoesOn ==
    ASSUME NEW d, NEW x, NEW u
    PROVE  /\ OrderAt("ParallelProcessing", d, x, u) =>
                  OrderAt("OrderCompleted", d \cup {"parallel_results"}, x, u)
           /\ OrderAt("CheckShipmentStatus", d, x, u) =>
                  "parallel_results" \notin d /\ OrderAt(Aborted, d, x, u)
BY DEF OrderAt, OrderMain, Aborted

\* A failed attempt that had no effect left no trace.
LEMMA Attempts ==
    ASSUME TypeOK, NEW th \in Threads, NEW effect \in {0, 1}, Attempt(th, effect)
    PROVE  /\ EffectOf(th, effect) \in SUBSET {at[th]}
           /\ unclear' = 0 => unclear = 0 /\ EffectOf(th, effect) = {}
           /\ unclear' \in 0 .. MaxUnclear
BY SagasAssumption DEF TypeOK, Attempt, EffectOf

\* Every action keeps the variables in their shape.
LEMMA Shapes ==
    ASSUME TypeOK, [Next]_vars
    PROVE  /\ saga' = saga /\ unclear' \in 0 .. MaxUnclear
           /\ at' = [th \in Threads |-> at'[th]] /\ tries' \in [Threads -> Nat]
<1>1. ASSUME NEW th \in Threads, TaskSucceeds(th) \/ PassOn(th)
      PROVE  /\ saga' = saga /\ unclear' \in 0 .. MaxUnclear
             /\ at' = [t \in Threads |-> at'[t]] /\ tries' \in [Threads -> Nat]
  BY <1>1 DEF TypeOK, TaskSucceeds, PassOn, Goto
<1>2. ASSUME NEW th \in Threads, NEW effect \in {0, 1}, Retry(th, effect) \/ Catch(th, effect)
      PROVE  /\ saga' = saga /\ unclear' \in 0 .. MaxUnclear
             /\ at' = [t \in Threads |-> at'[t]] /\ tries' \in [Threads -> Nat]
  <2>1. Attempt(th, effect) /\ saga' = saga
    BY <1>2 DEF Retry, Catch, Attempt
  <2> QED
    BY <1>2, <2>1, Attempts DEF TypeOK, Retry, Catch, Goto
<1>3. ASSUME NEW th \in Threads, NEW effect \in {0, 1}, NEW strays,
             AbortBranch(th, effect, strays)
      PROVE  /\ saga' = saga /\ unclear' \in 0 .. MaxUnclear
             /\ at' = [t \in Threads |-> at'[t]] /\ tries' \in [Threads -> Nat]
  <2>1. Attempt(th, effect) /\ saga' = saga
    BY <1>3 DEF AbortBranch, Attempt
  <2> QED
    BY <1>3, <2>1, Attempts DEF TypeOK, AbortBranch
<1>4. ASSUME NEW effect \in {0, 1}, AbortExecution(effect)
      PROVE  /\ saga' = saga /\ unclear' \in 0 .. MaxUnclear
             /\ at' = [t \in Threads |-> at'[t]] /\ tries' \in [Threads -> Nat]
  <2>1. Attempt(Main, effect) /\ saga' = saga /\ Main \in Threads
    BY <1>4 DEF AbortExecution, Attempt, Threads
  <2> QED
    BY <1>4, <2>1, Attempts DEF TypeOK, AbortExecution, Goto
<1>5. ASSUME Fork \/ Join \/ Choose
      PROVE  /\ saga' = saga /\ unclear' \in 0 .. MaxUnclear
             /\ at' = [t \in Threads |-> at'[t]] /\ tries' \in [Threads -> Nat]
  BY <1>5 DEF TypeOK, Fork, Join, Choose, Goto
<1>6. CASE UNCHANGED vars
  BY <1>6 DEF TypeOK, vars
<1> QED
  BY <1>1, <1>2, <1>3, <1>4, <1>5, <1>6 DEF Next

--------------------------------------------------------------------------------
\* While the order saga is outside of ParallelProcessing, its branches are idle: a task
\* is the execution's own, or of a branch that runs in ParallelProcessing.
LEMMA OrderWhere ==
    ASSUME TypeOK, saga = "order", OrderSound, NEW th \in Threads,
           In(th, "Task") \/ In(th, "Pass")
    PROVE  /\ th = Main => at[Main] \in OrderMain /\ \A b \in Branches : at[b] = Idle
           /\ th # Main => /\ th \in Branches /\ at[th] \in BranchStates(th)
                           /\ at[Main] = "ParallelProcessing"
           /\ In(th, "Pass") => th # Main
<1>1. States = Order!States
  BY DEF States
<1>2. {Idle, End, Aborted} \cap DOMAIN Order!States = {}
  BY OrderTable DEF Idle, End, Aborted
<1>3. at[Main] \in DOMAIN Order!States => at[Main] \in OrderMain
  BY <1>2 DEF OrderSound, OrderAt
<1>4. \A s \in OrderMain : Order!States[s].type # "Pass"
  BY OrderTable DEF OrderMain, Task, Parallel, Choice, Succeed, Fail
<1>5. Order!States["ParallelProcessing"].type = "Parallel"
  BY OrderTable DEF Parallel
<1>6. CASE th = Main
  BY <1>1, <1>3, <1>4, <1>5, <1>6 DEF OrderSound, In
<1>7. CASE th # Main
  <2>1. th \in Branches /\ at[th] \in DOMAIN Order!States
    BY <1>1, <1>7 DEF In, Threads
  <2> QED
    BY <1>2, <1>7, <2>1 DEF OrderSound
<1> QED
  BY <1>6, <1>7

\* Every step of the order saga leads to a state that agrees with what is done.
LEMMA OrderStep ==
    ASSUME TypeOK, saga = "order", OrderSound, [Next]_vars
    PROVE  OrderSound'
<1> DEFINE B == UNION {BranchStates(b) : b \in Branches}
<1>1. States = Order!States
  BY DEF States
<1>2. Main \in Threads /\ Branches \subseteq Threads /\ Main \notin Branches
  BY DEF Main, Branches, Threads
<1>3. at = [th \in Threads |-> at[th]]
  BY DEF TypeOK
<1> USE <1>1, <1>2, <1>3
<1>4. ASSUME NEW th \in Threads, TaskSucceeds(th)
      PROVE  OrderSound'
  <2>1. In(th, "Task") /\ at[th] \in DOMAIN Order!States /\ Order!States[at[th]].type = "Task"
    BY <1>4 DEF TaskSucceeds, In
  <2>2. /\ at' = [at EXCEPT ![th] = Order!States[at[th]].next] /\ unclear' = unclear
        /\ done' = done \cup {at[th]}
        /\ data' = data \cup ({Order!States[at[th]].writes} \ {None})
    BY <1>4 DEF TaskSucceeds, Goto, State
  <2>3. CASE th = Main
    <3>1. at[Main] \in OrderMain /\ \A b \in Branches : at'[b] = Idle
      BY <2>1, <2>2, <2>3, OrderWhere
    <3>2. OrderAt(at'[Main], data', done', unclear')
      BY <2>1, <2>2, <2>3, <3>1, OrderTaskSucceeds DEF OrderSound
    <3> QED
      BY <3>1, <3>2 DEF OrderSound
  <2>4. CASE th # Main
    <3>1. th \in Branches /\ at[th] \in BranchStates(th) /\ at[Main] = "ParallelProcessing"
      BY <2>1, <2>4, OrderWhere
    <3>2. Order!States[at[th]].next = End /\ Order!States[at[th]].writes = None
      BY <2>1, <3>1, BranchTable
    <3>3. OrderAt("ParallelProcessing", data, done \cup {at[th]}, unclear)
      BY <3>1, OrderBranchDoes DEF OrderSound
    <3> QED
      BY <2>2, <3>1, <3>2, <3>3 DEF OrderSound
  <2> QED
    BY <2>3, <2>4
<1>5. ASSUME NEW th \in Threads, NEW effect \in {0, 1}, Retry(th, effect)
      PROVE  OrderSound'
  <2>1. Attempt(th, effect) /\ In(th, "Task")
    BY <1>5 DEF Retry, Attempt
  <2>2. /\ at' = at /\ data' = data /\ done' = done \cup EffectOf(th, effect)
        /\ Order!States[at[th]].type = "Task"
    BY <1>5, <2>1 DEF Retry, In
  <2>3. CASE th = Main
    <3>1. at[Main] \in OrderMain /\ \A b \in Branches : at[b] = Idle
      BY <2>1, <2>3, OrderWhere
    <3>2. /\ EffectOf(th, effect) \in SUBSET {at[Main]}
          /\ unclear' = 0 => unclear = 0 /\ EffectOf(th, effect) = {}
      BY <2>1, <2>3, Attempts
    <3>3. OrderAt(at[Main], data, done \cup EffectOf(th, effect), unclear')
      BY <2>2, <2>3, <3>1, <3>2, OrderTaskRetried DEF OrderSound
    <3> QED
      BY <2>2, <3>1, <3>3 DEF OrderSound
  <2>4. CASE th # Main
    <3>1. th \in Branches /\ at[th] \in BranchStates(th) /\ at[Main] = "ParallelProcessing"
      BY <2>1, <2>4, OrderWhere
    <3>2. OrderAt("ParallelProcessing", data, done \cup EffectOf(th, effect), unclear')
      <4>1. EffectOf(th, effect) \in SUBSET B /\ (unclear' = 0 => unclear = 0)
        BY <2>1, <3>1, Attempts
      <4> QED
        BY <3>1, <4>1, OrderBranchDoes DEF OrderSound
    <3> QED
      BY <2>2, <3>1, <3>2 DEF OrderSound
  <2> QED
    BY <2>3, <2>4
<1>6. ASSUME NEW th \in Threads, NEW effect \in {0, 1}, Catch(th, effect)
      PROVE  OrderSound'
  <2>1. Attempt(th, effect) /\ In(th, "Task") /\ Order!States[at[th]].type = "Task"
    BY <1>6 DEF Catch, Attempt, In
  <2>2. /\ at' = [at EXCEPT ![th] = Order!States[at[th]].catch]
        /\ Order!States[at[th]].catch # None /\ done' = done \cup EffectOf(th, effect)
        /\ data' = IF th = Main THEN data \cup {"error"} ELSE data
    BY <1>6 DEF Catch, Goto, State
  <2>3. CASE th = Main
    <3>1. at[Main] \in OrderMain /\ \A b \in Branches : at'[b] = Idle
      BY <2>1, <2>2, <2>3, OrderWhere
    <3>2. OrderAt(at'[Main], data', done', unclear')
      <4>1. /\ EffectOf(th, effect) \in SUBSET {at[Main]}
            /\ unclear' = 0 => unclear = 0 /\ EffectOf(th, effect) = {}
        BY <2>1, <2>3, Attempts
      <4>2. OrderAt(Order!States[at[Main]].catch, data \cup {"error"},
                    done \cup EffectOf(th, effect), unclear')
        BY <2>1, <2>2, <2>3, <3>1, <4>1, OrderTaskCaught DEF OrderSound
      <4> QED
        BY <2>2, <2>3, <4>2
    <3> QED
      BY <3>1, <3>2 DEF OrderSound
  <2>4. CASE th # Main
    <3>1. th \in Branches /\ at[th] \in BranchStates(th) /\ at[Main] = "ParallelProcessing"
      BY <2>1, <2>4, OrderWhere
    <3>2. Order!States[at[th]].catch \in BranchStates(th)
      BY <2>1, <2>2, <3>1, BranchTable
    <3>3. OrderAt("ParallelProcessing", data, done \cup EffectOf(th, effect), unclear')
      <4>1. EffectOf(th, effect) \in SUBSET B /\ (unclear' = 0 => unclear = 0)
        BY <2>1, <3>1, Attempts
      <4> QED
        BY <3>1, <4>1, OrderBranchDoes DEF OrderSound
    <3> QED
      BY <2>2, <2>4, <3>1, <3>2, <3>3 DEF OrderSound
  <2> QED
    BY <2>3, <2>4
<1>7. ASSUME NEW b \in Threads, NEW effect \in {0, 1}, NEW strays, AbortBranch(b, effect, strays)
      PROVE  OrderSound'
  <2>1. Attempt(b, effect) /\ In(b, "Task") /\ b # Main
    BY <1>7 DEF AbortBranch, Attempt
  <2>2. b \in Branches /\ at[b] \in BranchStates(b) /\ at[Main] = "ParallelProcessing"
    BY <2>1, OrderWhere
  <2>3. strays \subseteq B
    <3>1. strays \subseteq {at[c] : c \in {d \in Branches \ {b} : In(d, "Task")}}
      BY <1>7 DEF AbortBranch
    <3>2. \A c \in Branches : In(c, "Task") => at[c] \in BranchStates(c)
      BY OrderWhere
    <3> QED
      BY <3>1, <3>2
  <2>4. Order!States["ParallelProcessing"].catch = "CheckShipmentStatus"
    BY OrderTable DEF Parallel
  <2>5. /\ at'[Main] = "CheckShipmentStatus" /\ \A c \in Branches : at'[c] = Idle
        /\ done' = done \cup (EffectOf(b, effect) \cup strays)
        /\ data' = data \cup {"parallel_error"}
    BY <1>7, <2>2, <2>4 DEF AbortBranch, State
  <2>6. EffectOf(b, effect) \cup strays \in SUBSET B /\ (unclear' = 0 => unclear = 0)
    BY <2>1, <2>2, <2>3, Attempts
  <2>7. OrderAt("CheckShipmentStatus", data \cup {"parallel_error"},
                done \cup (EffectOf(b, effect) \cup strays), unclear')
    BY <2>2, <2>6, OrderBranchDoes DEF OrderSound
  <2> QED
    BY <2>5, <2>7 DEF OrderSound
<1>8. ASSUME NEW th \in Threads, PassOn(th)
      PROVE  OrderSound'
  <2>1. In(th, "Pass") /\ Order!States[at[th]].type = "Pass"
    BY <1>8 DEF PassOn, In
  <2>2. /\ at' = [at EXCEPT ![th] = Order!States[at[th]].next] /\ unclear' = unclear
        /\ done' = done \cup {at[th]} /\ data' = data
    BY <1>8 DEF PassOn, Goto, State
  <2>3. /\ th \in Branches /\ at[th] \in BranchStates(th) /\ at[Main] = "ParallelProcessing"
        /\ th # Main
    BY <2>1, OrderWhere
  <2>4. Order!States[at[th]].next = End
    BY <2>1, <2>3, BranchTable
  <2>5. OrderAt("ParallelProcessing", data, done \cup {at[th]}, unclear)
    BY <2>3, OrderBranchDoes DEF OrderSound
  <2> QED
    BY <2>2, <2>3, <2>4, <2>5 DEF OrderSound
<1>9. ASSUME NEW effect \in {0, 1}, AbortExecution(effect)
      PROVE  OrderSound'
  <2>1. Attempt(Main, effect) /\ In(Main, "Task") /\ Order!States[at[Main]].type = "Task"
    BY <1>9 DEF AbortExecution, Attempt, In
  <2>2. /\ at' = [at EXCEPT ![Main] = Aborted] /\ data' = data
        /\ done' = done \cup EffectOf(Main, effect)
    BY <1>9 DEF AbortExecution, Goto
  <2>3. at[Main] \in OrderMain /\ \A b \in Branches : at'[b] = Idle
    BY <2>1, <2>2, OrderWhere
  <2>4. OrderAt(Aborted, data, done \cup EffectOf(Main, effect), unclear')
    BY <2>1, <2>3, Attempts, OrderTaskAborts DEF OrderSound
  <2> QED
    BY <2>2, <2>3, <2>4 DEF OrderSound
<1>10. ASSUME In(Main, "Parallel")
       PROVE  at[Main] = "ParallelProcessing"
  BY <1>10, OrderTable
     DEF In, OrderSound, OrderAt, OrderMain, Task, Choice, Succeed, Fail, Aborted
<1>11. /\ Order!States["ParallelProcessing"].next = "OrderCompleted"
       /\ Order!States["ParallelProcessing"].writes = "parallel_results"
       /\ \A b \in Branches : Order!States["ParallelProcessing"].starts[b] \in BranchStates(b)
  BY OrderTable DEF Parallel, Branches, BranchStates
<1>12. CASE Fork
  <2>1. /\ at[Main] = "ParallelProcessing" /\ at'[Main] = at[Main]
        /\ \A b \in Branches : at'[b] = Order!States["ParallelProcessing"].starts[b]
        /\ UNCHANGED <<data, done, unclear>>
    BY <1>10, <1>12 DEF Fork, State
  <2> QED
    BY <1>11, <2>1 DEF OrderSound
<1>13. CASE Join
  <2>1. /\ at[Main] = "ParallelProcessing" /\ at'[Main] = "OrderCompleted"
        /\ \A b \in Branches : at'[b] = Idle
        /\ data' = data \cup {"parallel_results"} /\ UNCHANGED <<done, unclear>>
    BY <1>10, <1>11, <1>13 DEF Join, State
  <2> QED
    BY <2>1, OrderGoesOn DEF OrderSound
<1>14. CASE Choose
  <2>1. at[Main] = "CheckShipmentStatus" /\ State(Main).path = "parallel_results"
    BY <1>14, OrderTable
       DEF Choose, In, State, OrderSound, OrderAt, OrderMain, Task, Parallel, Choice, Succeed,
           Fail, Aborted
  <2>2. "parallel_results" \notin data /\ OrderAt(Aborted, data, done, unclear)
    BY <2>1, OrderGoesOn DEF OrderSound
  <2>3. at' = [at EXCEPT ![Main] = Aborted] /\ UNCHANGED <<data, done, unclear>>
    BY <1>14, <2>1, <2>2 DEF Choose, Goto
  <2>4. \A b \in Branches : at[b] = Idle
    BY <2>1 DEF OrderSound
  <2> QED
    BY <2>2, <2>3, <2>4 DEF OrderSound
<1>15. CASE UNCHANGED vars
  BY <1>15 DEF vars, OrderSound
<1> QED
  BY <1>4, <1>5, <1>6, <1>7, <1>8, <1>9, <1>12, <1>13, <1>14, <1>15 DEF Next

\* Every step of the travel saga does; it has no branches and no choice.
LEMMA TravelStep ==
    ASSUME TypeOK, saga = "travel", TravelSound, [Next]_vars
    PROVE  TravelSound'
<1>1. States = Travel!States
  BY DEF States
<1>2. Main \in Threads /\ Branches \subseteq Threads /\ Main \notin Branches
  BY DEF Main, Branches, Threads
<1>3. at = [th \in Threads |-> at[th]]
  BY DEF TypeOK
<1> USE <1>1, <1>2, <1>3
<1>4. ASSUME NEW th \in Threads, NEW type, In(th, type)
      PROVE  th = Main /\ at[Main] \in DOMAIN Travel!States /\ Travel!States[at[Main]].type = type
  <2>1. Idle \notin DOMAIN Travel!States
    BY TravelTable DEF Idle
  <2> QED
    BY <1>4, <2>1 DEF In, Threads, TravelSound
<1>5. \A s \in DOMAIN Travel!States : Travel!States[s].type \in {"Task", "Succeed", "Fail"}
  BY TravelTable DEF Task, Succeed, Fail
<1>6. ASSUME NEW th \in Threads, TaskSucceeds(th)
      PROVE  TravelSound'
  <2>1. th = Main /\ at[Main] \in DOMAIN Travel!States /\ Travel!States[at[Main]].type = "Task"
    BY <1>4, <1>6 DEF TaskSucceeds
  <2>2. /\ at' = [at EXCEPT ![Main] = Travel!States[at[Main]].next] /\ unclear' = unclear
        /\ done' = done \cup {at[Main]}
        /\ data' = data \cup ({Travel!States[at[Main]].writes} \ {None})
    BY <1>6, <2>1 DEF TaskSucceeds, Goto, State
  <2> QED
    BY <2>1, <2>2, TravelTaskSucceeds DEF TravelSound
<1>7. ASSUME NEW th \in Threads, NEW effect \in {0, 1}, Retry(th, effect)
      PROVE  TravelSound'
  <2>1. /\ th = Main /\ at[Main] \in DOMAIN Travel!States /\ Attempt(Main, effect)
        /\ Travel!States[at[Main]].type = "Task"
    BY <1>4, <1>7 DEF Retry, Attempt
  <2>2. at' = at /\ data' = data /\ done' = done \cup EffectOf(Main, effect)
    BY <1>7, <2>1 DEF Retry
  <2>3. /\ EffectOf(Main, effect) \in SUBSET {at[Main]}
        /\ unclear' = 0 => unclear = 0 /\ EffectOf(Main, effect) = {}
    BY <2>1, Attempts
  <2>4. TravelAt(at[Main], data, done \cup EffectOf(Main, effect), unclear')
    BY <2>1, <2>3, TravelTaskRetried DEF TravelSound
  <2> QED
    BY <2>2, <2>4 DEF TravelSound
<1>8. ASSUME NEW th \in Threads, NEW effect \in {0, 1}, Catch(th, effect)
      PROVE  TravelSound'
  <2>1. /\ th = Main /\ at[Main] \in DOMAIN Travel!States /\ Attempt(Main, effect)
        /\ Travel!States[at[Main]].type = "Task"
    BY <1>4, <1>8 DEF Catch, Attempt
  <2>2. /\ at' = [at EXCEPT ![Main] = Travel!States[at[Main]].catch]
        /\ Travel!States[at[Main]].catch # None
        /\ data' = data \cup {"error"} /\ done' = done \cup EffectOf(Main, effect)
    BY <1>8, <2>1 DEF Catch, Goto, State
  <2>3. /\ EffectOf(Main, effect) \in SUBSET {at[Main]}
        /\ unclear' = 0 => unclear = 0 /\ EffectOf(Main, effect) = {}
    BY <2>1, Attempts
  <2>4. TravelAt(Travel!States[at[Main]].catch, data \cup {"error"},
                 done \cup EffectOf(Main, effect), unclear')
    BY <2>1, <2>2, <2>3, TravelTaskCaught DEF TravelSound
  <2> QED
    BY <2>2, <2>4 DEF TravelSound
<1>9. ASSUME NEW effect \in {0, 1}, AbortExecution(effect)
      PROVE  TravelSound'
  <2>1. /\ at[Main] \in DOMAIN Travel!States /\ Attempt(Main, effect)
        /\ Travel!States[at[Main]].type = "Task"
    BY <1>4, <1>9 DEF AbortExecution, Attempt
  <2>2. /\ at' = [at EXCEPT ![Main] = Aborted] /\ data' = data
        /\ done' = done \cup EffectOf(Main, effect)
    BY <1>9, <2>1 DEF AbortExecution, Goto
  <2> QED
    BY <2>1, <2>2, Attempts, TravelTaskAborts DEF TravelSound
<1>10. ASSUME NEW th \in Threads, NEW effect \in {0, 1}, NEW strays
       PROVE  ~AbortBranch(th, effect, strays) /\ ~PassOn(th)
  BY <1>4, <1>5 DEF AbortBranch, Attempt, PassOn
<1>11. ~Fork /\ ~Join /\ ~Choose
  BY <1>4, <1>5 DEF Fork, Join, Choose
<1>12. CASE UNCHANGED vars
  BY <1>12 DEF vars, TravelSound
<1> QED
  BY <1>6, <1>7, <1>8, <1>9, <1>10, <1>11, <1>12 DEF Next

--------------------------------------------------------------------------------
\* The states of the branches and the threads' places give the type of at and done.
LEMMA SagaTypes == SagaShape => TypeOK
<1> SUFFICES ASSUME saga \in Sagas, at = [th \in Threads |-> at[th]],
                    tries \in [Threads -> Nat], unclear \in 0 .. MaxUnclear,
                    saga = "order" => OrderSound, saga = "travel" => TravelSound
             PROVE  TypeOK
  BY DEF SagaShape
<1>1. CASE saga = "order"
  <2>1. States = Order!States
    BY <1>1 DEF States
  <2>2. \A b \in Branches : BranchStates(b) \subseteq DOMAIN Order!States
    BY BranchTable
  <2>3. OrderMain \subseteq DOMAIN Order!States
    BY OrderTable DEF OrderMain
  <2>4. at[Main] \in DOMAIN States \cup {Idle, End, Aborted} /\ done \subseteq DOMAIN States
    BY <1>1, <2>1, <2>3 DEF OrderSound, OrderAt
  <2>5. \A b \in Branches : at[b] \in DOMAIN States \cup {Idle, End, Aborted}
    BY <1>1, <2>1, <2>2 DEF OrderSound
  <2>6. \A th \in Threads : at[th] \in DOMAIN States \cup {Idle, End, Aborted}
    BY <2>4, <2>5 DEF Threads
  <2>7. (\E b \in Branches : at[b] # Idle) => In(Main, "Parallel")
    BY <1>1, <2>1, OrderTable DEF OrderSound, In, Parallel
  <2> QED
    BY <2>4, <2>6, <2>7 DEF TypeOK
<1>2. CASE saga = "travel"
  <2>1. States = Travel!States
    BY <1>2 DEF States
  <2>2. at[Main] \in DOMAIN States \cup {Idle, End, Aborted} /\ done \subseteq DOMAIN States
    BY <1>2, <2>1 DEF TravelSound, TravelAt
  <2>3. \A b \in Branches : at[b] = Idle
    BY <1>2 DEF TravelSound
  <2>4. \A th \in Threads : at[th] \in DOMAIN States \cup {Idle, End, Aborted}
    BY <2>2, <2>3 DEF Threads
  <2> QED
    BY <2>2, <2>3, <2>4 DEF TypeOK
<1> QED
  BY <1>1, <1>2, SagasAssumption

\* The inductive invariant holds at first ...
LEMMA SagaInit == Init => SagaIInv
<1> SUFFICES ASSUME Init PROVE SagaIInv
  OBVIOUS
<1>1. at = [th \in Threads |-> at[th]] /\ tries \in [Threads -> Nat] /\ unclear \in 0 .. MaxUnclear
  BY SagasAssumption DEF Init
<1>2. Main \in Threads /\ Branches \subseteq Threads /\ Main \notin Branches
  BY DEF Main, Branches, Threads
<1>3. \A b \in Branches : at[b] = Idle
  BY <1>2 DEF Init
<1>4. ASSUME saga = "order" PROVE OrderSound
  <2>1. at[Main] = "ValidateOrder" /\ data = {"order"} /\ done = {} /\ unclear = 0
    BY <1>2, <1>4 DEF Init, Order!StartAt, Order!Input
  <2>2. OrderAt("ValidateOrder", {"order"}, {}, 0)
    BY OrderTable DEF OrderAt, OrderMain
  <2> QED
    BY <1>3, <2>1, <2>2 DEF OrderSound
<1>5. ASSUME saga = "travel" PROVE TravelSound
  <2>1. /\ at[Main] = "ReserveFlight" /\ data = {"booking", "idempotencyKey"}
        /\ done = {} /\ unclear = 0
    BY <1>2, <1>5 DEF Init, Travel!StartAt, Travel!Input
  <2>2. TravelAt("ReserveFlight", {"booking", "idempotencyKey"}, {}, 0)
    BY TravelTable DEF TravelAt
  <2> QED
    BY <1>3, <2>1, <2>2 DEF TravelSound
<1>6. saga \in Sagas
  BY DEF Init
<1> QED
  BY <1>1, <1>4, <1>5, <1>6, SagaTypes DEF SagaIInv, SagaShape

\* ... and every step keeps it.
LEMMA SagaStep == SagaIInv /\ [Next]_vars => SagaIInv'
<1> SUFFICES ASSUME SagaIInv, [Next]_vars PROVE SagaIInv'
  OBVIOUS
<1>1. TypeOK /\ saga \in Sagas
  BY DEF SagaIInv, TypeOK
<1>2. /\ saga' = saga /\ unclear' \in 0 .. MaxUnclear
      /\ at' = [th \in Threads |-> at'[th]] /\ tries' \in [Threads -> Nat]
  BY <1>1, Shapes
<1>3. (saga' = "order" => OrderSound') /\ (saga' = "travel" => TravelSound')
  BY <1>1, <1>2, OrderStep, TravelStep DEF SagaIInv
<1>4. saga' \in Sagas
  BY <1>1, <1>2
<1>5. SagaShape'
  BY <1>2, <1>3, <1>4 DEF SagaShape
<1>6. TypeOK'
  BY <1>5, SagaTypes, PTL
<1> QED
  BY <1>3, <1>6 DEF SagaIInv

\* A state of a state machine that agrees with what is done has its inputs and, at the
\* end, has done everything or nothing.
LEMMA SagaSays == SagaIInv => InputsPresent /\ AllOrNothing
<1> SUFFICES ASSUME SagaIInv PROVE InputsPresent /\ AllOrNothing
  OBVIOUS
<1>1. TypeOK /\ saga \in {"order", "travel"}
  BY SagasAssumption DEF SagaIInv, TypeOK
<1>2. CASE saga = "order"
  <2>1. States = Order!States /\ UndoneBy = Order!UndoneBy /\ OrderSound
    BY <1>2 DEF States, UndoneBy, SagaIInv
  <2>2. ASSUME NEW th \in Threads, In(th, "Task") PROVE State(th).reads \subseteq data
    <3>1. Order!States[at[th]].type = "Task"
      BY <2>1, <2>2 DEF In
    <3>2. CASE th = Main
      <4>1. at[Main] \in OrderMain /\ OrderAt(at[Main], data, done, unclear)
        BY <1>1, <1>2, <2>1, <2>2, <3>2, OrderWhere DEF OrderSound
      <4> QED
        BY <2>1, <3>1, <3>2, <4>1, OrderTable
           DEF State, OrderAt, OrderMain, Task, Parallel, Choice, Succeed, Fail
    <3>3. CASE th # Main
      <4>1. th \in Branches /\ at[th] \in BranchStates(th) /\ at[Main] = "ParallelProcessing"
        BY <1>1, <1>2, <2>1, <2>2, <3>3, OrderWhere
      <4>2. Order!States[at[th]].reads \subseteq {"order", "payment"}
        BY <3>1, <4>1, BranchTable
      <4>3. {"order", "payment"} \subseteq data
        BY <2>1, <4>1 DEF OrderSound, OrderAt
      <4> QED
        BY <2>1, <4>2, <4>3 DEF State
    <3> QED
      BY <3>2, <3>3
  <2>3. In(Main, "Fail") => at[Main] = "OrderFailed"
    BY <2>1, OrderTable
       DEF In, OrderSound, OrderAt, OrderMain, Task, Parallel, Choice, Succeed, Fail, Aborted
  <2>4. In(Main, "Succeed") => at[Main] = "OrderCompleted"
    BY <2>1, OrderTable
       DEF In, OrderSound, OrderAt, OrderMain, Task, Parallel, Choice, Succeed, Fail, Aborted
  <2>5. FailedLeavesNothing
    <3>1. /\ DOMAIN UndoneBy = {"ReserveInventory", "ProcessPayment"}
          /\ UndoneBy["ReserveInventory"] = "ReleaseInventory"
      BY <2>1 DEF Order!UndoneBy
    <3>2. at[Main] = "OrderFailed" /\ unclear = 0 =>
              /\ "ReserveInventory" \notin done \/ "ReleaseInventory" \in done
              /\ "ProcessPayment" \notin done
      BY <2>1 DEF OrderSound, OrderAt, Aborted
    <3> QED
      BY <2>3, <3>1, <3>2 DEF FailedLeavesNothing
  <2>6. SucceededIsComplete
    BY <2>1, <2>4 DEF SucceededIsComplete, OrderSound, OrderAt, Order!UndoneBy
  <2> QED
    BY <2>2, <2>5, <2>6 DEF InputsPresent, AllOrNothing
<1>3. CASE saga = "travel"
  <2>1. States = Travel!States /\ UndoneBy = Travel!UndoneBy /\ TravelSound
    BY <1>3 DEF States, UndoneBy, SagaIInv
  <2>2. ASSUME NEW th \in Threads, In(th, "Task") PROVE State(th).reads \subseteq data
    <3>1. Idle \notin DOMAIN Travel!States
      BY TravelTable DEF Idle
    <3>2. /\ th = Main /\ at[Main] \in DOMAIN Travel!States
          /\ Travel!States[at[Main]].type = "Task"
      BY <2>1, <2>2, <3>1 DEF In, Threads, TravelSound
    <3> QED
      BY <2>1, <3>2, TravelTable DEF State, TravelSound, TravelAt, Task, Succeed, Fail
  <2>3. In(Main, "Fail") => at[Main] = "BookingFailed"
    BY <2>1, TravelTable DEF In, Task, Succeed, Fail
  <2>4. In(Main, "Succeed") => at[Main] = "BookingSuccess"
    BY <2>1, TravelTable DEF In, Task, Succeed, Fail
  <2>5. FailedLeavesNothing
    <3>1. /\ DOMAIN UndoneBy = {"ReserveFlight", "ReserveHotel", "ReserveCar", "ProcessPayment"}
          /\ UndoneBy["ReserveFlight"] = "CancelFlight"
          /\ UndoneBy["ReserveHotel"] = "CancelHotel"
          /\ UndoneBy["ReserveCar"] = "CancelCar"
      BY <2>1 DEF Travel!UndoneBy
    <3>2. at[Main] = "BookingFailed" /\ unclear = 0 =>
              /\ "ReserveFlight" \notin done \/ "CancelFlight" \in done
              /\ "ReserveHotel" \notin done \/ "CancelHotel" \in done
              /\ "ReserveCar" \notin done \/ "CancelCar" \in done
              /\ "ProcessPayment" \notin done
      BY <2>1 DEF TravelSound, TravelAt, Aborted
    <3> QED
      BY <2>3, <3>1, <3>2 DEF FailedLeavesNothing
  <2>6. SucceededIsComplete
    <3>1. Travel!None \notin DOMAIN Travel!States
      BY TravelTable DEF Travel!None
    <3> QED
      BY <2>1, <2>4, <3>1 DEF SucceededIsComplete, TravelSound, TravelAt, Travel!UndoneBy
  <2> QED
    BY <2>2, <2>5, <2>6 DEF InputsPresent, AllOrNothing
<1> QED
  BY <1>1, <1>2, <1>3

\* A branch makes the execution leave ParallelProcessing for CheckShipmentStatus only
\* from the one task that nothing catches.
LEMMA OnlyUncaughtLeaves ==
    ASSUME SagaIInv, [Next]_vars, at[Main] = "ParallelProcessing",
           at'[Main] = "CheckShipmentStatus"
    PROVE  \E b \in Branches : at[b] = "EmailFailedDLQ"
<1>1. TypeOK /\ saga \in {"order", "travel"}
  BY SagasAssumption DEF SagaIInv, TypeOK
<1>2. saga = "order"
  <2>1. "ParallelProcessing" \notin DOMAIN Travel!States \cup {Aborted}
    BY TravelTable DEF Aborted
  <2> QED
    BY <1>1, <2>1 DEF SagaIInv, TravelSound, TravelAt
<1>3. States = Order!States /\ OrderSound
  BY <1>2 DEF States, SagaIInv
<1>4. Order!States["ParallelProcessing"].type = "Parallel"
      /\ Order!States["ParallelProcessing"].next = "OrderCompleted"
  BY OrderTable DEF Parallel
<1>5. /\ ~In(Main, "Task") /\ ~In(Main, "Pass") /\ ~In(Main, "Choice")
      /\ State(Main).next = "OrderCompleted"
  BY <1>3, <1>4 DEF In, State
<1>6. Main \in Threads /\ at = [th \in Threads |-> at[th]]
  BY <1>1 DEF TypeOK, Main, Threads
<1>7. PICK th \in Threads, effect \in {0, 1}, strays \in SUBSET {at[b] : b \in Branches} :
          AbortBranch(th, effect, strays)
  <2>1. ~(Fork \/ Join \/ Choose \/ UNCHANGED vars)
    BY <1>5, <1>6 DEF Fork, Join, Choose, vars
  <2>2. \A effect \in {0, 1} : ~AbortExecution(effect)
    BY <1>5 DEF AbortExecution, Attempt
  <2>3. \A th \in Threads, effect \in {0, 1} :
            ~(TaskSucceeds(th) \/ Retry(th, effect) \/ Catch(th, effect) \/ PassOn(th))
    BY <1>5, <1>6 DEF TaskSucceeds, Retry, Catch, PassOn, Attempt, Goto
  <2> QED
    BY <2>1, <2>2, <2>3 DEF Next
<1>8. In(th, "Task") /\ th # Main /\ State(th).catch = None
  BY <1>7 DEF AbortBranch, Attempt
<1>9. th \in Branches /\ at[th] \in BranchStates(th)
  BY <1>1, <1>2, <1>3, <1>8, OrderWhere
<1>10. at[th] = "EmailFailedDLQ"
  BY <1>3, <1>8, <1>9, BranchTable DEF In, State
<1> QED
  BY <1>9, <1>10

--------------------------------------------------------------------------------
\* Every execution of a saga keeps the inductive invariant.
THEOREM SagaInvariance == Spec => []SagaIInv
BY SagaInit, SagaStep, PTL DEF Spec

\* Every reachable state of an execution has its type; the branches of the Parallel
\* state run only inside of it.
THEOREM SagaTypeCorrect == Spec => []TypeOK
<1>1. SagaIInv => TypeOK
  BY DEF SagaIInv
<1> QED
  BY <1>1, SagaInvariance, PTL

\* No task, and no compensation in particular, is reached without the results that its
\* Parameters name, however the tasks before it failed and were retried.
THEOREM TasksHaveTheirInputs == Spec => []InputsPresent
BY SagaSays, SagaInvariance, PTL

\* An execution that ends in the failure state of its saga has undone every step that
\* was done, unless a task failed although it took effect; one that ends well has done
\* every step and undone none.
THEOREM SagasDoAllOrNothing == Spec => []AllOrNothing
BY SagaSays, SagaInvariance, PTL

\* A paid order leaves its parallel steps for a failure only when the dead letter queue
\* refuses the email.
THEOREM OnlyTheQueueBlocksOrders == Spec => OnlyDeadLetterQueueBlocks
<1>1. SagaIInv /\ [Next]_vars
          => [at[Main] = "ParallelProcessing" /\ at'[Main] = "CheckShipmentStatus"
              => \E b \in Branches : at[b] = "EmailFailedDLQ"]_vars
  BY OnlyUncaughtLeaves
<1> QED
  BY <1>1, SagaInvariance, PTL DEF Spec, OnlyDeadLetterQueueBlocks

================================================================================

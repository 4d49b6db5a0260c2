------------------------------- MODULE OrderSaga -------------------------------
(* serverless/02-step-functions/problem-1/state_machine.json: the order       *)
(* processing saga.                                                           *)
EXTENDS StatesLanguage

ValidateOrder == Task({"order"}, "validation", 3, "ValidationFailed", "ReserveInventory")

ReserveInventory == Task({"order"}, "reservation", 2, "ReservationFailed", "ProcessPayment")

\* Fault: a payment that fails is handled like a reservation that fails.
ProcessPaymentNoRelease ==
    Task({"order", "reservation"}, "payment", 2, "ReservationFailed", "ParallelProcessing")

ProcessPayment ==
    Task({"order", "reservation"}, "payment", 2, "ReleaseInventory", "ParallelProcessing")

ParallelProcessing ==
    Parallel(<<"CreateShipment", "SendConfirmationEmail", "UpdateAnalytics">>,
             "parallel_results", "CheckShipmentStatus", "OrderCompleted")

CreateShipment == Task({"order", "payment"}, None, 2, "ShipmentFailed", End)

\* Fault: an email that cannot be sent goes to no queue.
SendConfirmationEmailUncaught == Task({"order"}, None, 3, None, End)

SendConfirmationEmail == Task({"order"}, None, 3, "EmailFailedDLQ", End)
EmailFailedDLQ == Task({"order"}, None, 0, None, End)
UpdateAnalytics == Task({"order"}, None, 2, "AnalyticsFailedIgnore", End)

\* Tests $.parallel_results[0].status, the result of the shipment branch.
CheckShipmentStatus ==
    Choice("parallel_results", "ShipmentFailed", "CompensatePayment", "OrderCompleted")

CompensatePayment == Task({"payment"}, "refund", 5, None, "ReleaseInventory")

\* Fault: a release that fails is begun all over again.
ReleaseInventoryAgain ==
    Task({"reservation"}, "release", 5, "ReleaseInventory", "NotifyCustomerFailure")

ReleaseInventory == Task({"reservation"}, "release", 5, None, "NotifyCustomerFailure")
NotifyCustomerFailure == Task({"order", "error"}, None, 0, None, "OrderFailed")

States ==
    [ValidateOrder |-> ValidateOrder,
     ReserveInventory |-> ReserveInventory,
     ProcessPayment |-> ProcessPayment,
     ParallelProcessing |-> ParallelProcessing,
     CreateShipment |-> CreateShipment,
     ShipmentFailed |-> Pass(End),
     SendConfirmationEmail |-> SendConfirmationEmail,
     EmailFailedDLQ |-> EmailFailedDLQ,
     UpdateAnalytics |-> UpdateAnalytics,
     AnalyticsFailedIgnore |-> Pass(End),
     CheckShipmentStatus |-> CheckShipmentStatus,
     CompensatePayment |-> CompensatePayment,
     ReleaseInventory |-> ReleaseInventory,
     NotifyCustomerFailure |-> NotifyCustomerFailure,
     ValidationFailed |-> Task({"order", "error"}, None, 0, None, "OrderFailed"),
     ReservationFailed |-> Task({"order", "error"}, None, 0, None, "OrderFailed"),
     OrderCompleted |-> Succeed,
     OrderFailed |-> Fail]

StartAt == "ValidateOrder"

\* The input of an execution.
Input == {"order"}

\* What each step is undone by, in the README: "Payment declined: release
\* inventory; shipment failed: refund payment, release inventory".
UndoneBy == [ReserveInventory |-> "ReleaseInventory",
             ProcessPayment |-> "CompensatePayment"]
===============================================================================

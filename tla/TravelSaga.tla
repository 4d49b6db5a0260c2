------------------------------ MODULE TravelSaga ------------------------------
(* advanced-architectures/01-event-driven/problem-3/saga_state_machine.json:  *)
(* the travel booking saga.                                                   *)
EXTENDS StatesLanguage

ReserveFlight == Task({"booking", "idempotencyKey"}, "flight", 0, "BookingFailed", "ReserveHotel")
\* Fault: a hotel reservation that failed is cancelled.
ReserveHotelCancelsHotel ==
    Task({"booking", "idempotencyKey"}, "hotel", 0, "CancelHotel", "ReserveCar")

ReserveHotel == Task({"booking", "idempotencyKey"}, "hotel", 0, "CancelFlight", "ReserveCar")

ReserveCar == Task({"booking", "idempotencyKey"}, "car", 0, "CancelHotel", "ProcessPayment")

ProcessPayment ==
    Task({"booking", "flight", "hotel", "car"}, "payment", 0, "CancelCar", "SendConfirmation")

SendConfirmation == Task({"booking"}, None, 0, None, "BookingSuccess")

CancelCar == Task({"car"}, "cancelCar", 0, None, "CancelHotel")
CancelHotel == Task({"hotel"}, "cancelHotel", 0, None, "CancelFlight")
CancelFlight == Task({"flight"}, "cancelFlight", 0, None, "NotifyFailure")
NotifyFailure == Task({"booking", "error"}, None, 0, None, "BookingFailed")

States ==
    [ReserveFlight |-> ReserveFlight,
     ReserveHotel |-> ReserveHotel,
     ReserveCar |-> ReserveCar,
     ProcessPayment |-> ProcessPayment,
     SendConfirmation |-> SendConfirmation,
     CancelCar |-> CancelCar,
     CancelHotel |-> CancelHotel,
     CancelFlight |-> CancelFlight,
     NotifyFailure |-> NotifyFailure,
     BookingSuccess |-> Succeed,
     BookingFailed |-> Fail]

StartAt == "ReserveFlight"

Input == {"booking", "idempotencyKey"}

\* The README's "Refund payment" has no state.
UndoneBy == [ReserveFlight |-> "CancelFlight",
             ReserveHotel |-> "CancelHotel",
             ReserveCar |-> "CancelCar",
             ProcessPayment |-> None]
===============================================================================

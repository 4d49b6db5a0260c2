--------------------------- MODULE MCSagaExecution ----------------------------
(* Executions of both sagas, and of the order saga alone.                     *)
EXTENDS SagaExecution
===============================================================================

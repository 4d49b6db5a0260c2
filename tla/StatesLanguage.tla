---------------------------- MODULE StatesLanguage ----------------------------
(* The kinds of states of the Amazon States Language that the sagas of the    *)
(* repository use.  A state machine is a function from state names to these    *)
(* records; paths are named by their first component, "reservation" for       *)
(* $.reservation.Payload.                                                     *)

None == "none"   \* no Catch
End == "end"     \* "End": true

\* reads: the paths in Parameters; writes: ResultPath; retries: MaxAttempts of
\* the Retry, 0 without one; catch: the Next of the Catch, whose ResultPath is
\* error.
Task(reads, writes, retries, catch, next) ==
    [type |-> "Task", reads |-> reads, writes |-> writes, retries |-> retries,
     catch |-> catch, next |-> next]

\* starts: the StartAt of the branches, whose states are states of the machine.
Parallel(starts, writes, catch, next) ==
    [type |-> "Parallel", starts |-> starts, writes |-> writes, catch |-> catch,
     next |-> next]

\* Tests whether the result at path says that a branch passed through state was.
Choice(path, was, then, default) ==
    [type |-> "Choice", path |-> path, was |-> was, then |-> then,
     default |-> default]

Pass(next) == [type |-> "Pass", next |-> next]
Succeed == [type |-> "Succeed"]
Fail == [type |-> "Fail"]
===============================================================================

-------------------------- MODULE ServerShutdownProofs -------------------------
(* Proofs about ServerShutdown, for any number of requests and signals.      *)
EXTENDS ServerShutdown, TLAPS

\* Requests are cut only when the process ends, nothing is accepted without an
\* open socket, and in the Go programs a Shutdown in progress has shut it.
Shut ==
    /\ main \in {"closing", "exited"} => socket = "shut"
    /\ program \in GoPrograms /\ draining > 0 => socket = "shut"
    /\ main = "exited" => Active = {}
    /\ main # "exited" =>
          outcome # "clean" /\ \A r \in Requests : request[r] # "cut"

\* Every shutdown sequence was started by a signal of its own.
OneEach == pending + draining <= sent

\* done is closed when no request is active, and none becomes active again.
DoneIsIdle ==
    program = "go_faang" /\ done => socket = "shut" /\ Active = {}

IInv == TypeOK /\ Shut /\ OneEach /\ DoneIsIdle /\ CleanExitCutsNothing

\* The invariant holds when a program starts.
LEMMA Initially == Init => IInv
<1> SUFFICES ASSUME Init PROVE IInv
  OBVIOUS
<1> USE DEF Init
<1>1. TypeOK
  <2>1. request \in [Requests -> {"unsent", "queued", "active", "answered", "refused", "cut"}]
    OBVIOUS
  <2>2. sent \in 0 .. MaxSignals /\ pending \in 0 .. sent /\ draining \in 0 .. sent
    BY SignalsAreBounded
  <2>3. socket \in {"none", "open", "shut"}
    OBVIOUS
  <2>. QED
    BY <2>1, <2>2, <2>3 DEF TypeOK
<1>2. Shut
  BY DEF Shut
<1>3. OneEach /\ DoneIsIdle /\ CleanExitCutsNothing
  BY DEF OneEach, DoneIsIdle, CleanExitCutsNothing
<1>. QED
  BY <1>1, <1>2, <1>3 DEF IInv

--------------------------------------------------------------------------------
\* The end of the process keeps the invariant if it is not called clean, or
\* if no request is active.
LEMMA ExitKeepsIInv ==
    ASSUME IInv, NEW how \in {"clean", "expired", "killed"}, Exit(how),
           main # "exited", how = "clean" => Active = {},
           UNCHANGED <<program, draining, done>>,
           sent' \in 0 .. MaxSignals, sent' \in {sent, sent + 1},
           UNCHANGED pending
    PROVE  IInv'
<1>1. request' \in [Requests -> {"unsent", "queued", "active", "answered", "refused", "cut"}]
  BY DEF Exit, IInv, TypeOK
<1>2. Active' = {}
  BY DEF Exit, Active
<1>3. how = "clean" => \A r \in Requests : request'[r] # "cut"
  BY DEF Exit, Active, IInv, Shut
<1>4. TypeOK'
  BY <1>1 DEF Exit, IInv, TypeOK
<1>5. Shut' /\ DoneIsIdle'
  BY <1>2 DEF Exit, Shut, DoneIsIdle
<1>6. CleanExitCutsNothing' /\ OneEach'
  BY <1>3 DEF Exit, IInv, TypeOK, CleanExitCutsNothing, OneEach
<1>. QED
  BY <1>4, <1>5, <1>6 DEF IInv

\* A client's request keeps the invariant.
LEMMA RequestsKeepIInv ==
    ASSUME IInv, NEW r \in Requests, Send(r) \/ Accept(r) \/ Respond(r)
    PROVE  IInv'
<1>1. CASE Send(r)
  BY <1>1 DEF Send, IInv, TypeOK, Shut, OneEach, DoneIsIdle, CleanExitCutsNothing, Active
<1>2. CASE Accept(r)
  BY <1>2 DEF Accept, IInv, TypeOK, Shut, OneEach, DoneIsIdle, CleanExitCutsNothing, Active
<1>3. CASE Respond(r)
  BY <1>3 DEF Respond, IInv, TypeOK, Shut, OneEach, DoneIsIdle, CleanExitCutsNothing, Active
<1>. QED
  BY <1>1, <1>2, <1>3

\* So does a signal.
LEMMA SignalKeepsIInv ==
    ASSUME IInv, Signal PROVE IInv'
<1>1. CASE main = "starting"
  BY <1>1, SignalsAreBounded, ExitKeepsIInv DEF Signal, IInv, TypeOK
<1>2. CASE main # "starting"
  BY <1>2, SignalsAreBounded
  DEF Signal, IInv, TypeOK, Shut, OneEach, DoneIsIdle, CleanExitCutsNothing, Active
<1>. QED
  BY <1>1, <1>2

\* So does every step of the programs.
LEMMA StepKeepsIInv ==
    ASSUME IInv, Step PROVE IInv'
<1> USE SignalsAreBounded
        DEF IInv, TypeOK, Shut, OneEach, DoneIsIdle, CleanExitCutsNothing, Active
<1>1. CASE Register
  BY <1>1 DEF Register
<1>2. CASE Listen
  BY <1>2 DEF Listen
<1>3. CASE AppServes
  BY <1>3 DEF AppServes
<1>4. CASE AppHandlesSignal
  BY <1>4 DEF AppHandlesSignal, GoPrograms
<1>5. CASE AioHandlesSignal
  BY <1>5 DEF AioHandlesSignal, GoPrograms
<1>6. CASE AioDrained
  BY <1>6 DEF AioDrained, GoPrograms
<1>7. CASE AioExpires
  BY <1>7 DEF AioExpires, GoPrograms
<1>8. CASE GoBegins
  BY <1>8 DEF GoBegins, BacklogReset
<1>9. CASE GoServeReturns
  BY <1>9 DEF GoServeReturns
<1>10. CASE GoDrained
  BY <1>10 DEF GoDrained, GoPrograms
<1>11. CASE GoExits
  BY <1>11, ExitKeepsIInv DEF GoExits
<1>12. CASE GoHealthExits
  BY <1>12, ExitKeepsIInv DEF GoHealthExits
<1>13. CASE GoExpires
  BY <1>13, ExitKeepsIInv DEF GoExpires
<1>. QED
  BY <1>1, <1>2, <1>3, <1>4, <1>5, <1>6, <1>7, <1>8, <1>9, <1>10, <1>11,
     <1>12, <1>13 DEF Step

--------------------------------------------------------------------------------
\* The inductive invariant holds in every reachable state.
THEOREM Invariance == Spec => []IInv
<1>1. IInv /\ [Next]_vars => IInv'
  <2>1. ASSUME IInv, Next PROVE IInv'
    BY <2>1, RequestsKeepIInv, SignalKeepsIInv, StepKeepsIInv DEF Next
  <2>2. ASSUME IInv, UNCHANGED vars PROVE IInv'
    BY <2>2 DEF vars, IInv, TypeOK, Shut, OneEach, DoneIsIdle, CleanExitCutsNothing, Active
  <2>. QED
    BY <2>1, <2>2
<1>. QED
  BY Initially, <1>1, PTL DEF Spec

\* The variables keep their types, and there are never more shutdown sequences
\* than signals.
THEOREM TypeCorrect == Spec => []TypeOK
<1>1. IInv => TypeOK
  BY DEF IInv
<1>. QED
  BY Invariance, <1>1, PTL

\* A server that ends cleanly has answered every request it accepted (the Go
\* servers' Shutdown, and the channel main waits for), for any number of
\* requests and signals.
THEOREM CleanExit == Spec => []CleanExitCutsNothing
<1>1. IInv => CleanExitCutsNothing
  BY DEF IInv
<1>. QED
  BY Invariance, <1>1, PTL

================================================================================

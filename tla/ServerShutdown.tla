----------------------------- MODULE ServerShutdown ----------------------------
(* How the repository's HTTP services stop on SIGTERM or SIGINT:             *)
(*   app        modules/C_full_project/app/app.py (http.server, one thread)  *)
(*   app_faang  modules/C_full_project/app/app_faang.py (aiohttp)            *)
(*   go_faang   modules/A_zero_to_hero/go-basics/simple_http_server_faang.go *)
(*   go_health  practice_examples/go-http-service/main.go                    *)
(* One of them runs.  A request waits in the backlog of the listening socket *)
(* until it is accepted, and a signal may come at any time.                  *)
EXTENDS Naturals

CONSTANTS
    Programs,    \* the programs of which one is started
    Requests,
    MaxSignals   \* bound on the signals sent

GoPrograms == {"go_faang", "go_health"}

ASSUME SignalsAreBounded == MaxSignals \in Nat

ASSUME ProgramsAreKnown == Programs \subseteq {"app", "app_faang"} \cup GoPrograms

VARIABLES
    program,
    main,      \* where the main thread, task or goroutine is
    socket,    \* the listening socket: not yet open, open, shut for good
    request,   \* request |-> how far it came
    sent,      \* number of signals sent
    pending,   \* signals delivered but not yet taken by the program
    draining,  \* shutdown sequences that wait for the active requests
    done,      \* a shutdown sequence has finished
    outcome    \* how the process ended or gave up waiting

vars == <<program, main, socket, request, sent, pending, draining, done, outcome>>

TypeOK ==
    /\ program \in Programs
    /\ main \in {"starting", "running", "serving", "handler", "closing", "exited"}
    /\ socket \in {"none", "open", "shut"}
    /\ request \in [Requests ->
          {"unsent", "queued", "active", "answered", "refused", "cut"}]
    /\ sent \in 0 .. MaxSignals
    /\ pending \in 0 .. sent
    /\ draining \in 0 .. sent
    /\ done \in BOOLEAN
    /\ outcome \in {"none", "clean", "expired", "killed"}

\* HTTPServer binds and listens when it is constructed, before the signals are
\* registered; the other programs listen later.
Init ==
    /\ program \in Programs
    /\ main = "starting"
    /\ socket = IF program = "app" THEN "open" ELSE "none"
    /\ request = [r \in Requests |-> "unsent"]
    /\ sent = 0
    /\ pending = 0
    /\ draining = 0
    /\ done = FALSE
    /\ outcome = "none"

--------------------------------------------------------------------------------
Active == {r \in Requests : request[r] = "active"}

\* The listening socket goes: the backlog is reset.
BacklogReset == [r \in Requests |->
    IF request[r] = "queued" THEN "refused" ELSE request[r]]

\* The process ends: so do its connections.
Exit(how) ==
    /\ main' = "exited"
    /\ outcome' = how
    /\ socket' = "shut"
    /\ request' = [r \in Requests |->
          CASE request[r] = "active" -> "cut"
            [] request[r] = "queued" -> "refused"
            [] OTHER -> request[r]]

Send(r) ==
    /\ request[r] = "unsent"
    /\ request' = [request EXCEPT ![r] =
          IF socket = "open" THEN "queued" ELSE "refused"]
    /\ UNCHANGED <<program, main, socket, sent, pending, draining, done, outcome>>

\* serve_forever handles one request after the other on the main thread; the
\* other programs have a task or goroutine for each.
Accept(r) ==
    /\ request[r] = "queued"
    /\ socket = "open"
    /\ program = "app" => main = "serving" /\ Active = {}
    /\ request' = [request EXCEPT ![r] = "active"]
    /\ UNCHANGED <<program, main, socket, sent, pending, draining, done, outcome>>

\* The handler of a request returns.  That of app runs on the main thread,
\* below a signal handler that has interrupted it.
Respond(r) ==
    /\ request[r] = "active"
    /\ program = "app" => main = "serving"
    /\ request' = [request EXCEPT ![r] = "answered"]
    /\ UNCHANGED <<program, main, socket, sent, pending, draining, done, outcome>>

\* Until the program has registered its handlers a signal kills it.  Python
\* keeps what was delivered; Go sends to a channel of capacity one and drops
\* what does not fit.
Signal ==
    /\ sent < MaxSignals
    /\ main # "exited"
    /\ sent' = sent + 1
    /\ \/ /\ main = "starting"
          /\ Exit("killed")
          /\ UNCHANGED pending
       \/ /\ main # "starting"
          /\ pending' = IF program \in GoPrograms THEN 1 ELSE pending + 1
          /\ UNCHANGED <<main, socket, request, outcome>>
    /\ UNCHANGED <<program, draining, done>>

\* signal.signal, add_signal_handler, signal.Notify.
Register ==
    /\ main = "starting"
    /\ main' = "running"
    /\ UNCHANGED <<program, socket, request, sent, pending, draining, done, outcome>>

\* app_faang and go_faang listen after registering.  go_health starts a
\* goroutine for it first, which gets there sooner or later; once Shutdown has
\* been called ListenAndServe returns at once.
Listen ==
    /\ program # "app"
    /\ socket = "none"
    /\ program # "go_health" => main = "running"
    /\ socket' = "open"
    /\ UNCHANGED <<program, main, request, sent, pending, draining, done, outcome>>

--------------------------------------------------------------------------------
\* app: serve_forever is entered.
AppServes ==
    /\ program = "app"
    /\ main = "running"
    /\ main' = "serving"
    /\ UNCHANGED <<program, socket, request, sent, pending, draining, done, outcome>>

\* app: the signal handler interrupts whatever the main thread does and calls
\* server.shutdown(), which waits for serve_forever to leave its loop.  But
\* serve_forever is the frame below on the same thread, or is not entered yet:
\* the handler does not return, and a further signal nests another one.
AppHandlesSignal ==
    /\ program = "app"
    /\ main \in {"running", "serving", "handler"}
    /\ pending > 0
    /\ pending' = pending - 1
    /\ main' = "handler"
    /\ draining' = draining + 1
    /\ UNCHANGED <<program, socket, request, sent, done, outcome>>

\* Fault: a signal starts a task again and again.
AioHandlesSignalAgain ==
    /\ program = "app_faang"
    /\ pending > 0
    /\ draining' = draining + 1
    /\ UNCHANGED <<program, main, socket, request, sent, pending, done, outcome>>

\* app_faang: the signal handler starts a task for shutdown.  It sets an event
\* that nothing reads: the site goes on accepting.
AioHandlesSignal ==
    /\ program = "app_faang"
    /\ pending > 0
    /\ pending' = pending - 1
    /\ draining' = draining + 1
    /\ UNCHANGED <<program, main, socket, request, sent, done, outcome>>

\* app_faang: no request is active, and cleanup runs; the main task goes on
\* waiting for an event that nothing sets.
AioDrained ==
    /\ program = "app_faang"
    /\ draining > 0
    /\ Active = {}
    /\ draining' = draining - 1
    /\ done' = TRUE
    /\ UNCHANGED <<program, main, socket, request, sent, pending, outcome>>

\* app_faang: cleanup runs with requests active, after the timeout.
AioExpires ==
    /\ program = "app_faang"
    /\ draining > 0
    /\ Active # {}
    /\ draining' = draining - 1
    /\ done' = TRUE
    /\ outcome' = "expired"
    /\ UNCHANGED <<program, main, socket, request, sent, pending>>

--------------------------------------------------------------------------------
\* Fault: Close instead of Shutdown, which closes the active connections too.
GoBeginsByClose ==
    /\ program \in GoPrograms
    /\ main = "running"
    /\ pending > 0
    /\ pending' = 0
    /\ draining' = 1
    /\ socket' = "shut"
    /\ request' = [r \in Requests |->
          IF request[r] = "active" THEN "cut" ELSE BacklogReset[r]]
    /\ UNCHANGED <<program, main, sent, done, outcome>>

\* The signal is received from the channel, once, and Shutdown closes the
\* listener.  go_faang does so in a goroutine, go_health in main.
GoBegins ==
    /\ program \in GoPrograms
    /\ main = "running"
    /\ socket # "shut"
    /\ pending > 0
    /\ pending' = 0
    /\ draining' = 1
    /\ socket' = "shut"
    /\ request' = BacklogReset
    /\ UNCHANGED <<program, main, sent, done, outcome>>

\* go_faang: ListenAndServe returns ErrServerClosed as soon as the listener is
\* closed, or is called after that.
GoServeReturns ==
    /\ program = "go_faang"
    /\ main = "running"
    /\ socket = "shut"
    /\ main' = "closing"
    /\ UNCHANGED <<program, socket, request, sent, pending, draining, done, outcome>>

\* Fault: done is never closed.
GoDrainedSilently ==
    /\ program = "go_faang"
    /\ draining > 0
    /\ Active = {}
    /\ draining' = 0
    /\ UNCHANGED <<program, main, socket, request, sent, pending, done, outcome>>

\* go_faang: Shutdown finds every connection idle and done is closed.
GoDrained ==
    /\ program = "go_faang"
    /\ draining > 0
    /\ Active = {}
    /\ draining' = 0
    /\ done' = TRUE
    /\ UNCHANGED <<program, main, socket, request, sent, pending, outcome>>

\* Fault: main returns as soon as ListenAndServe does.
GoExitsAtOnce ==
    /\ program = "go_faang"
    /\ main = "closing"
    /\ Exit("clean")
    /\ UNCHANGED <<program, sent, pending, draining, done>>

\* go_faang: main has waited for done.
GoExits ==
    /\ program = "go_faang"
    /\ main = "closing"
    /\ done
    /\ Exit("clean")
    /\ UNCHANGED <<program, sent, pending, draining, done>>

\* go_health: Shutdown finds every connection idle and main returns.
GoHealthExits ==
    /\ program = "go_health"
    /\ main # "exited"
    /\ draining > 0
    /\ Active = {}
    /\ Exit("clean")
    /\ UNCHANGED <<program, sent, pending, draining, done>>

\* The context of Shutdown expires: log.Fatalf in go_faang, the end of main in
\* go_health.
GoExpires ==
    /\ program \in GoPrograms
    /\ main # "exited"
    /\ draining > 0
    /\ Exit("expired")
    /\ UNCHANGED <<program, sent, pending, draining, done>>

--------------------------------------------------------------------------------
Step ==
    \/ Register \/ Listen
    \/ AppServes \/ AppHandlesSignal
    \/ AioHandlesSignal \/ AioDrained \/ AioExpires
    \/ GoBegins \/ GoServeReturns \/ GoDrained \/ GoExits
    \/ GoHealthExits \/ GoExpires

Next ==
    \/ \E r \in Requests : Send(r) \/ Accept(r) \/ Respond(r)
    \/ Signal
    \/ Step

Spec == Init /\ [][Next]_vars

\* The program's own control goes on, and time passes, so that a deadline is
\* reached; nothing makes a client send, a request finish or a signal come.
FairSpec == Spec /\ WF_vars(Step)

--------------------------------------------------------------------------------
\* A process that ends cleanly has cut no request short: main does not return
\* while another goroutine still waits for the handlers ("graceful shutdown",
\* practice_examples/go-http-service/README.md:3).
CleanExitCutsNothing ==
    outcome = "clean" => \A r \in Requests : request[r] # "cut"

\* The Go servers end after a signal, even if a request never finishes.
GoServersStop ==
    program \in GoPrograms /\ sent > 0 ~> main = "exited"

\* If handlers return, an accepted request is answered, whenever the signal
\* comes and however the shutdown proceeds, unless the deadline or a signal
\* before registration ended the process; of app this is true as long as no
\* signal was sent.
AcceptedIsAnswered ==
    (\A r \in Requests : WF_vars(Respond(r))) =>
        \A r \in Requests :
            request[r] = "active" ~>
                \/ request[r] = "answered"
                \/ program \in GoPrograms /\ outcome \in {"expired", "killed"}
                \/ program = "app" /\ sent > 0

\* The program ends after a signal (C_full_project/README.md:43, of app.py:
\* "Graceful shutdown handling (SIGTERM/SIGINT)").
StopsOnSignal == sent > 0 ~> main = "exited"

================================================================================

------------------------------- MODULE TaskPools -------------------------------
(* Programs that work on a list of tasks at once and report on all of them:     *)
(*   crawler       go-basics/concurrent_crawler_faang.go: an errgroup           *)
(*   channel       go-basics/concurrent_crawler_05.go: a buffered channel       *)
(*   fetch         python-concurrent-fetch/fetch.py: a thread pool              *)
(*   gather        python-basics/concurrency_faang.py: asyncio.gather           *)
(*   remediation   security_automation_advanced.py: a thread pool per container *)
EXTENDS Naturals, Sequences, FiniteSets

CONSTANTS
    Programs, Tasks,
    Pool          \* threads of a pool: MAX_WORKERS, max_workers

VARIABLES
    program,
    findings,     \* task |-> what the input is like
    tasks,        \* task |-> how far it is
    tries,        \* task |-> attempts of fetch.py so far
    results,      \* results that main has not taken yet, in the order they came
    cancelled,    \* the context of the crawler is cancelled
    late,         \* its deadline is near or over
    closed,       \* the channel is closed
    report,       \* what main counted
    main

vars == <<program, findings, tasks, tries, results, cancelled, late, closed, report, main>>

Outcomes == {"success", "failure"}

\* Inputs: urls, or findings of a type that some strategy handles, with an Id or without.
Urls == [type : {"url"}, id : {TRUE}]
Findings == [type : {"s3_public", "security_group", "access_key", "other"}, id : BOOLEAN]
Inputs(p) == IF p = "remediation" THEN Findings ELSE Urls

TypeOK ==
    /\ program \in Programs
    /\ findings \in [Tasks -> Inputs(program)]
    /\ tasks \in [Tasks -> {"waiting", "running", "done", "refused", "raised"}]
    /\ tries \in [Tasks -> 0 .. 1]
    /\ results \in Seq([task : Tasks, outcome : Outcomes]) /\ Len(results) <= Cardinality(Tasks)
    /\ cancelled \in BOOLEAN /\ late \in BOOLEAN /\ closed \in BOOLEAN
    /\ report \in [success : Nat, failure : Nat, of : SUBSET Tasks]
    /\ main \in {"collecting", "reported", "500"}

Init ==
    /\ program \in Programs
    /\ findings \in [Tasks -> Inputs(program)]
    /\ tasks = [t \in Tasks |-> "waiting"]
    /\ tries = [t \in Tasks |-> 0]
    /\ results = << >>
    /\ cancelled = FALSE /\ late = FALSE /\ closed = FALSE
    /\ report = [success |-> 0, failure |-> 0, of |-> {}]
    /\ main = "collecting"

--------------------------------------------------------------------------------
In(s) == {t \in Tasks : tasks[t] \in s}
AllDone == In({"waiting", "running"}) = {}
Goto(t, where) == tasks' = [tasks EXCEPT ![t] = where]
Input == <<program, findings>>
Main == <<closed, report, main>>

\* A result is handed over and the task ends.
Result(t, outcome) ==
    /\ Goto(t, "done")
    /\ results' = Append(results, [task |-> t, outcome |-> outcome])

\* remediate_findings submits a finding that a strategy can handle.
Submitted(t) == findings[t].type # "other"

\* A goroutine or coroutine starts when it is made, a task of a pool when a thread is free.
Start(t) ==
    /\ tasks[t] = "waiting"
    /\ program \in {"fetch", "remediation"} => Cardinality(In({"running"})) < Pool
    /\ Submitted(t)
    /\ Goto(t, "running")
    /\ UNCHANGED <<Input, tries, results, cancelled, late, Main>>

\* limiter.Wait returns an error if the context is cancelled or the wait would outlast
\* its deadline: no result, and the error cancels the context.
LimiterRefuses(t) ==
    /\ program = "crawler" /\ tasks[t] = "waiting"
    /\ cancelled \/ late
    /\ Goto(t, "refused")
    /\ cancelled' = TRUE
    /\ UNCHANGED <<Input, tries, results, late, Main>>

\* Fault: a fetch that was cut off by another one's error leaves no result.
CrawlUrlSilently(t, outcome, err) ==
    /\ program = "crawler" /\ tasks[t] = "running"
    /\ err => outcome = "failure"
    /\ IF err THEN Goto(t, "refused") /\ UNCHANGED results ELSE Result(t, outcome)
    /\ cancelled' = (cancelled \/ err)
    /\ UNCHANGED <<Input, tries, late, Main>>

\* crawlURL adds a result in every case; an error, but no status, cancels the context.
CrawlUrl(t, outcome, err) ==
    /\ program = "crawler" /\ tasks[t] = "running"
    /\ err => outcome = "failure"
    /\ Result(t, outcome)
    /\ cancelled' = (cancelled \/ err)
    /\ UNCHANGED <<Input, tries, late, Main>>

\* The deadline of 30 seconds comes near.
Deadline ==
    /\ program = "crawler" /\ main = "collecting" /\ ~ late
    /\ late' = TRUE
    /\ UNCHANGED <<Input, tasks, tries, results, cancelled, Main>>

\* crawlURL of the simple crawler: it sends before it is Done.
CrawlIntoChannel(t, outcome) ==
    /\ program = "channel" /\ tasks[t] = "running"
    /\ Result(t, outcome)
    /\ UNCHANGED <<Input, tries, cancelled, late, Main>>

\* Fault: main closes the channel after its loop over the channel.
CloseAfterReport ==
    /\ program = "channel" /\ AllDone /\ ~ closed /\ main = "reported"
    /\ closed' = TRUE
    /\ UNCHANGED <<Input, tasks, tries, results, cancelled, late, report, main>>

\* wg.Wait, then close.
CloseChannel ==
    /\ program = "channel" /\ AllDone /\ ~ closed
    /\ closed' = TRUE
    /\ UNCHANGED <<Input, tasks, tries, results, cancelled, late, report, main>>

\* fetch_with_retry: a failure, an answer that urlopen raises for included, is tried
\* once more; whatever comes then is the result.
FetchWithRetry(t, outcome) ==
    /\ program = "fetch" /\ tasks[t] = "running"
    /\ IF outcome = "failure" /\ tries[t] = 0
       THEN tries' = [tries EXCEPT ![t] = 1] /\ UNCHANGED <<tasks, results>>
       ELSE Result(t, outcome) /\ UNCHANGED tries
    /\ UNCHANGED <<Input, cancelled, late, Main>>

\* fetch_url: every exception becomes a result, so gather never sees one.
FetchUrl(t, outcome) ==
    /\ program = "gather" /\ tasks[t] = "running"
    /\ Result(t, outcome)
    /\ UNCHANGED <<Input, tries, cancelled, late, Main>>

\* get_session is cached by an lru_cache whose key is the context, a dataclass with
\* equality and therefore without a hash: TypeError, and no strategy gets further.
GetSession == "failure"

\* _safe_remediate turns the exception into a FAILED result, which takes the Id of the
\* finding: without one the future raises.
SafeRemediate(t) ==
    /\ program = "remediation" /\ tasks[t] = "running"
    /\ IF findings[t].id THEN Result(t, GetSession) ELSE Goto(t, "raised") /\ UNCHANGED results
    /\ UNCHANGED <<Input, tries, cancelled, late, Main>>

\* _select_strategy finds none.
NoStrategy(t) ==
    /\ program = "remediation" /\ tasks[t] = "waiting" /\ ~ Submitted(t)
    /\ Goto(t, "refused")
    /\ UNCHANGED <<Input, tries, results, cancelled, late, Main>>

--------------------------------------------------------------------------------
\* g.Wait and gather let main see the results only when all tasks are done.
Collectable == program \in {"crawler", "gather"} => AllDone

\* Main takes the next result: from the channel, from as_completed, or from the list.
Collect ==
    /\ main = "collecting" /\ Collectable /\ results # << >>
    /\ results' = Tail(results)
    /\ LET r == Head(results)
       IN  report' = [report EXCEPT ![r.outcome] = @ + 1, !.of = @ \cup {r.task}]
    /\ UNCHANGED <<Input, tasks, tries, cancelled, late, closed, main>>

\* range over the channel ends when it is closed, as_completed when all futures are.
Report ==
    /\ main = "collecting" /\ results = << >>
    /\ IF program = "channel" THEN closed ELSE AllDone
    /\ main' = "reported"
    /\ UNCHANGED <<Input, tasks, tries, results, cancelled, late, closed, report>>

\* from_results: an unknown Severity raises, and the handler answers 500.
UnknownSeverity ==
    /\ program = "remediation" /\ main = "collecting" /\ results = << >> /\ AllDone
    /\ main' = "500"
    /\ UNCHANGED <<Input, tasks, tries, results, cancelled, late, closed, report>>

Step ==
    \/ \E t \in Tasks :
           \/ Start(t) \/ LimiterRefuses(t) \/ SafeRemediate(t) \/ NoStrategy(t)
           \/ \E outcome \in Outcomes :
                  \/ \E err \in BOOLEAN : CrawlUrl(t, outcome, err)
                  \/ CrawlIntoChannel(t, outcome) \/ FetchWithRetry(t, outcome)
                  \/ FetchUrl(t, outcome)
    \/ CloseChannel \/ Collect \/ Report \/ UnknownSeverity

Next == Step \/ Deadline

Spec == Init /\ [][Next]_vars

\* Every fetch has a timeout and nothing else waits for the world.
FairSpec == Spec /\ WF_vars(Step)

--------------------------------------------------------------------------------
\* Tasks without a result.
Missing == In({"refused", "raised"})

\* When a program reports, no task is still at work, and every task was counted once,
\* as a success or a failure, but for the few that leave no result: a url of the
\* crawler that an error of another url or the deadline cut off, and the report shows
\* that error; a finding that no strategy handles or that has no Id.
ReportAddsUp ==
    main = "reported" =>
        /\ AllDone /\ results = << >>
        /\ report.success + report.failure = Cardinality(report.of)
        /\ report.of = Tasks \ Missing
        /\ program \notin {"crawler", "remediation"} => Missing = {}
        /\ program = "crawler" /\ Missing # {} => report.failure > 0 \/ late
        /\ program = "remediation" => \A t \in Missing : ~ Submitted(t) \/ ~ findings[t].id

\* Every program reports in the end, whatever fails.
EveryRunReports == <>(main # "collecting")
================================================================================

------------------------------ MODULE Service -------------------------------
(***************************************************************************)
(* The long-running process: internal/app/runtime.go starts it, joins its  *)
(* two workers and closes its resources, internal/app/job.go is what the   *)
(* scheduler runs, internal/health tracks readiness.  Beside it an         *)
(* operator may run `crowdshield sync` on the same database.  The          *)
(* synchronization is one step with an outcome of SyncResult.  Ages count  *)
(* to Stale, which also stands for "never".                                *)
(***************************************************************************)
EXTENDS Integers, SyncResult

CONSTANTS
    MaxSyncAge, LAPIOutageGrace,
    FinalizationTimeout,    \* within which a finished Run is recorded
    Row,        \* identities of rows of sync_runs
    None

ASSUME ServiceAssumption ==
    /\ MaxSyncAge \in Nat \ {0} /\ LAPIOutageGrace \in 1..MaxSyncAge
    /\ FinalizationTimeout \in Nat
    /\ None \notin Row \cup {"success", "degraded", "failed", "cancelled"}

Stale == MaxSyncAge + 1
Ages == 0..Stale
Older(age) == IF age < Stale THEN age + 1 ELSE age

VARIABLES
    \* Database.
    runs,       \* sync_runs: Row -> "none", "running", "completed" or
                \*   "recovered"; the final statuses are not told apart
    lastSafe,   \* runtime_state last_safe_sync
    \* The service: main goroutine, workers, what main closes.
    main, scheduler, http, signalled, cancelled, storeOpen, notifyOpen,
    handling,   \* some request handler runs
    runtimeErr, \* Run returns an error
    job,        \* of the scheduler: [row, result, category, age], the age that
                \*   of completedAt, which only a safe Run has a use for
    cli,        \* progress of the operator's command
    command,    \* its Run: [row, safe, age]
    tracker,    \* health.Tracker: [database, lapi, everReady, outage, last, runtime]
    outage      \* history: time since a Run first reported that the LAPI failed,
                \*   with none since that reached it; NoOutage otherwise

database == <<runs, lastSafe>>
resources == <<storeOpen, notifyOpen>>
process == <<main, scheduler, http, signalled, cancelled, resources, handling, runtimeErr>>
svars == <<database, process, job, cli, command, tracker, outage>>

NoOutage == -1

\* A worker that has returned, nil or an error (or a panic, which
\* runRuntimeWorker makes one).
Ended == {"done", "failed"}

NoResult == [outcome |-> None, failure |-> "", retryable |-> FALSE]
Results == {o.result : o \in JobOutcomes}
           \cup {NoResult, Cancelled, fixedFailureResult("database", TRUE)}

NoJob == [row |-> None, result |-> NoResult, category |-> "none", age |-> 0]
NoCommand == [row |-> None, safe |-> FALSE, age |-> 0]

\* Rows, goroutines and tracker.
ServiceTypeOK ==
    /\ runs \in [Row -> {"none", "running", "completed", "recovered"}]
    /\ lastSafe \in Ages
    /\ main \in {"build", "boot", "start", "run", "join", "shutdown", "drain",
                "joinhttp", "close", "exit"}
    /\ scheduler \in {"off", "idle", "begun", "ran", "observe"} \cup Ended
    /\ http \in {"off", "serving"} \cup Ended
    /\ {signalled, cancelled, storeOpen, notifyOpen} \subseteq BOOLEAN
    /\ {handling, runtimeErr} \subseteq BOOLEAN
    /\ job \in [row: Row \cup {None}, result: Results,
                category: {"none", "degraded", "state", "reconcile", "foreign"},
                age: Ages]
    /\ command \in [row: Row \cup {None}, safe: BOOLEAN, age: Ages]
    /\ cli \in {"off", "recovered", "begun", "ran"}
    /\ tracker \in [database: BOOLEAN, lapi: {"pending", "available", "unavailable"},
                    everReady: BOOLEAN, outage: Ages, last: Ages,
                    runtime: {"running", "stopping", "fatal"}]
    /\ outage \in Ages \cup {NoOutage}

NewTracker == [database |-> FALSE, lapi |-> "pending", everReady |-> FALSE,
               outage |-> Stale, last |-> Stale, runtime |-> "running"]

NewProcess ==
    /\ main' = "build" /\ scheduler' = "off" /\ http' = "off"
    /\ signalled' = FALSE /\ cancelled' = FALSE
    /\ storeOpen' = FALSE /\ notifyOpen' = FALSE
    /\ handling' = FALSE /\ runtimeErr' = FALSE
    /\ job' = NoJob /\ tracker' = NewTracker /\ outage' = NoOutage

ServiceInit ==
    /\ runs = [r \in Row |-> "none"] /\ lastSafe = Stale
    /\ main = "build" /\ scheduler = "off" /\ http = "off"
    /\ signalled = FALSE /\ cancelled = FALSE
    /\ storeOpen = FALSE /\ notifyOpen = FALSE
    /\ handling = FALSE /\ runtimeErr = FALSE
    /\ job = NoJob /\ cli = "off" /\ command = NoCommand
    /\ tracker = NewTracker /\ outage = NoOutage

-----------------------------------------------------------------------------
(* The health tracker.                                                     *)

\* Faulty: every failure begins a new outage.
MarkLAPIAnew(t, available) ==
    IF available
    THEN [t EXCEPT !.lapi = "available", !.everReady = TRUE, !.outage = Stale]
    ELSE [t EXCEPT !.lapi = "unavailable", !.outage = 0]

MarkLAPI(t, available) ==
    IF available
    THEN [t EXCEPT !.lapi = "available", !.everReady = TRUE, !.outage = Stale]
    ELSE [t EXCEPT !.lapi = "unavailable",
                   !.outage = IF t.lapi # "unavailable" THEN 0 ELSE @]

MarkRuntimeFatal(t) == [t EXCEPT !.runtime = "fatal"]

MarkStopping(t) == [t EXCEPT !.runtime = IF @ # "fatal" THEN "stopping" ELSE @]

\* RecordSync: only a newer safe Run counts.
RecordSync(t, result, age) ==
    IF safeSynchronization(result) /\ age < t.last THEN [t EXCEPT !.last = age]
    ELSE t

\* ApplyEvent for the events of a job; emit drops the invalid ones.
ApplyEvent(t, e, age) ==
    IF ~ValidEvent(e) THEN t
    ELSE IF e.code = "lapi_state_changed" THEN MarkLAPI(t, e.outcome = "available")
    ELSE RecordSync(t, e, age)

\* Snapshot: what /readyz answers.
Ready ==
    /\ tracker.runtime = "running" /\ tracker.database
    /\ \/ tracker.lapi = "available"
       \/ /\ tracker.lapi = "unavailable" /\ tracker.everReady
          /\ tracker.outage <= LAPIOutageGrace
    /\ tracker.last <= MaxSyncAge

-----------------------------------------------------------------------------
(* Rows of sync_runs.                                                      *)

RecoverInterruptedSyncRuns ==
    runs' = [r \in Row |-> IF runs[r] = "running" THEN "recovered"
                           ELSE runs[r]]

BeginSyncRun(r) == runs[r] = "none" /\ runs' = [runs EXCEPT ![r] = "running"]

\* Never back in time.
setRuntimeTimestamp(age) == lastSafe' = IF age < lastSafe THEN age ELSE lastSafe

Completable(r) == runs[r] = "running"

CompleteSyncRun(r, safe, age) ==
    /\ Completable(r)
    /\ runs' = [runs EXCEPT ![r] = "completed"]
    /\ IF safe THEN setRuntimeTimestamp(age) ELSE UNCHANGED lastSafe

\* Faulty: what failed to be recorded still counts as the result.
AfterFailedCompletionSame(j) == j

AfterFailedCompletion(j) ==
    [j EXCEPT !.result = fixedFailureResult("database", TRUE)]

\* Retention deletes a finished row no job refers to.
Forget ==
    /\ \E r \in Row \ {job.row, command.row} :
            /\ runs[r] \notin {"none", "running"}
            /\ runs' = [runs EXCEPT ![r] = "none"]
    /\ UNCHANGED <<lastSafe, process, job, cli, command, tracker, outage>>

-----------------------------------------------------------------------------
(* Main goroutine.                                                         *)

\* BuildProductionRuntime: the store and the notification manager are open.
Build ==
    /\ main = "build" /\ main' = "boot"
    /\ storeOpen' = TRUE /\ notifyOpen' = TRUE
    /\ UNCHANGED <<database, scheduler, http, signalled, cancelled, handling,
                   runtimeErr, job, cli, command, tracker, outage>>

\* A constructor fails and the deferred function closes what was opened.
BuildFails ==
    /\ main = "build" /\ main' = "exit"
    /\ runtimeErr' = TRUE
    /\ UNCHANGED <<database, scheduler, http, signalled, cancelled, resources,
                   handling, job, cli, command, tracker, outage>>

\* bootstrap up to the recovery of interrupted Runs.
BootRecover ==
    /\ main = "boot" /\ main' = "start"
    /\ RecoverInterruptedSyncRuns
    /\ tracker' = [tracker EXCEPT !.database = TRUE]
    /\ UNCHANGED <<lastSafe, scheduler, http, signalled, cancelled, resources,
                   handling, runtimeErr, job, cli, command, outage>>

\* The rest of bootstrap, then both workers start.
Bootstrap ==
    /\ main = "start" /\ main' = "run"
    /\ tracker' = MarkLAPI(
                    RecordSync(tracker, [outcome |-> "success"], lastSafe), TRUE)
    /\ outage' = NoOutage
    /\ scheduler' = "idle" /\ http' = "serving"
    /\ UNCHANGED <<database, signalled, cancelled, resources, handling, runtimeErr,
                   job, cli, command>>

\* failStartup.
FailStartup ==
    /\ main \in {"boot", "start"} /\ main' = "exit"
    /\ tracker' = MarkRuntimeFatal(tracker)
    /\ notifyOpen' = FALSE /\ storeOpen' = FALSE /\ runtimeErr' = TRUE
    /\ UNCHANGED <<database, scheduler, http, signalled, cancelled, handling,
                   job, cli, command, outage>>

Signal ==
    /\ ~signalled /\ main \in {"build", "boot", "start", "run"} /\ signalled' = TRUE
    /\ UNCHANGED <<database, main, scheduler, http, cancelled, resources, handling,
                   runtimeErr, job, cli, command, tracker, outage>>

\* The select of Run: a signal, or the end of a worker, which is fatal.
Selected(fatal) ==
    IF fatal THEN scheduler \in Ended \/ http \in Ended ELSE signalled

\* Faulty: the workers are not told to stop.
StopNobody ==
    /\ main = "run" /\ main' = "join"
    /\ \E fatal \in BOOLEAN :
        /\ Selected(fatal) /\ runtimeErr' = fatal
        /\ tracker' = MarkStopping(IF fatal THEN MarkRuntimeFatal(tracker) ELSE tracker)
    /\ UNCHANGED <<database, scheduler, http, signalled, cancelled, resources,
                   handling, job, cli, command, outage>>

\* From the select to cancelWorkers: no worker reads what the statements in
\* between change.  Nobody looks at the signal again.
Stop ==
    /\ main = "run" /\ main' = "join"
    /\ \E fatal \in BOOLEAN :
        /\ Selected(fatal) /\ runtimeErr' = fatal
        /\ tracker' = MarkStopping(IF fatal THEN MarkRuntimeFatal(tracker) ELSE tracker)
    /\ cancelled' = TRUE /\ signalled' = FALSE
    /\ UNCHANGED <<database, scheduler, http, resources, handling, job, cli, command, outage>>

\* What a worker returned is taken from its channel.
JoinScheduler ==
    /\ main = "join" /\ scheduler \in Ended
    /\ main' = "shutdown" /\ notifyOpen' = FALSE
    /\ runtimeErr' = (runtimeErr \/ scheduler = "failed") /\ scheduler' = "done"
    /\ UNCHANGED <<database, http, signalled, cancelled, storeOpen,
                   handling, job, cli, command, tracker, outage>>

\* Shutdown of the HTTP server: the listener is closed, ...
StopListening ==
    /\ main = "shutdown" /\ main' = "drain"
    /\ UNCHANGED <<database, scheduler, http, signalled, cancelled, resources,
                   handling, runtimeErr, job, cli, command, tracker, outage>>

\* ... then it waits for the handlers (closing the listener may have failed) ...
Drained ==
    /\ main = "drain" /\ ~handling
    /\ main' = "joinhttp"
    /\ \E shutdownErr \in BOOLEAN : runtimeErr' = (runtimeErr \/ shutdownErr)
    /\ UNCHANGED <<database, scheduler, http, signalled, cancelled, resources,
                   handling, job, cli, command, tracker, outage>>

\* ... for shutdownTimeout at most; Close drops the connections and does not
\* wait for their handlers.
ShutdownTimesOut ==
    /\ main = "drain" /\ handling
    /\ main' = "joinhttp" /\ runtimeErr' = TRUE
    /\ UNCHANGED <<database, scheduler, http, signalled, cancelled, resources,
                   handling, job, cli, command, tracker, outage>>

\* Faulty: main goes on while the HTTP worker runs.
JoinNobody ==
    /\ main = "joinhttp" /\ main' = "close"
    /\ runtimeErr' = (runtimeErr \/ http = "failed")
    /\ UNCHANGED <<database, scheduler, http, signalled, cancelled, resources,
                   handling, job, cli, command, tracker, outage>>

JoinHttp ==
    /\ main = "joinhttp" /\ http \in Ended
    /\ main' = "close"
    /\ runtimeErr' = (runtimeErr \/ http = "failed") /\ http' = "done"
    /\ UNCHANGED <<database, scheduler, signalled, cancelled, resources,
                   handling, job, cli, command, tracker, outage>>

\* closeResources, which may fail, the event that the service has stopped, and
\* the return of Run.
CloseResources ==
    /\ main = "close" /\ main' = "exit"
    /\ storeOpen' = FALSE
    /\ \E closeErr \in BOOLEAN : runtimeErr' = (runtimeErr \/ closeErr)
    /\ tracker' = MarkStopping(tracker)
    /\ UNCHANGED <<database, scheduler, http, signalled, cancelled, notifyOpen,
                   handling, job, cli, command, outage>>

\* Docker restarts the service after it exited or was killed.
Restart ==
    /\ NewProcess
    /\ UNCHANGED <<database, cli, command>>

-----------------------------------------------------------------------------
(* The workers.                                                            *)

\* Serve fails by itself; the connections it accepted stay.
HttpFails ==
    /\ http = "serving" /\ main \in {"run", "join", "shutdown"}
    /\ http' = "failed"
    /\ UNCHANGED <<database, main, scheduler, signalled, cancelled, resources,
                   handling, runtimeErr, job, cli, command, tracker, outage>>

\* Serve returns nil once the listener is closed.
HttpStops ==
    /\ http = "serving" /\ main \in {"drain", "joinhttp"}
    /\ http' = "done"
    /\ UNCHANGED <<database, main, scheduler, signalled, cancelled, resources,
                   handling, runtimeErr, job, cli, command, tracker, outage>>

\* A request that Shutdown meets, over a connection accepted before the listener
\* closed.  One that is answered earlier touches nothing of this state.
RequestArrives ==
    /\ main = "drain"
    /\ ~handling /\ handling' = TRUE
    /\ UNCHANGED <<database, main, scheduler, http, signalled, cancelled, resources,
                   runtimeErr, job, cli, command, tracker, outage>>

RequestAnswered ==
    /\ handling /\ handling' = FALSE
    /\ UNCHANGED <<database, main, scheduler, http, signalled, cancelled, resources,
                   runtimeErr, job, cli, command, tracker, outage>>

Scheduler(from, to) ==
    /\ scheduler = from /\ scheduler' = to
    /\ UNCHANGED <<main, http, signalled, cancelled, resources, handling, runtimeErr,
                   cli, command>>

JobBegins ==
    /\ Scheduler("idle", "begun") /\ ~cancelled
    /\ \E r \in Row : BeginSyncRun(r) /\ job' = [NoJob EXCEPT !.row = r]
    /\ UNCHANGED <<lastSafe, tracker, outage>>

\* The context is cancelled already, or the row cannot be written.
JobHasNoRow ==
    /\ Scheduler("idle", "observe")
    /\ job' = [NoJob EXCEPT !.result = IF cancelled THEN Cancelled
                                       ELSE fixedFailureResult("database", TRUE),
                            !.category = "foreign"]
    /\ UNCHANGED <<database, tracker, outage>>

JobRuns ==
    /\ Scheduler("begun", "ran")
    /\ \E o \in JobOutcomes :
            /\ o.result.outcome = "cancelled" => cancelled
            /\ job' = [job EXCEPT !.result = o.result, !.category = o.category]
    /\ UNCHANGED <<database, tracker, outage>>

JobCompletes ==
    /\ Scheduler("ran", "observe")
    /\ CompleteSyncRun(job.row, safeSynchronization(job.result), job.age)
    /\ UNCHANGED <<job, tracker, outage>>

\* CompleteSyncRun fails, on the row's status or in the database.
JobNotCompleted ==
    /\ Scheduler("ran", "observe")
    /\ job' = AfterFailedCompletion(job)
    /\ UNCHANGED <<database, tracker, outage>>

\* observeResult: health.RecordSync, then the events in their order.
Observed(t, result, category, age) ==
    LET recorded == RecordSync(t, result, age)
        told == IF LAPIEvent(result, category) = {} THEN recorded
                ELSE ApplyEvent(recorded, CHOOSE e \in LAPIEvent(result, category) : TRUE,
                                age)
    IN  ApplyEvent(told, CompletedEvent(result), age)

JobObserved ==
    /\ Scheduler("observe", "idle")
    /\ tracker' = Observed(tracker, job.result, job.category, job.age)
    /\ outage' = IF safeSynchronization(job.result) THEN NoOutage
                 ELSE IF lapiUnavailable(job.result, job.category) /\ outage = NoOutage
                 THEN 0 ELSE outage
    /\ job' = NoJob
    /\ UNCHANGED database

SchedulerStops ==
    /\ Scheduler("idle", "done") /\ cancelled
    /\ UNCHANGED <<database, job, tracker, outage>>

\* A panic in the job, caught by runRuntimeWorker.
JobPanics ==
    /\ Scheduler("begun", "failed")
    /\ job' = NoJob
    /\ UNCHANGED <<database, tracker, outage>>

-----------------------------------------------------------------------------
(* `crowdshield sync` in a process of its own.                             *)

Command(from, to) ==
    /\ cli = from /\ cli' = to
    /\ UNCHANGED <<process, job, tracker, outage>>

CommandRecovers ==
    /\ Command("off", "recovered")
    /\ RecoverInterruptedSyncRuns
    /\ UNCHANGED <<lastSafe, command>>

CommandBegins ==
    /\ Command("recovered", "begun")
    /\ \E r \in Row : BeginSyncRun(r) /\ command' = [NoCommand EXCEPT !.row = r]
    /\ UNCHANGED lastSafe

\* The command authenticates before it runs the engine.
CommandOutcomes ==
    JobOutcomes
    \cup {[result |-> ResultFromSync(Reported([f \in {} |-> {}]),
                                     [Err("foreign") EXCEPT !.lapi = "auth"]),
           category |-> "foreign"]}

CommandSafe == {safeSynchronization(o.result) : o \in CommandOutcomes}

CommandRuns ==
    /\ Command("begun", "ran")
    /\ \E safe \in CommandSafe : command' = [command EXCEPT !.safe = safe]
    /\ UNCHANGED database

CommandCompletes ==
    /\ Command("ran", "off")
    /\ CompleteSyncRun(command.row, command.safe, command.age) \/ UNCHANGED database
    /\ command' = NoCommand

\* Killed, or a step before the row fails.
CommandEnds ==
    /\ cli # "off" /\ Command(cli, "off")
    /\ command' = NoCommand
    /\ UNCHANGED database

Tick ==
    /\ job.age < FinalizationTimeout /\ command.age < FinalizationTimeout
    /\ lastSafe' = Older(lastSafe)
    /\ outage' = IF outage = NoOutage THEN NoOutage ELSE Older(outage)
    /\ tracker' = [tracker EXCEPT !.outage = Older(@), !.last = Older(@)]
    /\ job' = IF safeSynchronization(job.result) THEN [job EXCEPT !.age = Older(@)]
              ELSE job
    /\ command' = IF command.safe THEN [command EXCEPT !.age = Older(@)] ELSE command
    /\ UNCHANGED <<runs, process, cli>>

MainStep ==
    \/ Build \/ BuildFails \/ BootRecover \/ Bootstrap \/ FailStartup \/ Stop
    \/ JoinScheduler \/ StopListening \/ Drained \/ ShutdownTimesOut \/ JoinHttp
    \/ CloseResources

JobStep == JobRuns \/ JobCompletes \/ JobNotCompleted \/ JobObserved

ServiceNext ==
    \/ MainStep \/ Signal \/ Restart \/ Forget
    \/ HttpFails \/ HttpStops \/ RequestArrives \/ RequestAnswered
    \/ JobBegins \/ JobHasNoRow \/ JobStep \/ SchedulerStops \/ JobPanics
    \/ CommandRecovers \/ CommandBegins \/ CommandRuns \/ CommandCompletes
    \/ CommandEnds \/ Tick

\* The goroutines of a process that is not killed make progress; a job that
\* could start again and again while the scheduler is told to stop does not
\* keep it from stopping.  Nothing makes a service start.
ServiceFairness ==
    /\ WF_svars(MainStep) /\ WF_svars(JobStep) /\ WF_svars(HttpStops)
    /\ SF_svars(SchedulerStops)

ServiceSpec == ServiceInit /\ [][ServiceNext]_svars /\ ServiceFairness

-----------------------------------------------------------------------------
(* Properties.                                                             *)

\* "SQLite closes after scheduler and HTTP workers stop."
\* (docs/architecture.md:478): the job never meets a closed store or a closed
\* notification manager and the HTTP worker returns before the store closes.
\* A request handler outlives the store only when Shutdown did not wait for it,
\* and then the service does not end as if all went well.
ClosedLast ==
    /\ scheduler \notin {"off"} \cup Ended => storeOpen /\ notifyOpen
    /\ http = "serving" => storeOpen
    /\ handling /\ ~storeOpen => runtimeErr

\* The tracker never believes in a safe Run more recent than the database
\* records, so a restarted service is not less ready than the old one was.
TrackerBacked == tracker.last >= lastSafe

\* "LAPI has not been unreachable longer than its grace period"
\* (docs/architecture.md:548): while the service answers ready, the first
\* failure that a Run reported since one last reached the LAPI is at most the
\* grace period ago, however often it failed since.
GraceIsBounded == Ready => outage <= LAPIOutageGrace

\* Nothing about a Run is lost in the closed vocabulary: no report of the
\* engine is refused by ResultFromSync, which would end as an internal failure,
\* and no event is dropped by emit, whatever the engine, the store and the row
\* did to the result before.
NothingDropped ==
    scheduler \in {"ran", "observe"} =>
        /\ job.result.failure # "internal" /\ ValidResult(job.result)
        /\ \A e \in Events(job.result, job.category) : ValidEvent(e)

\* A Run counts as safe, in the database and for readiness, exactly when its
\* reconciliation finished and its row was completed: failed feeds do not take
\* that away, and nothing else makes up for it.
ReconciledCounts ==
    [][JobObserved =>
        IF /\ job.category \in {"none", "degraded"}
           /\ job.row # None /\ runs[job.row] = "completed"
        THEN /\ lastSafe <= job.age /\ tracker'.last <= job.age
             /\ tracker'.lapi = "available"
        ELSE tracker'.last = tracker.last]_svars

\* A signal or a failed worker ends the process, unless it is killed first.
Exits ==
    (main = "run" /\ (signalled \/ scheduler \in Ended \/ http \in Ended))
        ~> main \in {"exit", "build"}

\* "Enforcing synchronization recovers interrupted runs"
\* (docs/PROJECT_STATE.md:93): the command marks a row only when the Run is
\* interrupted, not when the service is still at it.
OnlyInterrupted ==
    [][CommandRecovers => \A r \in Row : r = job.row => runs'[r] = runs[r]]_svars
=============================================================================

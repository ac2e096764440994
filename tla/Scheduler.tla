----------------------------- MODULE Scheduler ------------------------------
(***************************************************************************)
(* internal/scheduler: one goroutine that runs the synchronization job at  *)
(* deadlines anchored to the first one, with bounded retries in a cycle,   *)
(* until the context is cancelled.  Times are relative: `left` is the      *)
(* deadline minus the clock, `timer` what remains of the armed timer, and  *)
(* of the clock itself only its phase in the interval is kept.             *)
(***************************************************************************)
EXTENDS Integers

CONSTANTS
    Interval, StartupJitter, RunImmediately,
    MaxAttempts, InitialBackoff, MaxBackoff,    \* RetryPolicy
    MaxLag      \* bound: how far past its deadline a job may still take time

\* New and validRetry.
ASSUME SchedulerAssumption ==
    /\ Interval \in Nat \ {0} /\ StartupJitter \in 0..Interval
    /\ RunImmediately \in BOOLEAN
    /\ MaxAttempts \in 1..10
    /\ InitialBackoff \in Nat \ {0} /\ MaxBackoff \in Nat
    /\ MaxBackoff >= InitialBackoff /\ MaxLag \in Nat

VARIABLES
    phase,      \* "waiting" in Run, "job", "backoff" in executeCycle, "stopped"
    left, timer, attempt, clock,
    anchor,     \* phase of the first deadline
    cancelled,  \* ctx.Err() # nil
    invalid     \* a result failed Validate

vars == <<phase, left, timer, attempt, clock, anchor, cancelled, invalid>>

\* How far a deadline can be behind: the backoffs add to the jobs.
MaxBehind == MaxLag + MaxAttempts * MaxBackoff

\* The wait is never longer than jitter and interval, and a cycle has at most
\* MaxAttempts attempts.
SchedulerTypeOK ==
    /\ phase \in {"waiting", "job", "backoff", "stopped"}
    /\ left \in (-MaxBehind)..(Interval + StartupJitter)
    /\ timer \in 0..(IF phase = "backoff" THEN MaxBackoff
                     ELSE Interval + StartupJitter)
    /\ attempt \in 0..MaxAttempts
    /\ clock \in 0..(Interval - 1) /\ anchor \in 0..(Interval - 1)
    /\ cancelled \in BOOLEAN /\ invalid \in BOOLEAN

\* Run up to its first wait.
SchedulerInit ==
    /\ \E jitter \in 0..StartupJitter :
        /\ timer = jitter + (IF RunImmediately THEN 0 ELSE Interval)
        /\ left = timer
        /\ anchor = timer % Interval
    /\ phase = "waiting" /\ attempt = 0 /\ clock = 0
    /\ cancelled = FALSE /\ invalid = FALSE

delay[n \in 1..MaxAttempts] ==
    IF n = 1 THEN InitialBackoff
    ELSE IF delay[n - 1] > MaxBackoff \div 2 THEN MaxBackoff
    ELSE delay[n - 1] * 2

retryDelay(failedAttempt) == delay[failedAttempt]

\* Faulty: the deadline moves by one interval, whatever the clock says.
NextDeadlineReplays == left + Interval

\* Faulty: the interval is measured from the end of the cycle.
NextDeadlineFromNow == Interval

\* The first deadline after now that is a whole number of intervals away.
NextDeadline ==
    LET steps == 1..(MaxBehind \div Interval + 2)
        k == CHOOSE k \in steps :
                /\ left + k * Interval > 0
                /\ \A j \in steps : j < k => left + j * Interval <= 0
    IN  left + k * Interval

\* executeCycle returns nil: Run arms the timer for the next deadline.
EndCycle ==
    /\ phase' = "waiting" /\ attempt' = 0
    /\ left' = NextDeadline
    /\ timer' = IF left' > 0 THEN left' ELSE 0

-----------------------------------------------------------------------------
(* The two cases of the select in wait; when both are ready either may be  *)
(* taken.  A delay of zero arms no timer and only looks at the context.    *)

TimerFires ==
    /\ phase \in {"waiting", "backoff"} /\ timer = 0
    /\ phase' = "job" /\ attempt' = attempt + 1
    /\ UNCHANGED <<left, timer, clock, anchor, cancelled, invalid>>

\* Faulty: the wait between two cycles does not watch the context.
DoneInBackoffOnly ==
    /\ phase = "backoff" /\ cancelled
    /\ EndCycle
    /\ UNCHANGED <<clock, anchor, cancelled, invalid>>

\* Between cycles Run returns; in a backoff executeCycle does, and Run waits
\* again.
ContextDone ==
    /\ cancelled
    /\ \/ /\ phase = "waiting" /\ phase' = "stopped"
          /\ UNCHANGED <<left, timer, attempt>>
       \/ phase = "backoff" /\ EndCycle
    /\ UNCHANGED <<clock, anchor, cancelled, invalid>>

\* Faulty: a failure that is not retryable ends the scheduler.
JobEndsFatal ==
    /\ phase = "job" /\ phase' = "stopped"
    /\ UNCHANGED <<left, timer, attempt, clock, anchor, cancelled, invalid>>

\* The job returns: success, cancellation, a failure that is not retryable or
\* the last attempt end the cycle, as any result does after cancellation.
JobEnds ==
    /\ phase = "job"
    /\ EndCycle
    /\ UNCHANGED <<clock, anchor, cancelled, invalid>>

\* A retryable failure with attempts left.
JobRetries ==
    /\ phase = "job" /\ ~cancelled /\ attempt < MaxAttempts
    /\ phase' = "backoff" /\ timer' = retryDelay(attempt)
    /\ UNCHANGED <<left, attempt, clock, anchor, cancelled, invalid>>

\* ErrInvalidResult: Run returns.
JobInvalid ==
    /\ phase = "job" /\ phase' = "stopped" /\ invalid' = TRUE
    /\ UNCHANGED <<left, timer, attempt, clock, anchor, cancelled>>

\* Root context: SIGINT or SIGTERM, or another worker of the service failed.
Cancel ==
    /\ ~cancelled /\ cancelled' = TRUE
    /\ UNCHANGED <<phase, left, timer, attempt, clock, anchor, invalid>>

\* Time passes, also while a goroutine is ready to run.
Tick ==
    /\ phase # "stopped" /\ (timer > 0 \/ left > -MaxLag)
    /\ left' = left - 1
    /\ timer' = IF timer > 0 THEN timer - 1 ELSE 0
    /\ clock' = (clock + 1) % Interval
    /\ UNCHANGED <<phase, attempt, anchor, cancelled, invalid>>

Stopped == phase = "stopped" /\ UNCHANGED vars

SchedulerNext ==
    \/ TimerFires \/ ContextDone \/ JobEnds \/ JobRetries \/ JobInvalid
    \/ Cancel \/ Tick \/ Stopped

\* Time goes on, a timer that fired is served and every job returns: each of
\* its requests has a timeout.  Of two ready cases select takes either one
\* with the same probability, so one that is ready again and again is taken.
SchedulerFairness ==
    /\ WF_vars(Tick) /\ WF_vars(TimerFires) /\ WF_vars(JobEnds)
    /\ SF_vars(ContextDone)

SchedulerSpec == SchedulerInit /\ [][SchedulerNext]_vars /\ SchedulerFairness

-----------------------------------------------------------------------------
(* Properties.                                                             *)

\* "Regular deadlines are anchored to the initial schedule" (scheduler.go:224):
\* jobs and retries of any length never shift the phase of the deadlines.
Anchored == phase # "stopped" => (clock + left) % Interval = anchor

\* "missed runs are skipped rather than overlapped or replayed"
\* (scheduler.go:226): a cycle that ran past deadlines is followed by a wait
\* for one still ahead, and by no more than an interval.
NoReplay ==
    [][(phase \in {"job", "backoff"}) /\ phase' = "waiting" =>
        left' \in 1..Interval /\ timer' = left']_vars

\* Cancellation ends the scheduler, wherever it arrives.
Stops == cancelled ~> phase = "stopped"

\* No failure of the job ends the schedule: jobs run again and again unless the
\* context is cancelled or a result is malformed.
Recurs == []<>(phase = "job") \/ <>(cancelled \/ invalid)

\* docs/architecture.md:473: "Recurring intervals are measured after the
\* previous job finishes": a full interval lies between the end of a cycle and
\* the next one.
MeasuredAfterJob ==
    [][(phase \in {"job", "backoff"}) /\ phase' = "waiting" =>
        left' = Interval]_vars
=============================================================================

----------------------------- MODULE SyncResult -----------------------------
(***************************************************************************)
(* What a synchronization turns into outside the engine: app/result.go     *)
(* converts the engine's report and error to a result of the closed        *)
(* vocabulary of ops/event.go, app/job.go derives the events of the Run    *)
(* from it.  Counts of entries, requests and decisions, names and times    *)
(* are left out; the counts of feeds, which the conversion checks, are     *)
(* kept.                                                                   *)
(***************************************************************************)
EXTENDS Naturals, FiniteSets

CONSTANT Feed

\* Causes of a failed feed that the service meets: one of a failed request, one
\* of a refused document, and the one that has a count of its own.
ErrorClass == {"request", "entry_count", "suspicious_change"}

FeedStatus == {"succeeded", "unchanged", "not_due", "failed"}
FeedReport == {r \in [status: FeedStatus, class: ErrorClass \cup {""}] :
                    r.status = "failed" <=> r.class # ""}

\* An error of the engine by the categories that its chain of causes has.
SyncError == [syncer: {"none", "config", "selection", "state", "reconcile",
                       "degraded", "foreign"},
              reconcile: {"", "state", "lapi", "ownership", "contract", "token",
                          "busy"},
              lapi: {"", "auth", "request"},
              context: {"", "canceled", "deadline"}]

Err(category) == [syncer |-> category, reconcile |-> "", lapi |-> "", context |-> ""]
ReconcileErr(category) == [Err("reconcile") EXCEPT !.reconcile = category]
LapiErr(category) == [ReconcileErr("lapi") EXCEPT !.lapi = category]

-----------------------------------------------------------------------------
(* The engine.                                                             *)

Having(feeds, status) == {f \in DOMAIN feeds : feeds[f].status = status}

\* The feeds of the report and the counters the engine kept meanwhile.
Reported(feeds) ==
    [feeds |-> feeds,
     suspicious |-> Cardinality({f \in DOMAIN feeds :
                                    feeds[f].class = "suspicious_change"}),
     counts |-> [s \in FeedStatus |-> Cardinality(Having(feeds, s))]]

\* What Engine.Run returns: a success or a degraded Run by whether a feed
\* failed, an error of the reconciler after all feeds, or an error of the store
\* after some of them.  The reconciler is never busy: one Run at a time uses it.
\* The context has no deadline and is cancelled by shutdown; only a LAPI request
\* has a deadline of its own.
EngineOutcomes ==
    LET all == [Feed -> FeedReport]
        some == UNION {[s -> FeedReport] : s \in SUBSET Feed}
        reconcile == {ReconcileErr(c) : c \in {"state", "ownership", "contract",
                                              "token"}}
                     \cup {LapiErr("auth"), LapiErr("request"),
                           [LapiErr("request") EXCEPT !.context = "deadline"],
                           [LapiErr("request") EXCEPT !.context = "canceled"],
                           [ReconcileErr("state") EXCEPT !.context = "canceled"]}
        state == {Err("state"), [Err("state") EXCEPT !.context = "canceled"]}
    IN  {<<Reported(f), Err(IF Having(f, "failed") = {} THEN "none" ELSE "degraded")>> :
            f \in all}
        \cup {<<Reported(f), e>> : f \in all, e \in reconcile}
        \cup {<<Reported(f), e>> : f \in some, e \in state}

-----------------------------------------------------------------------------
(* The conversion.                                                         *)

\* Faulty: the category of a suspicious change is missing.
feedFailureKnown(class) ==
    CASE class = "request" -> "feed_download"
      [] class = "entry_count" -> "feed_validation"
      [] OTHER -> "runtime"

feedFailure(class) ==
    CASE class = "request" -> "feed_download"
      [] class \in {"entry_count", "suspicious_change"} -> "feed_validation"
      [] OTHER -> "runtime"

operationalFeedResult(r) ==
    CASE r.status = "succeeded" -> [outcome |-> "success", failure |-> ""]
      [] r.status = "unchanged" -> [outcome |-> "not_modified", failure |-> ""]
      [] r.status = "not_due" -> [outcome |-> "not_due", failure |-> ""]
      [] OTHER -> [outcome |-> "failed", failure |-> feedFailure(r.class)]

\* The category of a failure and whether the scheduler tries again at once.
classifyFailure(err, items) ==
    LET failures == {items[f].failure : f \in {g \in DOMAIN items :
                                                items[g].outcome = "failed"}}
        is(failure, retryable) == [failure |-> failure, retryable |-> retryable]
    IN  IF err.context = "canceled" THEN is("cancelled", FALSE)
        ELSE IF err.context = "deadline" THEN is("timeout", TRUE)
        ELSE IF err.syncer \in {"config", "selection"} THEN is("config", FALSE)
        ELSE IF err.syncer = "state" THEN is("database", TRUE)
        ELSE IF err.syncer = "degraded"
        THEN is(IF "feed_validation" \in failures THEN "feed_validation"
                ELSE IF "feed_download" \in failures THEN "feed_download"
                ELSE "runtime",
                "feed_download" \in failures)
        ELSE IF err.lapi = "auth" THEN is("lapi_auth", FALSE)
        ELSE IF err.reconcile = "state" THEN is("database", TRUE)
        ELSE IF err.reconcile = "ownership" THEN is("ownership", FALSE)
        ELSE IF err.reconcile = "lapi" \/ err.lapi # "" THEN is("lapi", TRUE)
        ELSE is("runtime", err.reconcile = "busy")

Failures == {"config", "credential", "feed_download", "feed_validation",
             "lapi_auth", "lapi", "database", "notification", "ownership",
             "timeout", "cancelled", "runtime", "internal"}

\* Result.Validate.
ValidResult(result) ==
    CASE result.outcome = "success" -> result.failure = "" /\ ~result.retryable
      [] result.outcome \in {"degraded", "failed"} -> result.failure \in Failures
      [] result.outcome = "cancelled" ->
            result.failure = "cancelled" /\ ~result.retryable
      [] OTHER -> FALSE

fixedFailureResult(failure, retryable) ==
    [outcome |-> "failed", failure |-> failure, retryable |-> retryable]

Cancelled == [outcome |-> "cancelled", failure |-> "cancelled", retryable |-> FALSE]

\* ResultFromSync: the counters must agree with the feeds they count, and only
\* an error goes with a failed feed.  A report it refuses becomes an internal
\* failure.
ResultFromSync(report, err) ==
    LET items == [f \in DOMAIN report.feeds |-> operationalFeedResult(report.feeds[f])]
        number(outcome) == Cardinality({f \in DOMAIN items : items[f].outcome = outcome})
        suspicious == {f \in DOMAIN items : /\ items[f].outcome = "failed"
                                            /\ report.feeds[f].class = "suspicious_change"}
        agrees == /\ number("success") = report.counts["succeeded"]
                  /\ number("failed") = report.counts["failed"]
                  /\ number("not_modified") = report.counts["unchanged"]
                  /\ number("not_due") = report.counts["not_due"]
                  /\ Cardinality(suspicious) = report.suspicious
        class == classifyFailure(err, items)
        result == IF err.syncer = "none"
                  THEN [outcome |-> "success", failure |-> "", retryable |-> FALSE]
                  ELSE IF err.context = "canceled" THEN Cancelled
                  ELSE [outcome |-> IF err.syncer = "degraded" THEN "degraded"
                                    ELSE "failed",
                        failure |-> class.failure, retryable |-> class.retryable]
    IN  IF /\ agrees /\ ValidResult(result)
           /\ err.syncer = "none" => report.counts["failed"] = 0
        THEN result ELSE fixedFailureResult("internal", FALSE)

\* The result of the synchronization with the syncer category of its error.
\* The active decisions are counted after the engine, except when it was
\* cancelled; when that fails the error becomes one of the store.
JobOutcomes ==
    {[result |-> ResultFromSync(o[1], o[2]), category |-> o[2].syncer] :
        o \in EngineOutcomes}
    \cup {[result |-> ResultFromSync(o[1], Err("state")), category |-> "state"] :
            o \in {q \in EngineOutcomes : q[2].context # "canceled"}}

\* safeSynchronization of health, safeSyncResult of state, `safe` of the job.
safeSynchronization(result) ==
    \/ result.outcome = "success"
    \/ /\ result.outcome = "degraded"
       /\ result.failure \in {"feed_download", "feed_validation"}

-----------------------------------------------------------------------------
(* Events.                                                                 *)

codeOperation(code) ==
    CASE code \in {"service_starting", "service_started", "service_stopping",
                   "service_stopped", "runtime_fatal"} -> "service"
      [] code \in {"sync_started", "sync_completed"} -> "sync"
      [] code = "feed_result" -> "feed"
      [] code = "lapi_state_changed" -> "lapi"
      [] code \in {"scheduler_started", "scheduler_retry", "scheduler_recovered",
                   "scheduler_stopped"} -> "scheduler"
      [] code \in {"http_started", "http_stopped"} -> "http"
      [] code = "notification_result" -> "notification"
      [] code = "database_state_changed" -> "database"
      [] code = "prune_completed" -> "prune"
      [] OTHER -> ""

\* Faulty: an outage needs no failure category.
outcomeNeedsFailureShort(outcome) ==
    outcome \in {"degraded", "failed", "retrying", "stale", "cancelled"}

outcomeNeedsFailure(outcome) ==
    outcome \in {"degraded", "failed", "retrying", "unavailable", "stale", "cancelled"}

\* Event.Validate; emit drops an event that does not pass it.
ValidEvent(e) ==
    /\ e.operation = codeOperation(e.code)
    /\ e.severity \in {"info", "warning", "error"}
    /\ IF outcomeNeedsFailure(e.outcome)
       THEN /\ e.failure \in Failures
            /\ e.outcome = "cancelled" => e.failure = "cancelled"
       ELSE e.failure = ""

Event(code, operation, outcome, severity, failure) ==
    [code |-> code, operation |-> operation, outcome |-> outcome,
     severity |-> severity, failure |-> failure]

syncSeverity(result) ==
    CASE result.outcome = "success" -> "info"
      [] result.outcome \in {"degraded", "cancelled"} -> "warning"
      [] OTHER -> "error"

lapiUnavailable(result, category) ==
    \/ result.failure \in {"lapi", "lapi_auth"}
    \/ result.failure = "timeout" /\ category = "reconcile"

\* The event about the LAPI, if the result says anything about it.
LAPIEvent(result, category) ==
    IF safeSynchronization(result)
    THEN {Event("lapi_state_changed", "lapi", "available", "info", "")}
    ELSE IF lapiUnavailable(result, category)
    THEN {Event("lapi_state_changed", "lapi", "unavailable", "error", result.failure)}
    ELSE {}

CompletedEvent(result) ==
    Event("sync_completed", "sync", result.outcome, syncSeverity(result),
          result.failure)

\* The events of observeResult that others than the log act on.
Events(result, category) == LAPIEvent(result, category) \cup {CompletedEvent(result)}
=============================================================================

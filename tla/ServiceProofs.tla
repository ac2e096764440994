---------------------------- MODULE ServiceProofs ---------------------------
(***************************************************************************)
(* The service for any feeds, rows of sync_runs, ages and grace periods:   *)
(* what is closed when, what the tracker may believe, how long an outage   *)
(* may go on unnoticed, and that no result or event is dropped.            *)
(***************************************************************************)
EXTENDS Service, FiniteSetTheorems, TLAPS

-----------------------------------------------------------------------------
(* Results.                                                                *)

\* What a synchronization can end with.
Verdict == [outcome: {"success", "degraded", "failed", "cancelled"},
            failure: Failures \cup {""}, retryable: BOOLEAN]

\* A result that the vocabulary can express and that did not go wrong on the way.
Sound(result) ==
    result \in Verdict /\ ValidResult(result) /\ result.failure # "internal"

\* A result says that the Run is safe exactly when its error is none or one of
\* the feeds only.
Faithful(result, category) ==
    /\ Sound(result)
    /\ category \in {"none", "degraded", "state", "reconcile"}
    /\ safeSynchronization(result) <=> category \in {"none", "degraded"}

\* Each feed has one of the outcomes that are counted.
LEMMA FeedOutcome ==
    ASSUME NEW r \in FeedReport
    PROVE  LET i == operationalFeedResult(r) IN
           /\ i.outcome = "success" <=> r.status = "succeeded"
           /\ i.outcome = "failed" <=> r.status = "failed"
           /\ i.outcome = "not_modified" <=> r.status = "unchanged"
           /\ i.outcome = "not_due" <=> r.status = "not_due"
           /\ r.status = "failed" => i.failure \in {"feed_download", "feed_validation"}
           /\ r.class = "suspicious_change" => r.status = "failed"
<1>1. /\ r.status \in {"succeeded", "unchanged", "not_due", "failed"}
      /\ r.status = "failed" <=> r.class # ""
      /\ r.class \in {"request", "entry_count", "suspicious_change", ""}
  BY Zenon DEF FeedReport, FeedStatus, ErrorClass
<1>2. CASE r.status = "succeeded"
  BY <1>1, <1>2, Zenon DEF operationalFeedResult
<1>3. CASE r.status = "unchanged"
  BY <1>1, <1>3, Zenon DEF operationalFeedResult
<1>4. CASE r.status = "not_due"
  BY <1>1, <1>4, Zenon DEF operationalFeedResult
<1>5. CASE r.status = "failed"
  <2>1. feedFailure(r.class) \in {"feed_download", "feed_validation"}
    BY <1>1, <1>5, Zenon DEF feedFailure
  <2> DEFINE i == operationalFeedResult(r)
  <2>2. i = [outcome |-> "failed", failure |-> feedFailure(r.class)]
    BY <1>5, Zenon DEF operationalFeedResult
  <2>3. i.outcome = "failed" /\ i.failure = feedFailure(r.class)
    BY <2>2
  <2> HIDE DEF i
  <2>4. QED
    BY <1>1, <1>5, <2>1, <2>3, Zenon DEF i
<1> QED
  BY <1>1, <1>2, <1>3, <1>4, <1>5, Zenon

\* A failure has a category other than "internal"; that of a degraded Run is one
\* of the feeds.
LEMMA ClassOfFailure ==
    ASSUME NEW err, NEW items
    PROVE  LET class == classifyFailure(err, items) IN
           /\ class.failure \in Failures \ {"internal"} /\ class.retryable \in BOOLEAN
           /\ /\ err.syncer = "degraded" /\ err.context = ""
              /\ \E f \in DOMAIN items :
                    items[f].outcome = "failed"
                    /\ items[f].failure \in {"feed_download", "feed_validation"}
              => class.failure \in {"feed_download", "feed_validation"}
<1> DEFINE failures == {items[f].failure : f \in {g \in DOMAIN items :
                                                    items[g].outcome = "failed"}}
           is(failure, retryable) == [failure |-> failure, retryable |-> retryable]
           category == IF "feed_validation" \in failures THEN "feed_validation"
                       ELSE IF "feed_download" \in failures THEN "feed_download"
                       ELSE "runtime"
           class == classifyFailure(err, items)
<1>1. class =
        IF err.context = "canceled" THEN is("cancelled", FALSE)
        ELSE IF err.context = "deadline" THEN is("timeout", TRUE)
        ELSE IF err.syncer \in {"config", "selection"} THEN is("config", FALSE)
        ELSE IF err.syncer = "state" THEN is("database", TRUE)
        ELSE IF err.syncer = "degraded" THEN is(category, "feed_download" \in failures)
        ELSE IF err.lapi = "auth" THEN is("lapi_auth", FALSE)
        ELSE IF err.reconcile = "state" THEN is("database", TRUE)
        ELSE IF err.reconcile = "ownership" THEN is("ownership", FALSE)
        ELSE IF err.reconcile = "lapi" \/ err.lapi # "" THEN is("lapi", TRUE)
        ELSE is("runtime", err.reconcile = "busy")
  BY Zenon DEF classifyFailure
<1>2. category \in {"feed_validation", "feed_download", "runtime"}
  BY Zenon
<1>3. (\E f \in DOMAIN items : items[f].outcome = "failed"
            /\ items[f].failure \in {"feed_download", "feed_validation"})
        => category \in {"feed_download", "feed_validation"}
  BY Zenon
<1>4. ("feed_download" \in failures) \in BOOLEAN /\ (err.reconcile = "busy") \in BOOLEAN
      /\ TRUE \in BOOLEAN /\ FALSE \in BOOLEAN
  OBVIOUS
<1> HIDE DEF failures, category
<1>5. \A c, b : is(c, b).failure = c /\ is(c, b).retryable = b
  BY Zenon
<1>6. \E c \in {"cancelled", "timeout", "config", "database", "lapi_auth", "ownership",
                "lapi", "runtime", category}, b \in BOOLEAN : class = is(c, b)
  BY <1>1, <1>4, Zenon
<1> HIDE DEF is
<1>7. err.syncer = "degraded" /\ err.context = ""
        => class = is(category, "feed_download" \in failures)
  <2>1. SUFFICES ASSUME err.syncer = "degraded", err.context = ""
                 PROVE  class = is(category, "feed_download" \in failures)
    BY Zenon
  <2>2. /\ err.context # "canceled" /\ err.context # "deadline"
        /\ err.syncer \notin {"config", "selection"} /\ err.syncer # "state"
    BY <2>1, Zenon
  <2>3. QED
    BY <1>1, <2>1, <2>2, Zenon
<1> HIDE DEF class
<1>8. class.failure \in Failures \ {"internal"} /\ class.retryable \in BOOLEAN
  BY <1>2, <1>5, <1>6 DEF Failures
<1>9. err.syncer = "degraded" /\ err.context = "" => class.failure = category
  BY <1>5, <1>7, Zenon
<1> QED
  BY <1>3, <1>8, <1>9, Zenon DEF class

\* The counters of the engine agree with the feeds the conversion counts again.
LEMMA CountersAgree ==
    ASSUME NEW S, NEW f \in [S -> FeedReport]
    PROVE  LET items == [g \in S |-> operationalFeedResult(f[g])]
               report == Reported(f)
           IN  /\ Cardinality({g \in S : items[g].outcome = "success"})
                    = report.counts["succeeded"]
               /\ Cardinality({g \in S : items[g].outcome = "failed"})
                    = report.counts["failed"]
               /\ Cardinality({g \in S : items[g].outcome = "not_modified"})
                    = report.counts["unchanged"]
               /\ Cardinality({g \in S : items[g].outcome = "not_due"})
                    = report.counts["not_due"]
               /\ Cardinality({g \in S : /\ items[g].outcome = "failed"
                                         /\ f[g].class = "suspicious_change"})
                    = report.suspicious
<1> DEFINE items == [g \in S |-> operationalFeedResult(f[g])]
           report == Reported(f)
<1>1. \A g \in S : f[g] \in FeedReport /\ items[g] = operationalFeedResult(f[g])
  BY Zenon
<1>2. DOMAIN f = S
  BY Zenon
<1>3. \A s \in FeedStatus : report.counts[s] = Cardinality({g \in S : f[g].status = s})
  BY <1>2, Zenon DEF Reported, Having
<1>4. report.suspicious = Cardinality({g \in S : f[g].class = "suspicious_change"})
  BY <1>2, Zenon DEF Reported
<1> HIDE DEF items, report
<1>5. /\ {g \in S : items[g].outcome = "success"} = {g \in S : f[g].status = "succeeded"}
      /\ {g \in S : items[g].outcome = "failed"} = {g \in S : f[g].status = "failed"}
      /\ {g \in S : items[g].outcome = "not_modified"}
            = {g \in S : f[g].status = "unchanged"}
      /\ {g \in S : items[g].outcome = "not_due"} = {g \in S : f[g].status = "not_due"}
      /\ {g \in S : /\ items[g].outcome = "failed"
                    /\ f[g].class = "suspicious_change"}
            = {g \in S : f[g].class = "suspicious_change"}
  BY <1>1, FeedOutcome, Zenon
<1>6. {"succeeded", "failed", "unchanged", "not_due"} \subseteq FeedStatus
  BY Zenon DEF FeedStatus
<1>7. /\ Cardinality({g \in S : items[g].outcome = "success"}) = report.counts["succeeded"]
      /\ Cardinality({g \in S : items[g].outcome = "failed"}) = report.counts["failed"]
      /\ Cardinality({g \in S : items[g].outcome = "not_modified"})
            = report.counts["unchanged"]
      /\ Cardinality({g \in S : items[g].outcome = "not_due"}) = report.counts["not_due"]
      /\ Cardinality({g \in S : /\ items[g].outcome = "failed"
                                /\ f[g].class = "suspicious_change"})
            = report.suspicious
  <2>1. /\ report.counts["succeeded"] = Cardinality({g \in S : f[g].status = "succeeded"})
        /\ report.counts["failed"] = Cardinality({g \in S : f[g].status = "failed"})
        /\ report.counts["unchanged"] = Cardinality({g \in S : f[g].status = "unchanged"})
        /\ report.counts["not_due"] = Cardinality({g \in S : f[g].status = "not_due"})
    BY <1>3, <1>6, Zenon
  <2>2. QED
    BY <2>1, <1>4, <1>5, Zenon
<1> QED
  BY <1>7, Zenon DEF items, report

\* ResultFromSync for what the engine can return: an error it knows, and none or
\* a degraded Run by whether a feed failed.
LEMMA Converted ==
    ASSUME NEW S, NEW f \in [S -> FeedReport], NEW err,
           \/ err.syncer = "none" /\ Having(f, "failed") = {}
           \/ err.syncer = "degraded" /\ err.context = "" /\ Having(f, "failed") # {}
           \/ err.syncer \in {"state", "reconcile"}
    PROVE  Faithful(ResultFromSync(Reported(f), err), err.syncer)
<1> DEFINE items == [g \in S |-> operationalFeedResult(f[g])]
           report == Reported(f)
           agrees == /\ Cardinality({g \in S : items[g].outcome = "success"})
                          = report.counts["succeeded"]
                     /\ Cardinality({g \in S : items[g].outcome = "failed"})
                          = report.counts["failed"]
                     /\ Cardinality({g \in S : items[g].outcome = "not_modified"})
                          = report.counts["unchanged"]
                     /\ Cardinality({g \in S : items[g].outcome = "not_due"})
                          = report.counts["not_due"]
                     /\ Cardinality({g \in S : /\ items[g].outcome = "failed"
                                               /\ f[g].class = "suspicious_change"})
                          = report.suspicious
           class == classifyFailure(err, items)
           success == [outcome |-> "success", failure |-> "", retryable |-> FALSE]
           failed == [outcome |-> IF err.syncer = "degraded" THEN "degraded" ELSE "failed",
                      failure |-> class.failure, retryable |-> class.retryable]
           result == IF err.syncer = "none" THEN success
                     ELSE IF err.context = "canceled" THEN Cancelled ELSE failed
<1>1. agrees
  BY CountersAgree, Zenon
<1>2. report.feeds = f /\ DOMAIN f = S
  BY Zenon DEF Reported
<1>3. err.syncer = "none" => report.counts["failed"] = 0
  <2>1. report.counts["failed"] = Cardinality(Having(f, "failed"))
    BY Zenon DEF Reported, FeedStatus
  <2>2. err.syncer = "none" => Having(f, "failed") = {}
    BY Zenon
  <2>3. QED
    BY <2>1, <2>2, FS_EmptySet, Zenon
<1>4. ResultFromSync(report, err) =
        IF /\ agrees /\ ValidResult(result)
           /\ err.syncer = "none" => report.counts["failed"] = 0
        THEN result ELSE fixedFailureResult("internal", FALSE)
  BY <1>2, ZenonT(60) DEF ResultFromSync
<1>5. DOMAIN items = S /\ \A g \in S : items[g] = operationalFeedResult(f[g])
  BY Zenon
<1>6. /\ class.failure \in Failures \ {"internal"} /\ class.retryable \in BOOLEAN
      /\ err.syncer = "degraded" => class.failure \in {"feed_download", "feed_validation"}
  <2>1. err.syncer = "degraded" =>
            /\ err.context = ""
            /\ \E g \in S : f[g].status = "failed"
    BY <1>2, Zenon DEF Having
  <2>2. \A g \in S : f[g].status = "failed" =>
            /\ items[g].outcome = "failed"
            /\ items[g].failure \in {"feed_download", "feed_validation"}
    BY <1>5, FeedOutcome, Zenon
  <2> HIDE DEF items
  <2>3. QED
    BY <2>1, <2>2, <1>5, ClassOfFailure, Zenon
<1> HIDE DEF class
<1>7. /\ success \in Verdict /\ success.outcome = "success"
      /\ success.failure = "" /\ success.retryable = FALSE
  <2>1. FALSE \in BOOLEAN
    BY Zenon
  <2>2. QED
    BY <2>1, Zenon DEF Verdict
<1>8. /\ Cancelled \in Verdict /\ Cancelled.outcome = "cancelled"
      /\ Cancelled.failure = "cancelled" /\ Cancelled.retryable = FALSE
  <2>1. FALSE \in BOOLEAN /\ "cancelled" \in Failures
    BY Zenon DEF Failures
  <2>2. QED
    BY <2>1, Zenon DEF Verdict, Cancelled
<1>9. /\ failed \in Verdict
      /\ failed.outcome = (IF err.syncer = "degraded" THEN "degraded" ELSE "failed")
      /\ failed.failure = class.failure
  BY <1>6, Zenon DEF Verdict
<1> HIDE DEF success, failed
<1>10. Faithful(result, err.syncer)
  <2>1. CASE err.syncer = "none"
    <3>1. result = success
      BY <2>1, Zenon
    <3> HIDE DEF result
    <3>2. Sound(result)
      BY <1>7, <3>1, Zenon DEF Sound, ValidResult
    <3>3. QED
      BY <1>7, <2>1, <3>1, <3>2, Zenon DEF Faithful, safeSynchronization
  <2>2. CASE err.syncer # "none" /\ err.context = "canceled"
    <3>1. result = Cancelled
      BY <2>2, Zenon
    <3> HIDE DEF result
    <3>2. Sound(result)
      BY <1>8, <3>1, Zenon DEF Sound, ValidResult
    <3>3. QED
      BY <1>8, <2>2, <3>1, <3>2, Zenon DEF Faithful, safeSynchronization
  <2>3. CASE err.syncer # "none" /\ err.context # "canceled"
    <3>1. result = failed
      BY <2>3, Zenon
    <3> HIDE DEF result
    <3>2. Sound(result)
      BY <1>6, <1>9, <3>1, Zenon DEF Sound, ValidResult
    <3>3. QED
      BY <1>6, <1>9, <2>3, <3>1, <3>2, Zenon DEF Faithful, safeSynchronization
  <2>4. QED
    BY <2>1, <2>2, <2>3, Zenon
<1>11. ResultFromSync(report, err) = result
  <2>1. ValidResult(result)
    BY <1>10, Zenon DEF Faithful, Sound
  <2> HIDE DEF agrees, result, report
  <2>2. QED
    BY <1>1, <1>3, <1>4, <2>1, Zenon
<1> HIDE DEF result
<1>12. QED
  BY <1>10, <1>11, Zenon

\* Every result of a Run is sound and says whether its reconciliation finished.
LEMMA OutcomesFaithful ==
    ASSUME NEW o \in JobOutcomes
    PROVE  Faithful(o.result, o.category)
<1>1. ASSUME NEW q \in EngineOutcomes
      PROVE  \E S : \E f \in [S -> FeedReport] :
                /\ q[1] = Reported(f)
                /\ \/ q[2].syncer = "none" /\ Having(f, "failed") = {}
                   \/ /\ q[2].syncer = "degraded" /\ q[2].context = ""
                      /\ Having(f, "failed") # {}
                   \/ q[2].syncer \in {"state", "reconcile"}
  <2> DEFINE reconcile == {ReconcileErr(c) : c \in {"state", "ownership", "contract",
                                                    "token"}}
                 \cup {LapiErr("auth"), LapiErr("request"),
                       [LapiErr("request") EXCEPT !.context = "deadline"],
                       [LapiErr("request") EXCEPT !.context = "canceled"],
                       [ReconcileErr("state") EXCEPT !.context = "canceled"]}
             state == {Err("state"), [Err("state") EXCEPT !.context = "canceled"]}
             verdict(f) == Err(IF Having(f, "failed") = {} THEN "none" ELSE "degraded")
  <2>1. \/ \E f \in [Feed -> FeedReport] : q = <<Reported(f), verdict(f)>>
        \/ \E f \in [Feed -> FeedReport], e \in reconcile : q = <<Reported(f), e>>
        \/ \E S \in SUBSET Feed : \E f \in [S -> FeedReport], e \in state :
                q = <<Reported(f), e>>
    <3>1. q \in {<<Reported(f), verdict(f)>> : f \in [Feed -> FeedReport]}
              \cup {<<Reported(f), e>> : f \in [Feed -> FeedReport], e \in reconcile}
              \cup {<<Reported(f), e>> :
                        f \in UNION {[s -> FeedReport] : s \in SUBSET Feed}, e \in state}
      BY <1>1 DEF EngineOutcomes
    <3> HIDE DEF reconcile, state, verdict
    <3>2. QED
      BY <3>1
  <2>2. \A e \in reconcile : e.syncer = "reconcile"
    BY Zenon DEF ReconcileErr, LapiErr, Err
  <2>3. \A e \in state : e.syncer = "state"
    <3>1. /\ Err("state").syncer = "state"
          /\ [Err("state") EXCEPT !.context = "canceled"].syncer = "state"
      BY Zenon DEF Err
    <3>2. QED
      BY <3>1, Zenon
  <2>4. \A f : /\ verdict(f).context = ""
               /\ Having(f, "failed") = {} => verdict(f).syncer = "none"
               /\ Having(f, "failed") # {} => verdict(f).syncer = "degraded"
    BY Zenon DEF Err
  <2> HIDE DEF reconcile, state, verdict
  <2>5. CASE \E f \in [Feed -> FeedReport] : q = <<Reported(f), verdict(f)>>
    <3>1. PICK f \in [Feed -> FeedReport] : q = <<Reported(f), verdict(f)>>
      BY <2>5, Zenon
    <3>2. q[1] = Reported(f) /\ q[2] = verdict(f)
      BY <3>1, Zenon
    <3>3. QED
      BY <3>2, <2>4, Zenon
  <2>6. CASE \E S : \E f \in [S -> FeedReport], e \in reconcile \cup state :
                q = <<Reported(f), e>>
    <3>1. PICK S : \E f \in [S -> FeedReport], e \in reconcile \cup state :
                        q = <<Reported(f), e>>
      BY <2>6, Zenon
    <3>2. PICK f \in [S -> FeedReport], e \in reconcile \cup state :
                q = <<Reported(f), e>>
      BY <3>1, Zenon
    <3>3. q[1] = Reported(f) /\ q[2] = e
      BY <3>2, Zenon
    <3>4. q[2].syncer \in {"state", "reconcile"}
      BY <2>2, <2>3, <3>3, Zenon
    <3>5. QED
      BY <3>3, <3>4, Zenon
  <2>7. QED
    BY <2>1, <2>5, <2>6, Zenon
<1>2. ASSUME NEW q \in EngineOutcomes
      PROVE  Faithful(ResultFromSync(q[1], q[2]), q[2].syncer)
  <2>1. PICK S : \E f \in [S -> FeedReport] :
                /\ q[1] = Reported(f)
                /\ \/ q[2].syncer = "none" /\ Having(f, "failed") = {}
                   \/ /\ q[2].syncer = "degraded" /\ q[2].context = ""
                      /\ Having(f, "failed") # {}
                   \/ q[2].syncer \in {"state", "reconcile"}
    BY <1>1, <1>2, Zenon
  <2>2. QED
    BY <2>1, Converted, Zenon
<1>3. ASSUME NEW q \in EngineOutcomes
      PROVE  Faithful(ResultFromSync(q[1], Err("state")), "state")
  <2>1. PICK S : \E f \in [S -> FeedReport] : q[1] = Reported(f)
    BY <1>1, <1>3, Zenon
  <2>2. Err("state").syncer = "state"
    BY Zenon DEF Err
  <2>3. QED
    BY <2>1, <2>2, Converted, Zenon
<1>4. \/ \E q \in EngineOutcomes :
            o = [result |-> ResultFromSync(q[1], q[2]), category |-> q[2].syncer]
      \/ \E q \in EngineOutcomes :
            o = [result |-> ResultFromSync(q[1], Err("state")), category |-> "state"]
  BY Zenon DEF JobOutcomes
<1> QED
  BY <1>2, <1>3, <1>4

\* Event.Validate passes what is derived from a valid result.
LEMMA EventsValid ==
    ASSUME NEW result \in Verdict, ValidResult(result), NEW category
    PROVE  \A e \in Events(result, category) : ValidEvent(e)
<1>1. /\ result.outcome \in {"success", "degraded", "failed", "cancelled"}
      /\ result.outcome = "success" => result.failure = ""
      /\ result.outcome # "success" => result.failure \in Failures
      /\ result.outcome = "cancelled" => result.failure = "cancelled"
  BY Zenon DEF Verdict, ValidResult, Failures
<1>2. ValidEvent(Event("lapi_state_changed", "lapi", "available", "info", ""))
  BY Zenon DEF ValidEvent, Event, codeOperation, outcomeNeedsFailure
<1>3. lapiUnavailable(result, category) =>
        ValidEvent(Event("lapi_state_changed", "lapi", "unavailable", "error",
                         result.failure))
  <2>1. lapiUnavailable(result, category) => result.failure \in Failures
    BY Zenon DEF lapiUnavailable, Failures
  <2>2. QED
    BY <2>1, Zenon DEF ValidEvent, Event, codeOperation, outcomeNeedsFailure
<1>4. ValidEvent(CompletedEvent(result))
  <2>1. syncSeverity(result) \in {"info", "warning", "error"}
    BY <1>1, Zenon DEF syncSeverity
  <2>2. QED
    BY <1>1, <2>1, Zenon
       DEF ValidEvent, CompletedEvent, Event, codeOperation, outcomeNeedsFailure
<1> QED
  BY <1>2, <1>3, <1>4, Zenon DEF Events, LAPIEvent

-----------------------------------------------------------------------------
(* The inductive invariant.                                                *)

JobType == [row: Row \cup {None}, result: Verdict \cup {NoResult},
            category: {"none", "degraded", "state", "reconcile", "foreign"}, age: Ages]

TrackerType == [database: BOOLEAN, lapi: {"pending", "available", "unavailable"},
                everReady: BOOLEAN, outage: Ages, last: Ages,
                runtime: {"running", "stopping", "fatal"}]

Types ==
    /\ runs \in [Row -> {"none", "running", "completed", "recovered"}]
    /\ lastSafe \in Ages /\ outage \in Ages \cup {NoOutage}
    /\ job \in JobType /\ tracker \in TrackerType
    /\ command \in [row: Row \cup {None}, safe: BOOLEAN, age: Ages]

\* Where main is when the workers run, and what is open there.  A handler that
\* runs after Shutdown has left its trace in the error of Run.
Order ==
    /\ main \in {"build", "boot", "start", "run", "join", "shutdown", "drain",
                 "joinhttp", "close", "exit"}
    /\ main \in {"build", "boot", "start"} => scheduler = "off" /\ http = "off"
    /\ main \in {"build", "boot", "start", "run", "join"} => ~handling
    /\ main \in {"boot", "start", "run", "join"} => storeOpen /\ notifyOpen
    /\ main \in {"shutdown", "drain", "joinhttp", "close"} =>
            storeOpen /\ scheduler \in Ended
    /\ main \in {"joinhttp", "close"} /\ handling => runtimeErr
    /\ main = "close" => http # "serving"
    /\ main = "exit" => /\ scheduler \in {"off"} \cup Ended /\ http # "serving"
                        /\ handling => runtimeErr

\* The service and the command hold rows of their own, and only the holder
\* completes a row.
Claims ==
    /\ scheduler \in {"begun", "ran"} => job.row \in Row
    /\ scheduler \notin {"begun", "ran", "observe"} => job.row = None
    /\ job.row # None => /\ runs[job.row] # "none" /\ job.row # command.row
                         /\ runs[job.row] = "completed" => scheduler = "observe"
    /\ cli \in {"begun", "ran"} => command.row \in Row
    /\ command.row # None => runs[command.row] \in {"running", "recovered"}

\* What the result of a Run says before and after its row was completed.
Judged ==
    /\ scheduler = "ran" => Faithful(job.result, job.category)
    /\ scheduler = "observe" =>
        /\ Sound(job.result)
        /\ safeSynchronization(job.result) <=>
                /\ job.category \in {"none", "degraded"}
                /\ job.row # None /\ runs[job.row] = "completed"
        /\ safeSynchronization(job.result) => lastSafe <= job.age

\* The tracker's outage is at least as old as the one the Runs reported.
Outages ==
    /\ tracker.lapi # "unavailable" => outage = NoOutage
    /\ tracker.lapi = "unavailable" => outage <= tracker.outage

ServiceInv == Types /\ Order /\ Claims /\ Judged /\ Outages /\ TrackerBacked

-----------------------------------------------------------------------------
(* The tracker.                                                            *)

\* Ages of the model.
LEMMA AgeFacts ==
    /\ Stale \in Nat /\ 0 \in Ages /\ Stale \in Ages
    /\ \A a \in Ages : a \in Int /\ a >= 0 /\ a <= Stale
    /\ \A a \in Ages : Older(a) \in Ages
    /\ \A a, b \in Ages : a <= b => Older(a) <= Older(b)
    /\ NoOutage = -1 /\ NoOutage \notin Ages
    /\ NoOutage \in Int /\ \A a \in Ages : NoOutage <= a
  BY ServiceAssumption DEF Stale, Ages, Older, NoOutage

\* The marks of the runtime leave what is known of the LAPI and the last Run.
LEMMA RuntimeMarks ==
    ASSUME NEW t \in TrackerType
    PROVE  \A u \in {t, MarkRuntimeFatal(t), MarkStopping(t),
                     MarkStopping(MarkRuntimeFatal(t))} :
                /\ u \in TrackerType
                /\ u.lapi = t.lapi /\ u.outage = t.outage /\ u.last = t.last
<1>1. ASSUME NEW s \in TrackerType
      PROVE  /\ MarkRuntimeFatal(s) \in TrackerType /\ MarkStopping(s) \in TrackerType
             /\ MarkRuntimeFatal(s).lapi = s.lapi /\ MarkStopping(s).lapi = s.lapi
             /\ MarkRuntimeFatal(s).outage = s.outage /\ MarkStopping(s).outage = s.outage
             /\ MarkRuntimeFatal(s).last = s.last /\ MarkStopping(s).last = s.last
  BY <1>1, Zenon DEF MarkRuntimeFatal, MarkStopping, TrackerType
<1> QED
  BY <1>1

\* What the tracker is told of the LAPI.
LEMMA LAPIMarks ==
    ASSUME NEW t \in TrackerType
    PROVE  /\ LET u == MarkLAPI(t, TRUE) IN
                /\ u \in TrackerType /\ u.lapi = "available" /\ u.last = t.last
           /\ LET u == MarkLAPI(t, FALSE) IN
                /\ u \in TrackerType /\ u.lapi = "unavailable" /\ u.last = t.last
                /\ t.lapi # "unavailable" => u.outage = 0
                /\ t.lapi = "unavailable" => u.outage = t.outage
<1>1. 0 \in Ages /\ Stale \in Ages /\ TRUE \in BOOLEAN
  BY AgeFacts, Zenon
<1> DEFINE up == [t EXCEPT !.lapi = "available", !.everReady = TRUE, !.outage = Stale]
           down == [t EXCEPT !.lapi = "unavailable",
                             !.outage = IF t.lapi # "unavailable" THEN 0 ELSE @]
<1>2. up \in TrackerType /\ up.lapi = "available" /\ up.last = t.last
  BY <1>1, Zenon DEF TrackerType
<1>3. /\ down \in TrackerType /\ down.lapi = "unavailable" /\ down.last = t.last
      /\ t.lapi # "unavailable" => down.outage = 0
      /\ t.lapi = "unavailable" => down.outage = t.outage
  <2>1. (IF t.lapi # "unavailable" THEN 0 ELSE t.outage) \in Ages
    BY <1>1, Zenon DEF TrackerType
  <2>2. QED
    BY <2>1, Zenon DEF TrackerType
<1>4. MarkLAPI(t, TRUE) = up /\ MarkLAPI(t, FALSE) = down
  BY Zenon DEF MarkLAPI
<1> HIDE DEF up, down
<1> QED
  BY <1>2, <1>3, <1>4, Zenon

\* RecordSync takes the age of a safe Run when it is more recent.
LEMMA RecordSyncMarks ==
    ASSUME NEW t \in TrackerType, NEW result, NEW age \in Ages
    PROVE  LET u == RecordSync(t, result, age) IN
           /\ u \in TrackerType /\ u.lapi = t.lapi /\ u.outage = t.outage
           /\ safeSynchronization(result) => u.last <= age /\ u.last \in {t.last, age}
           /\ ~safeSynchronization(result) => u.last = t.last
<1>1. t.last \in Int /\ age \in Int
  BY AgeFacts, Zenon DEF TrackerType
<1>2. CASE safeSynchronization(result) /\ age < t.last
  <2>1. RecordSync(t, result, age) = [t EXCEPT !.last = age]
    BY <1>2, Zenon DEF RecordSync
  <2>2. QED
    BY <1>1, <1>2, <2>1 DEF TrackerType
<1>3. CASE ~(safeSynchronization(result) /\ age < t.last)
  BY <1>1, <1>3 DEF RecordSync
<1> QED
  BY <1>2, <1>3, Zenon

\* observeResult: the tracker learns of the LAPI and of the Run what the result
\* says, and nothing else.
LEMMA ObservedMarks ==
    ASSUME NEW t \in TrackerType, NEW result, Sound(result), NEW category,
           NEW age \in Ages
    PROVE  LET u == Observed(t, result, category, age) IN
           /\ u \in TrackerType
           /\ safeSynchronization(result) =>
                u.lapi = "available" /\ u.last <= age /\ u.last \in {t.last, age}
           /\ ~safeSynchronization(result) => u.last = t.last
           /\ ~safeSynchronization(result) /\ lapiUnavailable(result, category) =>
                /\ u.lapi = "unavailable"
                /\ t.lapi # "unavailable" => u.outage = 0
                /\ t.lapi = "unavailable" => u.outage = t.outage
           /\ ~safeSynchronization(result) /\ ~lapiUnavailable(result, category) =>
                u.lapi = t.lapi /\ u.outage = t.outage
<1> DEFINE Safe == safeSynchronization(result)
           Down == lapiUnavailable(result, category)
           available == Event("lapi_state_changed", "lapi", "available", "info", "")
           unavailable == Event("lapi_state_changed", "lapi", "unavailable", "error",
                                result.failure)
           completed == CompletedEvent(result)
           recorded == RecordSync(t, result, age)
           told == IF LAPIEvent(result, category) = {} THEN recorded
                   ELSE ApplyEvent(recorded,
                                   CHOOSE e \in LAPIEvent(result, category) : TRUE, age)
<1>1. \A e \in Events(result, category) : ValidEvent(e)
  BY EventsValid, Zenon DEF Sound
<1>2. /\ available.code = "lapi_state_changed" /\ available.outcome = "available"
      /\ unavailable.code = "lapi_state_changed" /\ unavailable.outcome = "unavailable"
      /\ completed.code = "sync_completed" /\ completed.outcome = result.outcome
      /\ completed.failure = result.failure
  BY Zenon DEF Event, CompletedEvent
<1>3. safeSynchronization(completed) <=> Safe
  BY <1>2, Zenon DEF safeSynchronization
<1>4. /\ Safe => LAPIEvent(result, category) = {available} /\ ValidEvent(available)
      /\ ~Safe /\ Down =>
            LAPIEvent(result, category) = {unavailable} /\ ValidEvent(unavailable)
      /\ ~Safe /\ ~Down => LAPIEvent(result, category) = {}
      /\ ValidEvent(completed)
  BY <1>1, Zenon DEF LAPIEvent, Events
<1>5. Observed(t, result, category, age) = ApplyEvent(told, completed, age)
  BY Zenon DEF Observed
<1>6. /\ recorded \in TrackerType /\ recorded.lapi = t.lapi /\ recorded.outage = t.outage
      /\ Safe => recorded.last <= age /\ recorded.last \in {t.last, age}
      /\ ~Safe => recorded.last = t.last
  BY RecordSyncMarks, Zenon
<1> HIDE DEF available, unavailable, completed, recorded
<1>7. /\ Safe => told = MarkLAPI(recorded, TRUE)
      /\ ~Safe /\ Down => told = MarkLAPI(recorded, FALSE)
      /\ ~Safe /\ ~Down => told = recorded
  <2>1. CASE Safe
    <3>1. (CHOOSE e \in LAPIEvent(result, category) : TRUE) = available
      BY <1>4, <2>1, Zenon
    <3>2. told = ApplyEvent(recorded, available, age)
      BY <1>4, <2>1, <3>1, Zenon
    <3>3. ApplyEvent(recorded, available, age)
            = MarkLAPI(recorded, available.outcome = "available")
      BY <1>2, <1>4, <2>1, Zenon DEF ApplyEvent
    <3>4. (available.outcome = "available") = TRUE
      BY <1>2, Zenon
    <3>5. QED
      BY <2>1, <3>2, <3>3, <3>4, Zenon
  <2>2. CASE ~Safe /\ Down
    <3>1. (CHOOSE e \in LAPIEvent(result, category) : TRUE) = unavailable
      BY <1>4, <2>2, Zenon
    <3>2. told = ApplyEvent(recorded, unavailable, age)
      BY <1>4, <2>2, <3>1, Zenon
    <3>3. ApplyEvent(recorded, unavailable, age)
            = MarkLAPI(recorded, unavailable.outcome = "available")
      BY <1>2, <1>4, <2>2, Zenon DEF ApplyEvent
    <3>4. (unavailable.outcome = "available") = FALSE
      BY <1>2, Zenon
    <3>5. QED
      BY <2>2, <3>2, <3>3, <3>4, Zenon
  <2>3. CASE ~Safe /\ ~Down
    BY <1>4, <2>3, Zenon
  <2>4. QED
    BY <2>1, <2>2, <2>3, Zenon
<1> HIDE DEF told
<1>8. /\ told \in TrackerType /\ told.last = recorded.last
      /\ Safe => told.lapi = "available"
      /\ ~Safe /\ Down =>
            /\ told.lapi = "unavailable"
            /\ t.lapi # "unavailable" => told.outage = 0
            /\ t.lapi = "unavailable" => told.outage = t.outage
      /\ ~Safe /\ ~Down => told.lapi = t.lapi /\ told.outage = t.outage
  <2> DEFINE on == MarkLAPI(recorded, TRUE)
             off == MarkLAPI(recorded, FALSE)
  <2>1. on \in TrackerType /\ on.lapi = "available" /\ on.last = recorded.last
    BY <1>6, LAPIMarks, Zenon
  <2>2. /\ off \in TrackerType /\ off.lapi = "unavailable" /\ off.last = recorded.last
        /\ recorded.lapi # "unavailable" => off.outage = 0
        /\ recorded.lapi = "unavailable" => off.outage = recorded.outage
    BY <1>6, LAPIMarks, Zenon
  <2>3. /\ Safe => told = on
        /\ ~Safe /\ Down => told = off
        /\ ~Safe /\ ~Down => told = recorded
    BY <1>7, Zenon
  <2> HIDE DEF on, off, Safe, Down
  <2>4. QED
    BY <1>6, <2>1, <2>2, <2>3, Zenon
<1> DEFINE u == RecordSync(told, completed, age)
<1>9. Observed(t, result, category, age) = u
  BY <1>2, <1>4, <1>5, Zenon DEF ApplyEvent
<1>10. /\ u \in TrackerType /\ u.lapi = told.lapi /\ u.outage = told.outage
       /\ Safe => u.last <= age /\ u.last \in {told.last, age}
       /\ ~Safe => u.last = told.last
  BY <1>3, <1>8, RecordSyncMarks, Zenon
<1> HIDE DEF u, Safe, Down
<1>11. Safe => u.last <= age /\ u.last \in {t.last, age}
  BY <1>6, <1>8, <1>10, Zenon
<1>12. QED
  BY <1>6, <1>8, <1>9, <1>10, <1>11, Zenon DEF Safe, Down

\* Of these, what the last safe Run (last_successful_sync_at) rests on.
LEMMA ObservedSync ==
    ASSUME NEW t \in TrackerType, NEW result, Sound(result), NEW category,
           NEW age \in Ages
    PROVE  /\ safeSynchronization(result) =>
                /\ Observed(t, result, category, age).lapi = "available"
                /\ Observed(t, result, category, age).last <= age
           /\ ~safeSynchronization(result) =>
                Observed(t, result, category, age).last = t.last
  BY ObservedMarks

-----------------------------------------------------------------------------
(* Every step keeps the invariant.                                         *)

\* Records of the initial state and of a new process.
LEMMA NewRecords ==
    /\ NoJob \in JobType /\ NoJob.row = None /\ NoJob.result = NoResult /\ NoJob.age = 0
    /\ NoCommand \in [row: Row \cup {None}, safe: BOOLEAN, age: Ages]
    /\ NoCommand.row = None
    /\ NewTracker \in TrackerType /\ NewTracker.lapi = "pending" /\ NewTracker.last = Stale
<1>1. 0 \in Ages /\ Stale \in Ages /\ FALSE \in BOOLEAN
  BY AgeFacts, Zenon
<1>2. NoJob \in JobType /\ NoJob.row = None /\ NoJob.result = NoResult /\ NoJob.age = 0
  BY <1>1, Zenon DEF NoJob, JobType
<1>3. /\ NoCommand \in [row: Row \cup {None}, safe: BOOLEAN, age: Ages]
      /\ NoCommand.row = None
  BY <1>1, Zenon DEF NoCommand
<1>4. NewTracker \in TrackerType /\ NewTracker.lapi = "pending" /\ NewTracker.last = Stale
  BY <1>1, Zenon DEF NewTracker, TrackerType
<1> QED
  BY <1>2, <1>3, <1>4, Zenon

\* A new process on an empty database.
LEMMA ServiceInitInv == ASSUME ServiceInit PROVE ServiceInv
<1>1. /\ runs = [r \in Row |-> "none"] /\ lastSafe = Stale /\ main = "build"
      /\ scheduler = "off" /\ http = "off" /\ handling = FALSE /\ cli = "off"
      /\ job = NoJob /\ command = NoCommand
      /\ tracker = NewTracker /\ outage = NoOutage
  BY Zenon DEF ServiceInit
<1>2. Types
  BY <1>1, NewRecords, AgeFacts, Zenon DEF Types
<1>3. Order
  BY <1>1, Zenon DEF Order, Ended
<1>4. Claims /\ Judged
  BY <1>1, NewRecords, Zenon DEF Claims, Judged
<1>5. Outages
  BY <1>1, NewRecords, Zenon DEF Outages
<1>6. TrackerBacked
  BY <1>1, NewRecords, AgeFacts, Zenon DEF TrackerBacked
<1> QED
  BY <1>2, <1>3, <1>4, <1>5, <1>6, Zenon DEF ServiceInv

\* Steps of main that touch neither rows nor jobs, and of the tracker only
\* what it knows of the process.
LEMMA ProcessInv ==
    ASSUME ServiceInv, Order', tracker' \in TrackerType,
           tracker'.lapi = tracker.lapi, tracker'.outage = tracker.outage,
           tracker'.last = tracker.last,
           scheduler' = scheduler \/ (scheduler \in Ended /\ scheduler' = "done"),
           UNCHANGED <<runs, lastSafe, job, cli, command, outage>>
    PROVE  ServiceInv'
<1>1. Types'
  BY Zenon DEF ServiceInv, Types
<1>2. Claims' /\ Judged'
  BY Zenon DEF ServiceInv, Claims, Judged, Ended
<1>3. Outages' /\ TrackerBacked'
  BY Zenon DEF ServiceInv, Outages, TrackerBacked
<1> QED
  BY <1>1, <1>2, <1>3, Zenon DEF ServiceInv

\* The steps of main and of the HTTP server that do not touch the database.
LEMMA MainInv ==
    ASSUME ServiceInv,
           \/ Build \/ BuildFails \/ FailStartup \/ Signal \/ Stop
           \/ JoinScheduler \/ StopListening \/ Drained \/ ShutdownTimesOut
           \/ JoinHttp \/ CloseResources
           \/ HttpFails \/ HttpStops \/ RequestArrives \/ RequestAnswered
    PROVE  ServiceInv'
<1>1. tracker \in TrackerType /\ Order
  BY Zenon DEF ServiceInv, Types
<1>2. CASE Build
  <2>1. Order'
    BY <1>1, <1>2, Zenon DEF Order, Build, resources, Ended
  <2>2. QED
    BY <1>1, <1>2, <2>1, ProcessInv, Zenon DEF Build, database
<1>3. CASE BuildFails
  <2>1. Order'
    BY <1>1, <1>3, Zenon DEF Order, BuildFails, resources, Ended
  <2>2. QED
    BY <1>1, <1>3, <2>1, ProcessInv, Zenon DEF BuildFails, database
<1>4. CASE Signal
  <2>1. Order'
    BY <1>1, <1>4, Zenon DEF Order, Signal, resources, Ended
  <2>2. QED
    BY <1>1, <1>4, <2>1, ProcessInv, Zenon DEF Signal, database
<1>5. CASE JoinScheduler
  <2>1. Order'
    BY <1>1, <1>5, Zenon DEF Order, JoinScheduler, resources, Ended
  <2>2. QED
    BY <1>1, <1>5, <2>1, ProcessInv, Zenon DEF JoinScheduler, database
<1>6. CASE StopListening
  <2>1. Order'
    BY <1>1, <1>6, Zenon DEF Order, StopListening, resources, Ended
  <2>2. QED
    BY <1>1, <1>6, <2>1, ProcessInv, Zenon DEF StopListening, database
<1>7. CASE Drained
  <2>1. Order'
    BY <1>1, <1>7, Zenon DEF Order, Drained, resources, Ended
  <2>2. QED
    BY <1>1, <1>7, <2>1, ProcessInv, Zenon DEF Drained, database
<1>8. CASE ShutdownTimesOut
  <2>1. Order'
    BY <1>1, <1>8, Zenon DEF Order, ShutdownTimesOut, resources, Ended
  <2>2. QED
    BY <1>1, <1>8, <2>1, ProcessInv, Zenon DEF ShutdownTimesOut, database
<1>9. CASE JoinHttp
  <2>1. Order'
    BY <1>1, <1>9, Zenon DEF Order, JoinHttp, resources, Ended
  <2>2. QED
    BY <1>1, <1>9, <2>1, ProcessInv, Zenon DEF JoinHttp, database
<1>10. CASE HttpFails
  <2>1. Order'
    BY <1>1, <1>10, Zenon DEF Order, HttpFails, resources, Ended
  <2>2. QED
    BY <1>1, <1>10, <2>1, ProcessInv, Zenon DEF HttpFails, database
<1>11. CASE HttpStops
  <2>1. Order'
    BY <1>1, <1>11, Zenon DEF Order, HttpStops, resources, Ended
  <2>2. QED
    BY <1>1, <1>11, <2>1, ProcessInv, Zenon DEF HttpStops, database
<1>12. CASE RequestArrives
  <2>1. Order'
    BY <1>1, <1>12, Zenon DEF Order, RequestArrives, resources, Ended
  <2>2. QED
    BY <1>1, <1>12, <2>1, ProcessInv, Zenon DEF RequestArrives, database
<1>13. CASE RequestAnswered
  <2>1. Order'
    BY <1>1, <1>13, Zenon DEF Order, RequestAnswered, resources, Ended
  <2>2. QED
    BY <1>1, <1>13, <2>1, ProcessInv, Zenon DEF RequestAnswered, database
<1>14. CASE FailStartup
  <2>1. Order'
    BY <1>1, <1>14, Zenon DEF Order, FailStartup, resources, Ended
  <2>2. tracker' = MarkRuntimeFatal(tracker)
    BY <1>14, Zenon DEF FailStartup
  <2>3. /\ tracker' \in TrackerType /\ tracker'.lapi = tracker.lapi
        /\ tracker'.outage = tracker.outage /\ tracker'.last = tracker.last
    BY <1>1, <2>2, RuntimeMarks, Zenon
  <2>4. QED
    BY <1>14, <2>1, <2>3, ProcessInv, Zenon DEF FailStartup, database
<1>15. CASE Stop
  <2>1. Order'
    BY <1>1, <1>15, Zenon DEF Order, Stop, resources, Ended
  <2>2. tracker' = MarkStopping(tracker) \/ tracker' = MarkStopping(MarkRuntimeFatal(tracker))
    BY <1>15, Zenon DEF Stop
  <2>3. /\ tracker' \in TrackerType /\ tracker'.lapi = tracker.lapi
        /\ tracker'.outage = tracker.outage /\ tracker'.last = tracker.last
    BY <1>1, <2>2, RuntimeMarks, ZenonT(60)
  <2>4. QED
    BY <1>15, <2>1, <2>3, ProcessInv, Zenon DEF Stop, database
<1>16. CASE CloseResources
  <2>1. Order'
    BY <1>1, <1>16, Zenon DEF Order, CloseResources, resources, Ended
  <2>2. tracker' = MarkStopping(tracker)
    BY <1>16, Zenon DEF CloseResources
  <2>3. /\ tracker' \in TrackerType /\ tracker'.lapi = tracker.lapi
        /\ tracker'.outage = tracker.outage /\ tracker'.last = tracker.last
    BY <1>1, <2>2, RuntimeMarks, Zenon
  <2>4. QED
    BY <1>16, <2>1, <2>3, ProcessInv, Zenon DEF CloseResources, database
<1> QED
  BY <1>2, <1>3, <1>4, <1>5, <1>6, <1>7, <1>8, <1>9, <1>10,
     <1>11, <1>12, <1>13, <1>14, <1>15, <1>16, Zenon

\* A new process: its tracker knows less than the database.
LEMMA RestartInv == ASSUME ServiceInv, Restart PROVE ServiceInv'
<1>1. /\ main' = "build" /\ scheduler' = "off" /\ http' = "off"
      /\ handling' = FALSE
      /\ job' = NoJob /\ tracker' = NewTracker /\ outage' = NoOutage
      /\ UNCHANGED <<runs, lastSafe, cli, command>>
  BY Zenon DEF Restart, NewProcess, database
<1>2. Types'
  BY <1>1, NewRecords, Zenon DEF ServiceInv, Types
<1>3. Order'
  BY <1>1, Zenon DEF Order, Ended
<1>4. Claims'
  BY <1>1, NewRecords, Zenon DEF ServiceInv, Claims
<1>5. Judged' /\ Outages'
  BY <1>1, NewRecords, Zenon DEF Judged, Outages
<1>6. TrackerBacked'
  BY <1>1, NewRecords, AgeFacts, Zenon DEF ServiceInv, Types, TrackerBacked
<1> QED
  BY <1>2, <1>3, <1>4, <1>5, <1>6, Zenon DEF ServiceInv

\* Recovery of interrupted Runs and retention change rows, but complete none and
\* take none from its holder.
LEMMA RowsInv ==
    ASSUME ServiceInv, Order', tracker' \in TrackerType,
           runs' \in [Row -> {"none", "running", "completed", "recovered"}],
           \A r \in Row : r \in {job.row, command.row} =>
                /\ runs'[r] = "completed" <=> runs[r] = "completed"
                /\ runs[r] # "none" => runs'[r] # "none",
           tracker'.lapi = tracker.lapi, tracker'.outage = tracker.outage,
           tracker'.last = tracker.last,
           UNCHANGED <<lastSafe, scheduler, job, command, outage>>,
           cli' = cli \/ cli' \notin {"begun", "ran"}
    PROVE  ServiceInv'
<1>1. Types'
  BY Zenon DEF ServiceInv, Types
<1>2. job.row \in Row \cup {None} /\ command.row \in Row \cup {None}
  BY Zenon DEF ServiceInv, Types, JobType
<1>3. Claims'
  BY <1>2, Zenon DEF ServiceInv, Claims
<1>4. Judged'
  BY <1>2, Zenon DEF ServiceInv, Judged
<1>5. Outages' /\ TrackerBacked'
  BY Zenon DEF ServiceInv, Outages, TrackerBacked
<1> QED
  BY <1>1, <1>3, <1>4, <1>5, Zenon DEF ServiceInv

\* Recovery and retention change no row that its holder may still complete.
LEMMA RecoverInv ==
    ASSUME ServiceInv, BootRecover \/ CommandRecovers \/ Forget PROVE ServiceInv'
<1>1. /\ tracker \in TrackerType /\ Order
      /\ runs \in [Row -> {"none", "running", "completed", "recovered"}]
  BY Zenon DEF ServiceInv, Types
<1>2. RecoverInterruptedSyncRuns =>
        /\ runs' \in [Row -> {"none", "running", "completed", "recovered"}]
        /\ \A r \in Row : /\ runs'[r] = "completed" <=> runs[r] = "completed"
                          /\ runs[r] # "none" => runs'[r] # "none"
  BY <1>1, Zenon DEF RecoverInterruptedSyncRuns
<1>3. CASE BootRecover
  <2>1. Order'
    BY <1>1, <1>3, Zenon DEF Order, BootRecover, resources
  <2>2. TRUE \in BOOLEAN /\ tracker' = [tracker EXCEPT !.database = TRUE]
    BY <1>3, Zenon DEF BootRecover
  <2>3. /\ tracker' \in TrackerType /\ tracker'.lapi = tracker.lapi
        /\ tracker'.outage = tracker.outage /\ tracker'.last = tracker.last
    BY <1>1, <2>2, Zenon DEF TrackerType
  <2>4. QED
    BY <1>2, <1>3, <2>1, <2>3, RowsInv, Zenon DEF BootRecover
<1>4. CASE CommandRecovers
  <2>1. Order'
    BY <1>1, <1>4, Zenon DEF Order, CommandRecovers, Command, process, resources
  <2>2. QED
    BY <1>1, <1>2, <1>4, <2>1, RowsInv, Zenon DEF CommandRecovers, Command, process
<1>5. CASE Forget
  <2>1. Order'
    BY <1>1, <1>5, Zenon DEF Order, Forget, process, resources
  <2>2. PICK r \in Row \ {job.row, command.row} : runs' = [runs EXCEPT ![r] = "none"]
    BY <1>5, Zenon DEF Forget
  <2>3. /\ runs' \in [Row -> {"none", "running", "completed", "recovered"}]
        /\ \A s \in Row : s \in {job.row, command.row} => runs'[s] = runs[s]
    BY <1>1, <2>2, Zenon
  <2>4. QED
    BY <1>1, <1>5, <2>1, <2>3, RowsInv, Zenon DEF Forget, process
<1> QED
  BY <1>3, <1>4, <1>5, Zenon

\* The bootstrap takes the last safe Run from the database.
LEMMA BootstrapInv == ASSUME ServiceInv, Bootstrap PROVE ServiceInv'
<1>1. tracker \in TrackerType /\ lastSafe \in Ages /\ tracker.last >= lastSafe
  BY Zenon DEF ServiceInv, Types, TrackerBacked
<1> DEFINE t == RecordSync(tracker, [outcome |-> "success"], lastSafe)
<1>2. t \in TrackerType /\ t.last \in {tracker.last, lastSafe}
  <2>1. /\ t \in TrackerType
        /\ safeSynchronization([outcome |-> "success"]) => t.last \in {tracker.last, lastSafe}
    BY <1>1, RecordSyncMarks, Zenon
  <2>2. safeSynchronization([outcome |-> "success"])
    BY Zenon DEF safeSynchronization
  <2>3. QED
    BY <2>1, <2>2, Zenon
<1>3. /\ tracker' = MarkLAPI(t, TRUE) /\ outage' = NoOutage
      /\ main = "start" /\ main' = "run" /\ scheduler' = "idle" /\ http' = "serving"
      /\ UNCHANGED <<runs, lastSafe, storeOpen, notifyOpen, handling, job, cli, command>>
  BY Zenon DEF Bootstrap, database, resources
<1> HIDE DEF t
<1>4. tracker' \in TrackerType /\ tracker'.lapi = "available" /\ tracker'.last = t.last
  BY <1>2, <1>3, LAPIMarks, Zenon
<1>5. Types'
  BY <1>3, <1>4, Zenon DEF ServiceInv, Types
<1>6. Order'
  BY <1>3, Zenon DEF ServiceInv, Order
<1>7. scheduler = "off"
  BY <1>3, Zenon DEF ServiceInv, Order
<1>8. Claims' /\ Judged'
  BY <1>3, <1>7, Zenon DEF ServiceInv, Claims, Judged
<1>9. Outages'
  BY <1>3, <1>4, Zenon DEF Outages
<1>10. TrackerBacked'
  <2>1. t.last >= lastSafe
    BY <1>1, <1>2, AgeFacts
  <2>2. tracker'.last = t.last /\ lastSafe' = lastSafe
    BY <1>3, <1>4, Zenon
  <2>3. QED
    BY <2>1, <2>2, Zenon DEF TrackerBacked
<1> QED
  BY <1>5, <1>6, <1>8, <1>9, <1>10, Zenon DEF ServiceInv

\* The store and the manager are open while the scheduler runs; its steps leave
\* main where it is.
LEMMA SchedulerOrder ==
    ASSUME ServiceInv, NEW from \in {"idle", "begun", "ran", "observe"}, NEW to,
           Scheduler(from, to)
    PROVE  /\ Order' /\ scheduler = from /\ scheduler' = to
           /\ UNCHANGED <<cli, command>>
  BY Zenon DEF ServiceInv, Order, Scheduler, resources, Ended

\* A Run takes a row that no one holds.
LEMMA JobBeginsInv == ASSUME ServiceInv, JobBegins PROVE ServiceInv'
<1>1. /\ Order' /\ scheduler = "idle" /\ scheduler' = "begun"
      /\ UNCHANGED <<cli, command>>
  BY SchedulerOrder, Zenon DEF JobBegins
<1>2. PICK r \in Row : /\ runs[r] = "none" /\ runs' = [runs EXCEPT ![r] = "running"]
                       /\ job' = [NoJob EXCEPT !.row = r]
  BY Zenon DEF JobBegins, BeginSyncRun
<1>3. UNCHANGED <<lastSafe, tracker, outage>>
  BY Zenon DEF JobBegins
<1>4. job' \in JobType /\ job'.row = r
  BY <1>2, NewRecords, Zenon DEF JobType
<1>5. runs \in [Row -> {"none", "running", "completed", "recovered"}] /\ None \notin Row
      /\ command.row \in Row \cup {None}
  BY ServiceAssumption, Zenon DEF ServiceInv, Types
<1>6. Types'
  BY <1>1, <1>2, <1>3, <1>4, <1>5, Zenon DEF ServiceInv, Types
<1>7. Claims'
  BY <1>1, <1>2, <1>4, <1>5, Zenon DEF ServiceInv, Claims
<1>8. Judged'
  BY <1>1, Zenon DEF Judged
<1>9. Outages' /\ TrackerBacked'
  BY <1>3, Zenon DEF ServiceInv, Outages, TrackerBacked
<1> QED
  BY <1>1, <1>6, <1>7, <1>8, <1>9, Zenon DEF ServiceInv

\* The results that stand for a Run that could not begin or be recorded.
LEMMA Substitutes ==
    ASSUME NEW result \in {Cancelled, fixedFailureResult("database", TRUE)}
    PROVE  result \in Verdict /\ Sound(result) /\ ~safeSynchronization(result)
<1>1. /\ Cancelled \in Verdict /\ Cancelled.outcome = "cancelled"
      /\ Cancelled.failure = "cancelled" /\ Cancelled.retryable = FALSE
  <2>1. FALSE \in BOOLEAN /\ "cancelled" \in Failures
    BY Zenon DEF Failures
  <2>2. QED
    BY <2>1, Zenon DEF Cancelled, Verdict
<1> DEFINE database1 == fixedFailureResult("database", TRUE)
<1>2. /\ database1 \in Verdict /\ database1.outcome = "failed"
      /\ database1.failure = "database"
  <2>1. TRUE \in BOOLEAN /\ "database" \in Failures
    BY Zenon DEF Failures
  <2>2. QED
    BY <2>1, Zenon DEF fixedFailureResult, Verdict
<1> HIDE DEF database1
<1>3. Sound(Cancelled) /\ ~safeSynchronization(Cancelled)
  BY <1>1, Zenon DEF Sound, ValidResult, safeSynchronization
<1>4. Sound(database1) /\ ~safeSynchronization(database1)
  BY <1>2, Zenon DEF Sound, ValidResult, safeSynchronization, Failures
<1> QED
  BY <1>1, <1>2, <1>3, <1>4, Zenon DEF database1

\* A Run without a row ends with a result that is not safe.
LEMMA JobHasNoRowInv == ASSUME ServiceInv, JobHasNoRow PROVE ServiceInv'
<1>1. /\ Order' /\ scheduler = "idle" /\ scheduler' = "observe"
      /\ UNCHANGED <<cli, command>>
  BY SchedulerOrder, Zenon DEF JobHasNoRow
<1>2. PICK result \in {Cancelled, fixedFailureResult("database", TRUE)} :
            job' = [NoJob EXCEPT !.result = result, !.category = "foreign"]
  BY Zenon DEF JobHasNoRow
<1>3. result \in Verdict /\ Sound(result) /\ ~safeSynchronization(result)
  BY Substitutes, Zenon
<1>4. UNCHANGED <<runs, lastSafe, tracker, outage>>
  BY Zenon DEF JobHasNoRow, database
<1>5. job' \in JobType /\ job'.row = None /\ job'.result = result
      /\ job'.category = "foreign"
  BY <1>2, <1>3, NewRecords, Zenon DEF JobType
<1>6. Types'
  BY <1>1, <1>4, <1>5, Zenon DEF ServiceInv, Types
<1>7. Claims'
  BY <1>1, <1>4, <1>5, Zenon DEF ServiceInv, Claims
<1>8. Judged'
  BY <1>1, <1>3, <1>5, Zenon DEF Judged
<1>9. Outages' /\ TrackerBacked'
  BY <1>4, Zenon DEF ServiceInv, Outages, TrackerBacked
<1> QED
  BY <1>1, <1>6, <1>7, <1>8, <1>9, Zenon DEF ServiceInv

\* The engine returns: what ResultFromSync makes of the report is faithful.
LEMMA JobRunsInv == ASSUME ServiceInv, JobRuns PROVE ServiceInv'
<1>1. /\ Order' /\ scheduler = "begun" /\ scheduler' = "ran"
      /\ UNCHANGED <<cli, command>>
  BY SchedulerOrder, Zenon DEF JobRuns
<1>2. PICK o \in JobOutcomes :
            job' = [job EXCEPT !.result = o.result, !.category = o.category]
  BY Zenon DEF JobRuns
<1>3. Faithful(o.result, o.category)
  BY OutcomesFaithful, Zenon
<1>4. UNCHANGED <<runs, lastSafe, tracker, outage>>
  BY Zenon DEF JobRuns, database
<1>5. /\ job' \in JobType /\ job'.row = job.row
      /\ job'.result = o.result /\ job'.category = o.category
  BY <1>2, <1>3, Zenon DEF ServiceInv, Types, JobType, Faithful, Sound
<1>6. Types'
  BY <1>1, <1>4, <1>5, Zenon DEF ServiceInv, Types
<1>7. Claims'
  BY <1>1, <1>4, <1>5, Zenon DEF ServiceInv, Claims
<1>8. Judged'
  BY <1>1, <1>3, <1>5, Zenon DEF Judged
<1>9. Outages' /\ TrackerBacked'
  BY <1>4, Zenon DEF ServiceInv, Outages, TrackerBacked
<1> QED
  BY <1>1, <1>6, <1>7, <1>8, <1>9, Zenon DEF ServiceInv

\* The completion of a row that its holder has, by either process.
LEMMA Completion ==
    ASSUME Types, NEW r \in Row, NEW safe, NEW age \in Ages,
           CompleteSyncRun(r, safe, age)
    PROVE  /\ runs[r] = "running" /\ runs'[r] = "completed"
           /\ runs' \in [Row -> {"none", "running", "completed", "recovered"}]
           /\ \A q \in Row \ {r} : runs'[q] = runs[q]
           /\ lastSafe' \in Ages
           /\ \A a \in Ages : lastSafe <= a => lastSafe' <= a
           /\ safe => lastSafe' <= age
<1>1. /\ runs[r] = "running" /\ runs' = [runs EXCEPT ![r] = "completed"]
      /\ runs \in [Row -> {"none", "running", "completed", "recovered"}]
      /\ lastSafe \in Ages
  BY Zenon DEF CompleteSyncRun, Completable, Types
<1>2. PICK l : l = lastSafe'
  BY Zenon
<1>3. /\ ~safe => l = lastSafe
      /\ safe => l = IF age < lastSafe THEN age ELSE lastSafe
  BY <1>2, Zenon DEF CompleteSyncRun, setRuntimeTimestamp
<1>4. /\ l \in Ages /\ \A a \in Ages : lastSafe <= a => l <= a
      /\ safe => l <= age
  <2>1. CASE safe
    BY <1>1, <1>3, <2>1, AgeFacts
  <2>2. CASE ~safe
    BY <1>1, <1>3, <2>2, AgeFacts, Zenon
  <2>3. QED
    BY <2>1, <2>2, Zenon
<1>5. /\ runs'[r] = "completed" /\ \A q \in Row \ {r} : runs'[q] = runs[q]
      /\ runs' \in [Row -> {"none", "running", "completed", "recovered"}]
  BY <1>1, Zenon
<1> QED
  BY <1>1, <1>2, <1>4, <1>5, Zenon

\* The row is completed: from now on the result stands for it.
LEMMA JobCompletesInv == ASSUME ServiceInv, JobCompletes PROVE ServiceInv'
<1>1. /\ Order' /\ scheduler = "ran" /\ scheduler' = "observe"
      /\ UNCHANGED <<cli, command>>
  BY SchedulerOrder, Zenon DEF JobCompletes
<1>2. /\ CompleteSyncRun(job.row, safeSynchronization(job.result), job.age)
      /\ UNCHANGED <<job, tracker, outage>>
  BY Zenon DEF JobCompletes
<1>3. job.row \in Row /\ job.age \in Ages /\ tracker.last \in Ages /\ None \notin Row
  BY <1>1, ServiceAssumption, Zenon DEF ServiceInv, Types, Claims, JobType, TrackerType
<1>4. /\ runs[job.row] = "running" /\ runs'[job.row] = "completed"
      /\ runs' \in [Row -> {"none", "running", "completed", "recovered"}]
      /\ \A q \in Row \ {job.row} : runs'[q] = runs[q]
      /\ lastSafe' \in Ages
      /\ \A a \in Ages : lastSafe <= a => lastSafe' <= a
      /\ safeSynchronization(job.result) => lastSafe' <= job.age
  BY <1>2, <1>3, Completion, Zenon DEF ServiceInv
<1>5. Types'
  BY <1>1, <1>2, <1>4, Zenon DEF ServiceInv, Types
<1>6. Claims'
  BY <1>1, <1>2, <1>3, <1>4, Zenon DEF ServiceInv, Types, Claims
<1>7. Judged'
  <2>1. Faithful(job.result, job.category)
    BY <1>1, Zenon DEF ServiceInv, Judged
  <2>2. QED
    BY <1>1, <1>2, <1>3, <1>4, <2>1, Zenon DEF Judged, Faithful
<1>8. Outages'
  BY <1>2, Zenon DEF ServiceInv, Outages
<1>9. TrackerBacked'
  <2>1. lastSafe <= tracker.last
    BY <1>3, AgeFacts, Zenon DEF ServiceInv, Types, TrackerBacked
  <2>2. PICK l \in Ages : l = lastSafe'
    BY <1>4, Zenon
  <2>3. l <= tracker.last
    BY <1>3, <1>4, <2>1, <2>2, Zenon
  <2>4. tracker.last >= l
    BY <1>3, <2>3, AgeFacts, Zenon
  <2>5. QED
    BY <1>2, <2>2, <2>4, Zenon DEF TrackerBacked
<1> QED
  BY <1>1, <1>5, <1>6, <1>7, <1>8, <1>9, Zenon DEF ServiceInv

\* The row is not completed: the result no longer counts as safe.
LEMMA JobNotCompletedInv == ASSUME ServiceInv, JobNotCompleted PROVE ServiceInv'
<1> DEFINE result == fixedFailureResult("database", TRUE)
<1>1. /\ Order' /\ scheduler = "ran" /\ scheduler' = "observe"
      /\ UNCHANGED <<cli, command>>
  BY SchedulerOrder, Zenon DEF JobNotCompleted
<1>2. job' = [job EXCEPT !.result = result] /\ UNCHANGED <<runs, lastSafe, tracker, outage>>
  BY Zenon DEF JobNotCompleted, AfterFailedCompletion, database
<1>3. result \in Verdict /\ Sound(result) /\ ~safeSynchronization(result)
  BY Substitutes, Zenon
<1> HIDE DEF result
<1>4. /\ job' \in JobType /\ job'.row = job.row /\ job'.result = result
      /\ job'.category = job.category
  BY <1>2, <1>3, Zenon DEF ServiceInv, Types, JobType
<1>5. Types'
  BY <1>1, <1>2, <1>4, Zenon DEF ServiceInv, Types
<1>6. Claims'
  BY <1>1, <1>2, <1>4, Zenon DEF ServiceInv, Claims
<1>7. Judged'
  <2>1. job.row # None => runs[job.row] # "completed"
    BY <1>1, Zenon DEF ServiceInv, Claims
  <2>2. QED
    BY <1>1, <1>2, <1>3, <1>4, <2>1, Zenon DEF Judged
<1>8. Outages' /\ TrackerBacked'
  BY <1>2, Zenon DEF ServiceInv, Outages, TrackerBacked
<1> QED
  BY <1>1, <1>5, <1>6, <1>7, <1>8, Zenon DEF ServiceInv

\* The tracker hears of the result in the same order as of its events.
LEMMA JobObservedInv == ASSUME ServiceInv, JobObserved PROVE ServiceInv'
<1> DEFINE u == Observed(tracker, job.result, job.category, job.age)
           Safe == safeSynchronization(job.result)
           Down == lapiUnavailable(job.result, job.category)
<1>1. /\ Order' /\ scheduler = "observe" /\ scheduler' = "idle"
      /\ UNCHANGED <<cli, command>>
  BY SchedulerOrder, Zenon DEF JobObserved
<1>2. /\ tracker' = u /\ job' = NoJob /\ UNCHANGED <<runs, lastSafe>>
      /\ outage' = IF Safe THEN NoOutage ELSE IF Down /\ outage = NoOutage THEN 0 ELSE outage
  BY Zenon DEF JobObserved, database
<1>3. /\ Sound(job.result) /\ job.age \in Ages /\ tracker \in TrackerType
      /\ Safe => lastSafe <= job.age
  BY <1>1, Zenon DEF ServiceInv, Types, Judged, JobType
<1>4. /\ u \in TrackerType
      /\ Safe => u.lapi = "available" /\ u.last \in {tracker.last, job.age}
      /\ ~Safe => u.last = tracker.last
      /\ ~Safe /\ Down =>
            /\ u.lapi = "unavailable"
            /\ tracker.lapi # "unavailable" => u.outage = 0
            /\ tracker.lapi = "unavailable" => u.outage = tracker.outage
      /\ ~Safe /\ ~Down => u.lapi = tracker.lapi /\ u.outage = tracker.outage
  BY <1>3, ObservedMarks
<1> HIDE DEF u, Safe, Down
<1>5. Types'
  BY <1>1, <1>2, <1>4, NewRecords, AgeFacts, Zenon DEF ServiceInv, Types
<1>6. Claims' /\ Judged'
  BY <1>1, <1>2, NewRecords, Zenon DEF ServiceInv, Claims, Judged
<1>7. Outages'
  <2>1. outage \in Ages \cup {NoOutage} /\ tracker.outage \in Ages
    BY Zenon DEF ServiceInv, Types, TrackerType
  <2> DEFINE since == IF Safe THEN NoOutage
                      ELSE IF Down /\ outage = NoOutage THEN 0 ELSE outage
  <2>2. /\ u.lapi # "unavailable" => since = NoOutage
        /\ u.lapi = "unavailable" => since <= u.outage
    BY <1>4, <2>1, AgeFacts, Zenon DEF ServiceInv, Outages
  <2> HIDE DEF since
  <2>3. outage' = since
    BY <1>2, Zenon DEF since
  <2>4. QED
    BY <1>2, <2>2, <2>3, Zenon DEF Outages
<1>8. TrackerBacked'
  <2>1. u.last >= lastSafe
    BY <1>3, <1>4, AgeFacts, Zenon DEF ServiceInv, Types, TrackerBacked
  <2>2. QED
    BY <1>2, <2>1, Zenon DEF TrackerBacked
<1> QED
  BY <1>1, <1>5, <1>6, <1>7, <1>8, Zenon DEF ServiceInv

\* The scheduler ends, told to or by a panic.
LEMMA JobEndsInv == ASSUME ServiceInv, SchedulerStops \/ JobPanics PROVE ServiceInv'
<1>1. /\ Order' /\ scheduler \in {"idle", "begun"} /\ scheduler' \in Ended
      /\ UNCHANGED <<cli, command>>
  BY SchedulerOrder, Zenon DEF SchedulerStops, JobPanics, Ended
<1>2. /\ job' = NoJob \/ (scheduler = "idle" /\ job' = job)
      /\ UNCHANGED <<runs, lastSafe, tracker, outage>>
  BY Zenon DEF SchedulerStops, JobPanics, Scheduler, database
<1>3. Types'
  BY <1>1, <1>2, NewRecords, Zenon DEF ServiceInv, Types
<1>4. Claims' /\ Judged'
  BY <1>1, <1>2, NewRecords, Zenon DEF ServiceInv, Claims, Judged, Ended
<1>5. Outages' /\ TrackerBacked'
  BY <1>2, Zenon DEF ServiceInv, Outages, TrackerBacked
<1> QED
  BY <1>1, <1>3, <1>4, <1>5, Zenon DEF ServiceInv

\* The command changes nothing of the service but what it finds in the database.
LEMMA CommandOrder ==
    ASSUME ServiceInv, NEW from, NEW to, Command(from, to)
    PROVE  /\ Order' /\ cli = from /\ cli' = to
           /\ UNCHANGED <<scheduler, job, tracker, outage>>
  BY Zenon DEF ServiceInv, Order, Command, process, resources

\* The command takes a row that the service does not hold.
LEMMA CommandBeginsInv == ASSUME ServiceInv, CommandBegins PROVE ServiceInv'
<1>1. /\ Order' /\ cli' = "begun" /\ UNCHANGED <<scheduler, job, tracker, outage>>
  BY CommandOrder, Zenon DEF CommandBegins
<1>2. PICK r \in Row : /\ runs[r] = "none" /\ runs' = [runs EXCEPT ![r] = "running"]
                       /\ command' = [NoCommand EXCEPT !.row = r]
  BY Zenon DEF CommandBegins, BeginSyncRun
<1>3. UNCHANGED lastSafe
  BY Zenon DEF CommandBegins
<1>4. command' \in [row: Row \cup {None}, safe: BOOLEAN, age: Ages] /\ command'.row = r
  BY <1>2, NewRecords, Zenon
<1>5. /\ runs \in [Row -> {"none", "running", "completed", "recovered"}]
      /\ None \notin Row /\ job.row \in Row \cup {None}
  BY ServiceAssumption, Zenon DEF ServiceInv, Types, JobType
<1>6. job.row # None => job.row # r /\ runs'[job.row] = runs[job.row]
  BY <1>2, <1>5, Zenon DEF ServiceInv, Claims
<1>7. Types'
  BY <1>1, <1>2, <1>3, <1>4, <1>5, Zenon DEF ServiceInv, Types
<1>8. Claims'
  BY <1>1, <1>2, <1>4, <1>5, <1>6, Zenon DEF ServiceInv, Claims
<1>9. Judged'
  BY <1>1, <1>3, <1>6, Zenon DEF ServiceInv, Judged
<1>10. Outages' /\ TrackerBacked'
  BY <1>1, <1>3, Zenon DEF ServiceInv, Outages, TrackerBacked
<1> QED
  BY <1>1, <1>7, <1>8, <1>9, <1>10, Zenon DEF ServiceInv

\* The engine of the command returns.
LEMMA CommandRunsInv == ASSUME ServiceInv, CommandRuns PROVE ServiceInv'
<1>1. /\ Order' /\ cli = "begun" /\ cli' = "ran"
      /\ UNCHANGED <<scheduler, job, tracker, outage>>
  BY CommandOrder, Zenon DEF CommandRuns
<1>2. PICK safe \in CommandSafe : command' = [command EXCEPT !.safe = safe]
  BY Zenon DEF CommandRuns
<1>3. UNCHANGED <<runs, lastSafe>>
  BY Zenon DEF CommandRuns, database
<1>4. /\ command' \in [row: Row \cup {None}, safe: BOOLEAN, age: Ages]
      /\ command'.row = command.row
  <2>1. safe \in BOOLEAN
    BY Zenon DEF CommandSafe, safeSynchronization
  <2>2. command \in [row: Row \cup {None}, safe: BOOLEAN, age: Ages]
    BY Zenon DEF ServiceInv, Types
  <2>3. QED
    BY <1>2, <2>1, <2>2, Zenon
<1>5. Types'
  BY <1>1, <1>3, <1>4, Zenon DEF ServiceInv, Types
<1>6. Claims' /\ Judged' /\ Outages' /\ TrackerBacked'
  BY <1>1, <1>3, <1>4, Zenon DEF ServiceInv, Claims, Judged, Outages, TrackerBacked
<1> QED
  BY <1>1, <1>5, <1>6, Zenon DEF ServiceInv

\* The command ends, with or without the completion of its row.
LEMMA CommandEndsInv ==
    ASSUME ServiceInv, CommandCompletes \/ CommandEnds PROVE ServiceInv'
<1>1. /\ Order' /\ cli' = "off" /\ command' = NoCommand
      /\ UNCHANGED <<scheduler, job, tracker, outage>>
      /\ \/ UNCHANGED <<runs, lastSafe>>
         \/ cli = "ran" /\ CompleteSyncRun(command.row, command.safe, command.age)
  BY CommandOrder, Zenon DEF CommandCompletes, CommandEnds, database
<1>2. /\ lastSafe \in Ages /\ job.age \in Ages /\ tracker.last \in Ages
      /\ job.row \in Row \cup {None} /\ command.age \in Ages
      /\ runs \in [Row -> {"none", "running", "completed", "recovered"}]
  BY Zenon DEF ServiceInv, Types, JobType, TrackerType
<1>3. /\ runs' \in [Row -> {"none", "running", "completed", "recovered"}]
      /\ job.row # None => runs'[job.row] = runs[job.row]
      /\ lastSafe' \in Ages
      /\ \A a \in Ages : lastSafe <= a => lastSafe' <= a
  <2>1. CASE UNCHANGED <<runs, lastSafe>>
    BY <1>2, <2>1, Zenon
  <2>2. CASE cli = "ran" /\ CompleteSyncRun(command.row, command.safe, command.age)
    <3>1. command.row \in Row /\ (job.row # None => job.row # command.row)
      BY <2>2, Zenon DEF ServiceInv, Claims
    <3>2. QED
      BY <1>2, <2>2, <3>1, Completion, Zenon DEF ServiceInv
  <2>3. QED
    BY <1>1, <2>1, <2>2, Zenon
<1>4. Types'
  BY <1>1, <1>3, NewRecords, Zenon DEF ServiceInv, Types
<1>5. Claims'
  BY <1>1, <1>3, NewRecords, Zenon DEF ServiceInv, Claims
<1>6. Judged'
  BY <1>1, <1>2, <1>3, Zenon DEF ServiceInv, Judged
<1>7. Outages'
  BY <1>1, Zenon DEF ServiceInv, Outages
<1>8. TrackerBacked'
  <2>1. PICK l \in Ages : l = lastSafe'
    BY <1>3, Zenon
  <2>2. lastSafe <= tracker.last
    BY <1>2, AgeFacts, Zenon DEF ServiceInv, TrackerBacked
  <2>3. l <= tracker.last
    BY <1>2, <1>3, <2>1, <2>2, Zenon
  <2>4. tracker.last >= l
    BY <1>2, <2>3, AgeFacts, Zenon
  <2>5. QED
    BY <1>1, <2>1, <2>4, Zenon DEF TrackerBacked
<1> QED
  BY <1>1, <1>4, <1>5, <1>6, <1>7, <1>8, Zenon DEF ServiceInv

\* Time passes alike for what the invariant compares.
LEMMA TickInv == ASSUME ServiceInv, Tick PROVE ServiceInv'
<1>1. /\ lastSafe' = Older(lastSafe)
      /\ outage' = IF outage = NoOutage THEN NoOutage ELSE Older(outage)
      /\ tracker' = [tracker EXCEPT !.outage = Older(@), !.last = Older(@)]
      /\ job' = IF safeSynchronization(job.result) THEN [job EXCEPT !.age = Older(@)]
                ELSE job
      /\ command' = IF command.safe THEN [command EXCEPT !.age = Older(@)] ELSE command
      /\ UNCHANGED <<runs, cli, scheduler>>
  BY Zenon DEF Tick, process
<1>2. Order'
  BY Zenon DEF ServiceInv, Order, Tick, process, resources
<1>3. /\ lastSafe \in Ages /\ outage \in Ages \cup {NoOutage} /\ job \in JobType
      /\ tracker \in TrackerType
      /\ command \in [row: Row \cup {None}, safe: BOOLEAN, age: Ages]
      /\ job.age \in Ages /\ command.age \in Ages
      /\ tracker.last \in Ages /\ tracker.outage \in Ages
  BY Zenon DEF ServiceInv, Types, JobType, TrackerType
<1> DEFINE later(a) == Older(a)
<1>4. /\ later(lastSafe) \in Ages /\ later(job.age) \in Ages
      /\ later(command.age) \in Ages /\ later(tracker.last) \in Ages
      /\ later(tracker.outage) \in Ages /\ (outage # NoOutage => later(outage) \in Ages)
  BY <1>3, AgeFacts, Zenon
<1>5. /\ tracker' = [tracker EXCEPT !.outage = later(tracker.outage),
                                    !.last = later(tracker.last)]
      /\ job' = job \/ job' = [job EXCEPT !.age = later(job.age)]
      /\ safeSynchronization(job.result) => job' = [job EXCEPT !.age = later(job.age)]
      /\ command' = command \/ command' = [command EXCEPT !.age = later(command.age)]
      /\ lastSafe' = later(lastSafe)
      /\ outage' = IF outage = NoOutage THEN NoOutage ELSE later(outage)
  BY <1>1, Zenon
<1> HIDE DEF later
<1>6. /\ tracker' \in TrackerType /\ tracker'.lapi = tracker.lapi
      /\ tracker'.last = later(tracker.last) /\ tracker'.outage = later(tracker.outage)
  BY <1>3, <1>4, <1>5, Zenon DEF TrackerType
<1>7. /\ job' \in JobType /\ job'.row = job.row /\ job'.result = job.result
      /\ job'.category = job.category
      /\ safeSynchronization(job.result) => job'.age = later(job.age)
  BY <1>3, <1>4, <1>5, Zenon DEF JobType
<1>8. /\ command' \in [row: Row \cup {None}, safe: BOOLEAN, age: Ages]
      /\ command'.row = command.row
  BY <1>3, <1>4, <1>5, Zenon
<1>9. Types'
  BY <1>1, <1>4, <1>5, <1>6, <1>7, <1>8, Zenon DEF ServiceInv, Types
<1>10. Claims'
  BY <1>1, <1>7, <1>8, Zenon DEF ServiceInv, Claims
<1>11. Judged'
  <2>1. ASSUME scheduler = "observe", safeSynchronization(job.result)
        PROVE  lastSafe' <= job'.age
    <3>1. lastSafe <= job.age
      BY <2>1, Zenon DEF ServiceInv, Judged
    <3>2. later(lastSafe) <= later(job.age)
      BY <1>3, <3>1, AgeFacts, Zenon DEF later
    <3>3. QED
      BY <1>5, <1>7, <2>1, <3>2, Zenon
  <2>2. QED
    BY <1>1, <1>7, <2>1, Zenon DEF ServiceInv, Judged
<1>12. Outages'
  <2> DEFINE since == IF outage = NoOutage THEN NoOutage ELSE later(outage)
  <2>1. /\ tracker.lapi # "unavailable" => since = NoOutage
        /\ tracker.lapi = "unavailable" => since <= later(tracker.outage)
    <3>1. CASE outage = NoOutage
      BY <1>4, <3>1, AgeFacts, Zenon
    <3>2. CASE outage # NoOutage
      BY <1>3, <3>2, AgeFacts, Zenon DEF ServiceInv, Outages, later
    <3>3. QED
      BY <3>1, <3>2, Zenon
  <2> HIDE DEF since
  <2>2. outage' = since
    BY <1>5, Zenon DEF since
  <2>3. QED
    BY <1>6, <2>1, <2>2, Zenon DEF Outages
<1>13. TrackerBacked'
  <2>1. lastSafe <= tracker.last
    BY <1>3, AgeFacts, Zenon DEF ServiceInv, TrackerBacked
  <2>2. later(tracker.last) >= later(lastSafe)
    BY <1>3, <1>4, <2>1, AgeFacts, Zenon DEF later
  <2>3. QED
    BY <1>5, <1>6, <2>2, Zenon DEF TrackerBacked
<1> QED
  BY <1>2, <1>9, <1>10, <1>11, <1>12, <1>13, Zenon DEF ServiceInv

\* Every step of the service, of the command and of time keeps the invariant.
LEMMA ServiceNextInv == ServiceInv /\ [ServiceNext]_svars => ServiceInv'
<1> SUFFICES ASSUME ServiceInv, [ServiceNext]_svars PROVE ServiceInv'
  BY Zenon
<1>1. CASE \/ MainStep \/ Signal
           \/ HttpFails \/ HttpStops \/ RequestArrives \/ RequestAnswered
  BY <1>1, MainInv, RecoverInv, BootstrapInv, Zenon DEF MainStep
<1>2. CASE Restart
  BY <1>2, RestartInv, Zenon
<1>3. CASE Forget \/ CommandRecovers
  BY <1>3, RecoverInv, Zenon
<1>4. CASE JobBegins \/ JobHasNoRow \/ JobStep
  BY <1>4, JobBeginsInv, JobHasNoRowInv, JobRunsInv, JobCompletesInv,
     JobNotCompletedInv, JobObservedInv, Zenon DEF JobStep
<1>5. CASE SchedulerStops \/ JobPanics
  BY <1>5, JobEndsInv, Zenon
<1>6. CASE CommandBegins \/ CommandRuns \/ CommandCompletes \/ CommandEnds
  BY <1>6, CommandBeginsInv, CommandRunsInv, CommandEndsInv, Zenon
<1>7. CASE Tick
  BY <1>7, TickInv, Zenon
<1>8. CASE UNCHANGED svars
  BY <1>8 DEF svars, database, process, resources, ServiceInv, Types, Order,
              Claims, Judged, Outages, TrackerBacked
<1> QED
  BY <1>1, <1>2, <1>3, <1>4, <1>5, <1>6, <1>7, <1>8, Zenon DEF ServiceNext

\* The inductive invariant always holds.
LEMMA ServiceInvariant == ServiceSpec => []ServiceInv
<1>1. ServiceInit => ServiceInv
  BY ServiceInitInv, Zenon
<1> QED
  BY <1>1, ServiceNextInv, PTL DEF ServiceSpec

\* For any feeds and rows: the job never meets a closed store or notification
\* manager, and no request is served by a closed store (run.go, the shutdown of
\* RunService).
THEOREM ClosedLastThm == ServiceSpec => []ClosedLast
<1>1. ServiceInv => ClosedLast
  BY Zenon DEF ServiceInv, Order, ClosedLast, Ended
<1> QED
  BY <1>1, ServiceInvariant, PTL

\* For any feeds, rows and limits: readiness never counts on a safe Run more
\* recent than the one the database records, whichever of the service and the
\* command recorded it (Tracker.RecordSync, setRuntimeTimestamp).
THEOREM TrackerBackedThm == ServiceSpec => []TrackerBacked
<1>1. ServiceInv => TrackerBacked
  BY Zenon DEF ServiceInv
<1> QED
  BY <1>1, ServiceInvariant, PTL

\* For any grace period: a service that answers ready reported its first failure
\* since the LAPI last answered at most the grace period ago (Tracker.MarkLAPI
\* keeps the time of the first failure).
THEOREM GraceIsBoundedThm == ServiceSpec => []GraceIsBounded
<1>1. ASSUME ServiceInv, Ready PROVE outage <= LAPIOutageGrace
  <2>1. /\ outage \in Ages \cup {NoOutage} /\ tracker.outage \in Ages
        /\ LAPIOutageGrace \in Nat
    BY <1>1, ServiceAssumption DEF ServiceInv, Types, TrackerType
  <2>2. CASE tracker.lapi = "available"
    BY <1>1, <2>1, <2>2, AgeFacts DEF ServiceInv, Outages
  <2>3. CASE tracker.lapi = "unavailable" /\ tracker.outage <= LAPIOutageGrace
    <3>1. outage <= tracker.outage
      BY <1>1, <2>3, Zenon DEF ServiceInv, Outages
    <3>2. outage \in Int /\ tracker.outage \in Int
      BY <2>1, AgeFacts, Zenon
    <3>3. QED
      BY <2>1, <2>3, <3>1, <3>2
  <2>4. QED
    BY <1>1, <2>2, <2>3, Zenon DEF Ready
<1>2. ServiceInv => GraceIsBounded
  BY <1>1, Zenon DEF GraceIsBounded
<1> QED
  BY <1>2, ServiceInvariant, PTL

\* For any set of feeds and any report of the engine about them: the result of a
\* Run is one that the vocabulary can express, never the internal failure that
\* stands for a report it refused, and every event made of it is valid
\* (ResultFromSync, AfterFailedCompletion, emit).
THEOREM NothingDroppedThm == ServiceSpec => []NothingDropped
<1>1. ASSUME ServiceInv, scheduler \in {"ran", "observe"}
      PROVE  /\ job.result.failure # "internal" /\ ValidResult(job.result)
             /\ \A e \in Events(job.result, job.category) : ValidEvent(e)
  <2>1. Sound(job.result)
    BY <1>1, Zenon DEF ServiceInv, Judged, Faithful
  <2>2. QED
    BY <2>1, EventsValid, Zenon DEF Sound
<1>2. ServiceInv => NothingDropped
  BY <1>1, Zenon DEF NothingDropped
<1> QED
  BY <1>2, ServiceInvariant, PTL

\* For any set of feeds: a Run makes the service count as synchronized exactly
\* when its reconciliation finished and its row was completed, also when feeds
\* failed and also when the command recovered or completed rows meanwhile
\* (SyncJob.Run, observeResult).
THEOREM ReconciledCountsThm == ServiceSpec => ReconciledCounts
<1> DEFINE Counts ==
               IF /\ job.category \in {"none", "degraded"}
                  /\ job.row # None /\ runs[job.row] = "completed"
               THEN /\ lastSafe <= job.age /\ tracker'.last <= job.age
                    /\ tracker'.lapi = "available"
               ELSE tracker'.last = tracker.last
<1>1. ASSUME ServiceInv, JobObserved PROVE Counts
  <2> DEFINE u == Observed(tracker, job.result, job.category, job.age)
  <2>1. scheduler = "observe" /\ tracker' = u
    BY <1>1, Zenon DEF JobObserved, Scheduler
  <2>2. /\ safeSynchronization(job.result) <=>
                /\ job.category \in {"none", "degraded"}
                /\ job.row # None /\ runs[job.row] = "completed"
        /\ safeSynchronization(job.result) => lastSafe <= job.age
    BY <1>1, <2>1, Zenon DEF ServiceInv, Judged
  <2>3. Sound(job.result) /\ job.age \in Ages /\ tracker \in TrackerType
    BY <1>1, <2>1, Zenon DEF ServiceInv, Types, Judged, JobType
  <2>4. /\ safeSynchronization(job.result) => u.lapi = "available" /\ u.last <= job.age
        /\ ~safeSynchronization(job.result) => u.last = tracker.last
    BY <2>3, ObservedSync, Zenon
  <2> HIDE DEF u
  <2>5. QED
    BY <2>1, <2>2, <2>4, Zenon
<1>2. ServiceInv /\ [ServiceNext]_svars => [JobObserved => Counts]_svars
  BY <1>1, Zenon
<1> QED
  BY <1>2, ServiceInvariant, PTL DEF ServiceSpec, ReconciledCounts
=============================================================================

--------------------------- MODULE Notifications ----------------------------
(***************************************************************************)
(* internal/notify/manager.go with its table notification_delivery_state:  *)
(* which ntfy notices follow from the results of the synchronization job.  *)
(* Every notice is written down before it is sent and again after it was   *)
(* accepted; the process may die, a save may fail and the server's answer  *)
(* may be lost at any of these points.                                     *)
(***************************************************************************)
EXTENDS Integers, Sequences

CONSTANTS
    Problem,            \* what a failed Run is told apart by: category and feed
    None,
    FailureThreshold, Cooldown,
    MinimumSeverity,    \* severityRank: 1 info, 2 warning, 3 error
    Enabled,            \* kinds of notices that the configuration turns on
    MaxCount,           \* cap of ConsecutiveFailures (100 in the code)
    MaxFaults           \* bound on crashes, failed saves and failed sends

\* The rows that only remember `sent` and the last attempt.
Plain == {"stale", "first", "routine", "startup", "suspicious"}
Kinds == Plain \cup {"failure", "recovery"}

ASSUME NotificationsAssumption ==
    /\ None \notin Problem \cup Kinds
    /\ Enabled \subseteq Kinds
    /\ MaxCount \in Nat /\ FailureThreshold \in 1..MaxCount
    /\ Cooldown \in Nat \ {0} /\ MinimumSeverity \in 1..3 /\ MaxFaults \in Nat

VARIABLES
    failure,    \* row repeated_failure: [problem, count, notified, pending, age]
    plain,      \* the other rows: Plain -> [sent, age]
    todo,       \* calls the job has still to make for the last result
    notice,     \* notice between the two saves of attempt, or None
    last,       \* last result: "success", a problem, or None
    faults,
    \* History of what was sent and what reached the server.
    told,       \* Problem -> "no", "told" of the failure, "recovered"
    since,      \* Kinds -> time since the last attempt
    repeats     \* failure notices delivered in the present streak

nvars == <<failure, plain, todo, notice, last, faults, told, since, repeats>>

\* An age counts to Cooldown and stops; Cooldown stands for "long ago or never".
Age == 0..Cooldown

FailureRow == [problem: Problem \cup {None}, count: 0..MaxCount,
               notified: BOOLEAN, pending: BOOLEAN, age: Age]

Calls == {"suspicious", "clearStale", "handleFailure", "clearFailure",
          "successPolicy", "staleSync", "startup"}

\* The rows validate: a row with a count, a notice or a pending recovery names
\* its problem.
NotificationsTypeOK ==
    /\ failure \in FailureRow
    /\ failure.count > 0 \/ failure.notified \/ failure.pending
            => failure.problem # None
    /\ plain \in [Plain -> [sent: BOOLEAN, age: Age]]
    /\ \A i \in DOMAIN todo : todo[i] \in Calls
    /\ notice \in Kinds \cup {None}
    /\ last \in Problem \cup {"success", None}
    /\ faults \in 0..MaxFaults
    /\ told \in [Problem -> {"no", "told", "recovered"}]
    /\ since \in [Kinds -> Age] /\ repeats \in Nat

NewRow == [problem |-> None, count |-> 0, notified |-> FALSE,
           pending |-> FALSE, age |-> Cooldown]
NewPlain == [sent |-> FALSE, age |-> Cooldown]

\* The empty table of a new database; the first process starts.
NotificationsInit ==
    /\ failure = NewRow /\ plain = [k \in Plain |-> NewPlain]
    /\ todo = <<"startup">> /\ notice = None /\ last = None /\ faults = 0
    /\ told = [p \in Problem |-> "no"] /\ since = [k \in Kinds |-> Cooldown]
    /\ repeats = 0

-----------------------------------------------------------------------------
(* attempt: severity, cooldown, save, send, save.                          *)

Severity(kind) == IF kind \in {"failure", "stale", "suspicious"} THEN 2 ELSE 1

\* A step in which something goes wrong; there are at most MaxFaults.
Fault == faults < MaxFaults /\ faults' = faults + 1

AttemptDue(kind, age) == Severity(kind) >= MinimumSeverity /\ age >= Cooldown

\* The rest of the call when nothing is sent.
NoNotice == notice' = None /\ UNCHANGED <<faults, since>>

\* Faulty: the attempt is not written down before the notice is sent.
AttemptUnsaved(kind, row) == row

\* The row with which attempt goes on to send.
Attempt(kind, row) == [row EXCEPT !.age = 0]

\* Row after the saves of a call that wants a notice: `row` is what the call
\* itself has saved.  The save in attempt may fail, and nothing is sent.
Tries(kind, row, next) ==
    IF AttemptDue(kind, row.age)
    THEN \/ /\ next = Attempt(kind, row) /\ notice' = kind
            /\ since' = [since EXCEPT ![kind] = 0] /\ UNCHANGED faults
         \/ next = row /\ notice' = None /\ Fault /\ UNCHANGED since
    ELSE next = row /\ NoNotice

Call(name) ==
    /\ notice = None /\ todo # <<>> /\ Head(todo) = name
    /\ todo' = Tail(todo)
    /\ UNCHANGED last

\* A load or the first save of a call fails: the call ends without effect.
CallFails ==
    /\ notice = None /\ todo # <<>> /\ todo' = Tail(todo) /\ Fault
    /\ UNCHANGED <<failure, plain, notice, last, told, since, repeats>>

TriesPlain(kind) ==
    /\ IF kind \in Enabled
       THEN \E next \in [sent: BOOLEAN, age: Age] :
                /\ Tries(kind, plain[kind], next)
                /\ plain' = [plain EXCEPT ![kind] = next]
       ELSE NoNotice /\ UNCHANGED plain
    /\ UNCHANGED <<failure, told, repeats>>

-----------------------------------------------------------------------------
(* The calls of the manager.                                               *)

\* A new streak of p: an earlier recovery no longer counts for it.
NewStreak(p) ==
    /\ repeats' = 0
    /\ told' = [told EXCEPT ![p] = IF @ = "recovered" THEN "no" ELSE @]

\* Faulty: the streak goes on when the problem changes.
SameStreakAlways == failure.problem # None /\ ~failure.pending

SameStreak == failure.problem = last /\ ~failure.pending

HandleFailure ==
    /\ Call("handleFailure")
    /\ LET row == IF SameStreak
                  THEN [failure EXCEPT !.count = IF @ < MaxCount THEN @ + 1 ELSE @]
                  ELSE [NewRow EXCEPT !.problem = last, !.count = 1]
       IN  IF row.notified \/ row.count < FailureThreshold
           THEN failure' = row /\ NoNotice
           ELSE \E next \in FailureRow :
                    Tries("failure", row, next) /\ failure' = next
    /\ IF SameStreak THEN UNCHANGED <<told, repeats>> ELSE NewStreak(last)
    /\ UNCHANGED plain

\* Faulty: every cleared failure is announced.
OwesRecoveryAlways == failure.count > 0 \/ failure.pending

OwesRecovery == "recovery" \in Enabled /\ (failure.notified \/ failure.pending)

ClearFailure ==
    /\ Call("clearFailure")
    /\ IF ~OwesRecovery
       THEN failure' = NewRow /\ NoNotice
       ELSE LET row == IF failure.pending THEN failure
                       ELSE [failure EXCEPT !.pending = TRUE, !.notified = FALSE,
                                            !.count = 0, !.age = Cooldown]
            IN  \E next \in FailureRow :
                    Tries("recovery", row, next) /\ failure' = next
    /\ UNCHANGED <<plain, told, repeats>>

ClearStale ==
    /\ Call("clearStale")
    /\ plain' = [plain EXCEPT !["stale"] = NewPlain]
    /\ NoNotice
    /\ UNCHANGED <<failure, told, repeats>>

StaleSync ==
    /\ Call("staleSync")
    /\ IF plain["stale"].sent
       THEN NoNotice /\ UNCHANGED <<failure, plain, told, repeats>>
       ELSE TriesPlain("stale")

\* The first success and, once that is sent, routine ones.
SuccessPolicy ==
    /\ Call("successPolicy")
    /\ TriesPlain(IF "first" \in Enabled /\ ~plain["first"].sent
                  THEN "first" ELSE "routine")

SuspiciousChange == Call("suspicious") /\ TriesPlain("suspicious")

Startup == Call("startup") /\ TriesPlain("startup")

-----------------------------------------------------------------------------
(* Sending, and what happens around the manager.                           *)

\* The notice reaches the server.
Delivered ==
    /\ repeats' = repeats + IF notice = "failure" THEN 1 ELSE 0
    /\ told' = IF notice = "failure" THEN [told EXCEPT ![failure.problem] = "told"]
               ELSE IF notice = "recovery"
               THEN [told EXCEPT ![failure.problem] = "recovered"]
               ELSE told

\* Faulty: the accepted notice is not remembered.
OnSuccessNothing ==
    UNCHANGED <<failure, plain>>

\* onSuccess of the call and its save; startup, routine and suspicious notices
\* have none.
OnSuccess ==
    /\ failure' = CASE notice = "failure" -> [failure EXCEPT !.notified = TRUE]
                    [] notice = "recovery" -> NewRow
                    [] OTHER -> failure
    /\ plain' = IF notice \in {"stale", "first"}
                THEN [plain EXCEPT ![notice].sent = TRUE] ELSE plain

Send ==
    /\ notice # None
    /\ Delivered /\ OnSuccess /\ notice' = None
    /\ UNCHANGED <<todo, last, faults, since>>

\* The answer is an error or lost, or the save after it fails; the notice may
\* have been delivered.
SendFails ==
    /\ notice # None /\ notice' = None /\ Fault
    /\ Delivered \/ UNCHANGED <<repeats, told>>
    /\ UNCHANGED <<failure, plain, todo, last, since>>

\* The process ends and a new one starts; the notice being sent may arrive.
Restart ==
    /\ Fault /\ todo' = <<"startup">> /\ notice' = None
    /\ IF notice # None THEN Delivered \/ UNCHANGED <<repeats, told>>
       ELSE UNCHANGED <<repeats, told>>
    /\ UNCHANGED <<failure, plain, last, since>>

\* observeResult: a safe failure is a degraded Run that reconciled; a stale one
\* is not safe and the last safe Run is long ago.
Result ==
    /\ todo = <<>> /\ notice = None
    /\ \E suspicious \in {<<>>, <<"suspicious">>} :
        \/ /\ last' = "success" /\ suspicious = <<>>
           /\ todo' = <<"clearStale", "clearFailure", "successPolicy">>
        \/ /\ last' \in Problem
           /\ \E calls \in {<<"clearStale", "handleFailure">>,
                            <<"handleFailure">>, <<"handleFailure", "staleSync">>} :
                todo' = suspicious \o calls
    /\ UNCHANGED <<failure, plain, notice, faults, told, since, repeats>>

Older(age) == IF age < Cooldown THEN age + 1 ELSE age

NoticeTick ==
    /\ failure' = [failure EXCEPT !.age = Older(@)]
    /\ plain' = [k \in Plain |-> [plain[k] EXCEPT !.age = Older(@)]]
    /\ since' = [k \in Kinds |-> Older(since[k])]
    /\ UNCHANGED <<todo, notice, last, faults, told, repeats>>

Handle ==
    \/ HandleFailure \/ ClearFailure \/ ClearStale \/ StaleSync
    \/ SuccessPolicy \/ SuspiciousChange \/ Startup

NotificationsNext ==
    \/ Handle \/ Send \/ CallFails \/ SendFails \/ Restart \/ Result \/ NoticeTick

\* Results keep coming, their calls are made and time passes.  Faults are
\* finitely many (MaxFaults): the server and the database recover.
NotificationsSpec ==
    /\ NotificationsInit /\ [][NotificationsNext]_nvars
    /\ WF_nvars(Handle) /\ WF_nvars(Send) /\ WF_nvars(Result) /\ WF_nvars(NoticeTick)

-----------------------------------------------------------------------------
(* Properties.                                                             *)

\* A failure notice is repeated in a streak of the same problem only for a
\* fault: one notice, and at most one more for each crash, failed save or
\* failed delivery.
OneNotice == repeats <= 1 + faults

\* Faults never make the service flood the server: a startup, routine, first
\* or suspicious notice is attempted a cooldown after the last one of its kind
\* at the earliest, over restarts as well, and so is the failure notice of one
\* streak.
CooldownKept ==
    [][\A k \in {"startup", "routine", "first", "suspicious", "failure"} :
        /\ notice = None /\ notice' = k
        /\ k = "failure" => repeats > 0 /\ SameStreak
        => since[k] = Cooldown]_nvars

\* A recovery is announced only for a problem whose failure was announced.
RecoveryIsEarned ==
    [][notice' = "recovery" => told[failure.problem] # "no"]_nvars

\* A problem that persists is announced: when from some point on all results
\* are the same failure, the server is told of it.
PersistentIsTold ==
    \A p \in Problem : <>[](last = p) => <>(told[p] = "told")

\* docs/architecture.md:572: "one recovery notification after a notified problem
\* clears": once a success is handled without any fault, no announced problem
\* is left without its recovery.
RecoveryIsTold ==
    last = "success" /\ todo = <<>> /\ notice = None /\ faults = 0
        => \A p \in Problem : told[p] # "told"
=============================================================================

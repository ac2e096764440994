# Crowdshield in TLA+

Crowdshield reads public block lists ("feeds"), decides which addresses and
ranges should be banned, and keeps the decisions of a CrowdSec local API (LAPI)
in line with that, with a SQLite database as its memory. These modules model the
parts of it that hold state: what they do step by step, what may fail between
the steps, and what has to be true anyway. TLC checks the models on small
instances; TLAPS proves the most important facts for all values of the constants.

Paths below are relative to the repository root.

## The system

| part | state | operations | what makes it hard |
|---|---|---|---|
| reconciler (`internal/reconcile`) | position in a Run, its snapshot, its plan | recover, plan, create, verify, record, expire, remove | crash between any two calls, lost answers, requests that arrive late, a second process |
| enforcement store (`internal/state/enforcement_repository.go`) | objects, operation journal, ledger of decisions | one transaction each | constraints that refuse a transaction halfway through a protocol |
| LAPI (`internal/lapi`) | alerts, decisions, their ends | create, get, search, delete | no idempotency key, bounded search, other writers |
| LAPI session (`internal/lapi/client.go`) | cached token, its expiry, a mutex | ensure a token, perform, log in again, repeat | tokens that expire or are revoked between two steps, lost answers |
| feed engine (`internal/syncer`, `feed_repository.go`) | definitions, validators, entries, grace, next attempt | Run, fetch, accept, refuse, record; dry run | changed definitions, 304, backoff, restarts, two evaluations that have to agree |
| desired set (`internal/network`) | none | `BuildDesired` | overlapping prefixes, allowlist, covered hosts |
| pruning (`internal/state/prune.go`) | all tables | plan, delete | rows that refer to each other, rows still in use |
| opening and migrating (`store.go`, `migrate.go`) | schema and its record | `Open`, `OpenReadOnly`, `Migrate` | failures midway, processes of different releases |
| scheduler (`internal/scheduler`) | deadline, attempt, timer | job, retry, wait, cancel | late jobs, cancellation racing a timer |
| service (`internal/app`) | workers, resources, rows of Runs | build, start, job, shutdown; CLI sync | order of shutdown, failures halfway through construction, a CLI beside the service |
| results and events (`internal/app/result.go`, `internal/ops`) | none | convert report and error, derive events | combinations of causes that the closed vocabulary has to have a value for |
| readiness (`internal/health`) | component flags, outage begin, last safe sync | Mark..., Observe | repeated failures, fatal states |
| notifications (`internal/notify`) | persisted streak, attempts, pending recovery | failure, success, suspicious, stale, startup | crash between saving and sending, changing problems |

They interact as follows. The scheduler runs the service's job. The job calls
the feed engine; the engine stores entries and hands the active ones to the
reconciler; the reconciler computes the desired set, writes the plan to the
enforcement store and talks to the LAPI. The job's result goes to readiness and
notifications. At start, and on request of an operator, old rows are pruned. The
CLI is another process on the same database and LAPI.

`PROJECT.json` lists the parts that are not modelled, with the reason, and under
`hazards` the places where this code is hard to test, with the properties that
watch them.

## Modules

| module | models | instance |
|---|---|---|
| `Lapi` | the server and the network to it (external, from `internal/lapi/mock/server.go` and the client) | |
| `EnforcementStore` (extends `Lapi`) | the store's transactions: `X` is the effect, `XAccepts` when it commits | |
| `Reconcile` (extends `EnforcementStore`) | one Reconciler, each call a step | `MCReconcile` |
| `TwoProcesses` | the service's Reconciler and that of a CLI sync | `MCTwoProcesses` |
| `ReconcileInvariant`, `ReconcileProofs`, `LedgerProofs` | inductive invariants and theorems about `Reconcile` | |
| `TwoProcessesProofs` | theorems about `TwoProcesses` | |
| `LapiClient` | the session below every LAPI request | `MCLapiClient` |
| `FeedSync` | engine, dry run and feed tables | `MCFeedSync` |
| `Desired` | `BuildDesired` | `MCDesired` |
| `PlanProofs` | theorems about `FeedSync` and `Desired` | |
| `Prune` | rows of all tables, plan and deletion | `MCPrune` |
| `SchemaHistory` | what opening promises: a history of whole releases | |
| `Migrate` | opening the database file | `MCMigrate` |
| `StoreProofs` | theorems about `Migrate` and `Prune` | |
| `Scheduler` | the scheduler's loop | `MCScheduler` |
| `SyncResult` | from the engine's report and error to a result and its events | |
| `Service` (extends `SyncResult`) | construction, runtime, job, readiness, sync history, CLI sync | `MCService` |
| `ServiceProofs` | theorems about `Service` and `SyncResult` | |
| `Notifications` | the manager and its persisted row | `MCNotifications` |
| `ClockProofs` | theorems about `LapiClient`, `Scheduler` and `Notifications` | |

An operator whose comment begins with "Faulty" is a variant of the definition
after it with a plausible mistake; `PROJECT.json` says which property notices it.

### Reconcile, EnforcementStore and Lapi

`pc` is the call a Run makes next and `phase` the loop of `Run` it belongs to;
the other locals are variables of `Run` and the functions it calls. Each call of
the store or the LAPI is an action, with an action for each way it fails; `Crash`
may happen at any time and forgets the locals. A failed POST or DELETE may have
been processed, may be dropped, or may be processed later (`posts`, `deletes`).
`Interfere` changes or removes our alerts on the server.

`late` is a history field that no action reads: a creation becomes late when a
search of `recover` for its token is answered while it is still on its way
(`Overtake`), and so does the alert that it makes.

What is abstracted:
- An object is a model value. A decision is identified by its alert and object.
- The loops over feeds and objects go in sorted order in the code and in any
  order in the model.
- An alert that fails any of the ownership checks is "foreign".
- All operations have the same duration. A dry run and the report's counters are
  left out. A failed read that just ends the Run is a `Crash`.
- A failure to mark an operation ambiguous is ignored, as in the code.

Bounds: `Token` (operations), `MaxAlert`, `MaxClock`, `MaxFault`. A Run that has
no free token or reaches a full server stops there; these bounds allow at least
one full life of a decision (create, refresh, replace, remove) with a failure.
`Settles` (no request is on its way when a Run starts) and `Remaining` (the server
reports remaining durations, as docs/api-assumptions.md:168 says, and not the
instant of the end) choose the environment. `lifecycle` has `Settles = FALSE` and
`Remaining = TRUE`, and two alerts; with three it was checked by hand, for this
server (4,050,000 states) and for one that reports instants (1,640,000).

### LapiClient

`call` says for each caller where it is: in `ensureToken`, in
`refreshRejectedToken`, in `loginLocked` (with `mu`), reading the token or in
`perform`. A request that is answered 401 is sent a second time after another
login. The server and the network are external: a token lives as long as the
server says, may be revoked or refused at any moment, and an answer may be lost
after the request was carried out. The production code calls the client from one
goroutine; the client is written for several, and the model has two. With two, the
token can be gone between `ensureToken` and the read of it, and a request goes out
without one. The server then answers 401 and the call logs in: `Returns` and
`AtMostOnce` hold for it too. `MaxClock` bounds time, `Token` the tokens in
circulation (a token the server no longer honours may be issued again).

### FeedSync

A Run reads the clock once, so it takes no time; times are relative. A validator
stands for the document it came with. A server may answer 304 to validators of
another URL, and in one run to a request without any. The count of failures
stops growing at the maximal backoff. The ratio checks are computed as in the
code, against the count of the last good version. The reconciler is the step
that reads the active entries. Feeds are handled one after another in a fixed
order, as the configuration lists them.

`runDry` is the code path of `sync --dry-run`: it evaluates tables and documents
with code of its own and writes nothing. It is evaluated just before each Run and
kept in the history variable `preview` until the Run ends; a document that changes
or a fetch that fails in between ends the comparison. A dry run that reads the
tables in the middle of the service's Run is not modelled. `recent` and `origin`
are history variables too: the last accepted documents of a feed and the
definition its entries come from.

### Desired

Addresses have `Width` bits, one family. A prefix is its address and length;
`Contains` and `Overlaps` are defined by the sets of addresses (they stand for
`net/netip`). Feeds and contributors do not influence which prefixes are desired.

### Prune

Times are reduced to what the statements ask of them: older than the cutoff or
not. Row ids may be reused after deletion, as `sync_runs` has no AUTOINCREMENT.
The modelled tables live the way the store's operations make them: plan,
operation, decisions, alerts, snapshot of a feed, Runs.

### Migrate

A release is the sequence of checksums of its migrations, and a checksum stands
for its SQL. SQLite is modelled as snapshot isolation with one writer: a
transaction that read an outdated snapshot cannot write. The step that hands out
a store is the step in which `SchemaHistory` moves; all other steps are stutters
of it.

### Scheduler

Times are relative to the deadline; `MaxLag` bounds how late a job may be.

### Service

A process is built (which may fail after any resource is open: `BuildFails`),
starts, recovers interrupted rows, checks, runs jobs and stops; a CLI sync begins,
runs and ends at any time beside it. A synchronization is one step with any of the
outcomes of `SyncResult`: every report the engine can return for the feeds of the
instance, with every error that can come with it, converted by `ResultFromSync`
and turned into events as the job does. Names, times and the counts of entries and
decisions are left out of results; the counts of feeds, which the conversion
compares, are kept. The record of a finished Run may fail or run into
`FinalizationTimeout`. `outage` is a history variable: how long the LAPI has been
failing, by the Runs' own reports. Ages stop growing at `Stale`, and only that of
a safe Run is kept. Rows are reused once no process knows them.

The shutdown has the steps of `Runtime.Run`: cancel the workers, join the
scheduler, close the listener, wait for request handlers until they are done
(`Drained`) or `ShutdownTimeout` is over (`ShutdownTimesOut`), join the HTTP
worker, close the resources. `Serve` returns when the listener is closed, so
joining the HTTP worker does not mean that its handlers have returned: after the
timeout one may still run while the store closes. `ClosedLast` says that the
process then ends with an error. docs/architecture.md:478 says "SQLite closes
after scheduler and HTTP workers stop."; the handlers read the tracker and the
metrics and never the store. A request before the shutdown changes nothing that is
modelled, so `RequestArrives` is a request that the shutdown meets.

### Notifications

One suspicious feed; ages stop growing at the cooldown; `MaxCount` stands for
the code's limit of 100 on a streak. A call to the database or the transport
fails at most `MaxFaults` times.

## Runs

| run | shows |
|---|---|
| `lifecycle` | `LedgerComplete`: every decision in force is in the ledger or belongs to an unverified operation, also after a crash, a lost answer or a request that arrives in a later Run; excepted are an alert created after recover had searched for it (`late`) and, as the server reports remaining durations, one that outlives the end noted for it (`NotedOver`). `RunRevokes`: apart from these a successful Run leaves nothing in force that is not desired. `OneActive`: never two active decisions for an object. `DeleteIsCovered`: a replaced decision is deleted only when its successor is verified |
| `keeps_banned` | `RunEnforces`, `NoGap`: with fewer failures in a row than `RefreshBefore` allows for, a wanted object stays banned. `OpenOpsResolve`: an interrupted operation is eventually completed or given up |
| `two_processes` | `LedgerProven`: two Reconcilers, call by call; every ledger row has one verified alert of a journal entry behind it, whichever process recorded it |
| `overlap` | counterexample to `OneActive` for two processes: service and CLI create two active decisions for one object. The finding quotes the document that excludes this |
| `feeds` | `ActiveIsRecent`: an entry is active exactly while one of the last accepted documents had it. `LastGoodKept`: only an accepted document changes entries. `PreviewHolds`: the dry run and the Run after it agree. `Converges`: the enforced entries become what the feed serves |
| `desired` | `NoCollateral`, `Covered` for all small inputs: nothing allowed or special is banned, and suppressing covered hosts loses no address |
| `prune` | `References`: no row points to a deleted one. `PlanAgrees`: the deletion does what the plan announced. `PreservesCurrent`: what is in use stays. `HistoryBounded` |
| `migrate` | `RecordedIsExecuted`: the record is what was executed. `OpenStoreKeepsSchema`: an open store never loses its schema. `OpensItsOwn`: a store is handed out over the caller's own migrations. `ImplementsHistory`: refinement of `SchemaHistory` |
| `scheduler` | `Anchored`, `NoReplay`: deadlines stay whole intervals from the first, missed ones are skipped; it stops (`Stops`) and recurs (`Recurs`) |
| `service` | `ClosedLast`: store and notifications close after the scheduler and the HTTP worker have returned; a handler outlives them only in a process that ends with an error. `TrackerBacked`: readiness never claims more than the database records. `GraceIsBounded`: an outage of the LAPI is tolerated for the grace period only. `NothingDropped`: every outcome of a Run has a valid result and valid events. `ReconciledCounts`: only a Run that reconciled counts as safe. `Exits`: a service told to stop ends |
| `notices` | `OneNotice`, `CooldownKept`, `RecoveryIsEarned`, and `PersistentIsTold`: a lasting problem is announced |
| `session` | `AtMostOnce`: one call never has its request carried out twice. `GoodTokenKept`: the cached token is given up only when it is about to expire or was itself rejected. `Returns`: every call returns |

Instances have one or two objects, feeds, problems and processes. This is where
the interactions are: two items of one batch, two operations of one object, two
feeds of one Run, two writers. The clock allows a decision to be made, to fall
due, to run out and to leave the search window. Symmetry (of tokens and row ids)
is used in runs without liveness only. Deadlock is checked in every run.

### Other instances

`FeedsRelease.cfg` passes and is run by hand: `Releases`, that a dropped entry is
eventually released, for servers without validators (with validators it is
violated, see below). `FeedsVouched.cfg` shows what `Converges` assumes of a
server: when a 304 may carry a validator of a document that was never served,
`RecordFeedNotModified` (`internal/syncer/engine.go:264`) stores it, later
requests ask for changes relative to that document, and a 304 in reply to them
keeps the document from ever being read. HTTP lets a 304 carry only the validators
of the document it confirms, so the run `feeds` excludes this.

`FeedTypeOK`, `PruneTypeOK`, `SchedulerTypeOK`, `ServiceTypeOK` and
`NotificationsTypeOK` hold on the instances of the runs; they are checked by adding
the invariant to the configuration.

### Divergences

The following configurations end in a counterexample, each at a place where the
code does something else than the repository says. They are run with the MC
module of their part.

| cfg | property | what happens | where | what is said |
|---|---|---|---|---|
| `RemainingDuration.cfg` | `OpenOpsResolve` | decisionExpiry returns ErrOwnership for a negative remaining duration, so expireOwned fails on a replaced decision that has run out, finishVerified never reaches CompleteOperation, and every later Run fails in recover at the same operation. | `internal/reconcile/reconcile.go:274` | docs/architecture.md:373 says: "Every remote mutation has a durable operation intent before the call and a recoverable terminal state after it." |
| `LostDelete.cfg` | `RunEnforces` | expireOwned sends the DELETE of a removal without any journal entry; when its answer is lost the ledger row stays active although the decision has ended, and once the object is wanted again Run skips it (the row is active and not due) and reports success while nothing is in force. | `internal/reconcile/reconcile.go:361` | docs/architecture.md:373 says: "Every remote mutation has a durable operation intent before the call and a recoverable terminal state after it." |
| `LatePost.cfg` | `LateIsKnown` | recover treats an empty search as proof that the alert was never created: the operation is created again, or set to failed when the object is no longer desired. A POST still on its way then creates a decision no record knows. `LateIsKnown` is `LedgerComplete` without the exception of late alerts. | `internal/reconcile/reconcile.go:470` | docs/architecture.md:447 says: "LAPI has no idempotency key. Every mutation therefore has a local operation record". |
| `OneBlocksAll.cfg` | `OthersProceed` | recover returns the error of the first operation it cannot prove, and Run returns before planning, so one unprovable operation stops all objects on every Run. | `internal/reconcile/reconcile.go:458` | docs/architecture.md:454 says: "if proof cannot be established within response limits, stop that operation and require operator review rather than risk duplication/deletion;" (that operation, not all). |
| `FeedsStuck.cfg` | `Releases` | The engine handles a 304 with RecordFeedNotModified, which leaves missing_runs alone. With missing_grace_runs 2 an entry that a document drops is counted once when the new document is accepted; every later retrieval that succeeds with 304 does not count, so the entry stays active and enforced until the document changes again. | `internal/syncer/engine.go:264` | docs/architecture.md:20 says: "Last-known-good preservation and two-successful-retrieval missing grace." |
| `FeedsMoved.cfg` | `NotModifiedIsOwn` | EnsureFeeds stores the new definition hash before the feed is fetched and leaves etag and last_modified. When that first fetch fails (or the Run ends before it), the next Run sees no change, sends the validators of the old URL to the new one and records its 304 as success. | `internal/syncer/engine.go:216` | internal/syncer/definition_test.go:82 calls the same answer an error: "unsolicited not-modified response was accepted", and docs/PROJECT_STATE.md:68 promises "unsolicited-304 rejection after definition changes". |
| `FeedsSelected.cfg` | `ChangedIsDue` | A Run with --feed X calls EnsureFeeds for all feeds and fetches X only, so another feed whose definition changed is not seen as changed by the next Run and waits for the minimum interval of the old definition. | `internal/syncer/engine.go:233` | internal/syncer/definition_test.go:124 rejects this: "changed definition remained blocked by old minimum interval". |
| `FeedsUnsolicited.cfg` | `IndependentFeeds` | A 304 to a request that carried no validators, for a known feed without a good version, makes RecordFeedNotModified find no row; the engine returns a state error before the remaining feeds and the reconciliation. | `internal/syncer/engine.go:264` | docs/architecture.md:328 says: "independent feeds continue.", and :229: "only 2xx accepted, with 304 supported when conditional metadata exists". |
| `FeedsRestart.cfg` | `CadenceKept` | An attempt is recorded only together with its outcome; a process that ends in between leaves last_attempt and next_attempt as they were and the restarted one fetches at once. | `internal/syncer/engine.go:245` | docs/architecture.md:237 says: "Restarting cannot bypass the cadence/backoff." |
| `SchedulerAnchor.cfg` | `MeasuredAfterJob` | Run advances the deadline by whole intervals from the first one, so a long cycle is followed by a wait shorter than the interval. | `internal/scheduler/scheduler.go:259` | docs/architecture.md:473 says: "Recurring intervals are measured after the previous job finishes, preventing catch-up overlap." |
| `ServiceRecover.cfg` | `OnlyInterrupted` | syncCLIEnforceWithOptions calls RecoverInterruptedSyncRuns, which sets every running row to failed, also that of a service in the middle of its job; the service's CompleteSyncRun then refuses the row and a Run that was safe is reported as a database failure. | `internal/app/operator.go:213` | docs/PROJECT_STATE.md:93 says: "Enforcing synchronization recovers interrupted runs". |
| `NotificationsRecovery.cfg` | `RecoveryIsTold` | handleFailure replaces the row when the category or feed changes and with it the memory that the earlier problem was announced; when the new one clears below the threshold, clearFailure sends nothing. | `internal/notify/manager.go:263` | docs/architecture.md:572 says: "one recovery notification after a notified problem clears;" |

One more is visible without a run. When the shutdown cancels the context between
the engine's return and `ListActiveDecisions` (`internal/app/job.go:209`), the
finished Run becomes a database failure, which enters the notification state;
docs/PROJECT_STATE.md:83 says: "Cancelled runs finalize without entering
notification state or transport." The outcome is among `JobOutcomes`.

### Fairness

- `Reconcile`: the scheduler starts Runs again and again and every call returns
  (requests have timeouts); a lost request is delivered or dropped; time passes.
- `FeedSync`: full Runs start again and again although other Runs may be in
  between (strong fairness), and time passes between them.
- `Scheduler`: time passes and jobs return. Go's `select` chooses among ready
  cases at random, so cancellation that stays ready is taken (strong fairness).
- `Service`: the main goroutine and the job of a process that is not killed make
  progress, `Serve` returns once the listener is closed, and `ShutdownTimeout` ends
  the wait for handlers, whether they return or not; a cancelled context stays ready in the scheduler's `select`, which
  takes it in the end (strong fairness).
- `LapiClient`: `requestTimeout` ends every request, so a call does not hang in
  it; Go's mutex hands over to a waiter that has waited for a millisecond, so none
  starves (strong fairness of each caller's steps).
- `Notifications`: results keep coming, calls are made, time passes.

Failures are finitely many in the liveness runs: no retry converges otherwise.

## Proofs

The reconciler, for all sets of objects, feeds, tokens and scopes, all bounds and
durations allowed by the named assumptions of `Lapi`, `EnforcementStore` and
`Reconcile`. Four inductive invariants, each built on the one before, carry the
theorems about one process; `ReconcileInvariant` also has what any step may do to
the server (`ServerStep`) and to the store (`StoreStep`), which the later ones
start from.

`ReconcileInvariant`:
- `TypeCorrect`: `Spec => []TypeOK`.
- `LedgerSingle`: `Spec => []OneActive`. With one process the ledger never has two
  active decisions for an object. A second one would make `activeByObject` refuse
  every later plan for all objects.

`OneActive` is not inductive: `RecordVerifiedOperation` activates a decision
without looking for another active one. The invariant `IndInv`
adds why there is none. No two unverified operations share an object. The only
decision that may be active for an object of an unverified operation is the one
that operation replaces. Recovery has every open operation in hand before
anything is planned, and a planned action still matches the ledger until its
operation is in the journal. `ControlOK` says which locals mean something where.
The proof has one step per action. `overlap` shows that the theorem needs the
assumption of one process.

`ReconcileProofs`:
- `DeleteCovered`: `DeleteIsCovered`, with late requests, lost answers and either
  kind of server. The Run that sends it may be recovering an operation that another
  Run verified, so `ReplaceInv` keeps what justifies it: every alert and every request was
  journalled before with the same content, a decision that a verified operation
  replaces stays settled, the operation's own alert stays active until it is
  replaced in turn (`ReplacementActive`) and was verified to last as long
  (`ReplacementLasts`), and the expiry of a removal is of an object this Run read as
  unwanted (`RunKnows`, `ExpireLiveRow`).
- `SteadyObjectsEnforced`: for an object that every plan wants (`Steady`), every
  successful Run ends with an active decision that lasts beyond the time the Run read
  at its start (unless somebody else removed its alert), whatever other objects do;
  `RunsEnforce`: `RunEnforces` when all objects are such. `EnforceInv` adds that the recorded expiries are not
  later than the real ones (`ReadingsSafe`), that no DELETE is on its way for an
  active decision of such an object (`DeletesInactive`), and that a Run without an
  error has planned, is creating or has recorded each (`Covered`). The hypothesis is
  needed: `LostDelete.cfg` shows `RunEnforces` violated by an object that goes and
  comes back. The run `keeps_banned` is an instance of it.

`LedgerProofs`, assuming `Duration <= Window` only. This is how the client is
written: a decision lasts at most `maxDecisionDuration`, and a search looks that far
back. Requests may stay on their way across Runs, and the server may be of either
kind.
- `LedgerKnowsAll`: `LedgerComplete`. An operation is given up, or created again,
  because a search found nothing, so `KnownInv` says why the search can be believed:
  a creation that is on its way belongs to an unverified operation that the Run does
  not wait for, or a search has overtaken it (`PostsApart`), an alert in force is
  young enough to be found (`Timely`), by its token, and is the only one that is not
  late (`Lonely`). A row leaves the ledger's live states when its decision has ended
  (`Lonely`) or the end noted for it has passed (`RenewOver`). For a server that
  reports instants the second implies the first (`Timely`); one that reports
  remaining durations makes the Run note an end that is early by the time since the
  Run started (`internal/reconcile/reconcile.go:278` adds the duration to `now`), and the decision may
  outlive its row by that time (`NotedOver`). `LatePost.cfg` shows that the exception
  of late alerts is needed.
- `RunsRevoke`: `RunRevokes`. By `LedgerKnowsAll` what is in force is late, noted as
  over, or has a live row or an open operation; `RevokeInv` adds that a Run without an error ends with no open
  operation (`BatchesClean`), that a row is `expiring` only for a verified one
  (`ExpiringOwned`), and that the active rows of unwanted objects are those still to
  be removed (`RemovalsLeft`).

`LedgerProofs`, without that assumption:
- `BansOnlyRunOut`: `OnlyTimeEnds`. For an object that every plan wants, no step of a
  Run, no crash and no request that arrives late takes the last decision in force
  away; only time does, or somebody who deletes an alert of ours. A DELETE may be
  on its way while other Runs replace decisions again, so what justified it when it
  was sent is not enough: the decision it is for is either over by then
  (`MarkedOver`) or still owned by a verified operation (`ExpiringOwned`), whose own
  decision is active, lasts at least as long and is the target of no DELETE. This is
  the part of `NoGap` that does not depend on when Runs start. It was model-checked
  before the proof, as were `MarkedOver` and `ExpiringOwned`, with one object, two
  feeds, two faults, interference and requests that stay on their way across Runs
  (5,953,168 states).

`TwoProcessesProofs`, for two processes and all values of the constants:
- `LedgerProvenBoth`: `SpecBoth => []LedgerProven`, and `TypesBoth`.
- `NothingReopened`: neither process reopens or rewrites an operation of the journal
  or revives a decision of the ledger (`MovesOn`), whatever the other one wrote
  between its reading and its transaction.

`IndInv` does not hold with two processes (`overlap`), so the argument is a rely and
guarantee one from weaker facts. What all processes keep is `SharedOK`: the types, `LedgerProven`,
and that every row's alert carries a token. What a process knows of its own Run is
`RunOK`: where it is, that its plan names decisions, and that the operations it has in
hand are in the journal. Each process keeps `SharedOK` (`SharedStep`) and its `RunOK`
(`OwnStep`), and takes back neither the token of an alert nor what is in the journal
(`Lasting`); given that of the other, its `RunOK` survives the other's steps
(`OthersStep`). The lemmas are proved once, about `Reconcile`, and used for both
processes, for the second through the instance `Cli`. The key step is `Record`: it
writes rows only for an operation that nobody has recorded, so the rows it adds are
the first of that operation.

`PlanProofs`, about `FeedSync`, for any feeds, entries, documents, limits and
`MissingGraceRuns`:
- `GraceIsExact`: `ActiveIsRecent`. The code keeps a counter per entry and no
  documents, so the invariant (`FeedInv`) says what the counter means: an active
  entry's `missing_runs` is the number of accepted documents since the last that
  had it, and an inactive entry was in none of those remembered. `KeptShifts` and
  `SnapshotCounts` carry it over `ApplyFeedSnapshot`.
- `PreviewAgrees`: `PreviewHolds`. Run and dry run look at all feeds at different
  moments, so the invariant (`PreviewInv`) splits the announcement: handled feeds
  contribute what is active in the table, pending ones what their document is going
  to contribute (`Share`), and every step moves one feed from one side to the other
  without a change of the whole. At `Reconcile` none is pending.
- `LastGood`: `LastGoodKept`.

`PlanProofs`, about `Desired`, for every address width, special list, allowlist
and candidates:
- `PlanIsHarmless`: `NoCollateral`, and `PlanIsComplete`: `Covered`. The invariant
  is that the plan is `BuildDesired` of the present inputs. A range that covers a
  host is not itself a host, hence never suppressed by the same pass, and a host
  is one address. `DesiredAssumption` states that a prefix of full length has one
  address (`2^0 = 1`), which the provers do not compute.

`ClockProofs`, about `LapiClient`, for any callers, tokens and lifetimes:
- `AtMostOnceThm`: `AtMostOnce`, and `GoodTokenKeptThm`: `GoodTokenKept`. The
  invariant (`ClientInv`): a call that goes on has not been carried out; whoever
  logs in has the mutex, and there is no cached token meanwhile; whoever refreshes
  holds a token that the server refused.

`StoreProofs`, about `Migrate`, for any processes and releases (sequences of
checksums):
- `RecordedThm`, `OpenStoreThm`, `OpensItsOwnThm`: the properties of the run, and
  `ImplementsHistoryThm`: `Migrate` implements `SchemaHistory`. The invariant
  relates each transaction's own copy of the file to its snapshot and to the
  committed file: every snapshot is a prefix of the committed file and a writer's is
  the file itself, what a loop has applied is its release up to the current item,
  and rows and schema are the same sequence everywhere.

`StoreProofs`, about `Prune`, for any rows of any tables and any limits:
- `ReferencesThm`, `PlanAgreesThm`, `PreservesCurrentThm`, `HistoryBoundedThm`: the
  properties of the run. `References` is inductive with the types and the two
  primary keys it needs (`Keys`: a Run's id, an operation's token): the deletions
  look rows up by these keys, and with two rows of one key a deletion could spare
  the row that is referred to and take the other. `PlanAgrees` compares two
  computations, the plan from the tables as they are and the deletion from tables
  that the deletions before it changed: the items that the cascade leaves are those
  the plan expects to remain (`CascadeAsPlanned`), and with them every selection is
  one of the state before (`Taken`). `HistoryBounded` rests on `LimitBounds`: of
  finitely many rows with different ids, those with fewer than n newer ones are at
  most n (the oldest of them has the others among its newer ones).

`ClockProofs`, about `Scheduler`, for any interval, jitter, lateness and retry policy that
`validRetry` accepts (at most ten attempts):
- `AnchoredThm`: `Anchored`, and `NoReplayThm`: `NoReplay`. Deadlines are advanced
  by a quotient of the lateness, which is right only when a job does not start
  before its deadline; the invariant (`SchedulerInv`) adds that it never does, and
  how late it is at most after each attempt (`Late`), which keeps the times in their
  types. `InPhase` states the phase as a multiple of the interval, from which the
  remainder in `Anchored` follows. The backoff is a recursive function; its values
  are found by an explicit one over the at most ten attempts.

`ServiceProofs`, for any feeds, rows of `sync_runs` and limits with
`LAPIOutageGrace <= MaxSyncAge`, as `health.New` requires:
- `ClosedLastThm`: `ClosedLast`, from where main is when workers and handlers run
  and what it has noted as an error by then (`Order`).
- `TrackerBackedThm`: `TrackerBacked`, and `ReconciledCountsThm`:
  `ReconciledCounts`. Both hinge on what a result means between its making and its
  observation, while a command may recover the job's row: in between, a result is
  safe exactly when the reconciliation finished and the row was completed, and then
  the database's last safe Run is as recent (`Judged`); service and command never
  hold the same row, and only the holder completes it (`Claims`).
- `GraceIsBoundedThm`: `GraceIsBounded`. The tracker's outage is at least as old as
  the one the Runs reported (`Outages`): failures that repeat do not move it.
- `NothingDroppedThm`: `NothingDropped`. `OutcomesFaithful` goes through the causes
  a Run may have, for any set of feeds: the counts that `ResultFromSync` compares
  always agree with the error that came with them (`CountersAgree`), so no report is
  refused; `EventsValid` does the same for the events.

`ClockProofs`, about `Notifications`, for any problems, thresholds, cooldowns and
numbers of faults:
- `OneNoticeThm`: `OneNotice`. In an open streak each delivered notice but the one
  the row remembers took a fault (`Counted`), also while a notice is on its way
  (`InFlight`).
- `CooldownKeptThm`: `CooldownKept`. The age in a row is never more than the time
  since the last attempt (`Paced`); for the failure row only in a streak that had an
  attempt, since the row is replaced when the problem changes.
- `RecoveryIsEarnedThm`: `RecoveryIsEarned`. What the row remembers as announced, or
  owes a recovery, was delivered or may have been (`Earned`).

Only model-checked: the liveness properties (`OpenOpsResolve`, `Converges`, `Stops`,
`Recurs`, `Exits`, `PersistentIsTold`, `Returns`), which are outside the prover's
reach, and of the safety properties `NoGap` of `Reconcile`. For an object that every
plan wants, `BansOnlyRunOut` proves that no step breaks it but the passing of time or
somebody who deletes an alert of ours; that time does not either rests on
how often Runs start, how many of them fail in a row, and on tokens and alert numbers
not running out, which are bounds of the model: it is not true for every value of the
constants.

What the properties do not cover:
- `RunEnforces` of an object that goes and comes back (`LostDelete.cfg`), and
  `OpenOpsResolve` for a server that reports remaining durations
  (`RemainingDuration.cfg`): both are violated there.
- `PersistentIsTold` asks for one notice of a lasting problem; that a second streak,
  after a recovery, is announced too is not stated.
- `NothingDropped` is about outcomes and failure categories. Names and counts in
  events, and the `feed_result` events of single feeds, are not in the model.
- `TrackerBacked` and `CooldownKept` compare times in whole ticks; two writes within
  one second of the stored times are the same instant.

## Not modelled

- Parsing of feeds and configuration, normalisation of addresses from text, HTTP
  and JSON, credentials: functions from bytes to values without state that a later
  step reads. Which outcome they have is a choice in the models.
- Log and metric output, text of notices, argument handling, read-only commands,
  build information: output that nothing in the system reads back.
- The dry run of the reconciler: it counts what a Run would do for the objects it
  is given, from the stored objects and active decisions, and returns.
- The mock server is a test fixture; `Lapi` is read from it.
- Metrics could be modelled as counters, but a metric is set from the result of a
  Run in one statement, and a property of it would restate that statement.

## Plan

1. An abstract ledger of bans that `Reconcile` implements.
2. A composition of `FeedSync` and `Reconcile`: from a feed dropping an entry to
   the end of its decision.
3. A proof of `NoGap` for a model whose tokens and alert numbers do not run out.

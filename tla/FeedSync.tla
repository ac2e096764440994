------------------------------ MODULE FeedSync ------------------------------
(***************************************************************************)
(* internal/syncer/engine.go on the feed tables of                         *)
(* internal/state/feed_repository.go: a Run brings the stored definitions  *)
(* in line with the configuration, fetches every selected feed that is     *)
(* due, accepts or refuses what it gets, and hands the active entries to   *)
(* the reconciler.  The configuration changes between Runs (a restart),    *)
(* the documents behind the URLs at any time, and the process may crash.   *)
(*                                                                         *)
(* A Run reads the clock once, so it takes no time here; times are kept    *)
(* relative to now: "age" since the last success, "wait" until the next    *)
(* attempt.                                                                *)
(***************************************************************************)
EXTENDS Integers, FiniteSets, Sequences

CONSTANTS
    Feed,               \* feed names
    NoFeed,
    Definition,         \* definition_hash: URL and policy of a feed
    NoDefinition,
    Entry,              \* canonical prefixes
    Configs,            \* configurations an operator may start with
    Documents,          \* what a URL may serve: sets of entries
    MinEntries, MaxEntries,
    MaxGrowth, MaxShrink,        \* change ratios in percent
    MissingGraceRuns,
    MinUpdateInterval, InitialBackoff, MaxBackoff,
    RetryAfter,         \* delays a server may ask for, 0 among them
    Validating,         \* TRUE: servers send validators (ETag, Last-Modified)
    Unsolicited,        \* servers answer 304 to unconditional requests "never",
                        \*   "bare", or "vouching" for a document they did not send
    Selective,          \* TRUE: operators run "sync --feed NAME"
    MaxEdit,            \* bound on edits of configuration and documents
    MaxFault            \* bound on failures and on such answers

ASSUME FeedAssumption ==
    /\ NoFeed \notin Feed /\ NoDefinition \notin Definition
    /\ Documents \subseteq SUBSET Entry
    /\ Configs \subseteq [Feed -> [def: Definition \cup {NoDefinition},
                                   enabled: BOOLEAN]]
    /\ MinEntries \in Nat \ {0} /\ MaxEntries \in Nat
    /\ MaxGrowth \in Nat /\ MaxShrink \in 1..100 /\ MaxGrowth >= 100
    /\ MissingGraceRuns \in Nat \ {0} /\ MinUpdateInterval \in Nat \ {0}
    /\ InitialBackoff \in Nat \ {0} /\ MaxBackoff \in Nat
    /\ InitialBackoff <= MaxBackoff
    /\ RetryAfter \subseteq Nat /\ 0 \in RetryAfter
    /\ Validating \in BOOLEAN /\ Unsolicited \in {"never", "bare", "vouching"}
    /\ Selective \in BOOLEAN

VARIABLES
    config,   \* the configuration of the running process
    site,     \* site[d]: the document behind the URL of definition d
    rows,     \* table feeds
    entries,  \* table feed_entries
    pc,
    changed,  \* definitionChanged
    todo,     \* feeds the Run has still to handle
    cur,      \* the feed whose answer the Run waits for
    plan,     \* the entries the last reconciliation was asked to enforce
    edits, faults,
    \* History, not in the program:
    recent,   \* recent[f]: the last accepted snapshots, newest first
    origin,   \* origin[f]: the definition the newest of them came from
    quiet,    \* quiet[f]: time since the last request (at most the interval)
    preview   \* what a dry run just before this Run announced, while the Run
              \*   has met the same documents; a set of at most one plan

localVars == <<pc, changed, todo, cur>>
historyVars == <<recent, origin, quiet, preview>>
vars == <<config, site, rows, entries, plan, edits, faults, localVars,
          historyVars>>

NoValidator == <<NoDefinition, {}>>

\* A validator (ETag, Last-Modified) stands for the document it came with.
Validator == (Definition \X Documents) \cup {NoValidator}

Row == [known: BOOLEAN, def: Definition \cup {NoDefinition}, enabled: BOOLEAN,
        validator: Validator, good: BOOLEAN, accepted: 0..Cardinality(Entry),
        failures: 0..MaxBackoff, age: 0..MinUpdateInterval, wait: Nat]

EntryRow == [active: BOOLEAN, missing: 0..MissingGraceRuns]

\* Types of the tables, the Run's locals and the history.
FeedTypeOK ==
    /\ config \in Configs
    /\ site \in [Definition -> Documents]
    /\ rows \in [Feed -> Row]
    /\ entries \in [Feed -> [Entry -> EntryRow]]
    /\ pc \in {"idle", "feeds", "answer"}
    /\ changed \in [Feed -> BOOLEAN]
    /\ todo \subseteq Feed /\ cur \in Feed \cup {NoFeed}
    /\ plan \subseteq Entry
    /\ edits \in 0..MaxEdit /\ faults \in 0..MaxFault
    /\ \A f \in Feed : recent[f] \in Seq(Documents)
    /\ origin \in [Feed -> Definition \cup {NoDefinition}]
    /\ quiet \in [Feed -> 0..MinUpdateInterval]
    /\ preview \subseteq SUBSET Entry

FeedInit ==
    /\ config \in Configs
    /\ site \in [Definition -> Documents]
    /\ rows = [f \in Feed |->
                [known |-> FALSE, def |-> NoDefinition, enabled |-> FALSE,
                 validator |-> NoValidator, good |-> FALSE, accepted |-> 0,
                 failures |-> 0, age |-> MinUpdateInterval, wait |-> 0]]
    /\ entries = [f \in Feed |->
                    [e \in Entry |-> [active |-> FALSE, missing |-> 0]]]
    /\ pc = "idle" /\ todo = {} /\ cur = NoFeed
    /\ changed = [f \in Feed |-> FALSE]
    /\ plan = {} /\ edits = 0 /\ faults = 0
    /\ recent = [f \in Feed |-> <<>>]
    /\ origin = [f \in Feed |-> NoDefinition]
    /\ quiet = [f \in Feed |-> MinUpdateInterval]
    /\ preview = {}

-----------------------------------------------------------------------------
(* Transactions of the store.                                              *)

Configured(f) == config[f].def # NoDefinition

\* Feeds that are not configured any more are only disabled.
EnsureFeeds ==
    [f \in Feed |->
        IF Configured(f)
        THEN [rows[f] EXCEPT !.known = TRUE, !.def = config[f].def,
                             !.enabled = config[f].enabled]
        ELSE [rows[f] EXCEPT !.enabled = FALSE]]

\* Faulty: an entry is kept for one snapshot more.
SnapshotEntryLate(row, present) ==
    IF present THEN [active |-> TRUE, missing |-> 0]
    ELSE IF row.active /\ row.missing < MissingGraceRuns
    THEN [active |-> TRUE, missing |-> row.missing + 1]
    ELSE [active |-> FALSE, missing |-> row.missing]

\* One entry when a snapshot is accepted.
SnapshotEntry(row, present) ==
    IF present THEN [active |-> TRUE, missing |-> 0]
    ELSE IF row.active
    THEN [active |-> row.missing + 1 < MissingGraceRuns,
          missing |-> row.missing + 1]
    ELSE row

\* Faulty: the count the next change is measured against is not updated.
ApplyFeedSnapshotStale(f, document, validator) ==
    /\ entries' = [entries EXCEPT ![f] =
                    [e \in Entry |->
                        SnapshotEntry(entries[f][e], e \in document)]]
    /\ rows' = [rows EXCEPT ![f].validator = validator, ![f].good = TRUE,
                            ![f].failures = 0, ![f].age = 0, ![f].wait = 0]

ApplyFeedSnapshot(f, document, validator) ==
    /\ entries' = [entries EXCEPT ![f] =
                    [e \in Entry |->
                        SnapshotEntry(entries[f][e], e \in document)]]
    /\ rows' = [rows EXCEPT ![f].validator = validator, ![f].good = TRUE,
                            ![f].accepted = Cardinality(document),
                            ![f].failures = 0, ![f].age = 0, ![f].wait = 0]

\* An answer without validators leaves the stored ones.
RecordFeedNotModified(f, validator) ==
    rows' = [rows EXCEPT
                ![f].validator = IF validator = NoValidator THEN @ ELSE validator,
                ![f].failures = 0, ![f].age = 0, ![f].wait = 0]

\* The delay doubles with every failure, up to a maximum that only a request
\* of the server may exceed.
retryDelay(failures, requested) ==
    LET delay[n \in 0..failures] ==
            IF n = 0 THEN InitialBackoff
            ELSE IF delay[n - 1] > MaxBackoff \div 2 THEN MaxBackoff
            ELSE 2 * delay[n - 1]
    IN  IF requested > delay[failures] THEN requested ELSE delay[failures]

\* consecutive_failures counts on; beyond MaxBackoff no delay depends on it.
RecordFeedFailure(f, requested) ==
    rows' = [rows EXCEPT
                ![f].failures = IF @ < MaxBackoff THEN @ + 1 ELSE @,
                ![f].wait = retryDelay(rows[f].failures, requested)]

ListActiveEntries ==
    {e \in Entry : \E f \in Feed : rows[f].enabled /\ entries[f][e].active}

-----------------------------------------------------------------------------
(* What a Run and a dry run have in common.                                *)

DefinitionChanged(f) ==
    \/ ~rows[f].known
    \/ rows[f].def # config[f].def
    \/ rows[f].enabled # config[f].enabled

\* Faulty: a feed whose definition is not new never becomes due.
DueBoth(f, new) ==
    new /\ rows[f].age >= MinUpdateInterval /\ rows[f].wait = 0

\* A feed with a new definition is fetched at once.
Due(f, new) ==
    \/ new
    \/ rows[f].age >= MinUpdateInterval /\ rows[f].wait = 0

\* What the request carries.
Sent(f, new) == IF new THEN NoValidator ELSE rows[f].validator

\* Validate: absolute bounds, then the change against the previous count.
Acceptable(count, previous) ==
    /\ count \in MinEntries..MaxEntries
    /\ previous > 0 => /\ 100 * count <= MaxGrowth * previous
                       /\ 100 * count >= MaxShrink * previous

Document(f) == site[config[f].def]

Accepted(f, new) ==
    Acceptable(Cardinality(Document(f)), IF new THEN 0 ELSE rows[f].accepted)

\* The server confirms the document that the validators came with.
Confirmed(f, new) == Sent(f, new) = <<config[f].def, Document(f)>>

-----------------------------------------------------------------------------
(* `sync --dry-run`, on a database that is only read.                      *)

\* Faulty: a new document is added to the entries it replaces.
runDryAdds(selected) ==
    UNION {
        LET new == DefinitionChanged(f)
            old == IF rows[f].enabled THEN {e \in Entry : entries[f][e].active} ELSE {}
        IN  IF /\ f \in selected /\ Due(f, new)
               /\ ~Confirmed(f, new) /\ Accepted(f, new)
            THEN old \cup Document(f) ELSE old :
        f \in {g \in Feed : Configured(g) /\ config[g].enabled}}

\* The entries of the enabled feeds, those of a feed replaced by the document
\* that is accepted for it.
runDry(selected) ==
    UNION {
        LET new == DefinitionChanged(f)
            old == IF rows[f].enabled THEN {e \in Entry : entries[f][e].active} ELSE {}
        IN  IF /\ f \in selected /\ Due(f, new)
               /\ ~Confirmed(f, new) /\ Accepted(f, new)
            THEN Document(f) ELSE old :
        f \in {g \in Feed : Configured(g) /\ config[g].enabled}}

-----------------------------------------------------------------------------
(* Engine.Run.                                                             *)

\* ListFeeds and EnsureFeeds: the new definitions are stored before anything
\* is fetched.  A Run may be told to handle one configured feed only.
StartRun(selected) ==
    /\ pc = "idle"
    /\ \/ selected = Feed
       \/ Selective /\ \E f \in Feed : Configured(f) /\ selected = {f}
    /\ changed' = [f \in Feed |-> Configured(f) /\ DefinitionChanged(f)]
    /\ rows' = EnsureFeeds
    /\ todo' = {f \in selected : Configured(f) /\ config[f].enabled}
    /\ pc' = "feeds"
    /\ preview' = {runDry(selected)}
    /\ UNCHANGED <<config, site, entries, cur, plan, edits, faults, recent, origin,
                   quiet>>

\* The configuration lists the feeds in some order.
IsNext(f) == f \in todo /\ f = CHOOSE g \in todo : TRUE

NotDue(f) ==
    /\ pc = "feeds" /\ IsNext(f) /\ ~Due(f, changed[f])
    /\ todo' = todo \ {f}
    /\ UNCHANGED <<config, site, rows, entries, pc, changed, cur, plan,
                   edits, faults, historyVars>>

Fetch(f) ==
    /\ pc = "feeds" /\ IsNext(f) /\ Due(f, changed[f])
    /\ cur' = f /\ pc' = "answer"
    /\ todo' = todo \ {f}
    /\ quiet' = [quiet EXCEPT ![f] = 0]
    /\ UNCHANGED <<config, site, rows, entries, changed, plan, edits,
                   faults, recent, origin, preview>>

\* The server's choice.  It knows its own validators; one of another document
\* may be a date after its last change.
MayAnswer304(f) ==
    LET sent == Sent(f, changed[f]) IN
    \/ Confirmed(f, changed[f])
    \/ sent # NoValidator /\ sent[1] # config[f].def
    \/ Unsolicited # "never" /\ sent = NoValidator /\ faults < MaxFault

\* An answer that no request asked for is a fault of the server.
Unasked == Sent(cur, changed[cur]) = NoValidator
Counted304 == faults' = IF Unasked THEN faults + 1 ELSE faults

MayAnswer200(f) == ~Confirmed(f, changed[f])

\* responseValidators: a server that has validators may leave them out.
ResponseValidators(f) ==
    {NoValidator} \cup
        IF Validating THEN {<<config[f].def, Document(f)>>} ELSE {}

FeedDone ==
    /\ pc' = "feeds" /\ cur' = NoFeed
    /\ UNCHANGED <<config, site, changed, todo, plan, edits, quiet>>

\* A failure of the feed is recorded and the Run goes on with the others.
FeedFails(requested) ==
    /\ RecordFeedFailure(cur, requested)
    /\ FeedDone
    /\ UNCHANGED <<entries, recent, origin>>

AcceptSnapshot ==
    /\ pc = "answer"
    /\ MayAnswer200(cur) /\ Accepted(cur, changed[cur])
    /\ \E v \in ResponseValidators(cur) :
            ApplyFeedSnapshot(cur, Document(cur), v)
    /\ recent' = [recent EXCEPT ![cur] =
                    SubSeq(<<Document(cur)>> \o @, 1,
                           IF Len(@) < MissingGraceRuns THEN Len(@) + 1
                           ELSE MissingGraceRuns)]
    /\ origin' = [origin EXCEPT ![cur] = config[cur].def]
    /\ FeedDone
    /\ UNCHANGED <<faults, preview>>

\* Too few or too many entries, or too large a change.
RefuseSnapshot ==
    /\ pc = "answer"
    /\ MayAnswer200(cur) /\ ~Accepted(cur, changed[cur])
    /\ FeedFails(0)
    /\ UNCHANGED <<faults, preview>>

FetchFails ==
    /\ pc = "answer"
    /\ faults < MaxFault /\ faults' = faults + 1
    /\ \E requested \in RetryAfter : FeedFails(requested)
    /\ preview' = {}

UnsolicitedNotModified ==
    /\ pc = "answer"
    /\ MayAnswer304(cur) /\ changed[cur]
    /\ Counted304
    /\ FeedFails(0)
    /\ preview' = {}

\* The answer may carry the validator of the document now behind the URL.
NotModified ==
    /\ pc = "answer"
    /\ MayAnswer304(cur) /\ ~changed[cur]
    /\ rows[cur].good
    /\ \E v \in ResponseValidators(cur) :
            /\ Unasked /\ Unsolicited = "bare" => v = NoValidator
            /\ RecordFeedNotModified(cur, v)
    /\ Counted304
    /\ FeedDone
    /\ preview' = IF Confirmed(cur, changed[cur]) THEN preview ELSE {}
    /\ UNCHANGED <<entries, recent, origin>>

Return ==
    /\ pc' = "idle" /\ cur' = NoFeed /\ todo' = {}
    /\ changed' = [f \in Feed |-> FALSE]
    /\ preview' = {}
    /\ UNCHANGED <<recent, origin, quiet>>

\* RecordFeedNotModified finds no row with a good version: a state error,
\* which ends the Run.
NotModifiedRefused ==
    /\ pc = "answer"
    /\ MayAnswer304(cur) /\ ~changed[cur]
    /\ ~rows[cur].good
    /\ Counted304
    /\ Return
    /\ UNCHANGED <<config, site, rows, entries, plan, edits>>

\* reconciler.Run with all active entries, whichever feeds were selected.
Reconcile ==
    /\ pc = "feeds" /\ todo = {}
    /\ plan' = ListActiveEntries
    /\ Return
    /\ UNCHANGED <<config, site, rows, entries, edits, faults>>

-----------------------------------------------------------------------------
(* The process and the world.                                              *)

Crash ==
    /\ pc # "idle"
    /\ faults < MaxFault /\ faults' = faults + 1
    /\ Return
    /\ UNCHANGED <<config, site, rows, entries, plan, edits>>

Edit ==
    /\ edits < MaxEdit /\ edits' = edits + 1

Reconfigure ==
    /\ pc = "idle"
    /\ Edit
    /\ config' \in Configs \ {config}
    /\ UNCHANGED <<site, rows, entries, plan, faults, localVars, historyVars>>

Publish(d) ==
    /\ Edit
    /\ \E document \in Documents \ {site[d]} :
            site' = [site EXCEPT ![d] = document]
    /\ preview' = {}
    /\ UNCHANGED <<config, rows, entries, plan, faults, localVars, recent, origin,
                   quiet>>

Elapse(t) == IF t < MinUpdateInterval THEN t + 1 ELSE t

Tick ==
    /\ pc = "idle"
    /\ rows' = [f \in Feed |->
                [rows[f] EXCEPT !.age = Elapse(@),
                                !.wait = IF @ > 0 THEN @ - 1 ELSE 0]]
    /\ quiet' = [f \in Feed |-> Elapse(quiet[f])]
    /\ <<rows, quiet>>' # <<rows, quiet>>
    /\ UNCHANGED <<config, site, entries, plan, edits, faults, localVars, recent,
                   origin, preview>>

HandleFeed ==
    \/ \E f \in Feed : NotDue(f) \/ Fetch(f)
    \/ AcceptSnapshot \/ RefuseSnapshot \/ FetchFails
    \/ UnsolicitedNotModified \/ NotModified \/ NotModifiedRefused

Step == HandleFeed \/ Reconcile

FeedNext ==
    \/ \E selected \in SUBSET Feed : StartRun(selected)
    \/ Step \/ Crash \/ Reconfigure \/ Tick
    \/ \E d \in Definition : Publish(d)

FeedSpec == FeedInit /\ [][FeedNext]_vars

\* A Run that started goes on, the scheduler starts full Runs again and again,
\* and time passes between them.
FeedFairness ==
    /\ WF_vars(Step)
    /\ SF_vars(StartRun(Feed))
    /\ SF_vars(Tick)

FairFeedSpec == FeedSpec /\ FeedFairness

-----------------------------------------------------------------------------
(* Properties.                                                             *)

\* Missing grace, over any mix of accepted, refused, unchanged and failed
\* fetches, crashes and restarts: an entry of a feed is active exactly when
\* one of the last MissingGraceRuns accepted snapshots had it.
ActiveIsRecent ==
    \A f \in Feed, e \in Entry :
        entries[f][e].active <=> \E i \in DOMAIN recent[f] : e \in recent[f][i]

\* A failed or refused fetch, a 304 and a crash change no entry: the tables
\* of two different feeds never change in one step, and entries only change
\* together with the success of their own feed and with the count that the
\* next change is measured against.
LastGoodKept ==
    [][\A f \in Feed : entries'[f] # entries[f] =>
            /\ \A g \in Feed \ {f} : entries'[g] = entries[g]
            /\ rows'[f].age = 0 /\ rows'[f].wait = 0
            /\ rows'[f].accepted = Cardinality(recent'[f][1])]_vars

\* A dry run announces nothing that the Run after it does not enforce, and of
\* what it leaves out the Run enforces only entries that are in their grace or
\* that a feed had before its definition changed: read-only and read-write
\* evaluation of the same tables and documents agree.
PreviewHolds ==
    [][Reconcile => \A announced \in preview :
            /\ announced \subseteq plan'
            /\ \A e \in plan' \ announced : \E f \in Feed :
                    /\ rows[f].enabled /\ entries[f][e].active
                    /\ entries[f][e].missing > 0 \/ changed[f]]_vars

\* A feed whose document stays acceptable ends up enforced: once operators
\* and servers leave it alone, the plan has all its entries for good.
Converges ==
    \A f \in Feed :
        <>[](/\ Configured(f) /\ config[f].enabled
             /\ Cardinality(Document(f)) \in MinEntries..MaxEntries)
            => <>[](Configured(f) /\ Document(f) \subseteq plan)

\* What no feed has is not enforced for ever: an entry that no enabled feed
\* serves any more leaves the plan after the grace.
Releases ==
    \A e \in Entry :
        <>[](\A f \in Feed : Configured(f) /\ config[f].enabled =>
                /\ e \notin Document(f)
                /\ Cardinality(Document(f)) \in MinEntries..MaxEntries)
            => <>[](e \notin plan)

\* A 304 is accepted only for a snapshot of the definition that was asked.
NotModifiedIsOwn == [][NotModified => origin[cur] = config[cur].def]_vars

\* A changed definition is not held back by the interval that started with
\* the last success of the old one.
ChangedIsDue ==
    \A f \in todo :
        pc = "feeds" /\ rows[f].good /\ origin[f] # config[f].def
            /\ rows[f].wait = 0 => Due(f, changed[f])

\* Whatever the servers answer, a Run goes on to the other feeds and to the
\* reconciliation: a 304 always finds a good version to confirm.
IndependentFeeds ==
    pc = "answer" /\ ~changed[cur] /\ MayAnswer304(cur) => rows[cur].good

\* Restarting does not bypass the cadence: an unchanged feed is not asked
\* again before its shortest delay is over.
CadenceKept ==
    [][\A f \in Feed : Fetch(f) =>
            \/ changed[f]
            \/ quiet[f] >= InitialBackoff \/ quiet[f] >= MinUpdateInterval]_vars
=============================================================================

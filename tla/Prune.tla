------------------------------- MODULE Prune --------------------------------
(***************************************************************************)
(* internal/state/prune.go: deletion of old history, run by the service at *)
(* start and by `crowdshield prune --confirm`, and the plan that           *)
(* `crowdshield prune` prints.  The tables fill the way the reconciler and *)
(* the jobs fill them; of a time only its relation to the cutoff           *)
(* (now - retention) is kept: a row is "old" when its time lies before it. *)
(***************************************************************************)
EXTENDS Integers, FiniteSets

CONSTANTS
    Op, Decision, Alert, Object, Entry,  \* row identities
    None,
    MaxRuns,            \* bound on rows of sync_runs, numbered by start
    MaxHistoryEntries

ASSUME PruneAssumption ==
    /\ None \notin Decision
    /\ MaxRuns \in Nat /\ MaxHistoryEntries \in Nat \ {0}

VARIABLES
    runs,       \* sync_runs: set of [id, status, old]
    ops,        \* lapi_operations: set of [token, status, old]
    items,      \* lapi_operation_items: set of [token, object, replaces]
    decisions,  \* lapi_decisions: set of [id, object, alert, status, seen,
                \*   over]; verified_at, expires_at before the cutoff
    alerts,     \* lapi_alerts: set of [id, old]
    objects,    \* enforcement_objects: set of [id, desired, old]
    entries     \* feed_entries: set of [id, active, old]

tables == <<runs, ops, items, decisions, alerts, objects, entries>>

Terminal == {"success", "degraded", "failed", "cancelled"}
Open == {"pending", "ambiguous", "verified"}

\* The rows of the tables.
PruneTypeOK ==
    /\ runs \subseteq [id: 1..MaxRuns, status: Terminal \cup {"running"},
                       old: BOOLEAN]
    /\ ops \subseteq [token: Op, status: Open \cup {"completed", "failed"},
                      old: BOOLEAN]
    /\ items \subseteq [token: Op, object: Object,
                        replaces: Decision \cup {None}]
    /\ decisions \subseteq [id: Decision, object: Object, alert: Alert,
                            status: {"active", "expiring", "expired"},
                            seen: BOOLEAN, over: BOOLEAN]
    /\ alerts \subseteq [id: Alert, old: BOOLEAN]
    /\ objects \subseteq [id: Object, desired: BOOLEAN, old: BOOLEAN]
    /\ entries \subseteq [id: Entry, active: BOOLEAN, old: BOOLEAN]

PruneInit ==
    /\ runs = {} /\ ops = {} /\ items = {} /\ decisions = {}
    /\ alerts = {} /\ objects = {} /\ entries = {}

-----------------------------------------------------------------------------
(* What PlanPruneHistory counts: every set is computed from the tables as  *)
(* they are, with the sets before it taken as gone.                        *)

TerminalRuns == {r \in runs : r.status \in Terminal}

\* Faulty: the limit is off by one.
KeptRunsOneMore ==
    {r \in TerminalRuns :
        Cardinality({s \in TerminalRuns : s.id > r.id}) <= MaxHistoryEntries}

\* ORDER BY started_at DESC LIMIT MaxHistoryEntries.
KeptRuns ==
    {r \in TerminalRuns :
        Cardinality({s \in TerminalRuns : s.id > r.id}) < MaxHistoryEntries}

OldRuns == {r \in TerminalRuns : r.old \/ r \notin KeptRuns}

\* Faulty: a verified operation counts as finished, its missing completed_at
\* as old.
OldOpsVerified ==
    {o \in ops : \/ o.status = "verified"
                 \/ o.old /\ o.status \in {"completed", "failed"}}

OldOps == {o \in ops : o.old /\ o.status \in {"completed", "failed"}}

RemainingItems ==
    {i \in items : \A o \in OldOps : i.token # o.token}

\* Faulty: the plan does not see that items go with their operation.
PlanDecisionsDirect ==
    {d \in decisions : /\ d.status = "expired" /\ d.seen /\ d.over
                       /\ \A i \in items : i.replaces # d.id}

PlanDecisions ==
    {d \in decisions : /\ d.status = "expired" /\ d.seen /\ d.over
                       /\ \A i \in RemainingItems : i.replaces # d.id}

PlanAlerts ==
    {a \in alerts : a.old /\ \A d \in decisions \ PlanDecisions : d.alert # a.id}

PlanObjects ==
    {e \in objects :
        /\ ~e.desired /\ e.old
        /\ \A d \in decisions \ PlanDecisions : d.object # e.id
        /\ \A i \in RemainingItems : i.object # e.id}

OldEntries == {e \in entries : ~e.active /\ e.old}

-----------------------------------------------------------------------------
(* What PruneHistory deletes, statement by statement: each sees what the   *)
(* ones before it left.  Items are deleted with their operation.           *)

DeletedDecisions(left) ==
    {d \in decisions : /\ d.status = "expired" /\ d.seen /\ d.over
                       /\ \A i \in left : i.replaces # d.id}

DeletedAlerts(left) ==
    {a \in alerts : a.old /\ \A d \in left : d.alert # a.id}

\* Faulty: the last clause is missing.
DeletedObjectsFree(leftDecisions, leftItems) ==
    {e \in objects : /\ ~e.desired /\ e.old
                     /\ \A d \in leftDecisions : d.object # e.id}

DeletedObjects(leftDecisions, leftItems) ==
    {e \in objects : /\ ~e.desired /\ e.old
                     /\ \A d \in leftDecisions : d.object # e.id
                     /\ \A i \in leftItems : i.object # e.id}

PruneHistory ==
    /\ runs' = runs \ OldRuns
    /\ ops' = ops \ OldOps
    /\ items' = {i \in items : \E o \in ops' : o.token = i.token}
    /\ decisions' = decisions \ DeletedDecisions(items')
    /\ alerts' = alerts \ DeletedAlerts(decisions')
    /\ objects' = objects \ DeletedObjects(decisions', items')
    /\ entries' = entries \ OldEntries

-----------------------------------------------------------------------------
(* How the tables fill and age.                                            *)

Free(ids, table) == {i \in ids : \A row \in table : row.id # i}
FreeTokens == {t \in Op : \A o \in ops : o.token # t}

\* All objects are rewritten; the ones outside the plan become undesired.
ApplyEnforcementPlan ==
    /\ \E plan \in SUBSET Object, wanted \in SUBSET Object :
            /\ wanted \subseteq plan
            /\ objects' = {[id |-> e, desired |-> e \in wanted, old |-> FALSE] :
                            e \in plan \cup {o.id : o \in objects}}
    /\ UNCHANGED <<runs, ops, items, decisions, alerts, entries>>

ActiveDecision(e) ==
    {d.id : d \in {d \in decisions : d.object = e /\ d.status = "active"}}

\* One batch at a time: the reconciler opens an operation when all others are
\* finished, for desired objects, each to replace its active decision if any.
BeginOperation ==
    /\ \A o \in ops : o.status \notin Open
    /\ \E t \in FreeTokens,
          batch \in (SUBSET {e.id : e \in {e \in objects : e.desired}}) \ {{}} :
            /\ ops' = ops \cup {[token |-> t, status |-> "pending",
                                 old |-> FALSE]}
            /\ items' = items \cup
                {[token |-> t, object |-> e,
                  replaces |-> IF ActiveDecision(e) = {} THEN None
                               ELSE CHOOSE d \in ActiveDecision(e) : TRUE] :
                 e \in batch}
    /\ UNCHANGED <<runs, decisions, alerts, objects, entries>>

WithStatus(o, status) == [o EXCEPT !.status = status, !.old = FALSE]

\* An alert with one decision per item.
RecordVerifiedOperation ==
    /\ \E o \in ops, a \in Free(Alert, alerts) :
        LET mine == {i \in items : i.token = o.token}
            replaced == {i.replaces : i \in mine}
            fresh == Free(Decision, decisions)
        IN  /\ o.status \in {"pending", "ambiguous"}
            /\ \E new \in [mine -> fresh] :
                /\ \A i, k \in mine : new[i] = new[k] => i = k
                /\ decisions' =
                    {IF d.id \in replaced THEN [d EXCEPT !.status = "expiring"]
                     ELSE d : d \in decisions} \cup
                    {[id |-> new[i], object |-> i.object, alert |-> a,
                      status |-> "active", seen |-> FALSE, over |-> FALSE] :
                     i \in mine}
            /\ alerts' = alerts \cup {[id |-> a, old |-> FALSE]}
            /\ ops' = (ops \ {o}) \cup {WithStatus(o, "verified")}
    /\ UNCHANGED <<runs, items, objects, entries>>

\* finishVerified: what was replaced has expired before the operation is
\* completed.
CompleteOperation ==
    /\ \E o \in ops :
            /\ o.status = "verified"
            /\ \A d \in decisions : d.status # "expiring"
            /\ ops' = (ops \ {o}) \cup {WithStatus(o, "completed")}
    /\ UNCHANGED <<runs, items, decisions, alerts, objects, entries>>

SetOperationStatus ==
    /\ \E o \in ops, status \in {"ambiguous", "failed"} :
            /\ o.status \in {"pending", "ambiguous"}
            /\ ops' = (ops \ {o}) \cup {WithStatus(o, status)}
    /\ UNCHANGED <<runs, items, decisions, alerts, objects, entries>>

\* An active decision ends only in a Run that has finished all operations.
MarkDecisionExpired ==
    /\ \E d \in decisions :
            /\ \/ d.status = "expiring"
               \/ d.status = "active" /\ \A o \in ops : o.status \notin Open
            /\ decisions' = (decisions \ {d}) \cup
                    {[d EXCEPT !.status = "expired", !.seen = FALSE]}
    /\ UNCHANGED <<runs, ops, items, alerts, objects, entries>>

\* An entry is seen, or its grace runs out; only the first sets last_seen_at.
SnapshotEntry ==
    /\ \E e \in Entry, active \in BOOLEAN :
            /\ active \/ \E row \in entries : row.id = e /\ row.active
            /\ entries' = {row \in entries : row.id # e} \cup
                {[id |-> e, active |-> active,
                  old |-> ~active /\ \E row \in entries : row.id = e /\ row.old]}
    /\ UNCHANGED <<runs, ops, items, decisions, alerts, objects>>

BeginSyncRun ==
    /\ \E id \in 1..MaxRuns :
            /\ \A r \in runs : r.id < id
            /\ runs' = runs \cup {[id |-> id, status |-> "running", old |-> FALSE]}
    /\ UNCHANGED <<ops, items, decisions, alerts, objects, entries>>

EndSyncRun ==
    /\ \E r \in runs, status \in Terminal :
            /\ r.status = "running"
            /\ runs' = (runs \ {r}) \cup {[r EXCEPT !.status = status]}
    /\ UNCHANGED <<ops, items, decisions, alerts, objects, entries>>

\* The cutoff passes all times there are, except that of an expiry ahead;
\* completed_at of an open operation or a running Run is not set.
Age ==
    /\ runs' = {[r EXCEPT !.old = r.status \in Terminal] : r \in runs}
    /\ ops' = {[o EXCEPT !.old = o.status \notin Open] : o \in ops}
    /\ alerts' = {[a EXCEPT !.old = TRUE] : a \in alerts}
    /\ objects' = {[e EXCEPT !.old = TRUE] : e \in objects}
    /\ entries' = {[e EXCEPT !.old = TRUE] : e \in entries}
    /\ \E past \in BOOLEAN :
            decisions' = {[d EXCEPT !.seen = TRUE, !.over = d.over \/ past] :
                            d \in decisions}
    /\ UNCHANGED items

\* The service prunes at start when the last time is long enough ago.
Bootstrap == PruneHistory

\* `crowdshield prune --confirm` refuses while an operation is ambiguous.
PruneCLI ==
    /\ \A o \in ops : o.status # "ambiguous"
    /\ PruneHistory

PruneNext ==
    \/ Bootstrap \/ PruneCLI
    \/ ApplyEnforcementPlan \/ BeginOperation \/ RecordVerifiedOperation
    \/ CompleteOperation \/ SetOperationStatus \/ MarkDecisionExpired
    \/ SnapshotEntry \/ BeginSyncRun \/ EndSyncRun \/ Age

PruneSpec == PruneInit /\ [][PruneNext]_tables

-----------------------------------------------------------------------------
(* Properties.                                                             *)

\* Foreign keys: every item has its operation, object and replaced decision,
\* every decision its object and alert.  ON DELETE RESTRICT would otherwise
\* make PruneHistory fail, and with it the start of the service.
References ==
    /\ \A i \in items :
        /\ \E o \in ops : o.token = i.token
        /\ \E e \in objects : e.id = i.object
        /\ i.replaces # None => \E d \in decisions : d.id = i.replaces
    /\ \A d \in decisions :
        /\ \E e \in objects : e.id = d.object
        /\ \E a \in alerts : a.id = d.alert

\* "cascade-aware prune planning whose counts match applied deletion"
\* (docs/PROJECT_STATE.md:95): PlanPruneHistory computes all sets from one
\* state, PruneHistory deletes in six statements with cascades in between,
\* and the rows are the same.
PlanAgrees ==
    [][PruneHistory =>
        /\ decisions \ decisions' = PlanDecisions
        /\ alerts \ alerts' = PlanAlerts
        /\ objects \ objects' = PlanObjects]_tables

\* docs/PROJECT_STATE.md:80 on pruning: it "preserves running work,
\* pending/ambiguous journals, active decisions, desired or referenced
\* enforcement objects".  PruneHistory takes no unfinished operation, no item
\* of one or decision it is to replace, no decision not known to be over and no
\* object that is desired or that one of those refers to.
PreservesCurrent ==
    [][PruneHistory =>
        /\ \A o \in ops : o.status \in Open => o \in ops'
        /\ \A i \in items, o \in ops :
              o.token = i.token /\ o.status \in Open =>
                /\ i \in items'
                /\ \A d \in decisions : d.id = i.replaces => d \in decisions'
                /\ \A e \in objects : e.id = i.object => e \in objects'
        /\ \A d \in decisions : d.status # "expired" =>
              /\ d \in decisions'
              /\ \A e \in objects : e.id = d.object => e \in objects'
        /\ \A e \in objects : e.desired => e \in objects']_tables

\* "History retention is bounded by configurable counts/age"
\* (docs/architecture.md:375): PruneHistory leaves at most MaxHistoryEntries
\* finished Runs, none of them old, and of the young ones it takes none while
\* fewer than that many newer ones remain; running Runs and active entries
\* stay.
HistoryBounded ==
    [][PruneHistory =>
        LET after == {r \in runs' : r.status \in Terminal}
        IN  /\ Cardinality(after) <= MaxHistoryEntries
            /\ \A r \in after : ~r.old
            /\ \A r \in TerminalRuns \ after :
                  r.old \/ Cardinality({s \in TerminalRuns : s.id > r.id})
                                >= MaxHistoryEntries
            /\ \A r \in runs : r.status = "running" => r \in runs'
            /\ \A e \in entries : e.active => e \in entries']_tables
=============================================================================

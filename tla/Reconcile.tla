------------------------------ MODULE Reconcile ------------------------------
(***************************************************************************)
(* internal/reconcile/reconcile.go: one Reconciler that brings the         *)
(* decisions on the LAPI in line with the desired objects.  A Run applies  *)
(* the plan, recovers the operations an earlier Run left open, plans       *)
(* creations, refreshes and removals, and carries them out batch by batch. *)
(* Every call to the LAPI and every transaction is a step of its own, and  *)
(* each of them may fail; the process may crash between any two.           *)
(***************************************************************************)
EXTENDS EnforcementStore

CONSTANTS
    RefreshBefore,  \* refresh a decision when this little of it is left
    BatchSize,
    Plans,          \* the plans BuildDesired may return
    Settles,        \* TRUE: no request is on its way when a Run starts
    Prompt          \* TRUE: a Run takes no time and there is one per tick

ASSUME ReconcileAssumption ==
    /\ RefreshBefore \in 1..(Duration - 1)
    /\ BatchSize \in Nat \ {0}
    /\ Plans \subseteq [Object -> ObjectRecord]
    /\ \A p \in Plans, o \in Object : p[o].desired => p[o].feed # NoFeed
    /\ Settles \in BOOLEAN /\ Prompt \in BOOLEAN

VARIABLES
    pc,     \* the next call of the Run
    phase,  \* the loop of Run that the call belongs to
    now,    \* the instant the Run took when it started
    snap,   \* records: the objects as this Run read them
    left,   \* statuses of the operations recover has still to handle
    cur,    \* the operation at hand
    got,    \* the alert created or found for it
    seen,   \* the expiries read back from that alert
    items,  \* its items whose replaced decision finishVerified has to expire
    exp,    \* the decision expireOwned handles
    todo,   \* planned action per object
    act,    \* active[...]: active decision per object when it was planned
    err     \* firstError # nil

localVars ==
    <<pc, phase, now, snap, left, cur, got, seen, items, exp, todo, act, err>>
vars == <<lapiVars, storeVars, localVars>>

Step == {"idle", "list", "open", "recover", "plan", "batch", "remove", "create",
         "get", "mark", "record", "finish", "expget", "expdel", "expmark"}

\* "renew": the decision has run out and is to be marked before a new one is
\* created.
Action == {"none", "create", "renew", "refresh", "remove"}

NoOps == [t \in Token |-> "none"]
NoItems == [o \in Object |-> 0]
NoAction == [o \in Object |-> "none"]
NoRow == <<NoAlert, NoAlert>>

LocalTypeOK ==
    /\ pc \in Step
    /\ phase \in {"none", "recover", "batch", "remove"}
    /\ now \in Nat
    /\ snap \in [Object -> ObjectRecord]
    /\ left \in [Token -> Open \cup {"none"}]
    /\ cur \in Token \cup {NoToken}
    /\ got \in Alert \cup {NoAlert}
    /\ seen \in [Object -> Nat]
    /\ items \subseteq Object
    /\ exp \in (Alert \X Object) \cup {NoRow}
    /\ todo \in [Object -> Action]
    /\ act \in [Object -> Alert \cup {NoAlert}]
    /\ err \in BOOLEAN

\* Types of all variables: the LAPI, the store, and the locals of a Run.  So
\* expireOwned is only ever called for a decision that exists.
TypeOK == LapiTypeOK /\ StoreTypeOK /\ LocalTypeOK

LocalInit ==
    /\ pc = "idle"
    /\ phase = "none"
    /\ now = 0
    /\ snap = objects
    /\ left = NoOps
    /\ cur = NoToken
    /\ got = NoAlert
    /\ seen = NoItems
    /\ items = {}
    /\ exp = NoRow
    /\ todo = NoAction
    /\ act = NoItems
    /\ err = FALSE

Init == LapiInit /\ StoreInit /\ LocalInit

-----------------------------------------------------------------------------
(* Control flow shared by the actions.                                     *)

\* Run returns (or dies) and its locals are lost.
Return ==
    /\ pc' = "idle" /\ phase' = "none"
    /\ left' = NoOps
    /\ cur' = NoToken /\ got' = NoAlert /\ seen' = NoItems
    /\ items' = {} /\ exp' = NoRow
    /\ todo' = NoAction /\ act' = NoItems /\ err' = FALSE
    /\ UNCHANGED <<now, snap>>

\* Faulty: the batch loop forgets an error.
OperationDoneForgets(ok) ==
    IF phase = "recover" /\ ~ok THEN Return
    ELSE /\ pc' = phase
         /\ cur' = NoToken /\ got' = NoAlert /\ seen' = NoItems
         /\ items' = {} /\ exp' = NoRow
         /\ UNCHANGED <<phase, now, snap, left, todo, act, err>>

\* The call for operation cur is over: recover gives up at the first error,
\* the batch loop remembers it and goes on.
OperationDone(ok) ==
    IF phase = "recover" /\ ~ok THEN Return
    ELSE /\ pc' = phase
         /\ err' = (err \/ ~ok)
         /\ cur' = NoToken /\ got' = NoAlert /\ seen' = NoItems
         /\ items' = {} /\ exp' = NoRow
         /\ UNCHANGED <<phase, now, snap, left, todo, act>>

\* expireOwned returns to the removal loop or to finishVerified.
ExpireDone(ok) ==
    IF phase # "remove" /\ ~ok THEN OperationDone(FALSE)
    ELSE /\ pc' = IF phase = "remove" THEN "remove" ELSE "finish"
         /\ err' = (err \/ ~ok)
         /\ exp' = NoRow
         /\ UNCHANGED <<phase, now, snap, left, cur, got, seen, items, todo,
                        act>>

Goto(label) ==
    /\ pc' = label
    /\ UNCHANGED <<phase, now, snap, left, cur, got, seen, items, exp, todo,
                   act, err>>

-----------------------------------------------------------------------------
(* Run up to the recovery of open operations.                              *)

StartRun ==
    /\ pc = "idle"
    /\ Settles => posts = {} /\ deletes = {}
    /\ Prompt => now # clock \/ clock = MaxClock
    /\ now' = clock
    /\ \E plan \in Plans : ApplyEnforcementPlan(plan)
    /\ pc' = "list"
    /\ UNCHANGED <<phase, snap, left, cur, got, seen, items, exp, todo, act,
                   err>>
    /\ UNCHANGED <<ops, status, expires, lapiVars>>

\* What the plan left in the table is read after the transaction.
ListEnforcementObjects ==
    /\ pc = "list"
    /\ snap' = objects
    /\ pc' = "open"
    /\ UNCHANGED <<phase, now, left, cur, got, seen, items, exp, todo, act,
                   err>>
    /\ UNCHANGED <<lapiVars, storeVars>>

ReadOpenOperations ==
    /\ pc = "open"
    /\ left' = [t \in Token |->
                    IF t \in OpenOperations THEN ops[t].status ELSE "none"]
    /\ pc' = "recover" /\ phase' = "recover"
    /\ UNCHANGED <<now, snap, cur, got, seen, items, exp, todo, act, err>>
    /\ UNCHANGED <<lapiVars, storeVars>>

\* decisionExpiry: the instant at which the Run believes a decision ends, and
\* the reading it refuses (a remaining duration that is negative or too long).
ExpiryRefused(a, o) ==
    Remaining /\ (until[a][o] < clock \/ until[a][o] > clock + Duration)

DecisionExpiry(a, o) ==
    IF Remaining THEN now + (until[a][o] - clock) ELSE until[a][o]

\* verifiedAlert: the alert is exactly what operation t was to create.
VerifiedAlert(t, a) ==
    /\ alerts[a].state = "ours"
    /\ alerts[a].feed = ops[t].feed
    /\ alerts[a].token = t
    /\ alerts[a].items = ops[t].items
    /\ \A o \in ops[t].items :
        /\ alerts[a].scope[o] = snap[o].scope
        /\ ~ExpiryRefused(a, o)
        /\ DecisionExpiry(a, o) > now

ReadBack(t, a) ==
    [o \in Object |-> IF o \in ops[t].items THEN DecisionExpiry(a, o) ELSE 0]

Replaced(t) == {o \in ops[t].items : ops[t].old[o] # NoAlert}

Pick(t) ==
    /\ pc = "recover"
    /\ left[t] # "none"

\* A verified operation only has to be finished.
RecoverVerified(t) ==
    /\ Pick(t)
    /\ left[t] = "verified"
    /\ left' = [left EXCEPT ![t] = "none"]
    /\ cur' = t /\ items' = Replaced(t) /\ pc' = "finish"
    /\ UNCHANGED <<phase, now, snap, got, seen, exp, todo, act, err>>
    /\ UNCHANGED <<lapiVars, storeVars>>

\* The alert of an unverified operation is on the server and is ours.
RecoverFound(t) ==
    /\ Pick(t)
    /\ left[t] \in Unverified
    /\ ~SearchRefused(ops[t].feed, t)
    /\ \E a \in FindOperation(ops[t].feed, t) :
        /\ VerifiedAlert(t, a)
        /\ got' = a /\ seen' = ReadBack(t, a)
    /\ left' = [left EXCEPT ![t] = "none"]
    /\ cur' = t /\ pc' = "record"
    /\ UNCHANGED <<phase, now, snap, items, exp, todo, act, err>>
    /\ Overtake(t)
    /\ UNCHANGED <<clock, alerts, until, deletes, faults, storeVars>>

\* The search proves nothing, or finds an alert that is not as it should be.
RecoverUnproven(t) ==
    /\ Pick(t)
    /\ left[t] \in Unverified
    /\ \/ SearchRefused(ops[t].feed, t)
       \/ \E a \in FindOperation(ops[t].feed, t) : ~VerifiedAlert(t, a)
    /\ Return
    /\ UNCHANGED <<lapiVars, storeVars>>

\* The search finds nothing: the alert is created (again).
RecoverMissing(t) ==
    /\ Pick(t)
    /\ left[t] \in Unverified
    /\ ~SearchRefused(ops[t].feed, t)
    /\ FindOperation(ops[t].feed, t) = {}
    /\ left' = [left EXCEPT ![t] = "none"]
    /\ cur' = t /\ pc' = "create"
    /\ UNCHANGED <<phase, now, snap, got, seen, items, exp, todo, act, err>>
    /\ Overtake(t)
    /\ UNCHANGED <<clock, alerts, until, deletes, faults, storeVars>>

RecoverDone ==
    /\ pc = "recover"
    /\ left = NoOps
    /\ Goto("plan")
    /\ UNCHANGED <<lapiVars, storeVars>>

-----------------------------------------------------------------------------
(* createForOperation.                                                     *)

StillDesired == \A o \in ops[cur].items : snap[o].desired

NoLongerDesired ==
    /\ pc = "create"
    /\ ~StillDesired
    /\ IF SetAccepts(cur)
       THEN SetOperationStatus(cur, "failed") /\ OperationDone(TRUE)
       ELSE UNCHANGED ops /\ OperationDone(FALSE)
    /\ UNCHANGED <<objects, status, expires, lapiVars>>

CreateRequest ==
    [token |-> cur, feed |-> ops[cur].feed, items |-> ops[cur].items,
     scope |-> [o \in Object |-> snap[o].scope], late |-> FALSE]

CreateAlert ==
    /\ pc = "create"
    /\ StillDesired
    /\ \E a \in Alert :
        /\ createAlerts(CreateRequest, a)
        /\ got' = a
    /\ pc' = "get"
    /\ UNCHANGED <<phase, now, snap, left, cur, seen, items, exp, todo, act,
                   err>>
    /\ UNCHANGED <<clock, posts, deletes, faults, storeVars>>

\* The answer is an error or never comes; the request may still arrive.
CreateAlertFails ==
    /\ pc = "create"
    /\ StillDesired
    /\ \/ Fault /\ posts' = posts \cup {CreateRequest}
       \/ Full /\ UNCHANGED <<faults, posts>>
    /\ Goto("mark")
    /\ UNCHANGED <<clock, alerts, until, deletes, storeVars>>

GetAlertVerified ==
    /\ pc = "get"
    /\ VerifiedAlert(cur, got)
    /\ seen' = ReadBack(cur, got)
    /\ pc' = "record"
    /\ UNCHANGED <<phase, now, snap, left, cur, got, items, exp, todo, act,
                   err>>
    /\ UNCHANGED <<lapiVars, storeVars>>

\* The alert cannot be read or is not what was asked for.
GetAlertFails ==
    /\ pc = "get"
    /\ \/ ~VerifiedAlert(cur, got) /\ UNCHANGED faults
       \/ Fault
    /\ Goto("mark")
    /\ UNCHANGED <<clock, alerts, until, posts, deletes, storeVars>>

\* Faulty: a creation without an answer counts as failed.
MarkFailed ==
    /\ pc = "mark"
    /\ SetAccepts(cur)
    /\ SetOperationStatus(cur, "failed")
    /\ OperationDone(FALSE)
    /\ UNCHANGED <<objects, status, expires, lapiVars>>

\* SetOperationStatus(ambiguous): its own failure is ignored.
MarkAmbiguous ==
    /\ pc = "mark"
    /\ \/ SetAccepts(cur) /\ SetOperationStatus(cur, "ambiguous")
                          /\ UNCHANGED faults
       \/ ~SetAccepts(cur) /\ UNCHANGED <<ops, faults>>
       \/ Fault /\ UNCHANGED ops
    /\ OperationDone(FALSE)
    /\ UNCHANGED <<objects, status, expires>>
    /\ UNCHANGED <<clock, alerts, until, posts, deletes>>

Record ==
    /\ pc = "record"
    /\ RecordAccepts(cur, got, seen, now)
    /\ RecordVerifiedOperation(cur, got, seen)
    /\ items' = Replaced(cur)
    /\ pc' = "finish"
    /\ UNCHANGED <<phase, now, snap, left, cur, got, seen, exp, todo, act, err>>
    /\ UNCHANGED <<objects, lapiVars>>

RecordFails ==
    /\ pc = "record"
    /\ \/ ~RecordAccepts(cur, got, seen, now) /\ UNCHANGED faults
       \/ Fault
    /\ OperationDone(FALSE)
    /\ UNCHANGED <<clock, alerts, until, posts, deletes, storeVars>>

-----------------------------------------------------------------------------
(* finishVerified and expireOwned.                                         *)

FinishItem(o) ==
    /\ pc = "finish"
    /\ o \in items
    /\ items' = items \ {o}
    /\ LET a == ops[cur].old[o] IN
        IF status[a][o] \in Live
        THEN exp' = <<a, o>> /\ pc' = "expget"
        ELSE UNCHANGED <<exp, pc>>
    /\ UNCHANGED <<phase, now, snap, left, cur, got, seen, todo, act, err>>
    /\ UNCHANGED <<lapiVars, storeVars>>

Finish ==
    /\ pc = "finish"
    /\ items = {}
    /\ CompleteAccepts(cur)
    /\ CompleteOperation(cur)
    /\ OperationDone(TRUE)
    /\ UNCHANGED <<objects, status, expires, lapiVars>>

FinishFails ==
    /\ pc = "finish"
    /\ Fault
    /\ OperationDone(FALSE)
    /\ UNCHANGED <<clock, alerts, until, posts, deletes, storeVars>>

\* GetAlert of expireOwned: nothing to delete when the alert is gone or the
\* decision is over.
ExpireOver ==
    /\ pc = "expget"
    /\ LET a == exp[1]  o == exp[2] IN
        \/ alerts[a].state = "gone"
        \/ /\ alerts[a].state = "ours"
           /\ ~ExpiryRefused(a, o)
           /\ DecisionExpiry(a, o) <= now
    /\ Goto("expmark")
    /\ UNCHANGED <<lapiVars, storeVars>>

ExpireLive ==
    /\ pc = "expget"
    /\ LET a == exp[1]  o == exp[2] IN
        /\ alerts[a].state = "ours"
        /\ ~ExpiryRefused(a, o)
        /\ DecisionExpiry(a, o) > now
    /\ Goto("expdel")
    /\ UNCHANGED <<lapiVars, storeVars>>

\* The read fails, or what it returns does not prove ownership.
ExpireUnproven ==
    /\ pc = "expget"
    /\ LET a == exp[1]  o == exp[2] IN
        \/ Fault
        \/ alerts[a].state = "foreign" /\ UNCHANGED faults
        \/ alerts[a].state = "ours" /\ ExpiryRefused(a, o) /\ UNCHANGED faults
    /\ ExpireDone(FALSE)
    /\ UNCHANGED <<clock, alerts, until, posts, deletes, storeVars>>

ExpireDecision ==
    /\ pc = "expdel"
    /\ expireDecision(exp[1], exp[2])
    /\ Goto("expmark")
    /\ UNCHANGED <<clock, alerts, posts, deletes, faults, storeVars>>

ExpireDecisionFails ==
    /\ pc = "expdel"
    /\ Fault
    /\ deletes' = deletes \cup {exp}
    /\ ExpireDone(FALSE)
    /\ UNCHANGED <<clock, alerts, until, posts, storeVars>>

MarkExpired ==
    /\ pc = "expmark"
    /\ MarkAccepts(exp[1], exp[2])
    /\ MarkDecisionExpired(exp[1], exp[2])
    /\ ExpireDone(TRUE)
    /\ UNCHANGED <<objects, ops, expires, lapiVars>>

MarkExpiredFails ==
    /\ pc = "expmark"
    /\ \/ Fault
       \/ ~MarkAccepts(exp[1], exp[2]) /\ UNCHANGED faults
    /\ ExpireDone(FALSE)
    /\ UNCHANGED <<clock, alerts, until, posts, deletes, storeVars>>

-----------------------------------------------------------------------------
(* Planning, batches and removals.                                         *)

\* activeByObject refuses a ledger with two active decisions for an object.
Conflict == \E o \in Object : Cardinality(Active(o)) > 1

PlanFails ==
    /\ pc = "plan"
    /\ \/ Conflict /\ UNCHANGED faults
       \/ Fault
    /\ Return
    /\ UNCHANGED <<clock, alerts, until, posts, deletes, storeVars>>

ActiveAlert(o) ==
    IF Active(o) = {} THEN NoAlert ELSE CHOOSE a \in Active(o) : TRUE

RanOut(a, o) == expires[a][o] <= now

\* Faulty: refreshes at the last moment only.
NeedsRefreshLate(a, o) == expires[a][o] - now <= 1

NeedsRefresh(a, o) ==
    \/ expires[a][o] - now <= RefreshBefore
    \/ alerts[a].scope[o] # snap[o].scope
    \/ alerts[a].feed # snap[o].feed

\* Faulty: a decision that is due for a refresh is removed first.
PlannedRemoval(o) ==
    LET a == ActiveAlert(o) IN
    IF a = NoAlert THEN IF snap[o].desired THEN "create" ELSE "none"
    ELSE IF ~snap[o].desired \/ NeedsRefresh(a, o) THEN "remove"
    ELSE "none"

\* Faulty: an object without an active decision is to lose one.
PlannedUnguarded(o) ==
    LET a == ActiveAlert(o) IN
    IF ~snap[o].desired THEN "remove"
    ELSE IF a = NoAlert THEN "create"
    ELSE IF RanOut(a, o) THEN "renew"
    ELSE IF NeedsRefresh(a, o) THEN "refresh"
    ELSE "none"

PlannedAction(o) ==
    LET a == ActiveAlert(o) IN
    IF ~snap[o].desired THEN IF a = NoAlert THEN "none" ELSE "remove"
    ELSE IF a = NoAlert THEN "create"
    ELSE IF RanOut(a, o) THEN "renew"
    ELSE IF NeedsRefresh(a, o) THEN "refresh"
    ELSE "none"

\* ListActiveDecisions is read once; the actions follow from that reading.
Plan ==
    /\ pc = "plan"
    /\ ~Conflict
    /\ todo' = [o \in Object |-> PlannedAction(o)]
    /\ act' = [o \in Object |-> ActiveAlert(o)]
    /\ pc' = "batch" /\ phase' = "batch"
    /\ UNCHANGED <<now, snap, left, cur, got, seen, items, exp, err>>
    /\ UNCHANGED <<lapiVars, storeVars>>

PlanExpires(o) ==
    /\ pc = "batch"
    /\ todo[o] = "renew"
    /\ MarkAccepts(act[o], o)
    /\ MarkDecisionExpired(act[o], o)
    /\ todo' = [todo EXCEPT ![o] = "create"]
    /\ UNCHANGED <<pc, phase, now, snap, left, cur, got, seen, items, exp, act,
                   err>>
    /\ UNCHANGED <<objects, ops, expires, lapiVars>>

PlanExpireFails(o) ==
    /\ pc = "batch"
    /\ todo[o] = "renew"
    /\ \/ ~MarkAccepts(act[o], o) /\ UNCHANGED faults
       \/ Fault
    /\ Return
    /\ UNCHANGED <<clock, alerts, until, posts, deletes, storeVars>>

Group(kind, feed) == {o \in Object : todo[o] = kind /\ snap[o].feed = feed}

\* The batches of one kind and feed, in any order, once planning is over.
IsBatch(kind, feed, batch) ==
    /\ \A o \in Object : todo[o] # "renew"
    /\ batch # {}
    /\ batch \subseteq Group(kind, feed)
    /\ \/ Cardinality(batch) = BatchSize
       \/ batch = Group(kind, feed) /\ Cardinality(batch) < BatchSize

OldOf(kind, batch) ==
    [o \in Object |->
        IF kind = "refresh" /\ o \in batch THEN act[o] ELSE NoAlert]

Dispatched(batch) ==
    [o \in Object |-> IF o \in batch THEN "none" ELSE todo[o]]

\* newOperation and BeginOperation: the intent is durable before the call.
BatchBegins(kind, feed, batch, t) ==
    /\ pc = "batch"
    /\ IsBatch(kind, feed, batch)
    /\ BeginAccepts(t, feed, batch, OldOf(kind, batch))
    /\ BeginOperation(t, feed, batch, OldOf(kind, batch))
    /\ todo' = Dispatched(batch)
    /\ cur' = t /\ pc' = "create"
    /\ UNCHANGED <<phase, now, snap, left, got, seen, items, exp, act, err>>
    /\ UNCHANGED <<objects, status, expires, lapiVars>>

\* No token, or the transaction is refused: the batch is skipped.
BatchFails(kind, feed, batch) ==
    /\ pc = "batch"
    /\ IsBatch(kind, feed, batch)
    /\ \/ /\ \A t \in Token : ~BeginAccepts(t, feed, batch, OldOf(kind, batch))
          /\ UNCHANGED faults
       \/ Fault
    /\ todo' = Dispatched(batch)
    /\ err' = TRUE
    /\ UNCHANGED <<pc, phase, now, snap, left, cur, got, seen, items, exp, act>>
    /\ UNCHANGED <<clock, alerts, until, posts, deletes, storeVars>>

BatchesDone ==
    /\ pc = "batch"
    /\ \A o \in Object : todo[o] \in {"none", "remove"}
    /\ IF err THEN Return
       ELSE /\ pc' = "remove" /\ phase' = "remove"
            /\ UNCHANGED <<now, snap, left, cur, got, seen, items, exp, todo,
                           act, err>>
    /\ UNCHANGED <<lapiVars, storeVars>>

\* Faulty: the object is dropped from the plan and its decision stays.
RemoveForgets(o) ==
    /\ pc = "remove"
    /\ todo[o] = "remove"
    /\ todo' = [todo EXCEPT ![o] = "none"]
    /\ UNCHANGED <<pc, phase, now, snap, left, cur, got, seen, items, exp, act,
                   err>>
    /\ UNCHANGED <<lapiVars, storeVars>>

Remove(o) ==
    /\ pc = "remove"
    /\ todo[o] = "remove"
    /\ todo' = [todo EXCEPT ![o] = "none"]
    /\ exp' = <<act[o], o>> /\ pc' = "expget"
    /\ UNCHANGED <<phase, now, snap, left, cur, got, seen, items, act, err>>
    /\ UNCHANGED <<lapiVars, storeVars>>

RunDone ==
    /\ pc = "remove"
    /\ todo = NoAction
    /\ Return
    /\ UNCHANGED <<lapiVars, storeVars>>

-----------------------------------------------------------------------------
\* The process dies, or the call fails in a way that ends the Run.  A request
\* that was being sent may be on its way.
Crash ==
    /\ pc # "idle"
    /\ Fault
    /\ posts' \in {posts} \cup
            IF pc = "create" /\ StillDesired THEN {posts \cup {CreateRequest}}
                                             ELSE {}
    /\ deletes' \in {deletes} \cup
            IF pc = "expdel" THEN {deletes \cup {exp}} ELSE {}
    /\ Return
    /\ UNCHANGED <<clock, alerts, until, storeVars>>

Recover ==
    \/ ListEnforcementObjects \/ ReadOpenOperations
    \/ \E t \in Token : \/ RecoverVerified(t) \/ RecoverFound(t)
                        \/ RecoverUnproven(t) \/ RecoverMissing(t)
    \/ RecoverDone

CreateForOperation ==
    \/ NoLongerDesired \/ CreateAlert \/ CreateAlertFails
    \/ GetAlertVerified \/ GetAlertFails \/ MarkAmbiguous
    \/ Record \/ RecordFails

FinishVerified ==
    \/ \E o \in Object : FinishItem(o)
    \/ Finish \/ FinishFails

ExpireOwned ==
    \/ ExpireOver \/ ExpireLive \/ ExpireUnproven
    \/ ExpireDecision \/ ExpireDecisionFails
    \/ MarkExpired \/ MarkExpiredFails

PlanAndBatch ==
    \/ Plan \/ PlanFails
    \/ \E o \in Object : PlanExpires(o) \/ PlanExpireFails(o)
    \/ \E kind \in {"create", "refresh"}, feed \in Feed, b \in SUBSET Object :
            \/ \E t \in Token : BatchBegins(kind, feed, b, t)
            \/ BatchFails(kind, feed, b)
    \/ BatchesDone
    \/ \E o \in Object : Remove(o)
    \/ RunDone

RunStep ==
    Recover \/ CreateForOperation \/ FinishVerified \/ ExpireOwned
            \/ PlanAndBatch

Environment ==
    /\ \/ Network
       \/ \E a \in Alert : Interfere(a)
       \/ Tick /\ (Prompt => pc = "idle" /\ now = clock)
    /\ UNCHANGED <<storeVars, localVars>>

Next == StartRun \/ RunStep \/ Crash \/ Environment

Spec == Init /\ [][Next]_vars

\* The scheduler starts a Run again and again and a Run does not stall; a
\* request that was lost is delivered or given up; time passes.
Fairness ==
    /\ WF_vars(StartRun \/ RunStep)
    /\ WF_vars(Network /\ UNCHANGED <<storeVars, localVars>>)
    /\ WF_vars(Environment /\ clock' # clock)

FairSpec == Spec /\ Fairness

-----------------------------------------------------------------------------
(* Properties.                                                             *)

\* An object never has two active decisions in the ledger: activeByObject
\* would refuse to plan, for all objects and on every later Run.
OneActive ==
    \A o \in Object : \A a, b \in Alert :
        status[a][o] = "active" /\ status[b][o] = "active" => a = b

\* expireOwned sends a DELETE only for an object the Run no longer wants, or
\* for a replaced decision whose verified replacement lasts at least as long
\* as what is left of it (unless somebody else took the replacement away).
DeleteIsCovered ==
    pc = "expdel" =>
        LET a == exp[1]  o == exp[2] IN
        \/ ~snap[o].desired
        \/ /\ status[a][o] = "expiring"
           /\ \E b \in Alert :
                /\ status[b][o] = "active"
                /\ alerts[b].state = "ours" /\ until[a][o] > clock
                        => until[b][o] >= until[a][o]

\* Every decision in the ledger belongs to the alert of an operation that was
\* verified, and each operation put at most one alert there, whichever
\* process recorded it.
LedgerProven ==
    \A a \in Alert, o \in Object : status[a][o] # "none" =>
        /\ Recorded(alerts[a].token)
        /\ o \in ops[alerts[a].token].items
        /\ \A b \in Alert \ {a} :
            alerts[b].token = alerts[a].token => status[b][o] = "none"

InForce(a, o) == alerts[a].state = "ours" /\ Enforced(a, o)

\* A server that reports remaining durations makes a Run note an end that is
\* too early by the time since the Run started; a later Run closes the row
\* when the end that was noted has passed.
NotedOver(a, o) ==
    Remaining /\ status[a][o] = "expired" /\ expires[a][o] <= clock

Known(a, o) ==
    \/ status[a][o] \in Live
    \/ ops[alerts[a].token].status \in Unverified
    \/ NotedOver(a, o)

\* Every decision of ours that is in force on the LAPI is known: the ledger
\* holds it as active or expiring, or an unverified operation carries its
\* token, so that a later Run finds it, or the end noted for it has passed.
\* The one exception is an alert whose creation arrived after recover had
\* searched for it.
LedgerComplete ==
    \A a \in Alert, o \in Object :
        InForce(a, o) /\ ~alerts[a].late => Known(a, o)

\* The same without the exception: recovery finds what an earlier Run
\* created, whenever the creation arrives.
LateIsKnown ==
    \A a \in Alert, o \in Object : InForce(a, o) => Known(a, o)

\* The Run has gone through all batches and all removals without an error.
RunSucceeded == pc = "remove" /\ todo = NoAction /\ ~err

\* A Run that reports success has protected every desired object: the ledger
\* has an active decision for it and that decision is really in force.
RunEnforces ==
    RunSucceeded =>
        \A o \in Object : snap[o].desired =>
            \E a \in Alert :
                /\ status[a][o] = "active"
                /\ alerts[a].state = "ours" => until[a][o] > now

\* A Run that reports success has released every object that is not desired:
\* nothing of ours is in force for it any more, but what arrived too late
\* for the search of recover and what outlives the end noted for it.
RunRevokes ==
    RunSucceeded =>
        \A a \in Alert, o \in Object :
            ~snap[o].desired /\ InForce(a, o) =>
                alerts[a].late \/ NotedOver(a, o)

\* Once a desired object is banned it stays banned: as long as fewer Runs in
\* a row fail than RefreshBefore allows for, a refresh is in force before the
\* decision it replaces ends.
NoGap ==
    [][\A o \in Object : (\E a \in Alert : Enforced(a, o))
                            => (\E a \in Alert : Enforced(a, o))']_vars

\* Recovery leaves nothing behind: an operation that a Run could not finish
\* is verified and completed, or given up, by a later one.
OpenOpsResolve ==
    \A t \in Token :
        ops[t].status \in Open /\ clock + Window + MaxFault < MaxClock
            ~> ops[t].status \notin Open

\* The bounds of the model, not the code, stop new operations.
Exhausted == Full \/ \A t \in Token : ops[t].status # "free"

\* An operation that cannot be proved stops itself, not the others: a desired
\* object that is in no open operation gets its decision all the same.
OthersProceed ==
    \A o \in Object :
        /\ clock + Window + MaxFault < MaxClock
        /\ objects[o].desired
        /\ Active(o) = {}
        /\ \A t \in OpenOperations : o \notin ops[t].items
        ~> ~objects[o].desired \/ Active(o) # {} \/ Exhausted
=============================================================================

-------------------------- MODULE EnforcementStore --------------------------
(***************************************************************************)
(* The enforcement side of the SQLite store,                               *)
(* internal/state/enforcement_repository.go: the desired objects, the      *)
(* operation journal and the ledger of decisions that were verified to be  *)
(* ours.  Each operator is one transaction: X is its effect, XAccepts the  *)
(* constraints that make it commit; a transaction that does not commit     *)
(* changes nothing.                                                        *)
(***************************************************************************)
EXTENDS Lapi

CONSTANTS
    Slack   \* how far beyond its duration an expiry may lie (10 minutes)

ASSUME SlackAssumption == Slack \in Nat

VARIABLES
    objects,  \* enforcement_objects: what the last plan wants
    ops,      \* lapi_operations and lapi_operation_items
    status,   \* lapi_decisions.status, by alert and object
    expires   \* lapi_decisions.expires_at

storeVars == <<objects, ops, status, expires>>

ObjectRecord == [desired: BOOLEAN, feed: Feed \cup {NoFeed}, scope: Scope]

Unverified == {"pending", "ambiguous"}
Open == Unverified \cup {"verified"}
OperationStatus == Open \cup {"free", "completed", "failed"}

\* old[o] is the alert of the decision an item replaces, NoAlert for none.
Operation ==
    [status: OperationStatus, feed: Feed \cup {NoFeed}, items: SUBSET Object,
     old: [Object -> Alert \cup {NoAlert}]]

Live == {"active", "expiring"}
DecisionStatus == Live \cup {"none", "expired"}

StoreTypeOK ==
    /\ objects \in [Object -> ObjectRecord]
    /\ ops \in [Token -> Operation]
    /\ status \in [Alert -> [Object -> DecisionStatus]]
    /\ expires \in [Alert -> [Object -> Nat]]

StoreInit ==
    /\ objects = [o \in Object |->
                    [desired |-> FALSE, feed |-> NoFeed,
                     scope |-> CHOOSE s \in Scope : TRUE]]
    /\ ops = [t \in Token |->
                [status |-> "free", feed |-> NoFeed, items |-> {},
                 old |-> [o \in Object |-> NoAlert]]]
    /\ status = [a \in Alert |-> [o \in Object |-> "none"]]
    /\ expires = [a \in Alert |-> [o \in Object |-> 0]]

-----------------------------------------------------------------------------
Active(o) == {a \in Alert : status[a][o] = "active"}

\* Faulty: an operation whose creation failed is not looked at again.
OpenOperationsPending ==
    {t \in Token : ops[t].status \in {"pending", "verified"}}

OpenOperations == {t \in Token : ops[t].status \in Open}

ApplyEnforcementPlan(plan) == objects' = plan

BeginAccepts(t, feed, items, old) ==
    /\ ops[t].status = "free"
    /\ \A o \in items :
        /\ objects[o].feed = feed
        /\ old[o] # NoAlert => status[old[o]][o] = "active"

BeginOperation(t, feed, items, old) ==
    ops' = [ops EXCEPT ![t] = [status |-> "pending", feed |-> feed,
                               items |-> items, old |-> old]]

\* The alert and its decisions must be new to the ledger, agree with the
\* stored objects, expire in the future and not too late; every replaced
\* decision must still be active.  An operation that is already verified is
\* accepted again and nothing is written.
Recorded(t) == ops[t].status \in {"verified", "completed"}

RecordAccepts(t, a, expiry, time) ==
    \/ Recorded(t)
    \/ /\ ops[t].status \in Unverified
       /\ alerts[a].feed = ops[t].feed
       /\ alerts[a].items = ops[t].items
       /\ \A o \in ops[t].items :
            /\ status[a][o] = "none"
            /\ alerts[a].scope[o] = objects[o].scope
            /\ expiry[o] > time
            /\ expiry[o] <= time + Duration + Slack
            /\ ops[t].old[o] # NoAlert => status[ops[t].old[o]][o] = "active"

\* Faulty: the replaced decision stays active.
RecordKeepsOld(t, a, expiry) ==
    /\ status' = [status EXCEPT ![a] =
                    [o \in Object |-> IF o \in ops[t].items THEN "active"
                                      ELSE status[a][o]]]
    /\ expires' = [expires EXCEPT ![a] = expiry]
    /\ ops' = [ops EXCEPT ![t].status = "verified"]

RecordVerifiedOperation(t, a, expiry) ==
    IF Recorded(t) THEN UNCHANGED <<status, expires, ops>>
    ELSE /\ status' = [b \in Alert |-> [o \in Object |->
                        IF o \notin ops[t].items THEN status[b][o]
                        ELSE IF b = a THEN "active"
                        ELSE IF b = ops[t].old[o] THEN "expiring"
                        ELSE status[b][o]]]
         /\ expires' = [expires EXCEPT ![a] =
                        [o \in Object |->
                            IF o \in ops[t].items THEN expiry[o]
                            ELSE expires[a][o]]]
         /\ ops' = [ops EXCEPT ![t].status = "verified"]

CompleteAccepts(t) == ops[t].status \in {"verified", "completed"}

CompleteOperation(t) == ops' = [ops EXCEPT ![t].status = "completed"]

\* Faulty: a verified operation may be set back.
SetAcceptsOpen(t) == ops[t].status \in Open

SetAccepts(t) == ops[t].status \in Unverified

SetOperationStatus(t, s) == ops' = [ops EXCEPT ![t].status = s]

MarkAccepts(a, o) == status[a][o] \in Live

MarkDecisionExpired(a, o) == status' = [status EXCEPT ![a][o] = "expired"]
=============================================================================

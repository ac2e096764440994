------------------------ MODULE ReconcileInvariant ------------------------
(***************************************************************************)
(* The inductive invariant of Reconcile and the two theorems that follow   *)
(* from it at once: the types, and one active decision per object.  Then,  *)
(* what any step may do to the LAPI and to the store, from which the       *)
(* invariants of ReconcileProofs and LedgerProofs are preserved; and last, *)
(* what is left of this when other processes work on the same tables,      *)
(* which TwoProcessesProofs starts from.                                   *)
(*                                                                         *)
(* OneActive alone is not inductive: RecordVerifiedOperation activates a   *)
(* decision without looking for another active one.  What saves it is that *)
(* an unverified operation is the only one for its objects and names the   *)
(* only decision that may be active (UnverifiedExclusive, UnverifiedCovers)*)
(* and that these facts survive a crash: recovery has every open operation *)
(* in hand before new ones are planned (RecoverKnowsOpen), and a plan is   *)
(* not yet in the journal while it still matches the ledger (PlanMatches). *)
(***************************************************************************)
EXTENDS Reconcile, TLAPS

\* Where the process is, and which locals are meaningful there.
ControlOK ==
    /\ pc \in {"idle", "list", "open"} => phase = "none" /\ cur = NoToken
    /\ pc \in {"recover", "plan"} => phase = "recover" /\ cur = NoToken
    /\ pc = "batch" => phase = "batch" /\ cur = NoToken
    /\ pc = "remove" => phase = "remove"
    /\ pc \in {"create", "get", "mark", "record", "finish"} =>
            phase \in {"recover", "batch"} /\ cur \in Token
    /\ pc \in {"get", "record"} => got \in Alert
    /\ pc \in {"expget", "expdel", "expmark"} =>
            /\ phase \in {"recover", "batch", "remove"}
            /\ exp \in Alert \X Object
            /\ phase # "remove" => cur \in Token
    /\ pc \in {"finish", "expget", "expdel", "expmark"} /\ phase # "remove" =>
            items \subseteq Replaced(cur)

\* No two unverified operations share an object.
UnverifiedExclusive ==
    \A s, t \in Token :
        /\ ops[s].status \in Unverified
        /\ ops[t].status \in Unverified
        /\ ops[s].items \cap ops[t].items # {}
        => s = t

\* The only decision that may be active for an object of an unverified
\* operation is the one the operation replaces.
UnverifiedCovers ==
    \A t \in Token : ops[t].status \in Unverified =>
        \A o \in ops[t].items, a \in Alert :
            status[a][o] = "active" => a = ops[t].old[o]

\* Until recovery is over, every unverified operation is still to be handled
\* or is being handled; planning starts when there is none.
RecoverKnowsOpen ==
    /\ phase = "recover" =>
        \A t \in Token : ops[t].status \in Unverified =>
            left[t] # "none" \/ t = cur
    /\ pc = "plan" => left = NoOps

\* A planned removal or renewal names the decision it is for.
PlanNames ==
    phase \in {"batch", "remove"} =>
        \A o \in Object : todo[o] \in {"renew", "remove"} => act[o] \in Alert

\* What is planned and not yet begun still agrees with the ledger and is in
\* no unverified operation.
PlanMatches ==
    /\ phase = "batch" =>
        \A o \in Object : todo[o] \in {"create", "renew", "refresh"} =>
            /\ \A t \in Token : ops[t].status \in Unverified =>
                    o \notin ops[t].items
            /\ \A a \in Alert : status[a][o] = "active" =>
                    todo[o] # "create" /\ a = act[o]
    /\ PlanNames

IndInv ==
    /\ TypeOK
    /\ ControlOK
    /\ OneActive
    /\ UnverifiedExclusive
    /\ UnverifiedCovers
    /\ RecoverKnowsOpen
    /\ PlanMatches

-----------------------------------------------------------------------------
(* Control.                                                                *)

\* After Return no local is meaningful and the Run is idle.
LEMMA ReturnControl ==
    ASSUME Return
    PROVE  ControlOK'
  BY Zenon DEF Return, ControlOK

\* After a call for an operation control is back in the loop that made it.
LEMMA OperationDoneControl ==
    ASSUME phase \in {"recover", "batch"}, NEW ok \in BOOLEAN,
           OperationDone(ok)
    PROVE  ControlOK'
  BY ReturnControl, Zenon DEF OperationDone, ControlOK

\* After expireOwned control is back in the removal loop or finishVerified.
LEMMA ExpireDoneControl ==
    ASSUME ControlOK, pc \in {"expget", "expdel", "expmark"}, ops' = ops,
           NEW ok \in BOOLEAN, ExpireDone(ok)
    PROVE  ControlOK'
<1>1. CASE phase # "remove" /\ ~ok
  BY <1>1, OperationDoneControl, Zenon DEF ExpireDone, ControlOK
<1>2. CASE ~(phase # "remove" /\ ~ok)
  BY <1>2, Zenon DEF ExpireDone, ControlOK, Replaced
<1> QED BY <1>1, <1>2, Zenon

\* A change of status leaves the items of all operations alone.
LEMMA StatusFrame ==
    ASSUME StoreTypeOK, NEW t \in Token, NEW s,
           ops' = [ops EXCEPT ![t].status = s]
    PROVE  \A u \in Token :
                /\ ops'[u].items = ops[u].items
                /\ ops'[u].old = ops[u].old
                /\ ops'[u].status = IF u = t THEN s ELSE ops[u].status
<1>1. \A u \in Token : ops[u] \in Operation
  BY Zenon DEF StoreTypeOK
<1> QED BY <1>1, Zenon DEF StoreTypeOK, Operation

\* Every action leads to a place where its locals are meaningful.
LEMMA ControlStep ==
    ASSUME TypeOK, ControlOK, PlanNames, [Next]_vars
    PROVE  ControlOK'
<1> USE LapiAssumption
<1>1. CASE StartRun
  BY <1>1, Zenon DEF StartRun, ControlOK
<1>2. ASSUME NEW t \in Token,
              RecoverVerified(t)
       PROVE  ControlOK'
  BY <1>2, Zenon DEF RecoverVerified, ControlOK, storeVars, Replaced, Pick
<1>3. ASSUME NEW t \in Token,
              RecoverFound(t)
       PROVE  ControlOK'
  BY <1>3, Zenon DEF RecoverFound, ControlOK, Pick, FindOperation, searchAlerts
<1>4. ASSUME NEW t \in Token,
              RecoverUnproven(t)
       PROVE  ControlOK'
  BY <1>4, ReturnControl, Zenon DEF RecoverUnproven
<1>5. ASSUME NEW t \in Token,
              RecoverMissing(t)
       PROVE  ControlOK'
  BY <1>5, Zenon DEF RecoverMissing, ControlOK, Pick
<1>6. CASE RecoverDone
  BY <1>6, Zenon DEF RecoverDone, Goto, ControlOK, storeVars, Replaced
<1>7. CASE NoLongerDesired
  BY <1>7, OperationDoneControl, Zenon DEF NoLongerDesired, ControlOK
<1>8. CASE CreateAlert
  BY <1>8, Zenon DEF CreateAlert, ControlOK
<1>9. CASE CreateAlertFails
  BY <1>9, Zenon DEF CreateAlertFails, Goto, ControlOK, storeVars, Replaced
<1>10. CASE GetAlertVerified
  BY <1>10, Zenon DEF GetAlertVerified, ControlOK
<1>11. CASE GetAlertFails
  BY <1>11, Zenon DEF GetAlertFails, Goto, ControlOK, storeVars, Replaced
<1>12. CASE MarkAmbiguous
  BY <1>12, OperationDoneControl, Zenon DEF MarkAmbiguous, ControlOK
<1>13. CASE Record
  <2>1. cur \in Token
    BY <1>13, Zenon DEF Record, ControlOK
  <2>2. Replaced(cur)' = Replaced(cur)
    <3>1. CASE Recorded(cur)
      BY <1>13, <3>1, Zenon DEF Record, RecordVerifiedOperation, Replaced
    <3>2. CASE ~Recorded(cur)
      <4>1. ops' = [ops EXCEPT ![cur].status = "verified"] /\ cur' = cur
        BY <1>13, <3>2, Zenon DEF Record, RecordVerifiedOperation
      <4> QED BY <2>1, <4>1, StatusFrame DEF Replaced, TypeOK
    <3> QED BY <3>1, <3>2, Zenon
  <2> QED BY <1>13, <2>1, <2>2, Zenon DEF Record, ControlOK
<1>14. CASE RecordFails
  BY <1>14, OperationDoneControl, Zenon DEF RecordFails, ControlOK
<1>15. ASSUME NEW o \in Object,
              FinishItem(o)
       PROVE  ControlOK'
  BY <1>15 DEF FinishItem, ControlOK, storeVars, Replaced, TypeOK,
     StoreTypeOK, Operation
<1>16. CASE Finish
  BY <1>16, OperationDoneControl, Zenon DEF Finish, ControlOK
<1>17. CASE FinishFails
  BY <1>17, OperationDoneControl, Zenon DEF FinishFails, ControlOK
<1>18. CASE ExpireOver
  BY <1>18, Zenon DEF ExpireOver, Goto, ControlOK, storeVars, Replaced
<1>19. CASE ExpireLive
  BY <1>19, Zenon DEF ExpireLive, Goto, ControlOK, storeVars, Replaced
<1>20. CASE ExpireUnproven
  BY <1>20, ExpireDoneControl, Zenon DEF ExpireUnproven, storeVars
<1>21. CASE ExpireDecision
  BY <1>21, Zenon DEF ExpireDecision, Goto, ControlOK, storeVars, Replaced
<1>22. CASE ExpireDecisionFails
  BY <1>22, ExpireDoneControl, Zenon DEF ExpireDecisionFails, storeVars
<1>23. CASE MarkExpired
  BY <1>23, ExpireDoneControl, Zenon DEF MarkExpired, storeVars
<1>24. CASE MarkExpiredFails
  BY <1>24, ExpireDoneControl, Zenon DEF MarkExpiredFails, storeVars
<1>25. ASSUME NEW o \in Object,
              PlanExpires(o)
       PROVE  ControlOK'
  BY <1>25, Zenon DEF PlanExpires, ControlOK
<1>26. CASE Plan
  BY <1>26, Zenon DEF Plan, ControlOK
<1>27. CASE PlanFails
  BY <1>27, ReturnControl, Zenon DEF PlanFails
<1>28. ASSUME NEW k \in {"create", "refresh"}, NEW f \in Feed,
              NEW b \in SUBSET Object, NEW t \in Token,
              BatchBegins(k, f, b, t)
       PROVE  ControlOK'
  BY <1>28, Zenon DEF BatchBegins, ControlOK
<1>29. ASSUME NEW k \in {"create", "refresh"}, NEW f \in Feed,
              NEW b \in SUBSET Object,
              BatchFails(k, f, b)
       PROVE  ControlOK'
  BY <1>29, Zenon DEF BatchFails, ControlOK
<1>30. CASE BatchesDone
  BY <1>30, ReturnControl, Zenon DEF BatchesDone, ControlOK
<1>31. ASSUME NEW o \in Object,
              Remove(o)
       PROVE  ControlOK'
  BY <1>31, Zenon DEF Remove, ControlOK, PlanMatches, PlanNames
<1>32. CASE RunDone
  BY <1>32, ReturnControl, Zenon DEF RunDone
<1>33. CASE Crash
  BY <1>33, ReturnControl, Zenon DEF Crash
<1>34. CASE Environment
  BY <1>34, Zenon DEF Environment, localVars, storeVars, ControlOK, Replaced
<1>35. CASE UNCHANGED vars
  BY <1>35, Zenon DEF vars, localVars, storeVars, ControlOK, Replaced
<1>36. CASE ListEnforcementObjects
  BY <1>36, Zenon DEF ListEnforcementObjects, ControlOK
<1>37. CASE ReadOpenOperations
  BY <1>37, Zenon DEF ReadOpenOperations, ControlOK
<1>38. ASSUME NEW o \in Object,
              PlanExpireFails(o)
       PROVE  ControlOK'
  BY <1>38, ReturnControl, Zenon DEF PlanExpireFails
<1> QED BY <1>1, <1>2, <1>3, <1>4, <1>5, <1>6, <1>7, <1>8, <1>9, <1>10, <1>11,
     <1>12, <1>13, <1>14, <1>15, <1>16, <1>17, <1>18, <1>19, <1>20, <1>21,
     <1>22, <1>23, <1>24, <1>25, <1>26, <1>27, <1>28, <1>29, <1>30, <1>31,
     <1>32, <1>33, <1>34, <1>35, <1>36, <1>37, <1>38, Zenon DEF Next, RunStep,
     Recover, CreateForOperation, FinishVerified, ExpireOwned, PlanAndBatch

-----------------------------------------------------------------------------
(* The LAPI.                                                               *)

\* The request for the operation at hand is well-formed.
LEMMA CreateRequestType ==
    ASSUME TypeOK, cur \in Token
    PROVE  CreateRequest \in Request
  BY Zenon DEF TypeOK, StoreTypeOK, LocalTypeOK, CreateRequest, Request, Operation,
         ObjectRecord

\* An alert that somebody else changes or deletes keeps its other fields.
LEMMA AlertStateType ==
    ASSUME LapiTypeOK, NEW a \in Alert, NEW s \in {"foreign", "gone"}
    PROVE  [alerts EXCEPT ![a].state = s] \in [Alert -> AlertRecord]
<1>1. alerts[a] \in AlertRecord
  BY Zenon DEF LapiTypeOK
<1>2. [alerts[a] EXCEPT !.state = s] \in AlertRecord
  BY <1>1, Zenon DEF AlertRecord
<1> QED BY <1>2, Zenon DEF LapiTypeOK

\* A request that is on its way changes only in that a search overtakes it.
SameRequest(q, r) ==
    /\ r.token = q.token /\ r.feed = q.feed /\ r.items = q.items
    /\ r = q \/ r.late

\* A search for a token overtakes all requests that carry it.
LEMMA OvertakeEffect ==
    ASSUME posts \subseteq Request, NEW t, Overtake(t)
    PROVE  /\ posts' \subseteq Request
           /\ \A r \in posts' : /\ r.token = t => r.late
                                /\ \E q \in posts : SameRequest(q, r)
<1>1. ASSUME NEW q \in posts
      PROVE  LET m == [q EXCEPT !.late = TRUE] IN
             m \in Request /\ m.token = q.token /\ SameRequest(q, m) /\ m.late
  BY <1>1 DEF Request, SameRequest
<1>2. ASSUME NEW r \in posts'
      PROVE  /\ r \in Request /\ (r.token = t => r.late)
             /\ \E q \in posts : SameRequest(q, r)
  <2>1. PICK q \in posts :
            r = IF q.token = t THEN [q EXCEPT !.late = TRUE] ELSE q
    BY <1>2, Zenon DEF Overtake
  <2>2. CASE q.token = t
    BY <1>1, <2>1, <2>2, Zenon
  <2>3. CASE q.token # t
    BY <2>1, <2>3, Zenon DEF SameRequest
  <2> QED BY <2>2, <2>3, Zenon
<1> QED BY <1>2, Zenon

\* Every action keeps the state of the LAPI well-typed.
LEMMA LapiTypeStep ==
    ASSUME TypeOK, ControlOK, [Next]_vars
    PROVE  LapiTypeOK'
<1> USE LapiAssumption
<1> USE DEF TypeOK, LapiTypeOK, lapiVars, Fault
<1>1. CASE StartRun
  BY <1>1, Zenon DEF StartRun
<1>2. ASSUME NEW t \in Token,
              RecoverVerified(t)
       PROVE  LapiTypeOK'
  BY <1>2, Zenon DEF RecoverVerified
<1>3. ASSUME NEW t \in Token,
              RecoverFound(t)
       PROVE  LapiTypeOK'
  BY <1>3, OvertakeEffect, Zenon DEF RecoverFound
<1>4. ASSUME NEW t \in Token,
              RecoverUnproven(t)
       PROVE  LapiTypeOK'
  BY <1>4, Zenon DEF RecoverUnproven
<1>5. ASSUME NEW t \in Token,
              RecoverMissing(t)
       PROVE  LapiTypeOK'
  BY <1>5, OvertakeEffect, Zenon DEF RecoverMissing
<1>6. CASE RecoverDone
  BY <1>6, Zenon DEF RecoverDone
<1>7. CASE NoLongerDesired
  BY <1>7, Zenon DEF NoLongerDesired
<1>8. CASE CreateAlert
  BY <1>8, CreateRequestType DEF CreateAlert, createAlerts, AlertRecord,
     Request, ControlOK
<1>9. CASE CreateAlertFails
  BY <1>9, CreateRequestType DEF CreateAlertFails, ControlOK
<1>10. CASE GetAlertVerified
  BY <1>10, Zenon DEF GetAlertVerified
<1>11. CASE GetAlertFails
  BY <1>11 DEF GetAlertFails
<1>12. CASE MarkAmbiguous
  BY <1>12 DEF MarkAmbiguous
<1>13. CASE Record
  BY <1>13, Zenon DEF Record
<1>14. CASE RecordFails
  BY <1>14 DEF RecordFails
<1>15. ASSUME NEW o \in Object,
              FinishItem(o)
       PROVE  LapiTypeOK'
  BY <1>15, Zenon DEF FinishItem
<1>16. CASE Finish
  BY <1>16, Zenon DEF Finish
<1>17. CASE FinishFails
  BY <1>17 DEF FinishFails
<1>18. CASE ExpireOver
  BY <1>18, Zenon DEF ExpireOver
<1>19. CASE ExpireLive
  BY <1>19, Zenon DEF ExpireLive
<1>20. CASE ExpireUnproven
  BY <1>20 DEF ExpireUnproven
<1>21. CASE ExpireDecision
  BY <1>21, Zenon DEF ExpireDecision, expireDecision, ControlOK
<1>22. CASE ExpireDecisionFails
  BY <1>22 DEF ExpireDecisionFails, ControlOK
<1>23. CASE MarkExpired
  BY <1>23, Zenon DEF MarkExpired
<1>24. CASE MarkExpiredFails
  BY <1>24 DEF MarkExpiredFails
<1>25. ASSUME NEW o \in Object,
              PlanExpires(o)
       PROVE  LapiTypeOK'
  BY <1>25, Zenon DEF PlanExpires
<1>26. CASE Plan
  BY <1>26, Zenon DEF Plan
<1>27. CASE PlanFails
  BY <1>27 DEF PlanFails
<1>28. ASSUME NEW k \in {"create", "refresh"}, NEW f \in Feed,
              NEW b \in SUBSET Object, NEW t \in Token,
              BatchBegins(k, f, b, t)
       PROVE  LapiTypeOK'
  BY <1>28, Zenon DEF BatchBegins
<1>29. ASSUME NEW k \in {"create", "refresh"}, NEW f \in Feed,
              NEW b \in SUBSET Object,
              BatchFails(k, f, b)
       PROVE  LapiTypeOK'
  BY <1>29 DEF BatchFails
<1>30. CASE BatchesDone
  BY <1>30, Zenon DEF BatchesDone
<1>31. ASSUME NEW o \in Object,
              Remove(o)
       PROVE  LapiTypeOK'
  BY <1>31, Zenon DEF Remove
<1>32. CASE RunDone
  BY <1>32, Zenon DEF RunDone
<1>33. CASE Crash
  BY <1>33, CreateRequestType DEF Crash, ControlOK
<1>34. CASE Environment
  <2>1. ASSUME NEW r \in posts, DeliverPost(r) PROVE LapiTypeOK'
    BY <2>1 DEF DeliverPost, createAlerts, AlertRecord, Request
  <2>2. ASSUME NEW r \in posts, DropPost(r) PROVE LapiTypeOK'
    BY <2>2, Zenon DEF DropPost
  <2>3. ASSUME NEW d \in deletes, DeliverDelete(d) PROVE LapiTypeOK'
    BY <2>3, Zenon DEF DeliverDelete, expireDecision
  <2>4. ASSUME NEW d \in deletes, DropDelete(d) PROVE LapiTypeOK'
    BY <2>4, Zenon DEF DropDelete
  <2>5. ASSUME NEW a \in Alert, Interfere(a) PROVE LapiTypeOK'
    <3>1. PICK s \in {"foreign", "gone"} :
                alerts' = [alerts EXCEPT ![a].state = s]
      BY <2>5, Zenon DEF Interfere
    <3>2. alerts' \in [Alert -> AlertRecord]
      BY <3>1, AlertStateType, Zenon
    <3> QED BY <2>5, <3>2 DEF Interfere
  <2>6. CASE Tick
    BY <2>6 DEF Tick
  <2> QED
    BY <1>34, <2>1, <2>2, <2>3, <2>4, <2>5, <2>6, Zenon DEF Environment, Network
<1>35. CASE UNCHANGED vars
  BY <1>35, Zenon DEF vars
<1>36. CASE ListEnforcementObjects
  BY <1>36, Zenon DEF ListEnforcementObjects
<1>37. CASE ReadOpenOperations
  BY <1>37, Zenon DEF ReadOpenOperations
<1>38. ASSUME NEW o \in Object,
              PlanExpireFails(o)
       PROVE  LapiTypeOK'
  BY <1>38 DEF PlanExpireFails
<1> QED BY <1>1, <1>2, <1>3, <1>4, <1>5, <1>6, <1>7, <1>8, <1>9, <1>10, <1>11,
     <1>12, <1>13, <1>14, <1>15, <1>16, <1>17, <1>18, <1>19, <1>20, <1>21,
     <1>22, <1>23, <1>24, <1>25, <1>26, <1>27, <1>28, <1>29, <1>30, <1>31,
     <1>32, <1>33, <1>34, <1>35, <1>36, <1>37, <1>38, Zenon DEF Next, RunStep,
     Recover, CreateForOperation, FinishVerified, ExpireOwned, PlanAndBatch

-----------------------------------------------------------------------------
(* Every action keeps the locals of a Run and the store well-typed.        *)
(* Control flow: the ways a call of the Run ends.                          *)

\* A Run that returns (Return) leaves well-typed locals.
LEMMA ReturnType ==
    ASSUME LocalTypeOK, Return
    PROVE  LocalTypeOK'
  BY Zenon
     DEF LocalTypeOK, Return, Step, Action, NoOps, NoItems, NoAction, NoRow,
         NoAlert

\* So does the end of a call for one operation, whether it failed or not.
LEMMA OperationDoneType ==
    ASSUME LocalTypeOK, NEW ok \in BOOLEAN, phase \in {"recover", "batch"},
           OperationDone(ok)
    PROVE  LocalTypeOK'
<1>1. CASE phase = "recover" /\ ~ok
  BY <1>1, ReturnType, Zenon DEF OperationDone
<1>2. CASE ~(phase = "recover" /\ ~ok)
  <2>1. (err \/ ~ok) \in BOOLEAN
    BY Zenon
  <2>2. pc' = phase /\ err' \in BOOLEAN
    BY <1>2, <2>1, Zenon DEF OperationDone
  <2> QED
    BY <1>2, <2>2
       DEF LocalTypeOK, OperationDone, Step, NoItems, NoRow, NoAlert
<1> QED BY <1>1, <1>2, Zenon

\* And the end of expireOwned, in any of the loops that call it.
LEMMA ExpireDoneType ==
    ASSUME LocalTypeOK, NEW ok \in BOOLEAN,
           phase \in {"recover", "batch", "remove"}, ExpireDone(ok)
    PROVE  LocalTypeOK'
  BY OperationDoneType, Zenon DEF LocalTypeOK, ExpireDone, Step, NoRow

\* Going on to the next call changes the program counter only.
LEMMA GotoType ==
    ASSUME LocalTypeOK, NEW label \in Step, Goto(label)
    PROVE  LocalTypeOK'
  BY Zenon DEF LocalTypeOK, Goto

\* The expiries read back from a verified alert are instants.
LEMMA ReadBackType ==
    ASSUME TypeOK, NEW t \in Token, NEW a \in Alert, VerifiedAlert(t, a)
    PROVE  ReadBack(t, a) \in [Object -> Nat]
  BY LapiAssumption
     DEF TypeOK, LapiTypeOK, StoreTypeOK, LocalTypeOK, VerifiedAlert, ReadBack,
         DecisionExpiry, ExpiryRefused, Operation

\* An operation keeps its fields when its status changes.
LEMMA StatusType ==
    ASSUME StoreTypeOK, NEW t \in Token, NEW s \in OperationStatus
    PROVE  [ops EXCEPT ![t].status = s] \in [Token -> Operation]
<1>1. ops[t] \in Operation
  BY Zenon DEF StoreTypeOK
<1>2. [ops[t] EXCEPT !.status = s] \in Operation
  BY <1>1, Zenon DEF Operation
<1> QED BY <1>2, Zenon DEF StoreTypeOK

-----------------------------------------------------------------------------
(* Types.                                                                  *)

\* Every action of the Run keeps its locals well-typed.
LEMMA LocalTypeStep ==
    ASSUME TypeOK, ControlOK, PlanNames, [Next]_vars
    PROVE  LocalTypeOK'
<1> USE LapiAssumption, ReconcileAssumption
<1> USE DEF TypeOK, LocalTypeOK, Step, Action
<1>1. CASE StartRun
  BY <1>1, Zenon DEF StartRun, LapiTypeOK
<1>2. ASSUME NEW t \in Token,
              RecoverVerified(t)
       PROVE  LocalTypeOK'
  BY <1>2, Zenon DEF RecoverVerified, StoreTypeOK, Operation, Replaced
<1>3. ASSUME NEW t \in Token,
              RecoverFound(t)
       PROVE  LocalTypeOK'
  <2>1. PICK a \in Alert : /\ VerifiedAlert(t, a)
                           /\ got' = a /\ seen' = ReadBack(t, a)
    BY <1>3, Zenon DEF RecoverFound, FindOperation, searchAlerts
  <2>2. ReadBack(t, a) \in [Object -> Nat]
    BY <2>1, ReadBackType, Zenon
  <2>3. /\ left' = [left EXCEPT ![t] = "none"] /\ cur' = t /\ pc' = "record"
        /\ UNCHANGED <<phase, now, snap, items, exp, todo, act, err>>
    BY <1>3, Zenon DEF RecoverFound
  <2>4. QED
    BY <2>1, <2>2, <2>3, Zenon
<1>4. ASSUME NEW t \in Token,
              RecoverUnproven(t)
       PROVE  LocalTypeOK'
  BY <1>4, ReturnType, Zenon DEF RecoverUnproven
<1>5. ASSUME NEW t \in Token,
              RecoverMissing(t)
       PROVE  LocalTypeOK'
  BY <1>5, Zenon DEF RecoverMissing
<1>6. CASE RecoverDone
  BY <1>6, GotoType, Zenon DEF RecoverDone
<1>7. CASE NoLongerDesired
  BY <1>7, OperationDoneType, Zenon DEF NoLongerDesired, ControlOK
<1>8. CASE CreateAlert
  BY <1>8, Zenon DEF CreateAlert
<1>9. CASE CreateAlertFails
  BY <1>9, GotoType, Zenon DEF CreateAlertFails
<1>10. CASE GetAlertVerified
  BY <1>10, ReadBackType, Zenon DEF GetAlertVerified, ControlOK
<1>11. CASE GetAlertFails
  BY <1>11, GotoType, Zenon DEF GetAlertFails
<1>12. CASE MarkAmbiguous
  BY <1>12, OperationDoneType, Zenon DEF MarkAmbiguous, ControlOK
<1>13. CASE Record
  BY <1>13, Zenon DEF Record, StoreTypeOK, Operation, Replaced, ControlOK
<1>14. CASE RecordFails
  BY <1>14, OperationDoneType, Zenon DEF RecordFails, ControlOK
<1>15. ASSUME NEW o \in Object,
              FinishItem(o)
       PROVE  LocalTypeOK'
  BY <1>15 DEF FinishItem, StoreTypeOK, Operation, Replaced, ControlOK, Alert,
     NoAlert
<1>16. CASE Finish
  BY <1>16, OperationDoneType, Zenon DEF Finish, ControlOK
<1>17. CASE FinishFails
  BY <1>17, OperationDoneType, Zenon DEF FinishFails, ControlOK
<1>18. CASE ExpireOver
  BY <1>18, GotoType, Zenon DEF ExpireOver
<1>19. CASE ExpireLive
  BY <1>19, GotoType, Zenon DEF ExpireLive
<1>20. CASE ExpireUnproven
  BY <1>20, ExpireDoneType, Zenon DEF ExpireUnproven, ControlOK
<1>21. CASE ExpireDecision
  BY <1>21, GotoType, Zenon DEF ExpireDecision
<1>22. CASE ExpireDecisionFails
  BY <1>22, ExpireDoneType, Zenon DEF ExpireDecisionFails, ControlOK
<1>23. CASE MarkExpired
  BY <1>23, ExpireDoneType, Zenon DEF MarkExpired, ControlOK
<1>24. CASE MarkExpiredFails
  BY <1>24, ExpireDoneType, Zenon DEF MarkExpiredFails, ControlOK
<1>25. ASSUME NEW o \in Object,
              PlanExpires(o)
       PROVE  LocalTypeOK'
  BY <1>25, Zenon DEF PlanExpires
<1>26. CASE Plan
  BY <1>26, Zenon DEF Plan, PlannedAction, ActiveAlert, Active
<1>27. CASE PlanFails
  BY <1>27, ReturnType, Zenon DEF PlanFails
<1>28. ASSUME NEW k \in {"create", "refresh"}, NEW f \in Feed,
              NEW b \in SUBSET Object, NEW t \in Token,
              BatchBegins(k, f, b, t)
       PROVE  LocalTypeOK'
  BY <1>28, Zenon DEF BatchBegins, Dispatched
<1>29. ASSUME NEW k \in {"create", "refresh"}, NEW f \in Feed,
              NEW b \in SUBSET Object,
              BatchFails(k, f, b)
       PROVE  LocalTypeOK'
  BY <1>29, Zenon DEF BatchFails, Dispatched
<1>30. CASE BatchesDone
  BY <1>30, ReturnType, Zenon DEF BatchesDone
<1>31. ASSUME NEW o \in Object,
              Remove(o)
       PROVE  LocalTypeOK'
  BY <1>31, Zenon DEF Remove, PlanMatches, PlanNames, ControlOK
<1>32. CASE RunDone
  BY <1>32, ReturnType, Zenon DEF RunDone
<1>33. CASE Crash
  BY <1>33, ReturnType, Zenon DEF Crash
<1>34. CASE Environment
  BY <1>34, ZenonT(60) DEF Environment, localVars
<1>35. CASE UNCHANGED vars
  BY <1>35, ZenonT(60) DEF vars, localVars
<1>36. CASE ListEnforcementObjects
  BY <1>36, Zenon DEF ListEnforcementObjects, StoreTypeOK
<1>37. CASE ReadOpenOperations
  BY <1>37, Zenon DEF ReadOpenOperations, OpenOperations
<1>38. ASSUME NEW o \in Object,
              PlanExpireFails(o)
       PROVE  LocalTypeOK'
  BY <1>38, ReturnType, Zenon DEF PlanExpireFails
<1> QED BY <1>1, <1>2, <1>3, <1>4, <1>5, <1>6, <1>7, <1>8, <1>9, <1>10, <1>11,
     <1>12, <1>13, <1>14, <1>15, <1>16, <1>17, <1>18, <1>19, <1>20, <1>21,
     <1>22, <1>23, <1>24, <1>25, <1>26, <1>27, <1>28, <1>29, <1>30, <1>31,
     <1>32, <1>33, <1>34, <1>35, <1>36, <1>37, <1>38, Zenon DEF Next, RunStep,
     Recover, CreateForOperation, FinishVerified, ExpireOwned, PlanAndBatch

\* Every action keeps the tables of the store well-typed.
LEMMA StoreTypeStep ==
    ASSUME TypeOK, ControlOK, [Next]_vars
    PROVE  StoreTypeOK'
<1> USE LapiAssumption, ReconcileAssumption
<1> USE DEF TypeOK, StoreTypeOK, storeVars
<1>1. CASE StartRun
  BY <1>1, Zenon DEF StartRun, ApplyEnforcementPlan
<1>2. ASSUME NEW t \in Token,
              RecoverVerified(t)
       PROVE  StoreTypeOK'
  BY <1>2, Zenon DEF RecoverVerified
<1>3. ASSUME NEW t \in Token,
              RecoverFound(t)
       PROVE  StoreTypeOK'
  BY <1>3, Zenon DEF RecoverFound
<1>4. ASSUME NEW t \in Token,
              RecoverUnproven(t)
       PROVE  StoreTypeOK'
  BY <1>4, Zenon DEF RecoverUnproven
<1>5. ASSUME NEW t \in Token,
              RecoverMissing(t)
       PROVE  StoreTypeOK'
  BY <1>5, Zenon DEF RecoverMissing
<1>6. CASE RecoverDone
  BY <1>6, Zenon DEF RecoverDone
<1>7. CASE NoLongerDesired
  <2>1. cur \in Token /\ "failed" \in OperationStatus
    BY <1>7, Zenon DEF NoLongerDesired, ControlOK, OperationStatus
  <2>2. [ops EXCEPT ![cur].status = "failed"] \in [Token -> Operation]
    BY <2>1, StatusType, Zenon
  <2> QED BY <1>7, <2>2, Zenon DEF NoLongerDesired, SetOperationStatus
<1>8. CASE CreateAlert
  BY <1>8, Zenon DEF CreateAlert
<1>9. CASE CreateAlertFails
  BY <1>9, Zenon DEF CreateAlertFails
<1>10. CASE GetAlertVerified
  BY <1>10, Zenon DEF GetAlertVerified
<1>11. CASE GetAlertFails
  BY <1>11, Zenon DEF GetAlertFails
<1>12. CASE MarkAmbiguous
  <2>1. cur \in Token /\ "ambiguous" \in OperationStatus
    BY <1>12, Zenon DEF MarkAmbiguous, ControlOK, OperationStatus, Open, Unverified
  <2>2. [ops EXCEPT ![cur].status = "ambiguous"] \in [Token -> Operation]
    BY <2>1, StatusType, Zenon
  <2> QED BY <1>12, <2>2, Zenon DEF MarkAmbiguous, SetOperationStatus
<1>13. CASE Record
  <2>1. cur \in Token /\ got \in Alert /\ "verified" \in OperationStatus
    BY <1>13, Zenon DEF Record, ControlOK, OperationStatus, Open
  <2>2. [ops EXCEPT ![cur].status = "verified"] \in [Token -> Operation]
    BY <2>1, StatusType, Zenon
  <2>3. CASE Recorded(cur)
    BY <1>13, <2>3, Zenon DEF Record, RecordVerifiedOperation
  <2>4. CASE ~Recorded(cur)
    <3>1. status' \in [Alert -> [Object -> DecisionStatus]]
      BY <1>13, <2>4 DEF Record, RecordVerifiedOperation, DecisionStatus, Live
    <3>2. expires' \in [Alert -> [Object -> Nat]]
      <4>1. [o \in Object |-> IF o \in ops[cur].items THEN seen[o]
                            ELSE expires[got][o]] \in [Object -> Nat]
        BY <2>1, SMTT(60) DEF LocalTypeOK
      <4> QED
        BY <1>13, <2>1, <2>4, <4>1, Zenon DEF Record, RecordVerifiedOperation
    <3> QED
      BY <1>13, <2>2, <2>4, <3>1, <3>2, Zenon
         DEF Record, RecordVerifiedOperation
  <2> QED BY <2>3, <2>4, Zenon
<1>14. CASE RecordFails
  BY <1>14, Zenon DEF RecordFails
<1>15. ASSUME NEW o \in Object,
              FinishItem(o)
       PROVE  StoreTypeOK'
  BY <1>15, Zenon DEF FinishItem
<1>16. CASE Finish
  BY <1>16, StatusType, Zenon DEF Finish, CompleteOperation, ControlOK,
     OperationStatus, Open, Unverified
<1>17. CASE FinishFails
  BY <1>17, Zenon DEF FinishFails
<1>18. CASE ExpireOver
  BY <1>18, Zenon DEF ExpireOver
<1>19. CASE ExpireLive
  BY <1>19, Zenon DEF ExpireLive
<1>20. CASE ExpireUnproven
  BY <1>20, Zenon DEF ExpireUnproven
<1>21. CASE ExpireDecision
  BY <1>21, Zenon DEF ExpireDecision
<1>22. CASE ExpireDecisionFails
  BY <1>22, Zenon DEF ExpireDecisionFails
<1>23. CASE MarkExpired
  BY <1>23, Zenon DEF MarkExpired, MarkDecisionExpired, ControlOK, DecisionStatus,
     Live
<1>24. CASE MarkExpiredFails
  BY <1>24, Zenon DEF MarkExpiredFails
<1>25. ASSUME NEW o \in Object,
              PlanExpires(o)
       PROVE  StoreTypeOK'
  BY <1>25, Zenon DEF PlanExpires, MarkDecisionExpired, DecisionStatus, Live
<1>26. CASE Plan
  BY <1>26, Zenon DEF Plan
<1>27. CASE PlanFails
  BY <1>27, Zenon DEF PlanFails
<1>28. ASSUME NEW k \in {"create", "refresh"}, NEW f \in Feed,
              NEW b \in SUBSET Object, NEW t \in Token,
              BatchBegins(k, f, b, t)
       PROVE  StoreTypeOK'
  BY <1>28, Zenon DEF BatchBegins, BeginOperation, IsBatch, OldOf, LocalTypeOK,
     Operation, OperationStatus, Open, Unverified
<1>29. ASSUME NEW k \in {"create", "refresh"}, NEW f \in Feed,
              NEW b \in SUBSET Object,
              BatchFails(k, f, b)
       PROVE  StoreTypeOK'
  BY <1>29, Zenon DEF BatchFails
<1>30. CASE BatchesDone
  BY <1>30, Zenon DEF BatchesDone
<1>31. ASSUME NEW o \in Object,
              Remove(o)
       PROVE  StoreTypeOK'
  BY <1>31, Zenon DEF Remove
<1>32. CASE RunDone
  BY <1>32, Zenon DEF RunDone
<1>33. CASE Crash
  BY <1>33, Zenon DEF Crash
<1>34. CASE Environment
  BY <1>34, Zenon DEF Environment
<1>35. CASE UNCHANGED vars
  BY <1>35, Zenon DEF vars
<1>36. CASE ListEnforcementObjects
  BY <1>36, Zenon DEF ListEnforcementObjects
<1>37. CASE ReadOpenOperations
  BY <1>37, Zenon DEF ReadOpenOperations
<1>38. ASSUME NEW o \in Object,
              PlanExpireFails(o)
       PROVE  StoreTypeOK'
  BY <1>38, Zenon DEF PlanExpireFails
<1> QED BY <1>1, <1>2, <1>3, <1>4, <1>5, <1>6, <1>7, <1>8, <1>9, <1>10, <1>11,
     <1>12, <1>13, <1>14, <1>15, <1>16, <1>17, <1>18, <1>19, <1>20, <1>21,
     <1>22, <1>23, <1>24, <1>25, <1>26, <1>27, <1>28, <1>29, <1>30, <1>31,
     <1>32, <1>33, <1>34, <1>35, <1>36, <1>37, <1>38, Zenon DEF Next, RunStep,
     Recover, CreateForOperation, FinishVerified, ExpireOwned, PlanAndBatch

-----------------------------------------------------------------------------
(* The ledger and the journal.                                             *)

\* Apart from beginning an operation and recording its result, no action
\* makes an operation unverified, touches the items of an unverified one or
\* activates a decision.
Shrinks ==
    /\ \A t \in Token : ops'[t].status \in Unverified =>
            /\ ops[t].status \in Unverified
            /\ ops'[t].items = ops[t].items
            /\ ops'[t].old = ops[t].old
    /\ \A a \in Alert, o \in Object :
            status'[a][o] = "active" => status[a][o] = "active"

\* Such an action keeps the three facts about the ledger and the journal.
LEMMA ShrinksKeepsLedger ==
    ASSUME TypeOK, OneActive, UnverifiedExclusive, UnverifiedCovers, Shrinks
    PROVE  OneActive' /\ UnverifiedExclusive' /\ UnverifiedCovers'
<1>1. OneActive'
  BY Zenon DEF OneActive, Shrinks
<1>2. UnverifiedExclusive'
  BY Zenon DEF UnverifiedExclusive, Shrinks
<1>3. UnverifiedCovers'
  <2>1. \A t \in Token : ops[t].items \subseteq Object
    BY Zenon DEF TypeOK, StoreTypeOK, Operation
  <2>2. ASSUME NEW t \in Token, ops'[t].status \in Unverified,
               NEW o \in ops'[t].items, NEW a \in Alert,
               status'[a][o] = "active"
        PROVE  a = ops'[t].old[o]
    <3>1. /\ ops[t].status \in Unverified
          /\ o \in ops[t].items /\ ops'[t].old = ops[t].old
      BY <2>2, Zenon DEF Shrinks
    <3>2. o \in Object
      BY <2>1, <3>1, Zenon
    <3>3. status[a][o] = "active"
      BY <2>2, <3>2, Zenon DEF Shrinks
    <3> QED BY <3>1, <3>3, Zenon DEF UnverifiedCovers
  <2> QED BY <2>2, Zenon DEF UnverifiedCovers
<1> QED BY <1>1, <1>2, <1>3, Zenon

\* While the plan stays as it is, such an action keeps it matched.
LEMMA ShrinksKeepsPlan ==
    ASSUME PlanMatches, Shrinks, UNCHANGED <<phase, todo, act>>
    PROVE  PlanMatches'
<1>1. ASSUME phase = "batch", NEW o \in Object,
             todo[o] \in {"create", "renew", "refresh"}
      PROVE  /\ \A t \in Token : ops'[t].status \in Unverified =>
                    o \notin ops'[t].items
             /\ \A a \in Alert : status'[a][o] = "active" =>
                    todo[o] # "create" /\ a = act[o]
  <2>1. ASSUME NEW t \in Token, ops'[t].status \in Unverified
        PROVE  o \notin ops'[t].items
    BY <1>1, <2>1, Zenon DEF PlanMatches, PlanNames, Shrinks
  <2>2. ASSUME NEW a \in Alert, status'[a][o] = "active"
        PROVE  todo[o] # "create" /\ a = act[o]
    BY <1>1, <2>2, Zenon DEF PlanMatches, PlanNames, Shrinks
  <2> QED BY <2>1, <2>2, Zenon
<1>2. ASSUME phase \in {"batch", "remove"}, NEW o \in Object,
             todo[o] \in {"renew", "remove"}
      PROVE  act[o] \in Alert
  BY <1>2, Zenon DEF PlanMatches, PlanNames
<1> QED BY <1>1, <1>2, Zenon DEF PlanMatches, PlanNames

\* When a Run returns there is nothing left to match.
LEMMA ReturnPlan ==
    ASSUME Return
    PROVE  RecoverKnowsOpen' /\ PlanMatches'
  BY Zenon DEF Return, RecoverKnowsOpen, PlanMatches, PlanNames

\* When the call for an operation ends, what is planned still matches, and a
\* successful one leaves its operation verified or closed.
LEMMA OperationDonePlan ==
    ASSUME ControlOK, RecoverKnowsOpen, PlanMatches, Shrinks,
           phase \in {"recover", "batch"}, pc # "plan",
           NEW ok \in BOOLEAN, OperationDone(ok),
           ok => cur \in Token /\ ops'[cur].status \notin Unverified
    PROVE  RecoverKnowsOpen' /\ PlanMatches'
<1>1. CASE phase = "recover" /\ ~ok
  BY <1>1, ReturnPlan, Zenon DEF OperationDone
<1>2. CASE ~(phase = "recover" /\ ~ok)
  <2>1. RecoverKnowsOpen'
    BY <1>2, Zenon DEF OperationDone, RecoverKnowsOpen, Shrinks
  <2>2. PlanMatches'
    BY <1>2, ShrinksKeepsPlan, Zenon DEF OperationDone
  <2> QED BY <2>1, <2>2, Zenon
<1> QED BY <1>1, <1>2, Zenon

\* An action that stays within its loop keeps the plan matched.
LEMMA SameLoopPlan ==
    ASSUME RecoverKnowsOpen, PlanMatches, Shrinks,
           UNCHANGED <<phase, left, cur, todo, act>>, pc' # "plan"
    PROVE  RecoverKnowsOpen' /\ PlanMatches'
<1>1. RecoverKnowsOpen'
  BY Zenon DEF RecoverKnowsOpen, Shrinks
<1>2. PlanMatches'
  BY ShrinksKeepsPlan, Zenon
<1> QED BY <1>1, <1>2, Zenon

\* The same when expireOwned ends.
LEMMA ExpireDonePlan ==
    ASSUME ControlOK, RecoverKnowsOpen, PlanMatches, Shrinks,
           pc \in {"expget", "expdel", "expmark"},
           NEW ok \in BOOLEAN, ExpireDone(ok)
    PROVE  RecoverKnowsOpen' /\ PlanMatches'
<1>1. CASE phase # "remove" /\ ~ok
  BY <1>1, OperationDonePlan, Zenon DEF ExpireDone, ControlOK
<1>2. CASE ~(phase # "remove" /\ ~ok)
  BY <1>2, SameLoopPlan, Zenon DEF ExpireDone
<1> QED BY <1>1, <1>2, Zenon

LedgerOK ==
    OneActive /\ UnverifiedExclusive /\ UnverifiedCovers /\ RecoverKnowsOpen
              /\ PlanMatches

\* Recording an operation for the first time: its items get the new decision
\* and lose the only one that could be active; nothing else changes.
LEMMA RecordLedger ==
    ASSUME IndInv, cur \in Token, got \in Alert, Record, ~Recorded(cur)
    PROVE  LedgerOK'
<1> USE DEF IndInv, LedgerOK
<1>1. /\ ops[cur].status \in Unverified
      /\ ops' = [ops EXCEPT ![cur].status = "verified"]
      /\ UNCHANGED <<phase, left, cur, todo, act>>
      /\ pc' = "finish"
  BY Zenon DEF Record, RecordAccepts, RecordVerifiedOperation
<1>2. \A t \in Token : ops'[t].status \in Unverified =>
        /\ t # cur
        /\ ops[t].status \in Unverified
        /\ ops'[t].items = ops[t].items
        /\ ops'[t].old = ops[t].old
  <2>1. \A u \in Token :
          /\ ops'[u].items = ops[u].items
          /\ ops'[u].old = ops[u].old
          /\ ops'[u].status = IF u = cur THEN "verified" ELSE ops[u].status
    BY <1>1, Zenon DEF TypeOK, StoreTypeOK, Operation
  <2> QED BY <1>1, <2>1 DEF Unverified
<1>3. \A a \in Alert, o \in Object :
        status'[a][o] = IF o \notin ops[cur].items THEN status[a][o]
                        ELSE IF a = got THEN "active"
                        ELSE IF a = ops[cur].old[o] THEN "expiring"
                        ELSE status[a][o]
  BY DEF Record, RecordVerifiedOperation
<1>4. \A a \in Alert, o \in ops[cur].items :
        status'[a][o] = "active" => a = got
  BY <1>1, <1>3 DEF UnverifiedCovers, TypeOK, StoreTypeOK, Operation
<1>5. OneActive'
  <2>1. ASSUME NEW o \in Object, NEW a \in Alert, NEW b \in Alert,
               status'[a][o] = "active", status'[b][o] = "active"
        PROVE  a = b
    <3>1. CASE o \in ops[cur].items
      BY <1>4, <2>1, <3>1, Zenon
    <3>2. CASE o \notin ops[cur].items
      <4>1. status'[a][o] = status[a][o] /\ status'[b][o] = status[b][o]
        BY <1>3, <3>2, Zenon
      <4> QED BY <2>1, <4>1, Zenon DEF OneActive
    <3> QED BY <3>1, <3>2, Zenon
  <2> QED BY <2>1, Zenon DEF OneActive, Alert
<1>6. UnverifiedExclusive'
  BY <1>2, Zenon DEF UnverifiedExclusive
<1>7. \A t \in Token, o \in Object :
        ops'[t].status \in Unverified /\ o \in ops[t].items
            => o \notin ops[cur].items
  BY <1>1, <1>2, Zenon DEF UnverifiedExclusive
<1>8. UnverifiedCovers'
  <2>1. \A t \in Token : ops[t].items \subseteq Object
    BY Zenon DEF TypeOK, StoreTypeOK, Operation
  <2>2. \A t \in Token, o \in Object, a \in Alert :
          ops'[t].status \in Unverified /\ o \in ops[t].items
              => status'[a][o] = status[a][o]
    BY <1>3, <1>7, Zenon
  <2>3. ASSUME NEW t \in Token, ops'[t].status \in Unverified,
               NEW o \in ops'[t].items, NEW a \in Alert,
               status'[a][o] = "active"
        PROVE  a = ops'[t].old[o]
    <3>1. /\ ops[t].status \in Unverified
          /\ o \in ops[t].items /\ ops'[t].old = ops[t].old
      BY <1>2, <2>3, Zenon
    <3>2. o \in Object
      BY <2>1, <3>1, Zenon
    <3>3. status[a][o] = "active"
      BY <2>2, <2>3, <3>1, <3>2, Zenon
    <3> QED BY <3>1, <3>3, Zenon DEF UnverifiedCovers
  <2> QED BY <2>3, Zenon DEF UnverifiedCovers
<1>9. RecoverKnowsOpen'
  BY <1>1, <1>2, Zenon DEF RecoverKnowsOpen
<1>10. PlanMatches'
  BY <1>1, <1>2, <1>3 DEF PlanMatches, PlanNames
<1> QED BY <1>5, <1>6, <1>8, <1>9, <1>10, Zenon

\* Beginning an operation: its items were planned, so they are in no other
\* unverified operation and the ledger still agrees with the plan.
LEMMA BeginLedger ==
    ASSUME IndInv, NEW k \in {"create", "refresh"}, NEW f \in Feed,
           NEW b \in SUBSET Object, NEW t \in Token, BatchBegins(k, f, b, t)
    PROVE  LedgerOK'
<1> USE DEF IndInv, LedgerOK
<1>1. /\ phase = "batch" /\ phase' = "batch" /\ pc' = "create"
      /\ status' = status /\ act' = act
      /\ ops[t].status = "free"
      /\ \A o \in b : o \in Object /\ todo[o] = k
      /\ todo' = [o \in Object |-> IF o \in b THEN "none" ELSE todo[o]]
  BY Zenon DEF BatchBegins, ControlOK, BeginAccepts, IsBatch, Group, Dispatched
<1>2. /\ ops'[t].items = b
      /\ \A o \in b : ops'[t].old[o] = IF k = "refresh" THEN act[o] ELSE NoAlert
      /\ \A u \in Token \ {t} : ops'[u] = ops[u]
  BY Zenon DEF BatchBegins, BeginOperation, OldOf, TypeOK, StoreTypeOK
<1>3. \A u \in Token : ops[u].status \in Unverified => ops[u].items \cap b = {}
  BY <1>1, Zenon DEF PlanMatches, PlanNames
<1>4. OneActive'
  BY <1>1, Zenon DEF OneActive
<1>5. UnverifiedExclusive'
  BY <1>2, <1>3, Zenon DEF UnverifiedExclusive
<1>6. UnverifiedCovers'
  <2>1. ASSUME NEW u \in Token, ops'[u].status \in Unverified,
               NEW o \in ops'[u].items, NEW a \in Alert,
               status'[a][o] = "active"
        PROVE  a = ops'[u].old[o]
    <3>1. CASE u = t
      BY <1>1, <1>2, <2>1, <3>1, Zenon DEF PlanMatches, PlanNames
    <3>2. CASE u # t
      <4>1. ops'[u] = ops[u] /\ status' = status
        BY <1>1, <1>2, <3>2, Zenon
      <4> QED BY <2>1, <4>1, Zenon DEF UnverifiedCovers
    <3> QED BY <3>1, <3>2, Zenon
  <2> QED BY <2>1, Zenon DEF UnverifiedCovers
<1>7. RecoverKnowsOpen'
  BY <1>1, Zenon DEF RecoverKnowsOpen
<1>8. PlanMatches'
  BY <1>1, <1>2, Zenon DEF PlanMatches, PlanNames
<1> QED BY <1>4, <1>5, <1>6, <1>7, <1>8, Zenon

\* Every action keeps the ledger, the journal and the plan in step.
LEMMA LedgerStep ==
    ASSUME IndInv, [Next]_vars
    PROVE  LedgerOK'
<1> USE LapiAssumption
<1> USE DEF IndInv, LedgerOK
<1>1. CASE StartRun
  <2>1. Shrinks
    BY <1>1, Zenon DEF StartRun, Shrinks
  <2>2. RecoverKnowsOpen' /\ PlanMatches'
    BY <1>1, <2>1, SameLoopPlan, Zenon DEF StartRun
  <2> QED BY <2>1, <2>2, ShrinksKeepsLedger, Zenon
<1>2. ASSUME NEW t \in Token,
              RecoverVerified(t)
       PROVE  LedgerOK'
  <2>1. Shrinks
    BY <1>2, Zenon DEF RecoverVerified, Shrinks, storeVars
  <2>2. phase' = "recover" /\ phase = "recover" /\ pc' # "plan"
    BY <1>2, Zenon DEF RecoverVerified, Pick, ControlOK
  <2>3. /\ ops' = ops /\ cur' = t /\ cur = NoToken
        /\ \A u \in Token : u # t => left'[u] = left[u]
    BY <1>2, Zenon
       DEF RecoverVerified, Pick, ControlOK, storeVars, TypeOK, LocalTypeOK
  <2>4. RecoverKnowsOpen'
    BY <2>2, <2>3, Zenon DEF RecoverKnowsOpen
  <2>5. PlanMatches'
    BY <2>2, Zenon DEF PlanMatches, PlanNames
  <2> QED BY <2>1, <2>4, <2>5, ShrinksKeepsLedger, Zenon
<1>3. ASSUME NEW t \in Token,
              RecoverFound(t)
       PROVE  LedgerOK'
  <2>1. Shrinks
    BY <1>3, Zenon DEF RecoverFound, Shrinks, storeVars
  <2>2. phase' = "recover" /\ phase = "recover" /\ pc' # "plan"
    BY <1>3, Zenon DEF RecoverFound, Pick, ControlOK
  <2>3. /\ ops' = ops /\ cur' = t /\ cur = NoToken
        /\ \A u \in Token : u # t => left'[u] = left[u]
    BY <1>3, Zenon
       DEF RecoverFound, Pick, ControlOK, storeVars, TypeOK, LocalTypeOK
  <2>4. RecoverKnowsOpen'
    BY <2>2, <2>3, Zenon DEF RecoverKnowsOpen
  <2>5. PlanMatches'
    BY <2>2, Zenon DEF PlanMatches, PlanNames
  <2> QED BY <2>1, <2>4, <2>5, ShrinksKeepsLedger, Zenon
<1>4. ASSUME NEW t \in Token,
              RecoverUnproven(t)
       PROVE  LedgerOK'
  <2>1. Shrinks
    BY <1>4, Zenon DEF RecoverUnproven, Shrinks, storeVars
  <2>2. RecoverKnowsOpen' /\ PlanMatches'
    BY <1>4, <2>1, ReturnPlan, Zenon DEF RecoverUnproven
  <2> QED BY <2>1, <2>2, ShrinksKeepsLedger, Zenon
<1>5. ASSUME NEW t \in Token,
              RecoverMissing(t)
       PROVE  LedgerOK'
  <2>1. Shrinks
    BY <1>5, Zenon DEF RecoverMissing, Shrinks, storeVars
  <2>2. phase' = "recover" /\ phase = "recover" /\ pc' # "plan"
    BY <1>5, Zenon DEF RecoverMissing, Pick, ControlOK
  <2>3. /\ ops' = ops /\ cur' = t /\ cur = NoToken
        /\ \A u \in Token : u # t => left'[u] = left[u]
    BY <1>5, Zenon
       DEF RecoverMissing, Pick, ControlOK, storeVars, TypeOK, LocalTypeOK
  <2>4. RecoverKnowsOpen'
    BY <2>2, <2>3, Zenon DEF RecoverKnowsOpen
  <2>5. PlanMatches'
    BY <2>2, Zenon DEF PlanMatches, PlanNames
  <2> QED BY <2>1, <2>4, <2>5, ShrinksKeepsLedger, Zenon
<1>6. CASE RecoverDone
  <2>1. Shrinks
    BY <1>6, Zenon DEF RecoverDone, Shrinks, storeVars
  <2>2. RecoverKnowsOpen'
    BY <1>6, Zenon DEF RecoverDone, Goto, RecoverKnowsOpen, storeVars
  <2>3. PlanMatches'
    BY <1>6, Zenon DEF RecoverDone, Goto, ControlOK, PlanMatches, PlanNames
  <2> QED BY <2>1, <2>2, <2>3, ShrinksKeepsLedger, Zenon
<1>7. CASE NoLongerDesired
  <2>1. cur \in Token /\ phase \in {"recover", "batch"} /\ pc # "plan"
    BY <1>7, Zenon DEF NoLongerDesired, ControlOK
  <2>2. CASE SetAccepts(cur)
    <3>1. ops' = [ops EXCEPT ![cur].status = "failed"] /\ status' = status
      BY <1>7, <2>2, Zenon DEF NoLongerDesired, SetOperationStatus
    <3>2. Shrinks /\ ops'[cur].status \notin Unverified
      <4>1. \A u \in Token :
              /\ ops'[u].items = ops[u].items
              /\ ops'[u].old = ops[u].old
              /\ ops'[u].status = IF u = cur THEN "failed" ELSE ops[u].status
        BY <2>1, <3>1 DEF TypeOK, StoreTypeOK, Operation
      <4> QED BY <2>1, <3>1, <4>1 DEF Shrinks, Unverified
    <3>3. RecoverKnowsOpen' /\ PlanMatches'
      BY <1>7, <2>1, <2>2, <3>2, OperationDonePlan, Zenon DEF NoLongerDesired
    <3> QED BY <3>2, <3>3, ShrinksKeepsLedger, Zenon
  <2>3. CASE ~SetAccepts(cur)
    <3>1. Shrinks
      BY <1>7, <2>3, Zenon DEF NoLongerDesired, Shrinks
    <3>2. RecoverKnowsOpen' /\ PlanMatches'
      BY <1>7, <2>1, <2>3, <3>1, OperationDonePlan, Zenon DEF NoLongerDesired
    <3> QED BY <3>1, <3>2, ShrinksKeepsLedger, Zenon
  <2> QED BY <2>2, <2>3, Zenon
<1>8. CASE CreateAlert
  <2>1. Shrinks
    BY <1>8, Zenon DEF CreateAlert, Shrinks, storeVars
  <2>2. RecoverKnowsOpen' /\ PlanMatches'
    BY <1>8, <2>1, SameLoopPlan, Zenon DEF CreateAlert
  <2> QED BY <2>1, <2>2, ShrinksKeepsLedger, Zenon
<1>9. CASE CreateAlertFails
  <2>1. Shrinks
    BY <1>9, Zenon DEF CreateAlertFails, Shrinks, storeVars
  <2>2. RecoverKnowsOpen' /\ PlanMatches'
    BY <1>9, <2>1, SameLoopPlan, Zenon DEF CreateAlertFails, Goto
  <2> QED BY <2>1, <2>2, ShrinksKeepsLedger, Zenon
<1>10. CASE GetAlertVerified
  <2>1. Shrinks
    BY <1>10, Zenon DEF GetAlertVerified, Shrinks, storeVars
  <2>2. RecoverKnowsOpen' /\ PlanMatches'
    BY <1>10, <2>1, SameLoopPlan, Zenon DEF GetAlertVerified
  <2> QED BY <2>1, <2>2, ShrinksKeepsLedger, Zenon
<1>11. CASE GetAlertFails
  <2>1. Shrinks
    BY <1>11, Zenon DEF GetAlertFails, Shrinks, storeVars
  <2>2. RecoverKnowsOpen' /\ PlanMatches'
    BY <1>11, <2>1, SameLoopPlan, Zenon DEF GetAlertFails, Goto
  <2> QED BY <2>1, <2>2, ShrinksKeepsLedger, Zenon
<1>12. CASE MarkAmbiguous
  <2>1. cur \in Token /\ phase \in {"recover", "batch"} /\ pc # "plan"
    BY <1>12, Zenon DEF MarkAmbiguous, ControlOK
  <2>2. Shrinks
    <3>1. CASE SetAccepts(cur) /\ SetOperationStatus(cur, "ambiguous")
      <4>1. ops' = [ops EXCEPT ![cur].status = "ambiguous"]
        BY <3>1, Zenon DEF SetOperationStatus
      <4> QED
        BY <1>12, <2>1, <3>1, <4>1, StatusFrame
           DEF MarkAmbiguous, SetAccepts, Shrinks, TypeOK
    <3>2. CASE UNCHANGED ops
      BY <1>12, <3>2, Zenon DEF MarkAmbiguous, Shrinks
    <3> QED BY <1>12, <3>1, <3>2, Zenon DEF MarkAmbiguous
  <2>3. RecoverKnowsOpen' /\ PlanMatches'
    BY <1>12, <2>1, <2>2, OperationDonePlan, Zenon DEF MarkAmbiguous
  <2> QED BY <2>2, <2>3, ShrinksKeepsLedger, Zenon
<1>13. CASE Record
  <2>1. CASE Recorded(cur)
    <3>1. Shrinks
      BY <1>13, <2>1, Zenon DEF Record, RecordVerifiedOperation, Shrinks
    <3>2. RecoverKnowsOpen' /\ PlanMatches'
      BY <1>13, <3>1, SameLoopPlan, Zenon DEF Record
    <3> QED BY <3>1, <3>2, ShrinksKeepsLedger, Zenon
  <2>2. CASE ~Recorded(cur)
    BY <1>13, <2>2, RecordLedger, Zenon DEF Record, ControlOK
  <2> QED BY <2>1, <2>2, Zenon
<1>14. CASE RecordFails
  <2>1. Shrinks
    BY <1>14, Zenon DEF RecordFails, Shrinks, storeVars
  <2>2. RecoverKnowsOpen' /\ PlanMatches'
    BY <1>14, <2>1, OperationDonePlan, Zenon DEF RecordFails, ControlOK
  <2> QED BY <2>1, <2>2, ShrinksKeepsLedger, Zenon
<1>15. ASSUME NEW o \in Object,
              FinishItem(o)
       PROVE  LedgerOK'
  <2>1. Shrinks
    BY <1>15, Zenon DEF FinishItem, Shrinks, storeVars
  <2>2. RecoverKnowsOpen' /\ PlanMatches'
    BY <1>15, <2>1, SameLoopPlan, Zenon DEF FinishItem
  <2> QED BY <2>1, <2>2, ShrinksKeepsLedger, Zenon
<1>16. CASE Finish
  <2>1. cur \in Token /\ phase \in {"recover", "batch"} /\ pc # "plan"
    BY <1>16, Zenon DEF Finish, ControlOK
  <2>2. ops' = [ops EXCEPT ![cur].status = "completed"] /\ status' = status
    BY <1>16, Zenon DEF Finish, CompleteOperation
  <2>3. Shrinks /\ ops'[cur].status \notin Unverified
    <3>1. \A u \in Token :
            /\ ops'[u].items = ops[u].items
            /\ ops'[u].old = ops[u].old
            /\ ops'[u].status = IF u = cur THEN "completed" ELSE ops[u].status
      BY <2>1, <2>2 DEF TypeOK, StoreTypeOK, Operation
    <3> QED BY <2>1, <2>2, <3>1 DEF Shrinks, Unverified
  <2>4. RecoverKnowsOpen' /\ PlanMatches'
    BY <1>16, <2>1, <2>3, OperationDonePlan, Zenon DEF Finish
  <2> QED BY <2>3, <2>4, ShrinksKeepsLedger, Zenon
<1>17. CASE FinishFails
  <2>1. Shrinks
    BY <1>17, Zenon DEF FinishFails, Shrinks, storeVars
  <2>2. RecoverKnowsOpen' /\ PlanMatches'
    BY <1>17, <2>1, OperationDonePlan, Zenon DEF FinishFails, ControlOK
  <2> QED BY <2>1, <2>2, ShrinksKeepsLedger, Zenon
<1>18. CASE ExpireOver
  <2>1. Shrinks
    BY <1>18, Zenon DEF ExpireOver, Shrinks, storeVars
  <2>2. RecoverKnowsOpen' /\ PlanMatches'
    BY <1>18, <2>1, SameLoopPlan, Zenon DEF ExpireOver, Goto
  <2> QED BY <2>1, <2>2, ShrinksKeepsLedger, Zenon
<1>19. CASE ExpireLive
  <2>1. Shrinks
    BY <1>19, Zenon DEF ExpireLive, Shrinks, storeVars
  <2>2. RecoverKnowsOpen' /\ PlanMatches'
    BY <1>19, <2>1, SameLoopPlan, Zenon DEF ExpireLive, Goto
  <2> QED BY <2>1, <2>2, ShrinksKeepsLedger, Zenon
<1>20. CASE ExpireUnproven
  <2>1. Shrinks
    BY <1>20, Zenon DEF ExpireUnproven, Shrinks, storeVars
  <2>2. RecoverKnowsOpen' /\ PlanMatches'
    BY <1>20, <2>1, ExpireDonePlan, Zenon DEF ExpireUnproven
  <2> QED BY <2>1, <2>2, ShrinksKeepsLedger, Zenon
<1>21. CASE ExpireDecision
  <2>1. Shrinks
    BY <1>21, Zenon DEF ExpireDecision, Shrinks, storeVars
  <2>2. RecoverKnowsOpen' /\ PlanMatches'
    BY <1>21, <2>1, SameLoopPlan, Zenon DEF ExpireDecision, Goto
  <2> QED BY <2>1, <2>2, ShrinksKeepsLedger, Zenon
<1>22. CASE ExpireDecisionFails
  <2>1. Shrinks
    BY <1>22, Zenon DEF ExpireDecisionFails, Shrinks, storeVars
  <2>2. RecoverKnowsOpen' /\ PlanMatches'
    BY <1>22, <2>1, ExpireDonePlan, Zenon DEF ExpireDecisionFails
  <2> QED BY <2>1, <2>2, ShrinksKeepsLedger, Zenon
<1>23. CASE MarkExpired
  <2>1. Shrinks
    BY <1>23, Zenon
       DEF MarkExpired, Shrinks, MarkDecisionExpired, ControlOK, TypeOK,
           StoreTypeOK
  <2>2. RecoverKnowsOpen' /\ PlanMatches'
    BY <1>23, <2>1, ExpireDonePlan, Zenon DEF MarkExpired
  <2> QED BY <2>1, <2>2, ShrinksKeepsLedger, Zenon
<1>24. CASE MarkExpiredFails
  <2>1. Shrinks
    BY <1>24, Zenon DEF MarkExpiredFails, Shrinks, storeVars
  <2>2. RecoverKnowsOpen' /\ PlanMatches'
    BY <1>24, <2>1, ExpireDonePlan, Zenon DEF MarkExpiredFails
  <2> QED BY <2>1, <2>2, ShrinksKeepsLedger, Zenon
<1>25. ASSUME NEW o \in Object,
              PlanExpires(o)
       PROVE  LedgerOK'
  <2>1. act[o] \in Alert /\ phase = "batch"
    BY <1>25, Zenon DEF PlanExpires, ControlOK, PlanMatches, PlanNames
  <2>2. \A b \in Alert, q \in Object :
          status'[b][q] = IF b = act[o] /\ q = o THEN "expired"
                                                 ELSE status[b][q]
    BY <1>25, <2>1, Zenon DEF PlanExpires, MarkDecisionExpired, TypeOK, StoreTypeOK
  <2>3. Shrinks
    BY <1>25, <2>2, Zenon DEF PlanExpires, Shrinks
  <2>4. RecoverKnowsOpen'
    BY <1>25, <2>1, Zenon DEF PlanExpires, RecoverKnowsOpen, ControlOK
  <2>5. PlanMatches'
    <3>1. /\ phase' = "batch" /\ ops' = ops /\ act' = act
          /\ todo[o] = "renew"
          /\ \A q \in Object : todo'[q] = IF q = o THEN "create" ELSE todo[q]
      BY <1>25, <2>1, Zenon DEF PlanExpires, TypeOK, LocalTypeOK
    <3>2. ASSUME NEW q \in Object,
                 todo'[q] \in {"create", "renew", "refresh"}
          PROVE  /\ \A t \in Token : ops'[t].status \in Unverified =>
                        q \notin ops'[t].items
                 /\ \A a \in Alert : status'[a][q] = "active" =>
                        todo'[q] # "create" /\ a = act'[q]
      <4>1. todo[q] \in {"create", "renew", "refresh"}
        BY <3>1, <3>2, Zenon
      <4>2. \A a \in Alert : status[a][q] = "active" =>
                todo[q] # "create" /\ a = act[q]
        BY <2>1, <4>1, Zenon DEF PlanMatches, PlanNames
      <4>3. \A t \in Token : ops[t].status \in Unverified =>
                q \notin ops[t].items
        BY <2>1, <4>1, Zenon DEF PlanMatches, PlanNames
      <4>4. CASE q = o
        BY <2>2, <3>1, <4>2, <4>3, <4>4, Zenon
      <4>5. CASE q # o
        BY <2>2, <3>1, <4>2, <4>3, <4>5, Zenon
      <4> QED BY <4>4, <4>5, Zenon
    <3>3. ASSUME NEW q \in Object, todo'[q] \in {"renew", "remove"}
          PROVE  act'[q] \in Alert
      <4>1. todo[q] \in {"renew", "remove"}
        BY <3>1, <3>3, Zenon
      <4> QED BY <2>1, <3>1, <4>1, Zenon DEF PlanMatches, PlanNames
    <3> QED BY <3>1, <3>2, <3>3, Zenon DEF PlanMatches, PlanNames
  <2> QED BY <2>3, <2>4, <2>5, ShrinksKeepsLedger, Zenon
<1>26. CASE Plan
  <2>1. Shrinks
    BY <1>26, Zenon DEF Plan, Shrinks, storeVars
  <2>2. \A t \in Token : ops[t].status \notin Unverified
    BY <1>26, Zenon DEF Plan, ControlOK, RecoverKnowsOpen, NoOps
  <2>3. ASSUME NEW o \in Object, todo'[o] \in {"create", "renew", "refresh"},
               NEW a \in Alert, status'[a][o] = "active"
        PROVE  todo'[o] # "create" /\ a = act'[o]
    <3>1. a \in Active(o) /\ Active(o) # {} /\ Active(o) \subseteq Alert
      BY <1>26, <2>3, Zenon DEF Plan, storeVars, Active
    <3>2. ActiveAlert(o) \in Active(o)
      BY <3>1, Zenon DEF ActiveAlert
    <3>3. ActiveAlert(o) = a /\ a # NoAlert
      <4>1. ActiveAlert(o) = a
        BY <3>1, <3>2, Zenon DEF OneActive, Active
      <4>2. a # NoAlert
        BY DEF Alert, NoAlert
      <4> QED BY <4>1, <4>2, Zenon
    <3> QED BY <1>26, <2>3, <3>3, Zenon DEF Plan, PlannedAction
  <2>4. ASSUME NEW o \in Object, todo'[o] \in {"renew", "remove"}
        PROVE  act'[o] \in Alert
    BY <1>26, <2>4, Zenon DEF Plan, PlannedAction, ActiveAlert, Active
  <2>5. RecoverKnowsOpen'
    BY <1>26, Zenon DEF Plan, RecoverKnowsOpen
  <2>6. PlanMatches'
    BY <1>26, <2>2, <2>3, <2>4, Zenon DEF Plan, PlanMatches, PlanNames, storeVars
  <2> QED BY <2>1, <2>5, <2>6, ShrinksKeepsLedger, Zenon
<1>27. CASE PlanFails
  <2>1. Shrinks
    BY <1>27, Zenon DEF PlanFails, Shrinks, storeVars
  <2>2. RecoverKnowsOpen' /\ PlanMatches'
    BY <1>27, <2>1, ReturnPlan, Zenon DEF PlanFails
  <2> QED BY <2>1, <2>2, ShrinksKeepsLedger, Zenon
<1>28. ASSUME NEW k \in {"create", "refresh"}, NEW f \in Feed,
              NEW b \in SUBSET Object, NEW t \in Token,
              BatchBegins(k, f, b, t)
       PROVE  LedgerOK'
  BY <1>28, BeginLedger, Zenon
<1>29. ASSUME NEW k \in {"create", "refresh"}, NEW f \in Feed,
              NEW b \in SUBSET Object,
              BatchFails(k, f, b)
       PROVE  LedgerOK'
  <2>1. Shrinks
    BY <1>29, Zenon DEF BatchFails, Shrinks, storeVars
  <2>2. RecoverKnowsOpen'
    BY <1>29, Zenon DEF BatchFails, ControlOK, RecoverKnowsOpen
  <2>3. /\ phase = "batch" /\ phase' = "batch"
        /\ ops' = ops /\ status' = status /\ act' = act
        /\ \A o \in Object : todo'[o] = todo[o] \/ todo'[o] = "none"
    BY <1>29, Zenon DEF BatchFails, Dispatched, ControlOK, storeVars
  <2>4. PlanMatches'
    BY <2>3, Zenon DEF PlanMatches, PlanNames
  <2> QED BY <2>1, <2>2, <2>4, ShrinksKeepsLedger, Zenon
<1>30. CASE BatchesDone
  <2>1. Shrinks
    BY <1>30, Zenon DEF BatchesDone, Shrinks, storeVars
  <2>2. RecoverKnowsOpen' /\ PlanMatches'
    BY <1>30, <2>1, ReturnPlan, Zenon
       DEF BatchesDone, ControlOK, RecoverKnowsOpen, PlanMatches, PlanNames
  <2> QED BY <2>1, <2>2, ShrinksKeepsLedger, Zenon
<1>31. ASSUME NEW o \in Object,
              Remove(o)
       PROVE  LedgerOK'
  <2>1. Shrinks
    BY <1>31, Zenon DEF Remove, Shrinks, storeVars
  <2>2. /\ phase = "remove" /\ phase' = "remove" /\ pc' = "expget"
        /\ act' = act
        /\ \A q \in Object : todo'[q] = todo[q] \/ todo'[q] = "none"
    BY <1>31, Zenon DEF Remove, ControlOK, TypeOK, LocalTypeOK
  <2>3. RecoverKnowsOpen' /\ PlanMatches'
    BY <2>2, Zenon DEF RecoverKnowsOpen, PlanMatches, PlanNames
  <2> QED BY <2>1, <2>3, ShrinksKeepsLedger, Zenon
<1>32. CASE RunDone
  <2>1. Shrinks
    BY <1>32, Zenon DEF RunDone, Shrinks, storeVars
  <2>2. RecoverKnowsOpen' /\ PlanMatches'
    BY <1>32, <2>1, ReturnPlan, Zenon DEF RunDone
  <2> QED BY <2>1, <2>2, ShrinksKeepsLedger, Zenon
<1>33. CASE Crash
  <2>1. Shrinks
    BY <1>33, Zenon DEF Crash, Shrinks, storeVars
  <2>2. RecoverKnowsOpen' /\ PlanMatches'
    BY <1>33, <2>1, ReturnPlan, Zenon DEF Crash
  <2> QED BY <2>1, <2>2, ShrinksKeepsLedger, Zenon
<1>34. CASE Environment
  <2>1. Shrinks
    BY <1>34, Zenon DEF Environment, Shrinks, storeVars
  <2>2. RecoverKnowsOpen' /\ PlanMatches'
    <3>1. UNCHANGED <<pc, phase, left, cur, todo, act>> /\ UNCHANGED storeVars
      BY <1>34, Zenon DEF Environment, localVars
    <3> QED BY <3>1, Zenon DEF RecoverKnowsOpen, PlanMatches, PlanNames, storeVars
  <2> QED BY <2>1, <2>2, ShrinksKeepsLedger, Zenon
<1>35. CASE UNCHANGED vars
  <2>1. Shrinks
    BY <1>35, Zenon DEF vars, storeVars, Shrinks
  <2>2. RecoverKnowsOpen' /\ PlanMatches'
    BY <1>35, Zenon
       DEF vars, storeVars, localVars, RecoverKnowsOpen, PlanMatches, PlanNames
  <2> QED BY <2>1, <2>2, ShrinksKeepsLedger, Zenon
<1>36. CASE ListEnforcementObjects
  <2>1. Shrinks
    BY <1>36, Zenon DEF ListEnforcementObjects, Shrinks, storeVars
  <2>2. RecoverKnowsOpen' /\ PlanMatches'
    BY <1>36, <2>1, SameLoopPlan, Zenon DEF ListEnforcementObjects
  <2> QED BY <2>1, <2>2, ShrinksKeepsLedger, Zenon
<1>37. CASE ReadOpenOperations
  <2>1. Shrinks
    BY <1>37, Zenon DEF ReadOpenOperations, Shrinks, storeVars
  <2>2. \A t \in Token : ops[t].status \in Unverified => left'[t] # "none"
    BY <1>37, Zenon DEF ReadOpenOperations, OpenOperations, Open, Unverified
  <2>3. /\ phase' = "recover" /\ pc' = "recover" /\ ops' = ops
    BY <1>37, Zenon DEF ReadOpenOperations, storeVars
  <2>4. RecoverKnowsOpen' /\ PlanMatches'
    BY <2>2, <2>3, Zenon DEF RecoverKnowsOpen, PlanMatches, PlanNames
  <2> QED BY <2>1, <2>4, ShrinksKeepsLedger, Zenon
<1>38. ASSUME NEW o \in Object,
              PlanExpireFails(o)
       PROVE  LedgerOK'
  <2>1. Shrinks
    BY <1>38, Zenon DEF PlanExpireFails, Shrinks, storeVars
  <2>2. RecoverKnowsOpen' /\ PlanMatches'
    BY <1>38, <2>1, ReturnPlan, Zenon DEF PlanExpireFails
  <2> QED BY <2>1, <2>2, ShrinksKeepsLedger, Zenon
<1> QED BY <1>1, <1>2, <1>3, <1>4, <1>5, <1>6, <1>7, <1>8, <1>9, <1>10, <1>11,
     <1>12, <1>13, <1>14, <1>15, <1>16, <1>17, <1>18, <1>19, <1>20, <1>21,
     <1>22, <1>23, <1>24, <1>25, <1>26, <1>27, <1>28, <1>29, <1>30, <1>31,
     <1>32, <1>33, <1>34, <1>35, <1>36, <1>37, <1>38, Zenon DEF Next, RunStep,
     Recover, CreateForOperation, FinishVerified, ExpireOwned, PlanAndBatch

-----------------------------------------------------------------------------
\* The empty store and the empty LAPI satisfy the inductive invariant.
LEMMA InitInd ==
    ASSUME Init
    PROVE  IndInv
<1> USE LapiAssumption, ReconcileAssumption
<1> USE DEF Init, LapiInit, StoreInit, LocalInit
<1>1. LapiTypeOK
  BY Zenon DEF LapiTypeOK, AlertRecord
<1>2. StoreTypeOK
  BY Zenon
     DEF StoreTypeOK, ObjectRecord, Operation, OperationStatus, DecisionStatus
<1>3. LocalTypeOK
  BY <1>2, Zenon
     DEF StoreTypeOK, LocalTypeOK, Step, Action, NoOps, NoItems, NoAction,
         NoRow, NoAlert
<1>4. ControlOK
  BY Zenon DEF ControlOK
<1>5. LedgerOK
  BY Zenon
     DEF LedgerOK, OneActive, UnverifiedExclusive, UnverifiedCovers, Unverified,
         RecoverKnowsOpen, PlanMatches, PlanNames
<1> QED BY <1>1, <1>2, <1>3, <1>4, <1>5, Zenon DEF IndInv, TypeOK, LedgerOK

\* Every step keeps the inductive invariant.
LEMMA IndStep ==
    ASSUME IndInv, [Next]_vars
    PROVE  IndInv'
<1>1. PlanNames
  BY Zenon DEF IndInv, PlanMatches
<1> QED
  BY <1>1, LocalTypeStep, LapiTypeStep, StoreTypeStep, ControlStep, LedgerStep, Zenon
     DEF IndInv, TypeOK, LedgerOK

\* The inductive invariant holds in every reachable state.
LEMMA Inductive ==
    Spec => []IndInv
  BY InitInd, IndStep, PTL DEF Spec

\* Types: no interleaving of a Run with failures, late requests and other
\* users of the LAPI takes a variable out of its type.
THEOREM TypeCorrect ==
    Spec => []TypeOK
  BY Inductive, PTL DEF IndInv

\* The ledger of a single Reconciler never shows two active decisions for an
\* object, so activeByObject never refuses to plan, however often the process
\* crashed or a request was lost, repeated or late.
THEOREM LedgerSingle ==
    Spec => []OneActive
  BY Inductive, PTL DEF IndInv

-----------------------------------------------------------------------------
(* What a step may do to the LAPI and to the store.                        *)

\* A Run is inside createForOperation, expireOwned, finishVerified.
Creating == pc \in {"create", "get", "mark", "record"}
Expiring == pc \in {"expget", "expdel", "expmark"}
Finishing == pc = "finish" \/ (Expiring /\ phase # "remove")

\* The creations that may reach the server: those on their way, and the one
\* the Run is about to send.
Requested == posts \cup (IF pc = "create" THEN {CreateRequest} ELSE {})

\* The decisions a DELETE is on its way for, or is about to be sent for.
Doomed == deletes \cup (IF Expiring THEN {exp} ELSE {})

Created(r, a) ==
    /\ alerts[a].state = "unused"
    /\ alerts'[a] = [state |-> "ours", token |-> r.token, feed |-> r.feed,
                     items |-> r.items, scope |-> r.scope, made |-> clock,
                     late |-> r.late]
    /\ until'[a] = [o \in Object |->
                        IF o \in r.items THEN clock + Duration ELSE 0]

\* What a POST created is a ban of the caller.
LEMMA CreatedIsOurs ==
    ASSUME NEW r, NEW a, Created(r, a)
    PROVE  alerts'[a].state = "ours"
  BY DEF Created

SameContent(a) ==
    /\ alerts'[a].token = alerts[a].token
    /\ alerts'[a].feed = alerts[a].feed
    /\ alerts'[a].items = alerts[a].items
    /\ alerts'[a].made = alerts[a].made

Carried == \A r \in posts' : \E q \in Requested : SameRequest(q, r)

\* Requests that only go away are carried.
LEMMA CarriedAsIs ==
    ASSUME posts' \subseteq Requested
    PROVE  Carried
<1>1. \A r : SameRequest(r, r)
  BY Zenon DEF SameRequest
<1> QED BY <1>1, Zenon DEF Carried

\* Alerts are created for requests and change their state only; a decision is
\* only ever ended, by a DELETE.
ServerEffect(requests) ==
    /\ clock' = clock \/ clock' = clock + 1
    /\ Carried
    /\ deletes' \subseteq Doomed
    /\ \A a \in Alert :
        \/ alerts'[a] = alerts[a]
        \/ /\ alerts[a].state = "ours"
           /\ alerts'[a].state \in {"foreign", "gone"}
           /\ SameContent(a)
        \/ \E r \in requests : Created(r, a)
    /\ \A a \in Alert, o \in Object :
        \/ until'[a][o] = until[a][o]
        \/ until'[a][o] = clock /\ <<a, o>> \in Doomed
        \/ \E r \in requests : Created(r, a)

Begun(t) ==
    /\ pc = "batch"
    /\ ops[t].status = "free"
    /\ ops'[t].status = "pending"
    /\ \A o \in ops'[t].items : todo[o] \in {"create", "refresh"}
    /\ \A o \in ops'[t].items : ops'[t].old[o] # NoAlert =>
        /\ todo[o] = "refresh"
        /\ ops'[t].old[o] = act[o]
        /\ status[act[o]][o] = "active"

Moved(t) ==
    /\ t = cur
    /\ ops'[t].feed = ops[t].feed
    /\ ops'[t].items = ops[t].items
    /\ ops'[t].old = ops[t].old
    /\ \/ /\ ops[t].status \in Unverified
          /\ \/ pc = "create" /\ ops'[t].status = "failed"
             \/ pc = "mark" /\ ops'[t].status = "ambiguous"
             \/ /\ pc = "record" /\ ops'[t].status = "verified"
                /\ \A o \in ops[t].items :
                    /\ status'[got][o] = "active"
                    /\ expires'[got][o] = seen[o] /\ seen[o] > now
                    /\ ops[t].old[o] # NoAlert =>
                            status'[ops[t].old[o]][o] = "expiring"
       \/ /\ pc = "finish"
          /\ Recorded(t)
          /\ ops'[t].status = "completed"

\* An operation is begun from the plan and then only moved on, one status at
\* a time, by the Run that has it in hand; a row of the ledger is written when
\* its operation is recorded, and afterwards only marked.
StoreEffect ==
    /\ \A t \in Token : ops'[t] = ops[t] \/ Begun(t) \/ Moved(t)
    /\ \A a \in Alert, o \in Object :
        \/ status'[a][o] = status[a][o]
        \/ /\ pc = "record"
           /\ ops[cur].status \in Unverified
           /\ ops'[cur].status = "verified"
           /\ o \in ops[cur].items
           /\ \/ a = got /\ status[a][o] = "none" /\ status'[a][o] = "active"
              \/ /\ a = ops[cur].old[o]
                 /\ status[a][o] = "active"
                 /\ status'[a][o] = "expiring"
        \/ /\ status[a][o] \in Live /\ status'[a][o] = "expired"
           /\ \/ pc = "expmark" /\ exp = <<a, o>>
              \/ pc = "batch" /\ todo[o] = "renew" /\ a = act[o]
    /\ \A a \in Alert, o \in Object :
        \/ expires'[a][o] = expires[a][o]
        \/ /\ pc = "record"
           /\ ops[cur].status \in Unverified
           /\ o \in ops[cur].items
           /\ a = got
           /\ expires'[a][o] = seen[o]

\* Changing the state of an alert leaves its content alone.
LEMMA AlertStateFrame ==
    ASSUME LapiTypeOK, NEW a \in Alert, NEW s,
           alerts' = [alerts EXCEPT ![a].state = s]
    PROVE  \A b \in Alert :
                /\ SameContent(b)
                /\ b # a => alerts'[b] = alerts[b]
                /\ alerts'[a].state = s
<1>1. \A b \in Alert : alerts[b] \in AlertRecord
  BY Zenon DEF LapiTypeOK
<1> QED BY <1>1, Zenon DEF LapiTypeOK, AlertRecord, SameContent

\* A creation affects the one alert it makes.
LEMMA CreateEffect ==
    ASSUME LapiTypeOK, NEW r, NEW a \in Alert, createAlerts(r, a)
    PROVE  /\ Created(r, a)
           /\ \A b \in Alert \ {a} :
                    alerts'[b] = alerts[b] /\ until'[b] = until[b]
  BY Zenon DEF createAlerts, IsNext, Created, LapiTypeOK

\* A DELETE affects the one decision it is for.
LEMMA DeleteEffect ==
    ASSUME LapiTypeOK, NEW a \in Alert, NEW o \in Object, expireDecision(a, o)
    PROVE  \A b \in Alert, q \in Object :
                \/ until'[b][q] = until[b][q]
                \/ until'[b][q] = clock /\ b = a /\ q = o
  BY Zenon DEF expireDecision, LapiTypeOK

\* A change of status leaves the content of the operation alone, and the
\* other operations.
LEMMA StatusMove ==
    ASSUME StoreTypeOK, cur \in Token, NEW s,
           ops' = [ops EXCEPT ![cur].status = s]
    PROVE  /\ ops'[cur].feed = ops[cur].feed
           /\ ops'[cur].items = ops[cur].items
           /\ ops'[cur].old = ops[cur].old
           /\ ops'[cur].status = s
           /\ \A u \in Token \ {cur} : ops'[u] = ops[u]
<1>1. \A u \in Token : ops[u] \in Operation
  BY Zenon DEF StoreTypeOK
<1> QED BY <1>1, Zenon DEF StoreTypeOK, Operation

\* The environment: only requests that are on their way reach the server.
LEMMA EnvironmentEffect ==
    ASSUME TypeOK, Environment
    PROVE  ServerEffect(posts)
<1> USE DEF TypeOK
<1>1. ASSUME NEW r \in posts, DeliverPost(r) PROVE ServerEffect(posts)
  <2>1. PICK a \in Alert : createAlerts(r, a)
    BY <1>1, Zenon DEF DeliverPost
  <2>2. UNCHANGED <<clock, deletes>> /\ posts' \subseteq posts
    BY <1>1, Zenon DEF DeliverPost
  <2> HIDE DEF TypeOK
  <2> QED BY <2>1, <2>2, CreateEffect, CarriedAsIs, Zenon
         DEF TypeOK, ServerEffect, Requested, Doomed
<1>2. ASSUME NEW r \in posts, DropPost(r) PROVE ServerEffect(posts)
  BY <1>2, CarriedAsIs, Zenon DEF DropPost, ServerEffect, Requested, Doomed
<1>3. ASSUME NEW d \in deletes, DeliverDelete(d) PROVE ServerEffect(posts)
  <2>1. PICK a \in Alert, o \in Object : d = <<a, o>>
    BY DEF LapiTypeOK
  <2>2. UNCHANGED <<clock, posts, alerts>> /\ deletes' \subseteq deletes
    BY <1>3, Zenon DEF DeliverDelete
  <2>3. expireDecision(a, o)
    BY <1>3, <2>1, Zenon DEF DeliverDelete
  <2>4. \A b \in Alert, q \in Object :
            \/ until'[b][q] = until[b][q]
            \/ until'[b][q] = clock /\ b = a /\ q = o
    BY <2>3, DeleteEffect
  <2> QED BY <2>1, <2>2, <2>4, CarriedAsIs, Zenon DEF ServerEffect, Requested, Doomed
<1>4. ASSUME NEW d \in deletes, DropDelete(d) PROVE ServerEffect(posts)
  BY <1>4, CarriedAsIs, Zenon DEF DropDelete, ServerEffect, Requested, Doomed
<1>5. ASSUME NEW a \in Alert, Interfere(a) PROVE ServerEffect(posts)
  <2>1. PICK s \in {"foreign", "gone"} :
              alerts' = [alerts EXCEPT ![a].state = s]
    BY <1>5, Zenon DEF Interfere
  <2>2. /\ alerts[a].state = "ours"
        /\ UNCHANGED <<clock, until, posts, deletes>>
    BY <1>5, Zenon DEF Interfere
  <2>3. \A b \in Alert :
          /\ SameContent(b)
          /\ b # a => alerts'[b] = alerts[b]
          /\ alerts'[a].state = s
    BY <2>1, AlertStateFrame, Zenon
  <2> QED BY <2>2, <2>3, CarriedAsIs, Zenon DEF ServerEffect, Requested, Doomed
<1>6. CASE Tick
  BY <1>6, CarriedAsIs, Zenon DEF Tick, ServerEffect, Requested, Doomed
<1> QED
  BY <1>1, <1>2, <1>3, <1>4, <1>5, <1>6, Zenon DEF Environment, Network

\* The calls of the Run: the alert it asks for is created or on its way, the
\* decision it expires is ended or about to be, and nothing else happens.
LEMMA ServerStep ==
    ASSUME TypeOK, ControlOK, [Next]_vars
    PROVE  ServerEffect(Requested)
<1> USE DEF TypeOK
<1> DEFINE Still == UNCHANGED <<clock, alerts, until, posts, deletes>>
<1>1. ASSUME Still PROVE ServerEffect(Requested)
  BY <1>1, CarriedAsIs, Zenon DEF ServerEffect, Requested, Doomed
<1>2. CASE CreateAlert
  <2>1. PICK a \in Alert : createAlerts(CreateRequest, a)
    BY <1>2, Zenon DEF CreateAlert
  <2>2. UNCHANGED <<clock, deletes, posts>> /\ pc = "create"
    BY <1>2, Zenon DEF CreateAlert
  <2>3. /\ Created(CreateRequest, a)
        /\ \A b \in Alert \ {a} :
                alerts'[b] = alerts[b] /\ until'[b] = until[b]
    BY <2>1, CreateEffect, Zenon
  <2>4. CreateRequest \in Requested
    BY <2>2, Zenon DEF Requested
  <2> QED BY <2>2, <2>3, <2>4, CarriedAsIs, Zenon DEF ServerEffect, Requested, Doomed
<1>3. CASE CreateAlertFails
  BY <1>3, CarriedAsIs, Zenon DEF CreateAlertFails, ServerEffect, Requested, Doomed
<1>4. CASE ExpireDecision
  <2>1. PICK a \in Alert, o \in Object : exp = <<a, o>>
    BY <1>4 DEF ExpireDecision, ControlOK
  <2>2. expireDecision(a, o) /\ exp \in Doomed
    BY <1>4, <2>1, Zenon DEF ExpireDecision, Doomed, Expiring
  <2>3. UNCHANGED <<clock, posts, deletes, alerts>>
    BY <1>4, Zenon DEF ExpireDecision
  <2>4. \A b \in Alert, q \in Object :
            \/ until'[b][q] = until[b][q]
            \/ until'[b][q] = clock /\ b = a /\ q = o
    BY <2>2, DeleteEffect
  <2> QED BY <2>1, <2>2, <2>3, <2>4, CarriedAsIs, Zenon DEF ServerEffect, Requested, Doomed
<1>5. CASE ExpireDecisionFails
  BY <1>5, CarriedAsIs, Zenon
     DEF ExpireDecisionFails, ServerEffect, Requested, Doomed, Expiring
<1>6. CASE Crash
  <2>1. posts' \subseteq Requested
    BY <1>6, Zenon DEF Crash, Requested
  <2>2. deletes' \subseteq Doomed
    BY <1>6, Zenon DEF Crash, Doomed, Expiring
  <2> QED BY <1>6, <2>1, <2>2, CarriedAsIs, Zenon DEF Crash, ServerEffect
<1>7. CASE Environment
  <2>1. ServerEffect(posts)
    BY <1>7, EnvironmentEffect, Zenon
  <2>2. posts \subseteq Requested
    BY Zenon DEF Requested
  <2> QED BY <2>1, <2>2, CarriedAsIs, Zenon DEF ServerEffect
<1>8. CASE StartRun \/ Recover \/ FinishVerified
  <2>1. CASE \E t \in Token : RecoverFound(t) \/ RecoverMissing(t)
    <3>1. PICK t \in Token : Overtake(t)
      BY <2>1, Zenon DEF RecoverFound, RecoverMissing
    <3>2. \A r \in posts' : \E q \in posts : SameRequest(q, r)
      BY <3>1, OvertakeEffect, Zenon DEF LapiTypeOK
    <3>3. Carried
      BY <3>2, Zenon DEF Carried, Requested
    <3>4. UNCHANGED <<clock, alerts, until, deletes>>
      BY <2>1, Zenon DEF RecoverFound, RecoverMissing
    <3> QED BY <3>3, <3>4, Zenon DEF ServerEffect, Doomed
  <2>2. CASE ~\E t \in Token : RecoverFound(t) \/ RecoverMissing(t)
    <3>1. Still
      BY <1>8, <2>2, Zenon
         DEF StartRun, Recover, FinishVerified, ListEnforcementObjects,
             ReadOpenOperations, RecoverVerified, RecoverUnproven, RecoverDone,
             FinishItem, Finish, FinishFails, lapiVars
    <3> QED BY <1>1, <3>1, Zenon
  <2> QED BY <2>1, <2>2, Zenon
<1>9. CASE NoLongerDesired \/ GetAlertVerified \/ GetAlertFails
                           \/ MarkAmbiguous \/ Record \/ RecordFails
  <2>1. Still
    BY <1>9, Zenon
       DEF NoLongerDesired, GetAlertVerified, GetAlertFails, MarkAmbiguous,
           Record, RecordFails, lapiVars
  <2> QED BY <1>1, <2>1, Zenon
<1>10. CASE ExpireOver \/ ExpireLive \/ ExpireUnproven \/ MarkExpired
                       \/ MarkExpiredFails
  <2>1. Still
    BY <1>10, Zenon
       DEF ExpireOver, ExpireLive, ExpireUnproven, MarkExpired,
           MarkExpiredFails, lapiVars
  <2> QED BY <1>1, <2>1, Zenon
<1>11. CASE PlanAndBatch
  <2>1. Still
    BY <1>11, ZenonT(60)
       DEF PlanAndBatch, Plan, PlanFails, PlanExpires, PlanExpireFails,
           BatchBegins, BatchFails, BatchesDone, Remove, RunDone, lapiVars
  <2> QED BY <1>1, <2>1, Zenon
<1>12. CASE UNCHANGED vars
  BY <1>1, <1>12, Zenon DEF vars, lapiVars
<1> QED
  BY <1>2, <1>3, <1>4, <1>5, <1>6, <1>7, <1>8, <1>9, <1>10, <1>11, <1>12, Zenon
     DEF Next, RunStep, CreateForOperation, ExpireOwned

\* Every step moves the operations and the rows of the ledger as described.
LEMMA StoreStep ==
    ASSUME TypeOK, ControlOK, PlanNames, [Next]_vars
    PROVE  StoreEffect
<1> USE DEF TypeOK
<1> DEFINE Still == UNCHANGED <<ops, status, expires>>
<1>1. ASSUME Still PROVE StoreEffect
  BY <1>1, Zenon DEF StoreEffect
<1>2. CASE NoLongerDesired
  <2>1. CASE ops' = [ops EXCEPT ![cur].status = "failed"] /\ SetAccepts(cur)
    <3>1. cur \in Token /\ pc = "create" /\ UNCHANGED <<status, expires>>
      BY <1>2, Zenon DEF NoLongerDesired, ControlOK
    <3>2. Moved(cur) /\ \A u \in Token \ {cur} : ops'[u] = ops[u]
      BY <2>1, <3>1, StatusMove, Zenon DEF Moved, SetAccepts
    <3> QED BY <3>1, <3>2, Zenon DEF StoreEffect
  <2>2. CASE UNCHANGED ops
    BY <1>1, <1>2, <2>2, Zenon DEF NoLongerDesired
  <2> QED BY <1>2, <2>1, <2>2, Zenon DEF NoLongerDesired, SetOperationStatus
<1>3. CASE MarkAmbiguous
  <2>1. CASE ops' = [ops EXCEPT ![cur].status = "ambiguous"] /\ SetAccepts(cur)
    <3>1. cur \in Token /\ pc = "mark" /\ UNCHANGED <<status, expires>>
      BY <1>3, Zenon DEF MarkAmbiguous, ControlOK
    <3>2. Moved(cur) /\ \A u \in Token \ {cur} : ops'[u] = ops[u]
      BY <2>1, <3>1, StatusMove, Zenon DEF Moved, SetAccepts
    <3> QED BY <3>1, <3>2, Zenon DEF StoreEffect
  <2>2. CASE UNCHANGED ops
    BY <1>1, <1>3, <2>2, Zenon DEF MarkAmbiguous
  <2> QED BY <1>3, <2>1, <2>2, Zenon DEF MarkAmbiguous, SetOperationStatus
<1>4. CASE Record
  <2>1. cur \in Token /\ pc = "record" /\ got \in Alert
    BY <1>4, Zenon DEF Record, ControlOK
  <2>2. CASE Recorded(cur)
    BY <1>1, <1>4, <2>2, Zenon DEF Record, RecordVerifiedOperation
  <2>3. CASE ~Recorded(cur)
    <3>1. /\ ops' = [ops EXCEPT ![cur].status = "verified"]
          /\ ops[cur].status \in Unverified
          /\ \A o \in ops[cur].items :
                /\ status[got][o] = "none"
                /\ seen[o] > now
                /\ ops[cur].old[o] # NoAlert =>
                        status[ops[cur].old[o]][o] = "active"
      BY <1>4, <2>3, Zenon DEF Record, RecordVerifiedOperation, RecordAccepts
    <3>2. \A a \in Alert, o \in Object :
            status'[a][o] = IF o \notin ops[cur].items THEN status[a][o]
                            ELSE IF a = got THEN "active"
                            ELSE IF a = ops[cur].old[o] THEN "expiring"
                            ELSE status[a][o]
      BY <1>4, <2>3 DEF Record, RecordVerifiedOperation
    <3>3. \A a \in Alert, o \in Object :
            expires'[a][o] = IF a = got /\ o \in ops[cur].items THEN seen[o]
                             ELSE expires[a][o]
      BY <1>4, <2>1, <2>3 DEF Record, RecordVerifiedOperation, StoreTypeOK
    <3>4. /\ ops[cur].items \subseteq Object
          /\ \A o \in Object : ops[cur].old[o] \in Alert \cup {NoAlert}
          /\ \A a \in Alert : a # NoAlert
      BY <2>1 DEF StoreTypeOK, Operation, Alert, NoAlert
    <3>5. \A o \in ops[cur].items :
            /\ status'[got][o] = "active"
            /\ expires'[got][o] = seen[o]
            /\ ops[cur].old[o] # NoAlert =>
                    status'[ops[cur].old[o]][o] = "expiring"
      BY <2>1, <3>1, <3>2, <3>3, <3>4
    <3>6. Moved(cur) /\ \A u \in Token \ {cur} : ops'[u] = ops[u]
      BY <2>1, <3>1, <3>5, StatusMove, Zenon DEF Moved
    <3>7. ops'[cur].status = "verified"
      BY <2>1, <3>1, StatusMove, Zenon
    <3> QED BY <2>1, <3>1, <3>2, <3>3, <3>4, <3>6, <3>7 DEF StoreEffect
  <2> QED BY <2>2, <2>3, Zenon
<1>5. CASE Finish
  <2>1. /\ cur \in Token /\ pc = "finish" /\ Recorded(cur)
        /\ ops' = [ops EXCEPT ![cur].status = "completed"]
        /\ UNCHANGED <<status, expires>>
    BY <1>5, Zenon DEF Finish, ControlOK, CompleteAccepts, CompleteOperation, Recorded
  <2>2. Moved(cur) /\ \A u \in Token \ {cur} : ops'[u] = ops[u]
    BY <2>1, StatusMove, Zenon DEF Moved
  <2> QED BY <2>1, <2>2, Zenon DEF StoreEffect
<1>6. CASE MarkExpired
  <2>1. PICK a \in Alert, o \in Object : exp = <<a, o>>
    BY <1>6 DEF MarkExpired, ControlOK
  <2>2. /\ pc = "expmark" /\ UNCHANGED <<ops, expires>>
        /\ MarkDecisionExpired(a, o) /\ status[a][o] \in Live
    BY <1>6, <2>1, Zenon DEF MarkExpired, MarkAccepts
  <2> QED
    BY <2>1, <2>2, Zenon DEF StoreEffect, MarkDecisionExpired, StoreTypeOK
<1>7. ASSUME NEW o \in Object, PlanExpires(o) PROVE StoreEffect
  <2>1. act[o] \in Alert
    BY <1>7, Zenon DEF PlanExpires, ControlOK, PlanMatches, PlanNames
  <2> QED
    BY <1>7, <2>1, Zenon
       DEF PlanExpires, StoreEffect, MarkAccepts, MarkDecisionExpired,
           StoreTypeOK
<1>8. ASSUME NEW k \in {"create", "refresh"}, NEW f \in Feed,
             NEW b \in SUBSET Object, NEW t \in Token, BatchBegins(k, f, b, t)
      PROVE  StoreEffect
  <2>1. /\ pc = "batch" /\ ops[t].status = "free"
        /\ UNCHANGED <<status, expires>>
        /\ \A o \in b : todo[o] = k
        /\ \A o \in b : OldOf(k, b)[o] # NoAlert =>
                status[OldOf(k, b)[o]][o] = "active"
        /\ ops' = [ops EXCEPT ![t] =
                        [status |-> "pending", feed |-> f, items |-> b,
                         old |-> OldOf(k, b)]]
    BY <1>8, Zenon
       DEF BatchBegins, IsBatch, Group, BeginAccepts, BeginOperation
  <2>2. \A o \in b : OldOf(k, b)[o] = IF k = "refresh" THEN act[o] ELSE NoAlert
    BY Zenon DEF OldOf
  <2>3. /\ ops'[t].status = "pending" /\ ops'[t].items = b
        /\ ops'[t].old = OldOf(k, b)
        /\ \A u \in Token \ {t} : ops'[u] = ops[u]
    BY <2>1, Zenon DEF StoreTypeOK
  <2>4. Begun(t)
    BY <2>1, <2>2, <2>3, ZenonT(60) DEF Begun
  <2> QED BY <2>1, <2>3, <2>4, Zenon DEF StoreEffect
<1>9. CASE StartRun \/ Crash \/ Environment \/ Recover \/ UNCHANGED vars
  BY <1>1, <1>9, Zenon
     DEF StartRun, Crash, Environment, Recover, ListEnforcementObjects,
         ReadOpenOperations, RecoverVerified, RecoverFound, RecoverUnproven,
         RecoverMissing, RecoverDone, storeVars, vars
<1>10. CASE CreateAlert \/ CreateAlertFails \/ GetAlertVerified
                        \/ GetAlertFails \/ RecordFails
  BY <1>1, <1>10, Zenon
     DEF CreateAlert, CreateAlertFails, GetAlertVerified, GetAlertFails,
         RecordFails, storeVars
<1>11. CASE FinishFails \/ (\E o \in Object : FinishItem(o)) \/ ExpireOver
              \/ ExpireLive \/ ExpireUnproven \/ ExpireDecision
              \/ ExpireDecisionFails \/ MarkExpiredFails
  BY <1>1, <1>11, Zenon
     DEF FinishFails, FinishItem, ExpireOver, ExpireLive, ExpireUnproven,
         ExpireDecision, ExpireDecisionFails, MarkExpiredFails, storeVars
<1>12. CASE Plan \/ PlanFails \/ BatchesDone \/ RunDone
              \/ (\E o \in Object : PlanExpireFails(o) \/ Remove(o))
              \/ (\E kind \in {"create", "refresh"}, feed \in Feed,
                      b \in SUBSET Object : BatchFails(kind, feed, b))
  BY <1>1, <1>12, Zenon
     DEF Plan, PlanFails, BatchesDone, RunDone, PlanExpireFails, Remove,
         BatchFails, storeVars
<1> QED
  BY <1>2, <1>3, <1>4, <1>5, <1>6, <1>7, <1>8, <1>9, <1>10, <1>11, <1>12, Zenon
     DEF Next, RunStep, CreateForOperation, FinishVerified, ExpireOwned,
         PlanAndBatch

-----------------------------------------------------------------------------
(* One process among several: what its Run relies on when others change    *)
(* the LAPI and the store between its steps, and what its steps leave to   *)
(* them.                                                                   *)

\* An alert that was not made carries no token, and a row of the ledger is of
\* an alert that carries one.
TokensKnown ==
    /\ \A a \in Alert : alerts[a].state = "unused" => alerts[a].token = NoToken
    /\ \A a \in Alert, o \in Object :
            status[a][o] # "none" => alerts[a].token \in Token

\* What all processes keep.
SharedOK == LapiTypeOK /\ StoreTypeOK /\ TokensKnown /\ LedgerProven

\* The operations a Run has in hand are in the journal, and the alert it is
\* about to record carries the token of the operation at hand.
InHand ==
    /\ \A t \in Token : left[t] # "none" => ops[t].status # "free"
    /\ cur \in Token => ops[cur].status # "free"
    /\ pc = "record" => alerts[got].token = cur

\* What a process knows of its own Run.
RunOK == LocalTypeOK /\ ControlOK /\ PlanNames /\ InHand

\* What no step of any process takes back: the token of an alert, the content
\* of a journalled operation, and that it was recorded.
Lasting ==
    /\ \A a \in Alert : alerts[a].state # "unused" =>
            /\ alerts'[a].state # "unused"
            /\ alerts'[a].token = alerts[a].token
    /\ \A t \in Token : ops[t].status # "free" =>
            /\ ops'[t].status # "free"
            /\ ops'[t].items = ops[t].items
            /\ ops'[t].old = ops[t].old
            /\ Recorded(t) => Recorded(t)'

\* Alerts change their state only, operations move on.
LEMMA LastingStep ==
    ASSUME LapiTypeOK, StoreTypeOK, ServerEffect(Requested), StoreEffect
    PROVE  Lasting
<1>1. ASSUME NEW a \in Alert, alerts[a].state # "unused"
      PROVE  alerts'[a].state # "unused" /\ alerts'[a].token = alerts[a].token
  BY <1>1, Zenon DEF ServerEffect, SameContent, Created
<1>2. ASSUME NEW t \in Token, ops[t].status # "free"
      PROVE  /\ ops'[t].status # "free"
             /\ ops'[t].items = ops[t].items
             /\ ops'[t].old = ops[t].old
             /\ Recorded(t) => Recorded(t)'
  <2>1. ops'[t] = ops[t] \/ Moved(t)
    BY <1>2, Zenon DEF StoreEffect, Begun
  <2>2. CASE ops'[t] = ops[t]
    BY <1>2, <2>2, Zenon DEF Recorded
  <2>3. CASE Moved(t)
    BY <2>3, Zenon DEF Moved, Recorded, Unverified
  <2> QED BY <2>1, <2>2, <2>3, Zenon
<1> QED BY <1>1, <1>2, Zenon DEF Lasting

\* A row of the ledger was there before, or is the one that Record adds for
\* the alert and the operation at hand.
LEMMA RowsGrow ==
    ASSUME StoreEffect, NEW a \in Alert, NEW o \in Object,
           status'[a][o] # "none"
    PROVE  \/ status[a][o] # "none"
           \/ /\ pc = "record" /\ a = got
              /\ ops[cur].status \in Unverified
              /\ ops'[cur].status = "verified"
              /\ o \in ops[cur].items
<1>1. \/ status'[a][o] = status[a][o]
      \/ /\ pc = "record"
         /\ ops[cur].status \in Unverified
         /\ ops'[cur].status = "verified"
         /\ o \in ops[cur].items
         /\ \/ a = got
            \/ status[a][o] = "active"
      \/ status[a][o] \in Live
  BY Zenon DEF StoreEffect
<1> QED BY <1>1, Zenon DEF Live

\* Where the rows of the ledger come from, after a step: the alert carries the
\* token of a recorded operation and the row is one of its items.
LEMMA RowsProven ==
    ASSUME SharedOK, RunOK, StoreEffect, Lasting,
           NEW a \in Alert, NEW o \in Object, status'[a][o] # "none"
    PROVE  \E t \in Token :
                /\ alerts[a].token = t /\ alerts'[a].token = t
                /\ Recorded(t)'
                /\ o \in ops'[t].items
                /\ status[a][o] = "none" => a = got /\ ~Recorded(t)
<1> USE DEF SharedOK, RunOK
<1>1. CASE status[a][o] # "none"
  <2>1. PICK t \in Token :
            alerts[a].token = t /\ Recorded(t) /\ o \in ops[t].items
    BY <1>1, Zenon DEF TokensKnown, LedgerProven
  <2>2. alerts[a].state # "unused"
    BY <2>1, LapiAssumption, Zenon DEF TokensKnown
  <2>3. ops[t].status # "free"
    BY <2>1, Zenon DEF Recorded
  <2> QED BY <1>1, <2>1, <2>2, <2>3, Zenon DEF Lasting
<1>2. CASE status[a][o] = "none"
  <2>1. /\ pc = "record" /\ a = got
        /\ ops[cur].status \in Unverified
        /\ ops'[cur].status = "verified"
        /\ o \in ops[cur].items
    BY <1>2, RowsGrow, Zenon
  <2>2. PICK t \in Token : cur = t /\ alerts[a].token = t
    BY <2>1, Zenon DEF ControlOK, InHand
  <2>3. alerts[a].state # "unused"
    BY <2>2, LapiAssumption, Zenon DEF TokensKnown
  <2>4. /\ ops[t].status # "free" /\ ~Recorded(t) /\ Recorded(t)'
        /\ o \in ops[t].items
    BY <2>1, <2>2, Zenon DEF Unverified, Recorded
  <2> QED BY <2>1, <2>2, <2>3, <2>4, Zenon DEF Lasting
<1> QED BY <1>1, <1>2, Zenon

\* Two rows of one object never come from the same operation.
LEMMA RowsDistinct ==
    ASSUME SharedOK, RunOK, StoreEffect, Lasting,
           NEW a \in Alert, NEW b \in Alert, NEW o \in Object, a # b,
           alerts'[a].token = alerts'[b].token,
           status'[a][o] # "none", status'[b][o] # "none"
    PROVE  FALSE
<1>1. PICK t \in Token :
            /\ alerts[a].token = t /\ alerts'[a].token = t
            /\ status[a][o] = "none" => a = got /\ ~Recorded(t)
  BY RowsProven, Zenon
<1>2. PICK u \in Token :
            /\ alerts[b].token = u /\ alerts'[b].token = u
            /\ status[b][o] = "none" => b = got /\ ~Recorded(u)
  BY RowsProven, Zenon
<1>3. u = t
  BY <1>1, <1>2, Zenon
<1>4. /\ status[a][o] # "none" => Recorded(t)
      /\ status[b][o] # "none" => Recorded(t)
      /\ status[a][o] = "none" \/ status[b][o] = "none"
  BY <1>1, <1>2, <1>3, Zenon DEF SharedOK, LedgerProven
<1> QED BY <1>1, <1>2, <1>3, <1>4, Zenon

\* Every step of a process keeps what the processes share.
LEMMA SharedStep ==
    ASSUME SharedOK, RunOK, [Next]_vars
    PROVE  SharedOK' /\ Lasting
<1> USE DEF SharedOK, RunOK
<1>1. TypeOK /\ ControlOK /\ PlanNames
  BY Zenon DEF TypeOK
<1>2. LapiTypeOK' /\ StoreTypeOK'
  BY <1>1, LapiTypeStep, StoreTypeStep, Zenon
<1>3. ServerEffect(Requested) /\ StoreEffect
  BY <1>1, ServerStep, StoreStep, Zenon
<1>4. Lasting
  BY <1>3, LastingStep, Zenon
<1>5. ASSUME NEW a \in Alert, alerts'[a].state = "unused"
      PROVE  alerts'[a].token = NoToken
  <2>1. ASSUME NEW r \in Requested, Created(r, a) PROVE FALSE
    <3>1. alerts'[a].state = "ours"
      BY <2>1, CreatedIsOurs, Zenon
    <3> QED BY <1>5, <3>1, Zenon
  <2>2. alerts'[a] = alerts[a] \/ SameContent(a)
    BY <1>3, <2>1, Zenon DEF ServerEffect
  <2>3. alerts[a].state = "unused"
    BY <1>4, <1>5, Zenon DEF Lasting
  <2> QED BY <2>2, <2>3, Zenon DEF TokensKnown, SameContent
<1>6. ASSUME NEW a \in Alert, NEW o \in Object, status'[a][o] # "none"
      PROVE  /\ alerts'[a].token \in Token
             /\ Recorded(alerts[a].token)'
             /\ o \in ops'[alerts'[a].token].items
  <2>1. PICK t \in Token :
            alerts'[a].token = t /\ Recorded(t)' /\ o \in ops'[t].items
    BY <1>3, <1>4, <1>6, RowsProven, Zenon
  <2> QED BY <2>1, Zenon DEF Recorded
<1>7. TokensKnown'
  BY <1>5, <1>6, Zenon DEF TokensKnown, Alert
<1>8. LedgerProven'
  <2>1. ASSUME NEW a \in Alert, NEW b \in Alert \ {a}, NEW o \in Object,
               status'[a][o] # "none", alerts'[b].token = alerts'[a].token
        PROVE  status'[b][o] = "none"
    BY <1>3, <1>4, <2>1, RowsDistinct, Zenon
  <2> QED BY <1>6, <2>1, Zenon DEF LedgerProven, Alert
<1> QED BY <1>2, <1>4, <1>7, <1>8, Zenon

\* Planned removals and renewals keep naming their decisions: the plan is read
\* from the ledger once and then only worked off.
LEMMA PlanNamesStep ==
    ASSUME LocalTypeOK, ControlOK, PlanNames, [Next]_vars
    PROVE  PlanNames'
<1> DEFINE Shorter == /\ act' = act
                      /\ \A o \in Object : todo'[o] \in {"renew", "remove"} =>
                                todo[o] \in {"renew", "remove"}
           Same == UNCHANGED <<phase, todo, act>>
<1>1. ASSUME phase' = "none" PROVE PlanNames'
  BY <1>1, Zenon DEF PlanNames
<1>2. ASSUME phase \in {"batch", "remove"}, Shorter PROVE PlanNames'
  BY <1>2, Zenon DEF PlanNames, Alert
<1>3. ASSUME Same PROVE PlanNames'
  BY <1>3, Zenon DEF PlanNames, Alert
<1>4. ASSUME NEW ok \in BOOLEAN, OperationDone(ok) PROVE PlanNames'
  BY <1>1, <1>3, <1>4, Zenon DEF OperationDone, Return
<1>5. ASSUME NEW ok \in BOOLEAN, ExpireDone(ok) PROVE PlanNames'
  BY <1>3, <1>4, <1>5, Zenon DEF ExpireDone
<1>6. CASE StartRun \/ Crash \/ Environment \/ UNCHANGED vars
  BY <1>1, <1>3, <1>6, Zenon
     DEF StartRun, Crash, Return, Environment, vars, localVars
<1>7. CASE Recover
  <2>1. CASE ReadOpenOperations
    BY <2>1, Zenon DEF ReadOpenOperations, PlanNames
  <2>2. CASE ~ReadOpenOperations
    BY <1>1, <1>3, <1>7, <2>2, Zenon
       DEF Recover, ListEnforcementObjects, RecoverVerified, RecoverFound,
           RecoverUnproven, RecoverMissing, RecoverDone, Return, Goto
  <2> QED BY <2>1, <2>2, Zenon
<1>8. CASE CreateForOperation
  BY <1>3, <1>4, <1>8, Zenon
     DEF CreateForOperation, NoLongerDesired, CreateAlert, CreateAlertFails,
         GetAlertVerified, GetAlertFails, MarkAmbiguous, Record, RecordFails,
         Goto
<1>9. CASE FinishVerified
  BY <1>3, <1>4, <1>9, Zenon DEF FinishVerified, FinishItem, Finish, FinishFails
<1>10. CASE ExpireOwned
  BY <1>3, <1>5, <1>10, Zenon
     DEF ExpireOwned, ExpireOver, ExpireLive, ExpireUnproven, ExpireDecision,
         ExpireDecisionFails, MarkExpired, MarkExpiredFails, Goto
<1>11. CASE Plan
  <2>1. ASSUME NEW o \in Object, todo'[o] \in {"renew", "remove"}
        PROVE  act'[o] \in Alert
    <3>1. todo'[o] = PlannedAction(o) /\ act'[o] = ActiveAlert(o)
      BY <1>11, Zenon DEF Plan
    <3>2. ActiveAlert(o) # NoAlert
      BY <2>1, <3>1, Zenon DEF PlannedAction
    <3> QED BY <3>1, <3>2, Zenon DEF ActiveAlert, Active
  <2> QED BY <2>1, Zenon DEF PlanNames, Alert
<1>12. ASSUME NEW o \in Object, PlanExpires(o) \/ Remove(o) PROVE PlanNames'
  <2>1. /\ phase \in {"batch", "remove"} /\ act' = act
        /\ \/ todo' = [todo EXCEPT ![o] = "create"]
           \/ todo' = [todo EXCEPT ![o] = "none"]
    BY <1>12, Zenon DEF PlanExpires, Remove, ControlOK
  <2>2. todo \in [Object -> Action]
    BY Zenon DEF LocalTypeOK
  <2>3. Shorter
    BY <2>1, <2>2, Zenon
  <2> QED BY <1>2, <2>1, <2>3, Zenon
<1>13. ASSUME NEW k \in {"create", "refresh"}, NEW f \in Feed,
              NEW b \in SUBSET Object,
              (\E t \in Token : BatchBegins(k, f, b, t)) \/ BatchFails(k, f, b)
       PROVE  PlanNames'
  <2>1. phase = "batch" /\ act' = act /\ todo' = Dispatched(b)
    BY <1>13, Zenon DEF BatchBegins, BatchFails, ControlOK
  <2>2. Shorter
    BY <2>1, Zenon DEF Dispatched
  <2> QED BY <1>2, <2>1, <2>2, Zenon
<1>14. CASE BatchesDone
  <2>1. CASE Return
    BY <1>1, <2>1, Zenon DEF Return
  <2>2. CASE ~Return
    <3>1. phase = "batch" /\ UNCHANGED <<todo, act>>
      BY <1>14, <2>2, Zenon DEF BatchesDone, ControlOK
    <3> QED BY <1>2, <3>1, Zenon
  <2> QED BY <2>1, <2>2, Zenon
<1>15. CASE PlanFails \/ RunDone \/ \E o \in Object : PlanExpireFails(o)
  BY <1>1, <1>15, Zenon DEF PlanFails, RunDone, PlanExpireFails, Return
<1> QED
  BY <1>6, <1>7, <1>8, <1>9, <1>10, <1>11, <1>12, <1>13, <1>14, <1>15, Zenon
     DEF Next, RunStep, PlanAndBatch

\* What a Run has in hand stays in the journal: an operation is taken from the
\* journal or begun there, and an alert is recorded after it was read.
LEMMA InHandStep ==
    ASSUME SharedOK, RunOK, Lasting, StoreEffect, [Next]_vars
    PROVE  InHand'
<1> USE DEF RunOK
<1> DEFINE Held(t) == left[t] # "none" \/ cur = t
           Reading == alerts'[got'].token = cur'
<1>1. ASSUME \A t \in Token : left'[t] # "none" \/ cur' = t => Held(t),
             pc' = "record" => Reading
      PROVE  InHand'
  <2>1. \A t \in Token : Held(t) => ops'[t].status # "free"
    BY Zenon DEF InHand, Lasting
  <2> QED BY <1>1, <2>1, Zenon DEF InHand
<1> DEFINE Fewer == /\ \A t \in Token : left'[t] # "none" => left[t] # "none"
                    /\ cur' \in {cur, NoToken}
<1>2. ASSUME Fewer, pc' = "record" => Reading PROVE InHand'
  BY <1>1, <1>2, LapiAssumption, Zenon
<1>3. ASSUME Return PROVE InHand'
  <2>1. pc' # "record" /\ cur' = NoToken /\ left' = NoOps
    BY <1>3, Zenon DEF Return
  <2>2. Fewer
    BY <2>1, Zenon DEF NoOps
  <2> QED BY <1>2, <2>1, <2>2, Zenon
<1>4. ASSUME UNCHANGED left, cur' \in {cur, NoToken}, pc' # "record"
      PROVE  InHand'
  BY <1>2, <1>4, Zenon
<1>5. ASSUME phase \in {"recover", "batch"}, NEW ok \in BOOLEAN,
             OperationDone(ok)
      PROVE  InHand'
  <2>1. CASE Return
    BY <1>3, <2>1, Zenon
  <2>2. CASE ~Return
    <3>1. pc' = phase /\ cur' = NoToken /\ UNCHANGED left
      BY <1>5, <2>2, Zenon DEF OperationDone
    <3>2. pc' # "record"
      BY <1>5, <3>1, Zenon
    <3> QED BY <1>4, <3>1, <3>2, Zenon
  <2> QED BY <2>1, <2>2, Zenon
<1>6. ASSUME Expiring, NEW ok \in BOOLEAN, ExpireDone(ok) PROVE InHand'
  <2>1. CASE phase # "remove" /\ ~ok
    BY <1>5, <1>6, <2>1, Zenon DEF ExpireDone, Expiring, ControlOK
  <2>2. CASE ~(phase # "remove" /\ ~ok)
    <3>1. pc' \in {"remove", "finish"} /\ UNCHANGED <<left, cur>>
      BY <1>6, <2>2, Zenon DEF ExpireDone
    <3>2. pc' # "record"
      BY <3>1, Zenon
    <3> QED BY <1>4, <3>1, <3>2, Zenon
  <2> QED BY <2>1, <2>2, Zenon
<1>7. ASSUME UNCHANGED <<pc, left, cur, got>> PROVE InHand'
  <2>1. ASSUME pc = "record" PROVE alerts'[got].token = cur
    <3>1. cur \in Token /\ got \in Alert /\ alerts[got].token = cur
      BY <2>1, Zenon DEF ControlOK, InHand
    <3> QED BY <3>1, LapiAssumption, Zenon DEF SharedOK, TokensKnown, Lasting
  <2> QED BY <1>2, <1>7, <2>1, Zenon
<1>8. CASE StartRun
  <2>1. UNCHANGED <<left, cur>> /\ pc' # "record"
    BY <1>8, Zenon DEF StartRun
  <2> QED BY <1>4, <2>1, Zenon
<1>9. CASE Crash
  BY <1>3, <1>9, Zenon DEF Crash
<1>10. CASE Environment \/ UNCHANGED vars
  BY <1>7, <1>10, Zenon DEF Environment, vars, localVars
<1>11. CASE ReadOpenOperations
  <2>1. /\ \A t \in Token : left'[t] # "none" => ops[t].status \in Open
        /\ cur' = cur /\ pc' = "recover" /\ UNCHANGED ops
    BY <1>11, Zenon DEF ReadOpenOperations, OpenOperations, storeVars
  <2>2. "free" \notin Open
    BY Zenon DEF Open, Unverified
  <2>3. pc' # "record"
    BY <2>1, Zenon
  <2> QED BY <2>1, <2>2, <2>3, Zenon DEF InHand
<1>12. ASSUME NEW t \in Token, RecoverFound(t) PROVE InHand'
  <2>1. /\ left[t] # "none" /\ cur' = t
        /\ left' = [left EXCEPT ![t] = "none"]
    BY <1>12, Zenon DEF RecoverFound, Pick
  <2>2. \A u \in Token : left'[u] # "none" \/ cur' = u => Held(u)
    BY <2>1, Zenon DEF LocalTypeOK
  <2>3. Reading
    BY <1>12, Zenon DEF RecoverFound, VerifiedAlert, lapiVars
  <2> QED BY <1>1, <2>2, <2>3, Zenon
<1>13. ASSUME NEW t \in Token, RecoverVerified(t) \/ RecoverMissing(t)
       PROVE  InHand'
  <2>1. /\ left[t] # "none" /\ cur' = t
        /\ left' = [left EXCEPT ![t] = "none"]
        /\ pc' \in {"finish", "create"}
    BY <1>13, Zenon DEF RecoverVerified, RecoverMissing, Pick
  <2>2. \A u \in Token : left'[u] # "none" \/ cur' = u => Held(u)
    BY <2>1, Zenon DEF LocalTypeOK
  <2>3. pc' # "record"
    BY <2>1, Zenon
  <2> QED BY <1>1, <2>2, <2>3, Zenon
<1>14. CASE ListEnforcementObjects \/ RecoverDone
  <2>1. UNCHANGED <<left, cur>> /\ pc' \in {"open", "plan"}
    BY <1>14, Zenon DEF ListEnforcementObjects, RecoverDone, Goto
  <2>2. pc' # "record"
    BY <2>1, Zenon
  <2> QED BY <1>4, <2>1, <2>2, Zenon
<1>15. ASSUME NEW t \in Token, RecoverUnproven(t) PROVE InHand'
  BY <1>3, <1>15, Zenon DEF RecoverUnproven
<1>16. CASE NoLongerDesired \/ MarkAmbiguous \/ RecordFails
            \/ Finish \/ FinishFails
  BY <1>5, <1>16, Zenon
     DEF NoLongerDesired, MarkAmbiguous, RecordFails, Finish, FinishFails,
         ControlOK
<1>17. CASE GetAlertVerified
  BY <1>2, <1>17, Zenon DEF GetAlertVerified, VerifiedAlert, lapiVars
<1>18. CASE CreateAlert \/ CreateAlertFails \/ GetAlertFails \/ Record
  <2>1. UNCHANGED <<left, cur>> /\ pc' \in {"get", "mark", "finish"}
    BY <1>18, Zenon DEF CreateAlert, CreateAlertFails, GetAlertFails, Record, Goto
  <2>2. pc' # "record"
    BY <2>1, Zenon
  <2> QED BY <1>4, <2>1, <2>2, Zenon
<1>19. ASSUME NEW o \in Object, FinishItem(o) PROVE InHand'
  <2>1. UNCHANGED <<left, cur>> /\ pc' \in {"finish", "expget"}
    BY <1>19, Zenon DEF FinishItem
  <2>2. pc' # "record"
    BY <2>1, Zenon
  <2> QED BY <1>4, <2>1, <2>2, Zenon
<1>20. CASE ExpireOver \/ ExpireLive \/ ExpireDecision
  <2>1. UNCHANGED <<left, cur>> /\ pc' \in {"expdel", "expmark"}
    BY <1>20, Zenon DEF ExpireOver, ExpireLive, ExpireDecision, Goto
  <2>2. pc' # "record"
    BY <2>1, Zenon
  <2> QED BY <1>4, <2>1, <2>2, Zenon
<1>21. CASE ExpireUnproven \/ ExpireDecisionFails \/ MarkExpired
            \/ MarkExpiredFails
  BY <1>6, <1>21, Zenon
     DEF ExpireUnproven, ExpireDecisionFails, MarkExpired, MarkExpiredFails,
         Expiring
<1>22. ASSUME NEW k \in {"create", "refresh"}, NEW f \in Feed,
              NEW b \in SUBSET Object, NEW t \in Token, BatchBegins(k, f, b, t)
       PROVE  InHand'
  <2>1. /\ cur' = t /\ pc' = "create" /\ UNCHANGED left
        /\ ops' = [ops EXCEPT ![t] =
                        [status |-> "pending", feed |-> f, items |-> b,
                         old |-> OldOf(k, b)]]
    BY <1>22, Zenon DEF BatchBegins, BeginOperation
  <2>2. ops'[t].status # "free"
    BY <2>1, Zenon DEF SharedOK, StoreTypeOK
  <2>3. \A u \in Token : left[u] # "none" => ops'[u].status # "free"
    BY Zenon DEF InHand, Lasting
  <2>4. pc' # "record"
    BY <2>1, Zenon
  <2> QED BY <2>1, <2>2, <2>3, <2>4, Zenon DEF InHand
<1>23. ASSUME NEW k \in {"create", "refresh"}, NEW f \in Feed,
              NEW b \in SUBSET Object, BatchFails(k, f, b)
       PROVE  InHand'
  BY <1>7, <1>23, Zenon DEF BatchFails
<1>24. ASSUME NEW o \in Object, PlanExpires(o) PROVE InHand'
  BY <1>7, <1>24, Zenon DEF PlanExpires
<1>25. CASE Plan \/ \E o \in Object : Remove(o)
  <2>1. UNCHANGED <<left, cur>> /\ pc' \in {"batch", "expget"}
    BY <1>25, Zenon DEF Plan, Remove
  <2>2. pc' # "record"
    BY <2>1, Zenon
  <2> QED BY <1>4, <2>1, <2>2, Zenon
<1>26. CASE BatchesDone
  <2>1. CASE Return
    BY <1>3, <2>1, Zenon
  <2>2. CASE ~Return
    <3>1. UNCHANGED <<left, cur>> /\ pc' = "remove"
      BY <1>26, <2>2, Zenon DEF BatchesDone
    <3> QED BY <1>4, <3>1, Zenon
  <2> QED BY <2>1, <2>2, Zenon
<1>27. CASE PlanFails \/ RunDone \/ \E o \in Object : PlanExpireFails(o)
  BY <1>3, <1>27, Zenon DEF PlanFails, RunDone, PlanExpireFails
<1> QED
  BY <1>8, <1>9, <1>10, <1>11, <1>12, <1>13, <1>14, <1>15, <1>16, <1>17, <1>18,
     <1>19, <1>20, <1>21, <1>22, <1>23, <1>24, <1>25, <1>26, <1>27, Zenon
     DEF Next, RunStep, Recover, CreateForOperation, FinishVerified,
         ExpireOwned, PlanAndBatch

\* Every step of a process keeps what it knows of its own Run.
LEMMA OwnStep ==
    ASSUME SharedOK, RunOK, [Next]_vars
    PROVE  RunOK'
<1> USE DEF RunOK
<1>1. TypeOK /\ ControlOK /\ PlanNames
  BY Zenon DEF TypeOK, SharedOK
<1>2. StoreEffect /\ Lasting
  BY <1>1, StoreStep, SharedStep, Zenon
<1>3. LocalTypeOK' /\ ControlOK'
  BY <1>1, LocalTypeStep, ControlStep, Zenon
<1>4. PlanNames' /\ InHand'
  BY <1>2, PlanNamesStep, InHandStep, Zenon
<1> QED BY <1>3, <1>4, Zenon

\* And so does every step of another process, which leaves its locals alone.
LEMMA OthersStep ==
    ASSUME TokensKnown, RunOK, Lasting, UNCHANGED localVars
    PROVE  RunOK'
<1> USE DEF RunOK
<1>1. UNCHANGED <<pc, phase, now, snap, left, cur, got, seen, items, exp, todo,
                  act, err>>
  BY Zenon DEF localVars
<1>2. LocalTypeOK' /\ PlanNames'
  BY <1>1, Zenon DEF LocalTypeOK, PlanNames, Alert
<1>3. ASSUME cur \in Token PROVE Replaced(cur)' = Replaced(cur)
  BY <1>1, <1>3, Zenon DEF InHand, Lasting, Replaced
<1>4. ControlOK'
  BY <1>1, <1>3, Zenon DEF ControlOK, Alert
<1>5. ASSUME pc = "record" PROVE alerts'[got].token = cur
  <2>1. cur \in Token /\ got \in Alert /\ alerts[got].token = cur
    BY <1>5, Zenon DEF ControlOK, InHand
  <2> QED BY <2>1, LapiAssumption, Zenon DEF TokensKnown, Lasting
<1>6. InHand'
  BY <1>1, <1>5, Zenon DEF InHand, Lasting
<1> QED BY <1>2, <1>4, <1>6, Zenon

\* Operations and rows of the ledger move on and never back: what was verified
\* ends as completed, what is completed or failed stays so, a replaced decision
\* does not become active again and a marked one stays marked.
MovesOn ==
    /\ \A t \in Token :
        /\ ops[t].status = "verified" =>
                ops'[t].status \in {"verified", "completed"}
        /\ ops[t].status \in {"completed", "failed"} =>
                ops'[t].status = ops[t].status
        /\ ops[t].status # "free" =>
                /\ ops'[t].status # "free"
                /\ ops'[t].feed = ops[t].feed
                /\ ops'[t].items = ops[t].items
                /\ ops'[t].old = ops[t].old
    /\ \A a \in Alert, o \in Object :
        /\ status[a][o] = "active" => status'[a][o] # "none"
        /\ status[a][o] = "expiring" => status'[a][o] \in {"expiring", "expired"}
        /\ status[a][o] = "expired" => status'[a][o] = "expired"

\* Every step of a process only moves them on, whatever another one wrote
\* since it last looked.
LEMMA MovesOnStep ==
    ASSUME SharedOK, RunOK, [Next]_vars
    PROVE  MovesOn
<1>1. StoreEffect
  BY StoreStep, Zenon DEF SharedOK, RunOK, TypeOK
<1>2. ASSUME NEW t \in Token
      PROVE  /\ ops[t].status = "verified" =>
                    ops'[t].status \in {"verified", "completed"}
             /\ ops[t].status \in {"completed", "failed"} =>
                    ops'[t].status = ops[t].status
             /\ ops[t].status # "free" =>
                    /\ ops'[t].status # "free"
                    /\ ops'[t].feed = ops[t].feed
                    /\ ops'[t].items = ops[t].items
                    /\ ops'[t].old = ops[t].old
  <2>1. ops'[t] = ops[t] \/ Begun(t) \/ Moved(t)
    BY <1>1, Zenon DEF StoreEffect
  <2>2. CASE ops'[t] = ops[t]
    BY <2>2, Zenon
  <2>3. CASE Begun(t)
    <3>1. ops[t].status = "free"
      BY <2>3, Zenon DEF Begun
    <3> QED BY <3>1, Zenon
  <2>4. CASE Moved(t)
    BY <2>4, Zenon DEF Moved, Recorded, Unverified
  <2> QED BY <2>1, <2>2, <2>3, <2>4, Zenon
<1>3. ASSUME NEW a \in Alert, NEW o \in Object
      PROVE  /\ status[a][o] = "active" => status'[a][o] # "none"
             /\ status[a][o] = "expiring" =>
                    status'[a][o] \in {"expiring", "expired"}
             /\ status[a][o] = "expired" => status'[a][o] = "expired"
  <2>1. \/ status'[a][o] = status[a][o]
        \/ status[a][o] = "none" /\ status'[a][o] = "active"
        \/ status[a][o] = "active" /\ status'[a][o] = "expiring"
        \/ status[a][o] \in Live /\ status'[a][o] = "expired"
    BY <1>1, Zenon DEF StoreEffect
  <2> QED BY <2>1, Zenon DEF Live
<1> QED BY <1>2, <1>3, Zenon DEF MovesOn
=============================================================================

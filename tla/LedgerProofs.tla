---------------------------- MODULE LedgerProofs ----------------------------
(***************************************************************************)
(* What the records know of the server: no decision of ours is in force    *)
(* without a ledger row or an open operation behind it, and a successful   *)
(* Run leaves nothing in force that is not desired.                        *)
(*                                                                         *)
(* Both assume only that a search looks back as far as a decision may last *)
(* (Window): a request of an earlier Run may be on its way for as long as  *)
(* it likes, and the server may report ends or remaining durations. What   *)
(* escapes is named in the properties: an alert created after recover had  *)
(* searched for it (late), and a decision that outlives the end noted for  *)
(* it (NotedOver). KnownInv adds to EnforceInv that a search of recovery   *)
(* finds whatever may be in force; RevokeInv adds that a Run without an    *)
(* error ends with nothing left over.                                      *)
(*                                                                         *)
(* The last section assumes nothing: no step of a Run and no late request  *)
(* takes the last ban from an object that is always wanted.                *)
(***************************************************************************)
EXTENDS ReconcileProofs

-----------------------------------------------------------------------------
(* Nothing of ours is in force without being known.                        *)

\* No step touches the server's alerts and the store at once.
LEMMA ServerOrStore ==
    ASSUME [Next]_vars
    PROVE  UNCHANGED <<alerts, until>> \/ UNCHANGED <<ops, status, expires>>
<1> USE DEF lapiVars, storeVars
<1>1. CASE StartRun \/ Crash \/ Environment \/ Recover \/ UNCHANGED vars
  BY <1>1, Zenon
     DEF StartRun, Crash, Environment, Recover, ListEnforcementObjects,
         ReadOpenOperations, RecoverVerified, RecoverFound, RecoverUnproven,
         RecoverMissing, RecoverDone, vars
<1>2. CASE CreateForOperation
  BY <1>2, Zenon
     DEF CreateForOperation, NoLongerDesired, CreateAlert, CreateAlertFails,
         GetAlertVerified, GetAlertFails, MarkAmbiguous, Record, RecordFails
<1>3. CASE FinishVerified \/ ExpireOwned
  BY <1>3, Zenon
     DEF FinishVerified, FinishItem, Finish, FinishFails, ExpireOwned,
         ExpireOver, ExpireLive, ExpireUnproven, ExpireDecision,
         ExpireDecisionFails, MarkExpired, MarkExpiredFails
<1>4. CASE PlanAndBatch
  <2> DEFINE Apart == \/ UNCHANGED <<alerts, until>>
                      \/ UNCHANGED <<ops, status, expires>>
  <2>1. CASE Plan \/ PlanFails \/ BatchesDone \/ RunDone
    BY <2>1, Zenon DEF Plan, PlanFails, BatchesDone, RunDone
  <2>2. ASSUME NEW o \in Object,
               PlanExpires(o) \/ PlanExpireFails(o) \/ Remove(o)
        PROVE  Apart
    BY <2>2, Zenon DEF PlanExpires, PlanExpireFails, Remove
  <2>3. ASSUME NEW k \in {"create", "refresh"}, NEW f \in Feed,
               NEW b \in SUBSET Object,
               BatchFails(k, f, b) \/ \E t \in Token : BatchBegins(k, f, b, t)
        PROVE  Apart
    BY <2>3, Zenon DEF BatchBegins, BatchFails
  <2> QED BY <1>4, <2>1, <2>2, <2>3, Zenon DEF PlanAndBatch
<1> QED BY <1>1, <1>2, <1>3, <1>4, Zenon DEF Next, RunStep

\* A creation gets on its way only when its answer is lost: the Run goes on
\* to mark the operation, or is over. From then on it changes only when a
\* search overtakes it.
PostsEffect ==
    \A r \in posts' :
        \/ r \in posts
        \/ r.late
        \/ /\ pc = "create" /\ pc' \in {"mark", "idle"}
           /\ r \in Requested
           /\ UNCHANGED ops

\* Every step treats creations this way.
LEMMA PostsStep ==
    ASSUME TypeOK, [Next]_vars
    PROVE  PostsEffect
<1> USE DEF lapiVars, PostsEffect
<1>1. CASE CreateAlertFails
  BY <1>1, Zenon DEF CreateAlertFails, Goto, Requested, storeVars
<1>2. CASE Crash
  BY <1>2, Zenon DEF Crash, Return, Requested, storeVars
<1>3. CASE Environment
  BY <1>3, Zenon
     DEF Environment, Network, DeliverPost, DropPost, DeliverDelete, DropDelete,
         Interfere, Tick
<1>4. CASE \/ StartRun \/ ListEnforcementObjects \/ ReadOpenOperations
           \/ RecoverDone \/ UNCHANGED vars
           \/ \E t \in Token : RecoverVerified(t) \/ RecoverUnproven(t)
  BY <1>4, Zenon
     DEF StartRun, ListEnforcementObjects, ReadOpenOperations, RecoverVerified,
         RecoverUnproven, RecoverDone, vars
<1>5. ASSUME NEW t \in Token, RecoverFound(t) \/ RecoverMissing(t)
      PROVE  PostsEffect
  <2>1. Overtake(t) /\ posts \subseteq Request
    BY <1>5, Zenon DEF RecoverFound, RecoverMissing, TypeOK, LapiTypeOK
  <2>2. \A r \in posts' : \E q \in posts : SameRequest(q, r)
    BY <2>1, OvertakeEffect, Zenon
  <2> QED BY <2>2, Zenon DEF SameRequest
<1>6. CASE NoLongerDesired \/ CreateAlert \/ GetAlertVerified \/ GetAlertFails
           \/ MarkAmbiguous \/ Record \/ RecordFails
  BY <1>6, Zenon
     DEF NoLongerDesired, CreateAlert, GetAlertVerified, GetAlertFails,
         MarkAmbiguous, Record, RecordFails
<1>7. CASE FinishVerified \/ ExpireOwned
  BY <1>7, ZenonT(60)
     DEF FinishVerified, FinishItem, Finish, FinishFails, ExpireOwned,
         ExpireOver, ExpireLive, ExpireUnproven, ExpireDecision,
         ExpireDecisionFails, MarkExpired, MarkExpiredFails
<1>8. CASE PlanAndBatch
  BY <1>8
     DEF PlanAndBatch, Plan, PlanFails, PlanExpires, PlanExpireFails,
         BatchBegins, BatchFails, BatchesDone, Remove, RunDone
<1> QED
  BY <1>1, <1>2, <1>3, <1>4, <1>6, <1>7, <1>8, <1>5, Zenon
     DEF Next, RunStep, Recover, CreateForOperation

\* The Run waits for the alert of the operation in hand.
Awaiting == pc \in {"create", "get", "record"}

\* Where a Run that waits for an alert comes from.
LEMMA AwaitingBefore ==
    ASSUME TypeOK, ControlOK, [Next]_vars, Awaiting'
    PROVE  \/ Environment /\ Awaiting /\ UNCHANGED <<pc, phase, cur, got>>
           \/ UNCHANGED vars
           \/ CreateAlert
           \/ GetAlertVerified
           \/ \E t \in Token : RecoverFound(t) \/ RecoverMissing(t)
           \/ \E k \in {"create", "refresh"}, f \in Feed, b \in SUBSET Object,
                 t \in Token : BatchBegins(k, f, b, t)
<1>1. CASE Environment
  BY <1>1, Zenon DEF Environment, localVars, Awaiting
<1>2. ASSUME Return PROVE FALSE
  BY <1>2, Zenon DEF Return, Awaiting
<1>3. ASSUME NEW ok, OperationDone(ok) PROVE FALSE
  BY <1>2, <1>3, Zenon DEF OperationDone, TypeOK, LocalTypeOK, Awaiting
<1>4. ASSUME NEW ok, ExpireDone(ok) PROVE FALSE
  BY <1>3, <1>4, Zenon DEF ExpireDone, Awaiting
<1>5. CASE StartRun \/ ListEnforcementObjects \/ ReadOpenOperations
           \/ RecoverDone \/ \E t \in Token : RecoverVerified(t)
  BY <1>5, Zenon
     DEF StartRun, ListEnforcementObjects, ReadOpenOperations, RecoverDone,
         RecoverVerified, Goto, Awaiting
<1>6. CASE \/ PlanFails \/ RunDone \/ Crash
           \/ \E t \in Token : RecoverUnproven(t)
           \/ \E o \in Object : PlanExpireFails(o)
  BY <1>2, <1>6, Zenon
     DEF PlanFails, RunDone, Crash, RecoverUnproven, PlanExpireFails
<1>7. CASE NoLongerDesired \/ MarkAmbiguous \/ RecordFails \/ Finish
           \/ FinishFails
  BY <1>3, <1>7, Zenon
     DEF NoLongerDesired, MarkAmbiguous, RecordFails, Finish, FinishFails
<1>8. CASE ExpireUnproven \/ ExpireDecisionFails \/ MarkExpired
           \/ MarkExpiredFails
  BY <1>4, <1>8, Zenon
     DEF ExpireUnproven, ExpireDecisionFails, MarkExpired, MarkExpiredFails
<1>9. CASE CreateAlertFails \/ GetAlertFails \/ Record \/ ExpireOver
           \/ ExpireLive \/ ExpireDecision \/ \E o \in Object : FinishItem(o)
  BY <1>9, Zenon
     DEF CreateAlertFails, GetAlertFails, Record, ExpireOver, ExpireLive,
         ExpireDecision, FinishItem, Goto, Awaiting
<1>10. CASE Plan \/ BatchesDone \/ \E o \in Object : PlanExpires(o) \/ Remove(o)
  BY <1>2, <1>10, Zenon DEF Plan, BatchesDone, PlanExpires, Remove, Awaiting
<1>11. ASSUME NEW k \in {"create", "refresh"}, NEW f \in Feed,
              NEW b \in SUBSET Object, BatchFails(k, f, b)
       PROVE  FALSE
  BY <1>11, Zenon DEF BatchFails, Awaiting
<1> QED
  BY <1>1, <1>5, <1>6, <1>7, <1>8, <1>9, <1>10, <1>11, Zenon
     DEF Next, RunStep, Recover, CreateForOperation, FinishVerified,
         ExpireOwned, PlanAndBatch

\* A decision of ours that is in force was so before, or was just created.
LEMMA EnforcedBefore ==
    ASSUME TypeOK, NEW requests, ServerEffect(requests),
           NEW a \in Alert, NEW o \in Object,
           alerts'[a].state = "ours", Enforced(a, o)'
    PROVE  \/ /\ alerts[a].state = "ours" /\ Enforced(a, o)
              /\ alerts'[a] = alerts[a] /\ until'[a][o] = until[a][o]
           \/ \E r \in requests : Created(r, a)
<1>1. CASE ~\E r \in requests : Created(r, a)
  <2>1. alerts'[a] = alerts[a] /\ alerts[a].state = "ours"
    BY <1>1, Zenon DEF ServerEffect
  <2>2. clock \in Nat /\ until[a][o] \in Nat
    BY Zenon DEF TypeOK, LapiTypeOK
  <2>3. o \in alerts[a].items /\ until'[a][o] > clock'
    BY <2>1, Zenon DEF Enforced
  <2>4. PICK c \in {clock, clock + 1} : c = clock'
    BY Zenon DEF ServerEffect
  <2>5. until'[a][o] = until[a][o] \/ until'[a][o] = clock
    BY <1>1, Zenon DEF ServerEffect
  <2>6. until'[a][o] # clock
    BY <2>2, <2>3, <2>4
  <2>7. until[a][o] > clock
    BY <2>2, <2>3, <2>4, <2>5, <2>6
  <2> QED BY <2>1, <2>3, <2>5, <2>6, <2>7, Zenon DEF Enforced, Readable
<1> QED BY <1>1, Zenon

\* A decision in force ends within its duration and, where the server reports
\* absolute ends, no later than the ledger or the readings in hand say.
Timely ==
    /\ \A a \in Alert : alerts[a].made <= clock
    /\ \A a \in Alert, o \in Object :
        \/ until[a][o] <= clock
        \/ /\ until[a][o] <= alerts[a].made + Duration
           /\ ~Remaining /\ status[a][o] \in Live =>
                    until[a][o] <= expires[a][o]
    /\ ~Remaining /\ pc = "record" =>
        \A o \in ops[cur].items :
            until[got][o] <= clock \/ until[got][o] <= seen[o]

\* The server gives the same duration to every decision, and an absolute end
\* is read back as it is.
LEMMA TimelyStep ==
    ASSUME ReplaceInv, TypeOK', Timely,
           ServerEffect(Requested), StoreEffect, [Next]_vars
    PROVE  Timely'
<1> USE DEF ReplaceInv
<1>1. TypeOK /\ ControlOK /\ HandMatches
  BY Zenon DEF IndInv, RunKnows
<1>2. /\ clock \in Nat /\ Duration \in Nat
      /\ \A a \in Alert : alerts[a].made \in Nat /\ alerts'[a].made \in Nat
      /\ \A a \in Alert, o \in Object :
            /\ until[a][o] \in Nat /\ expires[a][o] \in Nat
            /\ until'[a][o] \in Nat /\ expires'[a][o] \in Nat
  BY <1>1, LapiAssumption
     DEF TypeOK, LapiTypeOK, StoreTypeOK, LocalTypeOK, AlertRecord
<1>3. PICK c \in {clock, clock + 1} : c = clock'
  BY Zenon DEF ServerEffect
<1>4. c \in Nat /\ clock <= c
  BY <1>2, <1>3
<1>5. \A a \in Alert : alerts[a].token \in Token => alerts[a].state # "unused"
  BY LapiAssumption, Zenon DEF AlertsJournalled
<1>6. pc = "record" => /\ got \in Alert /\ cur \in Token
                       /\ alerts[got].token = cur /\ ~Recorded(cur)
                       /\ ops[cur].items \subseteq Object
  BY <1>1, Zenon
     DEF ControlOK, HandMatches, Creating, Unverified, Recorded, TypeOK,
         StoreTypeOK, Operation
<1>7. \A a \in Alert, o \in Object : status[a][o] # "none" =>
        alerts[a].token \in Token /\ Recorded(alerts[a].token)
  BY Zenon DEF LedgerJournalled
<1>8. ASSUME NEW a \in Alert, ~\E r \in Requested : Created(r, a)
      PROVE  /\ alerts'[a].made = alerts[a].made
             /\ \A o \in Object :
                    until'[a][o] = until[a][o] \/ until'[a][o] = clock
  BY <1>8, Zenon DEF ServerEffect, SameContent
<1>9. ASSUME NEW a \in Alert, \E r \in Requested : Created(r, a)
      PROVE  /\ alerts[a].state = "unused"
             /\ alerts'[a].made = clock
             /\ \A o \in Object :
                    until'[a][o] = clock + Duration \/ until'[a][o] = 0
  BY <1>9 DEF Created
<1>10. ASSUME NEW a \in Alert PROVE alerts'[a].made <= c
  <2>1. alerts'[a].made = alerts[a].made \/ alerts'[a].made = clock
    BY <1>8, <1>9, Zenon
  <2>2. alerts[a].made <= clock
    BY Zenon DEF Timely
  <2> QED BY <1>2, <1>4, <2>1, <2>2
<1>11. ASSUME NEW a \in Alert, NEW o \in Object
       PROVE  \/ until'[a][o] <= c
              \/ /\ until'[a][o] <= alerts'[a].made + Duration
                 /\ ~Remaining /\ status'[a][o] \in Live =>
                        until'[a][o] <= expires'[a][o]
  <2>1. CASE \E r \in Requested : Created(r, a)
    <3>1. status'[a][o] \notin Live
      BY <1>5, <1>6, <1>7, <1>9, <2>1 DEF StoreEffect, Live
    <3>2. 0 <= c
      BY <1>4
    <3>3. CASE until'[a][o] = 0
      BY <3>2, <3>3, Zenon
    <3>4. CASE until'[a][o] = clock + Duration
      BY <1>2, <1>9, <2>1, <3>1, <3>4
    <3> QED BY <1>9, <2>1, <3>3, <3>4, Zenon
  <2>2. CASE ~\E r \in Requested : Created(r, a)
    <3>1. CASE until'[a][o] = clock
      BY <1>4, <3>1, Zenon
    <3>2. CASE until[a][o] <= clock /\ until'[a][o] = until[a][o]
      <4>1. until[a][o] <= c
        BY <1>2, <1>4, <3>2
      <4> QED BY <3>2, <4>1, Zenon
    <3>3. CASE until'[a][o] = until[a][o] /\ ~(until[a][o] <= clock)
      <4>1. /\ until[a][o] <= alerts[a].made + Duration
            /\ ~Remaining /\ status[a][o] \in Live =>
                    until[a][o] <= expires[a][o]
        BY <3>3, Zenon DEF Timely
      <4>2. ASSUME ~Remaining, status'[a][o] \in Live
            PROVE  until[a][o] <= expires'[a][o]
        <5>1. CASE status[a][o] \in Live
          <6>1. expires'[a][o] = expires[a][o]
            BY <1>6, <1>7, <5>1 DEF StoreEffect, Live
          <6> QED BY <4>1, <4>2, <5>1, <6>1, Zenon
        <5>2. CASE status[a][o] \notin Live
          <6>1. /\ pc = "record" /\ a = got /\ o \in ops[cur].items
                /\ ops[cur].status \in Unverified
                /\ ops'[cur].status = "verified"
            BY <4>2, <5>2 DEF StoreEffect, Live
          <6>2. Moved(cur)
            BY <1>6, <6>1, Zenon DEF StoreEffect, Begun, Unverified
          <6>3. expires'[a][o] = seen[o]
            BY <6>1, <6>2, Zenon DEF Moved
          <6> QED BY <3>3, <4>2, <6>1, <6>3, Zenon DEF Timely
        <5> QED BY <5>1, <5>2, Zenon
      <4> QED BY <1>8, <2>2, <3>3, <4>1, <4>2, Zenon
    <3> QED BY <1>8, <2>2, <3>1, <3>2, <3>3, Zenon
  <2> QED BY <2>1, <2>2, Zenon
<1>12. ASSUME ~Remaining, pc' = "record", NEW o \in ops'[cur'].items
       PROVE  until'[got'][o] <= c \/ until'[got'][o] <= seen'[o]
  <2>1. CASE pc = "record" /\ UNCHANGED <<got, seen, cur, ops, now>>
    <3>1. ~\E r \in Requested : Created(r, got)
      BY <1>5, <1>6, <2>1, Zenon DEF Created
    <3>2. o \in ops[cur].items /\ o \in Object /\ got \in Alert
      BY <1>6, <1>12, <2>1, Zenon
    <3>3. CASE until'[got][o] = clock
      BY <1>4, <2>1, <3>3, Zenon
    <3>4. CASE until'[got][o] = until[got][o]
      <4>1. until[got][o] <= clock \/ until[got][o] <= seen[o]
        BY <1>12, <2>1, <3>2, Zenon DEF Timely
      <4>2. until[got][o] <= clock => until[got][o] <= c
        BY <1>2, <1>4, <3>2
      <4> QED BY <2>1, <3>4, <4>1, <4>2, Zenon
    <3> QED BY <1>8, <3>1, <3>2, <3>3, <3>4, Zenon
  <2>2. ASSUME NEW t \in Token, NEW a \in Alert,
               got' = a, seen' = ReadBack(t, a), cur' = t,
               UNCHANGED <<until, ops>>
        PROVE  until'[got'][o] <= seen'[o]
    <3>1. o \in ops[t].items /\ o \in Object
      BY <1>1, <1>12, <2>2, Zenon DEF TypeOK, StoreTypeOK, Operation
    <3>2. seen'[o] = until[a][o]
      BY <1>12, <2>2, <3>1, Zenon DEF ReadBack, DecisionExpiry
    <3>3. until[a][o] <= until[a][o]
      BY <1>2, <3>1
    <3> QED BY <2>2, <3>2, <3>3, Zenon
  <2> QED BY <1>1, <1>12, <2>1, <2>2, RecordBefore, Zenon
<1> QED BY <1>3, <1>10, <1>11, <1>12, Zenon DEF Timely

\* A creation that is on its way and that no search has overtaken belongs to
\* an unverified operation, and not to the one whose alert the Run waits for.
PostsApart ==
    \A r \in posts : ~r.late =>
        /\ ops[r.token].status \in Unverified
        /\ Awaiting => r.token # cur

\* A Run takes an unverified operation up again only after a search for its
\* alert.
LEMMA PostsApartStep ==
    ASSUME ReplaceInv, PostsApart, StoreEffect, [Next]_vars
    PROVE  PostsApart'
<1> USE DEF ReplaceInv
<1>1. TypeOK /\ ControlOK /\ HandMatches
  BY Zenon DEF IndInv, RunKnows
<1>2. PostsEffect
  BY <1>1, PostsStep, Zenon
<1>3. ASSUME NEW r \in posts', ~r.late
      PROVE  /\ ops'[r.token].status \in Unverified
             /\ Awaiting' => r.token # cur'
  <2>1. CASE r \in posts
    <3>1. r.token \in Token
      BY <1>1, <2>1, Zenon DEF TypeOK, LapiTypeOK, Request
    <3>2. ops[r.token].status \in Unverified /\ (Awaiting => r.token # cur)
      BY <1>3, <2>1, Zenon DEF PostsApart
    <3>3. ops'[r.token].status \in Unverified
      <4>1. CASE Moved(r.token)
        BY <3>2, <4>1, Zenon DEF Moved, Awaiting, Recorded, Unverified
      <4> QED BY <3>1, <3>2, <4>1, Zenon DEF StoreEffect, Begun, Unverified
    <3>4. ASSUME Awaiting' PROVE r.token # cur'
      <4>1. CASE Awaiting /\ cur' = cur
        BY <3>2, <4>1, Zenon
      <4>2. ASSUME NEW t \in Token, RecoverFound(t) \/ RecoverMissing(t)
            PROVE  r.token # cur'
        <5>1. Overtake(t) /\ cur' = t /\ posts \subseteq Request
          BY <1>1, <4>2, Zenon
             DEF RecoverFound, RecoverMissing, TypeOK, LapiTypeOK
        <5> QED BY <1>3, <5>1, OvertakeEffect, Zenon
      <4>3. ASSUME NEW k \in {"create", "refresh"}, NEW f \in Feed,
                   NEW b \in SUBSET Object, NEW t \in Token,
                   BatchBegins(k, f, b, t)
            PROVE  r.token # cur'
        BY <3>2, <4>3, Zenon DEF BatchBegins, BeginAccepts, Unverified
      <4>4. CASE UNCHANGED vars
        BY <3>4, <4>1, <4>4, Zenon DEF vars, localVars, Awaiting
      <4>5. CASE CreateAlert \/ GetAlertVerified
        BY <4>1, <4>5, Zenon DEF CreateAlert, GetAlertVerified, Awaiting
      <4> QED
        BY <1>1, <3>4, <4>1, <4>2, <4>3, <4>4, <4>5, AwaitingBefore, Zenon
    <3> QED BY <3>3, <3>4, Zenon
  <2>2. CASE r \notin posts
    <3>1. /\ pc = "create" /\ pc' \in {"mark", "idle"} /\ ops' = ops
          /\ r = CreateRequest
      BY <1>2, <1>3, <2>2, Zenon DEF PostsEffect, Requested
    <3>2. ops[cur].status \in Unverified
      BY <1>1, <3>1, Zenon DEF HandMatches, Creating
    <3>3. ops'[r.token].status \in Unverified
      BY <3>1, <3>2, Zenon DEF CreateRequest
    <3> QED BY <3>1, <3>3, Zenon DEF Awaiting
  <2> QED BY <2>1, <2>2, Zenon
<1> QED BY <1>3, Zenon DEF PostsApart, Awaiting

\* expireOwned marks a decision after it found it over or deleted it.
LEMMA MarkingBefore ==
    ASSUME TypeOK, ControlOK, [Next]_vars, pc' = "expmark"
    PROVE  \/ pc = "expmark" /\ exp' = exp
           \/ ExpireOver
           \/ ExpireDecision
<1>1. CASE Environment \/ UNCHANGED vars
  BY <1>1, Zenon DEF Environment, vars, localVars
<1>2. ASSUME Return PROVE FALSE
  BY <1>2, Zenon DEF Return
<1>3. ASSUME NEW ok, OperationDone(ok) PROVE FALSE
  BY <1>2, <1>3, Zenon DEF OperationDone, TypeOK, LocalTypeOK
<1>4. ASSUME NEW ok, ExpireDone(ok) PROVE FALSE
  BY <1>3, <1>4, Zenon DEF ExpireDone
<1>5. CASE StartRun \/ ListEnforcementObjects \/ ReadOpenOperations
           \/ RecoverDone \/ \E t \in Token : RecoverVerified(t)
                                  \/ RecoverFound(t) \/ RecoverMissing(t)
  BY <1>5, Zenon
     DEF StartRun, ListEnforcementObjects, ReadOpenOperations, RecoverDone,
         RecoverVerified, RecoverFound, RecoverMissing, Goto
<1>6. CASE \/ PlanFails \/ RunDone \/ Crash
           \/ \E t \in Token : RecoverUnproven(t)
           \/ \E o \in Object : PlanExpireFails(o)
  BY <1>2, <1>6, Zenon
     DEF PlanFails, RunDone, Crash, RecoverUnproven, PlanExpireFails
<1>7. CASE NoLongerDesired \/ MarkAmbiguous \/ RecordFails \/ Finish
           \/ FinishFails
  BY <1>3, <1>7, Zenon
     DEF NoLongerDesired, MarkAmbiguous, RecordFails, Finish, FinishFails
<1>8. CASE ExpireUnproven \/ ExpireDecisionFails \/ MarkExpired
           \/ MarkExpiredFails
  BY <1>4, <1>8, Zenon
     DEF ExpireUnproven, ExpireDecisionFails, MarkExpired, MarkExpiredFails
<1>9. CASE CreateAlert \/ CreateAlertFails \/ GetAlertVerified
           \/ GetAlertFails \/ Record \/ ExpireLive
           \/ \E o \in Object : FinishItem(o)
  BY <1>9, Zenon
     DEF CreateAlert, CreateAlertFails, GetAlertVerified, GetAlertFails, Record,
         ExpireLive, FinishItem, Goto
<1>10. CASE Plan \/ BatchesDone \/ \E o \in Object : PlanExpires(o) \/ Remove(o)
  BY <1>2, <1>10, Zenon DEF Plan, BatchesDone, PlanExpires, Remove
<1>11. ASSUME NEW k \in {"create", "refresh"}, NEW f \in Feed,
              NEW b \in SUBSET Object,
              \/ BatchFails(k, f, b)
              \/ \E t \in Token : BatchBegins(k, f, b, t)
       PROVE  FALSE
  BY <1>11, Zenon DEF BatchFails, BatchBegins
<1> QED
  BY <1>1, <1>5, <1>6, <1>7, <1>8, <1>9, <1>10, <1>11, Zenon
     DEF Next, RunStep, Recover, CreateForOperation, FinishVerified,
         ExpireOwned, PlanAndBatch

\* The only alert in force for the operation in hand, but for what arrived
\* after the search, is the one the Run has read; and what expireOwned is
\* about to mark is over.
Lonely ==
    /\ Awaiting =>
        \A b \in Alert, o \in Object :
            /\ alerts[b].token = cur /\ alerts[b].state = "ours"
            /\ ~alerts[b].late /\ Enforced(b, o)
            => pc # "create" /\ b = got
    /\ pc = "expmark" /\ alerts[exp[1]].state = "ours" =>
            ~Enforced(exp[1], exp[2])

\* A search that is accepted returns one alert at most.
LEMMA FoundOnce ==
    ASSUME NEW f, NEW t, ~SearchRefused(f, t),
           NEW a \in FindOperation(f, t), NEW b \in FindOperation(f, t)
    PROVE  a = b
  BY Zenon DEF SearchRefused

\* The search goes back far enough to see every decision in force.
LEMMA EnforcedIsFound ==
    ASSUME TypeOK, Duration <= Window, AlertsJournalled, Timely,
           NEW b \in Alert, NEW o \in Object,
           alerts[b].state = "ours", Enforced(b, o)
    PROVE  LET t == alerts[b].token IN b \in FindOperation(ops[t].feed, t)
<1>1. until[b][o] > clock /\ Readable(b)
  BY Zenon DEF Enforced
<1>2. /\ clock \in Nat /\ until[b][o] \in Nat /\ alerts[b].made \in Nat
      /\ Duration \in Nat /\ Window \in Nat
  BY LapiAssumption, ZenonT(60) DEF TypeOK, LapiTypeOK, AlertRecord
<1>3. until[b][o] <= clock \/ until[b][o] <= alerts[b].made + Duration
  BY Zenon DEF Timely
<1>4. alerts[b].made + Window >= clock
  BY <1>1, <1>2, <1>3
<1>5. alerts[b].feed = ops[alerts[b].token].feed
  BY Zenon DEF AlertsJournalled
<1> QED BY <1>1, <1>4, <1>5, Zenon DEF FindOperation, searchAlerts

\* A decision whose end the Run believes to be past has ended: the Run reads
\* the time before it reads the decision.
LEMMA PastIsOver ==
    ASSUME TypeOK, now <= clock, NEW a \in Alert, NEW o \in Object,
           DecisionExpiry(a, o) <= now
    PROVE  until[a][o] <= clock
<1>1. now \in Nat /\ clock \in Nat /\ until[a][o] \in Nat
  BY Zenon DEF TypeOK, LapiTypeOK, LocalTypeOK
<1>2. CASE Remaining
  <2>1. now + (until[a][o] - clock) <= now
    BY <1>2, Zenon DEF DecisionExpiry
  <2> QED BY <1>1, <2>1
<1>3. CASE ~Remaining
  <2>1. until[a][o] <= now
    BY <1>3, Zenon DEF DecisionExpiry
  <2> QED BY <1>1, <2>1
<1> QED BY <1>2, <1>3, Zenon

\* An alert is created for the operation in hand only by its own call.
LEMMA LonelyStep ==
    ASSUME Duration <= Window, ReplaceInv, TypeOK', ReadingsSafe,
           Timely, PostsApart, Lonely, ServerEffect(Requested), StoreEffect,
           [Next]_vars
    PROVE  Lonely'
<1> USE DEF ReplaceInv
<1>1. TypeOK /\ ControlOK /\ HandMatches /\ ExpireSettled
  BY Zenon DEF IndInv, RunKnows
<1>2. \A a \in Alert : alerts[a].token \in Token => alerts[a].state # "unused"
  BY LapiAssumption, Zenon DEF AlertsJournalled
<1>3. ASSUME Awaiting', NEW b \in Alert, NEW o \in Object,
             alerts'[b].token = cur', alerts'[b].state = "ours",
             ~alerts'[b].late, Enforced(b, o)'
      PROVE  pc' # "create" /\ b = got'
  <2>1. ASSUME Awaiting, UNCHANGED <<pc, cur, got>>, ServerEffect(posts)
        PROVE  pc' # "create" /\ b = got'
    <3>1. ~\E r \in posts : Created(r, b)
      <4>1. ASSUME NEW r \in posts, Created(r, b) PROVE FALSE
        <5>1. alerts'[b].token = r.token /\ alerts'[b].late = r.late
          BY <4>1 DEF Created
        <5> QED BY <1>3, <2>1, <5>1, Zenon DEF PostsApart
      <4> QED BY <4>1, Zenon
    <3>2. alerts[b].state = "ours" /\ Enforced(b, o) /\ alerts'[b] = alerts[b]
      BY <1>1, <1>3, <2>1, <3>1, EnforcedBefore, Zenon
    <3> QED BY <1>3, <2>1, <3>2, Zenon DEF Lonely
  <2>2. CASE Environment /\ Awaiting /\ UNCHANGED <<pc, phase, cur, got>>
    BY <1>1, <2>1, <2>2, EnvironmentEffect, Zenon
  <2>3. ASSUME UNCHANGED <<clock, alerts, until>>
        PROVE  /\ Enforced(b, o) /\ alerts[b].state = "ours"
               /\ alerts[b].token = cur' /\ ~alerts[b].late
    BY <1>3, <2>3, Zenon DEF Enforced, Readable
  <2>4. CASE UNCHANGED vars
    BY <1>3, <2>3, <2>4, Zenon DEF vars, lapiVars, localVars, Lonely, Awaiting
  <2>5. CASE CreateAlert
    <3>1. PICK a \in Alert : createAlerts(CreateRequest, a) /\ got' = a
      BY <2>5, Zenon DEF CreateAlert
    <3>2. \A c \in Alert \ {a} : alerts'[c] = alerts[c] /\ until'[c] = until[c]
      BY <1>1, <3>1, CreateEffect, Zenon DEF TypeOK
    <3>3. pc = "create" /\ pc' = "get" /\ cur' = cur /\ clock' = clock
      BY <2>5, Zenon DEF CreateAlert
    <3>4. ASSUME b # a PROVE FALSE
      <4>1. /\ alerts[b].token = cur /\ alerts[b].state = "ours"
            /\ ~alerts[b].late /\ Enforced(b, o)
        BY <1>3, <3>2, <3>3, <3>4, Zenon DEF Enforced, Readable
      <4> QED BY <3>3, <4>1, Zenon DEF Lonely, Awaiting
    <3> QED BY <3>1, <3>3, <3>4, Zenon
  <2>6. CASE GetAlertVerified
    <3>1. /\ UNCHANGED <<clock, alerts, until, cur, got>>
          /\ pc = "get" /\ pc' = "record"
      BY <2>6, Zenon DEF GetAlertVerified, lapiVars
    <3> QED BY <2>3, <3>1, Zenon DEF Lonely, Awaiting
  <2>7. ASSUME NEW t \in Token, RecoverFound(t)
        PROVE  pc' # "create" /\ b = got'
    <3>1. /\ UNCHANGED <<clock, alerts, until>> /\ cur' = t /\ pc' = "record"
          /\ ~SearchRefused(ops[t].feed, t)
          /\ got' \in FindOperation(ops[t].feed, t)
      BY <2>7, Zenon DEF RecoverFound, lapiVars
    <3>2. b \in FindOperation(ops[t].feed, t)
      BY <1>1, <2>3, <3>1, EnforcedIsFound, Zenon
    <3> QED BY <3>1, <3>2, FoundOnce, Zenon
  <2>8. ASSUME NEW t \in Token, RecoverMissing(t)
        PROVE  FALSE
    <3>1. /\ UNCHANGED <<clock, alerts, until>> /\ cur' = t
          /\ FindOperation(ops[t].feed, t) = {}
      BY <2>8, Zenon DEF RecoverMissing, lapiVars
    <3> QED BY <1>1, <2>3, <3>1, EnforcedIsFound, Zenon
  <2>9. ASSUME NEW k \in {"create", "refresh"}, NEW f \in Feed,
               NEW q \in SUBSET Object, NEW t \in Token, BatchBegins(k, f, q, t)
        PROVE  FALSE
    <3>1. UNCHANGED <<clock, alerts, until>> /\ cur' = t /\ ops[t].status = "free"
      BY <2>9, Zenon DEF BatchBegins, BeginAccepts, lapiVars
    <3> QED BY <2>3, <3>1, Zenon DEF AlertsJournalled
  <2> QED
    BY <1>1, <1>3, <2>2, <2>4, <2>5, <2>6, <2>7, <2>8, <2>9, AwaitingBefore, Zenon
<1>4. ASSUME pc' = "expmark", alerts'[exp'[1]].state = "ours"
      PROVE  ~Enforced(exp[1], exp[2])'
  <2>1. CASE pc = "expmark" /\ exp' = exp
    <3>1. PICK a \in Alert, o \in Object : exp = <<a, o>>
      BY <1>1, <2>1 DEF ControlOK
    <3>2. alerts[a].token \in Token
      BY <1>1, <2>1, <3>1, Zenon DEF ExpireSettled, Expiring, Completed
    <3>3. ~\E r \in Requested : Created(r, a)
      BY <1>2, <3>2, Zenon DEF Created
    <3>4. ASSUME Enforced(a, o)' PROVE FALSE
      BY <1>1, <1>4, <2>1, <3>1, <3>3, <3>4, EnforcedBefore, Zenon DEF Lonely
    <3> QED BY <2>1, <3>1, <3>4, Zenon
  <2>2. CASE ExpireOver
    <3>1. PICK a \in Alert, o \in Object : exp = <<a, o>>
      BY <1>1, <2>2 DEF ControlOK, ExpireOver
    <3>2. UNCHANGED <<clock, alerts, until, exp>>
      BY <2>2, Zenon DEF ExpireOver, Goto, lapiVars
    <3>3. DecisionExpiry(a, o) <= now
      BY <1>4, <2>2, <3>1, <3>2, Zenon DEF ExpireOver
    <3>4. until[a][o] <= clock
      BY <1>1, <3>3, PastIsOver, Zenon DEF ReadingsSafe
    <3>5. clock \in Nat /\ until[a][o] \in Nat
      BY <1>1, Zenon DEF TypeOK, LapiTypeOK
    <3>6. ~(until[a][o] > clock)
      BY <3>4, <3>5
    <3> QED BY <3>1, <3>2, <3>6, Zenon DEF Enforced
  <2>3. CASE ExpireDecision
    <3>1. PICK a \in Alert, o \in Object : exp = <<a, o>>
      BY <1>1, <2>3 DEF ControlOK, ExpireDecision
    <3>2. UNCHANGED <<clock, alerts, exp>> /\ expireDecision(a, o)
      BY <2>3, <3>1, Zenon DEF ExpireDecision, Goto
    <3>3. ASSUME Readable(a), o \in alerts[a].items PROVE until'[a][o] = clock
      BY <1>1, <3>2, <3>3, Zenon DEF expireDecision, TypeOK, LapiTypeOK
    <3>4. clock \in Nat
      BY <1>1, Zenon DEF TypeOK, LapiTypeOK
    <3>5. ~(clock > clock)
      BY <3>4
    <3> QED BY <3>1, <3>2, <3>3, <3>5, Zenon DEF Enforced, Readable
  <2> QED BY <1>1, <1>4, <2>1, <2>2, <2>3, MarkingBefore, Zenon
<1> QED BY <1>3, <1>4, Zenon DEF Lonely, Awaiting

\* What is planned to be renewed has run out.
RenewOver ==
    phase = "batch" =>
        \A o \in Object : todo[o] = "renew" => expires[act[o]][o] <= now

\* The batch loop starts with planning and plans nothing more.
LEMMA PlanBefore ==
    ASSUME TypeOK, ControlOK, [Next]_vars, phase' = "batch"
    PROVE  \/ Plan
           \/ /\ phase = "batch" /\ UNCHANGED <<act, now>>
              /\ \A o \in Object : todo'[o] = "renew" => todo[o] = "renew"
<1> DEFINE Same == phase' = phase /\ UNCHANGED <<act, now, todo>>
           Goal == \/ Plan
                   \/ /\ phase = "batch" /\ UNCHANGED <<act, now>>
                      /\ \A o \in Object : todo'[o] = "renew" => todo[o] = "renew"
<1>1. ASSUME Same PROVE Goal
  BY <1>1, Zenon
<1>2. ASSUME Return PROVE Goal
  BY <1>2, Zenon DEF Return
<1>3. ASSUME NEW ok, OperationDone(ok) PROVE Goal
  BY <1>1, <1>2, <1>3, Zenon DEF OperationDone
<1>4. ASSUME NEW ok, ExpireDone(ok) PROVE Goal
  BY <1>1, <1>3, <1>4, Zenon DEF ExpireDone
<1>5. CASE StartRun \/ Recover \/ Crash \/ PlanFails \/ RunDone
           \/ \E o \in Object : PlanExpireFails(o)
  <2>1. phase' \in {"none", "recover"}
    BY <1>5, Zenon
       DEF StartRun, Recover, Crash, PlanFails, RunDone, PlanExpireFails,
           ListEnforcementObjects, ReadOpenOperations, RecoverVerified,
           RecoverFound, RecoverUnproven, RecoverMissing, RecoverDone, Return,
           Goto, Pick, ControlOK
  <2> QED BY <2>1, Zenon
<1>6. CASE Environment \/ UNCHANGED vars
  BY <1>1, <1>6, Zenon DEF Environment, vars, localVars
<1>7. CASE NoLongerDesired \/ MarkAmbiguous \/ RecordFails \/ Finish
           \/ FinishFails
  BY <1>3, <1>7, Zenon
     DEF NoLongerDesired, MarkAmbiguous, RecordFails, Finish, FinishFails
<1>8. CASE ExpireUnproven \/ ExpireDecisionFails \/ MarkExpired
           \/ MarkExpiredFails
  BY <1>4, <1>8, Zenon
     DEF ExpireUnproven, ExpireDecisionFails, MarkExpired, MarkExpiredFails
<1>9. CASE CreateAlert \/ CreateAlertFails \/ GetAlertVerified
           \/ GetAlertFails \/ Record \/ ExpireOver \/ ExpireLive
           \/ ExpireDecision \/ \E o \in Object : FinishItem(o)
  <2>1. Same
    BY <1>9, Zenon
       DEF CreateAlert, CreateAlertFails, GetAlertVerified, GetAlertFails,
           Record, ExpireOver, ExpireLive, ExpireDecision, FinishItem, Goto
  <2> QED BY <1>1, <2>1, Zenon
<1>10. CASE BatchesDone
  BY <1>2, <1>10, Zenon DEF BatchesDone
<1>11. ASSUME NEW p \in Object, PlanExpires(p) \/ Remove(p) PROVE Goal
  BY <1>11, Zenon DEF PlanExpires, Remove, TypeOK, LocalTypeOK, ControlOK
<1>12. ASSUME NEW k \in {"create", "refresh"}, NEW f \in Feed,
              NEW b \in SUBSET Object,
              \/ BatchFails(k, f, b)
              \/ \E t \in Token : BatchBegins(k, f, b, t)
       PROVE  Goal
  BY <1>12, Zenon DEF BatchFails, BatchBegins, Dispatched, ControlOK
<1> QED
  BY <1>5, <1>6, <1>7, <1>8, <1>9, <1>10, <1>11, <1>12, Zenon
     DEF Next, RunStep, CreateForOperation, FinishVerified, ExpireOwned,
         PlanAndBatch

\* The expiry of what is to be renewed is not written again.
LEMMA RenewOverStep ==
    ASSUME TypeOK, ControlOK, PlanMatches, RenewOver, StoreEffect, [Next]_vars
    PROVE  RenewOver'
<1>1. CASE Plan
  <2>1. ASSUME NEW o \in Object, todo'[o] = "renew"
        PROVE  expires'[act'[o]][o] <= now'
    <3>1. /\ PlannedAction(o) = "renew" /\ act'[o] = ActiveAlert(o)
          /\ UNCHANGED <<expires, now>>
      BY <1>1, <2>1, Zenon DEF Plan, storeVars
    <3>2. RanOut(ActiveAlert(o), o)
      BY <3>1, Zenon DEF PlannedAction
    <3> QED BY <3>1, <3>2, Zenon DEF RanOut
  <2> QED BY <2>1, ZenonT(40) DEF RenewOver
<1>2. ASSUME phase' = "batch", phase = "batch", UNCHANGED <<act, now>>,
             NEW o \in Object, todo[o] = "renew"
      PROVE  expires'[act'[o]][o] <= now'
  <2>1. act[o] \in Alert
    BY <1>2, Zenon DEF PlanMatches, PlanNames
  <2>2. expires'[act[o]][o] = expires[act[o]][o]
    <3>1. ASSUME pc = "record", ops[cur].status \in Unverified,
                 o \in ops[cur].items
          PROVE  FALSE
      BY <1>2, <3>1, Zenon DEF PlanMatches, PlanNames, ControlOK
    <3> QED BY <2>1, <3>1, ZenonT(60) DEF StoreEffect
  <2> QED BY <1>2, <2>2, Zenon DEF RenewOver
<1> QED BY <1>1, <1>2, PlanBefore, Zenon DEF RenewOver

\* An end that has passed without being told stays noted: a row that is
\* closed is not written again.
LEMMA NotedStays ==
    ASSUME TypeOK, ControlOK, HandMatches, LedgerJournalled, StoreEffect,
           clock' = clock \/ clock' = clock + 1,
           NEW a \in Alert, NEW o \in Object, NotedOver(a, o)
    PROVE  NotedOver(a, o)'
<1>1. Remaining /\ status[a][o] = "expired" /\ expires[a][o] <= clock
  BY Zenon DEF NotedOver
<1>2. alerts[a].token \in Token /\ Recorded(alerts[a].token)
  BY <1>1, Zenon DEF LedgerJournalled
<1>3. ~(pc = "record" /\ ops[cur].status \in Unverified /\ a = got)
  BY <1>2, Zenon DEF HandMatches, Creating, Recorded, Unverified
<1>4. expires'[a][o] = expires[a][o]
  BY <1>3, Zenon DEF StoreEffect
<1>5. status'[a][o] = "expired"
  BY <1>1, Zenon DEF StoreEffect, Live
<1>6. clock \in Nat /\ expires[a][o] \in Nat
  BY Zenon DEF TypeOK, LapiTypeOK, StoreTypeOK
<1>7. expires[a][o] <= clock'
  BY <1>1, <1>6
<1> QED BY <1>1, <1>4, <1>5, <1>7, Zenon DEF NotedOver

\* A row that is closed because its end has passed was over, or its end had
\* been noted too early.
LEMMA RenewIsNoted ==
    ASSUME TypeOK, ControlOK, ReadingsSafe, Timely, RenewOver, StoreEffect,
           clock' = clock \/ clock' = clock + 1,
           NEW a \in Alert, NEW o \in Object, Enforced(a, o),
           status[a][o] \in Live, status'[a][o] \notin Live,
           pc = "batch", todo[o] = "renew", a = act[o]
    PROVE  NotedOver(a, o)'
<1>1. expires[a][o] <= now
  BY Zenon DEF RenewOver, ControlOK
<1>2. until[a][o] > clock
  BY Zenon DEF Enforced
<1>3. Remaining \/ until[a][o] <= clock \/ until[a][o] <= expires[a][o]
  BY Zenon DEF Timely
<1>4. /\ now \in Nat /\ clock \in Nat /\ until[a][o] \in Nat
      /\ expires[a][o] \in Nat
  BY Zenon DEF TypeOK, LapiTypeOK, StoreTypeOK, LocalTypeOK
<1>5. now <= clock
  BY Zenon DEF ReadingsSafe
<1>6. ~(until[a][o] <= clock) /\ ~(until[a][o] <= expires[a][o])
  BY <1>1, <1>2, <1>4, <1>5
<1>7. expires'[a][o] = expires[a][o] /\ status'[a][o] = "expired"
  BY Zenon DEF StoreEffect, Live
<1>8. expires[a][o] <= clock'
  BY <1>1, <1>4, <1>5
<1> QED BY <1>3, <1>6, <1>7, <1>8, Zenon DEF NotedOver

\* A decision of ours in force stays known: its operation is recorded with
\* the alert that was read, and its row is closed when it is over or its
\* noted end has passed.
LEMMA LedgerCompleteStep ==
    ASSUME ReplaceInv, ReadingsSafe, Timely, PostsApart, Lonely, RenewOver,
           LedgerComplete, ServerEffect(Requested), StoreEffect, [Next]_vars
    PROVE  LedgerComplete'
<1> USE DEF ReplaceInv
<1>1. TypeOK /\ ControlOK /\ HandMatches
  BY Zenon DEF IndInv, RunKnows
<1>2. SUFFICES ASSUME NEW a \in Alert, NEW o \in Object,
                      alerts'[a].state = "ours", ~alerts'[a].late,
                      Enforced(a, o)'
               PROVE  Known(a, o)'
  BY Zenon DEF LedgerComplete, InForce
<1>3. ASSUME NEW r \in Requested, Created(r, a)
      PROVE  ops'[alerts'[a].token].status \in Unverified
  <2>1. alerts'[a].token = r.token /\ ~r.late
    BY <1>2, <1>3 DEF Created
  <2>2. ops' = ops
    <3>1. alerts[a].state = "unused"
      BY <1>3, Zenon DEF Created
    <3>2. alerts' # alerts
      BY <1>2, <3>1, Zenon
    <3> QED BY <3>2, ServerOrStore, Zenon
  <2>3. ops[r.token].status \in Unverified
    BY <1>1, <2>1 DEF Requested, PostsApart, HandMatches, Creating, CreateRequest
  <2> QED BY <2>1, <2>2, <2>3, Zenon
<1>4. ASSUME alerts[a].state = "ours", Enforced(a, o), alerts'[a] = alerts[a]
      PROVE  Known(a, o)'
  <2>1. /\ alerts[a].token \in Token /\ alerts[a].items = ops[alerts[a].token].items
        /\ ops[alerts[a].token].status # "free"
    BY <1>4, Zenon DEF AlertsJournalled
  <2>2. clock' = clock \/ clock' = clock + 1
    BY Zenon DEF ServerEffect
  <2>3. CASE status[a][o] \in Live
    <3>1. CASE pc = "expmark" /\ exp = <<a, o>>
      BY <1>4, <3>1, Zenon DEF Lonely
    <3>2. CASE pc = "batch" /\ todo[o] = "renew" /\ a = act[o]
      BY <1>1, <1>4, <2>2, <2>3, <3>2, RenewIsNoted, Zenon DEF Known
    <3>3. \/ status'[a][o] = status[a][o]
          \/ status'[a][o] \in {"active", "expiring"}
          \/ pc = "expmark" /\ exp = <<a, o>>
          \/ pc = "batch" /\ todo[o] = "renew" /\ a = act[o]
      BY Zenon DEF StoreEffect
    <3> QED BY <2>3, <3>1, <3>2, <3>3, Zenon DEF Live, Known
  <2>4. CASE ops[alerts[a].token].status \in Unverified
    <3> SUFFICES ASSUME ops'[alerts[a].token].status \notin Unverified
                 PROVE  status'[a][o] \in Live
      BY <1>4, Zenon DEF Known
    <3>1. Moved(alerts[a].token)
      BY <2>1, <2>4, Zenon DEF StoreEffect, Begun, Unverified
    <3>2. alerts[a].token = cur /\ pc \in {"create", "record"}
      BY <2>4, <3>1, Zenon DEF Moved, Unverified, Recorded
    <3>3. pc = "record" /\ a = got
      BY <1>2, <1>4, <3>2, Zenon DEF Lonely, Awaiting
    <3>4. o \in ops[cur].items
      BY <1>4, <2>1, <3>2, Zenon DEF Enforced
    <3>5. status'[got][o] = "active"
      BY <2>4, <3>1, <3>2, <3>3, <3>4, Zenon DEF Moved, Unverified, Recorded
    <3> QED BY <3>3, <3>5, Zenon DEF Live
  <2>5. CASE NotedOver(a, o)
    BY <1>1, <2>2, <2>5, NotedStays, Zenon DEF Known
  <2> QED
    BY <1>2, <1>4, <2>3, <2>4, <2>5, Zenon DEF LedgerComplete, InForce, Known
<1>5. CASE \E r \in Requested : Created(r, a)
  BY <1>3, <1>5, Zenon DEF Known
<1> QED BY <1>1, <1>2, <1>4, <1>5, EnforcedBefore, Zenon

KnownInv ==
    /\ EnforceInv
    /\ Timely /\ PostsApart /\ Lonely /\ RenewOver /\ LedgerComplete

\* There is no alert and no request to begin with.
LEMMA KnownInit ==
    ASSUME Init
    PROVE  KnownInv
<1>1. EnforceInv
  BY EnforceInit, Zenon
<1>2. /\ pc = "idle" /\ phase = "none" /\ posts = {} /\ clock = 0
      /\ \A a \in Alert : alerts[a].state = "unused" /\ alerts[a].made = 0
      /\ \A a \in Alert, o \in Object : until[a][o] = 0
  BY Zenon DEF Init, LapiInit, LocalInit
<1>3. Timely
  <2>1. \A a \in Alert : alerts[a].made <= clock
    BY <1>2
  <2>2. \A a \in Alert, o \in Object : until[a][o] <= clock
    BY <1>2
  <2> QED BY <1>2, <2>1, <2>2, Zenon DEF Timely
<1>4. PostsApart /\ Lonely /\ RenewOver
  BY <1>2, Zenon DEF PostsApart, Lonely, RenewOver, Awaiting
<1>5. LedgerComplete
  BY <1>2, Zenon DEF LedgerComplete, InForce
<1> QED BY <1>1, <1>3, <1>4, <1>5, Zenon DEF KnownInv

\* Every step keeps all of it.
LEMMA KnownStep ==
    ASSUME Duration <= Window, KnownInv, [Next]_vars
    PROVE  KnownInv'
<1> USE DEF KnownInv
<1>1. ReplaceInv /\ ReadingsSafe
  BY Zenon DEF EnforceInv
<1>2. TypeOK /\ ControlOK /\ PlanMatches /\ PlanNames
  BY <1>1, Zenon DEF ReplaceInv, IndInv, PlanMatches
<1>3. EnforceInv'
  BY EnforceStep, Zenon
<1>4. TypeOK'
  BY <1>3, Zenon DEF EnforceInv, ReplaceInv, IndInv
<1>5. ServerEffect(Requested) /\ StoreEffect
  BY <1>2, ServerStep, StoreStep, Zenon
<1>6. Timely' /\ PostsApart'
  BY <1>1, <1>4, <1>5, TimelyStep, PostsApartStep, Zenon
<1>7. Lonely'
  BY <1>1, <1>4, <1>5, LonelyStep, Zenon
<1>8. RenewOver'
  BY <1>2, <1>5, RenewOverStep, Zenon
<1>9. LedgerComplete'
  BY <1>1, <1>5, LedgerCompleteStep, Zenon
<1> QED BY <1>3, <1>6, <1>7, <1>8, <1>9, Zenon

\* As long as the search window covers a decision's duration, no decision of
\* ours that is in force is ever unknown: the ledger has it, or an unverified
\* operation carries its token, or the end that was noted for it has passed.
\* The last can happen only with a server that reports remaining durations.
\* Requests of earlier Runs may arrive at any time; the one exception is an
\* alert whose creation arrived after recover had searched for it.
THEOREM LedgerKnowsAll ==
    ASSUME Duration <= Window
    PROVE  Spec => []LedgerComplete
<1>1. Init => KnownInv
  BY KnownInit, Zenon
<1>2. KnownInv /\ [Next]_vars => KnownInv'
  BY KnownStep, Zenon
<1>3. KnownInv => LedgerComplete
  BY Zenon DEF KnownInv
<1> QED BY <1>1, <1>2, <1>3, PTL DEF Spec

-----------------------------------------------------------------------------
(* A successful Run leaves nothing open.                                   *)

\* A Run without an error has no open operation but the one in hand, and none
\* in the removal loop.
BatchesClean ==
    phase \in {"batch", "remove"} /\ ~err =>
        /\ \A t \in Token : ops[t].status \in Open => t = cur
        /\ phase = "remove" => cur = NoToken

\* An operation of the batch loop is completed or given up before the next
\* one begins.
LEMMA BatchesCleanStep ==
    ASSUME ReplaceInv, BatchesClean, [Next]_vars
    PROVE  BatchesClean'
<1> USE DEF ReplaceInv
<1>1. TypeOK /\ ControlOK /\ StoreTypeOK
  BY Zenon DEF IndInv, TypeOK
<1>2. SUFFICES ASSUME phase' \in {"batch", "remove"}, ~err'
               PROVE  /\ \A t \in Token : ops'[t].status \in Open => t = cur'
                      /\ phase' = "remove" => cur' = NoToken
  BY Zenon DEF BatchesClean
<1>3. CASE Plan
  <2>1. /\ pc = "plan" /\ phase = "recover" /\ cur = NoToken /\ left = NoOps
        /\ phase' = "batch" /\ UNCHANGED <<ops, cur>>
    BY <1>1, <1>3, Zenon DEF Plan, ControlOK, storeVars, IndInv, RecoverKnowsOpen
  <2>2. \A t \in Token : left[t] = "none"
    BY <2>1, Zenon DEF NoOps
  <2>3. \A t \in Token : ops[t].status \notin Open
    BY <2>1, <2>2, LapiAssumption, Zenon DEF RunKnows, RecoverMatches
  <2> QED BY <2>1, <2>3, Zenon
<1>4. ASSUME phase \in {"batch", "remove"}, ~err, UNCHANGED <<ops, cur, phase>>
      PROVE  /\ \A t \in Token : ops'[t].status \in Open => t = cur'
             /\ phase' = "remove" => cur' = NoToken
  BY <1>4, Zenon DEF BatchesClean
<1>5. ASSUME phase \in {"batch", "remove"}, ~err, cur \in Token,
             phase' # "remove", ops'[cur].status \notin Open,
             \A u \in Token \ {cur} : ops'[u] = ops[u]
      PROVE  /\ \A t \in Token : ops'[t].status \in Open => t = cur'
             /\ phase' = "remove" => cur' = NoToken
  <2>1. \A t \in Token : ops[t].status \in Open => t = cur
    BY <1>5, Zenon DEF BatchesClean
  <2> QED BY <1>5, <2>1, Zenon
<1>6. ASSUME phase \in {"batch", "remove"}, ~err
      PROVE  \/ Plan
             \/ /\ \A t \in Token : ops'[t].status \in Open => t = cur'
                /\ phase' = "remove" => cur' = NoToken
  <2>1. CASE Quiet
    BY <1>4, <1>6, <2>1, Zenon DEF Quiet
  <2>2. ASSUME NEW k \in {"create", "refresh"}, NEW f \in Feed,
               NEW b \in SUBSET Object, NEW t \in Token, BatchBegins(k, f, b, t)
        PROVE  /\ \A u \in Token : ops'[u].status \in Open => u = cur'
               /\ phase' = "remove" => cur' = NoToken
    <3>1. phase' = "batch" /\ cur' = t /\ cur = NoToken
      BY <1>1, <2>2, Zenon DEF BatchBegins, ControlOK
    <3>2. \A u \in Token \ {t} : ops'[u] = ops[u]
      BY <1>1, <2>2, Zenon DEF BatchBegins, BeginOperation, StoreTypeOK
    <3>3. \A u \in Token : ops[u].status \notin Open
      BY <1>6, <3>1, LapiAssumption, Zenon DEF BatchesClean
    <3> QED BY <3>1, <3>2, <3>3, Zenon
  <2>3. ASSUME NEW o \in Object, PlanExpires(o) \/ Remove(o) \/ FinishItem(o)
        PROVE  UNCHANGED <<ops, cur, phase>>
    BY <2>3, Zenon DEF PlanExpires, Remove, FinishItem, storeVars
  <2>4. CASE NoLongerDesired
    <3>1. cur \in Token /\ phase = "batch"
      BY <1>1, <1>6, <2>4, Zenon DEF NoLongerDesired, ControlOK
    <3>2. /\ ops' = [ops EXCEPT ![cur].status = "failed"] /\ phase' = phase
      BY <1>2, <2>4, <3>1, Zenon
         DEF NoLongerDesired, OperationDone, SetOperationStatus
    <3>3. /\ ops'[cur].status = "failed"
          /\ \A u \in Token \ {cur} : ops'[u] = ops[u]
      BY <1>1, <3>1, <3>2, StatusMove, Zenon
    <3> QED BY <1>5, <1>6, <3>1, <3>2, <3>3, Zenon DEF Open, Unverified
  <2>5. CASE Record
    <3>1. cur \in Token /\ cur' = cur /\ phase' = phase /\ phase = "batch"
      BY <1>1, <1>6, <2>5, Zenon DEF Record, ControlOK
    <3>2. \A u \in Token \ {cur} : ops'[u] = ops[u]
      BY <1>1, <2>5, <3>1, StatusMove, Zenon
         DEF Record, RecordVerifiedOperation
    <3>3. \A t \in Token : ops[t].status \in Open => t = cur
      BY <1>6, Zenon DEF BatchesClean
    <3> QED BY <3>1, <3>2, <3>3, Zenon
  <2>6. CASE Finish
    <3>1. cur \in Token /\ phase = "batch"
      BY <1>1, <1>6, <2>6, Zenon DEF Finish, ControlOK
    <3>2. ops' = [ops EXCEPT ![cur].status = "completed"] /\ phase' = phase
      BY <2>6, <3>1, Zenon DEF Finish, OperationDone, CompleteOperation
    <3>3. /\ ops'[cur].status = "completed"
          /\ \A u \in Token \ {cur} : ops'[u] = ops[u]
      BY <1>1, <3>1, <3>2, StatusMove, Zenon
    <3> QED BY <1>5, <1>6, <3>1, <3>2, <3>3, Zenon DEF Open, Unverified
  <2>7. CASE MarkExpired
    <3>1. UNCHANGED <<ops, cur, phase>>
      BY <2>7, Zenon DEF MarkExpired, ExpireDone
    <3> QED BY <1>4, <1>6, <3>1, Zenon
  <2>8. CASE BatchesDone
    <3>1. UNCHANGED <<ops, cur>> /\ cur = NoToken
      BY <1>1, <1>6, <2>8, Zenon DEF BatchesDone, ControlOK, storeVars
    <3>2. \A t \in Token : ops[t].status \in Open => t = cur
      BY <1>6, Zenon DEF BatchesClean
    <3> QED BY <3>1, <3>2, Zenon
  <2> QED
    BY <1>1, <1>2, <1>4, <1>6, <2>1, <2>2, <2>3, <2>4, <2>5, <2>6, <2>7, <2>8,
       LoopBefore, Zenon
<1> QED BY <1>1, <1>2, <1>3, <1>6, LoopBefore, Zenon

\* A decision that is being replaced belongs to a verified operation, which
\* still has to expire it or is doing so.
ExpiringOwned ==
    /\ \A a \in Alert, o \in Object : status[a][o] = "expiring" =>
        \E t \in Token : /\ ops[t].status = "verified"
                         /\ o \in Replaced(t) /\ ops[t].old[o] = a
    /\ Finishing =>
        \A o \in Replaced(cur) \ items :
            status[ops[cur].old[o]][o] \in Live => Expiring /\ o = exp[2]

\* finishVerified completes an operation after its last item.
LEMMA CompletesLast ==
    ASSUME [Next]_vars, pc = "finish"
    PROVE  ops' = ops \/ items = {}
<1>1. CASE Finish
  BY <1>1, Zenon DEF Finish
<1>2. CASE FinishFails \/ Crash \/ Environment \/ UNCHANGED vars
           \/ \E o \in Object : FinishItem(o)
  BY <1>2, Zenon
     DEF FinishFails, Crash, Environment, vars, FinishItem, storeVars
<1>3. ~(StartRun \/ Recover \/ CreateForOperation \/ ExpireOwned \/ PlanAndBatch)
  <2>1. ~(StartRun \/ Recover \/ CreateForOperation \/ ExpireOwned)
    BY Zenon
       DEF StartRun, Recover, ListEnforcementObjects, ReadOpenOperations,
           RecoverVerified, RecoverFound, RecoverUnproven, RecoverMissing,
           RecoverDone, Pick, CreateForOperation, NoLongerDesired, CreateAlert,
           CreateAlertFails, GetAlertVerified, GetAlertFails, MarkAmbiguous,
           Record, RecordFails, ExpireOwned, ExpireOver, ExpireLive,
           ExpireUnproven, ExpireDecision, ExpireDecisionFails, MarkExpired,
           MarkExpiredFails
  <2>2. ~PlanAndBatch
    <3>1. ~(Plan \/ PlanFails \/ BatchesDone \/ RunDone)
      BY Zenon DEF Plan, PlanFails, BatchesDone, RunDone
    <3>2. ASSUME NEW o \in Object
          PROVE  ~(PlanExpires(o) \/ PlanExpireFails(o) \/ Remove(o))
      BY Zenon DEF PlanExpires, PlanExpireFails, Remove
    <3>3. ASSUME NEW k \in {"create", "refresh"}, NEW f \in Feed,
                 NEW b \in SUBSET Object
          PROVE  /\ ~BatchFails(k, f, b)
                 /\ \A t \in Token : ~BatchBegins(k, f, b, t)
      BY Zenon DEF BatchBegins, BatchFails
    <3> QED BY <3>1, <3>2, <3>3, Zenon DEF PlanAndBatch
  <2> QED BY <2>1, <2>2, Zenon
<1> QED BY <1>1, <1>2, <1>3, Zenon DEF Next, RunStep, FinishVerified

\* Where a Run that is inside finishVerified comes from.
LEMMA FinishingBefore ==
    ASSUME TypeOK, ControlOK, [Next]_vars, Finishing'
    PROVE  \/ \E t \in Token : RecoverVerified(t)
           \/ Record
           \/ \E o \in Object : FinishItem(o)
           \/ MarkExpired /\ Finishing /\ Expiring
           \/ /\ Finishing /\ (Expiring' <=> Expiring)
              /\ UNCHANGED <<cur, items, exp>>
<1> DEFINE Same == /\ Finishing /\ (Expiring' <=> Expiring)
                   /\ UNCHANGED <<cur, items, exp>>
<1> USE DEF Finishing, Expiring
<1>1. ASSUME Return PROVE FALSE
  BY <1>1, Zenon DEF Return
<1>2. ASSUME NEW ok, OperationDone(ok) PROVE FALSE
  BY <1>1, <1>2, Zenon DEF OperationDone, TypeOK, LocalTypeOK
<1>3. ASSUME ExpireDone(FALSE) PROVE FALSE
  BY <1>2, <1>3, Zenon DEF ExpireDone
<1>4. CASE Environment \/ UNCHANGED vars
  BY <1>4, Zenon DEF Environment, vars, localVars
<1>5. CASE StartRun \/ ListEnforcementObjects \/ ReadOpenOperations
           \/ RecoverDone \/ \E t \in Token : RecoverFound(t)
                                              \/ RecoverMissing(t)
  BY <1>5, Zenon
     DEF StartRun, ListEnforcementObjects, ReadOpenOperations, RecoverDone,
         RecoverFound, RecoverMissing, Goto
<1>6. CASE \/ PlanFails \/ RunDone \/ Crash
           \/ \E t \in Token : RecoverUnproven(t)
           \/ \E o \in Object : PlanExpireFails(o)
  BY <1>1, <1>6, Zenon
     DEF PlanFails, RunDone, Crash, RecoverUnproven, PlanExpireFails
<1>7. CASE NoLongerDesired \/ MarkAmbiguous \/ RecordFails \/ Finish
           \/ FinishFails
  BY <1>2, <1>7, Zenon
     DEF NoLongerDesired, MarkAmbiguous, RecordFails, Finish, FinishFails
<1>8. CASE ExpireUnproven \/ ExpireDecisionFails \/ MarkExpiredFails
  BY <1>3, <1>8, Zenon
     DEF ExpireUnproven, ExpireDecisionFails, MarkExpiredFails
<1>9. CASE MarkExpired
  <2>1. phase # "remove"
    BY <1>9, Zenon DEF MarkExpired, ExpireDone
  <2> QED BY <1>9, <2>1, Zenon DEF MarkExpired
<1>10. CASE CreateAlert \/ CreateAlertFails \/ GetAlertVerified
            \/ GetAlertFails
  BY <1>10, Zenon
     DEF CreateAlert, CreateAlertFails, GetAlertVerified, GetAlertFails, Goto
<1>11. CASE ExpireOver \/ ExpireLive \/ ExpireDecision
  BY <1>11, Zenon DEF ExpireOver, ExpireLive, ExpireDecision, Goto
<1>12. CASE Plan \/ BatchesDone \/ \E o \in Object : PlanExpires(o) \/ Remove(o)
  BY <1>1, <1>12, Zenon DEF Plan, BatchesDone, PlanExpires, Remove, ControlOK
<1>13. ASSUME NEW k \in {"create", "refresh"}, NEW f \in Feed,
              NEW b \in SUBSET Object,
              \/ BatchFails(k, f, b)
              \/ \E t \in Token : BatchBegins(k, f, b, t)
       PROVE  FALSE
  BY <1>13, Zenon DEF BatchFails, BatchBegins
<1> HIDE DEF Finishing, Expiring
<1> QED
  BY <1>4, <1>5, <1>6, <1>7, <1>8, <1>9, <1>10, <1>11, <1>12, <1>13, Zenon
     DEF Next, RunStep, Recover, CreateForOperation, FinishVerified,
         ExpireOwned, PlanAndBatch

\* A replaced decision is marked before its operation is completed.
LEMMA ExpiringOwnedStep ==
    ASSUME ReplaceInv, ExpiringOwned, Keeps, StoreEffect, [Next]_vars
    PROVE  ExpiringOwned'
<1> USE DEF ReplaceInv
<1>1. TypeOK /\ ControlOK /\ HandMatches
  BY Zenon DEF IndInv, RunKnows
<1>2. ASSUME NEW t \in Token, ops[t].status # "free"
      PROVE  /\ Replaced(t)' = Replaced(t) /\ ops'[t].old = ops[t].old
             /\ ops'[t].items = ops[t].items
  BY <1>2, Zenon DEF Keeps, Replaced
<1>3. ASSUME NEW a \in Alert, NEW o \in Object, status'[a][o] = "expiring"
      PROVE  \E t \in Token : /\ ops'[t].status = "verified"
                              /\ o \in Replaced(t)' /\ ops'[t].old[o] = a
  <2>1. CASE status[a][o] # "expiring"
    <3>1. /\ pc = "record" /\ ops'[cur].status = "verified"
          /\ ops[cur].status \in Unverified
          /\ o \in ops[cur].items /\ a = ops[cur].old[o]
      BY <1>3, <2>1, Zenon DEF StoreEffect
    <3>2. cur \in Token /\ ops[cur].status # "free"
      BY <1>1, <3>1, Zenon DEF ControlOK, Unverified
    <3>3. o \in Replaced(cur)
      BY <3>1 DEF Replaced, Alert, NoAlert
    <3> QED BY <1>2, <3>1, <3>2, <3>3, Zenon
  <2>2. CASE status[a][o] = "expiring"
    <3>1. PICK t \in Token : /\ ops[t].status = "verified"
                             /\ o \in Replaced(t) /\ ops[t].old[o] = a
      BY <2>2, Zenon DEF ExpiringOwned
    <3>2. ops'[t].status = "verified"
      <4>1. CASE Moved(t)
        <5>1. pc = "finish" /\ t = cur /\ ops'[t].status = "completed"
          BY <3>1, <4>1, Zenon DEF Moved, Unverified
        <5>2. items = {}
          BY <3>1, <5>1, CompletesLast, Zenon
        <5>3. o \in Replaced(cur) \ items /\ status[ops[cur].old[o]][o] \in Live
          BY <2>2, <3>1, <5>1, <5>2, Zenon DEF Live
        <5>4. Finishing /\ ~Expiring
          BY <5>1, Zenon DEF Finishing, Expiring
        <5> QED BY <5>3, <5>4, Zenon DEF ExpiringOwned
      <4> QED BY <3>1, <4>1, Zenon DEF StoreEffect, Begun
    <3> QED BY <1>2, <3>1, <3>2, Zenon
  <2> QED BY <2>1, <2>2, Zenon
<1>4. ASSUME Finishing', NEW o \in Replaced(cur)', o \notin items',
             status'[ops'[cur'].old[o]][o] \in Live
      PROVE  Expiring' /\ o = exp'[2]
  <2>1. ASSUME cur' = cur, cur \in Token, ops[cur].status # "free"
        PROVE  o \in Replaced(cur) /\ ops'[cur'].old[o] = ops[cur].old[o]
    <3>1. Replaced(cur)' = Replaced(cur)
      BY <1>2, <2>1, ZenonT(40) DEF Replaced
    <3> QED BY <1>2, <1>4, <2>1, <3>1, Zenon
  <2>2. ASSUME NEW t \in Token, RecoverVerified(t) PROVE FALSE
    <3>1. items' = Replaced(t) /\ cur' = t /\ ops' = ops
      BY <2>2, Zenon DEF RecoverVerified, storeVars
    <3> QED BY <1>4, <3>1, Zenon DEF Replaced
  <2>3. CASE Record
    <3>1. /\ items' = Replaced(cur) /\ cur' = cur /\ cur \in Token
          /\ ops[cur].status # "free"
      BY <1>1, <2>3, Zenon
         DEF Record, ControlOK, HandMatches, Creating, Unverified
    <3> QED BY <1>4, <2>1, <3>1, Zenon
  <2>4. ASSUME Finishing, cur' = cur
        PROVE  /\ cur \in Token /\ ops[cur].status # "free" /\ pc # "record"
               /\ o \in Replaced(cur) /\ ops'[cur'].old[o] = ops[cur].old[o]
               /\ o \in Object /\ ops[cur].old[o] \in Alert
    <3>1. cur \in Token /\ pc # "record" /\ ops[cur].status = "verified"
      BY <1>1, <2>4, Zenon DEF ControlOK, Finishing, Expiring, HandMatches
    <3>2. o \in Replaced(cur) /\ ops'[cur'].old[o] = ops[cur].old[o]
      BY <2>1, <2>4, <3>1, Zenon
    <3> QED BY <1>1, <3>1, <3>2, OldIsAlert, Zenon
  <2>5. ASSUME Finishing, cur' = cur
        PROVE  status[ops[cur].old[o]][o] \in Live
    <3> DEFINE b == ops[cur].old[o]
    <3>1. b \in Alert /\ o \in Object /\ pc # "record"
      BY <2>4, <2>5, Zenon
    <3>2. status'[b][o] \in Live
      BY <1>4, <2>4, <2>5, Zenon
    <3>3. status'[b][o] = status[b][o] \/ status[b][o] \in Live
      BY <3>1, Zenon DEF StoreEffect
    <3> QED BY <3>2, <3>3, Zenon
  <2>6. CASE Finishing /\ (Expiring' <=> Expiring) /\ UNCHANGED <<cur, items, exp>>
    BY <1>4, <2>4, <2>5, <2>6, Zenon DEF ExpiringOwned
  <2>7. ASSUME NEW p \in Object, FinishItem(p)
        PROVE  Expiring' /\ o = exp'[2]
    <3>1. /\ pc = "finish" /\ cur' = cur /\ items' = items \ {p}
          /\ Finishing /\ ~Expiring
      BY <2>7, Zenon DEF FinishItem, Finishing, Expiring
    <3>2. o = p
      BY <1>4, <2>4, <2>5, <3>1, Zenon DEF ExpiringOwned
    <3>3. exp' = <<ops[cur].old[p], p>> /\ pc' = "expget"
      BY <2>5, <2>7, <3>1, <3>2, Zenon DEF FinishItem
    <3> QED BY <3>2, <3>3, Zenon DEF Expiring
  <2>8. CASE MarkExpired /\ Finishing /\ Expiring
    <3>1. /\ cur' = cur /\ items' = items
          /\ MarkDecisionExpired(exp[1], exp[2])
      BY <1>4, <2>8, Zenon
         DEF MarkExpired, ExpireDone, OperationDone, Finishing, Expiring, Return,
             TypeOK, LocalTypeOK
    <3>2. o = exp[2]
      BY <1>4, <2>4, <2>5, <2>8, <3>1, Zenon DEF ExpiringOwned
    <3>3. phase # "remove"
      BY <2>8, Zenon DEF Finishing, Expiring
    <3>4. exp[1] = ops[cur].old[o]
      BY <1>1, <2>8, <3>2, <3>3, Zenon DEF HandMatches
    <3>5. status'[ops[cur].old[o]][o] = "expired"
      BY <1>1, <2>4, <2>8, <3>1, <3>2, <3>4, Zenon
         DEF MarkDecisionExpired, TypeOK, StoreTypeOK
    <3> QED BY <1>4, <2>4, <2>8, <3>1, <3>5, Zenon DEF Live
  <2> QED BY <1>1, <1>4, <2>2, <2>3, <2>6, <2>7, <2>8, FinishingBefore, Zenon
<1>5. Finishing' => \A o \in Replaced(cur)' \ items' :
            status'[ops'[cur'].old[o]][o] \in Live => Expiring' /\ o = exp'[2]
  BY <1>4, Zenon
<1> QED BY <1>3, <1>5, Zenon DEF ExpiringOwned

\* An active decision that the Run does not want is planned for removal or
\* is being removed.
RemovalsLeft ==
    phase \in {"batch", "remove"} /\ ~err =>
        \A a \in Alert, o \in Object :
            ~snap[o].desired /\ status[a][o] = "active" =>
                \/ todo[o] = "remove" /\ act[o] = a
                \/ phase = "remove" /\ Expiring /\ exp = <<a, o>>

\* No removal is forgotten.
LEMMA RemovalsLeftStep ==
    ASSUME ReplaceInv, BatchWanted, RemovalsLeft, StoreEffect, [Next]_vars
    PROVE  RemovalsLeft'
<1> USE DEF ReplaceInv
<1>1. TypeOK /\ ControlOK /\ OneActive
  BY Zenon DEF IndInv
<1>2. SUFFICES ASSUME phase' \in {"batch", "remove"}, ~err',
                      NEW a \in Alert, NEW o \in Object,
                      ~snap'[o].desired, status'[a][o] = "active"
               PROVE  \/ todo'[o] = "remove" /\ act'[o] = a
                      \/ phase' = "remove" /\ Expiring' /\ exp' = <<a, o>>
  BY Zenon DEF RemovalsLeft
<1> DEFINE Goal == \/ todo'[o] = "remove" /\ act'[o] = a
                   \/ phase' = "remove" /\ Expiring' /\ exp' = <<a, o>>
<1>3. CASE Plan
  <2>1. /\ todo'[o] = PlannedAction(o) /\ act'[o] = ActiveAlert(o)
        /\ UNCHANGED <<snap, status>>
    BY <1>3, Zenon DEF Plan, storeVars
  <2>2. a \in Active(o)
    BY <1>2, <2>1, Zenon DEF Active
  <2>3. ActiveAlert(o) \in Active(o)
    BY <2>2, Zenon DEF ActiveAlert
  <2>4. ActiveAlert(o) = a
    BY <1>1, <2>2, <2>3, Zenon DEF OneActive, Active
  <2>5. a # NoAlert
    BY DEF Alert, NoAlert
  <2>6. PlannedAction(o) = "remove"
    BY <1>2, <2>1, <2>4, <2>5, Zenon DEF PlannedAction
  <2> QED BY <2>1, <2>4, <2>6, Zenon
<1>4. ASSUME phase \in {"batch", "remove"}, ~err, UNCHANGED <<now, snap, act>>
      PROVE  Plan \/ Goal
  <2>1. status[a][o] = "active"
    <3>1. ASSUME pc = "record", o \in ops[cur].items PROVE FALSE
      <4>1. phase = "batch" /\ Creating
        BY <1>1, <1>4, <3>1, Zenon DEF ControlOK, Creating
      <4> QED BY <1>2, <1>4, <3>1, <4>1, Zenon DEF BatchWanted
    <3> QED BY <1>2, <3>1, Zenon DEF StoreEffect
  <2>2. \/ todo[o] = "remove" /\ act[o] = a
        \/ phase = "remove" /\ Expiring /\ exp = <<a, o>>
    BY <1>2, <1>4, <2>1, Zenon DEF RemovalsLeft
  <2>3. CASE Quiet
    BY <2>2, <2>3, Zenon DEF Quiet
  <2>4. ASSUME NEW k \in {"create", "refresh"}, NEW f \in Feed,
               NEW b \in SUBSET Object, NEW t \in Token, BatchBegins(k, f, b, t)
        PROVE  Goal
    <3>1. ~Expiring /\ (todo[o] = "remove" => todo'[o] = "remove")
      BY <2>4, Zenon DEF BatchBegins, IsBatch, Group, Dispatched, Expiring
    <3> QED BY <1>4, <2>2, <3>1, Zenon
  <2>5. ASSUME NEW p \in Object, PlanExpires(p) PROVE Goal
    <3>1. ~Expiring /\ (todo[o] = "remove" => todo'[o] = "remove")
      BY <1>1, <2>5, Zenon DEF PlanExpires, Expiring, TypeOK, LocalTypeOK
    <3> QED BY <1>4, <2>2, <3>1, Zenon
  <2>6. ASSUME NEW p \in Object, Remove(p) PROVE Goal
    <3>1. /\ ~Expiring /\ phase' = "remove" /\ Expiring'
          /\ p # o => todo'[o] = todo[o]
          /\ p = o => exp' = <<act[o], o>>
      BY <1>1, <2>6, Zenon DEF Remove, Expiring, ControlOK, TypeOK, LocalTypeOK
    <3> QED BY <1>4, <2>2, <3>1, Zenon
  <2>7. CASE \/ NoLongerDesired \/ Record \/ Finish \/ BatchesDone
             \/ \E p \in Object : FinishItem(p)
    <3>1. ~Expiring
      BY <2>7, Zenon
         DEF NoLongerDesired, Record, Finish, BatchesDone, FinishItem, Expiring
    <3>2. todo' = todo
      <4>1. CASE BatchesDone
        BY <1>4, <4>1, Zenon DEF BatchesDone
      <4>2. ASSUME NEW ok, OperationDone(ok) PROVE todo' = todo
        BY <1>4, <4>2, Zenon DEF OperationDone
      <4>3. CASE NoLongerDesired \/ Finish
        BY <4>2, <4>3, Zenon DEF NoLongerDesired, Finish
      <4>4. CASE Record \/ \E p \in Object : FinishItem(p)
        BY <4>4, Zenon DEF Record, FinishItem
      <4> QED BY <2>7, <4>1, <4>3, <4>4, Zenon
    <3> QED BY <1>4, <2>2, <3>1, <3>2, Zenon
  <2>8. CASE MarkExpired
    <3>1. todo' = todo
      BY <2>8, Zenon DEF MarkExpired, ExpireDone
    <3>2. ASSUME exp = <<a, o>> PROVE FALSE
      <4>1. status'[a][o] = "expired"
        BY <1>1, <2>8, <3>2, Zenon
           DEF MarkExpired, MarkDecisionExpired, TypeOK, StoreTypeOK
      <4> QED BY <1>2, <4>1, Zenon
    <3> QED BY <1>4, <2>2, <3>1, <3>2, Zenon
  <2> QED
    BY <1>1, <1>2, <2>3, <2>4, <2>5, <2>6, <2>7, <2>8, LoopBefore, Zenon
<1> QED BY <1>1, <1>2, <1>3, <1>4, LoopBefore, Zenon

RevokeInv ==
    /\ KnownInv
    /\ BatchesClean /\ ExpiringOwned /\ RemovalsLeft

\* Nothing is open, replaced or planned to begin with.
LEMMA RevokeInit ==
    ASSUME Init
    PROVE  RevokeInv
<1>1. KnownInv
  BY KnownInit, Zenon
<1>2. /\ pc = "idle" /\ phase = "none"
      /\ \A a \in Alert, o \in Object : status[a][o] = "none"
  BY Zenon DEF Init, StoreInit, LocalInit
<1> QED
  BY <1>1, <1>2, Zenon
     DEF RevokeInv, BatchesClean, ExpiringOwned, RemovalsLeft, Finishing,
         Expiring

\* Every step keeps it.
LEMMA RevokeStep ==
    ASSUME Duration <= Window, RevokeInv, [Next]_vars
    PROVE  RevokeInv'
<1> USE DEF RevokeInv
<1>1. ReplaceInv /\ BatchWanted
  BY Zenon DEF KnownInv, EnforceInv
<1>2. TypeOK /\ ControlOK /\ PlanNames /\ AlertsJournalled
  BY <1>1, Zenon DEF ReplaceInv, IndInv, PlanMatches
<1>3. KnownInv'
  BY KnownStep, Zenon
<1>4. ServerEffect(Requested) /\ StoreEffect
  BY <1>2, ServerStep, StoreStep, Zenon
<1>5. Keeps
  BY <1>2, <1>4, KeepsStep, Zenon
<1>6. BatchesClean' /\ ExpiringOwned' /\ RemovalsLeft'
  BY <1>1, <1>4, <1>5, BatchesCleanStep, ExpiringOwnedStep, RemovalsLeftStep, Zenon
<1> QED BY <1>3, <1>6, Zenon

\* As long as the search window covers a decision's duration, when a Run
\* reports success nothing of ours is in force for an object that it does not
\* want, except an alert that was created after recover had searched for it
\* and, with a server that reports remaining durations, a decision whose noted
\* end has passed.
THEOREM RunsRevoke ==
    ASSUME Duration <= Window
    PROVE  Spec => []RunRevokes
<1>1. ASSUME RevokeInv PROVE RunRevokes
  <2> USE <1>1 DEF RevokeInv
  <2>1. SUFFICES ASSUME RunSucceeded, NEW a \in Alert, NEW o \in Object,
                        ~snap[o].desired, InForce(a, o), ~alerts[a].late,
                        ~NotedOver(a, o)
                 PROVE  FALSE
    BY Zenon DEF RunRevokes
  <2>2. pc = "remove" /\ phase = "remove" /\ ~err /\ todo[o] = "none"
    BY <2>1, Zenon
       DEF RunSucceeded, NoAction, KnownInv, EnforceInv, ReplaceInv, IndInv,
           ControlOK
  <2>3. \A t \in Token : ops[t].status \notin Open
    BY <2>2, LapiAssumption, Zenon DEF BatchesClean
  <2>4. alerts[a].token \in Token
    BY <2>1, Zenon
       DEF InForce, KnownInv, EnforceInv, ReplaceInv, AlertsJournalled
  <2>5. status[a][o] \in Live
    BY <2>1, <2>3, <2>4, Zenon DEF KnownInv, LedgerComplete, Known, Open
  <2>6. CASE status[a][o] = "active"
    BY <2>1, <2>2, <2>6, Zenon DEF RemovalsLeft, Expiring
  <2>7. CASE status[a][o] = "expiring"
    BY <2>3, <2>7 DEF ExpiringOwned, Open
  <2> QED BY <2>5, <2>6, <2>7, Zenon DEF Live
<1>2. Init => RevokeInv
  BY RevokeInit, Zenon
<1>3. RevokeInv /\ [Next]_vars => RevokeInv'
  BY RevokeStep, Zenon
<1> QED BY <1>1, <1>2, <1>3, PTL DEF Spec

-----------------------------------------------------------------------------
(* What a DELETE may end.                                                  *)

Over(a, o) == alerts[a].state = "gone" \/ until[a][o] <= clock

\* Of an object that every plan wants, what expireOwned is about to mark is
\* over; so is what was marked while an older DELETE is still on its way.
MarkedOver ==
    /\ pc = "expmark" /\ Steady(exp[2]) => Over(exp[1], exp[2])
    /\ \A d \in deletes : Steady(d[2]) /\ status[d[1]][d[2]] = "expired"
            => Over(d[1], d[2])

\* An end that has passed, kept or moved to the current time, has passed at
\* every later time.
LEMMA StillPast ==
    ASSUME NEW u \in Nat, NEW v \in Nat, NEW c \in Nat, NEW d \in Nat,
           c <= d, u <= c, v = u \/ v = c
    PROVE  v <= d
  OBVIOUS

\* A decision that is over stays over.
LEMMA OverStays ==
    ASSUME TypeOK, TypeOK', ServerEffect(Requested),
           NEW a \in Alert, NEW o \in Object, alerts[a].state # "unused",
           Over(a, o)
    PROVE  Over(a, o)'
<1>1. /\ clock \in Nat /\ clock' \in Nat /\ clock <= clock'
      /\ until[a][o] \in Nat /\ until'[a][o] \in Nat
  BY DEF TypeOK, LapiTypeOK, ServerEffect
<1>2. ~(\E r \in Requested : Created(r, a))
  BY Zenon DEF Created
<1>3. CASE alerts[a].state = "gone"
  <2>1. alerts'[a] = alerts[a]
    BY <1>2, <1>3, Zenon DEF ServerEffect
  <2> QED BY <1>3, <2>1, Zenon DEF Over
<1>4. CASE until[a][o] <= clock
  <2>1. until'[a][o] = until[a][o] \/ until'[a][o] = clock
    BY <1>2, Zenon DEF ServerEffect
  <2>2. until'[a][o] <= clock'
    BY <1>1, <1>4, <2>1, StillPast, Zenon
  <2> QED BY <2>2, Zenon DEF Over
<1> QED BY <1>3, <1>4, ZenonT(40) DEF Over

\* A row of the ledger stands for an alert that was created and that carries
\* the object.
LEMMA RowIsCarried ==
    ASSUME AlertsJournalled, LedgerJournalled,
           NEW a \in Alert, NEW o \in Object, status[a][o] # "none"
    PROVE  alerts[a].state # "unused" /\ o \in alerts[a].items
  BY LapiAssumption, Zenon DEF AlertsJournalled, LedgerJournalled

\* A decision that is being replaced and still in force has an active
\* replacement that is in force as well.
LEMMA ReplacementCovers ==
    ASSUME TypeOK, ExpiringOwned, ReplacementActive, ReplacementLasts,
           NEW a \in Alert, NEW o \in Object, status[a][o] = "expiring",
           until[a][o] > clock
    PROVE  \E b \in Alert : status[b][o] = "active" /\ until[b][o] > clock
<1>1. PICK t \in Token : /\ ops[t].status = "verified"
                         /\ o \in Replaced(t) /\ ops[t].old[o] = a
  BY Zenon DEF ExpiringOwned
<1>2. PICK b \in Alert : status[b][o] = "active" /\ alerts[b].token = t
  <2>1. \A p \in Replaced(t) : \E b \in Alert :
            status[b][p] = "active" /\ alerts[b].token = t
    BY <1>1 DEF ReplacementActive
  <2> QED BY <1>1, <2>1, Zenon
<1>3. until[a][o] <= clock \/ until[b][o] >= until[a][o]
  BY <1>1, <1>2, Zenon DEF ReplacementLasts, Open
<1>4. clock \in Nat /\ until[a][o] \in Nat /\ until[b][o] \in Nat
  BY Zenon DEF TypeOK, LapiTypeOK
<1>5. until[b][o] > clock
  BY <1>3, <1>4
<1> QED BY <1>2, <1>5, Zenon

\* expireOwned marks what it found over or has just ended.
LEMMA MarkingIsOver ==
    ASSUME EnforceInv, TypeOK', MarkedOver, ServerEffect(Requested),
           [Next]_vars, pc' = "expmark", Steady(exp'[2])
    PROVE  Over(exp[1], exp[2])'
<1> USE DEF EnforceInv, ReplaceInv
<1>1. TypeOK /\ ControlOK
  BY Zenon DEF IndInv
<1>2. \/ pc = "expmark" /\ exp' = exp
      \/ ExpireOver
      \/ ExpireDecision
  BY <1>1, MarkingBefore, Zenon
<1>3. Expiring /\ exp' = exp
  BY <1>2, Zenon DEF ExpireOver, ExpireDecision, Goto, Expiring
<1>4. PICK a \in Alert, o \in Object : exp = <<a, o>>
  BY <1>1, <1>3 DEF ControlOK, Expiring
<1>5. exp[1] = a /\ exp[2] = o /\ exp'[1] = a /\ exp'[2] = o /\ Steady(o)
  BY <1>3, <1>4, Zenon
<1>6. status[a][o] # "none"
  BY <1>3, <1>4, <1>5, DoomedInactive, Zenon DEF Doomed
<1>7. alerts[a].state # "unused" /\ o \in alerts[a].items
  BY <1>6, RowIsCarried, Zenon
<1>8. SUFFICES Over(a, o)'
  BY <1>5, Zenon DEF Over
<1>9. CASE pc = "expmark"
  <2>1. Over(a, o)
    BY <1>5, <1>9, Zenon DEF MarkedOver
  <2> QED BY <1>1, <1>7, <2>1, OverStays, Zenon
<1>10. CASE ExpireOver
  <2>1. \/ alerts[a].state = "gone"
        \/ ~ExpiryRefused(a, o) /\ DecisionExpiry(a, o) <= now
    BY <1>5, <1>10, Zenon DEF ExpireOver
  <2>2. now <= clock
    BY Zenon DEF ReadingsSafe
  <2>3. Over(a, o)
    BY <1>1, <2>1, <2>2, PastIsOver, Zenon DEF Over
  <2> QED BY <1>1, <1>7, <2>3, OverStays, Zenon
<1>11. CASE ExpireDecision
  <2>1. expireDecision(a, o) /\ clock' = clock /\ alerts' = alerts
    BY <1>5, <1>11, Zenon DEF ExpireDecision
  <2>2. CASE Readable(a)
    <3>1. until' = [until EXCEPT ![a][o] = clock]
      BY <1>7, <2>1, <2>2, Zenon DEF expireDecision
    <3>2. until'[a][o] = clock
      BY <1>1, <3>1, Zenon DEF TypeOK, LapiTypeOK
    <3>3. clock \in Nat
      BY <1>1, Zenon DEF TypeOK, LapiTypeOK
    <3>4. clock <= clock
      BY <3>3
    <3>5. until'[a][o] <= clock'
      BY <2>1, <3>2, <3>4, Zenon
    <3> QED BY <3>5, Zenon DEF Over
  <2>3. CASE ~Readable(a)
    <3>1. alerts[a].state \in {"unused", "ours", "foreign", "gone"}
      BY <1>1, Zenon DEF TypeOK, LapiTypeOK, AlertRecord
    <3> QED BY <1>7, <2>1, <2>3, <3>1, Zenon DEF Readable, Over
  <2> QED BY <2>2, <2>3, Zenon
<1> QED BY <1>2, <1>9, <1>10, <1>11, Zenon

\* While a replaced decision is not marked, the Run has not planned to mark
\* it: the plan goes by the active one.
LEMMA ReplacedNotPlanned ==
    ASSUME ReplaceInv, ExpiringOwned, NEW a \in Alert, NEW o \in Object,
           status[a][o] = "expiring", phase = "batch", todo[o] = "renew"
    PROVE  a # act[o]
<1> USE DEF ReplaceInv
<1>1. PICK t \in Token : /\ ops[t].status = "verified"
                         /\ o \in Replaced(t) /\ ops[t].old[o] = a
  BY ZenonT(40) DEF ExpiringOwned
<1>2. PICK b \in Alert : status[b][o] = "active"
  BY <1>1 DEF ReplacementActive
<1>3. b = act[o]
  BY <1>2, Zenon DEF IndInv, PlanMatches
<1> QED BY <1>2, <1>3, Zenon

\* Every step keeps it.
LEMMA MarkedOverStep ==
    ASSUME EnforceInv, ExpiringOwned, MarkedOver, TypeOK',
           ServerEffect(Requested), StoreEffect, [Next]_vars
    PROVE  MarkedOver'
<1> USE DEF EnforceInv, ReplaceInv
<1>1. TypeOK /\ ControlOK
  BY Zenon DEF IndInv
<1>2. ASSUME NEW d \in deletes', Steady(d[2]), status'[d[1]][d[2]] = "expired"
      PROVE  Over(d[1], d[2])'
  <2>1. PICK a \in Alert, o \in Object : d = <<a, o>>
    BY DEF TypeOK, LapiTypeOK
  <2>2. /\ d[1] = a /\ d[2] = o /\ Steady(o) /\ d \in Doomed
        /\ status'[a][o] = "expired"
    BY <1>2, <2>1, ZenonT(40) DEF ServerEffect
  <2>3. status[a][o] \in {"expiring", "expired"}
    BY <2>2, DoomedInactive, Zenon
  <2>4. alerts[a].state # "unused"
    BY <2>3, RowIsCarried, Zenon
  <2>5. Over(a, o)
    <3>1. CASE status[a][o] = "expired"
      <4>1. ~(Expiring /\ d = exp)
        <5>1. SUFFICES ASSUME Expiring, d = exp PROVE FALSE
          BY Zenon
        <5>2. snap[o].desired
          BY <2>2, <5>1, Zenon DEF SteadyWanted, Expiring
        <5>3. phase # "remove"
          BY <2>2, <5>1, <5>2, Zenon DEF RunKnows, ExpireSettled
        <5> QED BY <2>2, <3>1, <5>1, <5>3, Zenon DEF ExpireLiveRow, Live
      <4>2. d \in deletes
        BY <2>2, <4>1, Zenon DEF Doomed
      <4> QED BY <2>2, <3>1, <4>2, Zenon DEF MarkedOver
    <3>2. CASE status[a][o] = "expiring"
      <4>1. \/ pc = "expmark" /\ exp = <<a, o>>
            \/ pc = "batch" /\ todo[o] = "renew" /\ a = act[o]
        BY <2>2, <3>2, Zenon DEF StoreEffect
      <4>2. ~(pc = "batch" /\ todo[o] = "renew" /\ a = act[o])
        BY <1>1, <3>2, ReplacedNotPlanned, Zenon DEF ControlOK
      <4>3. pc = "expmark" /\ exp[1] = a /\ exp[2] = o
        BY <4>1, <4>2
      <4> QED BY <2>2, <4>3, Zenon DEF MarkedOver
    <3> QED BY <2>3, <3>1, <3>2, Zenon
  <2>6. Over(a, o)'
    BY <1>1, <2>4, <2>5, OverStays, Zenon
  <2> QED BY <2>2, <2>6, Zenon DEF Over
<1>3. ASSUME pc' = "expmark", Steady(exp'[2])
      PROVE  Over(exp[1], exp[2])'
  BY <1>3, MarkingIsOver, Zenon
<1> QED BY <1>2, <1>3, Zenon DEF MarkedOver, Over

\* A DELETE that ends a decision in force leaves its replacement in force:
\* the replacement is active, lasts at least as long, and no DELETE is on its
\* way for it.
LEMMA AnotherStays ==
    ASSUME EnforceInv, ExpiringOwned, MarkedOver, ServerEffect(Requested),
           clock' = clock, \A b \in Alert : alerts'[b].state # "gone",
           NEW a \in Alert, NEW o \in Object, Steady(o), Enforced(a, o),
           <<a, o>> \in Doomed
    PROVE  \E b \in Alert : Enforced(b, o)'
<1> USE DEF EnforceInv, ReplaceInv
<1>1. TypeOK /\ clock \in Nat /\ \A b \in Alert : until[b][o] \in Nat
  BY Zenon DEF IndInv, TypeOK, LapiTypeOK
<1>2. until[a][o] > clock /\ Readable(a)
  BY ZenonT(40) DEF Enforced
<1>3. status[a][o] = "expiring"
  <2>1. status[a][o] \in {"expiring", "expired"}
    BY DoomedInactive, Zenon
  <2>2. CASE <<a, o>> \in deletes
    <3>1. ~Over(a, o)
      BY <1>1, <1>2 DEF Over, Readable
    <3> QED BY <2>1, <2>2, <3>1, ZenonT(40) DEF MarkedOver
  <2>3. CASE Expiring /\ exp = <<a, o>>
    <3>1. exp[1] = a /\ exp[2] = o
      BY <2>3, Zenon
    <3>2. snap[o].desired
      BY <2>3, Zenon DEF SteadyWanted, Expiring
    <3>3. phase # "remove"
      BY <2>3, <3>1, <3>2, Zenon DEF RunKnows, ExpireSettled
    <3> QED BY <2>1, <2>3, <3>1, <3>3, Zenon DEF ExpireLiveRow, Live
  <2> QED BY <2>2, <2>3, ZenonT(40) DEF Doomed
<1>4. PICK b \in Alert : status[b][o] = "active" /\ until[b][o] > clock
  BY <1>1, <1>2, <1>3, ReplacementCovers, Zenon
<1>5. alerts[b].state # "unused" /\ o \in alerts[b].items
  BY <1>4, RowIsCarried, Zenon
<1>6. /\ ~(\E r \in Requested : Created(r, b))
      /\ <<b, o>> \notin Doomed
  <2>1. <<b, o>> \notin Doomed
    BY <1>4, DoomedInactive, Zenon
  <2> QED BY <1>5, <2>1, Zenon DEF Created
<1>7. until'[b][o] = until[b][o]
  BY <1>6, Zenon DEF ServerEffect
<1>8. \/ alerts'[b] = alerts[b]
      \/ alerts'[b].state = "foreign" /\ alerts'[b].items = alerts[b].items
  BY <1>6, ZenonT(40) DEF ServerEffect, SameContent
<1>9. alerts'[b].state \in {"ours", "foreign"} /\ o \in alerts'[b].items
  <2>1. alerts[b].state \in {"unused", "ours", "foreign", "gone"}
    BY <1>1, ZenonT(40) DEF TypeOK, LapiTypeOK, AlertRecord
  <2> QED BY <1>5, <1>8, <2>1, ZenonT(40)
<1>10. Enforced(b, o)'
  BY <1>4, <1>7, <1>9, Zenon DEF Enforced, Readable
<1> QED BY <1>10, Zenon

\* Of an object that every plan wants, only time ends the last ban, or
\* somebody who deletes alerts of ours.
OnlyTimeEnds ==
    [][\A o \in Object :
        /\ Steady(o) /\ clock' = clock
        /\ \A a \in Alert : alerts'[a].state # "gone"
        /\ \E a \in Alert : Enforced(a, o)
        => (\E a \in Alert : Enforced(a, o))']_vars

\* No step of a Run, no crash and no request that arrives late takes the last
\* decision in force from an object that every plan wants, whether or not a
\* Run waits for the requests of the one before and however the LAPI reports
\* expiries.
THEOREM BansOnlyRunOut ==
    Spec => OnlyTimeEnds
<1> DEFINE BanInv == EnforceInv /\ ExpiringOwned /\ MarkedOver
<1>1. Init => BanInv
  <2>1. ASSUME Init PROVE BanInv
    <3>1. EnforceInv
      BY <2>1, EnforceInit, Zenon
    <3>2. /\ pc = "idle" /\ deletes = {}
          /\ \A a \in Alert, o \in Object : status[a][o] = "none"
      BY <2>1, Zenon DEF Init, LapiInit, StoreInit, LocalInit
    <3> QED
      BY <3>1, <3>2, Zenon DEF ExpiringOwned, MarkedOver, Finishing, Expiring
  <2> QED BY <2>1, Zenon
<1>2. ASSUME BanInv, [Next]_vars
      PROVE  ServerEffect(Requested) /\ StoreEffect /\ Keeps
  <2>1. TypeOK /\ ControlOK /\ PlanNames /\ AlertsJournalled
    BY <1>2, Zenon DEF EnforceInv, ReplaceInv, IndInv, PlanMatches
  <2>2. ServerEffect(Requested) /\ StoreEffect
    BY <1>2, <2>1, ServerStep, StoreStep, Zenon
  <2> QED BY <2>1, <2>2, KeepsStep, Zenon
<1>3. ASSUME BanInv, [Next]_vars PROVE BanInv'
  <2>1. EnforceInv'
    BY <1>3, EnforceStep, Zenon
  <2>2. TypeOK'
    BY <2>1, Zenon DEF EnforceInv, ReplaceInv, IndInv
  <2>3. ExpiringOwned'
    BY <1>2, <1>3, ExpiringOwnedStep, Zenon DEF EnforceInv
  <2>4. MarkedOver'
    BY <1>2, <1>3, <2>2, MarkedOverStep, Zenon
  <2> QED BY <2>1, <2>3, <2>4, Zenon
<1>4. ASSUME BanInv, [Next]_vars, NEW o \in Object, Steady(o),
             clock' = clock, \A b \in Alert : alerts'[b].state # "gone",
             NEW a \in Alert, Enforced(a, o)
      PROVE  \E b \in Alert : Enforced(b, o)'
  <2>1. ServerEffect(Requested)
    BY <1>2, <1>4, Zenon
  <2>2. CASE <<a, o>> \in Doomed
    BY <1>4, <2>1, <2>2, AnotherStays, Zenon
  <2>3. CASE <<a, o>> \notin Doomed
    <3>1. ~(\E r \in Requested : Created(r, a))
      <4>1. alerts[a].state # "unused"
        BY <1>4, Zenon DEF Enforced, Readable
      <4> QED BY <4>1, Zenon DEF Created
    <3>2. until'[a][o] = until[a][o]
      BY <2>1, <2>3, <3>1, Zenon DEF ServerEffect
    <3>3. \/ alerts'[a] = alerts[a]
          \/ alerts'[a].state = "foreign" /\ alerts'[a].items = alerts[a].items
      BY <1>4, <2>1, <3>1, ZenonT(40) DEF ServerEffect, SameContent
    <3>4. Enforced(a, o)'
      BY <1>4, <3>2, <3>3, Zenon DEF Enforced, Readable
    <3> QED BY <3>4, Zenon
  <2> QED BY <2>2, <2>3, Zenon
<1>5. ASSUME BanInv, [Next]_vars
      PROVE  [\A o \in Object :
                /\ Steady(o) /\ clock' = clock
                /\ \A a \in Alert : alerts'[a].state # "gone"
                /\ \E a \in Alert : Enforced(a, o)
                => (\E a \in Alert : Enforced(a, o))']_vars
  BY <1>4, <1>5, Zenon
<1> QED BY <1>1, <1>3, <1>5, PTL DEF Spec, OnlyTimeEnds
=============================================================================

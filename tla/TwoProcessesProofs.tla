------------------------ MODULE TwoProcessesProofs ------------------------
(***************************************************************************)
(* The ledger that the service and "crowdshield sync" share, for every set *)
(* of objects, feeds and tokens and any number of failures.                *)
(*                                                                         *)
(* The argument is rely and guarantee.  Each process keeps what both rest  *)
(* on (SharedOK) and takes back neither the token of an alert nor the      *)
(* content of a journalled operation (Lasting); what a process knows of    *)
(* its own Run (RunOK) survives any step of another that does the same.    *)
(* The lemmas on one process are those of ReconcileInvariant, used twice:  *)
(* as they stand for the service and as Cli!... for the other process.     *)
(***************************************************************************)
EXTENDS TwoProcesses, ReconcileInvariant

\* The inductive invariant of both.
BothInv == SharedOK /\ RunOK /\ Cli!RunOK

\* Both processes mean the same by the server, the tables and the ledger.
LEMMA SharedSame ==
    (Cli!SharedOK <=> SharedOK) /\ (Cli!TokensKnown <=> TokensKnown)
<1>1. Cli!LapiTypeOK <=> LapiTypeOK
  BY Zenon
     DEF Cli!LapiTypeOK, LapiTypeOK, Cli!Alert, Alert, Cli!AlertRecord,
         AlertRecord, Cli!Request, Request
<1>2. Cli!StoreTypeOK <=> StoreTypeOK
  BY Zenon
     DEF Cli!StoreTypeOK, StoreTypeOK, Cli!Alert, Alert, Cli!NoAlert, NoAlert,
         Cli!ObjectRecord, ObjectRecord, Cli!Operation, Operation,
         Cli!OperationStatus, OperationStatus, Cli!Open, Open, Cli!Unverified,
         Unverified, Cli!DecisionStatus, DecisionStatus, Cli!Live, Live
<1>3. Cli!TokensKnown <=> TokensKnown
  BY Zenon DEF Cli!TokensKnown, TokensKnown, Cli!Alert, Alert
<1>4. Cli!LedgerProven <=> LedgerProven
  BY Zenon
     DEF Cli!LedgerProven, LedgerProven, Cli!Alert, Alert, Cli!Recorded,
         Recorded
<1> QED BY <1>1, <1>2, <1>3, <1>4, Zenon DEF Cli!SharedOK, SharedOK

\* And by what lasts.
LEMMA LastingSame ==
    Cli!Lasting <=> Lasting
  BY Zenon DEF Cli!Lasting, Lasting, Cli!Alert, Alert, Cli!Recorded, Recorded

\* Both mean the same by moving on.
LEMMA MovesOnSame ==
    Cli!MovesOn <=> MovesOn
  BY Zenon DEF Cli!MovesOn, MovesOn, Cli!Alert, Alert

\* The lemmas on one process, for the process of "crowdshield sync".
LEMMA CliStep ==
    ASSUME Cli!SharedOK, Cli!RunOK, [Cli!Next]_(Cli!vars)
    PROVE  Cli!SharedOK' /\ Cli!RunOK' /\ Cli!Lasting /\ Cli!MovesOn
<1> USE LapiAssumption, SlackAssumption, ReconcileAssumption
        DEF Cli!ObjectRecord, ObjectRecord
<1>1. Cli!SharedOK' /\ Cli!Lasting
  BY Cli!SharedStep, Zenon
<1>2. Cli!RunOK'
  BY Cli!OwnStep, Zenon
<1>3. Cli!MovesOn
  BY Cli!MovesOnStep, Zenon
<1> QED BY <1>1, <1>2, <1>3, Zenon

\* The steps of the service leave it what its Run relies on.
LEMMA CliOthersStep ==
    ASSUME Cli!TokensKnown, Cli!RunOK, Cli!Lasting, UNCHANGED cliVars
    PROVE  Cli!RunOK'
<1>1. UNCHANGED Cli!localVars
  BY Zenon DEF cliVars, Cli!localVars
<1> QED
  BY <1>1, Cli!OthersStep, LapiAssumption, SlackAssumption, ReconcileAssumption, Zenon
     DEF Cli!ObjectRecord, ObjectRecord

-----------------------------------------------------------------------------
\* The empty tables and two idle processes satisfy the invariant.
LEMMA BothInit ==
    ASSUME InitBoth
    PROVE  BothInv
<1> USE LapiAssumption
<1>1. IndInv
  BY InitInd, Zenon DEF InitBoth
<1>2. LapiTypeOK /\ StoreTypeOK /\ LocalTypeOK /\ ControlOK /\ PlanNames
  BY <1>1, Zenon DEF IndInv, TypeOK, PlanMatches
<1>3. /\ \A a \in Alert : alerts[a].token = NoToken
      /\ \A a \in Alert, o \in Object : status[a][o] = "none"
  BY Zenon DEF InitBoth, Init, LapiInit, StoreInit
<1>4. TokensKnown /\ LedgerProven
  BY <1>3, Zenon DEF TokensKnown, LedgerProven
<1>5. InHand
  <2>1. pc = "idle" /\ cur = NoToken /\ \A t \in Token : left[t] = "none"
    BY Zenon DEF InitBoth, Init, LocalInit, NoOps
  <2> QED BY <2>1, Zenon DEF InHand
<1>6. Cli!LocalInit /\ snapB = objects
  BY Zenon DEF InitBoth, Cli!LocalInit
<1>7. Cli!LocalTypeOK
  BY <1>2, <1>6, Zenon
     DEF StoreTypeOK, Cli!LocalInit, Cli!LocalTypeOK, Cli!Step, Cli!Action,
         Cli!NoOps, Cli!NoItems, Cli!NoAction, Cli!NoRow, Cli!NoAlert,
         Cli!ObjectRecord, ObjectRecord
<1>8. Cli!ControlOK /\ Cli!PlanNames
  BY <1>6, Zenon DEF Cli!LocalInit, Cli!ControlOK, Cli!PlanNames
<1>9. Cli!InHand
  <2>1. pcB = "idle" /\ curB = NoToken /\ \A t \in Token : leftB[t] = "none"
    BY <1>6, Zenon DEF Cli!LocalInit, Cli!NoOps
  <2> QED BY <2>1, Zenon DEF Cli!InHand
<1> QED
  BY <1>2, <1>4, <1>5, <1>7, <1>8, <1>9, Zenon
     DEF BothInv, SharedOK, RunOK, Cli!RunOK

\* Every step of either process, and of the environment, keeps it.
LEMMA BothStep ==
    ASSUME BothInv, [NextBoth]_allVars
    PROVE  BothInv'
<1> USE DEF BothInv
<1>1. Cli!SharedOK /\ Cli!TokensKnown /\ TokensKnown
  BY SharedSame, Zenon DEF SharedOK
<1>2. CASE Service \/ (Environment /\ UNCHANGED cliVars) \/ UNCHANGED allVars
  <2>1. [Next]_vars /\ UNCHANGED cliVars
    BY <1>2, Zenon DEF Service, Next, allVars
  <2>2. SharedOK' /\ RunOK' /\ Lasting
    BY <2>1, SharedStep, OwnStep, Zenon
  <2>3. Cli!RunOK'
    BY <1>1, <2>1, <2>2, LastingSame, CliOthersStep, Zenon
  <2> QED BY <2>2, <2>3, Zenon
<1>3. CASE CliSync
  <2>1. [Cli!Next]_(Cli!vars) /\ UNCHANGED localVars
    BY <1>3, Zenon DEF CliSync, Cli!Next
  <2>2. Cli!SharedOK' /\ Cli!RunOK' /\ Cli!Lasting
    BY <1>1, <2>1, CliStep, Zenon
  <2>3. RunOK'
    BY <1>1, <2>1, <2>2, LastingSame, OthersStep, Zenon
  <2>4. Cli!SharedOK' <=> SharedOK'
    BY SharedSame, PTL
  <2> QED BY <2>2, <2>3, <2>4, Zenon
<1> QED BY <1>2, <1>3, Zenon DEF NextBoth

\* The invariant holds in every reachable state of the two processes.
LEMMA BothInductive ==
    SpecBoth => []BothInv
  BY BothInit, BothStep, PTL DEF SpecBoth

\* Two processes never take a variable out of its type, neither the tables and
\* the server they share nor the locals of either Run.
THEOREM TypesBoth ==
    SpecBoth => [](TypeOK /\ Cli!LocalTypeOK)
<1>1. BothInv => TypeOK /\ Cli!LocalTypeOK
  BY Zenon DEF BothInv, SharedOK, RunOK, Cli!RunOK, TypeOK
<1> QED BY <1>1, BothInductive, PTL

\* With two processes that reconcile at the same time, every decision in the
\* ledger still belongs to the alert of a verified operation, and no operation
\* put two alerts there: RecordVerifiedOperation writes nothing for an
\* operation that the other process recorded first.
THEOREM LedgerProvenBoth ==
    SpecBoth => []LedgerProven
<1>1. BothInv => LedgerProven
  BY Zenon DEF BothInv, SharedOK
<1> QED BY <1>1, BothInductive, PTL

\* Two processes that reconcile at the same time never reopen an operation,
\* rewrite one that is in the journal, or revive a decision of the ledger: a
\* transaction that comes after the other process's is refused or changes
\* nothing (SetOperationStatus, RecordVerifiedOperation, CompleteOperation and
\* MarkDecisionExpired all look at the row as it is when they commit).
THEOREM NothingReopened ==
    SpecBoth => [][MovesOn]_allVars
<1>1. ASSUME BothInv, [NextBoth]_allVars PROVE [MovesOn]_allVars
  <2> USE <1>1 DEF BothInv
  <2>1. CASE Service \/ (Environment /\ UNCHANGED cliVars)
    <3>1. [Next]_vars
      BY <2>1, Zenon DEF Service, Next
    <3> QED BY <3>1, MovesOnStep, Zenon
  <2>2. CASE CliSync
    <3>1. [Cli!Next]_(Cli!vars)
      BY <2>2, Zenon DEF CliSync, Cli!Next
    <3>2. Cli!SharedOK
      BY SharedSame, Zenon
    <3>3. Cli!MovesOn
      BY <3>1, <3>2, CliStep, Zenon
    <3> QED BY <3>3, MovesOnSame, Zenon
  <2> QED BY <1>1, <2>1, <2>2, Zenon DEF NextBoth
<1> QED BY <1>1, BothInductive, PTL DEF SpecBoth
=============================================================================

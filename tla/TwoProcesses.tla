---------------------------- MODULE TwoProcesses ----------------------------
(***************************************************************************)
(* Two processes on one database and one LAPI: the service and an operator *)
(* who runs "crowdshield sync" (syncCLIEnforceWithOptions).  Each has a    *)
(* Reconciler of its own, and the flag that keeps Runs apart               *)
(* (Reconciler.running) is a field of that Reconciler; SQLite serialises   *)
(* transactions, not Runs.  The definitions of Reconcile stand for the     *)
(* service, Cli for the other process; ReconcileInvariant is Reconcile with*)
(* lemmas, which hold for Cli as well.                                     *)
(***************************************************************************)
EXTENDS Reconcile

VARIABLES pcB, phaseB, nowB, snapB, leftB, curB, gotB, seenB, itemsB, expB,
          todoB, actB, errB

cliVars == <<pcB, phaseB, nowB, snapB, leftB, curB, gotB, seenB, itemsB, expB,
             todoB, actB, errB>>

Cli == INSTANCE ReconcileInvariant WITH
    pc <- pcB, phase <- phaseB, now <- nowB, snap <- snapB, left <- leftB,
    cur <- curB, got <- gotB, seen <- seenB, items <- itemsB, exp <- expB,
    todo <- todoB, act <- actB, err <- errB

InitBoth == Init /\ Cli!LocalInit

Service ==
    /\ StartRun \/ RunStep \/ Crash
    /\ UNCHANGED cliVars

CliSync ==
    /\ Cli!StartRun \/ Cli!RunStep \/ Cli!Crash
    /\ UNCHANGED localVars

NextBoth == Service \/ CliSync \/ (Environment /\ UNCHANGED cliVars)

allVars == <<vars, cliVars>>

SpecBoth == InitBoth /\ [][NextBoth]_allVars
=============================================================================

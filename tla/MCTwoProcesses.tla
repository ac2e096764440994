--------------------------- MODULE MCTwoProcesses ---------------------------
(* Small instances of TwoProcesses for TLC.                                *)
EXTENDS TwoProcesses, TLC

CONSTANTS o1, f1, ip

TokenSymmetry == Permutations(Token)

\* The object is always wanted; it comes and goes.
PlansFixed == [Object -> {[desired |-> TRUE, feed |-> f1, scope |-> ip]}]
PlansToggle ==
    [Object -> {[desired |-> d, feed |-> f1, scope |-> ip] : d \in BOOLEAN}]
=============================================================================

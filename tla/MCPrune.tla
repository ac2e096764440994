------------------------------ MODULE MCPrune -------------------------------
(* Small instances of Prune for TLC.                                       *)
EXTENDS Prune, TLC

Ids == Permutations(Op) \cup Permutations(Decision) \cup Permutations(Alert)
            \cup Permutations(Object)
=============================================================================

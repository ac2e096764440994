--------------------------- MODULE SchemaHistory ----------------------------
(***************************************************************************)
(* What internal/state promises to those who open the database: the file   *)
(* only ever moves from one whole release to another that extends it, and  *)
(* it does so at the moment some process gets its store.  Who holds a      *)
(* store of release r finds r's migrations at the head of the history.     *)
(***************************************************************************)
EXTENDS Naturals, Sequences

CONSTANTS Process, Release

VARIABLES
    history,    \* the migrations of the file, in order
    opened      \* of each process: the release of its open store, or <<>>

\* s is a prefix of t.
Begins(s, t) == Len(s) <= Len(t) /\ \A i \in 1 .. Len(s) : s[i] = t[i]

HistoryInit == history = <<>> /\ opened = [p \in Process |-> <<>>]

\* An upgrade, or nothing if the release's migrations are there.
GetStore(p) ==
    /\ opened[p] = <<>>
    /\ \E r \in Release :
        /\ Begins(r, history) \/ Begins(history, r)
        /\ history' = IF Begins(r, history) THEN history ELSE r
        /\ opened' = [opened EXCEPT ![p] = r]

GiveBack(p) ==
    /\ opened[p] # <<>>
    /\ opened' = [opened EXCEPT ![p] = <<>>]
    /\ UNCHANGED history

HistoryNext == \E p \in Process : GetStore(p) \/ GiveBack(p)

HistorySpec == HistoryInit /\ [][HistoryNext]_<<history, opened>>
=============================================================================

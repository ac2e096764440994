----------------------------- MODULE MCFeedSync -----------------------------
(* Small instances of FeedSync for TLC.                                    *)
EXTENDS FeedSync

CONSTANTS f1, f2, d1, d2, e1, e2

On(d) == [def |-> d, enabled |-> TRUE]
Off(d) == [def |-> d, enabled |-> FALSE]
Unlisted == [def |-> NoDefinition, enabled |-> FALSE]

\* One feed that is switched off and on again.
ConfigsSwitched == [Feed -> {On(d1), Off(d1)}]

\* A feed that stays and one that is disabled or taken out.
ConfigsTwo ==
    {c \in [Feed -> {On(d1), On(d2), Off(d2), Unlisted}] :
        c[f1] = On(d1) /\ c[f2] # On(d1)}

\* One feed whose definition changes.
ConfigsMoved == [Feed -> {On(d1), On(d2)}]

DocumentsSmall == {{e1}, {e2}, {e1, e2}, {}}

DocumentsNested == {{e1}, {e1, e2}, {}}
=============================================================================

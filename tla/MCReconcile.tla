----------------------------- MODULE MCReconcile -----------------------------
(* Small instances of Reconcile for TLC.                                   *)
EXTENDS Reconcile, TLC

CONSTANTS o1, o2, f1, f2, ip, range

Wanted(f, s) == [desired |-> TRUE, feed |-> f, scope |-> s]
Stale(s) == [desired |-> FALSE, feed |-> NoFeed, scope |-> s]

\* Tokens are random and never compared by order.
TokenSymmetry == Permutations(Token)

\* Every object is always wanted by the first feed.
PlansFixed == [Object -> {Wanted(f1, ip)}]

\* An object comes and goes.
PlansToggle == [Object -> {Wanted(f1, ip), Stale(ip)}]

\* The first object is always wanted, the others appear at some point.
PlansGrow ==
    {p \in [Object -> {Wanted(f1, ip), Stale(ip)}] : p[o1].desired}

\* One object comes and goes and changes feed and scope, the other is always wanted.
PlansMixed ==
    {p \in [Object -> {Wanted(f1, ip), Wanted(f2, range), Stale(ip)}] :
        p[o2] = Wanted(f1, ip)}
=============================================================================

---------------------------- MODULE MCTaskQueue -----------------------------
(***************************************************************************)
(* The setups TaskQueue is checked with.                                   *)
(***************************************************************************)
EXTENDS TaskQueue

CONSTANTS t1, t2

Kinded(k1, k2, budget) ==
    [kinds |-> [t \in {t1, t2} |-> IF t = t1 THEN k1 ELSE k2], budget |-> budget]

\* A task the extra workers may take, which parks, beside one bound to the
\* checking thread; and two blocking tasks, one of them to start later, under a
\* budget.
MixedSetups ==
    {Kinded({"parallel", "waiting"}, {"main"}, FALSE),
     Kinded({"main", "waiting", "blocking"}, {"scheduled", "blocking"}, TRUE)}

BlockingSetup == {Kinded({"blocking"}, {"blocking"}, FALSE)}

BudgetSetup == {Kinded({}, {}, TRUE)}
=============================================================================

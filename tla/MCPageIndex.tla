---------------------------- MODULE MCPageIndex ----------------------------
(* Values of the constants of PageIndex for model checking.                *)
EXTENDS PageIndex, TLC

CONSTANTS t1, t2, b1, m1, m2

TwoTasks == {t1, t2}
OneBlock == {b1}

OneModel == {m1}
TwoModels == {m1, m2}

Edits == {"blocks", "remove", "titles", "reindex", "outage"}
Failures == {"blocks", "delete", "reindex", "agent", "timeout", "database",
             "configuration", "search", "others"}

Symmetry == Permutations(Tasks)
=============================================================================

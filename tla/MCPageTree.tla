----------------------------- MODULE MCPageTree -----------------------------
(* Values of the constants of PageTree for model checking.                 *)
EXTENDS PageTree

CONSTANTS h1, h2, p1, p2, p3, q1, w1, w2

TwoHandlers == {h1, h2}
OneMover == {h1}
ThreePages == {p1, p2, p3}
FourPages == {p1, p2, p3, q1}
OneWorkspace == {w1}
TwoWorkspaces == {w1, w2}

(* Pages p1, p2, ... are created in w1, q1 in w2.                          *)
Placement == [p \in Pages |-> IF p = q1 THEN w2 ELSE w1]
=============================================================================

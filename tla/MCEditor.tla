------------------------------ MODULE MCEditor ------------------------------
(* Values of the constants of Editor for model checking.                   *)
EXTENDS Editor, TLC

CONSTANTS e1, e2, c1, c2

TwoEditors == {e1, e2}
TwoContents == {c1, c2}
Symmetry == Permutations(TwoEditors) \union Permutations(TwoContents)
=============================================================================

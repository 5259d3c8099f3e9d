--------------------------- MODULE MCModelInstall ---------------------------
(* Values of the constants of ModelInstall for model checking.             *)
EXTENDS ModelInstall, TLC

CONSTANTS h1, h2, m1, m2

TwoHandlers == {h1, h2}
TwoModels == {m1, m2}
Symmetry == Permutations(TwoHandlers)
CatalogOrder == m1 :> 1 @@ m2 :> 2
=============================================================================

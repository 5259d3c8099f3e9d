---------------------------- MODULE MCBlockOrder ----------------------------
(* Values of the constants of BlockOrder for model checking.               *)
EXTENDS BlockOrder, TLC

CONSTANTS h1, h2, b1, b2, b3

TwoHandlers == {h1, h2}
ThreeBlocks == {b1, b2, b3}

Everything == EnvironmentKinds

Symmetry == Permutations(Handlers) \union Permutations(Blocks)
=============================================================================

---------------------------- MODULE MCAgentRuns ----------------------------
(* Small instances of AgentRuns with its history.                          *)
EXTENDS AgentRunsHistory, TLC

CONSTANTS h1, h2, c1, c2

TwoHandlers == {h1, h2}
TwoCalls == {c1, c2}

Everything == EnvironmentKinds

(* Handlers, and tool-call ids, are interchangeable.                       *)
Symmetry == Permutations(Handlers) \union Permutations(Calls)
=============================================================================

---------------------------- MODULE MCAssistant ----------------------------
(* A small instance of Assistant, with the memory of AssistantHistory.     *)
EXTENDS AssistantHistory

CONSTANTS h1, h2, c1, c2

TwoHandlers == {h1, h2}
TwoCalls == {c1, c2}
Clients == {"disconnect", "cancel"}

-----------------------------------------------------------------------------
(* An approved change is carried out or recorded as failed, unless the user*)
(* aborts its stream: for one of the calls, which are interchangeable.     *)
FirstApprovedChangeEnds == ApprovedChangeEnds(c1)
=============================================================================

-------------------------- MODULE AssistantHistory --------------------------
(***************************************************************************)
(* Assistant with a memory of whether the end of an old stream has reset   *)
(* the panel under a newer request, for the property that holds until then.*)
(***************************************************************************)
EXTENDS Assistant

VARIABLE overtaken      \* history: has a stream been overtaken by another

(* The panel hears "done", or the end, of a stream it no longer awaits.    *)
Overtakes ==
    \E k \in Connections :
        /\ stream[k].reading /\ panel.controller # k
        /\ panel.running /\ ~panel'.running

PanelHistoryInit == AssistantInit /\ overtaken = FALSE

PanelHistoryNext ==
    /\ AssistantNext
    /\ overtaken' = (overtaken \/ (PanelStep /\ Overtakes))

historyVars == <<allVars, overtaken>>

PanelHistorySpec ==
    PanelHistoryInit /\ [][PanelHistoryNext]_historyVars /\ AssistantFairness

-----------------------------------------------------------------------------
(* What a stream brings goes to its own question, until the end of an old  *)
(* stream lets the user ask while a newer one is still being answered.     *)
AnswersStayApartAtFirst == overtaken \/ AnswersStayApart
=============================================================================

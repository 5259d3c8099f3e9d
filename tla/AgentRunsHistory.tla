-------------------------- MODULE AgentRunsHistory --------------------------
(***************************************************************************)
(* AgentRuns with a memory of whether somebody has called reconnect, for   *)
(* the properties that hold until then.                                    *)
(***************************************************************************)
EXTENDS AgentRuns

VARIABLE reconnected    \* history: has reconnect been called for the run

HistoryInit == Init /\ reconnected = FALSE

HistoryNext ==
    /\ Next
    /\ reconnected' = (reconnected \/ \E h \in Handlers : Reconnect(h))

HistorySpec == HistoryInit /\ [][HistoryNext]_<<vars, reconnected>>

-----------------------------------------------------------------------------
(* When the provider is asked to go on, the conversation holds the result  *)
(* of every change already made, until a reconnect resumes the run from an *)
(* old row.                                                                *)
TranscriptCompleteAtFirst == reconnected \/ TranscriptComplete

(* A run that waits for approval has a call to approve, and until a        *)
(* reconnect asks the provider while it waits one only, pending or not.    *)
WaitingHasOnePending == WaitingHasPending /\ (reconnected \/ OnePending)
=============================================================================

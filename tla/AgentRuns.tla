------------------------------ MODULE AgentRuns ------------------------------
(***************************************************************************)
(* The life of one agent run: the request handlers of agent/service.py     *)
(* (run, decide, reconnect, cancel), the segment loop they share, and the  *)
(* run's row and tool-call rows in SQLite.                                 *)
(*                                                                         *)
(* A handler is one HTTP request with a database session of its own.  The  *)
(* session keeps the row it loaded (`cached'): later reads of the row come *)
(* from that copy, and a flush writes only the columns whose new value     *)
(* differs from the copy (`Written').  Between two awaits a handler is     *)
(* atomic; a write transaction is atomic and serialised with the others.   *)
(* Runs share no state, so the module follows a single run.                *)
(***************************************************************************)
EXTENDS Naturals, FiniteSets

CONSTANTS
    Handlers,       \* concurrent HTTP requests about the run
    Calls,          \* identifiers of tool-call rows
    NoHandler,      \* "no event is registered"
    NoCall,         \* "this request names no tool call"
    MaxToolCalls,   \* settings.agent_max_tool_calls
    MaxReads,       \* most READ calls in one model response (bound)
    Environment     \* what may happen to the handlers, see below

EnvironmentKinds == {"crash", "disconnect", "cancel", "reconnect", "expiry"}

ASSUME LimitsAssumption == MaxToolCalls \in Nat /\ MaxReads \in Nat
ASSUME NamesAssumption == NoHandler \notin Handlers /\ NoCall \notin Calls
ASSUME EnvironmentAssumption == Environment \subseteq EnvironmentKinds

VARIABLES
    run,        \* the AgentRun row
    calls,      \* the AgentToolCall rows: approval_state and how they ended
    applies,    \* how often each call's change was committed to the workspace
    active,     \* run id \in _active_run_ids
    event,      \* owner of the event in _cancel_events, or NoHandler
    cancelSet,  \* the cancel event each segment created is set
    pc,         \* where each handler is
    cached,     \* the AgentRun object in each handler's session
    local       \* each handler's arguments and local variables

db == <<run, calls, applies>>
memory == <<active, event, cancelSet>>
vars == <<run, calls, applies, active, event, cancelSet, pc, cached, local>>

Terminal == {"completed", "cancelled", "failed", "timed_out"}
Live == {"running", "resuming"}
Statuses == Terminal \union Live \union {"none", "waiting_for_approval"}
Decisions == {"approved", "rejected"}
Outcomes == {"none", "done", "error"}
ApprovalStates == Decisions \union {"none", "pending", "not_required"}

(* A row abstracts messages to the calls whose result they hold, and       *)
(* remaining_seconds to whether any are left.  Status "none": no row yet.  *)
Rows == [status: Statuses, count: Nat, answers: SUBSET Calls, expired: BOOLEAN]
ToolCalls == [state: ApprovalStates, outcome: Outcomes]
NoRow == [status |-> "none", count |-> 0, answers |-> {}, expired |-> FALSE]

Requests == [call: Calls \union {NoCall}, decision: Decisions,
             direct: BOOLEAN, reads: Nat]
NoRequest == [call |-> NoCall, decision |-> "rejected", direct |-> FALSE, reads |-> 0]

(* Points inside _execute_segment, in the order the code reaches them.     *)
SegmentPoints == {"segment", "loop", "provider", "answer", "change",
                  "propose", "read", "read_tool"}
(* Points at which the handler owns _active_run_ids' entry for the run.    *)
ActivePoints == SegmentPoints \union {"closing", "abort"}
DecidePoints == {"claim", "expire", "refresh", "execute", "resume", "reject"}
ReconnectPoints == {"transition", "reload"}
Points == {"idle", "activate"} \union ActivePoints
              \union DecidePoints \union ReconnectPoints

TypeOK ==
    /\ run \in Rows
    /\ calls \in [Calls -> ToolCalls]
    /\ applies \in [Calls -> Nat]
    /\ active \in BOOLEAN
    /\ event \in Handlers \union {NoHandler}
    /\ cancelSet \in [Handlers -> BOOLEAN]
    /\ pc \in [Handlers -> Points]
    /\ cached \in [Handlers -> Rows]
    /\ local \in [Handlers -> Requests]

Init ==
    /\ run = NoRow
    /\ calls = [c \in Calls |-> [state |-> "none", outcome |-> "none"]]
    /\ applies = [c \in Calls |-> 0]
    /\ active = FALSE
    /\ event = NoHandler
    /\ cancelSet = [h \in Handlers |-> FALSE]
    /\ pc = [h \in Handlers |-> "idle"]
    /\ cached = [h \in Handlers |-> NoRow]
    /\ local = [h \in Handlers |-> NoRequest]

-----------------------------------------------------------------------------
(* Sessions                                                                *)

(* The row after h's session flushes `new': the columns it changed.        *)
Written(h, new) ==
    [status  |-> IF new.status  = cached[h].status  THEN run.status  ELSE new.status,
     count   |-> IF new.count   = cached[h].count   THEN run.count   ELSE new.count,
     answers |-> IF new.answers = cached[h].answers THEN run.answers ELSE new.answers,
     expired |-> IF new.expired = cached[h].expired THEN run.expired ELSE new.expired]

Save(h, new) ==
    /\ run' = Written(h, new)
    /\ cached' = [cached EXCEPT ![h] = new]

Load(h) == cached' = [cached EXCEPT ![h] = run]

(* remaining_seconds after some time was spent.                            *)
Spent(row) ==
    {row} \union IF "expiry" \in Environment
                 THEN {[row EXCEPT !.expired = TRUE]} ELSE {}

Goto(h, point) == pc' = [pc EXCEPT ![h] = point]

(* The request ends and its session is closed.                             *)
Return(h) ==
    /\ pc' = [pc EXCEPT ![h] = "idle"]
    /\ cached' = [cached EXCEPT ![h] = NoRow]
    /\ local' = [local EXCEPT ![h] = NoRequest]

(* The finally clause of _activate_and_execute.                            *)
Deactivate(h) ==
    /\ active' = FALSE
    /\ event' = NoHandler
    /\ cancelSet' = [cancelSet EXCEPT ![h] = FALSE]

-----------------------------------------------------------------------------
(* run(): nobody knows the id of the new row before the segment is active. *)

RunAgent(h, direct) ==
    /\ pc[h] = "idle" /\ run.status = "none"
    /\ run' = [NoRow EXCEPT !.status = "running"]
    /\ cached' = [cached EXCEPT ![h] = run']
    /\ active' = TRUE /\ event' = h
    /\ cancelSet' = [cancelSet EXCEPT ![h] = FALSE]
    /\ local' = [local EXCEPT ![h].direct = direct]
    /\ Goto(h, "segment")
    /\ UNCHANGED <<calls, applies>>

(* Faulty variant: the run may already be active.                          *)
ActivateUnchecked(h) ==
    /\ pc[h] = "activate"
    /\ active' = TRUE /\ event' = h
    /\ cancelSet' = [cancelSet EXCEPT ![h] = FALSE]
    /\ Goto(h, "segment")
    /\ UNCHANGED <<run, calls, applies, cached, local>>

Activate(h) ==
    /\ pc[h] = "activate" /\ ~active
    /\ active' = TRUE /\ event' = h
    /\ cancelSet' = [cancelSet EXCEPT ![h] = FALSE]
    /\ Goto(h, "segment")
    /\ UNCHANGED <<run, calls, applies, cached, local>>

(* "agent run is already active"                                           *)
ActivateConflict(h) ==
    /\ pc[h] = "activate" /\ active
    /\ Return(h)
    /\ UNCHANGED <<run, calls, applies, active, event, cancelSet>>

-----------------------------------------------------------------------------
(* _execute_segment and _run_loop                                          *)

SegmentStart(h) ==
    /\ pc[h] = "segment" /\ ~cached[h].expired
    /\ Save(h, [cached[h] EXCEPT !.status = "running"])
    /\ Goto(h, "loop")
    /\ UNCHANGED <<calls, applies, active, event, cancelSet, local>>

(* The top of the loop: stop if cancelled, else save and ask the provider  *)
(* (the direct request of a simple "create page" skips the provider).      *)
LoopTop(h) ==
    /\ pc[h] = "loop" /\ ~cancelSet[h]
    /\ Save(h, [cached[h] EXCEPT !.status = "running"])
    /\ Goto(h, IF local[h].direct THEN "change" ELSE "provider")
    /\ local' = [local EXCEPT ![h].direct = FALSE]
    /\ UNCHANGED <<calls, applies, active, event, cancelSet>>

(* The loop top or _complete_or_cancel sees the cancel event.              *)
SeeCancel(h) ==
    /\ pc[h] \in {"loop", "provider"} /\ cancelSet[h]
    /\ Save(h, [cached[h] EXCEPT !.status = "cancelled"])
    /\ Goto(h, "closing")
    /\ UNCHANGED <<calls, applies, active, event, cancelSet, local>>

(* The provider's response: an answer, one change, or n READ calls.        *)
ProviderResponds(h) ==
    /\ pc[h] = "provider" /\ ~cancelSet[h]
    /\ \/ Goto(h, "answer") /\ UNCHANGED local
       \/ Goto(h, "change") /\ UNCHANGED local
       \/ \E n \in 1..MaxReads :
             /\ local' = [local EXCEPT ![h].reads = n]
             /\ Goto(h, "read")
    /\ UNCHANGED <<run, calls, applies, active, event, cancelSet, cached>>

FinishAnswer(h) ==
    /\ pc[h] = "answer"
    /\ Save(h, [cached[h] EXCEPT !.status = "completed"])
    /\ Goto(h, "closing")
    /\ UNCHANGED <<calls, applies, active, event, cancelSet, local>>

(* Faulty variant: compares the count before incrementing it.              *)
CreateCallAtLimit(h, c, state) ==
    /\ calls[c].state = "none"
    /\ cached[h].count <= MaxToolCalls
    /\ Save(h, [cached[h] EXCEPT !.count = @ + 1])
    /\ calls' = [calls EXCEPT ![c].state = state]
    /\ local' = [local EXCEPT ![h].call = c]
    /\ UNCHANGED <<applies, active, event, cancelSet>>

(* Count the call, insert its row, commit.                                 *)
CreateCall(h, c, state) ==
    /\ calls[c].state = "none"
    /\ cached[h].count < MaxToolCalls
    /\ Save(h, [cached[h] EXCEPT !.count = @ + 1])
    /\ calls' = [calls EXCEPT ![c].state = state]
    /\ local' = [local EXCEPT ![h].call = c]
    /\ UNCHANGED <<applies, active, event, cancelSet>>

CreateChangeCall(h, c) ==
    /\ pc[h] = "change"
    /\ CreateCall(h, c, "pending")
    /\ Goto(h, "propose")

CreateReadCall(h, c) ==
    /\ pc[h] = "read"
    /\ CreateCall(h, c, "not_required")
    /\ Goto(h, "read_tool")

(* CircuitBreakerError: maximum tool calls reached.  A count above the     *)
(* limit is only ever compared with it, so it stays at the limit + 1.      *)
LimitReached(h) ==
    /\ pc[h] \in {"change", "read"}
    /\ cached[h].count >= MaxToolCalls
    /\ LET over == MaxToolCalls + 1
           new == [cached[h] EXCEPT !.status = "failed", !.count = over]
       IN  /\ run' = [Written(h, new) EXCEPT !.count = over]
           /\ cached' = [cached EXCEPT ![h] = new]
    /\ Goto(h, "closing")
    /\ UNCHANGED <<calls, applies, active, event, cancelSet, local>>

Propose(h) ==
    /\ pc[h] = "propose"
    /\ Save(h, [cached[h] EXCEPT !.status = "waiting_for_approval"])
    /\ Goto(h, "closing")
    /\ UNCHANGED <<calls, applies, active, event, cancelSet, local>>

ReadToolReturns(h) ==
    /\ pc[h] = "read_tool"
    /\ calls' = [calls EXCEPT ![local[h].call].outcome = "done"]
    /\ local' = [local EXCEPT ![h].reads = @ - 1, ![h].call = NoCall]
    /\ Goto(h, IF local[h].reads = 1 THEN "loop" ELSE "read")
    /\ UNCHANGED <<run, applies, active, event, cancelSet, cached>>

(* Any other exception: the time budget or the provider's timeout, a tool  *)
(* timeout, invalid arguments, several changes at once, a provider error.  *)
SegmentFails(h, status) ==
    /\ pc[h] \in SegmentPoints
    /\ pc[h] = "segment" /\ cached[h].expired => status = "timed_out"
    /\ Save(h, [cached[h] EXCEPT !.status = status])
    /\ Goto(h, "closing")
    /\ UNCHANGED <<calls, applies, active, event, cancelSet, local>>

(* Faulty variant: a closed segment stays in _active_run_ids.              *)
CloseStillActive(h) ==
    /\ pc[h] = "closing"
    /\ \E row \in Spent(cached[h]) : run' = Written(h, row)
    /\ Return(h)
    /\ UNCHANGED <<calls, applies, active, event, cancelSet>>

(* The finally clauses: charge the time spent, then leave the active set.  *)
Close(h) ==
    /\ pc[h] = "closing"
    /\ \E row \in Spent(cached[h]) : run' = Written(h, row)
    /\ Deactivate(h)
    /\ Return(h)
    /\ UNCHANGED <<calls, applies>>

-----------------------------------------------------------------------------
(* decide()                                                                *)

(* Faulty variant: decides whatever the status of the run.                 *)
DecideAnyStatus(h, c, decision) ==
    /\ pc[h] = "idle"
    /\ calls[c].state = "pending"
    /\ Load(h)
    /\ local' = [local EXCEPT ![h].call = c, ![h].decision = decision]
    /\ Goto(h, IF run.expired THEN "expire" ELSE "claim")
    /\ UNCHANGED <<run, calls, applies, active, event, cancelSet>>

Decide(h, c, decision) ==
    /\ pc[h] = "idle"
    /\ calls[c].state = "pending" /\ run.status = "waiting_for_approval"
    /\ Load(h)
    /\ local' = [local EXCEPT ![h].call = c, ![h].decision = decision]
    /\ Goto(h, IF run.expired THEN "expire" ELSE "claim")
    /\ UNCHANGED <<run, calls, applies, active, event, cancelSet>>

(* The run has no time left: it ends, the call stays pending.              *)
ExpireRun(h) ==
    /\ pc[h] = "expire"
    /\ run' = Written(h, [cached[h] EXCEPT !.status = "timed_out"])
    /\ Return(h)
    /\ UNCHANGED <<calls, applies, active, event, cancelSet>>

(* Faulty variant: trusts the status of the run alone.                     *)
ClaimableIfWaiting(h) == run.status = "waiting_for_approval"

(* claim_tool_call_decision and transition_run in one transaction.         *)
Claimable(h) ==
    /\ calls[local[h].call].state = "pending"
    /\ run.status = "waiting_for_approval"

(* Faulty variant: claims the call and leaves the run waiting.             *)
ClaimWithoutTransition(h) ==
    /\ pc[h] = "claim" /\ Claimable(h)
    /\ calls' = [calls EXCEPT ![local[h].call].state = local[h].decision]
    /\ Goto(h, "refresh")
    /\ UNCHANGED <<run, applies, active, event, cancelSet, cached, local>>

Claim(h) ==
    /\ pc[h] = "claim" /\ Claimable(h)
    /\ calls' = [calls EXCEPT ![local[h].call].state = local[h].decision]
    /\ run' = [run EXCEPT !.status = "resuming"]
    /\ Goto(h, "refresh")
    /\ UNCHANGED <<applies, active, event, cancelSet, cached, local>>

(* "agent approval was already claimed": the transaction is rolled back.   *)
ClaimConflict(h) ==
    /\ pc[h] = "claim" /\ ~Claimable(h)
    /\ Return(h)
    /\ UNCHANGED <<run, calls, applies, active, event, cancelSet>>

Refresh(h) ==
    /\ pc[h] = "refresh"
    /\ Load(h)
    /\ Goto(h, IF local[h].decision = "approved" THEN "execute" ELSE "reject")
    /\ UNCHANGED <<run, calls, applies, active, event, cancelSet, local>>

(* _execute_approved_tool: the change and its audit row in one commit.     *)
ExecuteApproved(h) ==
    /\ pc[h] = "execute" /\ ~cached[h].expired
    /\ applies' = [applies EXCEPT ![local[h].call] = @ + 1]
    /\ calls' = [calls EXCEPT ![local[h].call].outcome = "done"]
    /\ Goto(h, "resume")
    /\ UNCHANGED <<run, active, event, cancelSet, cached, local>>

(* Faulty variant: the error is recorded without rolling the change back.  *)
ApprovedToolFailsWithoutRollback(h, status) ==
    /\ pc[h] = "execute"
    /\ applies' = [applies EXCEPT ![local[h].call] = @ + 1]
    /\ calls' = [calls EXCEPT ![local[h].call].outcome = "error"]
    /\ run' = [run EXCEPT !.status = status]
    /\ Return(h)
    /\ UNCHANGED <<active, event, cancelSet>>

(* Faulty variant: ends the run and says nothing of the call.              *)
ApprovedToolFailsSilently(h, status) ==
    /\ pc[h] = "execute"
    /\ run' = [run EXCEPT !.status = status]
    /\ Return(h)
    /\ UNCHANGED <<calls, applies, active, event, cancelSet>>

(* The tool timed out or failed: rollback, which also drops the cached row *)
(* so that the run is read again, then the error and the run's end.        *)
ApprovedToolFails(h, status) ==
    /\ pc[h] = "execute"
    /\ cached[h].expired => status = "timed_out"
    /\ calls' = [calls EXCEPT ![local[h].call].outcome = "error"]
    /\ run' = [run EXCEPT !.status = status]
    /\ Return(h)
    /\ UNCHANGED <<applies, active, event, cancelSet>>

(* Faulty variant: the result is not appended.                             *)
AppendNothing(h) ==
    /\ \E row \in Spent(cached[h]) : Save(h, [row EXCEPT !.status = "resuming"])
    /\ local' = [local EXCEPT ![h] = NoRequest]
    /\ Goto(h, "activate")

(* Append the call's result to the messages and save the run.              *)
AppendResult(h) ==
    /\ \E row \in Spent(cached[h]) :
          Save(h, [row EXCEPT !.status = "resuming",
                              !.answers = @ \union {local[h].call}])
    /\ local' = [local EXCEPT ![h] = NoRequest]
    /\ Goto(h, "activate")

SaveApproved(h) ==
    /\ pc[h] = "resume"
    /\ AppendResult(h)
    /\ UNCHANGED <<calls, applies, active, event, cancelSet>>

SaveRejected(h) ==
    /\ pc[h] = "reject"
    /\ calls' = [calls EXCEPT ![local[h].call].outcome = "done"]
    /\ AppendResult(h)
    /\ UNCHANGED <<applies, active, event, cancelSet>>

-----------------------------------------------------------------------------
(* reconnect() and cancel                                                  *)

Reconnect(h) ==
    /\ "reconnect" \in Environment
    /\ pc[h] = "idle" /\ run.status \in Live /\ ~active
    /\ Load(h)
    /\ Goto(h, "transition")
    /\ UNCHANGED <<run, calls, applies, active, event, cancelSet, local>>

Transition(h) ==
    /\ pc[h] = "transition" /\ run.status \in Live
    /\ run' = [run EXCEPT !.status = "resuming"]
    /\ Goto(h, "reload")
    /\ UNCHANGED <<calls, applies, active, event, cancelSet, cached, local>>

(* "agent run is already being resumed"                                    *)
TransitionConflict(h) ==
    /\ pc[h] = "transition" /\ run.status \notin Live
    /\ Return(h)
    /\ UNCHANGED <<run, calls, applies, active, event, cancelSet>>

Reload(h) ==
    /\ pc[h] = "reload"
    /\ Load(h)
    /\ Goto(h, "activate")
    /\ UNCHANGED <<run, calls, applies, active, event, cancelSet, local>>

(* cancel_persisted_agent_run: the row first, then the event if there is   *)
(* one.  Any idle handler may serve it.                                    *)
Cancel(h) ==
    /\ "cancel" \in Environment
    /\ pc[h] = "idle"
    /\ run.status \in Live \union {"waiting_for_approval"}
    /\ run' = [run EXCEPT !.status = "cancelled"]
    /\ cancelSet' = [g \in Handlers |-> cancelSet[g] \/ g = event]
    /\ UNCHANGED <<calls, applies, active, event, pc, cached, local>>

-----------------------------------------------------------------------------
(* Lost clients and restarts                                               *)

(* The client goes away while the segment awaits: CancelledError.  The     *)
(* handler rolls back and reads the run again ...                          *)
DisconnectAtAwait(h) ==
    /\ "disconnect" \in Environment
    /\ pc[h] \in SegmentPoints
    /\ Load(h)
    /\ Goto(h, "abort")
    /\ local' = [local EXCEPT ![h] = NoRequest]
    /\ UNCHANGED <<run, calls, applies, active, event, cancelSet>>

(* ... and saves "resuming" if that read found it running.                 *)
AbortSave(h) ==
    /\ pc[h] = "abort"
    /\ \E row \in Spent(cached[h]) :
          run' = IF cached[h].status = "running"
                 THEN Written(h, [row EXCEPT !.status = "resuming"]) ELSE run
    /\ Deactivate(h)
    /\ Return(h)
    /\ UNCHANGED <<calls, applies>>

(* ... or while the segment is suspended at a yield: GeneratorExit skips   *)
(* the handler above and only the finally clauses run.                     *)
DisconnectAtYield(h) ==
    /\ "disconnect" \in Environment
    /\ pc[h] \in {"segment", "answer", "read_tool"}
    /\ Goto(h, "closing")
    /\ UNCHANGED <<run, calls, applies, active, event, cancelSet, cached, local>>

(* ... or before the handler is in the active set: the session is closed.  *)
DisconnectOutside(h) ==
    /\ "disconnect" \in Environment
    /\ pc[h] \in DecidePoints \union ReconnectPoints \union {"activate"}
    /\ Return(h)
    /\ UNCHANGED <<run, calls, applies, active, event, cancelSet>>

Crash ==
    /\ "crash" \in Environment
    /\ active' = FALSE
    /\ event' = NoHandler
    /\ cancelSet' = [h \in Handlers |-> FALSE]
    /\ pc' = [h \in Handlers |-> "idle"]
    /\ cached' = [h \in Handlers |-> NoRow]
    /\ local' = [h \in Handlers |-> NoRequest]
    /\ UNCHANGED <<run, calls, applies>>

-----------------------------------------------------------------------------
SegmentStep(h) ==
    \/ SegmentStart(h) \/ LoopTop(h) \/ SeeCancel(h) \/ ProviderResponds(h)
    \/ FinishAnswer(h) \/ LimitReached(h) \/ Propose(h) \/ ReadToolReturns(h)
    \/ \E c \in Calls : CreateChangeCall(h, c) \/ CreateReadCall(h, c)
    \/ \E s \in {"failed", "timed_out"} : SegmentFails(h, s)
    \/ Close(h) \/ AbortSave(h)

DecideStep(h) ==
    \/ ExpireRun(h) \/ Claim(h) \/ ClaimConflict(h) \/ Refresh(h)
    \/ ExecuteApproved(h) \/ SaveApproved(h) \/ SaveRejected(h)
    \/ \E s \in {"failed", "timed_out"} : ApprovedToolFails(h, s)

ReconnectStep(h) == Transition(h) \/ TransitionConflict(h) \/ Reload(h)

(* What the event loop does by itself for a request it has started.        *)
HandlerStep(h) ==
    \/ Activate(h) \/ ActivateConflict(h)
    \/ SegmentStep(h) \/ DecideStep(h) \/ ReconnectStep(h)

Request(h) ==
    \/ \E direct \in BOOLEAN : RunAgent(h, direct)
    \/ \E c \in Calls, d \in Decisions : Decide(h, c, d)
    \/ Reconnect(h) \/ Cancel(h)

Fault(h) == DisconnectAtAwait(h) \/ DisconnectAtYield(h) \/ DisconnectOutside(h)

Next ==
    \/ \E h \in Handlers : HandlerStep(h) \/ Request(h) \/ Fault(h)
    \/ Crash

Spec == Init /\ [][Next]_vars

-----------------------------------------------------------------------------
(* Properties                                                              *)

(* The audit trail tells the truth about the workspace: a change was made  *)
(* exactly when its call is approved and recorded as done, and then once;  *)
(* a rejected, failed or still undecided call has changed nothing          *)
(* (_execute_approved_tool commits the change with its audit row).         *)
AuditMatchesWorkspace ==
    \A c \in Calls :
        applies[c] = IF calls[c] = [state |-> "approved", outcome |-> "done"]
                     THEN 1 ELSE 0

(* At most one request at a time runs a segment of the run, and the run is *)
(* in _active_run_ids, with that request's event, exactly while it does.   *)
SingleSegment ==
    /\ active <=> \E h \in Handlers : pc[h] \in ActivePoints
    /\ \A h \in Handlers : pc[h] \in ActivePoints => event = h

(* A run that waits for approval has a call to approve, so that reconnect  *)
(* never answers "agent run has no pending approval".                      *)
WaitingHasPending ==
    run.status = "waiting_for_approval" =>
        \E c \in Calls : calls[c].state = "pending"

(* When the provider is asked to go on, the conversation holds the result  *)
(* of every change already made; otherwise the model may ask for it again. *)
TranscriptComplete ==
    \A h \in Handlers : pc[h] = "provider" =>
        {c \in Calls : applies[c] > 0} \subseteq cached[h].answers

(* max_tool_calls bounds the calls a run creates over its whole life, all  *)
(* its segments together.                                                  *)
ToolCallLimit == Cardinality({c \in Calls : calls[c].state # "none"}) <= MaxToolCalls

(* get_pending_tool_call uses scalar_one_or_none: a run never has two      *)
(* pending calls.                                                          *)
OnePending ==
    \A c, d \in Calls :
        calls[c].state = "pending" /\ calls[d].state = "pending" => c = d

(* Once a run has ended and the requests about it are over, it is closed:  *)
(* nothing changes its status and no later request gets to work on it.     *)
EndedRunIsClosed ==
    [][run.status \in Terminal /\ (\A h \in Handlers : pc[h] = "idle")
           => run'.status = run.status /\ pc' = pc]_vars

(* A cancelled run is not brought back to life.                            *)
CancelledCannotResume ==
    [][run.status = "cancelled" => run'.status \in Terminal]_run

(* The run is released: whoever holds it in _active_run_ids lets it go.    *)
SegmentEnds == active ~> ~active

Gate == INSTANCE ApprovalGate WITH
            decision <- [c \in Calls |-> calls[c].state], effect <- applies

(* Deciding and executing agent changes implements the approval gate.      *)
ImplementsGate == Gate!Spec
=============================================================================

---------------------------- MODULE AgentProofs ----------------------------
(***************************************************************************)
(* Proofs about AgentRuns for every set of handlers and calls, every limit *)
(* and every environment, and then about the panel and the run it talks to *)
(* (Assistant): the run keeps its tool-call limit, what a stream brings    *)
(* goes to its own question, and a run that waits is shown to the user.    *)
(***************************************************************************)
EXTENDS AgentRunsHistory, AssistantHistory, FiniteSetTheorems, SequenceTheorems, TLAPS

(* READ calls are taken from a response while some are left; without it    *)
(* the count of calls left is not a natural number.                        *)
ReadsLeft == \A h \in Handlers : pc[h] \in {"read", "read_tool"} => local[h].reads > 0

(* Between its decision and its result a request names a tool call.        *)
DecidePointsNameCall ==
    \A h \in Handlers :
        pc[h] \in DecidePoints \union {"propose", "read_tool"} => local[h].call \in Calls

TypeInv == TypeOK /\ ReadsLeft /\ DecidePointsNameCall

(* Updates of one field of a row, a tool call and a request.               *)
LEMMA RowUpdates ==
    ASSUME NEW row \in Rows, NEW s \in Statuses, NEW n \in Nat, NEW a \in SUBSET Calls
    PROVE  /\ [row EXCEPT !.status = s] \in Rows
           /\ [row EXCEPT !.count = n] \in Rows
           /\ [row EXCEPT !.status = s, !.count = n] \in Rows
           /\ [row EXCEPT !.status = s, !.answers = a] \in Rows
  BY DEF Rows

LEMMA CallUpdates ==
    ASSUME NEW t \in ToolCalls, NEW s \in ApprovalStates, NEW o \in Outcomes
    PROVE  /\ [t EXCEPT !.state = s] \in ToolCalls
           /\ [t EXCEPT !.outcome = o] \in ToolCalls
  BY DEF ToolCalls

LEMMA RequestUpdates ==
    ASSUME NEW r \in Requests, NEW c \in Calls \union {NoCall}, NEW d \in Decisions,
           NEW b \in BOOLEAN, NEW n \in Nat
    PROVE  /\ [r EXCEPT !.call = c] \in Requests
           /\ [r EXCEPT !.call = c, !.decision = d] \in Requests
           /\ [r EXCEPT !.direct = b] \in Requests
           /\ [r EXCEPT !.reads = n] \in Requests
           /\ [r EXCEPT !.reads = n, !.call = c] \in Requests
  BY DEF Requests

(* A row that a session writes is a row.                                   *)
LEMMA WrittenType ==
    ASSUME TypeOK, NEW h \in Handlers, NEW new \in Rows
    PROVE  Written(h, new) \in Rows
  BY DEF TypeOK, Rows, Written

LEMMA SpentType ==
    ASSUME NEW row \in Rows, NEW spent \in Spent(row)
    PROVE  spent \in Rows
  BY DEF Rows, Spent

(* Saving a well-formed row keeps the row and the session well-formed.     *)
LEMMA SaveType ==
    ASSUME TypeOK, NEW h \in Handlers, NEW new \in Rows, Save(h, new)
    PROVE  /\ run' \in Rows
           /\ cached' \in [Handlers -> Rows]
  BY WrittenType DEF Save, TypeOK

(* Every status the code writes is a status.                               *)
LEMMA StatusNames ==
    /\ Terminal \subseteq Statuses /\ Live \subseteq Statuses
    /\ "waiting_for_approval" \in Statuses /\ "none" \in Statuses
    /\ Terminal = {"completed", "cancelled", "failed", "timed_out"}
    /\ Live = {"running", "resuming"}
  BY DEF Statuses, Terminal, Live

LEMMA StatusSaveType ==
    ASSUME TypeOK, NEW h \in Handlers, NEW s \in Statuses,
           Save(h, [cached[h] EXCEPT !.status = s])
    PROVE  /\ run' \in Rows
           /\ cached' \in [Handlers -> Rows]
<1>1. cached[h] \in Rows
  BY DEF TypeOK
<1>2. [cached[h] EXCEPT !.status = s] \in Rows
  BY <1>1, RowUpdates, 0 \in Nat
<1> QED BY <1>2, SaveType

LEMMA CreateCallType ==
    ASSUME TypeOK, NEW h \in Handlers, NEW c \in Calls, NEW state \in ApprovalStates,
           CreateCall(h, c, state)
    PROVE  /\ run' \in Rows
           /\ cached' \in [Handlers -> Rows]
           /\ calls' \in [Calls -> ToolCalls]
           /\ local' \in [Handlers -> Requests]
<1>1. cached[h] \in Rows /\ local[h] \in Requests /\ calls[c] \in ToolCalls
  BY DEF TypeOK
<1>2. cached[h].count + 1 \in Nat
  BY <1>1 DEF Rows
<1>3. [cached[h] EXCEPT !.count = cached[h].count + 1] \in Rows
  BY <1>1, <1>2, RowUpdates, StatusNames
<1>4. run' \in Rows /\ cached' \in [Handlers -> Rows]
  BY <1>3, SaveType DEF CreateCall
<1>5. [calls[c] EXCEPT !.state = state] \in ToolCalls
  BY <1>1, CallUpdates, "none" \in Outcomes DEF Outcomes
<1>6. [local[h] EXCEPT !.call = c] \in Requests
  BY <1>1, RequestUpdates, "rejected" \in Decisions, 0 \in Nat DEF Decisions
<1> QED BY <1>4, <1>5, <1>6 DEF CreateCall, TypeOK

LEMMA OutcomeType ==
    ASSUME TypeOK, NEW c \in Calls, NEW o \in Outcomes
    PROVE  [calls EXCEPT ![c].outcome = o] \in [Calls -> ToolCalls]
<1>1. [calls[c] EXCEPT !.outcome = o] \in ToolCalls
  BY CallUpdates, "none" \in ApprovalStates DEF TypeOK, ApprovalStates
<1> QED BY <1>1 DEF TypeOK

LEMMA NoRequestType == NoRequest \in Requests /\ NoRow \in Rows
  BY StatusNames DEF NoRequest, Requests, Decisions, NoRow, Rows

LEMMA ReturnType ==
    ASSUME TypeInv, NEW h \in Handlers, Return(h)
    PROVE  /\ pc' \in [Handlers -> Points]
           /\ cached' \in [Handlers -> Rows]
           /\ local' \in [Handlers -> Requests]
           /\ ReadsLeft' /\ DecidePointsNameCall'
<1>1. "idle" \in Points
  BY DEF Points
<1> QED BY <1>1, NoRequestType
        DEF Return, TypeInv, TypeOK, ReadsLeft, DecidePointsNameCall, DecidePoints

LEMMA AppendResultType ==
    ASSUME TypeInv, NEW h \in Handlers, local[h].call \in Calls, AppendResult(h)
    PROVE  /\ run' \in Rows
           /\ cached' \in [Handlers -> Rows]
           /\ pc' \in [Handlers -> Points]
           /\ local' \in [Handlers -> Requests]
           /\ ReadsLeft' /\ DecidePointsNameCall'
<1>1. PICK row \in Spent(cached[h]) :
         Save(h, [row EXCEPT !.status = "resuming", !.answers = @ \union {local[h].call}])
  BY DEF AppendResult
<1>2. row \in Rows
  BY SpentType DEF TypeInv, TypeOK
<1>3. row.answers \union {local[h].call} \in SUBSET Calls
  BY <1>2 DEF Rows
<1>4. [row EXCEPT !.status = "resuming", !.answers = @ \union {local[h].call}] \in Rows
  BY <1>2, <1>3, RowUpdates, StatusNames, 0 \in Nat
<1>5. run' \in Rows /\ cached' \in [Handlers -> Rows]
  BY <1>1, <1>4, SaveType DEF TypeInv
<1>6. "activate" \in Points
  BY DEF Points
<1> QED BY <1>5, <1>6, NoRequestType
        DEF AppendResult, Goto, TypeInv, TypeOK, ReadsLeft, DecidePointsNameCall, DecidePoints

(* Types are kept by every step, one step per action.                      *)
LEMMA SegmentTypes ==
    ASSUME TypeInv, NEW h \in Handlers, SegmentStep(h)
    PROVE  TypeInv'
<1> USE DEF TypeInv, ReadsLeft, DecidePointsNameCall, DecidePoints, Goto, Points,
            ActivePoints, SegmentPoints
<1>a. local[h] \in Requests /\ cached[h] \in Rows
  BY DEF TypeOK
<1>1. CASE SegmentStart(h)
  BY <1>1, StatusSaveType, StatusNames DEF SegmentStart, TypeOK
<1>2. CASE LoopTop(h)
  <2>1. [local[h] EXCEPT !.direct = FALSE] \in Requests
    BY <1>a, RequestUpdates, NoRequestType DEF Requests
  <2> QED BY <1>2, <2>1, StatusSaveType, StatusNames DEF LoopTop, TypeOK
<1>3. CASE SeeCancel(h)
  BY <1>3, StatusSaveType, StatusNames DEF SeeCancel, TypeOK
<1>4. CASE ProviderResponds(h)
  <2>1. ASSUME NEW n \in 1..MaxReads, local' = [local EXCEPT ![h].reads = n]
        PROVE  local' \in [Handlers -> Requests] /\ local'[h].reads > 0
    <3>1. n \in Nat /\ n > 0
      BY LimitsAssumption
    <3>2. [local[h] EXCEPT !.reads = n] \in Requests
      BY <1>a, <3>1, RequestUpdates, NoRequestType DEF Requests
    <3>3. [local[h] EXCEPT !.reads = n].reads = n
      BY <1>a DEF Requests
    <3> QED BY <2>1, <3>1, <3>2, <3>3 DEF TypeOK
  <2>2. CASE UNCHANGED local /\ (Goto(h, "answer") \/ Goto(h, "change"))
    BY <1>4, <2>2 DEF ProviderResponds, TypeOK
  <2>3. CASE \E n \in 1..MaxReads : local' = [local EXCEPT ![h].reads = n] /\ Goto(h, "read")
    BY <1>4, <2>1, <2>3 DEF ProviderResponds, TypeOK
  <2> QED BY <1>4, <2>2, <2>3 DEF ProviderResponds
<1>5. CASE FinishAnswer(h)
  BY <1>5, StatusSaveType, StatusNames DEF FinishAnswer, TypeOK
<1>6. CASE LimitReached(h)
  <2> DEFINE over == MaxToolCalls + 1
             new == [cached[h] EXCEPT !.status = "failed", !.count = over]
  <2>1. over \in Nat
    BY LimitsAssumption
  <2>2. new \in Rows
    BY <1>a, <2>1, RowUpdates, StatusNames, {} \in SUBSET Calls
  <2>3. Written(h, new) \in Rows
    BY <2>2, WrittenType
  <2>4. [Written(h, new) EXCEPT !.count = over] \in Rows
    BY <2>1, <2>3, RowUpdates, StatusNames, {} \in SUBSET Calls
  <2>5. run' = [Written(h, new) EXCEPT !.count = over] /\ cached' = [cached EXCEPT ![h] = new]
    BY <1>6 DEF LimitReached
  <2> HIDE DEF new, over
  <2>6. run' \in Rows /\ cached' \in [Handlers -> Rows]
    BY <2>2, <2>4, <2>5 DEF TypeOK
  <2> QED BY <1>6, <2>6 DEF LimitReached, TypeOK
<1>7. CASE Propose(h)
  BY <1>7, StatusSaveType, StatusNames DEF Propose, TypeOK
<1>8. CASE ReadToolReturns(h)
  <2> DEFINE left == local[h].reads - 1
             next == [local[h] EXCEPT !.reads = left, !.call = NoCall]
  <2>1. left \in Nat /\ (local[h].reads # 1 => left > 0)
    BY <1>8, <1>a DEF ReadToolReturns, Requests
  <2>2. next \in Requests /\ next.reads = left
    <3>1. next.reads = left
      BY <1>a DEF Requests
    <3> QED BY <1>a, <2>1, <3>1, RequestUpdates, NoRequestType DEF Requests
  <2>3. local' = [local EXCEPT ![h] = next]
    BY <1>8 DEF ReadToolReturns
  <2>4. calls' \in [Calls -> ToolCalls]
    BY <1>8, OutcomeType DEF ReadToolReturns, Outcomes
  <2>5. /\ pc[h] = "read_tool"
        /\ Goto(h, IF local[h].reads = 1 THEN "loop" ELSE "read")
        /\ UNCHANGED <<run, applies, active, event, cancelSet, cached>>
    BY <1>8 DEF ReadToolReturns
  <2> HIDE DEF next, left
  <2>6. TypeOK'
    BY <2>2, <2>3, <2>4, <2>5 DEF TypeOK
  <2>7. ReadsLeft' /\ DecidePointsNameCall'
    BY <2>1, <2>2, <2>3, <2>5 DEF TypeOK
  <2> QED BY <2>6, <2>7
<1>9. ASSUME NEW c \in Calls, CreateChangeCall(h, c) PROVE TypeInv'
  <2>1. "pending" \in ApprovalStates /\ CreateCall(h, c, "pending")
    BY <1>9 DEF CreateChangeCall, ApprovalStates
  <2>2. local'[h].call = c
    BY <1>a, <2>1 DEF CreateCall, Requests, TypeOK
  <2>3. TypeOK'
    BY <1>9, <2>1, CreateCallType DEF CreateChangeCall, CreateCall, TypeOK
  <2> QED BY <1>9, <2>1, <2>2, <2>3 DEF CreateChangeCall, CreateCall, TypeOK
<1>10. ASSUME NEW c \in Calls, CreateReadCall(h, c) PROVE TypeInv'
  <2>1. "not_required" \in ApprovalStates /\ CreateCall(h, c, "not_required")
    BY <1>10 DEF CreateReadCall, ApprovalStates
  <2>2. local'[h].call = c /\ local'[h].reads = local[h].reads
    BY <1>a, <2>1 DEF CreateCall, Requests, TypeOK
  <2>3. TypeOK'
    BY <1>10, <2>1, CreateCallType DEF CreateReadCall, CreateCall, TypeOK
  <2> QED BY <1>10, <2>1, <2>2, <2>3 DEF CreateReadCall, CreateCall, TypeOK
<1>11. ASSUME NEW s \in {"failed", "timed_out"}, SegmentFails(h, s) PROVE TypeInv'
  BY <1>11, StatusSaveType, StatusNames DEF SegmentFails, TypeOK
<1>12. CASE Close(h)
  <2>1. run' \in Rows
    BY <1>12, <1>a, SpentType, WrittenType DEF Close
  <2> QED BY <1>12, <2>1, ReturnType DEF Close, Deactivate, TypeOK
<1>13. CASE AbortSave(h)
  <2>1. run' \in Rows
    <3>1. PICK row \in Spent(cached[h]) :
             run' = IF cached[h].status = "running"
                    THEN Written(h, [row EXCEPT !.status = "resuming"]) ELSE run
      BY <1>13 DEF AbortSave
    <3>2. row \in Rows
      BY <1>a, SpentType
    <3>3. [row EXCEPT !.status = "resuming"] \in Rows
      BY <3>2, RowUpdates, StatusNames, 0 \in Nat
    <3> QED BY <3>1, <3>3, WrittenType DEF TypeOK
  <2> QED BY <1>13, <2>1, ReturnType DEF AbortSave, Deactivate, TypeOK
<1> QED BY <1>1, <1>2, <1>3, <1>4, <1>5, <1>6, <1>7, <1>8, <1>9, <1>10,
           <1>11, <1>12, <1>13 DEF SegmentStep

LEMMA DecideTypes ==
    ASSUME TypeInv, NEW h \in Handlers,
           DecideStep(h) \/ ReconnectStep(h) \/ Activate(h) \/ ActivateConflict(h)
    PROVE  TypeInv'
<1> USE DEF TypeInv, ReadsLeft, DecidePointsNameCall, DecidePoints, Goto, Points,
            ReconnectPoints
<1>a. /\ local[h] \in Requests /\ cached[h] \in Rows /\ run \in Rows
      /\ \A c \in Calls : calls[c] \in ToolCalls
  BY DEF TypeOK
<1>b. ASSUME NEW s \in Statuses PROVE [run EXCEPT !.status = s] \in Rows
  BY <1>a, RowUpdates, 0 \in Nat
<1>1. CASE ExpireRun(h)
  <2>1. [cached[h] EXCEPT !.status = "timed_out"] \in Rows
    BY <1>a, RowUpdates, StatusNames, 0 \in Nat
  <2> QED BY <1>1, <2>1, WrittenType, ReturnType DEF ExpireRun, TypeOK
<1>2. CASE Claim(h)
  <2>1. local[h].call \in Calls /\ local[h].decision \in ApprovalStates
    BY <1>2, <1>a DEF Claim, Requests, ApprovalStates
  <2>2. [calls[local[h].call] EXCEPT !.state = local[h].decision] \in ToolCalls
    BY <2>1, <1>a, CallUpdates, "none" \in Outcomes DEF Outcomes
  <2>3. run' \in Rows
    BY <1>2, <1>b, StatusNames DEF Claim
  <2> QED BY <1>2, <2>1, <2>2, <2>3 DEF Claim, TypeOK
<1>3. CASE ClaimConflict(h)
  BY <1>3, ReturnType DEF ClaimConflict, TypeOK
<1>4. CASE Refresh(h)
  BY <1>4 DEF Refresh, Load, TypeOK
<1>5. CASE ExecuteApproved(h)
  <2>1. calls' \in [Calls -> ToolCalls]
    BY <1>5, OutcomeType DEF ExecuteApproved, Outcomes
  <2>2. applies' \in [Calls -> Nat]
    BY <1>5 DEF ExecuteApproved, TypeOK
  <2> QED BY <1>5, <2>1, <2>2 DEF ExecuteApproved, TypeOK
<1>7. CASE SaveApproved(h)
  <2>1. AppendResult(h) /\ local[h].call \in Calls
    BY <1>7 DEF SaveApproved
  <2> QED BY <1>7, <2>1, AppendResultType DEF SaveApproved, TypeOK
<1>8. CASE SaveRejected(h)
  <2>1. AppendResult(h) /\ local[h].call \in Calls
    BY <1>8 DEF SaveRejected
  <2>2. calls' \in [Calls -> ToolCalls]
    BY <1>8, <2>1, OutcomeType DEF SaveRejected, Outcomes
  <2> QED BY <1>8, <2>1, <2>2, AppendResultType DEF SaveRejected, TypeOK
<1>9. ASSUME NEW s \in {"failed", "timed_out"}, ApprovedToolFails(h, s) PROVE TypeInv'
  <2>1. calls' \in [Calls -> ToolCalls]
    BY <1>9, OutcomeType DEF ApprovedToolFails, Outcomes
  <2>2. run' \in Rows
    BY <1>9, <1>b, StatusNames DEF ApprovedToolFails
  <2> QED BY <1>9, <2>1, <2>2, ReturnType DEF ApprovedToolFails, TypeOK
<1>10. CASE Transition(h)
  BY <1>10, <1>b, StatusNames DEF Transition, TypeOK
<1>11. CASE TransitionConflict(h)
  BY <1>11, ReturnType DEF TransitionConflict, TypeOK
<1>12. CASE Reload(h)
  BY <1>12 DEF Reload, Load, TypeOK
<1>13. CASE Activate(h)
  BY <1>13 DEF Activate, TypeOK, ActivePoints, SegmentPoints
<1>14. CASE ActivateConflict(h)
  BY <1>14, ReturnType DEF ActivateConflict, TypeOK
<1> QED BY <1>1, <1>2, <1>3, <1>4, <1>5, <1>7, <1>8, <1>9, <1>10, <1>11,
           <1>12, <1>13, <1>14 DEF DecideStep, ReconnectStep

LEMMA RequestTypes ==
    ASSUME TypeInv, NEW h \in Handlers, Request(h) \/ Fault(h)
    PROVE  TypeInv'
<1> USE DEF TypeInv, ReadsLeft, DecidePointsNameCall, DecidePoints, Goto, Points,
            ReconnectPoints, ActivePoints, SegmentPoints
<1>a. local[h] \in Requests /\ run \in Rows
  BY DEF TypeOK
<1>b. ASSUME NEW s \in Statuses PROVE [run EXCEPT !.status = s] \in Rows
  BY <1>a, RowUpdates, 0 \in Nat
<1>1. ASSUME NEW direct \in BOOLEAN, RunAgent(h, direct) PROVE TypeInv'
  <2>1. [NoRow EXCEPT !.status = "running"] \in Rows
    BY NoRequestType, RowUpdates, StatusNames, 0 \in Nat
  <2>2. [local[h] EXCEPT !.direct = direct] \in Requests
    BY <1>a, RequestUpdates, NoRequestType DEF Requests
  <2> QED BY <1>1, <2>1, <2>2 DEF RunAgent, TypeOK
<1>2. ASSUME NEW c \in Calls, NEW d \in Decisions, Decide(h, c, d) PROVE TypeInv'
  <2>1. [local[h] EXCEPT !.call = c, !.decision = d] \in Requests
    BY <1>a, RequestUpdates, 0 \in Nat
  <2>2. [local[h] EXCEPT !.call = c, !.decision = d].call = c
    BY <1>a DEF Requests
  <2>3. local' = [local EXCEPT ![h] = [local[h] EXCEPT !.call = c, !.decision = d]]
    BY <1>2 DEF Decide
  <2> DEFINE request == [local[h] EXCEPT !.call = c, !.decision = d]
  <2> HIDE DEF request
  <2>4. request \in Requests /\ request.call = c /\ local' = [local EXCEPT ![h] = request]
    BY <2>1, <2>2, <2>3 DEF request
  <2>5. /\ Goto(h, IF run.expired THEN "expire" ELSE "claim")
        /\ cached' = [cached EXCEPT ![h] = run]
        /\ UNCHANGED <<run, calls, applies, active, event, cancelSet>>
    BY <1>2 DEF Decide, Load
  <2> QED BY <2>4, <2>5 DEF TypeOK
<1>3. CASE Reconnect(h)
  BY <1>3 DEF Reconnect, Load, TypeOK
<1>4. CASE Cancel(h)
  BY <1>4, <1>b, StatusNames DEF Cancel, TypeOK
<1>5. CASE DisconnectAtAwait(h)
  BY <1>5, NoRequestType DEF DisconnectAtAwait, Load, TypeOK
<1>6. CASE DisconnectAtYield(h)
  BY <1>6 DEF DisconnectAtYield, TypeOK
<1>7. CASE DisconnectOutside(h)
  BY <1>7, ReturnType DEF DisconnectOutside, TypeOK
<1> QED BY <1>1, <1>2, <1>3, <1>4, <1>5, <1>6, <1>7 DEF Request, Fault

LEMMA TypeStep == TypeInv /\ [Next]_vars => TypeInv'
<1> SUFFICES ASSUME TypeInv, [Next]_vars PROVE TypeInv'
  OBVIOUS
<1>1. CASE Crash
  BY <1>1, NoRequestType DEF Crash, TypeInv, ReadsLeft, DecidePointsNameCall, DecidePoints,
     TypeOK, Points
<1>2. CASE UNCHANGED vars
  BY <1>2 DEF vars, TypeInv, ReadsLeft, DecidePointsNameCall, TypeOK
<1> QED BY <1>1, <1>2, SegmentTypes, DecideTypes, RequestTypes DEF Next, HandlerStep

LEMMA TypeInit == Init => TypeInv
<1> SUFFICES ASSUME Init PROVE TypeInv
  OBVIOUS
<1>1. calls \in [Calls -> ToolCalls]
  BY DEF Init, ToolCalls, ApprovalStates, Outcomes
<1>2. TypeOK
  BY <1>1, NoRequestType DEF Init, TypeOK, Points
<1>3. ReadsLeft /\ DecidePointsNameCall
  BY DEF Init, ReadsLeft, DecidePointsNameCall, DecidePoints
<1> QED BY <1>2, <1>3 DEF TypeInv

(* Every variable keeps its type, in every environment.                    *)
THEOREM TypeCorrect == Spec => []TypeOK
<1>1. TypeInv => TypeOK
  BY DEF TypeInv
<1> QED BY <1>1, TypeInit, TypeStep, PTL DEF Spec

-----------------------------------------------------------------------------
(* The approval gate                                                       *)

(* Points between the commit of a decision and its outcome.                *)
DecidingPoints == {"refresh", "execute", "reject"}

(* The invariant behind the gate: a request that has claimed a decision is *)
(* the only one for its call, which is decided as it says and not over.    *)
GateInv ==
    /\ \A h \in Handlers : pc[h] \in DecidingPoints =>
          /\ calls[local[h].call].state = local[h].decision
          /\ calls[local[h].call].outcome = "none"
    /\ \A h \in Handlers :
          /\ pc[h] = "execute" => local[h].decision = "approved"
          /\ pc[h] = "reject" => local[h].decision = "rejected"
    /\ \A h, g \in Handlers :
          pc[h] \in DecidingPoints /\ pc[g] \in DecidingPoints /\ local[h].call = local[g].call
              => h = g
    /\ \A h \in Handlers :
          pc[h] = "read_tool" => calls[local[h].call].state = "not_required"
    /\ \A c \in Calls : calls[c].state \in {"none", "pending"} => calls[c].outcome = "none"
    /\ AuditMatchesWorkspace

(* A step that leaves the calls alone and moves no request into the points *)
(* GateInv speaks of, except from the refresh to what follows it.          *)
QuietStep ==
    /\ UNCHANGED <<calls, applies>>
    /\ \A g \in Handlers : pc'[g] \in DecidingPoints \union {"read_tool"} =>
          /\ local'[g] = local[g]
          /\ \/ pc'[g] = pc[g]
             \/ /\ pc[g] = "refresh"
                /\ pc'[g] = IF local[g].decision = "approved" THEN "execute" ELSE "reject"

LEMMA QuietKeepsGate ==
    ASSUME TypeInv, GateInv, QuietStep
    PROVE  GateInv'
<1>a. \A h \in Handlers : local[h].decision \in {"approved", "rejected"}
  BY DEF TypeInv, TypeOK, Requests, Decisions
<1>1. AuditMatchesWorkspace'
  BY DEF GateInv, AuditMatchesWorkspace, QuietStep
<1>2. ASSUME NEW h \in Handlers, pc'[h] \in DecidingPoints
      PROVE  pc[h] \in DecidingPoints /\ local'[h] = local[h]
  BY <1>2 DEF QuietStep, DecidingPoints
<1>3. ASSUME NEW h \in Handlers, pc'[h] = "read_tool"
      PROVE  pc[h] = "read_tool" /\ local'[h] = local[h]
  BY <1>3 DEF QuietStep
<1>4. ASSUME NEW h \in Handlers
      PROVE  /\ pc'[h] = "execute" => local'[h].decision = "approved"
             /\ pc'[h] = "reject" => local'[h].decision = "rejected"
  BY <1>a DEF QuietStep, GateInv, DecidingPoints
<1>5. calls' = calls
  BY DEF QuietStep
<1> QED BY <1>1, <1>2, <1>3, <1>4, <1>5 DEF GateInv

LEMMA SegmentKeepsGate ==
    ASSUME TypeInv, GateInv, NEW h \in Handlers, SegmentStep(h)
    PROVE  GateInv'
<1> USE DEF Goto, DecidingPoints
<1>a. pc \in [Handlers -> Points] /\ local \in [Handlers -> Requests]
  BY DEF TypeInv, TypeOK
<1>b. calls \in [Calls -> ToolCalls] /\ applies \in [Calls -> Nat]
  BY DEF TypeInv, TypeOK
<1>1. CASE \/ SegmentStart(h) \/ LoopTop(h) \/ SeeCancel(h) \/ ProviderResponds(h)
           \/ FinishAnswer(h) \/ LimitReached(h) \/ Propose(h) \/ Close(h) \/ AbortSave(h)
           \/ \E s \in {"failed", "timed_out"} : SegmentFails(h, s)
  <2>1. UNCHANGED <<calls, applies>>
    BY <1>1 DEF SegmentStart, LoopTop, SeeCancel, ProviderResponds, FinishAnswer,
                LimitReached, Propose, Close, AbortSave, SegmentFails
  <2>2. /\ pc' = [pc EXCEPT ![h] = pc'[h]]
        /\ pc'[h] \notin DecidingPoints \union {"read_tool"}
    BY <1>1, <1>a DEF SegmentStart, LoopTop, SeeCancel, ProviderResponds, FinishAnswer,
                LimitReached, Propose, Close, AbortSave, SegmentFails, Return
  <2>3. \A g \in Handlers : g # h => local'[g] = local[g]
    BY <1>1, <1>a DEF SegmentStart, LoopTop, SeeCancel, ProviderResponds, FinishAnswer,
                LimitReached, Propose, Close, AbortSave, SegmentFails, Return
  <2>4. QuietStep
    BY <1>a, <2>1, <2>2, <2>3 DEF QuietStep
  <2> QED BY <2>4, QuietKeepsGate
<1>2. ASSUME NEW c \in Calls, NEW state \in {"pending", "not_required"},
             CreateCall(h, c, state), pc[h] \notin DecidingPoints,
             pc' = [pc EXCEPT ![h] = pc'[h]],
             \/ pc'[h] = "propose"
             \/ pc'[h] = "read_tool" /\ state = "not_required"
      PROVE  GateInv'
  <2>1. calls' = [calls EXCEPT ![c].state = state] /\ applies' = applies
    BY <1>2 DEF CreateCall
  <2>2. calls[c].state = "none" /\ calls[c].outcome = "none" /\ applies[c] = 0
    BY <1>2 DEF CreateCall, GateInv, AuditMatchesWorkspace
  <2>3. /\ calls'[c] = [state |-> state, outcome |-> "none"]
        /\ \A d \in Calls : d # c => calls'[d] = calls[d]
    BY <1>b, <2>1, <2>2 DEF ToolCalls
  <2>4. /\ local'[h].call = c
        /\ \A g \in Handlers : g # h => local'[g] = local[g] /\ pc'[g] = pc[g]
    BY <1>2, <1>a DEF CreateCall, Requests
  <2>5. \A g \in Handlers : pc[g] \in DecidingPoints \union {"read_tool"} =>
           local[g].call \in Calls /\ local[g].call # c
    <3> SUFFICES ASSUME NEW g \in Handlers, pc[g] \in DecidingPoints \union {"read_tool"}
                 PROVE  local[g].call \in Calls /\ local[g].call # c
      OBVIOUS
    <3>1. local[g].call \in Calls
      BY DEF TypeInv, DecidePointsNameCall, DecidePoints
    <3>2. calls[local[g].call].state \in {"approved", "rejected", "not_required"}
      BY <1>a DEF GateInv, Requests, Decisions
    <3> QED BY <2>2, <3>1, <3>2
  <2>6. AuditMatchesWorkspace'
    BY <2>1, <2>2, <2>3 DEF GateInv, AuditMatchesWorkspace
  <2>7. \A d \in Calls : calls'[d].state \in {"none", "pending"} => calls'[d].outcome = "none"
    BY <2>3 DEF GateInv
  <2>8. \A g \in Handlers : pc'[g] \in DecidingPoints =>
           /\ g # h
           /\ calls'[local'[g].call].state = local'[g].decision
           /\ calls'[local'[g].call].outcome = "none"
    BY <1>2, <2>3, <2>4, <2>5 DEF GateInv
  <2>9. \A g \in Handlers :
          pc'[g] = "read_tool" => calls'[local'[g].call].state = "not_required"
    BY <1>2, <2>3, <2>4, <2>5 DEF GateInv
  <2> QED BY <2>4, <2>6, <2>7, <2>8, <2>9 DEF GateInv
<1>3. ASSUME NEW c \in Calls, CreateChangeCall(h, c) PROVE GateInv'
  BY <1>2, <1>3, <1>a DEF CreateChangeCall
<1>4. ASSUME NEW c \in Calls, CreateReadCall(h, c) PROVE GateInv'
  BY <1>2, <1>4, <1>a DEF CreateReadCall
<1>5. CASE ReadToolReturns(h)
  <2> DEFINE c == local[h].call
  <2>1. c \in Calls /\ calls[c].state = "not_required"
    BY <1>5 DEF ReadToolReturns, TypeInv, DecidePointsNameCall, GateInv
  <2>2. /\ calls'[c] = [state |-> "not_required", outcome |-> "done"]
        /\ \A d \in Calls : d # c => calls'[d] = calls[d]
        /\ applies' = applies
    BY <1>5, <1>b, <2>1 DEF ReadToolReturns, ToolCalls
  <2>3. /\ pc'[h] \in {"loop", "read"}
        /\ \A g \in Handlers : g # h => local'[g] = local[g] /\ pc'[g] = pc[g]
    BY <1>5, <1>a DEF ReadToolReturns
  <2>4. \A g \in Handlers :
            pc[g] \in DecidingPoints \union {"read_tool"} => local[g].call \in Calls
    BY DEF TypeInv, DecidePointsNameCall, DecidePoints
  <2>5. \A g \in Handlers : pc[g] \in DecidingPoints => local[g].call # c
    BY <1>a, <2>1 DEF GateInv, Requests, Decisions
  <2>6. AuditMatchesWorkspace'
    BY <2>1, <2>2 DEF GateInv, AuditMatchesWorkspace
  <2>7. \A d \in Calls : calls'[d].state \in {"none", "pending"} => calls'[d].outcome = "none"
    BY <2>2 DEF GateInv
  <2>8. \A g \in Handlers : pc'[g] \in DecidingPoints =>
           /\ g # h
           /\ calls'[local'[g].call].state = local'[g].decision
           /\ calls'[local'[g].call].outcome = "none"
    BY <2>2, <2>3, <2>4, <2>5 DEF GateInv
  <2>9. \A g \in Handlers :
          pc'[g] = "read_tool" => calls'[local'[g].call].state = "not_required"
    BY <2>1, <2>2, <2>3, <2>4 DEF GateInv
  <2> QED BY <2>3, <2>6, <2>7, <2>8, <2>9 DEF GateInv
<1> QED BY <1>1, <1>3, <1>4, <1>5 DEF SegmentStep

(* A step that decides, executes or closes the call of request h.          *)
CallStep(h) ==
    LET c == local[h].call IN
    /\ c \in Calls
    /\ pc[h] \in DecidingPoints \/ calls[c].state = "pending"
    /\ \A d \in Calls : d # c => calls'[d] = calls[d] /\ applies'[d] = applies[d]
    /\ calls'[c].state \notin {"none", "pending"}
    /\ applies'[c] = IF calls'[c] = [state |-> "approved", outcome |-> "done"] THEN 1 ELSE 0
    /\ \A g \in Handlers : g # h => local'[g] = local[g] /\ pc'[g] = pc[g]
    /\ \/ pc'[h] \notin DecidingPoints \union {"read_tool"}
       \/ /\ pc'[h] = "refresh" /\ local'[h] = local[h]
          /\ calls'[c] = [state |-> local[h].decision, outcome |-> "none"]

LEMMA CallStepKeepsGate ==
    ASSUME TypeInv, GateInv, NEW h \in Handlers, CallStep(h)
    PROVE  GateInv'
<1> USE DEF DecidingPoints, CallStep
<1> DEFINE c == local[h].call
<1>a. \A g \in Handlers : local[g] \in Requests
  BY DEF TypeInv, TypeOK
<1>1. \A g \in Handlers : pc[g] \in DecidingPoints \union {"read_tool"} => local[g].call \in Calls
  BY DEF TypeInv, DecidePointsNameCall, DecidePoints
<1>2. \A g \in Handlers : g # h /\ pc[g] \in DecidingPoints => local[g].call # c
  BY <1>a DEF GateInv, Requests, Decisions
<1>3. \A g \in Handlers : g # h /\ pc[g] = "read_tool" => local[g].call # c
  <2> SUFFICES ASSUME NEW g \in Handlers, g # h, pc[g] = "read_tool", local[g].call = c
               PROVE  FALSE
    OBVIOUS
  <2>1. calls[c].state = "not_required"
    BY DEF GateInv
  <2>2. pc[h] \in DecidingPoints => calls[c].state \in {"approved", "rejected"}
    BY <1>a DEF GateInv, Requests, Decisions
  <2> QED BY <2>1, <2>2
<1>4. AuditMatchesWorkspace'
  BY DEF GateInv, AuditMatchesWorkspace
<1>5. \A d \in Calls : calls'[d].state \in {"none", "pending"} => calls'[d].outcome = "none"
  BY DEF GateInv
<1>6. \A g \in Handlers : pc'[g] \in DecidingPoints =>
         /\ calls'[local'[g].call].state = local'[g].decision
         /\ calls'[local'[g].call].outcome = "none"
  BY <1>1, <1>2 DEF GateInv
<1>7. \A g \in Handlers :
        pc'[g] = "read_tool" => calls'[local'[g].call].state = "not_required"
  BY <1>1, <1>3 DEF GateInv
<1>8. \A g, k \in Handlers :
         pc'[g] \in DecidingPoints /\ pc'[k] \in DecidingPoints /\ local'[g].call = local'[k].call
             => g = k
  BY <1>2 DEF GateInv
<1>9. \A g \in Handlers :
         /\ pc'[g] = "execute" => local'[g].decision = "approved"
         /\ pc'[g] = "reject" => local'[g].decision = "rejected"
  BY DEF GateInv
<1> QED BY <1>4, <1>5, <1>6, <1>7, <1>8, <1>9 DEF GateInv

LEMMA DecideKeepsGate ==
    ASSUME TypeInv, GateInv, NEW h \in Handlers,
           DecideStep(h) \/ ReconnectStep(h) \/ Activate(h) \/ ActivateConflict(h)
    PROVE  GateInv'
<1> USE DEF Goto, DecidingPoints
<1>a. pc \in [Handlers -> Points] /\ local \in [Handlers -> Requests]
  BY DEF TypeInv, TypeOK
<1>b. calls \in [Calls -> ToolCalls] /\ applies \in [Calls -> Nat]
  BY DEF TypeInv, TypeOK
<1>c. pc[h] \in DecidePoints => local[h].call \in Calls
  BY DEF TypeInv, DecidePointsNameCall
<1>d. local[h].decision \in {"approved", "rejected"}
  BY <1>a DEF Requests, Decisions
<1>1. CASE \/ ExpireRun(h) \/ ClaimConflict(h) \/ Refresh(h) \/ SaveApproved(h)
           \/ ReconnectStep(h) \/ Activate(h) \/ ActivateConflict(h)
  <2> USE DEF ExpireRun, ClaimConflict, Refresh, SaveApproved, AppendResult, ReconnectStep,
              Transition, TransitionConflict, Reload, Activate, ActivateConflict, Return
  <2>1. UNCHANGED <<calls, applies>>
    BY <1>1
  <2>2. pc' = [pc EXCEPT ![h] = pc'[h]]
    BY <1>1, <1>a
  <2>3. \/ pc'[h] \notin DecidingPoints \union {"read_tool"}
        \/ /\ local'[h] = local[h] /\ pc[h] = "refresh"
           /\ pc'[h] = IF local[h].decision = "approved" THEN "execute" ELSE "reject"
    BY <1>1, <1>a
  <2>4. \A g \in Handlers : g # h => local'[g] = local[g]
    BY <1>1, <1>a
  <2>5. QuietStep
    BY <1>a, <2>1, <2>2, <2>3, <2>4 DEF QuietStep
  <2> QED BY <2>5, QuietKeepsGate
<1>2. CASE Claim(h)
  <2> DEFINE c == local[h].call
  <2>1. /\ c \in Calls /\ calls[c].state = "pending" /\ calls[c].outcome = "none"
        /\ applies[c] = 0
    BY <1>2, <1>c DEF Claim, Claimable, DecidePoints, GateInv, AuditMatchesWorkspace
  <2>2. /\ calls'[c] = [state |-> local[h].decision, outcome |-> "none"]
        /\ \A d \in Calls : d # c => calls'[d] = calls[d] /\ applies'[d] = applies[d]
        /\ applies' = applies
    BY <1>2, <1>b, <2>1 DEF Claim, ToolCalls
  <2>3. /\ pc'[h] = "refresh" /\ local' = local
        /\ \A g \in Handlers : g # h => pc'[g] = pc[g]
    BY <1>2, <1>a DEF Claim
  <2>4. applies'[c] = IF calls'[c] = [state |-> "approved", outcome |-> "done"] THEN 1 ELSE 0
    BY <2>1, <2>2
  <2>5. calls'[c].state \notin {"none", "pending"}
    BY <2>2, <1>d
  <2> QED BY <2>1, <2>2, <2>3, <2>4, <2>5, CallStepKeepsGate DEF CallStep
<1>3. CASE ExecuteApproved(h)
  <2> DEFINE c == local[h].call
  <2>1. /\ c \in Calls /\ calls[c].state = "approved" /\ calls[c].outcome = "none"
        /\ applies[c] = 0
    BY <1>3, <1>c DEF ExecuteApproved, DecidePoints, GateInv, AuditMatchesWorkspace
  <2>2. /\ calls'[c] = [state |-> "approved", outcome |-> "done"]
        /\ applies'[c] = 1
        /\ \A d \in Calls : d # c => calls'[d] = calls[d] /\ applies'[d] = applies[d]
    BY <1>3, <1>b, <2>1 DEF ExecuteApproved, ToolCalls
  <2>3. /\ pc'[h] = "resume" /\ pc[h] = "execute" /\ local' = local
        /\ \A g \in Handlers : g # h => pc'[g] = pc[g]
    BY <1>3, <1>a DEF ExecuteApproved
  <2>4. applies'[c] = IF calls'[c] = [state |-> "approved", outcome |-> "done"] THEN 1 ELSE 0
    BY <2>2
  <2>5. calls'[c].state \notin {"none", "pending"} /\ pc[h] \in DecidingPoints
    BY <2>2, <2>3
  <2>6. pc'[h] \notin DecidingPoints \union {"read_tool"}
    BY <2>3
  <2>7. \A g \in Handlers : g # h => local'[g] = local[g] /\ pc'[g] = pc[g]
    BY <2>3
  <2>8. CallStep(h)
    BY <2>1, <2>2, <2>4, <2>5, <2>6, <2>7 DEF CallStep
  <2> QED BY <2>8, CallStepKeepsGate
<1>4. ASSUME NEW s \in {"failed", "timed_out"}, ApprovedToolFails(h, s) PROVE GateInv'
  <2> DEFINE c == local[h].call
  <2>1. /\ c \in Calls /\ calls[c].state = "approved" /\ calls[c].outcome = "none"
        /\ applies[c] = 0
    BY <1>4, <1>c DEF ApprovedToolFails, DecidePoints, GateInv, AuditMatchesWorkspace
  <2>2. /\ calls'[c] = [state |-> "approved", outcome |-> "error"]
        /\ \A d \in Calls : d # c => calls'[d] = calls[d] /\ applies'[d] = applies[d]
        /\ applies' = applies
    BY <1>4, <1>b, <2>1 DEF ApprovedToolFails, ToolCalls
  <2>3. /\ pc'[h] = "idle" /\ pc[h] = "execute"
        /\ \A g \in Handlers : g # h => pc'[g] = pc[g] /\ local'[g] = local[g]
    BY <1>4, <1>a DEF ApprovedToolFails, Return
  <2>4. applies'[c] = IF calls'[c] = [state |-> "approved", outcome |-> "done"] THEN 1 ELSE 0
    BY <2>1, <2>2
  <2>5. calls'[c].state \notin {"none", "pending"} /\ pc[h] \in DecidingPoints
    BY <2>2, <2>3
  <2>6. pc'[h] \notin DecidingPoints \union {"read_tool"}
    BY <2>3
  <2>7. \A g \in Handlers : g # h => local'[g] = local[g] /\ pc'[g] = pc[g]
    BY <2>3
  <2>8. CallStep(h)
    BY <2>1, <2>2, <2>4, <2>5, <2>6, <2>7 DEF CallStep
  <2> QED BY <2>8, CallStepKeepsGate
<1>5. CASE SaveRejected(h)
  <2> DEFINE c == local[h].call
  <2>1. /\ c \in Calls /\ calls[c].state = "rejected" /\ applies[c] = 0
    BY <1>5, <1>c DEF SaveRejected, DecidePoints, GateInv, AuditMatchesWorkspace
  <2>2. /\ calls'[c] = [state |-> "rejected", outcome |-> "done"]
        /\ \A d \in Calls : d # c => calls'[d] = calls[d] /\ applies'[d] = applies[d]
        /\ applies' = applies
    BY <1>5, <1>b, <2>1 DEF SaveRejected, ToolCalls
  <2>3. /\ pc'[h] = "activate" /\ pc[h] = "reject"
        /\ \A g \in Handlers : g # h => pc'[g] = pc[g] /\ local'[g] = local[g]
    BY <1>5, <1>a DEF SaveRejected, AppendResult
  <2>4. applies'[c] = IF calls'[c] = [state |-> "approved", outcome |-> "done"] THEN 1 ELSE 0
    BY <2>1, <2>2
  <2>5. calls'[c].state \notin {"none", "pending"} /\ pc[h] \in DecidingPoints
    BY <2>2, <2>3
  <2>6. pc'[h] \notin DecidingPoints \union {"read_tool"}
    BY <2>3
  <2>7. \A g \in Handlers : g # h => local'[g] = local[g] /\ pc'[g] = pc[g]
    BY <2>3
  <2>8. CallStep(h)
    BY <2>1, <2>2, <2>4, <2>5, <2>6, <2>7 DEF CallStep
  <2> QED BY <2>8, CallStepKeepsGate
<1> QED BY <1>1, <1>2, <1>3, <1>4, <1>5 DEF DecideStep

LEMMA RequestKeepsGate ==
    ASSUME TypeInv, GateInv, NEW h \in Handlers, Request(h) \/ Fault(h)
    PROVE  GateInv'
<1> USE DEF Goto, DecidingPoints, Request, Fault, RunAgent, Decide, Reconnect, Cancel,
            DisconnectAtAwait, DisconnectAtYield, DisconnectOutside, Return
<1>a. pc \in [Handlers -> Points] /\ local \in [Handlers -> Requests]
  BY DEF TypeInv, TypeOK
<1>1. UNCHANGED <<calls, applies>>
  OBVIOUS
<1>2. /\ pc' = [pc EXCEPT ![h] = pc'[h]]
      /\ pc'[h] \notin DecidingPoints \union {"read_tool"}
  BY <1>a
<1>3. \A g \in Handlers : g # h => local'[g] = local[g]
  BY <1>a
<1>4. QuietStep
  BY <1>a, <1>1, <1>2, <1>3 DEF QuietStep
<1> QED BY <1>4, QuietKeepsGate

LEMMA GateStep == TypeInv /\ GateInv /\ [Next]_vars => GateInv'
<1> SUFFICES ASSUME TypeInv, GateInv, [Next]_vars PROVE GateInv'
  OBVIOUS
<1>1. CASE Crash
  <2>1. QuietStep
    BY <1>1 DEF Crash, QuietStep, DecidingPoints
  <2> QED BY <2>1, QuietKeepsGate
<1>2. CASE UNCHANGED vars
  <2>1. QuietStep
    BY <1>2 DEF vars, QuietStep
  <2> QED BY <2>1, QuietKeepsGate
<1> QED BY <1>1, <1>2, SegmentKeepsGate, DecideKeepsGate, RequestKeepsGate
        DEF Next, HandlerStep

LEMMA GateInit == Init => GateInv
  BY DEF Init, GateInv, DecidingPoints, AuditMatchesWorkspace

(* The audit trail tells the truth: a change reached the workspace, and    *)
(* did so once, exactly when its call is approved and recorded as done.    *)
THEOREM AuditIsTrue == Spec => []AuditMatchesWorkspace
<1>1. GateInv => AuditMatchesWorkspace
  BY DEF GateInv
<1> QED BY <1>1, TypeInit, TypeStep, GateInit, GateStep, PTL DEF Spec

-----------------------------------------------------------------------------
(* Refinement                                                              *)

States == [c \in Calls |-> calls[c].state]

LEMMA GateStutter ==
    ASSUME \A c \in Calls : calls'[c].state = calls[c].state, applies' = applies
    PROVE  [Gate!Next]_Gate!gateVars
<1>1. [c \in Calls |-> calls[c].state]' = [c \in Calls |-> calls[c].state]
  OBVIOUS
<1> QED BY <1>1 DEF Gate!gateVars

(* Only one call changes state, and only as the gate allows.               *)
LEMMA GateMove ==
    ASSUME TypeInv, NEW c \in Calls, NEW s \in ApprovalStates,
           calls' = [calls EXCEPT ![c].state = s], applies' = applies,
           \/ calls[c].state = "none" /\ s \in {"pending", "not_required"}
           \/ calls[c].state = "pending" /\ s \in {"approved", "rejected"}
    PROVE  [Gate!Next]_Gate!gateVars
<1>1. calls \in [Calls -> ToolCalls]
  BY DEF TypeInv, TypeOK
<1>2. \A d \in Calls : calls'[d].state = IF d = c THEN s ELSE calls[d].state
  BY <1>1 DEF ToolCalls
<1>3. States' = [States EXCEPT ![c] = s]
  BY <1>2 DEF States
<1>4. States[c] = calls[c].state
  BY DEF States
<1>5. CASE calls[c].state = "none" /\ s \in {"pending", "not_required"}
  <2>1. Gate!Ask(c, s)
    BY <1>3, <1>4, <1>5 DEF Gate!Ask, States
  <2> QED BY <1>5, <2>1 DEF Gate!Next
<1>6. CASE calls[c].state = "pending" /\ s \in {"approved", "rejected"}
  <2>1. Gate!Decide(c, s)
    BY <1>3, <1>4, <1>6 DEF Gate!Decide, States
  <2> QED BY <1>6, <2>1 DEF Gate!Next
<1> QED BY <1>5, <1>6

(* Every step maps to a step of the gate or leaves it alone.               *)
LEMMA GateSimulation ==
    ASSUME TypeInv, GateInv, [Next]_vars
    PROVE  [Gate!Next]_Gate!gateVars
<1>a. calls \in [Calls -> ToolCalls] /\ local \in [Handlers -> Requests]
  BY DEF TypeInv, TypeOK
<1>1. ASSUME UNCHANGED <<calls, applies>> PROVE [Gate!Next]_Gate!gateVars
  BY <1>1, GateStutter
<1>2. ASSUME NEW c, NEW o, calls' = [calls EXCEPT ![c].outcome = o], applies' = applies
      PROVE  [Gate!Next]_Gate!gateVars
  <2>1. \A d \in Calls : calls'[d].state = calls[d].state
    BY <1>2, <1>a DEF ToolCalls
  <2> QED BY <1>2, <2>1, GateStutter
<1>3. ASSUME NEW h \in Handlers, SegmentStep(h) PROVE [Gate!Next]_Gate!gateVars
  <2>1. ASSUME NEW c \in Calls, CreateChangeCall(h, c) PROVE [Gate!Next]_Gate!gateVars
    BY <2>1, GateMove DEF CreateChangeCall, CreateCall, ApprovalStates
  <2>2. ASSUME NEW c \in Calls, CreateReadCall(h, c) PROVE [Gate!Next]_Gate!gateVars
    BY <2>2, GateMove DEF CreateReadCall, CreateCall, ApprovalStates
  <2>3. CASE ReadToolReturns(h)
    BY <2>3, <1>2 DEF ReadToolReturns
  <2>4. CASE \/ SegmentStart(h) \/ LoopTop(h) \/ SeeCancel(h) \/ ProviderResponds(h)
             \/ FinishAnswer(h) \/ LimitReached(h) \/ Propose(h) \/ Close(h) \/ AbortSave(h)
             \/ \E s \in {"failed", "timed_out"} : SegmentFails(h, s)
    BY <2>4, <1>1 DEF SegmentStart, LoopTop, SeeCancel, ProviderResponds, FinishAnswer,
                LimitReached, Propose, Close, AbortSave, SegmentFails
  <2> QED BY <1>3, <2>1, <2>2, <2>3, <2>4 DEF SegmentStep
<1>4. ASSUME NEW h \in Handlers, DecideStep(h) PROVE [Gate!Next]_Gate!gateVars
  <2>a. pc[h] \in DecidePoints => local[h].call \in Calls
    BY DEF TypeInv, DecidePointsNameCall
  <2>1. CASE Claim(h)
    <3>1. local[h].decision \in {"approved", "rejected"}
      BY <1>a DEF Requests, Decisions
    <3>2. local[h].call \in Calls /\ calls[local[h].call].state = "pending"
      BY <2>1, <2>a DEF Claim, Claimable, DecidePoints
    <3>3. local[h].decision \in ApprovalStates
      BY <3>1 DEF ApprovalStates, Decisions
    <3> QED BY <2>1, <3>1, <3>2, <3>3, GateMove DEF Claim
  <2>2. CASE ExecuteApproved(h)
    <3> DEFINE c == local[h].call
    <3>1. /\ c \in Calls /\ calls[c].state = "approved" /\ calls[c].outcome = "none"
          /\ applies[c] = 0
      BY <2>2, <2>a DEF ExecuteApproved, DecidePoints, GateInv, AuditMatchesWorkspace,
                      DecidingPoints
    <3>2. \A d \in Calls : calls'[d].state = calls[d].state
      BY <2>2, <1>a DEF ExecuteApproved, ToolCalls
    <3>3. States' = States /\ States[c] = "approved"
      BY <3>1, <3>2 DEF States
    <3>4. applies' = [applies EXCEPT ![c] = 1]
      BY <2>2, <3>1 DEF ExecuteApproved
    <3>5. Gate!Apply(c)
      BY <3>1, <3>3, <3>4 DEF Gate!Apply, States
    <3> QED BY <3>1, <3>5 DEF Gate!Next
  <2>3. ASSUME NEW s \in {"failed", "timed_out"}, ApprovedToolFails(h, s)
        PROVE  [Gate!Next]_Gate!gateVars
    BY <2>3, <1>2 DEF ApprovedToolFails
  <2>4. CASE SaveRejected(h)
    BY <2>4, <1>2 DEF SaveRejected
  <2>5. CASE ExpireRun(h) \/ ClaimConflict(h) \/ Refresh(h) \/ SaveApproved(h)
    BY <2>5, <1>1 DEF ExpireRun, ClaimConflict, Refresh, SaveApproved
  <2> QED BY <1>4, <2>1, <2>2, <2>3, <2>4, <2>5 DEF DecideStep
<1>5. ASSUME NEW h \in Handlers,
             \/ ReconnectStep(h) \/ Activate(h) \/ ActivateConflict(h)
             \/ Request(h) \/ Fault(h)
      PROVE  [Gate!Next]_Gate!gateVars
  BY <1>5, <1>1 DEF ReconnectStep, Transition, TransitionConflict, Reload, Activate,
     ActivateConflict, Request, RunAgent, Decide, Reconnect, Cancel, Fault,
     DisconnectAtAwait, DisconnectAtYield, DisconnectOutside
<1>6. CASE Crash
  BY <1>6, <1>1 DEF Crash
<1>7. CASE UNCHANGED vars
  BY <1>7, <1>1 DEF vars
<1> QED BY <1>3, <1>4, <1>5, <1>6, <1>7 DEF Next, HandlerStep

(* The agent implements the approval gate: a change is decided once, and   *)
(* only an approved change reaches the workspace, at most once, whatever   *)
(* requests race, clients vanish and restarts happen.                      *)
THEOREM AgentImplementsGate == Spec => ImplementsGate
<1>1. Init => Gate!Init
  BY DEF Init, Gate!Init
<1> QED BY <1>1, TypeInit, TypeStep, GateInit, GateStep, GateSimulation, PTL
        DEF Spec, ImplementsGate, Gate!Spec

-----------------------------------------------------------------------------
(* Requests and what they touch                                            *)

(* A request disturbs no other request's session.                          *)
LEMMA OthersStay ==
    ASSUME TypeInv, NEW h \in Handlers, HandlerStep(h) \/ Request(h) \/ Fault(h)
    PROVE  \A g \in Handlers : g # h =>
              pc'[g] = pc[g] /\ cached'[g] = cached[g] /\ local'[g] = local[g]
<1>a. /\ pc \in [Handlers -> Points] /\ cached \in [Handlers -> Rows]
      /\ local \in [Handlers -> Requests]
  BY DEF TypeInv, TypeOK
<1> USE DEF Goto, Load, Save, Return
<1>1. CASE SegmentStep(h)
  BY <1>a, <1>1 DEF SegmentStep, SegmentStart, LoopTop, SeeCancel, ProviderResponds,
     FinishAnswer, LimitReached, Propose, ReadToolReturns, CreateChangeCall, CreateReadCall,
     CreateCall, SegmentFails, Close, AbortSave
<1>2. CASE DecideStep(h)
  BY <1>a, <1>2 DEF DecideStep, ExpireRun, Claim, ClaimConflict, Refresh, ExecuteApproved,
     SaveApproved, SaveRejected, AppendResult, ApprovedToolFails
<1>3. CASE ReconnectStep(h) \/ Activate(h) \/ ActivateConflict(h)
  BY <1>a, <1>3 DEF ReconnectStep, Transition, TransitionConflict, Reload, Activate,
     ActivateConflict
<1>4. CASE Request(h)
  BY <1>a, <1>4 DEF Request, RunAgent, Decide, Reconnect, Cancel
<1>5. CASE Fault(h)
  BY <1>a, <1>5 DEF Fault, DisconnectAtAwait, DisconnectAtYield, DisconnectOutside
<1> QED BY <1>1, <1>2, <1>3, <1>4, <1>5 DEF HandlerStep

(* An idle handler does nothing until a request reaches it.                *)
LEMMA IdleDoesNothing ==
    ASSUME NEW h \in Handlers, pc[h] = "idle"
    PROVE  ~HandlerStep(h) /\ ~Fault(h)
  BY DEF HandlerStep, SegmentStep, SegmentStart, LoopTop, SeeCancel, ProviderResponds,
     FinishAnswer, LimitReached, Propose, ReadToolReturns, CreateChangeCall, CreateReadCall,
     SegmentFails, Close, AbortSave, DecideStep, ExpireRun, Claim, ClaimConflict, Refresh,
     ExecuteApproved, SaveApproved, SaveRejected, ApprovedToolFails, ReconnectStep,
     Transition, TransitionConflict, Reload, Activate, ActivateConflict, Fault,
     DisconnectAtAwait, DisconnectAtYield, DisconnectOutside, SegmentPoints, DecidePoints,
     ReconnectPoints

-----------------------------------------------------------------------------
(* One segment at a time                                                   *)

(* A run without a row has no requests and no calls.                       *)
StartedOnce ==
    run.status = "none" =>
        /\ \A h \in Handlers : pc[h] = "idle"
        /\ \A c \in Calls : calls[c].state = "none" /\ applies[c] = 0

(* Once there is a row its status is never "none" again.                   *)
LEMMA StatusKept ==
    ASSUME TypeInv, [Next]_vars, run.status # "none"
    PROVE  run'.status # "none"
<1>a. cached \in [Handlers -> Rows] /\ run \in Rows
  BY DEF TypeInv, TypeOK
<1>1. ASSUME NEW h \in Handlers, NEW new, new.status # "none"
      PROVE  Written(h, new).status # "none"
  BY <1>1 DEF Written
<1>2. ASSUME NEW h \in Handlers, NEW s, s # "none"
      PROVE  /\ [cached[h] EXCEPT !.status = s].status # "none"
             /\ [run EXCEPT !.status = s].status # "none"
  BY <1>a, <1>2 DEF Rows
<1>3. ASSUME NEW h \in Handlers, SegmentStep(h) PROVE run'.status # "none"
  <2>1. CASE \/ SegmentStart(h) \/ LoopTop(h) \/ SeeCancel(h) \/ FinishAnswer(h)
             \/ Propose(h) \/ \E s \in {"failed", "timed_out"} : SegmentFails(h, s)
    BY <2>1, <1>1, <1>2 DEF SegmentStart, LoopTop, SeeCancel, FinishAnswer, Propose,
       SegmentFails, Save
  <2>2. CASE ProviderResponds(h) \/ ReadToolReturns(h)
    BY <2>2 DEF ProviderResponds, ReadToolReturns
  <2>3. ASSUME NEW c \in Calls, NEW s, CreateCall(h, c, s) PROVE run'.status # "none"
    BY <2>3, <1>a DEF CreateCall, Save, Written, Rows
  <2>4. CASE LimitReached(h)
    BY <2>4, <1>a DEF LimitReached, Written, Rows
  <2>5. CASE Close(h)
    BY <2>5, <1>a DEF Close, Spent, Written, Rows
  <2>6. CASE AbortSave(h)
    BY <2>6, <1>a DEF AbortSave, Spent, Written, Rows
  <2> QED BY <1>3, <2>1, <2>2, <2>3, <2>4, <2>5, <2>6 DEF SegmentStep, CreateChangeCall,
             CreateReadCall
<1>4. ASSUME NEW h \in Handlers, DecideStep(h) PROVE run'.status # "none"
  <2>1. AppendResult(h) => run'.status # "none"
    BY <1>a DEF AppendResult, Save, Spent, Written, Rows
  <2> QED BY <1>1, <1>2, <1>4, <2>1 DEF DecideStep, ExpireRun, Claim, ClaimConflict, Refresh,
             ExecuteApproved, SaveApproved, SaveRejected, ApprovedToolFails
<1>5. ASSUME NEW h \in Handlers, ReconnectStep(h) \/ Activate(h) \/ ActivateConflict(h)
      PROVE  run'.status # "none"
  BY <1>5, <1>2 DEF ReconnectStep, Transition, TransitionConflict, Reload, Activate,
     ActivateConflict
<1>6. ASSUME NEW h \in Handlers, Request(h) \/ Fault(h) PROVE run'.status # "none"
  <2>1. CASE Cancel(h)
    BY <2>1, <1>2 DEF Cancel
  <2>2. ASSUME NEW direct \in BOOLEAN PROVE ~RunAgent(h, direct)
    BY DEF RunAgent
  <2>3. CASE Fault(h) \/ Reconnect(h) \/ \E c \in Calls, d \in Decisions : Decide(h, c, d)
    BY <2>3 DEF Decide, Reconnect, Fault, DisconnectAtAwait, DisconnectAtYield,
       DisconnectOutside
  <2> QED BY <1>6, <2>1, <2>2, <2>3 DEF Request
<1>7. CASE Crash \/ UNCHANGED vars
  BY <1>7 DEF Crash, vars
<1> QED BY <1>3, <1>4, <1>5, <1>6, <1>7 DEF Next, HandlerStep

LEMMA StatusStays ==
    ASSUME TypeInv, StartedOnce, [Next]_vars
    PROVE  StartedOnce'
<1>1. CASE run.status = "none"
  <2>1. CASE UNCHANGED vars
    BY <2>1, <1>1 DEF StartedOnce, vars
  <2>2. CASE Crash
    BY <2>2, <1>1 DEF StartedOnce, Crash
  <2>3. ASSUME NEW h \in Handlers, HandlerStep(h) \/ Fault(h)
        PROVE  FALSE
    BY <1>1, <2>3, IdleDoesNothing DEF StartedOnce
  <2>4. ASSUME NEW h \in Handlers, Request(h)
        PROVE  StartedOnce'
    <3>1. PICK direct \in BOOLEAN : RunAgent(h, direct)
      BY <2>4, <1>1 DEF Request, Decide, Reconnect, Cancel, Live
    <3>2. run'.status = "running"
      BY <3>1 DEF RunAgent, NoRow
    <3> QED BY <3>2 DEF StartedOnce
  <2> QED BY <2>1, <2>2, <2>3, <2>4 DEF Next
<1>2. CASE run.status # "none"
  BY <1>2, StatusKept DEF StartedOnce
<1> QED BY <1>1, <1>2

LEMMA StartedInit == Init => StartedOnce
  BY DEF Init, StartedOnce

(* The step of one request h keeps SingleSegment when it moves only h and  *)
(* leaves the active set as it is, h staying in it or out of it.           *)
LEMMA StayKeepsSegment ==
    ASSUME TypeInv, SingleSegment, NEW h \in Handlers,
           UNCHANGED <<active, event>>,
           \A g \in Handlers : g # h => pc'[g] = pc[g],
           pc[h] \in ActivePoints <=> pc'[h] \in ActivePoints
    PROVE  SingleSegment'
  BY DEF SingleSegment

LEMMA SegmentStepSingle ==
    ASSUME TypeInv, SingleSegment, NEW h \in Handlers, SegmentStep(h)
    PROVE  SingleSegment'
<1>a. pc \in [Handlers -> Points]
  BY DEF TypeInv, TypeOK
<1>b. \A g \in Handlers : g # h => pc'[g] = pc[g]
  BY OthersStay DEF HandlerStep
<1> USE DEF Goto
<1>1. CASE Close(h) \/ AbortSave(h)
  <2>1. pc[h] \in ActivePoints /\ pc'[h] = "idle" /\ active' = FALSE
    BY <1>1, <1>a DEF Close, AbortSave, Deactivate, Return, ActivePoints
  <2>2. \A g \in Handlers : pc'[g] \notin ActivePoints
    BY <1>b, <2>1, NamesAssumption DEF SingleSegment, ActivePoints, SegmentPoints
  <2> QED BY <2>1, <2>2 DEF SingleSegment
<1>2. CASE ~(Close(h) \/ AbortSave(h))
  <2>1. UNCHANGED <<active, event>>
    BY <1>2 DEF SegmentStep, SegmentStart, LoopTop, SeeCancel,
     ProviderResponds, FinishAnswer, LimitReached, Propose, ReadToolReturns,
     CreateChangeCall, CreateReadCall, CreateCall, SegmentFails
  <2>2. pc[h] \in ActivePoints /\ pc'[h] \in ActivePoints
    BY <1>2, <1>a DEF SegmentStep, SegmentStart, LoopTop, SeeCancel,
     ProviderResponds, FinishAnswer, LimitReached, Propose, ReadToolReturns,
     CreateChangeCall, CreateReadCall, SegmentFails, ActivePoints, SegmentPoints
  <2> QED BY <1>b, <2>1, <2>2, StayKeepsSegment
<1> QED BY <1>1, <1>2

LEMMA SingleStep ==
    ASSUME TypeInv, StartedOnce, SingleSegment, [Next]_vars
    PROVE  SingleSegment'
<1>a. pc \in [Handlers -> Points]
  BY DEF TypeInv, TypeOK
<1> USE DEF Goto
<1>1. CASE UNCHANGED vars
  BY <1>1 DEF SingleSegment, vars
<1>2. CASE Crash
  BY <1>2 DEF SingleSegment, Crash, ActivePoints, SegmentPoints
<1>3. ASSUME NEW h \in Handlers, HandlerStep(h) PROVE SingleSegment'
  <2>b. \A g \in Handlers : g # h => pc'[g] = pc[g]
    BY <1>3, OthersStay
  <2>1. CASE SegmentStep(h)
    BY <2>1, SegmentStepSingle
  <2>2. CASE Activate(h)
    <3>1. \A g \in Handlers : pc[g] \notin ActivePoints
      BY <2>2 DEF Activate, SingleSegment
    <3>2. pc'[h] = "segment" /\ active' = TRUE /\ event' = h
      BY <2>2, <1>a DEF Activate
    <3> QED BY <2>b, <3>1, <3>2 DEF SingleSegment, ActivePoints, SegmentPoints
  <2>3. CASE ActivateConflict(h) \/ DecideStep(h) \/ ReconnectStep(h)
    <3>1. UNCHANGED <<active, event>>
      BY <2>3 DEF DecideStep, ExpireRun, Claim, ClaimConflict, Refresh, ExecuteApproved,
         SaveApproved, SaveRejected, ApprovedToolFails, ReconnectStep, Transition,
         TransitionConflict, Reload, ActivateConflict
    <3>2. pc[h] \notin ActivePoints /\ pc'[h] \notin ActivePoints
      BY <2>3, <1>a DEF DecideStep, ExpireRun, Claim, ClaimConflict, Refresh, ExecuteApproved,
         SaveApproved, SaveRejected, AppendResult, ApprovedToolFails, ReconnectStep, Transition,
         TransitionConflict, Reload, ActivateConflict, Return, ActivePoints, SegmentPoints
    <3> QED BY <2>b, <3>1, <3>2, StayKeepsSegment
  <2> QED BY <1>3, <2>1, <2>2, <2>3 DEF HandlerStep
<1>4. ASSUME NEW h \in Handlers, Request(h) PROVE SingleSegment'
  <2>b. \A g \in Handlers : g # h => pc'[g] = pc[g]
    BY <1>4, OthersStay
  <2>1. ASSUME NEW direct \in BOOLEAN, RunAgent(h, direct) PROVE SingleSegment'
    <3>1. \A g \in Handlers : pc[g] = "idle"
      BY <2>1 DEF RunAgent, StartedOnce
    <3>2. pc'[h] = "segment" /\ active' = TRUE /\ event' = h
      BY <2>1, <1>a DEF RunAgent
    <3> QED BY <2>b, <3>1, <3>2 DEF SingleSegment, ActivePoints, SegmentPoints
  <2>2. CASE Reconnect(h) \/ Cancel(h) \/ \E c \in Calls, d \in Decisions : Decide(h, c, d)
    <3>1. /\ UNCHANGED <<active, event>>
          /\ pc[h] \notin ActivePoints /\ pc'[h] \notin ActivePoints
      BY <2>2, <1>a DEF Reconnect, Cancel, Decide, ActivePoints, SegmentPoints
    <3> QED BY <2>b, <3>1, StayKeepsSegment
  <2> QED BY <1>4, <2>1, <2>2 DEF Request
<1>5. ASSUME NEW h \in Handlers, Fault(h) PROVE SingleSegment'
  <2>1. UNCHANGED <<active, event>>
    BY <1>5 DEF Fault, DisconnectAtAwait, DisconnectAtYield, DisconnectOutside
  <2>2. pc[h] \in ActivePoints <=> pc'[h] \in ActivePoints
    BY <1>5, <1>a DEF Fault, DisconnectAtAwait, DisconnectAtYield, DisconnectOutside,
       Return, ActivePoints, SegmentPoints, DecidePoints, ReconnectPoints
  <2> QED BY <1>5, <2>1, <2>2, OthersStay, StayKeepsSegment
<1> QED BY <1>1, <1>2, <1>3, <1>4, <1>5 DEF Next

LEMMA SingleInit == Init => SingleSegment
  BY DEF Init, SingleSegment, ActivePoints, SegmentPoints

(* At most one request at a time runs a segment, and it is the one whose   *)
(* event is registered, whatever races, disconnects and crashes happen.    *)
THEOREM OneSegmentAtATime == Spec => []SingleSegment
  BY TypeInit, TypeStep, StartedInit, StatusStays, SingleInit, SingleStep, PTL DEF Spec

LEMMA ClosedStep ==
    ASSUME run.status \in Terminal, \A h \in Handlers : pc[h] = "idle", [Next]_vars,
           TypeInv
    PROVE  run'.status = run.status /\ pc' = pc
<1>a. run.status \in {"completed", "cancelled", "failed", "timed_out"}
  BY DEF Terminal
<1>b. pc = [h \in Handlers |-> "idle"]
  BY DEF TypeInv, TypeOK
<1>1. CASE Crash \/ UNCHANGED vars
  BY <1>b, <1>1 DEF Crash, vars
<1>2. ASSUME NEW h \in Handlers PROVE ~Request(h)
  BY <1>a DEF Request, RunAgent, Decide, Reconnect, Cancel, Live
<1> QED BY <1>1, <1>2, IdleDoesNothing DEF Next

(* A run that ended stays as it ended once nobody works on it.             *)
THEOREM EndedRunsStayClosed == Spec => EndedRunIsClosed
<1>1. TypeInv /\ [Next]_vars =>
        [run.status \in Terminal /\ (\A h \in Handlers : pc[h] = "idle")
           => run'.status = run.status /\ pc' = pc]_vars
  BY ClosedStep
<1> QED BY <1>1, TypeInit, TypeStep, PTL DEF Spec, EndedRunIsClosed

-----------------------------------------------------------------------------
(* Who touches what                                                        *)

(* Only a new call and a claimed decision change the state of a call ...   *)
LEMMA CallsStay ==
    ASSUME TypeInv, NEW h \in Handlers, HandlerStep(h) \/ Request(h) \/ Fault(h)
    PROVE  \/ \A c \in Calls : calls'[c].state = calls[c].state
           \/ Claim(h)
           \/ \E c \in Calls : CreateChangeCall(h, c) \/ CreateReadCall(h, c)
<1>a. calls \in [Calls -> ToolCalls]
  BY DEF TypeInv, TypeOK
<1>b. ASSUME NEW c, NEW o, calls' = [calls EXCEPT ![c].outcome = o]
      PROVE  \A d \in Calls : calls'[d].state = calls[d].state
  BY <1>a, <1>b DEF ToolCalls
<1>1. CASE SegmentStep(h)
  BY <1>1, <1>b DEF SegmentStep, SegmentStart, LoopTop, SeeCancel, ProviderResponds,
     FinishAnswer, LimitReached, Propose, ReadToolReturns, SegmentFails, Close, AbortSave
<1>2. CASE DecideStep(h)
  BY <1>2, <1>b DEF DecideStep, ExpireRun, ClaimConflict, Refresh, ExecuteApproved,
     SaveApproved, SaveRejected, ApprovedToolFails
<1>3. CASE ReconnectStep(h) \/ Activate(h) \/ ActivateConflict(h) \/ Request(h) \/ Fault(h)
  BY <1>3 DEF ReconnectStep, Transition, TransitionConflict, Reload, Activate,
     ActivateConflict, Request, RunAgent, Decide, Reconnect, Cancel, Fault,
     DisconnectAtAwait, DisconnectAtYield, DisconnectOutside
<1> QED BY <1>1, <1>2, <1>3 DEF HandlerStep

(* ... only the execution of an approved one changes the workspace ...     *)
LEMMA AppliesStay ==
    ASSUME NEW h \in Handlers, HandlerStep(h) \/ Request(h) \/ Fault(h), ~ExecuteApproved(h)
    PROVE  applies' = applies
<1>1. CASE SegmentStep(h)
  BY <1>1 DEF SegmentStep, SegmentStart, LoopTop, SeeCancel, ProviderResponds,
     FinishAnswer, LimitReached, Propose, ReadToolReturns, CreateChangeCall, CreateReadCall,
     CreateCall, SegmentFails, Close, AbortSave
<1>2. CASE DecideStep(h)
  BY <1>2 DEF DecideStep, ExpireRun, Claim, ClaimConflict, Refresh,
     SaveApproved, SaveRejected, ApprovedToolFails
<1>3. CASE ReconnectStep(h) \/ Activate(h) \/ ActivateConflict(h) \/ Request(h) \/ Fault(h)
  BY <1>3 DEF ReconnectStep, Transition, TransitionConflict, Reload, Activate,
     ActivateConflict, Request, RunAgent, Decide, Reconnect, Cancel, Fault,
     DisconnectAtAwait, DisconnectAtYield, DisconnectOutside
<1> QED BY <1>1, <1>2, <1>3 DEF HandlerStep

(* ... and only a proposal makes the run wait.                             *)
LEMMA WaitingByProposal ==
    ASSUME TypeInv, NEW h \in Handlers, HandlerStep(h) \/ Request(h) \/ Fault(h),
           run'.status = "waiting_for_approval", ~Propose(h)
    PROVE  run.status = "waiting_for_approval"
<1>a. cached \in [Handlers -> Rows] /\ run \in Rows /\ cached[h] \in Rows
  BY DEF TypeInv, TypeOK
<1>w. ASSUME NEW new, run' = Written(h, new),
             new.status # "waiting_for_approval" \/ new.status = cached[h].status
      PROVE  run.status = "waiting_for_approval"
  BY <1>w DEF Written
<1>r. ASSUME NEW s, run' = [run EXCEPT !.status = s], s # "waiting_for_approval" PROVE FALSE
  BY <1>a, <1>r DEF Rows
<1>s. ASSUME NEW s, s # "waiting_for_approval"
      PROVE  [cached[h] EXCEPT !.status = s].status # "waiting_for_approval"
  BY <1>a, <1>s DEF Rows
<1>1. CASE SegmentStep(h)
  <2>1. CASE \/ SegmentStart(h) \/ LoopTop(h) \/ SeeCancel(h) \/ FinishAnswer(h)
             \/ \E s \in {"failed", "timed_out"} : SegmentFails(h, s)
    BY <2>1, <1>w, <1>s DEF SegmentStart, LoopTop, SeeCancel, FinishAnswer, SegmentFails, Save
  <2>2. CASE ProviderResponds(h) \/ ReadToolReturns(h)
    BY <2>2 DEF ProviderResponds, ReadToolReturns
  <2>3. ASSUME NEW c \in Calls, NEW s, CreateCall(h, c, s)
        PROVE  run.status = "waiting_for_approval"
    BY <2>3, <1>a DEF CreateCall, Save, Written, Rows
  <2>4. CASE LimitReached(h)
    BY <2>4, <1>a DEF LimitReached, Written, Rows
  <2>5. CASE Close(h)
    BY <2>5, <1>a DEF Close, Spent, Written, Rows
  <2>6. CASE AbortSave(h)
    BY <2>6, <1>a DEF AbortSave, Spent, Written, Rows
  <2> QED BY <1>1, <2>1, <2>2, <2>3, <2>4, <2>5, <2>6 DEF SegmentStep, CreateChangeCall,
             CreateReadCall
<1>2. CASE DecideStep(h)
  <2>1. AppendResult(h) => run.status = "waiting_for_approval"
    BY <1>a DEF AppendResult, Save, Spent, Written, Rows
  <2>2. CASE SaveApproved(h) \/ SaveRejected(h)
    BY <2>1, <2>2 DEF SaveApproved, SaveRejected
  <2>3. CASE ExpireRun(h)
    BY <2>3, <1>w, <1>s DEF ExpireRun
  <2>4. CASE Claim(h) \/ \E s \in {"failed", "timed_out"} : ApprovedToolFails(h, s)
    BY <2>4, <1>r DEF Claim, ApprovedToolFails
  <2>5. CASE ClaimConflict(h) \/ Refresh(h) \/ ExecuteApproved(h)
    BY <2>5 DEF ClaimConflict, Refresh, ExecuteApproved
  <2> QED BY <1>2, <2>2, <2>3, <2>4, <2>5 DEF DecideStep
<1>3. CASE ReconnectStep(h) \/ Activate(h) \/ ActivateConflict(h)
  BY <1>3, <1>r DEF ReconnectStep, Transition, TransitionConflict, Reload, Activate,
     ActivateConflict
<1>4. CASE Request(h) \/ Fault(h)
  <2>1. ASSUME NEW direct \in BOOLEAN PROVE ~RunAgent(h, direct)
    BY DEF RunAgent, NoRow
  <2> QED BY <1>4, <1>r, <2>1 DEF Request, Decide, Reconnect, Cancel, Fault,
             DisconnectAtAwait, DisconnectAtYield, DisconnectOutside
<1> QED BY <1>1, <1>2, <1>3, <1>4 DEF HandlerStep

(* Only a new change call brings a request to its proposal, and it stays   *)
(* there with the same call.                                               *)
LEMMA ProposeStays ==
    ASSUME TypeInv, NEW h \in Handlers, HandlerStep(h) \/ Request(h) \/ Fault(h),
           NEW g \in Handlers, pc'[g] = "propose",
           ~ \E c \in Calls : CreateChangeCall(h, c)
    PROVE  pc[g] = "propose" /\ local'[g] = local[g]
<1>a. pc \in [Handlers -> Points]
  BY DEF TypeInv, TypeOK
<1>1. CASE g # h
  BY <1>1, OthersStay
<1>2. CASE g = h
  <2> USE <1>2, <1>a DEF Goto, Return
  <2>1. CASE SegmentStep(h)
    BY <2>1 DEF SegmentStep, SegmentStart, LoopTop, SeeCancel, ProviderResponds,
       FinishAnswer, LimitReached, Propose, ReadToolReturns, CreateReadCall,
       SegmentFails, Close, AbortSave
  <2>2. CASE DecideStep(h)
    BY <2>2 DEF DecideStep, ExpireRun, Claim, ClaimConflict, Refresh, ExecuteApproved,
       SaveApproved, SaveRejected, AppendResult, ApprovedToolFails
  <2>3. CASE ReconnectStep(h) \/ Activate(h) \/ ActivateConflict(h)
    BY <2>3 DEF ReconnectStep, Transition, TransitionConflict, Reload, Activate,
       ActivateConflict
  <2>4. CASE Request(h) \/ Fault(h)
    BY <2>4 DEF Request, RunAgent, Decide, Reconnect, Cancel, Fault,
       DisconnectAtAwait, DisconnectAtYield, DisconnectOutside
  <2> QED BY <2>1, <2>2, <2>3, <2>4 DEF HandlerStep
<1> QED BY <1>1, <1>2

-----------------------------------------------------------------------------
(* A waiting run has a call to approve                                     *)

BeingProposed(c) == \E h \in Handlers : pc[h] = "propose" /\ local[h].call = c

(* While the run waits there is a pending call that no request still has   *)
(* to propose; and a request about to propose has one to wait for.         *)
WaitingInv ==
    /\ run.status = "waiting_for_approval" =>
          \E c \in Calls : calls[c].state = "pending" /\ ~BeingProposed(c)
    /\ \A h \in Handlers : pc[h] = "propose" =>
          \/ calls[local[h].call].state = "pending"
          \/ /\ run.status # "waiting_for_approval"
             /\ \E c \in Calls : calls[c].state = "pending"

LEMMA FrameKeepsWaiting ==
    ASSUME TypeInv, WaitingInv,
           \A c \in Calls : calls'[c].state = "pending" <=> calls[c].state = "pending",
           run'.status = "waiting_for_approval" => run.status = "waiting_for_approval",
           \A g \in Handlers : pc'[g] = "propose" =>
               pc[g] = "propose" /\ local'[g] = local[g]
    PROVE  WaitingInv'
<1>1. \A c : BeingProposed(c)' => BeingProposed(c)
  BY DEF BeingProposed
<1>2. \A g \in Handlers : pc[g] = "propose" => local[g].call \in Calls
  BY DEF TypeInv, DecidePointsNameCall
<1> QED BY <1>1, <1>2 DEF WaitingInv

LEMMA NewCallKeepsWaiting ==
    ASSUME TypeInv, WaitingInv, NEW h \in Handlers, NEW c \in Calls, CreateChangeCall(h, c)
    PROVE  WaitingInv'
<1>a. /\ calls \in [Calls -> ToolCalls] /\ local \in [Handlers -> Requests]
      /\ pc \in [Handlers -> Points]
  BY DEF TypeInv, TypeOK
<1>b. \A g \in Handlers : pc[g] = "propose" => local[g].call \in Calls
  BY DEF TypeInv, DecidePointsNameCall
<1>1. /\ calls[c].state = "none" /\ calls'[c].state = "pending"
      /\ \A d \in Calls : d # c => calls'[d] = calls[d]
  BY <1>a DEF CreateChangeCall, CreateCall, ToolCalls
<1>2. /\ local'[h].call = c
      /\ \A g \in Handlers : g # h => pc'[g] = pc[g] /\ local'[g] = local[g]
  BY <1>a DEF CreateChangeCall, CreateCall, Goto, Requests
<1>3. run'.status = "waiting_for_approval" => run.status = "waiting_for_approval"
  <2>1. HandlerStep(h) /\ ~Propose(h)
    BY DEF HandlerStep, SegmentStep, CreateChangeCall, Propose
  <2> QED BY <2>1, WaitingByProposal
<1>4. ASSUME NEW d \in Calls, d # c, BeingProposed(d)' PROVE BeingProposed(d)
  BY <1>2, <1>4 DEF BeingProposed
<1>5. run'.status = "waiting_for_approval" =>
         \E d \in Calls : calls'[d].state = "pending" /\ ~BeingProposed(d)'
  <2> SUFFICES ASSUME run'.status = "waiting_for_approval"
               PROVE  \E d \in Calls : calls'[d].state = "pending" /\ ~BeingProposed(d)'
    OBVIOUS
  <2>1. PICK d \in Calls : calls[d].state = "pending" /\ ~BeingProposed(d)
    BY <1>3 DEF WaitingInv
  <2>2. d # c
    BY <1>1, <2>1
  <2> QED BY <1>1, <1>4, <2>1, <2>2
<1>6. ASSUME NEW g \in Handlers, pc'[g] = "propose"
      PROVE  \/ calls'[local'[g].call].state = "pending"
             \/ /\ run'.status # "waiting_for_approval"
                /\ \E d \in Calls : calls'[d].state = "pending"
  BY <1>b, <1>1, <1>2, <1>3, <1>6 DEF WaitingInv
<1> QED BY <1>5, <1>6 DEF WaitingInv

LEMMA ClaimKeepsWaiting ==
    ASSUME TypeInv, WaitingInv, NEW h \in Handlers, Claim(h)
    PROVE  WaitingInv'
<1>a. /\ calls \in [Calls -> ToolCalls] /\ pc \in [Handlers -> Points] /\ run \in Rows
  BY DEF TypeInv, TypeOK
<1>b. \A g \in Handlers : pc[g] = "propose" => local[g].call \in Calls
  BY DEF TypeInv, DecidePointsNameCall
<1>1. run'.status # "waiting_for_approval"
  BY <1>a DEF Claim, Rows
<1>2. \A d \in Calls : d # local[h].call => calls'[d] = calls[d]
  BY <1>a DEF Claim
<1>3. PICK d \in Calls : calls[d].state = "pending" /\ ~BeingProposed(d)
  BY DEF Claim, Claimable, WaitingInv
<1>4. ASSUME NEW g \in Handlers, pc'[g] = "propose"
      PROVE  \E e \in Calls : calls'[e].state = "pending"
  <2>1. pc[g] = "propose" /\ local'[g] = local[g]
    BY <1>4, <1>a DEF Claim, Goto
  <2>2. calls[local[g].call].state = "pending" /\ local[g].call \in Calls
    BY <1>b, <2>1 DEF WaitingInv, Claim, Claimable
  <2>3. local[g].call # d
    BY <1>3, <2>1 DEF BeingProposed
  <2> QED BY <1>2, <1>3, <2>2, <2>3
<1> QED BY <1>1, <1>4 DEF WaitingInv

LEMMA ProposeKeepsWaiting ==
    ASSUME TypeInv, SingleSegment, WaitingInv, NEW h \in Handlers, Propose(h)
    PROVE  WaitingInv'
<1>a. pc \in [Handlers -> Points]
  BY DEF TypeInv, TypeOK
<1>1. pc[h] = "propose" /\ local[h].call \in Calls
  BY DEF Propose, TypeInv, DecidePointsNameCall
<1>2. pc'[h] = "closing" /\ calls' = calls
  BY <1>a DEF Propose, Goto
<1>3. ASSUME NEW g \in Handlers, pc'[g] = "propose" PROVE FALSE
  <2>1. g # h /\ pc[g] = "propose"
    BY <1>2, <1>3, <1>a DEF Propose, Goto
  <2> QED BY <1>1, <2>1 DEF SingleSegment, ActivePoints, SegmentPoints
<1>4. \A c : ~BeingProposed(c)'
  BY <1>3 DEF BeingProposed
<1>5. \E c \in Calls : calls'[c].state = "pending"
  BY <1>1, <1>2 DEF WaitingInv
<1> QED BY <1>3, <1>4, <1>5 DEF WaitingInv

LEMMA WaitingStep ==
    ASSUME TypeInv, SingleSegment, WaitingInv, [Next]_vars
    PROVE  WaitingInv'
<1>1. CASE UNCHANGED vars
  BY <1>1, FrameKeepsWaiting DEF vars
<1>2. CASE Crash
  <2>1. \A g \in Handlers : pc'[g] # "propose"
    BY <1>2 DEF Crash
  <2> QED BY <1>2, <2>1, FrameKeepsWaiting DEF Crash
<1>3. ASSUME NEW h \in Handlers, HandlerStep(h) \/ Request(h) \/ Fault(h) PROVE WaitingInv'
  <2>1. CASE Propose(h)
    BY <2>1, ProposeKeepsWaiting
  <2>2. CASE Claim(h)
    BY <2>2, ClaimKeepsWaiting
  <2>3. CASE \E c \in Calls : CreateChangeCall(h, c)
    BY <2>3, NewCallKeepsWaiting
  <2>4. CASE /\ ~Propose(h) /\ ~Claim(h)
             /\ ~ \E c \in Calls : CreateChangeCall(h, c)
    <3>1. run'.status = "waiting_for_approval" => run.status = "waiting_for_approval"
      BY <1>3, <2>4, WaitingByProposal
    <3>2. \A g \in Handlers : pc'[g] = "propose" => pc[g] = "propose" /\ local'[g] = local[g]
      BY <1>3, <2>4, ProposeStays
    <3>3. \A c \in Calls : calls'[c].state = "pending" <=> calls[c].state = "pending"
      <4>1. ASSUME NEW c \in Calls, CreateReadCall(h, c)
            PROVE  \A d \in Calls : calls'[d].state = "pending" <=> calls[d].state = "pending"
        BY <4>1 DEF CreateReadCall, CreateCall, TypeInv, TypeOK, ToolCalls
      <4> QED BY <1>3, <2>4, <4>1, CallsStay
    <3> QED BY <3>1, <3>2, <3>3, FrameKeepsWaiting
  <2> QED BY <2>1, <2>2, <2>3, <2>4
<1> QED BY <1>1, <1>2, <1>3 DEF Next

LEMMA WaitingInit == Init => WaitingInv
  BY DEF Init, NoRow, WaitingInv

-----------------------------------------------------------------------------
(* Until a reconnect, one request works on the run                         *)

Resuming == {"refresh", "execute", "resume", "reject", "activate"}
WorkPoints == SegmentPoints \union Resuming

Changed == {c \in Calls : applies[c] > 0}
Created == {c \in Calls : calls[c].state # "none"}
Pending == {c \in Calls : calls[c].state = "pending"}

(* The request that works on the run has the current count and answers.    *)
Fresh(h) == cached[h].count = run.count /\ cached[h].answers = run.answers

(* From a claim to the next proposal one request works on the run: nothing *)
(* is pending and the run does not wait, its session is up to date, and    *)
(* the only change whose result may still be missing from the conversation *)
(* is the one it has just made.                                            *)
Working(h) ==
    /\ run.status # "waiting_for_approval"
    /\ pc[h] # "refresh" => Fresh(h)
    /\ pc[h] # "propose" => Pending = {}
    /\ Changed \subseteq run.answers \union (IF pc[h] = "resume" THEN {local[h].call} ELSE {})

CallsCounted ==
    /\ IsFiniteSet(Created)
    /\ Cardinality(Created) <= run.count
    /\ Cardinality(Created) <= MaxToolCalls
    /\ run.count <= MaxToolCalls + 1

WorkInv ==
    /\ \A h \in Handlers : pc[h] \notin ReconnectPoints
    /\ \A h, g \in Handlers : pc[h] \in WorkPoints /\ pc[g] \in WorkPoints => h = g
    /\ \A h \in Handlers : pc[h] \in WorkPoints => Working(h)
    /\ run.status = "waiting_for_approval" => Changed \subseteq run.answers
    /\ OnePending
    /\ CallsCounted

(* A step of one request that leaves calls and workspace alone keeps       *)
(* WorkInv when it starts no work, writes an up-to-date row, and makes the *)
(* run wait only by ending its own work.                                   *)
LEMMA FrameKeepsWork ==
    ASSUME TypeInv, WorkInv, NEW h \in Handlers,
           \A c \in Calls : calls'[c].state = calls[c].state,
           applies' = applies,
           \A g \in Handlers : g # h =>
               pc'[g] = pc[g] /\ cached'[g] = cached[g] /\ local'[g] = local[g],
           pc'[h] \notin ReconnectPoints \union {"propose", "resume"},
           pc'[h] \in WorkPoints =>
               /\ pc[h] \in WorkPoints /\ pc[h] # "propose"
               /\ pc'[h] # "refresh" => Fresh(h)'
               /\ pc[h] = "resume" => local[h].call \in run'.answers,
           run'.count \in Nat, run.count <= run'.count, run'.count <= MaxToolCalls + 1,
           run.answers \subseteq run'.answers,
           pc[h] \notin WorkPoints => run'.count = run.count /\ run'.answers = run.answers,
           run'.status = "waiting_for_approval" =>
               \/ run.status = "waiting_for_approval"
               \/ pc[h] \in WorkPoints /\ pc'[h] \notin WorkPoints /\ pc[h] # "resume"
    PROVE  WorkInv'
<1>1. Created' = Created /\ Pending' = Pending /\ Changed' = Changed
  BY DEF Created, Pending, Changed
<1>2. \A g \in Handlers : pc'[g] \in WorkPoints => pc[g] \in WorkPoints
  OBVIOUS
<1>3. \A g \in Handlers : pc'[g] \notin ReconnectPoints
  BY DEF WorkInv
<1>4. OnePending'
  BY DEF WorkInv, OnePending
<1>5. CallsCounted'
  <2>1. Cardinality(Created) \in Nat /\ run.count \in Nat
    BY FS_CardinalityType DEF WorkInv, CallsCounted, TypeInv, TypeOK, Rows
  <2> QED BY <1>1, <2>1 DEF WorkInv, CallsCounted
<1>6. ASSUME NEW g \in Handlers, pc'[g] \in WorkPoints PROVE Working(g)'
  <2>0. Working(g) /\ pc[g] \in WorkPoints
    BY <1>2, <1>6 DEF WorkInv
  <2>1. CASE g = h
    <3>1. run'.status # "waiting_for_approval"
      BY <1>6, <2>0, <2>1 DEF Working
    <3>2. pc'[h] # "refresh" => Fresh(h)'
      BY <1>6, <2>1
    <3>3. Pending' = {}
      BY <1>1, <1>6, <2>0, <2>1 DEF Working
    <3>4. Changed' \subseteq run'.answers
      BY <1>1, <1>6, <2>0, <2>1 DEF Working
    <3> QED BY <2>1, <3>1, <3>2, <3>3, <3>4 DEF Working
  <2>2. CASE g # h
    <3>1. pc[h] \notin WorkPoints
      BY <2>0, <2>2 DEF WorkInv
    <3>2. run'.status # "waiting_for_approval"
      BY <2>0, <3>1 DEF Working
    <3>3. pc'[g] = pc[g] /\ cached'[g] = cached[g] /\ local'[g] = local[g]
      BY <2>2
    <3> QED BY <1>1, <2>0, <3>1, <3>2, <3>3 DEF Working, Fresh
  <2> QED BY <2>1, <2>2
<1>7. run'.status = "waiting_for_approval" => Changed' \subseteq run'.answers
  BY <1>1 DEF WorkInv, Working
<1>8. \A g, k \in Handlers : pc'[g] \in WorkPoints /\ pc'[k] \in WorkPoints => g = k
  BY <1>2 DEF WorkInv
<1> QED BY <1>3, <1>4, <1>5, <1>6, <1>7, <1>8 DEF WorkInv

(* What a session writes when it saves an up-to-date row.                  *)
LEMMA FreshSave ==
    ASSUME TypeInv, NEW h \in Handlers, Fresh(h), NEW new, run' = Written(h, new)
    PROVE  run'.count = new.count /\ run'.answers = new.answers
  BY DEF Fresh, Written

LEMMA RowFields ==
    ASSUME NEW row \in Rows, NEW s
    PROVE  /\ [row EXCEPT !.status = s].status = s
           /\ [row EXCEPT !.status = s].count = row.count
           /\ [row EXCEPT !.status = s].answers = row.answers
  BY DEF Rows

(* Saving a status leaves the counted calls and the answers alone.         *)
LEMMA SaveStatus ==
    ASSUME TypeInv, NEW h \in Handlers, NEW s,
           Save(h, [cached[h] EXCEPT !.status = s])
    PROVE  /\ run'.count = run.count /\ run'.answers = run.answers
           /\ cached'[h].count = cached[h].count /\ cached'[h].answers = cached[h].answers
<1>1. cached \in [Handlers -> Rows] /\ cached[h] \in Rows
  BY DEF TypeInv, TypeOK
<1> QED BY <1>1, RowFields DEF Save, Written

LEMMA SpentFields ==
    ASSUME NEW row \in Rows, NEW spent \in Spent(row)
    PROVE  spent.count = row.count /\ spent.answers = row.answers /\ spent.status = row.status
  BY DEF Rows, Spent

LEMMA StatusSaveKeepsWork ==
    ASSUME TypeInv, WorkInv, NEW h \in Handlers, SegmentStep(h), NEW s,
           Save(h, [cached[h] EXCEPT !.status = s]),
           pc[h] \in SegmentPoints,
           pc'[h] \in {"loop", "change", "provider", "closing"},
           pc[h] = "propose" => pc'[h] = "closing",
           s = "waiting_for_approval" => pc'[h] = "closing",
           calls' = calls, applies' = applies
    PROVE  WorkInv'
<1>1. /\ run'.count = run.count /\ run'.answers = run.answers
      /\ cached'[h].count = cached[h].count /\ cached'[h].answers = cached[h].answers
  BY SaveStatus
<1>2. Working(h) /\ pc[h] \in WorkPoints
  BY DEF WorkInv, WorkPoints
<1>3. pc[h] \notin Resuming /\ Fresh(h) /\ Fresh(h)'
  BY <1>1, <1>2 DEF Working, Fresh, SegmentPoints, Resuming
<1>4. run.count \in Nat /\ run.count <= MaxToolCalls + 1
  BY DEF TypeInv, TypeOK, Rows, WorkInv, CallsCounted
<1>5. pc'[h] = "closing" => pc'[h] \notin WorkPoints
  BY DEF WorkPoints, SegmentPoints, Resuming
<1>6. run'.status = "waiting_for_approval" => s = "waiting_for_approval"
  <2>1. run.status # "waiting_for_approval"
    BY <1>2 DEF Working
  <2>2. [cached[h] EXCEPT !.status = s].status = s
    BY RowFields DEF TypeInv, TypeOK
  <2> QED BY <2>1, <2>2 DEF Save, Written
<1>7. \A g \in Handlers : g # h =>
         pc'[g] = pc[g] /\ cached'[g] = cached[g] /\ local'[g] = local[g]
  BY OthersStay DEF HandlerStep
<1>8. pc'[h] \notin ReconnectPoints \union {"propose", "resume"}
  BY DEF ReconnectPoints
<1>9. pc[h] # "resume"
  BY <1>3 DEF Resuming
<1>10. run'.count \in Nat /\ run.count <= run'.count /\ run'.count <= MaxToolCalls + 1
  BY <1>1, <1>4
<1> QED BY <1>1, <1>2, <1>3, <1>5, <1>6, <1>7, <1>8, <1>9, <1>10, FrameKeepsWork
        DEF WorkPoints, SegmentPoints

LEMMA NewCallKeepsWork ==
    ASSUME TypeInv, WorkInv, NEW h \in Handlers, NEW c \in Calls,
           CreateChangeCall(h, c) \/ CreateReadCall(h, c)
    PROVE  WorkInv'
<1> DEFINE s == calls'[c].state
           n == cached[h].count + 1
<1>a. /\ calls \in [Calls -> ToolCalls] /\ cached \in [Handlers -> Rows] /\ run \in Rows
      /\ pc \in [Handlers -> Points] /\ local \in [Handlers -> Requests] /\ cached[h] \in Rows
  BY DEF TypeInv, TypeOK
<1>1. /\ pc[h] \in {"change", "read"} /\ pc'[h] \in {"propose", "read_tool"}
      /\ pc'[h] = "propose" <=> s = "pending"
      /\ s \in {"pending", "not_required"}
      /\ \A d \in Calls : d # c => calls'[d] = calls[d]
      /\ calls[c].state = "none"
      /\ cached[h].count < MaxToolCalls
      /\ Save(h, [cached[h] EXCEPT !.count = n])
      /\ applies' = applies
  BY <1>a DEF CreateChangeCall, CreateReadCall, CreateCall, Goto, ToolCalls
<1>2. /\ Working(h) /\ Fresh(h) /\ Pending = {} /\ run.status # "waiting_for_approval"
      /\ Changed \subseteq run.answers
      /\ \A g \in Handlers : g # h => pc[g] \notin WorkPoints
  <2>1. pc[h] \in WorkPoints
    BY <1>1 DEF WorkPoints, SegmentPoints
  <2> QED BY <1>1, <2>1 DEF WorkInv, Working
<1>3. /\ cached[h].count = run.count /\ cached[h].answers = run.answers /\ run.count \in Nat
      /\ MaxToolCalls \in Nat
  BY <1>2, <1>a, LimitsAssumption DEF Fresh, Rows
<1>4. /\ cached'[h].count = n /\ cached'[h].answers = cached[h].answers
      /\ run'.count = n /\ run'.answers = run.answers /\ run'.status = run.status
  <2>1. /\ [cached[h] EXCEPT !.count = n].count = n
        /\ [cached[h] EXCEPT !.count = n].answers = cached[h].answers
        /\ [cached[h] EXCEPT !.count = n].status = cached[h].status
    BY <1>a DEF Rows
  <2>2. n # cached[h].count
    BY <1>3
  <2> QED BY <1>a, <1>1, <2>1, <2>2 DEF Save, Written
<1>5. \A g \in Handlers : g # h =>
         pc'[g] = pc[g] /\ cached'[g] = cached[g] /\ local'[g] = local[g]
  BY OthersStay DEF HandlerStep, SegmentStep
<1>6. \A g \in Handlers : pc'[g] \in WorkPoints => g = h
  BY <1>2, <1>5
<1>7. \A g \in Handlers : pc'[g] \notin ReconnectPoints
  BY <1>1, <1>5 DEF WorkInv, ReconnectPoints
<1>8. /\ Pending' = IF s = "pending" THEN {c} ELSE {}
      /\ Created' = Created \union {c} /\ c \notin Created
  BY <1>1, <1>2 DEF Pending, Created
<1>9. CallsCounted'
  <2>1. IsFiniteSet(Created') /\ Cardinality(Created') = Cardinality(Created) + 1
    BY <1>8, FS_AddElement DEF WorkInv, CallsCounted
  <2>2. Cardinality(Created) \in Nat /\ Cardinality(Created) <= run.count
    BY FS_CardinalityType DEF WorkInv, CallsCounted
  <2> QED BY <1>1, <1>3, <1>4, <2>1, <2>2 DEF CallsCounted
<1>10. OnePending'
  BY <1>8 DEF OnePending, Pending
<1>11. Working(h)'
  <2>1. Changed' = Changed
    BY <1>1 DEF Changed
  <2> QED BY <1>1, <1>2, <1>3, <1>4, <1>8, <2>1 DEF Working, Fresh
<1> QED BY <1>2, <1>4, <1>6, <1>7, <1>9, <1>10, <1>11 DEF WorkInv

LEMMA SegmentKeepsWork ==
    ASSUME TypeInv, WorkInv, NEW h \in Handlers, SegmentStep(h)
    PROVE  WorkInv'
<1> USE DEF Goto
<1>a. /\ pc \in [Handlers -> Points] /\ cached \in [Handlers -> Rows] /\ run \in Rows
      /\ cached[h] \in Rows /\ run.count \in Nat /\ run.count <= MaxToolCalls + 1
  BY DEF TypeInv, TypeOK, Rows, WorkInv, CallsCounted
<1>b. \A g \in Handlers : g # h =>
         pc'[g] = pc[g] /\ cached'[g] = cached[g] /\ local'[g] = local[g]
  BY OthersStay DEF HandlerStep
<1>c. /\ "idle" \notin WorkPoints /\ "closing" \notin WorkPoints /\ "abort" \notin WorkPoints
  BY DEF WorkPoints, SegmentPoints, Resuming
<1>1. CASE \/ SegmentStart(h) \/ LoopTop(h) \/ SeeCancel(h) \/ FinishAnswer(h) \/ Propose(h)
           \/ \E s \in {"failed", "timed_out"} : SegmentFails(h, s)
  BY <1>1, <1>a, StatusSaveKeepsWork DEF SegmentStart, LoopTop, SeeCancel, FinishAnswer,
     Propose, SegmentFails, SegmentPoints
<1>2. CASE ProviderResponds(h) \/ ReadToolReturns(h)
  <2>1. /\ pc[h] \in {"provider", "read_tool"} /\ pc'[h] \in {"answer", "change", "read", "loop"}
        /\ run' = run /\ cached' = cached /\ applies' = applies
    BY <1>2, <1>a DEF ProviderResponds, ReadToolReturns
  <2>2. \A c \in Calls : calls'[c].state = calls[c].state
    <3>1. ~Claim(h) /\ ~ \E c \in Calls : CreateChangeCall(h, c) \/ CreateReadCall(h, c)
      BY <2>1 DEF Claim, CreateChangeCall, CreateReadCall
    <3> QED BY <3>1, CallsStay DEF HandlerStep
  <2>3. pc[h] \in WorkPoints /\ Fresh(h) /\ Fresh(h)' /\ Working(h)
    BY <2>1 DEF WorkInv, Working, Fresh, WorkPoints, SegmentPoints
  <2>4. run.status # "waiting_for_approval"
    BY <2>3 DEF Working
  <2> QED BY <1>a, <1>b, <2>1, <2>2, <2>3, <2>4, FrameKeepsWork DEF ReconnectPoints
<1>3. CASE \E c \in Calls : CreateChangeCall(h, c) \/ CreateReadCall(h, c)
  BY <1>3, NewCallKeepsWork
<1>4. CASE LimitReached(h)
  <2> DEFINE over == MaxToolCalls + 1
  <2>1. /\ pc[h] \in {"change", "read"} /\ pc'[h] = "closing"
        /\ calls' = calls /\ applies' = applies
    BY <1>4, <1>a DEF LimitReached
  <2>2. Fresh(h) /\ run.status # "waiting_for_approval" /\ pc[h] \in WorkPoints
    BY <2>1 DEF WorkInv, Working, WorkPoints, SegmentPoints
  <2>3. over \in Nat /\ run'.count = over
    BY <1>4, <1>a, LimitsAssumption DEF LimitReached, Written, Rows
  <2>4. run'.answers = run.answers
    BY <1>4, <1>a, <2>2 DEF LimitReached, Written, Rows, Fresh
  <2>5. run'.status # "waiting_for_approval"
    <3>1. HandlerStep(h) /\ ~Propose(h)
      BY <2>1 DEF HandlerStep, Propose
    <3> QED BY <3>1, <2>2, WaitingByProposal
  <2> HIDE DEF over
  <2>6. run'.count \in Nat /\ run.count <= run'.count /\ run'.count <= MaxToolCalls + 1
    BY <1>a, <2>3 DEF over
  <2> QED BY <1>b, <1>c, <2>1, <2>2, <2>4, <2>5, <2>6, FrameKeepsWork DEF ReconnectPoints
<1>5. CASE Close(h) \/ AbortSave(h)
  <2>1. /\ pc[h] \in {"closing", "abort"} /\ pc'[h] = "idle"
        /\ calls' = calls /\ applies' = applies
    BY <1>5, <1>a DEF Close, AbortSave, Return
  <2>2. run'.count = run.count /\ run'.answers = run.answers
    <3>1. ASSUME NEW row \in Spent(cached[h]), NEW new,
                 new \in {row, [row EXCEPT !.status = "resuming"]}, run' = Written(h, new)
          PROVE  run'.count = run.count /\ run'.answers = run.answers
      <4>1. row \in Rows /\ row.count = cached[h].count /\ row.answers = cached[h].answers
        BY <1>a, <3>1, SpentFields, SpentType
      <4>2. /\ [row EXCEPT !.status = "resuming"].count = row.count
            /\ [row EXCEPT !.status = "resuming"].answers = row.answers
        BY <4>1, RowFields
      <4>3. new.count = cached[h].count /\ new.answers = cached[h].answers
        BY <4>1, <4>2, <3>1
      <4> QED BY <3>1, <4>3 DEF Written
    <3> QED BY <1>5, <3>1 DEF Close, AbortSave
  <2>3. run'.status = "waiting_for_approval" => run.status = "waiting_for_approval"
    <3>1. HandlerStep(h) /\ ~Propose(h)
      BY <2>1 DEF HandlerStep, Propose
    <3> QED BY <3>1, WaitingByProposal
  <2> QED BY <1>a, <1>b, <1>c, <2>1, <2>2, <2>3, FrameKeepsWork DEF ReconnectPoints
<1> QED BY <1>1, <1>2, <1>3, <1>4, <1>5 DEF SegmentStep

LEMMA ResumeKeepsWork ==
    ASSUME TypeInv, WorkInv, NEW h \in Handlers, SaveApproved(h) \/ SaveRejected(h)
    PROVE  WorkInv'
<1>a. /\ pc \in [Handlers -> Points] /\ cached \in [Handlers -> Rows] /\ run \in Rows
      /\ cached[h] \in Rows /\ run.count \in Nat /\ run.count <= MaxToolCalls + 1
  BY DEF TypeInv, TypeOK, Rows, WorkInv, CallsCounted
<1>b. \A g \in Handlers : g # h =>
         pc'[g] = pc[g] /\ cached'[g] = cached[g] /\ local'[g] = local[g]
  BY OthersStay DEF HandlerStep, DecideStep
<1>1. /\ pc[h] \in {"resume", "reject"} /\ pc'[h] = "activate" /\ AppendResult(h)
      /\ applies' = applies
  BY <1>a DEF SaveApproved, SaveRejected, AppendResult, Goto
<1>2. \A c \in Calls : calls'[c].state = calls[c].state
  <2>1. ~Claim(h) /\ ~ \E c \in Calls : CreateChangeCall(h, c) \/ CreateReadCall(h, c)
    BY <1>1 DEF Claim, CreateChangeCall, CreateReadCall
  <2> QED BY <2>1, CallsStay DEF HandlerStep, DecideStep
<1>3. pc[h] \in WorkPoints /\ Fresh(h) /\ run.status # "waiting_for_approval"
  BY <1>1 DEF WorkInv, Working, WorkPoints, Resuming
<1>4. PICK row \in Spent(cached[h]) :
         Save(h, [row EXCEPT !.status = "resuming", !.answers = @ \union {local[h].call}])
  BY <1>1 DEF AppendResult
<1> DEFINE new == [row EXCEPT !.status = "resuming", !.answers = @ \union {local[h].call}]
<1>5. row \in Rows /\ row.count = cached[h].count /\ row.answers = cached[h].answers
  BY <1>a, SpentFields, SpentType
<1>6. new.count = row.count /\ new.answers = row.answers \union {local[h].call}
  BY <1>5 DEF Rows
<1>7. cached' = [cached EXCEPT ![h] = new] /\ run' = Written(h, new)
  BY <1>4 DEF Save
<1> HIDE DEF new
<1>8. run'.count = run.count /\ run'.answers = run.answers \union {local[h].call}
  BY <1>3, <1>5, <1>6, <1>7, FreshSave DEF Fresh
<1>9. Fresh(h)'
  BY <1>a, <1>3, <1>5, <1>6, <1>7, <1>8 DEF Fresh
<1>10. run'.status # "waiting_for_approval"
  <2>1. HandlerStep(h) /\ ~Propose(h)
    BY <1>1 DEF HandlerStep, DecideStep, Propose
  <2> QED BY <2>1, <1>3, WaitingByProposal
<1> QED BY <1>a, <1>b, <1>1, <1>2, <1>3, <1>8, <1>9, <1>10, FrameKeepsWork
        DEF ReconnectPoints

LEMMA ClaimKeepsWork ==
    ASSUME TypeInv, WorkInv, NEW h \in Handlers, Claim(h)
    PROVE  WorkInv'
<1> DEFINE c == local[h].call
<1>a. /\ calls \in [Calls -> ToolCalls] /\ pc \in [Handlers -> Points] /\ run \in Rows
      /\ c \in Calls /\ local[h].decision \in {"approved", "rejected"}
  BY DEF TypeInv, TypeOK, DecidePointsNameCall, Claim, DecidePoints, Requests, Decisions
<1>1. /\ calls[c].state = "pending" /\ run.status = "waiting_for_approval"
      /\ calls'[c].state \in {"approved", "rejected"}
      /\ \A d \in Calls : d # c => calls'[d] = calls[d]
      /\ run'.status = "resuming" /\ run'.count = run.count /\ run'.answers = run.answers
      /\ applies' = applies
  BY <1>a DEF Claim, Claimable, ToolCalls, Rows
<1>2. \A g \in Handlers : pc[g] \notin WorkPoints
  BY <1>1 DEF WorkInv, Working
<1>3. pc'[h] = "refresh" /\ \A g \in Handlers : g # h => pc'[g] = pc[g]
  BY <1>a DEF Claim, Goto
<1>4. \A g \in Handlers : pc'[g] \in WorkPoints => g = h
  BY <1>2, <1>3
<1>5. Pending' = {} /\ Created' = Created /\ Changed' = Changed
  <2>1. \A d \in Calls : calls[d].state = "pending" => d = c
    BY <1>a, <1>1 DEF WorkInv, OnePending
  <2> QED BY <1>1, <2>1 DEF Pending, Created, Changed
<1>6. Working(h)'
  BY <1>1, <1>3, <1>5 DEF Working, WorkInv
<1>7. OnePending' /\ CallsCounted'
  BY <1>1, <1>5 DEF OnePending, Pending, CallsCounted, WorkInv
<1>8. \A g \in Handlers : pc'[g] \notin ReconnectPoints
  BY <1>3 DEF WorkInv, ReconnectPoints
<1> QED BY <1>1, <1>4, <1>6, <1>7, <1>8 DEF WorkInv

LEMMA ExecuteKeepsWork ==
    ASSUME TypeInv, WorkInv, NEW h \in Handlers, ExecuteApproved(h)
    PROVE  WorkInv'
<1> DEFINE c == local[h].call
<1>a. pc \in [Handlers -> Points] /\ applies \in [Calls -> Nat]
  BY DEF TypeInv, TypeOK
<1>1. /\ pc[h] = "execute" /\ pc'[h] = "resume"
      /\ \A g \in Handlers : g # h => pc'[g] = pc[g]
      /\ run' = run /\ cached' = cached /\ local' = local
  BY <1>a DEF ExecuteApproved, Goto
<1>2. \A d \in Calls : calls'[d].state = calls[d].state
  <2>1. ~Claim(h) /\ ~ \E d \in Calls : CreateChangeCall(h, d) \/ CreateReadCall(h, d)
    BY <1>1 DEF Claim, CreateChangeCall, CreateReadCall
  <2> QED BY <2>1, CallsStay DEF HandlerStep, DecideStep
<1>3. Created' = Created /\ Pending' = Pending /\ Changed' \subseteq Changed \union {c}
  BY <1>a, <1>2 DEF Created, Pending, Changed, ExecuteApproved
<1>4. pc[h] \in WorkPoints /\ \A g \in Handlers : pc[g] \in WorkPoints => g = h
  BY <1>1 DEF WorkInv, WorkPoints, Resuming
<1>5. \A g \in Handlers : pc'[g] \in WorkPoints => g = h
  BY <1>1, <1>4
<1>6. Working(h)' /\ run'.status # "waiting_for_approval"
  <2>1. Working(h)
    BY <1>4 DEF WorkInv
  <2> QED BY <1>1, <1>3, <2>1 DEF Working, Fresh
<1>7. OnePending' /\ CallsCounted'
  BY <1>1, <1>2, <1>3 DEF OnePending, CallsCounted, WorkInv
<1>8. \A g \in Handlers : pc'[g] \notin ReconnectPoints
  BY <1>1 DEF WorkInv, ReconnectPoints
<1> QED BY <1>5, <1>6, <1>7, <1>8 DEF WorkInv

LEMMA DecideKeepsWork ==
    ASSUME TypeInv, WorkInv, NEW h \in Handlers, DecideStep(h)
    PROVE  WorkInv'
<1> USE DEF Goto
<1>a. /\ pc \in [Handlers -> Points] /\ cached \in [Handlers -> Rows] /\ run \in Rows
      /\ cached[h] \in Rows /\ run.count \in Nat /\ run.count <= MaxToolCalls + 1
  BY DEF TypeInv, TypeOK, Rows, WorkInv, CallsCounted
<1>b. \A g \in Handlers : g # h =>
         pc'[g] = pc[g] /\ cached'[g] = cached[g] /\ local'[g] = local[g]
  BY OthersStay DEF HandlerStep
<1>c. "idle" \notin WorkPoints
  BY DEF WorkPoints, SegmentPoints, Resuming
<1>1. CASE \/ ExpireRun(h) \/ ClaimConflict(h)
           \/ \E s \in {"failed", "timed_out"} : ApprovedToolFails(h, s)
  <2>1. /\ pc[h] \in {"expire", "claim", "execute"} /\ pc'[h] = "idle" /\ applies' = applies
        /\ ~Claim(h) /\ ~Propose(h)
    BY <1>1, <1>a DEF ExpireRun, ClaimConflict, ApprovedToolFails, Return, Claim, Propose
  <2>2. \A c \in Calls : calls'[c].state = calls[c].state
    <3>1. ~ \E c \in Calls : CreateChangeCall(h, c) \/ CreateReadCall(h, c)
      BY <2>1 DEF CreateChangeCall, CreateReadCall
    <3> QED BY <2>1, <3>1, CallsStay DEF HandlerStep
  <2>3. run'.count = run.count /\ run'.answers = run.answers
    <3>1. CASE ExpireRun(h)
      <4>1. /\ [cached[h] EXCEPT !.status = "timed_out"].count = cached[h].count
            /\ [cached[h] EXCEPT !.status = "timed_out"].answers = cached[h].answers
        BY <1>a, RowFields
      <4> QED BY <3>1, <4>1 DEF ExpireRun, Written
    <3>2. ASSUME NEW s \in {"failed", "timed_out"}, ApprovedToolFails(h, s)
          PROVE  run'.count = run.count /\ run'.answers = run.answers
      <4>1. /\ [run EXCEPT !.status = s].count = run.count
            /\ [run EXCEPT !.status = s].answers = run.answers
        BY <1>a, RowFields
      <4> QED BY <3>2, <4>1 DEF ApprovedToolFails
    <3> QED BY <1>1, <3>1, <3>2 DEF ClaimConflict
  <2>4. run'.status = "waiting_for_approval" => run.status = "waiting_for_approval"
    BY <2>1, WaitingByProposal DEF HandlerStep
  <2> QED BY <1>a, <1>b, <1>c, <2>1, <2>2, <2>3, <2>4, FrameKeepsWork DEF ReconnectPoints
<1>2. CASE Refresh(h)
  <2>1. /\ pc[h] = "refresh" /\ pc'[h] \in {"execute", "reject"}
        /\ run' = run /\ calls' = calls /\ applies' = applies /\ cached'[h] = run
    BY <1>2, <1>a DEF Refresh, Load
  <2>2. pc[h] \in WorkPoints /\ run.status # "waiting_for_approval" /\ Fresh(h)'
    BY <2>1 DEF WorkInv, Working, WorkPoints, Resuming, Fresh
  <2> QED BY <1>a, <1>b, <2>1, <2>2, FrameKeepsWork DEF ReconnectPoints
<1> QED BY <1>1, <1>2, ClaimKeepsWork, ExecuteKeepsWork, ResumeKeepsWork DEF DecideStep

LEMMA ActivateKeepsWork ==
    ASSUME TypeInv, WorkInv, NEW h \in Handlers,
           ReconnectStep(h) \/ Activate(h) \/ ActivateConflict(h)
    PROVE  WorkInv'
<1>a. /\ pc \in [Handlers -> Points] /\ run.count \in Nat /\ run.count <= MaxToolCalls + 1
      /\ pc[h] \notin ReconnectPoints
  BY DEF TypeInv, TypeOK, Rows, WorkInv, CallsCounted
<1>b. \A g \in Handlers : g # h =>
         pc'[g] = pc[g] /\ cached'[g] = cached[g] /\ local'[g] = local[g]
  BY OthersStay DEF HandlerStep
<1>1. CASE Activate(h)
  <2>1. /\ pc[h] = "activate" /\ pc'[h] = "segment"
        /\ run' = run /\ calls' = calls /\ applies' = applies /\ cached' = cached
    BY <1>1, <1>a DEF Activate, Goto
  <2>2. /\ pc[h] \in WorkPoints /\ run.status # "waiting_for_approval" /\ Fresh(h)
    BY <2>1 DEF WorkInv, Working, WorkPoints, Resuming
  <2>3. Fresh(h)'
    BY <2>1, <2>2 DEF Fresh
  <2> QED BY <1>a, <1>b, <2>1, <2>2, <2>3, FrameKeepsWork DEF ReconnectPoints
<1>2. CASE ActivateConflict(h)
  <2>1. /\ pc'[h] = "idle" /\ run' = run /\ calls' = calls /\ applies' = applies
    BY <1>2, <1>a DEF ActivateConflict, Return
  <2>2. pc'[h] \notin WorkPoints \union ReconnectPoints \union {"propose", "resume"}
    BY <2>1 DEF WorkPoints, SegmentPoints, Resuming, ReconnectPoints
  <2> QED BY <1>a, <1>b, <2>1, <2>2, FrameKeepsWork
<1>3. ~ReconnectStep(h)
  BY <1>a DEF ReconnectStep, Transition, TransitionConflict, Reload, ReconnectPoints
<1> QED BY <1>1, <1>2, <1>3

LEMMA RequestKeepsWork ==
    ASSUME TypeInv, StartedOnce, WorkInv, NEW h \in Handlers, Request(h) \/ Fault(h),
           ~Reconnect(h)
    PROVE  WorkInv'
<1> USE DEF Goto
<1>a. /\ pc \in [Handlers -> Points] /\ run \in Rows
      /\ run.count \in Nat /\ run.count <= MaxToolCalls + 1
  BY DEF TypeInv, TypeOK, Rows, WorkInv, CallsCounted
<1>b. \A g \in Handlers : g # h =>
         pc'[g] = pc[g] /\ cached'[g] = cached[g] /\ local'[g] = local[g]
  BY OthersStay
<1>1. ASSUME NEW direct \in BOOLEAN, RunAgent(h, direct) PROVE WorkInv'
  <2>1. /\ \A g \in Handlers : pc[g] = "idle"
        /\ \A c \in Calls : calls[c].state = "none" /\ applies[c] = 0
    BY <1>1 DEF RunAgent, StartedOnce
  <2>2. /\ run'.status = "running" /\ run'.count = 0 /\ cached'[h] = run'
        /\ pc'[h] = "segment" /\ calls' = calls /\ applies' = applies
    BY <1>1, <1>a DEF RunAgent, NoRow, TypeInv, TypeOK
  <2>3. Created' = {} /\ Pending' = {} /\ Changed' = {}
    BY <2>1, <2>2 DEF Created, Pending, Changed
  <2>4. \A g \in Handlers : g # h => pc'[g] \notin WorkPoints \union ReconnectPoints
    BY <1>b, <2>1 DEF WorkPoints, SegmentPoints, Resuming, ReconnectPoints
  <2>5. OnePending'
    BY <2>1, <2>2 DEF OnePending
  <2>6. CallsCounted'
    BY <2>2, <2>3, FS_EmptySet, LimitsAssumption DEF CallsCounted
  <2>7. Working(h)'
    BY <2>2, <2>3 DEF Working, Fresh
  <2> QED BY <2>2, <2>4, <2>5, <2>6, <2>7 DEF WorkInv, ReconnectPoints
<1>2. CASE \/ Cancel(h) \/ Fault(h) \/ \E c \in Calls, d \in Decisions : Decide(h, c, d)
  <2>1. /\ pc'[h] \in {"idle", "expire", "claim", "abort", "closing"}
        /\ calls' = calls /\ applies' = applies
    BY <1>2, <1>a DEF Decide, Cancel, Fault, DisconnectAtAwait, DisconnectAtYield,
       DisconnectOutside, Return
  <2>2. run'.count = run.count /\ run'.answers = run.answers
    <3>1. /\ [run EXCEPT !.status = "cancelled"].count = run.count
          /\ [run EXCEPT !.status = "cancelled"].answers = run.answers
      BY <1>a, RowFields
    <3> QED BY <1>2, <3>1 DEF Decide, Cancel, Fault, DisconnectAtAwait, DisconnectAtYield,
       DisconnectOutside
  <2>3. run'.status = "waiting_for_approval" => run.status = "waiting_for_approval"
    BY <1>2, <1>a, RowFields DEF Decide, Cancel, Fault, DisconnectAtAwait, DisconnectAtYield,
       DisconnectOutside
  <2>4. pc'[h] \notin WorkPoints \union ReconnectPoints \union {"propose", "resume"}
    BY <2>1 DEF WorkPoints, SegmentPoints, Resuming, ReconnectPoints
  <2> QED BY <1>a, <1>b, <2>1, <2>2, <2>3, <2>4, FrameKeepsWork
<1> QED BY <1>1, <1>2 DEF Request

LEMMA WorkStep ==
    ASSUME TypeInv, StartedOnce, WorkInv, [Next]_vars,
           ~ \E h \in Handlers : Reconnect(h)
    PROVE  WorkInv'
<1>1. CASE Crash
  <2>1. \A h \in Handlers : pc'[h] \notin ReconnectPoints \union WorkPoints
    BY <1>1 DEF Crash, ReconnectPoints, WorkPoints, SegmentPoints, Resuming
  <2>2. run' = run /\ Created' = Created /\ Pending' = Pending /\ Changed' = Changed
    BY <1>1 DEF Crash, Created, Pending, Changed
  <2>3. OnePending'
    BY <1>1 DEF Crash, WorkInv, OnePending
  <2> QED BY <2>1, <2>2, <2>3 DEF WorkInv, CallsCounted
<1>2. CASE UNCHANGED vars
  BY <1>2 DEF vars, WorkInv, OnePending, CallsCounted, Created, Pending, Changed, Working,
     Fresh
<1> QED BY <1>1, <1>2, SegmentKeepsWork, DecideKeepsWork, ActivateKeepsWork,
        RequestKeepsWork DEF Next, HandlerStep

LEMMA WorkInit == Init => WorkInv
<1> SUFFICES ASSUME Init PROVE WorkInv
  OBVIOUS
<1>1. Created = {} /\ Pending = {} /\ Changed = {}
  BY DEF Init, Created, Pending, Changed
<1>2. \A h \in Handlers : pc[h] \notin WorkPoints \union ReconnectPoints
  BY DEF Init, WorkPoints, SegmentPoints, Resuming, ReconnectPoints
<1>3. OnePending
  BY DEF Init, OnePending
<1>4. CallsCounted
  BY <1>1, FS_EmptySet, LimitsAssumption DEF Init, NoRow, CallsCounted
<1> QED BY <1>1, <1>2, <1>3, <1>4 DEF WorkInv

-----------------------------------------------------------------------------
(* The invariants of the history                                           *)

(* What holds from the start, and what holds until a reconnect.            *)
HistoryInv ==
    /\ TypeInv /\ StartedOnce /\ SingleSegment /\ WaitingInv
    /\ ~reconnected => WorkInv

LEMMA HistoryInvInit == HistoryInit => HistoryInv
  BY TypeInit, StartedInit, SingleInit, WaitingInit, WorkInit DEF HistoryInit, HistoryInv

LEMMA HistoryInvStep == HistoryInv /\ [HistoryNext]_<<vars, reconnected>> => HistoryInv'
<1> SUFFICES ASSUME HistoryInv, [HistoryNext]_<<vars, reconnected>> PROVE HistoryInv'
  OBVIOUS
<1>1. [Next]_vars
  BY DEF HistoryNext
<1>2. TypeInv' /\ StartedOnce' /\ SingleSegment' /\ WaitingInv'
  BY <1>1, TypeStep, StatusStays, SingleStep, WaitingStep DEF HistoryInv
<1>3. ASSUME ~reconnected' PROVE WorkInv'
  <2>1. CASE HistoryNext
    <3>1. ~reconnected /\ ~ \E h \in Handlers : Reconnect(h)
      BY <1>3, <2>1, Zenon DEF HistoryNext
    <3>2. TypeInv /\ StartedOnce /\ WorkInv
      BY <3>1, Zenon DEF HistoryInv
    <3> QED BY <1>1, <3>1, <3>2, WorkStep
  <2>2. CASE UNCHANGED <<vars, reconnected>>
    <3>1. WorkInv /\ UNCHANGED vars
      BY <1>3, <2>2, Zenon DEF HistoryInv
    <3> QED BY <3>1 DEF vars, WorkInv, OnePending, CallsCounted, Created, Pending, Changed,
               Working, Fresh
  <2> QED BY <2>1, <2>2
<1> QED BY <1>2, <1>3, Zenon DEF HistoryInv

LEMMA HistoryHolds == HistorySpec => []HistoryInv
  BY HistoryInvInit, HistoryInvStep, PTL DEF HistorySpec

(* A run that waits for approval has a call to approve, even when requests *)
(* reconnect to it at once; and until one does it has no second one.       *)
THEOREM WaitingRunsHaveOnePending == HistorySpec => []WaitingHasOnePending
<1>1. ASSUME HistoryInv PROVE WaitingHasOnePending
  <2>1. WaitingHasPending
    BY <1>1 DEF HistoryInv, WaitingInv, WaitingHasPending
  <2>2. WorkInv => OnePending
    BY DEF WorkInv
  <2> QED BY <1>1, <2>1, <2>2, Zenon DEF HistoryInv, WaitingHasOnePending
<1> QED BY <1>1, HistoryHolds, PTL

(* Until a reconnect the provider is only asked to go on with the result   *)
(* of every change already made in the conversation.                       *)
THEOREM TranscriptHasEveryChange == HistorySpec => []TranscriptCompleteAtFirst
<1>1. ASSUME HistoryInv PROVE TranscriptCompleteAtFirst
  <2>1. ASSUME WorkInv PROVE TranscriptComplete
    <3>1. ASSUME NEW h \in Handlers, pc[h] = "provider" PROVE Changed \subseteq cached[h].answers
      BY <2>1, <3>1 DEF WorkInv, Working, Fresh, WorkPoints, SegmentPoints
    <3> QED BY <3>1 DEF TranscriptComplete, Changed
  <2> QED BY <1>1, <2>1, Zenon DEF HistoryInv, TranscriptCompleteAtFirst
<1> QED BY <1>1, HistoryHolds, PTL

(* max_tool_calls bounds the calls of the whole run, until a reconnect     *)
(* resumes it from an old row ...                                          *)
THEOREM LimitHoldsAtFirst == HistorySpec => [](reconnected \/ ToolCallLimit)
<1>1. ASSUME HistoryInv PROVE reconnected \/ ToolCallLimit
  <2>1. WorkInv => ToolCallLimit
    BY DEF WorkInv, CallsCounted, ToolCallLimit, Created
  <2> QED BY <1>1, <2>1, Zenon DEF HistoryInv
<1> QED BY <1>1, HistoryHolds, PTL

(* ... and always when nobody reconnects.                                  *)
THEOREM LimitHolds == ASSUME "reconnect" \notin Environment PROVE Spec => []ToolCallLimit
<1> DEFINE Inv == TypeInv /\ StartedOnce /\ WorkInv
<1>1. Init => Inv
  BY TypeInit, StartedInit, WorkInit
<1>2. Inv /\ [Next]_vars => Inv'
  <2>1. \A h \in Handlers : ~Reconnect(h)
    BY DEF Reconnect
  <2> QED BY <2>1, TypeStep, StatusStays, WorkStep
<1>3. Inv => ToolCallLimit
  BY DEF WorkInv, CallsCounted, ToolCallLimit, Created
<1> QED BY <1>1, <1>2, <1>3, PTL DEF Spec

-----------------------------------------------------------------------------
(* The types of the panel                                                  *)

Ids == Calls \union {NoCall}
EventTypes == {"run", "text", "proposal", "error", "done"}
Events == [type: EventTypes, call: Ids]

Streams == [question: Nat, call: Ids, decision: Decisions, sent: BOOLEAN, reading: BOOLEAN,
            aborted: BOOLEAN, queue: Seq(Events), end: {"open", "eof", "broken"}]

Panels == [asked: Nat, running: BOOLEAN, runId: Nat, controller: Connections \union {NoHandler},
           proposal: Ids, error: BOOLEAN, cancelled: BOOLEAN]

PanelTypeOK ==
    /\ panel \in Panels
    /\ conversation \in [Questions -> SUBSET Nat]
    /\ stream \in [Connections -> Streams]
    /\ question \in Nat
    /\ posted \in BOOLEAN
    /\ elsewhere \in {"idle", "running", "closing"}

-----------------------------------------------------------------------------
(* The panel only takes steps of the run                                   *)

(* What each step does to the run.                                         *)
RunStep ==
    \/ UNCHANGED vars
    \/ \E h \in Handlers :
          \/ HandlerStep(h) \/ Fault(h) \/ Cancel(h)
          \/ \E direct \in BOOLEAN : RunAgent(h, direct)
          \/ \E c \in Calls, d \in Decisions : Decide(h, c, d)

LEMMA PanelStepsRun == PanelTypeOK /\ AssistantNext => RunStep
<1> SUFFICES ASSUME PanelTypeOK, AssistantNext PROVE RunStep
  OBVIOUS
<1>1. ASSUME NEW h \in Handlers, TakeUpDecision(h) PROVE RunStep
  <2>1. stream[h].call \in Calls /\ stream[h].decision \in Decisions
    BY <1>1 DEF TakeUpDecision, PanelTypeOK, Streams, Ids, Connections
  <2> QED BY <1>1, <2>1 DEF TakeUpDecision, RunStep
<1>2. ASSUME User \/ PanelStep \/ OtherRun \/ \E k \in Connections : Vanish(k)
      PROVE  UNCHANGED vars
  <2>1. CASE User
    BY <2>1 DEF User, Submit, DecideProposal, CancelRequest
  <2>2. CASE PanelStep
    BY <2>2 DEF PanelStep, HandleEvent, StreamEnds, Settled
  <2> QED BY <1>2, <2>1, <2>2 DEF OtherRun, Vanish
<1>3. TakeUpCancel => RunStep
  BY DEF TakeUpCancel, RunStep
<1>4. ASSUME NEW h \in Handlers, Serve(h) \/ TakeUpQuestion(h) \/ RefuseDecision(h)
                                 \/ NoticeAbort(h)
      PROVE  RunStep
  BY <1>4 DEF Serve, TakeUpQuestion, RefuseDecision, NoticeAbort, RunStep
<1> QED BY <1>1, <1>2, <1>3, <1>4 DEF AssistantNext, Server, RunStep

LEMMA RunStepsAreSteps == RunStep => [Next]_vars
  BY DEF RunStep, Next, Request, vars

(* Nobody reconnects: the panel never calls reconnect.                     *)
LEMMA PanelNeverReconnects ==
    ASSUME TypeInv, RunStep, NEW g \in Handlers
    PROVE  ~Reconnect(g)
<1> SUFFICES ASSUME Reconnect(g) PROVE FALSE
  OBVIOUS
<1>1. pc[g] = "idle" /\ pc'[g] = "transition" /\ pc \in [Handlers -> Points]
  BY DEF Reconnect, Goto, TypeInv, TypeOK
<1>2. CASE UNCHANGED vars
  BY <1>1, <1>2 DEF vars
<1>3. ASSUME NEW h \in Handlers, HandlerStep(h) \/ Fault(h) \/ Cancel(h) PROVE FALSE
  <2>1. HandlerStep(h) \/ Fault(h) => pc[h] # "idle"
    BY IdleDoesNothing
  <2> QED BY <1>1, <1>3, <2>1, OthersStay DEF Cancel
<1>4. ASSUME NEW h \in Handlers, NEW direct \in BOOLEAN, RunAgent(h, direct) PROVE FALSE
  BY <1>1, <1>4 DEF RunAgent, Goto
<1>5. ASSUME NEW h \in Handlers, NEW c \in Calls, NEW d \in Decisions, Decide(h, c, d)
      PROVE FALSE
  BY <1>1, <1>5 DEF Decide, Goto
<1> QED BY <1>2, <1>3, <1>4, <1>5 DEF RunStep

-----------------------------------------------------------------------------
(* One stream                                                              *)

(* What says something about the run, rather than that it is over.         *)
Speaking == {"run", "text", "proposal"}

(* The server is past the last event of the request.                       *)
Over(k) == IF k = Elsewhere THEN elsewhere \in {"closing", "idle"}
           ELSE pc[k] \in {"closing", "idle"}

(* Everything but the run's id is said at the end, and what follows it     *)
(* says no more than that.                                                 *)
EndsOnce(events) ==
    \A i, j \in 1..Len(events) :
        i < j /\ events[i].type # "run" => events[j].type \notin Speaking

OnlyRun(events) == \A i \in 1..Len(events) : events[i].type = "run"

QueueOK(s, over) ==
    /\ EndsOnce(s.queue)
    /\ OnlyRun(s.queue) \/ (~s.sent /\ over)

(* Nothing can come any more but the end.                                  *)
SpentStream(s, over) ==
    /\ ~s.sent /\ over
    /\ \A i \in 1..Len(s.queue) : s.queue[i].type \notin Speaking

StreamInv ==
    \A k \in Connections :
        QueueOK(stream[k], Over(k)) /\ (stream[k].sent => ~Busy(k))

Current(k) ==
    /\ panel.running /\ panel.controller = k /\ panel.proposal = NoCall
    /\ stream[k].question = panel.asked

ApartInv ==
    ~overtaken =>
        /\ \A k \in Connections :
              stream[k].reading /\ ~SpentStream(stream[k], Over(k)) => Current(k)
        /\ AnswersStayApart

-----------------------------------------------------------------------------
(* What the panel and the server do to one stream                          *)

LEMMA NoStreamOK ==
    /\ NoStream \in Streams
    /\ \A over \in BOOLEAN : QueueOK(NoStream, over)
    /\ ~NoStream.reading /\ ~NoStream.sent
<1>1. <<>> \in Seq(Events) /\ Len(<<>>) = 0
  OBVIOUS
<1> QED BY <1>1 DEF NoStream, Streams, Ids, Decisions, QueueOK, EndsOnce, OnlyRun

LEMMA ReleasedOK ==
    ASSUME NEW s, NEW busy, NEW over
    PROVE  /\ s \in Streams => Released(s, busy) \in Streams
           /\ QueueOK(s, over) => QueueOK(Released(s, busy), over)
           /\ Released(s, busy).reading => Released(s, busy) = s
           /\ Released(s, busy).sent => s.sent
<1>1. QueueOK(NoStream, over)
  BY DEF NoStream, QueueOK, EndsOnce, OnlyRun
<1> QED BY <1>1, NoStreamOK DEF Released

(* The panel hears the first event.                                        *)
LEMMA TailOK ==
    ASSUME NEW s \in Streams, s.queue # <<>>, NEW over, QueueOK(s, over),
           NEW t, t = [s EXCEPT !.queue = Tail(@)]
    PROVE  /\ t \in Streams
           /\ t.queue = Tail(s.queue) /\ t.sent = s.sent /\ t.reading = s.reading
           /\ t.question = s.question
           /\ Head(s.queue) \in Events
           /\ QueueOK(t, over)
           /\ Head(s.queue).type # "run" => SpentStream(t, over)
           /\ SpentStream(s, over) => SpentStream(t, over)
<1> DEFINE q == s.queue
           r == Tail(s.queue)
<1>1. q \in Seq(Events) /\ Head(q) = q[1] /\ Head(q) \in Events /\ r \in Seq(Events)
      /\ Len(r) = Len(q) - 1 /\ Len(q) \in Nat /\ Len(q) > 0
      /\ \A i \in 1..Len(r) : r[i] = q[i + 1]
  BY HeadTailProperties DEF Streams
<1>2. t \in Streams /\ t.queue = r /\ t.sent = s.sent /\ t.reading = s.reading
      /\ t.question = s.question
  BY <1>1 DEF Streams
<1> HIDE DEF r
<1>3. \A i \in 1..Len(r) : i + 1 \in 1..Len(q) /\ 1 < i + 1
  BY <1>1
<1>4. EndsOnce(r)
  <2> SUFFICES ASSUME NEW i \in 1..Len(r), NEW j \in 1..Len(r), i < j, r[i].type # "run"
               PROVE r[j].type \notin Speaking
    BY DEF EndsOnce
  <2>1. i + 1 < j + 1 /\ r[i] = q[i + 1] /\ r[j] = q[j + 1]
    BY <1>1
  <2> QED BY <1>3, <2>1 DEF QueueOK, EndsOnce
<1>5. OnlyRun(q) => OnlyRun(r)
  BY <1>1, <1>3 DEF OnlyRun
<1>6. ASSUME q[1].type # "run" PROVE SpentStream(t, over)
  <2>1. ~s.sent /\ over
    BY <1>1, <1>6 DEF QueueOK, OnlyRun
  <2>2. ASSUME NEW i \in 1..Len(r) PROVE r[i].type \notin Speaking
    <3>1. 1 \in 1..Len(q) /\ i + 1 \in 1..Len(q) /\ 1 < i + 1 /\ r[i] = q[i + 1]
      BY <1>1, <1>3
    <3>2. EndsOnce(q)
      BY DEF QueueOK
    <3> HIDE DEF q
    <3> QED BY <1>6, <3>1, <3>2 DEF EndsOnce
  <2> QED BY <1>2, <2>1, <2>2 DEF SpentStream
<1>7. SpentStream(s, over) => SpentStream(t, over)
  BY <1>1, <1>2, <1>3 DEF SpentStream
<1>8. QueueOK(t, over)
  BY <1>2, <1>4, <1>5 DEF QueueOK
<1> QED BY <1>1, <1>2, <1>6, <1>7, <1>8

(* The server, not yet through, says something.                            *)
LEMMA YieldsOK ==
    ASSUME NEW s \in Streams, OnlyRun(s.queue),
           NEW said \in Seq(Events), EndsOnce(said), NEW end \in {"open", "eof", "broken"},
           NEW over, OnlyRun(said) \/ (~s.sent /\ over)
    PROVE  /\ Yields(s, said, end) \in Streams
           /\ QueueOK(Yields(s, said, end), over)
<1> DEFINE q == s.queue
           r == s.queue \o said
<1>1. q \in Seq(Events) /\ r \in Seq(Events) /\ Len(q) \in Nat /\ Len(said) \in Nat
      /\ Len(r) = Len(q) + Len(said)
      /\ \A i \in 1..Len(r) : r[i] = IF i <= Len(q) THEN q[i] ELSE said[i - Len(q)]
  BY ConcatProperties DEF Streams
<1> HIDE DEF r
<1>2. EndsOnce(r)
  <2> SUFFICES ASSUME NEW i \in 1..Len(r), NEW j \in 1..Len(r), i < j, r[i].type # "run"
               PROVE r[j].type \notin Speaking
    BY DEF EndsOnce
  <2>1. i > Len(q)
    <3> SUFFICES ASSUME i <= Len(q) PROVE FALSE
      BY <1>1
    <3>1. i \in 1..Len(q) /\ r[i] = q[i]
      BY <1>1
    <3> HIDE DEF q
    <3>2. OnlyRun(q)
      BY DEF q
    <3> QED BY <3>1, <3>2 DEF OnlyRun
  <2>2. /\ i - Len(q) \in 1..Len(said) /\ j - Len(q) \in 1..Len(said)
        /\ i - Len(q) < j - Len(q)
        /\ r[i] = said[i - Len(q)] /\ r[j] = said[j - Len(q)]
    BY <1>1, <2>1
  <2> QED BY <2>2 DEF EndsOnce
<1>3. ASSUME OnlyRun(said) PROVE OnlyRun(r)
  <2> SUFFICES ASSUME NEW i \in 1..Len(r) PROVE r[i].type = "run"
    BY DEF OnlyRun
  <2>1. OnlyRun(q)
    OBVIOUS
  <2> HIDE DEF q
  <2>2. CASE i <= Len(q)
    BY <1>1, <2>1, <2>2 DEF OnlyRun
  <2>3. CASE i > Len(q)
    <3>1. i - Len(q) \in 1..Len(said) /\ r[i] = said[i - Len(q)]
      BY <1>1, <2>3
    <3> QED BY <1>3, <3>1 DEF OnlyRun
  <2> QED BY <1>1, <2>2, <2>3
<1>4. CASE s.aborted
  <2>1. Yields(s, said, end) = s
    BY <1>4 DEF Yields
  <2>2. EndsOnce(s.queue)
    BY DEF OnlyRun, EndsOnce
  <2> QED BY <2>1, <2>2 DEF QueueOK
<1>5. CASE ~s.aborted
  <2> DEFINE t == [s EXCEPT !.queue = r, !.end = end]
  <2>1. Yields(s, said, end) = t
    BY <1>5 DEF Yields, r
  <2>2. t \in Streams /\ t.queue = r /\ t.sent = s.sent
    BY <1>1 DEF Streams
  <2> QED BY <1>2, <1>3, <2>1, <2>2 DEF QueueOK
<1> QED BY <1>4, <1>5 DEF Streams

(* The server closes the stream, or says nothing.                          *)
LEMMA YieldsNothing ==
    ASSUME NEW s \in Streams, NEW end \in {"open", "eof", "broken"}
    PROVE  /\ Yields(s, <<>>, end) \in Streams
           /\ Yields(s, <<>>, end).queue = s.queue
           /\ Yields(s, <<>>, end).sent = s.sent
<1>1. s.queue \in Seq(Events) /\ s.queue \o <<>> = s.queue
  BY ConcatEmptySeq DEF Streams
<1>2. [s EXCEPT !.queue = s.queue, !.end = end] \in Streams
  BY DEF Streams
<1> QED BY <1>1, <1>2 DEF Yields, Streams

(* Whatever the server says, it says it to the same reader.                *)
LEMMA YieldsFields ==
    ASSUME NEW s \in Streams, NEW said, NEW end
    PROVE  /\ Yields(s, said, end).reading = s.reading
           /\ Yields(s, said, end).question = s.question
           /\ Yields(s, said, end).sent = s.sent
  BY DEF Yields, Streams

LEMMA TakenUpFields ==
    ASSUME NEW s \in Streams, NEW t, t = [s EXCEPT !.sent = FALSE]
    PROVE  /\ t \in Streams /\ ~t.sent /\ t.queue = s.queue
           /\ t.reading = s.reading /\ t.question = s.question
  BY DEF Streams

-----------------------------------------------------------------------------
(* One stream changes, the others do not                                   *)

Replaces(k, new) == stream' = [stream EXCEPT ![k] = new]

OthersAlone(k) ==
    \A j \in Connections : j # k => (Over(j)' <=> Over(j)) /\ (Busy(j)' <=> Busy(j))

(* Nobody has anything to say who had nothing to say before.               *)
NoNewSpeech ==
    \A k \in Connections :
        stream'[k].reading /\ ~SpentStream(stream'[k], Over(k)') =>
            /\ stream[k].reading /\ ~SpentStream(stream[k], Over(k))
            /\ stream'[k].question = stream[k].question

LEMMA OneStream ==
    ASSUME stream \in [Connections -> Streams], StreamInv,
           NEW k \in Connections, NEW new \in Streams, Replaces(k, new),
           QueueOK(new, Over(k)'), new.sent => ~Busy(k)', OthersAlone(k)
    PROVE  /\ stream' \in [Connections -> Streams]
           /\ StreamInv'
           /\ stream'[k] = new
           /\ \A j \in Connections : j # k => stream'[j] = stream[j]
<1>1. /\ stream' \in [Connections -> Streams]
      /\ stream'[k] = new
      /\ \A j \in Connections : j # k => stream'[j] = stream[j]
  BY DEF Replaces
<1>2. ASSUME NEW j \in Connections
      PROVE  QueueOK(stream'[j], Over(j)') /\ (stream'[j].sent => ~Busy(j)')
  <2>1. CASE j = k
    BY <1>1, <2>1
  <2>2. CASE j # k
    <3>1. stream'[j] = stream[j] /\ (Over(j)' <=> Over(j)) /\ (Busy(j)' <=> Busy(j))
      BY <1>1, <2>2 DEF OthersAlone
    <3>2. QueueOK(stream[j], Over(j)) /\ (stream[j].sent => ~Busy(j))
      BY DEF StreamInv
    <3> QED BY <3>1, <3>2 DEF QueueOK
  <2> QED BY <2>1, <2>2
<1> QED BY <1>1, <1>2 DEF StreamInv

(* The server works for one stream.                                        *)
LEMMA ServerStream ==
    ASSUME stream \in [Connections -> Streams], StreamInv,
           NEW k \in Connections, NEW t \in Streams, NEW busy, Replaces(k, Released(t, busy)),
           t.reading = stream[k].reading, t.question = stream[k].question,
           SpentStream(stream[k], Over(k)) => SpentStream(t, Over(k)'),
           QueueOK(t, Over(k)'), t.sent => ~Busy(k)', OthersAlone(k)
    PROVE  stream' \in [Connections -> Streams] /\ StreamInv' /\ NoNewSpeech
<1> DEFINE new == Released(t, busy)
<1>1. /\ new \in Streams /\ QueueOK(new, Over(k)')
      /\ new.reading => new = t
      /\ new.sent => t.sent
  BY ReleasedOK
<1>2. /\ stream' \in [Connections -> Streams]
      /\ StreamInv'
      /\ stream'[k] = new
      /\ \A j \in Connections : j # k => stream'[j] = stream[j]
  BY <1>1, OneStream
<1>3. ASSUME NEW j \in Connections, stream'[j].reading, ~SpentStream(stream'[j], Over(j)')
      PROVE  /\ stream[j].reading /\ ~SpentStream(stream[j], Over(j))
             /\ stream'[j].question = stream[j].question
  <2>1. CASE j = k
    BY <1>1, <1>2, <1>3, <2>1
  <2>2. CASE j # k
    <3>1. stream'[j] = stream[j] /\ (Over(j)' <=> Over(j))
      BY <1>2, <2>2 DEF OthersAlone
    <3> QED BY <1>3, <3>1 DEF SpentStream
  <2> QED BY <2>1, <2>2
<1> QED BY <1>2, <1>3 DEF NoNewSpeech

(* What only depends on the run does so for its own handler.               *)
LEMMA OneHandler ==
    ASSUME NEW h \in Handlers, elsewhere' = elsewhere,
           \A g \in Handlers : g # h => pc'[g] = pc[g]
    PROVE  /\ OthersAlone(h)
           /\ Over(h) <=> pc[h] \in {"closing", "idle"}
           /\ Over(h)' <=> pc'[h] \in {"closing", "idle"}
           /\ Busy(h) <=> pc[h] # "idle"
           /\ Busy(h)' <=> pc'[h] # "idle"
  BY PanelAssumption DEF OthersAlone, Over, Busy, Connections

LEMMA NoHandlerMoves ==
    ASSUME pc' = pc, elsewhere' = elsewhere
    PROVE  \A k \in Connections :
              OthersAlone(k) /\ (Over(k)' <=> Over(k)) /\ (Busy(k)' <=> Busy(k))
  BY DEF OthersAlone, Over, Busy

-----------------------------------------------------------------------------
(* What a handler says                                                     *)

LEMMA EventsOK ==
    /\ \A type \in EventTypes : Event(type) \in Events /\ Event(type).type = type
    /\ \A c \in Ids : Proposal(c) \in Events /\ Proposal(c).type = "proposal"
  BY DEF Event, Proposal, Events, EventTypes, Ids

LEMMA SaidNothing ==
    <<>> \in Seq(Events) /\ EndsOnce(<<>>) /\ OnlyRun(<<>>)
  BY DEF EndsOnce, OnlyRun

LEMMA SaidRun ==
    <<Event("run")>> \in Seq(Events) /\ EndsOnce(<<Event("run")>>) /\ OnlyRun(<<Event("run")>>)
<1>1. Event("run") \in Events /\ Event("run").type = "run"
  BY EventsOK DEF EventTypes
<1> QED BY <1>1 DEF EndsOnce, OnlyRun

LEMMA SaidDone ==
    <<Event("done")>> \in Seq(Events) /\ EndsOnce(<<Event("done")>>)
<1>1. Event("done") \in Events /\ Event("done").type = "done"
  BY EventsOK DEF EventTypes
<1> QED BY <1>1 DEF EndsOnce, Speaking

LEMMA SaidLast ==
    ASSUME NEW e \in Events
    PROVE  <<e, Event("done")>> \in Seq(Events) /\ EndsOnce(<<e, Event("done")>>)
<1>1. Event("done") \in Events /\ Event("done").type = "done"
  BY EventsOK DEF EventTypes
<1> HIDE DEF Event, Events
<1> DEFINE q == <<e, Event("done")>>
<1>2. q \in Seq(Events) /\ Len(q) = 2 /\ q[1] = e /\ q[2] = Event("done")
  BY <1>1
<1> HIDE DEF q
<1>3. ASSUME NEW i \in 1..Len(q), NEW j \in 1..Len(q), i < j PROVE q[j].type \notin Speaking
  <2>1. j = 2
    BY <1>2, <1>3
  <2> QED BY <1>1, <1>2, <2>1 DEF Speaking
<1>4. EndsOnce(q)
  BY <1>3 DEF EndsOnce
<1> QED BY <1>2, <1>4 DEF q

LEMMA SaidOK ==
    ASSUME TypeInv, NEW h \in Handlers
    PROVE  /\ Said(h) \in Seq(Events) /\ EndsOnce(Said(h))
           /\ Ends(h) \in {"open", "eof", "broken"}
           /\ Said(h) = <<>> \/ pc'[h] \in {"closing", "idle"}
           /\ pc[h] = "closing" => Said(h) = <<>>
<1>1. local[h].call \in Ids
  BY DEF TypeInv, TypeOK, Requests, Ids
<1>2. Proposal(local[h].call) \in Events
  BY <1>1, EventsOK
<1>3. Event("text") \in Events /\ Event("error") \in Events
  BY EventsOK DEF EventTypes
<1>4. Ends(h) \in {"open", "eof", "broken"}
  BY DEF Ends
<1> DEFINE said == {<<>>, <<Event("done")>>, <<Event("text"), Event("done")>>,
                    <<Event("error"), Event("done")>>,
                    <<Proposal(local[h].call), Event("done")>>}
<1>5. \A q \in said : q \in Seq(Events) /\ EndsOnce(q)
  BY <1>2, <1>3, SaidNothing, SaidDone, SaidLast
<1>6. Said(h) \in said
  BY DEF Said
<1>7. Said(h) = <<>> \/ pc'[h] \in {"closing", "idle"}
  BY DEF Said
<1>8. pc[h] = "closing" => Said(h) = <<>>
  BY DEF Said
<1> QED BY <1>4, <1>5, <1>6, <1>7, <1>8

LEMMA ClosingEnds ==
    ASSUME TypeInv, NEW h \in Handlers, pc[h] = "closing", HandlerStep(h)
    PROVE  pc'[h] = "idle"
<1>1. Close(h)
  BY DEF HandlerStep, SegmentStep, SegmentStart, LoopTop, SeeCancel, ProviderResponds,
     FinishAnswer, LimitReached, Propose, ReadToolReturns, CreateChangeCall, CreateReadCall,
     SegmentFails, AbortSave, DecideStep, ExpireRun, Claim, ClaimConflict, Refresh,
     ExecuteApproved, SaveApproved, SaveRejected, ApprovedToolFails, ReconnectStep,
     Transition, TransitionConflict, Reload, Activate, ActivateConflict, SegmentPoints
<1> QED BY <1>1 DEF Close, Return, TypeInv, TypeOK

-----------------------------------------------------------------------------
(* The server's steps                                                      *)

PanelInv == PanelTypeOK /\ StreamInv

(* What a step of the server keeps.                                        *)
Heard == PanelTypeOK' /\ StreamInv' /\ NoNewSpeech

LEMMA ServeIsHeard ==
    ASSUME TypeInv, PanelInv, NEW h \in Handlers, Serve(h)
    PROVE  Heard
<1> DEFINE s == stream[h]
           t == Yields(s, Said(h), Ends(h))
<1>1. h \in Connections /\ s \in Streams /\ QueueOK(s, Over(h)) /\ (s.sent => ~Busy(h))
      /\ elsewhere' = elsewhere
  BY DEF Connections, PanelInv, PanelTypeOK, StreamInv, Serve
<1>2. HandlerStep(h) /\ pc[h] # "idle" /\ Replaces(h, Released(t, pc'[h] # "idle"))
  BY IdleDoesNothing DEF Serve, Replaces
<1>3. \A g \in Handlers : g # h => pc'[g] = pc[g]
  BY <1>2, OthersStay
<1>4. /\ OthersAlone(h)
      /\ Over(h) <=> pc[h] \in {"closing", "idle"}
      /\ Over(h)' <=> pc'[h] \in {"closing", "idle"}
      /\ Busy(h) <=> pc[h] # "idle"
  BY <1>1, <1>3, OneHandler
<1>5. ~s.sent
  BY <1>1, <1>2, <1>4
<1>6. t.reading = s.reading /\ t.question = s.question /\ t.sent = s.sent
  BY <1>1, YieldsFields
<1>7. /\ t \in Streams /\ QueueOK(t, Over(h)')
      /\ (SpentStream(s, Over(h)) => SpentStream(t, Over(h)'))
  <2>1. CASE pc[h] = "closing"
    <3>1. Said(h) = <<>> /\ Ends(h) \in {"open", "eof", "broken"} /\ pc'[h] = "idle"
      BY <1>2, <2>1, SaidOK, ClosingEnds
    <3>2. t \in Streams /\ t.queue = s.queue
      BY <1>1, <3>1, YieldsNothing
    <3> HIDE DEF t, s
    <3> QED BY <1>1, <1>4, <1>5, <1>6, <3>1, <3>2 DEF QueueOK, SpentStream
  <2>2. CASE pc[h] # "closing"
    <3>1. ~Over(h)
      BY <1>2, <1>4, <2>2
    <3>2. OnlyRun(s.queue)
      BY <1>1, <3>1 DEF QueueOK
    <3>3. /\ Said(h) \in Seq(Events) /\ EndsOnce(Said(h))
          /\ Ends(h) \in {"open", "eof", "broken"}
          /\ OnlyRun(Said(h)) \/ (~s.sent /\ Over(h)')
      BY <1>4, <1>5, SaidOK, SaidNothing
    <3>4. t \in Streams /\ QueueOK(t, Over(h)')
      BY <1>1, <3>2, <3>3, YieldsOK
    <3> QED BY <3>1, <3>4 DEF SpentStream
  <2> QED BY <2>1, <2>2
<1> HIDE DEF t, s
<1>8. stream' \in [Connections -> Streams] /\ StreamInv' /\ NoNewSpeech
  BY <1>1, <1>2, <1>4, <1>5, <1>6, <1>7, ServerStream DEF s, PanelInv, PanelTypeOK
<1> QED BY <1>8 DEF Heard, PanelInv, PanelTypeOK, Serve

(* A request reaches the server.                                           *)
LEMMA TakenUpIsHeard ==
    ASSUME TypeInv, PanelInv, NEW h \in Handlers, stream[h].sent,
           UNCHANGED <<panel, conversation, question, posted, elsewhere>>,
           \A g \in Handlers : g # h => pc'[g] = pc[g],
           NEW said \in Seq(Events), EndsOnce(said), NEW end \in {"open", "eof", "broken"},
           OnlyRun(said) \/ pc'[h] \in {"closing", "idle"},
           TakenUp(h, said, end)
    PROVE  Heard
<1> DEFINE s == stream[h]
           u == [s EXCEPT !.sent = FALSE]
           t == Yields(u, said, end)
<1>1. h \in Connections /\ s \in Streams /\ QueueOK(s, Over(h))
  BY DEF Connections, PanelInv, PanelTypeOK, StreamInv
<1>2. u \in Streams /\ ~u.sent /\ u.queue = s.queue /\ u.reading = s.reading
      /\ u.question = s.question
  BY <1>1, TakenUpFields
<1>3. Replaces(h, Released(t, end = "open"))
  BY DEF TakenUp, Replaces
<1>4. OthersAlone(h) /\ (Over(h)' <=> pc'[h] \in {"closing", "idle"})
  BY OneHandler
<1> HIDE DEF u
<1>5. t.reading = s.reading /\ t.question = s.question /\ ~t.sent
  BY <1>2, YieldsFields
<1>6. OnlyRun(u.queue)
  BY <1>1, <1>2 DEF QueueOK
<1>7. t \in Streams /\ QueueOK(t, Over(h)')
  BY <1>2, <1>4, <1>6, YieldsOK
<1>8. ~SpentStream(s, Over(h))
  BY DEF SpentStream
<1> HIDE DEF t, s
<1>9. stream' \in [Connections -> Streams] /\ StreamInv' /\ NoNewSpeech
  BY <1>1, <1>3, <1>4, <1>5, <1>7, <1>8, ServerStream DEF s, PanelInv, PanelTypeOK
<1> QED BY <1>9 DEF Heard, PanelInv, PanelTypeOK

LEMMA RequestIsHeard ==
    ASSUME TypeInv, PanelInv, NEW h \in Handlers,
           TakeUpQuestion(h) \/ TakeUpDecision(h) \/ RefuseDecision(h)
    PROVE  Heard
<1>1. CASE TakeUpQuestion(h)
  <2>1. \A g \in Handlers : g # h => pc'[g] = pc[g]
    BY <1>1, OthersStay DEF TakeUpQuestion, Request
  <2> QED BY <1>1, <2>1, SaidRun, TakenUpIsHeard DEF TakeUpQuestion
<1>2. CASE TakeUpDecision(h)
  <2>1. \A g \in Handlers : g # h => pc'[g] = pc[g]
    BY <1>2 DEF TakeUpDecision, Decide, Goto, TypeInv, TypeOK
  <2> QED BY <1>2, <2>1, SaidNothing, TakenUpIsHeard DEF TakeUpDecision
<1>3. CASE RefuseDecision(h)
  <2>1. \A g \in Handlers : pc'[g] = pc[g]
    BY <1>3 DEF RefuseDecision, vars
  <2>2. h \in Connections /\ (stream[h].sent => ~Busy(h))
    BY DEF Connections, PanelInv, StreamInv
  <2>3. pc'[h] = "idle"
    BY <1>3, <2>1, <2>2, PanelAssumption DEF RefuseDecision, Busy
  <2>4. \/ TakenUp(h, <<Event("done")>>, "eof")
        \/ TakenUp(h, <<>>, "broken")
    BY <1>3 DEF RefuseDecision
  <2> QED BY <1>3, <2>1, <2>3, <2>4, SaidDone, SaidNothing, TakenUpIsHeard DEF RefuseDecision
<1> QED BY <1>1, <1>2, <1>3

(* An aborted stream is noticed, or its request never arrives.             *)
LEMMA AbortIsHeard ==
    ASSUME TypeInv, PanelInv, NEW h \in Handlers, NoticeAbort(h)
    PROVE  Heard
<1> DEFINE s == stream[h]
<1>1. h \in Connections /\ s \in Streams /\ QueueOK(s, Over(h)) /\ (s.sent => ~Busy(h))
      /\ elsewhere' = elsewhere
  BY DEF Connections, PanelInv, PanelTypeOK, StreamInv, NoticeAbort
<1>2. Fault(h) /\ pc[h] # "idle" /\ pc[h] # "closing" /\ Replaces(h, Released(s, pc'[h] # "idle"))
  <2>1. Fault(h) => pc[h] # "closing"
    BY DEF Fault, DisconnectAtAwait, DisconnectAtYield, DisconnectOutside, SegmentPoints,
       DecidePoints, ReconnectPoints
  <2> QED BY <2>1, IdleDoesNothing DEF NoticeAbort, Replaces
<1>3. \A g \in Handlers : g # h => pc'[g] = pc[g]
  BY <1>2, OthersStay
<1>4. /\ OthersAlone(h) /\ ~Over(h) /\ Busy(h)
  BY <1>1, <1>2, <1>3, OneHandler
<1>5. ~s.sent /\ QueueOK(s, Over(h)') /\ ~SpentStream(s, Over(h))
  BY <1>1, <1>4 DEF QueueOK, SpentStream
<1>6. stream' \in [Connections -> Streams] /\ StreamInv' /\ NoNewSpeech
  BY <1>1, <1>2, <1>4, <1>5, ServerStream DEF PanelInv, PanelTypeOK
<1> QED BY <1>6 DEF Heard, PanelInv, PanelTypeOK, NoticeAbort

LEMMA LossIsHeard ==
    ASSUME PanelInv, NEW k \in Connections, Vanish(k)
    PROVE  Heard
<1>1. Replaces(k, NoStream) /\ pc' = pc /\ elsewhere' = elsewhere
  BY DEF Vanish, Replaces, vars
<1>2. OthersAlone(k)
  BY <1>1, NoHandlerMoves
<1>3. QueueOK(NoStream, Over(k)')
  BY NoStreamOK DEF NoStream, QueueOK, EndsOnce, OnlyRun
<1>4. /\ stream' \in [Connections -> Streams] /\ StreamInv'
      /\ stream'[k] = NoStream
      /\ \A j \in Connections : j # k => stream'[j] = stream[j]
  BY <1>1, <1>2, <1>3, NoStreamOK, OneStream DEF PanelInv, PanelTypeOK
<1>5. NoNewSpeech
  <2> SUFFICES ASSUME NEW j \in Connections, stream'[j].reading,
                      ~SpentStream(stream'[j], Over(j)')
               PROVE  /\ stream[j].reading /\ ~SpentStream(stream[j], Over(j))
                      /\ stream'[j].question = stream[j].question
    BY DEF NoNewSpeech
  <2>1. stream'[j] = stream[j] /\ (Over(j)' <=> Over(j))
    BY <1>1, <1>4, NoStreamOK, NoHandlerMoves
  <2> QED BY <2>1 DEF SpentStream
<1> QED BY <1>4, <1>5 DEF Heard, PanelInv, PanelTypeOK, Vanish

(* A cancel that has been posted is carried out.                           *)
LEMMA CancelIsHeard ==
    ASSUME PanelInv, TakeUpCancel
    PROVE  Heard
<1>1. pc' = pc /\ elsewhere' = elsewhere /\ stream' = stream
  BY DEF TakeUpCancel, Cancel, vars
<1>2. \A k \in Connections : (Over(k)' <=> Over(k)) /\ (Busy(k)' <=> Busy(k))
  BY <1>1, NoHandlerMoves
<1>3. StreamInv'
  BY <1>1, <1>2 DEF PanelInv, StreamInv, QueueOK
<1>4. NoNewSpeech
  BY <1>1, <1>2 DEF NoNewSpeech, SpentStream
<1> QED BY <1>1, <1>3, <1>4 DEF Heard, PanelInv, PanelTypeOK, TakeUpCancel

LEMMA OtherRunIsHeard ==
    ASSUME PanelInv, OtherRun
    PROVE  Heard
<1> DEFINE s == stream[Elsewhere]
           u == [s EXCEPT !.sent = FALSE]
           texts == {<<Event("text"), Event("done")>>, <<Event("error"), Event("done")>>}
<1>1. Elsewhere \in Connections /\ s \in Streams /\ QueueOK(s, Over(Elsewhere))
  BY DEF Connections, PanelInv, PanelTypeOK, StreamInv
<1>2. u \in Streams /\ ~u.sent /\ u.queue = s.queue /\ u.reading = s.reading
      /\ u.question = s.question
  BY <1>1, TakenUpFields
<1>3. OthersAlone(Elsewhere) /\ pc' = pc
  BY DEF OtherRun, vars, OthersAlone, Over, Busy
<1>4. /\ Over(Elsewhere) <=> elsewhere \in {"closing", "idle"}
      /\ Over(Elsewhere)' <=> elsewhere' \in {"closing", "idle"}
  BY DEF Over
<1>5. PICK events, end, busy :
          /\ Replaces(Elsewhere, Released(Yields(u, events, end), busy))
          /\ end \in {"open", "eof"}
          /\ \/ elsewhere = "idle" /\ s.sent /\ elsewhere' = "running"
                /\ events = <<Event("run")>>
             \/ elsewhere = "running" /\ elsewhere' = "closing" /\ events \in texts
             \/ elsewhere = "closing" /\ elsewhere' = "idle" /\ events = <<>>
  <2>1. elsewhere \in {"idle", "running", "closing"}
    BY DEF PanelInv, PanelTypeOK
  <2> HIDE DEF u
  <2>2. CASE elsewhere = "idle"
    <3>1. /\ s.sent /\ elsewhere' = "running"
          /\ Replaces(Elsewhere, Released(Yields(u, <<Event("run")>>, "open"), TRUE))
      BY <2>2 DEF OtherRun, Replaces, u
    <3> QED BY <2>2, <3>1
  <2>3. CASE elsewhere = "running"
    <3>1. PICK events \in texts :
            Replaces(Elsewhere, Released(Yields(u, events, "open"), TRUE))
      BY <2>3 DEF OtherRun, Replaces, u
    <3>2. elsewhere' = "closing"
      BY <2>3 DEF OtherRun
    <3> QED BY <2>3, <3>1, <3>2
  <2>4. CASE elsewhere = "closing"
    <3>1. /\ elsewhere' = "idle"
          /\ Replaces(Elsewhere, Released(Yields(u, <<>>, "eof"), FALSE))
      BY <2>4 DEF OtherRun, Replaces, u
    <3> QED BY <2>4, <3>1
  <2> QED BY <2>1, <2>2, <2>3, <2>4
<1> DEFINE t == Yields(u, events, end)
<1> HIDE DEF u
<1>6. t.reading = s.reading /\ t.question = s.question /\ ~t.sent
  BY <1>2, YieldsFields
<1>7. /\ t \in Streams /\ QueueOK(t, Over(Elsewhere)')
      /\ SpentStream(s, Over(Elsewhere)) => SpentStream(t, Over(Elsewhere)')
  <2>1. CASE elsewhere = "closing"
    <3>1. t \in Streams /\ t.queue = s.queue
      BY <1>2, <1>5, <2>1, YieldsNothing
    <3>2. Over(Elsewhere) /\ Over(Elsewhere)'
      BY <1>4, <1>5, <2>1
    <3> HIDE DEF t, s
    <3> QED BY <1>1, <1>6, <3>1, <3>2 DEF QueueOK, SpentStream
  <2>2. CASE elsewhere # "closing"
    <3>1. OnlyRun(u.queue)
      BY <1>1, <1>2, <1>4, <1>5, <2>2 DEF QueueOK
    <3>2. /\ events \in Seq(Events) /\ EndsOnce(events)
          /\ OnlyRun(events) \/ (~u.sent /\ Over(Elsewhere)')
      <4>1. CASE events = <<Event("run")>>
        BY <4>1, SaidRun
      <4>2. CASE events \in texts /\ elsewhere' = "closing"
        BY <1>2, <1>4, <4>2, SaidLast, EventsOK DEF EventTypes
      <4> QED BY <1>5, <2>2, <4>1, <4>2
    <3>3. t \in Streams /\ QueueOK(t, Over(Elsewhere)')
      BY <1>2, <1>5, <3>1, <3>2, YieldsOK
    <3>4. ~SpentStream(s, Over(Elsewhere))
      BY <1>4, <1>5, <2>2 DEF SpentStream
    <3> QED BY <3>3, <3>4
  <2> QED BY <2>1, <2>2
<1> HIDE DEF t, s
<1>8. stream' \in [Connections -> Streams] /\ StreamInv' /\ NoNewSpeech
  BY <1>1, <1>3, <1>5, <1>6, <1>7, ServerStream DEF s, t, PanelInv, PanelTypeOK
<1>9. elsewhere' \in {"idle", "running", "closing"}
  BY <1>5
<1> QED BY <1>8, <1>9 DEF Heard, PanelInv, PanelTypeOK, OtherRun

-----------------------------------------------------------------------------
(* The user's steps                                                        *)

(* A request the panel makes: its stream is new.                           *)
LEMMA SendOK ==
    ASSUME PanelInv, NEW k \in Connections, NEW request \in Streams,
           request.queue = <<>>, Send(k, request), pc' = pc, elsewhere' = elsewhere
    PROVE  /\ stream' \in [Connections -> Streams] /\ StreamInv'
           /\ stream[k] = NoStream /\ ~Busy(k)
           /\ stream'[k] = request
           /\ \A j \in Connections : j # k => stream'[j] = stream[j]
<1>1. Replaces(k, request)
  BY DEF Send, Replaces
<1>2. stream[k] = NoStream /\ ~Busy(k)
  <2>1. CASE k = Elsewhere
    BY <2>1 DEF Send
  <2>2. CASE k # Elsewhere
    BY <2>2 DEF Send, FreeHandlers, NextHandler
  <2> QED BY <2>1, <2>2
<1>3. OthersAlone(k) /\ (Busy(k)' <=> Busy(k))
  BY NoHandlerMoves
<1>4. QueueOK(request, Over(k)')
  BY DEF QueueOK, EndsOnce, OnlyRun
<1> QED BY <1>1, <1>2, <1>3, <1>4, OneStream DEF PanelInv, PanelTypeOK

DecisionRequest(q, c, d) ==
    [NoStream EXCEPT !.question = q, !.call = c, !.decision = d, !.sent = TRUE,
                     !.reading = TRUE]

LEMMA RequestOK ==
    ASSUME NEW q \in Nat, NEW c \in Ids, NEW d \in Decisions
    PROVE  /\ DecisionRequest(q, c, d) \in Streams
           /\ DecisionRequest(q, c, d).queue = <<>>
           /\ DecisionRequest(q, c, d).question = q
           /\ DecisionRequest(q, c, d).call = c /\ DecisionRequest(q, c, d).end = "open"
           /\ DecisionRequest(q, c, d).sent /\ DecisionRequest(q, c, d).reading
           /\ ~DecisionRequest(q, c, d).aborted
  BY NoStreamOK DEF NoStream, Streams, DecisionRequest

LEMMA QuestionOK ==
    ASSUME NEW q \in Nat
    PROVE  \A request :
              request = [NoStream EXCEPT !.question = q, !.sent = TRUE, !.reading = TRUE]
                 => /\ request \in Streams /\ request.queue = <<>>
                    /\ request.question = q /\ request.call = NoCall
                    /\ request.sent /\ request.reading
                    /\ ~request.aborted /\ request.end = "open"
  BY NoStreamOK, ZenonT(30) DEF NoStream, Streams

(* After a question or a decision nobody else has anything to say.         *)
LEMMA SubmitKeeps ==
    ASSUME PanelInv, ApartInv, ~overtaken => ~overtaken', overtaken => overtaken',
           NEW k \in Connections, Submit(k)
    PROVE  PanelInv' /\ ApartInv'
<1> DEFINE request == [NoStream EXCEPT !.question = panel.asked + 1, !.sent = TRUE,
                                       !.reading = TRUE]
<1>1. panel \in Panels /\ panel.asked + 1 \in Nat
  BY DEF PanelInv, PanelTypeOK, Panels
<1>2. request \in Streams /\ request.queue = <<>> /\ request.question = panel.asked + 1
  BY <1>1, QuestionOK
<1> HIDE DEF request
<1>3. pc' = pc /\ elsewhere' = elsewhere /\ Send(k, request) /\ ~panel.running
      /\ conversation' = conversation
  BY DEF Submit, vars, request
<1>4. /\ stream' \in [Connections -> Streams] /\ StreamInv'
      /\ stream'[k] = request
      /\ \A j \in Connections : j # k => stream'[j] = stream[j]
  BY <1>2, <1>3, SendOK
<1>5. /\ panel' \in Panels
      /\ panel'.running /\ panel'.controller = k /\ panel'.proposal = NoCall
      /\ panel'.asked = panel.asked + 1 /\ panel'.runId = 0
  BY <1>1 DEF Submit, Panels, Ids
<1>6. PanelTypeOK'
  BY <1>1, <1>4, <1>5 DEF Submit, PanelInv, PanelTypeOK
<1>7. ASSUME ~overtaken' PROVE /\ \A j \in Connections :
                                    stream'[j].reading /\ ~SpentStream(stream'[j], Over(j)')
                                       => Current(j)'
                               /\ AnswersStayApart'
  <2>1. \A j \in Connections : stream[j].reading => SpentStream(stream[j], Over(j))
    BY <1>3, <1>7 DEF ApartInv, Current
  <2>2. ASSUME NEW j \in Connections, stream'[j].reading, ~SpentStream(stream'[j], Over(j)')
        PROVE  j = k
    <3> SUFFICES ASSUME j # k PROVE FALSE
      OBVIOUS
    <3>1. stream'[j] = stream[j] /\ (Over(j)' <=> Over(j))
      BY <1>3, <1>4, NoHandlerMoves
    <3> QED BY <2>1, <2>2, <3>1 DEF SpentStream
  <2>3. Current(k)'
    BY <1>2, <1>4, <1>5 DEF Current
  <2>4. AnswersStayApart'
    BY <1>3, <1>5, <1>7 DEF ApartInv, AnswersStayApart
  <2> QED BY <2>2, <2>3, <2>4
<1> QED BY <1>4, <1>6, <1>7 DEF PanelInv, ApartInv

LEMMA DecideKeeps ==
    ASSUME PanelInv, ApartInv, ~overtaken => ~overtaken', overtaken => overtaken',
           NEW h \in Handlers, NEW decision \in Decisions, DecideProposal(h, decision)
    PROVE  PanelInv' /\ ApartInv'
<1> DEFINE request == DecisionRequest(panel.asked, panel.proposal, decision)
<1>1. h \in Connections /\ panel \in Panels /\ panel.asked \in Nat /\ panel.proposal \in Ids
  BY DEF PanelInv, PanelTypeOK, Panels, Connections
<1>2. request \in Streams /\ request.queue = <<>> /\ request.question = panel.asked
  BY <1>1, RequestOK
<1> HIDE DEF request
<1>3. pc' = pc /\ elsewhere' = elsewhere /\ Send(h, request) /\ panel.proposal # NoCall
      /\ conversation' = conversation
  BY DEF DecideProposal, vars, request, DecisionRequest
<1>4. /\ stream' \in [Connections -> Streams] /\ StreamInv'
      /\ stream'[h] = request
      /\ \A j \in Connections : j # h => stream'[j] = stream[j]
  BY <1>1, <1>2, <1>3, SendOK
<1>5. /\ panel' \in Panels
      /\ panel'.running /\ panel'.controller = h /\ panel'.proposal = NoCall
      /\ panel'.asked = panel.asked /\ panel'.runId = panel.runId
  BY <1>1 DEF DecideProposal, Panels, Ids
<1>6. PanelTypeOK'
  BY <1>1, <1>4, <1>5 DEF DecideProposal, PanelInv, PanelTypeOK
<1>7. ASSUME ~overtaken' PROVE /\ \A j \in Connections :
                                    stream'[j].reading /\ ~SpentStream(stream'[j], Over(j)')
                                       => Current(j)'
                               /\ AnswersStayApart'
  <2>1. \A j \in Connections : stream[j].reading => SpentStream(stream[j], Over(j))
    BY <1>3, <1>7 DEF ApartInv, Current
  <2>2. ASSUME NEW j \in Connections, stream'[j].reading, ~SpentStream(stream'[j], Over(j)')
        PROVE  j = h
    <3> SUFFICES ASSUME j # h PROVE FALSE
      OBVIOUS
    <3>1. stream'[j] = stream[j] /\ (Over(j)' <=> Over(j))
      BY <1>3, <1>4, NoHandlerMoves
    <3> QED BY <2>1, <2>2, <3>1 DEF SpentStream
  <2>3. Current(h)'
    BY <1>2, <1>4, <1>5 DEF Current
  <2>4. AnswersStayApart'
    BY <1>3, <1>5, <1>7 DEF ApartInv, AnswersStayApart
  <2> QED BY <2>2, <2>3, <2>4
<1> QED BY <1>4, <1>6, <1>7 DEF PanelInv, ApartInv

(* Cancel aborts the only stream that may still say something.             *)
LEMMA AbortedOK ==
    ASSUME NEW s \in Streams, NEW over, QueueOK(s, over), NEW t,
           t = [s EXCEPT !.reading = FALSE, !.aborted = TRUE, !.queue = <<>>]
    PROVE  /\ t \in Streams /\ ~t.reading /\ t.sent = s.sent
           /\ QueueOK(t, over)
<1>1. <<>> \in Seq(Events)
  OBVIOUS
<1>2. t \in Streams /\ ~t.reading /\ t.sent = s.sent /\ t.queue = <<>>
  BY <1>1 DEF Streams
<1> QED BY <1>2 DEF QueueOK, EndsOnce, OnlyRun

LEMMA CancelKeeps ==
    ASSUME PanelInv, ApartInv, ~overtaken => ~overtaken', overtaken => overtaken',
           CancelRequest
    PROVE  PanelInv' /\ ApartInv'
<1> DEFINE k == panel.controller
           t == [stream[k] EXCEPT !.reading = FALSE, !.aborted = TRUE, !.queue = <<>>]
<1>1. panel \in Panels /\ stream \in [Connections -> Streams]
  BY DEF PanelInv, PanelTypeOK
<1>2. /\ pc' = pc /\ elsewhere' = elsewhere /\ conversation' = conversation /\ panel.running
      /\ stream' = [stream EXCEPT ![k] = Released(t, Busy(k))]
  BY DEF CancelRequest, vars
<1>3. /\ panel' \in Panels
      /\ panel'.asked = panel.asked /\ panel'.runId = panel.runId
  BY <1>1 DEF CancelRequest, Panels
<1>4. /\ stream' \in [Connections -> Streams] /\ StreamInv'
      /\ \A j \in Connections : stream'[j].reading =>
                j # k /\ stream'[j] = stream[j] /\ (Over(j)' <=> Over(j))
  <2>1. ASSUME NEW c \in Connections, c = k
        PROVE  /\ stream' \in [Connections -> Streams] /\ StreamInv'
               /\ \A j \in Connections : stream'[j].reading =>
                     j # c /\ stream'[j] = stream[j] /\ (Over(j)' <=> Over(j))
    <3>1. stream[c] \in Streams /\ QueueOK(stream[c], Over(c))
      BY <1>1, <2>1 DEF PanelInv, StreamInv
    <3>2. /\ t \in Streams /\ ~t.reading /\ t.sent = stream[c].sent
          /\ QueueOK(t, Over(c))
      BY <2>1, <3>1, AbortedOK
    <3> HIDE DEF t
    <3> DEFINE new == Released(t, Busy(c))
    <3>3. /\ new \in Streams /\ QueueOK(new, Over(c)) /\ ~new.reading
          /\ new.sent => stream[c].sent
      BY <3>2, ReleasedOK, NoStreamOK DEF Released
    <3>4. Replaces(c, new)
      BY <1>2, <2>1 DEF Replaces
    <3> HIDE DEF new, k
    <3>5. OthersAlone(c) /\ (Over(c)' <=> Over(c)) /\ (Busy(c)' <=> Busy(c))
      BY <1>2, NoHandlerMoves
    <3>6. QueueOK(new, Over(c)') /\ (new.sent => ~Busy(c)')
      BY <3>3, <3>5 DEF QueueOK, PanelInv, StreamInv
    <3>7. /\ stream' \in [Connections -> Streams]
          /\ StreamInv'
          /\ stream'[c] = new
          /\ \A j \in Connections : j # c => stream'[j] = stream[j]
      BY <1>1, <3>3, <3>4, <3>5, <3>6, OneStream DEF PanelInv
    <3> QED BY <1>2, <3>3, <3>7, NoHandlerMoves
  <2>2. CASE k \notin Connections
    <3>1. stream' = stream
      BY <1>1, <1>2, <2>2
    <3> HIDE DEF k
    <3>2. \A j \in Connections : (Over(j)' <=> Over(j)) /\ (Busy(j)' <=> Busy(j))
      BY <1>2, NoHandlerMoves
    <3>3. StreamInv'
      BY <3>1, <3>2 DEF PanelInv, StreamInv, QueueOK
    <3> QED BY <1>1, <2>2, <3>1, <3>2, <3>3
  <2> QED BY <2>1, <2>2
<1>5. PanelTypeOK'
  BY <1>1, <1>3, <1>4 DEF CancelRequest, PanelInv, PanelTypeOK
<1>6. ASSUME ~overtaken' PROVE /\ \A j \in Connections :
                                    stream'[j].reading => SpentStream(stream'[j], Over(j)')
                               /\ AnswersStayApart'
  <2>1. ASSUME NEW j \in Connections, stream'[j].reading
        PROVE  SpentStream(stream'[j], Over(j)')
    <3>1. j # k /\ stream'[j] = stream[j] /\ (Over(j)' <=> Over(j))
      BY <1>4, <2>1
    <3>2. SpentStream(stream[j], Over(j))
      BY <1>6, <2>1, <3>1 DEF ApartInv, Current
    <3> QED BY <3>1, <3>2 DEF SpentStream
  <2>2. AnswersStayApart'
    BY <1>2, <1>3, <1>6 DEF ApartInv, AnswersStayApart
  <2> QED BY <2>1, <2>2
<1> QED BY <1>4, <1>5, <1>6 DEF PanelInv, ApartInv

-----------------------------------------------------------------------------
(* The panel's steps                                                       *)

(* What an event does to the panel.                                        *)
LEMMA EventOnPanel ==
    ASSUME PanelTypeOK, NEW k \in Connections, HandleEvent(k),
           NEW type \in EventTypes, type = Head(stream[k].queue).type,
           Head(stream[k].queue) \in Events
    PROVE  /\ panel' \in Panels /\ panel'.asked = panel.asked
           /\ panel'.controller = panel.controller
           /\ panel'.runId = IF type = "run" THEN stream[k].question ELSE panel.runId
           /\ type # "done" => panel'.running = panel.running
           /\ type = "done" => ~panel'.running
           /\ type # "proposal" => panel'.proposal = panel.proposal
<1>1. panel \in Panels /\ stream[k].question \in Nat
  BY DEF PanelTypeOK, Streams
<1>2. Head(stream[k].queue).call \in Ids
  BY DEF Events
<1> DEFINE call == Head(stream[k].queue).call
<1>3. panel' = CASE type = "run" -> [panel EXCEPT !.runId = stream[k].question]
                 [] type = "proposal" -> [panel EXCEPT !.proposal = call]
                 [] type = "error" -> [panel EXCEPT !.error = TRUE]
                 [] type = "done" -> [panel EXCEPT !.running = FALSE]
                 [] OTHER -> panel
  BY DEF HandleEvent
<1>4. call \in Ids
  BY <1>2
<1> HIDE DEF call
<1>5. CASE type = "run"
  BY <1>1, <1>3, <1>5 DEF Panels
<1>6. CASE type = "proposal"
  BY <1>1, <1>3, <1>4, <1>6 DEF Panels
<1>7. CASE type = "error"
  BY <1>1, <1>3, <1>7 DEF Panels
<1>8. CASE type = "done"
  BY <1>1, <1>3, <1>8 DEF Panels
<1>9. CASE type = "text"
  BY <1>1, <1>3, <1>9 DEF Panels
<1> QED BY <1>5, <1>6, <1>7, <1>8, <1>9 DEF EventTypes

LEMMA EventOnConversation ==
    ASSUME PanelTypeOK, NEW k \in Connections, HandleEvent(k)
    PROVE  /\ conversation' \in [Questions -> SUBSET Nat]
           /\ \A q \in Questions :
                 \/ conversation'[q] = conversation[q]
                 \/ /\ Head(stream[k].queue).type = "text" /\ q = panel.asked
                    /\ conversation'[q] = conversation[q] \union {stream[k].question}
<1>1. conversation \in [Questions -> SUBSET Nat] /\ stream[k].question \in Nat
  BY DEF PanelTypeOK, Streams
<1>2. CASE Head(stream[k].queue).type = "text"
  <2>1. conversation' = [conversation EXCEPT ![panel.asked] = @ \union {stream[k].question}]
    BY <1>2 DEF HandleEvent
  <2> QED BY <1>1, <1>2, <2>1
<1>3. CASE Head(stream[k].queue).type # "text"
  <2>1. conversation' = conversation
    BY <1>3 DEF HandleEvent
  <2> QED BY <1>1, <2>1
<1> QED BY <1>2, <1>3

LEMMA EventKeeps ==
    ASSUME PanelInv, ApartInv, NEW k \in Connections, HandleEvent(k),
           overtaken' = (overtaken \/ (PanelStep /\ Overtakes))
    PROVE  PanelInv' /\ ApartInv'
<1> DEFINE s == stream[k]
           t == [s EXCEPT !.queue = Tail(@)]
           heard == Head(s.queue)
<1>1. /\ pc' = pc /\ elsewhere' = elsewhere /\ Replaces(k, t)
      /\ s.reading /\ s.queue # <<>> /\ t = [s EXCEPT !.queue = Tail(@)]
  BY DEF HandleEvent, vars, Replaces
<1> HIDE DEF t
<1>2. s \in Streams /\ QueueOK(s, Over(k)) /\ (s.sent => ~Busy(k))
  BY DEF PanelInv, PanelTypeOK, StreamInv
<1>3. /\ t \in Streams /\ t.sent = s.sent /\ t.reading = s.reading
      /\ t.question = s.question
      /\ heard \in Events
      /\ QueueOK(t, Over(k))
      /\ heard.type # "run" => SpentStream(t, Over(k))
      /\ SpentStream(s, Over(k)) => SpentStream(t, Over(k))
  <2> DEFINE over == Over(k)
  <2>1. s \in Streams /\ s.queue # <<>> /\ QueueOK(s, over)
    BY <1>1, <1>2
  <2>2. t = [s EXCEPT !.queue = Tail(s.queue)]
    BY <1>1
  <2> HIDE DEF s, over
  <2>3. /\ t \in Streams /\ t.sent = s.sent /\ t.reading = s.reading
        /\ t.question = s.question
        /\ Head(s.queue) \in Events
        /\ QueueOK(t, over)
        /\ Head(s.queue).type # "run" => SpentStream(t, over)
        /\ SpentStream(s, over) => SpentStream(t, over)
    BY <2>1, <2>2, TailOK
  <2> QED BY <2>3 DEF over
<1>4. SpentStream(s, Over(k)) => heard.type \notin Speaking
  <2>1. 1 \in 1..Len(s.queue) /\ heard = s.queue[1]
    BY <1>1, <1>2, HeadTailProperties DEF Streams
  <2> QED BY <2>1 DEF SpentStream
<1>5. OthersAlone(k) /\ (Over(k)' <=> Over(k)) /\ (Busy(k)' <=> Busy(k))
  BY <1>1, NoHandlerMoves
<1>6. QueueOK(t, Over(k)') /\ (t.sent => ~Busy(k)')
  BY <1>2, <1>3, <1>5 DEF QueueOK
<1>7. /\ stream' \in [Connections -> Streams] /\ StreamInv'
      /\ stream'[k] = t
      /\ \A j \in Connections : j # k => stream'[j] = stream[j]
  BY <1>1, <1>3, <1>5, <1>6, OneStream DEF PanelInv, PanelTypeOK
<1> HIDE DEF s
<1>8. PICK type \in EventTypes : type = heard.type
  BY <1>3 DEF Events
<1>9. /\ panel' \in Panels /\ panel'.asked = panel.asked
      /\ panel'.controller = panel.controller
      /\ panel'.runId = IF type = "run" THEN s.question ELSE panel.runId
      /\ type # "done" => panel'.running = panel.running
      /\ type = "done" => ~panel'.running
      /\ type # "proposal" => panel'.proposal = panel.proposal
  BY <1>3, <1>8, EventOnPanel DEF s, PanelInv
<1>10. PanelTypeOK'
  <2>1. conversation' \in [Questions -> SUBSET Nat]
    BY EventOnConversation DEF PanelInv
  <2> QED BY <1>7, <1>9, <2>1 DEF HandleEvent, PanelInv, PanelTypeOK
<1>11. ASSUME ~overtaken'
       PROVE  /\ \A j \in Connections :
                     stream'[j].reading /\ ~SpentStream(stream'[j], Over(j)') => Current(j)'
              /\ AnswersStayApart'
  <2>1. ~overtaken /\ ~Overtakes
    <3>1. PanelStep
      BY DEF PanelStep
    <3> QED BY <1>11, <3>1, Zenon
  <2>2. /\ AnswersStayApart
        /\ \A j \in Connections :
              stream[j].reading /\ ~SpentStream(stream[j], Over(j)) => Current(j)
    BY <2>1 DEF ApartInv
  <2>3. ASSUME NEW j \in Connections, j # k, stream'[j].reading,
               ~SpentStream(stream'[j], Over(j)')
        PROVE  Current(j)'
    <3>1. stream'[j] = stream[j] /\ (Over(j)' <=> Over(j))
      BY <1>1, <1>7, <2>3, NoHandlerMoves
    <3>2. Current(j)
      BY <2>2, <2>3, <3>1 DEF SpentStream
    <3>3. SpentStream(s, Over(k))
      BY <1>1, <2>2, <2>3, <3>2 DEF Current, s
    <3>4. type \notin {"run", "text", "proposal"}
      BY <1>4, <1>8, <3>3 DEF Speaking
    <3>5. type # "done"
      BY <1>1, <1>9, <2>1, <2>3, <3>2 DEF Overtakes, Current, s
    <3> QED BY <1>9, <3>1, <3>2, <3>4, <3>5 DEF Current
  <2>4. ASSUME stream'[k].reading, ~SpentStream(stream'[k], Over(k)')
        PROVE  Current(k)'
    <3>1. ~SpentStream(t, Over(k))
      BY <1>5, <1>7, <2>4 DEF SpentStream
    <3>2. Current(k) /\ type = "run"
      BY <1>1, <1>3, <1>8, <2>2, <3>1 DEF s
    <3> QED BY <1>3, <1>7, <1>9, <3>2 DEF Current, s
  <2>5. AnswersStayApart'
    <3>1. type \in {"run", "text"} => s.question = panel.asked
      BY <1>1, <1>4, <1>8, <2>2 DEF Current, Speaking, s
    <3>2. panel'.runId \in {0, panel'.asked}
      BY <1>9, <2>2, <3>1 DEF AnswersStayApart
    <3>3. ASSUME NEW q \in Questions PROVE conversation'[q] \subseteq {q}
      BY <1>8, <2>2, <3>1, EventOnConversation DEF AnswersStayApart, PanelInv, s
    <3> QED BY <3>2, <3>3 DEF AnswersStayApart
  <2> QED BY <2>3, <2>4, <2>5
<1> QED BY <1>7, <1>10, <1>11 DEF PanelInv, ApartInv

LEMMA EndOnPanel ==
    ASSUME PanelTypeOK, NEW k \in Connections, StreamEnds(k)
    PROVE  /\ panel' \in Panels /\ panel'.asked = panel.asked
           /\ panel'.runId = panel.runId /\ ~panel'.running
<1>1. panel \in Panels /\ stream[k] \in Streams
  BY DEF PanelTypeOK
<1> DEFINE failed == stream[k].end = "broken"
           error == panel.error \/ failed
           proposal == IF failed /\ stream[k].call # NoCall THEN stream[k].call
                       ELSE panel.proposal
<1>2. panel' = [panel EXCEPT !.running = FALSE, !.controller = NoHandler, !.error = error,
                             !.proposal = proposal]
  BY DEF StreamEnds, Settled
<1>3. error \in BOOLEAN /\ proposal \in Ids
  BY <1>1 DEF Panels, Streams
<1> HIDE DEF error, proposal
<1> QED BY <1>1, <1>2, <1>3 DEF Panels

LEMMA EndKeeps ==
    ASSUME PanelInv, ApartInv, NEW k \in Connections, StreamEnds(k),
           overtaken' = (overtaken \/ (PanelStep /\ Overtakes))
    PROVE  PanelInv' /\ ApartInv'
<1> DEFINE s == stream[k]
           t == [s EXCEPT !.reading = FALSE]
           new == Released(t, Busy(k))
<1>1. /\ pc' = pc /\ elsewhere' = elsewhere /\ conversation' = conversation
      /\ Replaces(k, new) /\ s.reading
  BY DEF StreamEnds, Settled, vars, Replaces
<1>2. s \in Streams /\ QueueOK(s, Over(k)) /\ (s.sent => ~Busy(k))
  BY DEF PanelInv, PanelTypeOK, StreamInv
<1>3. t \in Streams /\ t.sent = s.sent /\ ~t.reading /\ t.queue = s.queue
  BY <1>2 DEF Streams
<1>4. QueueOK(t, Over(k))
  BY <1>2, <1>3 DEF QueueOK
<1> HIDE DEF t
<1>5. /\ new \in Streams /\ QueueOK(new, Over(k)) /\ ~new.reading
      /\ new.sent => s.sent
  BY <1>3, <1>4, ReleasedOK, NoStreamOK DEF Released
<1> HIDE DEF new
<1>6. OthersAlone(k) /\ (Over(k)' <=> Over(k)) /\ (Busy(k)' <=> Busy(k))
  BY <1>1, NoHandlerMoves
<1>7. QueueOK(new, Over(k)') /\ (new.sent => ~Busy(k)')
  BY <1>2, <1>5, <1>6 DEF QueueOK
<1>8. /\ stream' \in [Connections -> Streams] /\ StreamInv'
      /\ stream'[k] = new
      /\ \A j \in Connections : j # k => stream'[j] = stream[j]
  BY <1>1, <1>5, <1>6, <1>7, OneStream DEF PanelInv, PanelTypeOK
<1>9. /\ panel' \in Panels /\ panel'.asked = panel.asked
      /\ panel'.runId = panel.runId /\ ~panel'.running
  BY EndOnPanel DEF PanelInv
<1>10. PanelTypeOK'
  BY <1>8, <1>9 DEF StreamEnds, Settled, PanelInv, PanelTypeOK
<1>11. ASSUME ~overtaken'
       PROVE  /\ \A j \in Connections :
                     stream'[j].reading => SpentStream(stream'[j], Over(j)')
              /\ AnswersStayApart'
  <2>1. ~overtaken /\ ~Overtakes
    <3>1. PanelStep
      BY DEF PanelStep
    <3> QED BY <1>11, <3>1, Zenon
  <2>2. ASSUME NEW j \in Connections, stream'[j].reading
        PROVE  SpentStream(stream'[j], Over(j)')
    <3>1. j # k /\ stream'[j] = stream[j] /\ (Over(j)' <=> Over(j))
      BY <1>1, <1>5, <1>8, <2>2, NoHandlerMoves
    <3>2. ~Current(j)
      BY <1>1, <1>9, <2>1, <3>1 DEF Overtakes, Current
    <3>3. SpentStream(stream[j], Over(j))
      BY <2>1, <2>2, <3>1, <3>2 DEF ApartInv
    <3> QED BY <3>1, <3>3 DEF SpentStream
  <2>3. AnswersStayApart'
    BY <1>1, <1>9, <2>1 DEF ApartInv, AnswersStayApart
  <2> QED BY <2>2, <2>3
<1> QED BY <1>8, <1>10, <1>11 DEF PanelInv, ApartInv

-----------------------------------------------------------------------------
(* All steps                                                               *)

(* A step of the server leaves the panel as it is and lets nobody speak    *)
(* who had nothing to say.                                                 *)
LEMMA HeardKeepsApart ==
    ASSUME ApartInv, Heard, UNCHANGED <<panel, conversation>>, overtaken => overtaken'
    PROVE  ApartInv'
<1>1. ASSUME ~overtaken'
      PROVE  /\ \A j \in Connections :
                    stream'[j].reading /\ ~SpentStream(stream'[j], Over(j)') => Current(j)'
             /\ AnswersStayApart'
  <2>1. AnswersStayApart'
    BY <1>1 DEF ApartInv, AnswersStayApart
  <2> QED BY <1>1, <2>1 DEF ApartInv, Heard, NoNewSpeech, Current
<1> QED BY <1>1 DEF ApartInv

LEMMA ServerIsHeard ==
    ASSUME TypeInv, PanelInv,
           \/ \E h \in Handlers : Server(h) \/ NoticeAbort(h)
           \/ \E k \in Connections : Vanish(k)
           \/ TakeUpCancel \/ OtherRun
    PROVE  Heard /\ UNCHANGED <<panel, conversation>>
<1>1. Heard
  BY ServeIsHeard, RequestIsHeard, AbortIsHeard, LossIsHeard, CancelIsHeard, OtherRunIsHeard
     DEF Server
<1>2. UNCHANGED <<panel, conversation>>
  BY DEF Server, Serve, TakeUpQuestion, TakeUpDecision, RefuseDecision, NoticeAbort, Vanish,
     TakeUpCancel, OtherRun
<1> QED BY <1>1, <1>2

LEMMA PanelStutters ==
    ASSUME PanelInv, ApartInv, UNCHANGED historyVars
    PROVE  PanelInv' /\ ApartInv'
<1>1. /\ pc' = pc /\ elsewhere' = elsewhere /\ UNCHANGED <<panelVars, overtaken>>
  BY DEF historyVars, allVars, vars, panelVars
<1>2. \A k \in Connections : (Over(k)' <=> Over(k)) /\ (Busy(k)' <=> Busy(k))
  BY <1>1, NoHandlerMoves
<1>3. StreamInv'
  BY <1>1, <1>2 DEF panelVars, PanelInv, StreamInv, QueueOK
<1>4. PanelTypeOK'
  BY <1>1 DEF panelVars, PanelInv, PanelTypeOK
<1>5. ApartInv'
  <2>1. AnswersStayApart' <=> AnswersStayApart
    BY <1>1 DEF panelVars, AnswersStayApart
  <2> QED BY <1>1, <1>2, <2>1 DEF panelVars, ApartInv, SpentStream, Current
<1> QED BY <1>3, <1>4, <1>5 DEF PanelInv

LEMMA ApartStep ==
    ASSUME TypeInv, PanelInv, ApartInv, [PanelHistoryNext]_historyVars
    PROVE  PanelInv' /\ ApartInv'
<1>1. CASE PanelHistoryNext
  <2>1. AssistantNext /\ overtaken' = (overtaken \/ (PanelStep /\ Overtakes))
    BY <1>1 DEF PanelHistoryNext
  <2>2. overtaken => overtaken'
    BY <2>1, Zenon
  <2>3. CASE PanelStep
    BY <2>1, <2>3, EventKeeps, EndKeeps DEF PanelStep
  <2>4. CASE ~PanelStep
    <3>1. ~overtaken => ~overtaken'
      BY <2>1, <2>4, Zenon
    <3>2. ASSUME User PROVE PanelInv' /\ ApartInv'
      BY <2>2, <3>1, <3>2, SubmitKeeps, DecideKeeps, CancelKeeps DEF User
    <3>3. ASSUME \/ \E h \in Handlers : Server(h) \/ NoticeAbort(h)
                 \/ \E k \in Connections : Vanish(k)
                 \/ TakeUpCancel \/ OtherRun
          PROVE  PanelInv' /\ ApartInv'
      <4>1. Heard /\ UNCHANGED <<panel, conversation>>
        BY <3>3, ServerIsHeard
      <4>2. ApartInv'
        BY <2>2, <4>1, HeardKeepsApart
      <4> QED BY <4>1, <4>2 DEF Heard, PanelInv
    <3> QED BY <2>1, <2>4, <3>2, <3>3 DEF AssistantNext
  <2> QED BY <2>3, <2>4
<1>2. CASE UNCHANGED historyVars
  BY <1>2, PanelStutters
<1> QED BY <1>1, <1>2

LEMMA ApartInit == PanelHistoryInit => PanelInv /\ ApartInv
<1> SUFFICES ASSUME PanelHistoryInit PROVE PanelInv /\ ApartInv
  OBVIOUS
<1> USE DEF PanelHistoryInit, AssistantInit, PanelInit
<1>1. PanelTypeOK
  BY NoStreamOK DEF PanelTypeOK, Panels, Ids
<1>2. StreamInv
  BY NoStreamOK DEF StreamInv, NoStream, QueueOK, EndsOnce, OnlyRun
<1>3. AnswersStayApart
  BY DEF AnswersStayApart
<1>4. \A k \in Connections : ~stream[k].reading
  BY NoStreamOK
<1> QED BY <1>1, <1>2, <1>3, <1>4 DEF PanelInv, ApartInv

-----------------------------------------------------------------------------
(* What holds of the run under the panel                                   *)

(* The invariants of AgentRuns that need nobody to reconnect, in any       *)
(* environment.                                                            *)
RunInv == TypeInv /\ StartedOnce /\ SingleSegment /\ WaitingInv /\ WorkInv

LEMMA RunStepKeeps ==
    ASSUME RunInv, RunStep
    PROVE  RunInv'
<1>1. [Next]_vars /\ ~ \E h \in Handlers : Reconnect(h)
  BY RunStepsAreSteps, PanelNeverReconnects DEF RunInv
<1> QED BY <1>1, TypeStep, StatusStays, SingleStep, WaitingStep, WorkStep DEF RunInv

LEMMA PanelKeepsRun ==
    ASSUME RunInv, PanelInv, [AssistantNext]_allVars
    PROVE  RunInv'
<1>1. RunStep
  BY PanelStepsRun DEF PanelInv, RunStep, allVars
<1> QED BY <1>1, RunStepKeeps

LEMMA RunInit == AssistantInit => RunInv
  BY TypeInit, StartedInit, SingleInit, WaitingInit, WorkInit DEF AssistantInit, RunInv

-----------------------------------------------------------------------------
(* Proposals: what a stream holds                                          *)

LEMMA ConcatHolds ==
    ASSUME NEW q \in Seq(Events), NEW r \in Seq(Events), NEW e
    PROVE  Holds(q \o r, e) <=> Holds(q, e) \/ Holds(r, e)
<1> DEFINE qr == q \o r
<1>1. Len(q) \in Nat /\ Len(r) \in Nat /\ Len(qr) = Len(q) + Len(r)
      /\ \A i \in 1..Len(qr) : qr[i] = IF i <= Len(q) THEN q[i] ELSE r[i - Len(q)]
  BY ConcatProperties
<1> HIDE DEF qr
<1>2. ASSUME Holds(qr, e) PROVE Holds(q, e) \/ Holds(r, e)
  <2>1. PICK i \in 1..Len(qr) : qr[i] = e
    BY <1>2 DEF Holds
  <2>2. CASE i <= Len(q)
    BY <1>1, <2>1, <2>2 DEF Holds
  <2>3. CASE i > Len(q)
    <3>1. i - Len(q) \in 1..Len(r) /\ r[i - Len(q)] = e
      BY <1>1, <2>1, <2>3
    <3> QED BY <3>1 DEF Holds
  <2> QED BY <1>1, <2>2, <2>3
<1>3. ASSUME Holds(q, e) PROVE Holds(qr, e)
  <2>1. PICK i \in 1..Len(q) : q[i] = e
    BY <1>3 DEF Holds
  <2>2. i \in 1..Len(qr) /\ qr[i] = e
    BY <1>1, <2>1
  <2> QED BY <2>2 DEF Holds
<1>4. ASSUME Holds(r, e) PROVE Holds(qr, e)
  <2>1. PICK i \in 1..Len(r) : r[i] = e
    BY <1>4 DEF Holds
  <2>2. Len(q) + i \in 1..Len(qr) /\ ~(Len(q) + i <= Len(q)) /\ (Len(q) + i) - Len(q) = i
    BY <1>1
  <2>3. qr[Len(q) + i] = e
    BY <1>1, <2>1, <2>2
  <2> QED BY <2>2, <2>3 DEF Holds
<1> QED BY <1>2, <1>3, <1>4 DEF qr

LEMMA NothingHeld == \A e : ~Holds(<<>>, e)
  BY DEF Holds

(* What the server makes of a stream, `u', when it says something.         *)
LEMMA SayFields ==
    ASSUME NEW u \in Streams, NEW said \in Seq(Events), NEW end, NEW busy,
           NEW t, t = Yields(u, said, end), NEW new, new = Released(t, busy)
    PROVE  /\ new.call = u.call \/ new.call = NoCall
           /\ \A e : Holds(new.queue, e) => Holds(u.queue, e) \/ Holds(said, e)
           /\ new.aborted => u.aborted
           /\ new.sent => u.sent
           /\ new.reading => u.reading
           /\ u.reading => /\ new.reading /\ new.call = u.call /\ new.sent = u.sent
                           /\ \A e : Holds(u.queue, e) => Holds(new.queue, e)
           /\ u.reading /\ ~u.aborted => /\ new.end = end
                                          /\ \A e : Holds(said, e) => Holds(new.queue, e)
           /\ new.end \in {u.end, end, "open"}
<1>1. CASE u.aborted
  <2>1. t = u
    BY <1>1 DEF Yields
  <2>2. new = u \/ (new = NoStream /\ ~u.reading)
    BY <2>1 DEF Released
  <2> QED BY <1>1, <2>2, NothingHeld DEF NoStream
<1>2. CASE ~u.aborted
  <2> DEFINE q == u.queue \o said
  <2>1. u.queue \in Seq(Events) /\ q \in Seq(Events)
    BY ConcatProperties DEF Streams
  <2>2. \A e : Holds(q, e) <=> Holds(u.queue, e) \/ Holds(said, e)
    BY <2>1, ConcatHolds
  <2> HIDE DEF q
  <2>3. t = [u EXCEPT !.queue = q, !.end = end]
    BY <1>2 DEF Yields, q
  <2>4. /\ t.call = u.call /\ t.queue = q /\ t.aborted = u.aborted /\ t.sent = u.sent
        /\ t.reading = u.reading /\ t.end = end
    BY <2>3 DEF Streams
  <2>5. new = t \/ (new = NoStream /\ ~t.reading)
    BY DEF Released
  <2> HIDE DEF q
  <2>6. CASE new = t
    BY <1>2, <2>2, <2>4, <2>6
  <2>7. CASE new = NoStream /\ ~t.reading
    BY <1>2, <2>4, <2>7, NothingHeld DEF NoStream
  <2> QED BY <2>5, <2>6, <2>7
<1> QED BY <1>1, <1>2 DEF Streams

-----------------------------------------------------------------------------
(* What a handler does to the calls                                        *)

(* A call once created stays created, and only a claim of its own makes it *)
(* anything but pending.                                                   *)
LEMMA PendingStays ==
    ASSUME TypeInv, NEW h \in Handlers, HandlerStep(h), NEW c \in Calls
    PROVE  /\ calls[c].state # "none" => calls'[c].state # "none"
           /\ calls[c].state = "pending" =>
                 calls'[c].state = "pending" \/ (Claim(h) /\ local[h].call = c)
<1>1. /\ calls \in [Calls -> ToolCalls]
      /\ local[h].decision \in {"approved", "rejected"}
  BY DEF TypeInv, TypeOK, Requests, Decisions
<1>2. CASE \A d \in Calls : calls'[d].state = calls[d].state
  BY <1>2
<1>3. CASE Claim(h)
  <2>1. calls' = [calls EXCEPT ![local[h].call].state = local[h].decision]
    BY <1>3 DEF Claim
  <2>2. CASE local[h].call = c
    <3>1. calls'[c].state = local[h].decision
      BY <1>1, <2>1, <2>2 DEF ToolCalls
    <3> QED BY <1>1, <1>3, <2>2, <3>1
  <2>3. CASE local[h].call # c
    BY <1>1, <2>1, <2>3
  <2> QED BY <2>2, <2>3
<1>4. ASSUME NEW d \in Calls, NEW s \in {"pending", "not_required"}, CreateCall(h, d, s)
      PROVE  /\ calls[c].state # "none" => calls'[c].state = calls[c].state
  BY <1>1, <1>4 DEF CreateCall, ToolCalls
<1>5. ASSUME NEW d \in Calls, CreateChangeCall(h, d) \/ CreateReadCall(h, d)
      PROVE  /\ calls[c].state # "none" => calls'[c].state = calls[c].state
  BY <1>4, <1>5 DEF CreateChangeCall, CreateReadCall
<1> QED BY <1>2, <1>3, <1>5, CallsStay

(* Only a decision brings a request to the points of decide.               *)
LEMMA DecidingStays ==
    ASSUME TypeInv, NEW h \in Handlers, HandlerStep(h) \/ Fault(h), NEW g \in Handlers,
           pc'[g] \in DecidePoints
    PROVE  /\ pc[g] \in DecidePoints /\ local'[g] = local[g]
           /\ (pc'[g] # pc[g] => pc'[g] \notin {"claim", "expire"})
<1>a. pc \in [Handlers -> Points]
  BY DEF TypeInv, TypeOK
<1>1. CASE g # h
  BY <1>1, OthersStay
<1>2. CASE g = h
  <2> USE <1>2, <1>a DEF Goto, Return, DecidePoints
  <2>1. ~SegmentStep(h)
    BY DEF SegmentStep, SegmentStart, LoopTop, SeeCancel, ProviderResponds,
       FinishAnswer, LimitReached, Propose, ReadToolReturns, CreateChangeCall,
       CreateReadCall, SegmentFails, Close, AbortSave
  <2>2. CASE DecideStep(h)
    BY <2>2 DEF DecideStep, ExpireRun, Claim, ClaimConflict, Refresh, ExecuteApproved,
       SaveApproved, SaveRejected, AppendResult, ApprovedToolFails
  <2>3. ~(ReconnectStep(h) \/ Activate(h) \/ ActivateConflict(h))
    BY DEF ReconnectStep, Transition, TransitionConflict, Reload, Activate, ActivateConflict
  <2>4. ~Fault(h)
    BY DEF Fault, DisconnectAtAwait, DisconnectAtYield, DisconnectOutside
  <2> QED BY <2>1, <2>2, <2>3, <2>4 DEF HandlerStep
<1> QED BY <1>1, <1>2

(* A segment that ends by waiting has made its proposal.                   *)
LEMMA ClosedByProposal ==
    ASSUME TypeInv, NEW h \in Handlers, HandlerStep(h), pc'[h] = "closing",
           cached'[h].status = "waiting_for_approval"
    PROVE  Propose(h)
<1>a. pc \in [Handlers -> Points] /\ cached \in [Handlers -> Rows] /\ cached[h] \in Rows
  BY DEF TypeInv, TypeOK
<1>1. ASSUME NEW s, Save(h, [cached[h] EXCEPT !.status = s]) PROVE cached'[h].status = s
  BY <1>1, <1>a DEF Save, Rows
<1>2. ~SeeCancel(h) /\ ~FinishAnswer(h)
  BY <1>1 DEF SeeCancel, FinishAnswer
<1>3. ASSUME NEW s \in {"failed", "timed_out"}, SegmentFails(h, s) PROVE FALSE
  BY <1>1, <1>3 DEF SegmentFails
<1>4. ~LimitReached(h)
  <2> SUFFICES ASSUME LimitReached(h) PROVE FALSE
    OBVIOUS
  <2> DEFINE new == [cached[h] EXCEPT !.status = "failed", !.count = MaxToolCalls + 1]
  <2>1. new.status = "failed"
    BY <1>a DEF Rows
  <2>2. cached' = [cached EXCEPT ![h] = new]
    BY DEF LimitReached
  <2> HIDE DEF new
  <2> QED BY <1>a, <2>1, <2>2
<1> USE <1>a DEF Goto, Return
<1>5. ~DecideStep(h)
  BY DEF DecideStep, ExpireRun, Claim, ClaimConflict, Refresh, ExecuteApproved,
     SaveApproved, SaveRejected, AppendResult, ApprovedToolFails
<1>6. ~(ReconnectStep(h) \/ Activate(h) \/ ActivateConflict(h))
  BY DEF ReconnectStep, Transition, TransitionConflict, Reload, Activate, ActivateConflict
<1>7. SegmentStep(h) => Propose(h)
  BY <1>2, <1>3, <1>4 DEF SegmentStep, SegmentStart, LoopTop, ProviderResponds,
     ReadToolReturns, CreateChangeCall, CreateReadCall, Close, AbortSave
<1> QED BY <1>5, <1>6, <1>7 DEF HandlerStep

LEMMA EventNoProposal ==
    \A c : /\ ~Holds(<<>>, Proposal(c))
          /\ ~Holds(<<Event("run")>>, Proposal(c))
          /\ ~Holds(<<Event("done")>>, Proposal(c))
          /\ ~Holds(<<Event("text"), Event("done")>>, Proposal(c))
          /\ ~Holds(<<Event("error"), Event("done")>>, Proposal(c))
<1>1. ASSUME NEW t \in {"run", "done", "text", "error"}, NEW c PROVE Event(t) # Proposal(c)
  <2>1. Event(t).type # Proposal(c).type
    BY DEF Event, Proposal
  <2> QED BY <2>1
<1> QED BY <1>1 DEF Holds

LEMMA SaidProposal ==
    ASSUME TypeInv, NEW h \in Handlers, HandlerStep(h), NEW c, Holds(Said(h), Proposal(c))
    PROVE  Propose(h) /\ c = local[h].call
<1>1. /\ Said(h) = <<Proposal(local[h].call), Event("done")>>
      /\ pc'[h] = "closing" /\ cached'[h].status = "waiting_for_approval"
  BY EventNoProposal DEF Said
<1>2. Propose(h)
  BY <1>1, ClosedByProposal
<1>3. Proposal(c) = Proposal(local[h].call) \/ Proposal(c) = Event("done")
  BY <1>1 DEF Holds
<1>4. Proposal(c).type # Event("done").type
  BY DEF Event, Proposal
<1>5. Proposal(c).call = Proposal(local[h].call).call
  BY <1>3, <1>4
<1> QED BY <1>2, <1>5 DEF Proposal

-----------------------------------------------------------------------------
(* Proposals: offered once, and pending until decided                      *)

(* A decision about the call is on its way, or was.                        *)
InHand(c) ==
    \/ \E k \in Connections : stream[k].call = c
    \/ \E h \in Handlers : Deciding(h, c)

Untouched(c) == calls[c].state = "pending" /\ ~InHand(c)

(* What the panel offers is pending, unless a decision about it has failed.*)
OfferedInv ==
    \A c \in Calls :
        panel.proposal = c => calls[c].state # "none" /\ (panel.error \/ Untouched(c))

(* What the panel has not heard yet nobody has decided ...                 *)
QueuedInv ==
    \A k \in Connections, c \in Calls :
        Queued(k, c) => /\ Untouched(c) /\ panel.proposal # c
                        /\ \A j \in Connections : Queued(j, c) => j = k

(* ... nor what a segment is about to propose.                             *)
ProposedInv ==
    \A h \in Handlers, c \in Calls :
        pc[h] = "propose" /\ local[h].call = c =>
            /\ Untouched(c) /\ panel.proposal # c
            /\ \A k \in Connections : ~Queued(k, c)

HandledInv == \A c \in Calls : InHand(c) => calls[c].state # "none"

OfferInv == OfferedInv /\ QueuedInv /\ ProposedInv /\ HandledInv

(* Nothing new is proposed or decided.                                     *)
LEMMA OfferFrame ==
    ASSUME OfferInv,
           panel'.proposal = panel.proposal \/ panel'.proposal = NoCall,
           panel.error => panel'.error \/ panel'.proposal = NoCall,
           \A c \in Calls : Untouched(c) => Untouched(c)',
           \A c \in Calls : calls[c].state # "none" => calls'[c].state # "none",
           \A c \in Calls : InHand(c)' => InHand(c),
           \A k \in Connections, c \in Calls : Queued(k, c)' => Queued(k, c),
           \A h \in Handlers : pc'[h] = "propose" =>
                pc[h] = "propose" /\ local'[h].call = local[h].call
    PROVE  OfferInv'
<1>1. \A c \in Calls : panel'.proposal = c => panel.proposal = c
  BY NamesAssumption
<1>2. OfferedInv'
  <2> SUFFICES ASSUME NEW c \in Calls, panel'.proposal = c
               PROVE  calls'[c].state # "none" /\ (panel'.error \/ Untouched(c)')
    BY DEF OfferedInv
  <2>1. calls[c].state # "none" /\ (panel.error \/ Untouched(c))
    BY <1>1 DEF OfferInv, OfferedInv
  <2>2. panel'.proposal # NoCall
    BY NamesAssumption
  <2> QED BY <2>1, <2>2
<1>3. QueuedInv'
  <2> SUFFICES ASSUME NEW k \in Connections, NEW c \in Calls, Queued(k, c)'
               PROVE  /\ Untouched(c)' /\ panel'.proposal # c
                      /\ \A j \in Connections : Queued(j, c)' => j = k
    BY DEF QueuedInv
  <2> QED BY <1>1 DEF OfferInv, QueuedInv
<1>4. ProposedInv'
  <2> SUFFICES ASSUME NEW h \in Handlers, NEW c \in Calls, pc'[h] = "propose",
                      local'[h].call = c
               PROVE  /\ Untouched(c)' /\ panel'.proposal # c
                      /\ \A k \in Connections : ~Queued(k, c)'
    BY DEF ProposedInv
  <2>1. pc[h] = "propose" /\ local[h].call = c
    OBVIOUS
  <2> QED BY <1>1, <2>1 DEF OfferInv, ProposedInv
<1>5. HandledInv'
  BY DEF OfferInv, HandledInv
<1> QED BY <1>2, <1>3, <1>4, <1>5 DEF OfferInv

(* Streams are only abandoned, and no request starts to decide.            *)
LEMMA InHandStays ==
    ASSUME \A k \in Connections : stream'[k].call = stream[k].call \/ stream'[k].call = NoCall,
           \A g \in Handlers : pc'[g] \in DecidePoints =>
                pc[g] \in DecidePoints /\ local'[g] = local[g],
           NEW c \in Calls
    PROVE  InHand(c)' => InHand(c)
  BY NamesAssumption DEF InHand, Deciding

(* Serve: a step of a handler.                                             *)
LEMMA ServeFields ==
    ASSUME TypeInv, PanelInv, NEW h \in Handlers, Serve(h)
    PROVE  /\ h \in Connections /\ HandlerStep(h) /\ panel' = panel
           /\ stream \in [Connections -> Streams]
           /\ \A j \in Connections : j # h => stream'[j] = stream[j]
           /\ stream'[h].call = stream[h].call \/ stream'[h].call = NoCall
           /\ \A e : Holds(stream'[h].queue, e) =>
                      Holds(stream[h].queue, e) \/ Holds(Said(h), e)
           /\ stream'[h].aborted => stream[h].aborted
           /\ stream'[h].sent => stream[h].sent
           /\ stream'[h].reading => stream[h].reading
           /\ stream[h].reading =>
                 /\ stream'[h].reading /\ stream'[h].call = stream[h].call
                 /\ \A e : Holds(stream[h].queue, e) => Holds(stream'[h].queue, e)
           /\ stream[h].reading /\ ~stream[h].aborted =>
                 /\ stream'[h].end = Ends(h)
                 /\ \A e : Holds(Said(h), e) => Holds(stream'[h].queue, e)
           /\ stream'[h].end \in {stream[h].end, Ends(h), "open"}
<1> DEFINE s == stream[h]
           t == Yields(s, Said(h), Ends(h))
           new == Released(t, pc'[h] # "idle")
<1>1. h \in Connections /\ s \in Streams /\ stream \in [Connections -> Streams]
  BY DEF Connections, PanelInv, PanelTypeOK
<1>2. HandlerStep(h) /\ panel' = panel /\ stream' = [stream EXCEPT ![h] = new]
  BY DEF Serve
<1>3. Said(h) \in Seq(Events)
  BY SaidOK
<1> HIDE DEF s, new
<1>4. /\ new.call = s.call \/ new.call = NoCall
      /\ \A e : Holds(new.queue, e) => Holds(s.queue, e) \/ Holds(Said(h), e)
      /\ new.aborted => s.aborted
      /\ new.sent => s.sent
      /\ new.reading => s.reading
      /\ s.reading => /\ new.reading /\ new.call = s.call /\ new.sent = s.sent
                      /\ \A e : Holds(s.queue, e) => Holds(new.queue, e)
      /\ s.reading /\ ~s.aborted => /\ new.end = Ends(h)
                                     /\ \A e : Holds(Said(h), e) => Holds(new.queue, e)
      /\ new.end \in {s.end, Ends(h), "open"}
  BY <1>1, <1>3, SayFields DEF new
<1>5. stream'[h] = new /\ \A j \in Connections : j # h => stream'[j] = stream[j]
  BY <1>1, <1>2
<1> QED BY <1>1, <1>2, <1>4, <1>5 DEF s

(* What a handler's step does to the decisions and proposals of a call.    *)
LEMMA ServeMoves ==
    ASSUME TypeInv, PanelInv, NEW h \in Handlers, Serve(h), NEW c \in Calls
    PROVE  /\ InHand(c)' => InHand(c)
           /\ \A k \in Connections : Queued(k, c)' =>
                 Queued(k, c) \/ (k = h /\ Propose(h) /\ c = local[h].call)
<1>1. /\ h \in Connections /\ HandlerStep(h)
      /\ \A j \in Connections : j # h => stream'[j] = stream[j]
      /\ stream'[h].call = stream[h].call \/ stream'[h].call = NoCall
      /\ \A e : Holds(stream'[h].queue, e) => Holds(stream[h].queue, e) \/ Holds(Said(h), e)
  BY ServeFields
<1>2. InHand(c)' => InHand(c)
  <2>1. \A g \in Handlers : pc'[g] \in DecidePoints =>
            pc[g] \in DecidePoints /\ local'[g] = local[g]
    BY <1>1, DecidingStays
  <2> QED BY <1>1, <2>1, InHandStays
<1>3. ASSUME NEW k \in Connections, Queued(k, c)'
      PROVE  Queued(k, c) \/ (k = h /\ Propose(h) /\ c = local[h].call)
  <2>1. CASE k = h
    <3>1. Holds(stream[h].queue, Proposal(c)) \/ Holds(Said(h), Proposal(c))
      BY <1>1, <1>3, <2>1 DEF Queued
    <3> QED BY <1>1, <2>1, <3>1, SaidProposal DEF Queued
  <2>2. CASE k # h
    BY <1>1, <1>3, <2>2 DEF Queued
  <2> QED BY <2>1, <2>2
<1> QED BY <1>2, <1>3

LEMMA ServeOffers ==
    ASSUME TypeInv, SingleSegment, PanelInv, OfferInv, NEW h \in Handlers, Serve(h)
    PROVE  OfferInv'
<1>1. h \in Connections /\ HandlerStep(h) /\ panel' = panel
  BY ServeFields
<1>2. ASSUME NEW c \in Calls PROVE InHand(c)' => InHand(c)
  BY ServeMoves
<1>3. ASSUME NEW c \in Calls, Untouched(c) PROVE Untouched(c)'
  <2>1. Claim(h) => pc[h] \in DecidePoints
    BY DEF Claim, DecidePoints
  <2>2. calls'[c].state = "pending"
    BY <1>1, <1>3, <2>1, PendingStays DEF Untouched, InHand, Deciding
  <2> QED BY <1>2, <1>3, <2>2 DEF Untouched
<1>4. ASSUME NEW c \in Calls PROVE calls[c].state # "none" => calls'[c].state # "none"
  BY <1>1, PendingStays
<1>5. ASSUME NEW k \in Connections, NEW c \in Calls, Queued(k, c)'
      PROVE  Queued(k, c) \/ (k = h /\ Propose(h) /\ c = local[h].call)
  BY <1>5, ServeMoves
<1>6. CASE Propose(h)
  <2>1. /\ pc[h] = "propose" /\ pc'[h] = "closing" /\ local' = local
        /\ \A g \in Handlers : g # h => pc'[g] = pc[g]
    BY <1>1, <1>6, OthersStay DEF Propose, Goto, TypeInv, TypeOK
  <2>2. \A g \in Handlers : pc'[g] # "propose"
    BY <2>1 DEF SingleSegment, ActivePoints, SegmentPoints
  <2>3. ASSUME NEW k \in Connections, NEW c \in Calls, Queued(k, c)'
        PROVE  /\ Untouched(c)' /\ panel'.proposal # c
               /\ \A j \in Connections : Queued(j, c)' => j = k
    <3>1. CASE c = local[h].call
      <4>1. Untouched(c) /\ panel.proposal # c /\ \A j \in Connections : ~Queued(j, c)
        BY <2>1, <3>1 DEF OfferInv, ProposedInv
      <4> QED BY <1>1, <1>3, <1>5, <2>3, <4>1
    <3>2. CASE c # local[h].call
      <4>1. \A j \in Connections : Queued(j, c)' => Queued(j, c)
        BY <1>5, <3>2
      <4> QED BY <1>1, <1>3, <2>3, <4>1 DEF OfferInv, QueuedInv
    <3> QED BY <3>1, <3>2
  <2>4. QueuedInv' /\ ProposedInv'
    BY <2>2, <2>3 DEF QueuedInv, ProposedInv
  <2>5. OfferedInv' /\ HandledInv'
    BY <1>1, <1>2, <1>3, <1>4 DEF OfferInv, OfferedInv, HandledInv
  <2> QED BY <2>4, <2>5 DEF OfferInv
<1>7. CASE ~Propose(h)
  <2>1. \A k \in Connections, c \in Calls : Queued(k, c)' => Queued(k, c)
    BY <1>5, <1>7
  <2>2. CASE ~ \E c \in Calls : CreateChangeCall(h, c)
    <3>1. \A g \in Handlers : pc'[g] = "propose" =>
              pc[g] = "propose" /\ local'[g].call = local[g].call
      BY <1>1, <2>2, ProposeStays
    <3> QED BY <1>1, <1>2, <1>3, <1>4, <2>1, <3>1, OfferFrame
  <2>3. ASSUME NEW d \in Calls, CreateChangeCall(h, d) PROVE OfferInv'
    <3>1. /\ calls[d].state = "none" /\ calls'[d].state = "pending"
          /\ pc[h] = "change" /\ pc'[h] = "propose" /\ local'[h].call = d
      BY <2>3 DEF CreateChangeCall, CreateCall, Goto, TypeInv, TypeOK, ToolCalls, Requests
    <3>2. /\ ~InHand(d) /\ panel.proposal # d
          /\ \A k \in Connections : ~Queued(k, d)
      BY <3>1 DEF OfferInv, OfferedInv, QueuedInv, HandledInv, Untouched
    <3>3. Untouched(d)' /\ panel'.proposal # d /\ \A k \in Connections : ~Queued(k, d)'
      BY <1>1, <1>2, <2>1, <3>1, <3>2 DEF Untouched
    <3>4. \A g \in Handlers : g # h => pc'[g] # "propose"
      BY <1>1, <3>1, OthersStay DEF SingleSegment, ActivePoints, SegmentPoints
    <3>5. ProposedInv'
      BY <3>1, <3>3, <3>4 DEF ProposedInv
    <3>6. OfferedInv' /\ HandledInv'
      BY <1>1, <1>2, <1>3, <1>4 DEF OfferInv, OfferedInv, HandledInv
    <3>7. QueuedInv'
      <4> SUFFICES ASSUME NEW k \in Connections, NEW c \in Calls, Queued(k, c)'
                   PROVE  /\ Untouched(c)' /\ panel'.proposal # c
                          /\ \A j \in Connections : Queued(j, c)' => j = k
        BY DEF QueuedInv
      <4> QED BY <1>1, <1>3, <2>1 DEF OfferInv, QueuedInv
    <3> QED BY <3>5, <3>6, <3>7 DEF OfferInv
  <2> QED BY <2>2, <2>3
<1> QED BY <1>6, <1>7

(* The calls are left alone, and who decides does what a stream asks for.  *)
LEMMA RequestOffers ==
    ASSUME OfferInv, panel' = panel, calls' = calls,
           \A k \in Connections : stream'[k].call = stream[k].call \/ stream'[k].call = NoCall,
           \A k \in Connections, c \in Calls : Queued(k, c)' => Queued(k, c),
           \A g \in Handlers : pc'[g] \in DecidePoints =>
                \/ pc[g] \in DecidePoints /\ local'[g] = local[g]
                \/ local'[g].call = stream[g].call,
           \A g \in Handlers : pc'[g] = "propose" => pc[g] = "propose" /\ local'[g] = local[g]
    PROVE  OfferInv'
<1>1. ASSUME NEW c \in Calls PROVE InHand(c)' => InHand(c)
  BY NamesAssumption DEF InHand, Deciding, Connections
<1>2. \A c \in Calls : Untouched(c) => Untouched(c)'
  BY <1>1 DEF Untouched
<1> QED BY <1>1, <1>2, OfferFrame

(* TakenUp: the server begins to answer, or answers at once.               *)
LEMMA TakenUpSays ==
    ASSUME PanelInv, NEW k \in Connections, NEW said \in Seq(Events), NEW end,
           TakenUp(k, said, end)
    PROVE  /\ \A j \in Connections : j # k => stream'[j] = stream[j]
           /\ stream'[k].call = stream[k].call \/ stream'[k].call = NoCall
           /\ \A e : Holds(stream'[k].queue, e) =>
                      Holds(stream[k].queue, e) \/ Holds(said, e)
           /\ ~stream'[k].sent
           /\ stream'[k].aborted => stream[k].aborted
           /\ stream'[k].reading => stream[k].reading
           /\ stream[k].reading =>
                 /\ stream'[k].reading /\ stream'[k].call = stream[k].call
                 /\ \A e : Holds(stream[k].queue, e) => Holds(stream'[k].queue, e)
           /\ stream[k].reading /\ ~stream[k].aborted => stream'[k].end = end
           /\ stream'[k].end \in {stream[k].end, end, "open"}
<1> DEFINE s == stream[k]
           u == [s EXCEPT !.sent = FALSE]
           t == Yields(u, said, end)
           new == Released(t, end = "open")
<1>1. s \in Streams /\ stream \in [Connections -> Streams]
  BY DEF PanelInv, PanelTypeOK
<1>2. /\ u \in Streams /\ ~u.sent /\ u.queue = s.queue /\ u.reading = s.reading
      /\ u.call = s.call /\ u.aborted = s.aborted /\ u.end = s.end
  BY <1>1 DEF Streams
<1>3. stream' = [stream EXCEPT ![k] = new]
  BY DEF TakenUp
<1> HIDE DEF s, u, new
<1>4. /\ new.call = u.call \/ new.call = NoCall
      /\ \A e : Holds(new.queue, e) => Holds(u.queue, e) \/ Holds(said, e)
      /\ new.aborted => u.aborted
      /\ new.sent => u.sent
      /\ new.reading => u.reading
      /\ u.reading => /\ new.reading /\ new.call = u.call /\ new.sent = u.sent
                      /\ \A e : Holds(u.queue, e) => Holds(new.queue, e)
      /\ u.reading /\ ~u.aborted => /\ new.end = end
                                     /\ \A e : Holds(said, e) => Holds(new.queue, e)
      /\ new.end \in {u.end, end, "open"}
  BY <1>2, SayFields DEF new
<1>5. stream'[k] = new /\ \A j \in Connections : j # k => stream'[j] = stream[j]
  BY <1>1, <1>3
<1> QED BY <1>2, <1>4, <1>5 DEF s

(* What the server says when it takes up a request.                        *)
LEMMA TakeUpFields ==
    ASSUME NEW h \in Handlers,
           TakeUpQuestion(h) \/ TakeUpDecision(h) \/ RefuseDecision(h)
    PROVE  \E said \in Seq(Events), end \in {"open", "eof", "broken"} :
              /\ TakenUp(h, said, end)
              /\ \A c : ~Holds(said, Proposal(c))
              /\ RefuseDecision(h) \/ end = "open"
<1>1. CASE TakeUpQuestion(h)
  BY <1>1, SaidRun, EventNoProposal DEF TakeUpQuestion
<1>2. CASE TakeUpDecision(h)
  BY <1>2, SaidNothing, EventNoProposal DEF TakeUpDecision
<1>3. CASE RefuseDecision(h)
  BY <1>3, SaidNothing, SaidDone, EventNoProposal DEF RefuseDecision
<1> QED BY <1>1, <1>2, <1>3

LEMMA TakeUpOffers ==
    ASSUME TypeInv, PanelInv, OfferInv, NEW h \in Handlers,
           TakeUpQuestion(h) \/ TakeUpDecision(h) \/ RefuseDecision(h)
    PROVE  OfferInv'
<1>1. h \in Connections /\ panel' = panel
  BY DEF Connections, TakeUpQuestion, TakeUpDecision, RefuseDecision
<1>2. PICK said \in Seq(Events), end \in {"open", "eof", "broken"} :
          TakenUp(h, said, end) /\ \A c : ~Holds(said, Proposal(c))
  BY TakeUpFields
<1>3. /\ \A k \in Connections : stream'[k].call = stream[k].call \/ stream'[k].call = NoCall
      /\ \A k \in Connections, c \in Calls : Queued(k, c)' => Queued(k, c)
  BY <1>1, <1>2, TakenUpSays DEF Queued
<1>4. CASE RefuseDecision(h)
  <2>1. UNCHANGED vars
    BY <1>4 DEF RefuseDecision
  <2> QED BY <1>1, <1>3, <2>1, RequestOffers DEF vars
<1>5. CASE TakeUpDecision(h)
  <2>1. /\ Decide(h, stream[h].call, stream[h].decision)
        /\ calls' = calls
        /\ pc' = [pc EXCEPT ![h] = IF run.expired THEN "expire" ELSE "claim"]
        /\ local' = [local EXCEPT ![h].call = stream[h].call,
                                  ![h].decision = stream[h].decision]
    BY <1>5 DEF TakeUpDecision, Decide, Goto
  <2>2. pc \in [Handlers -> Points] /\ local \in [Handlers -> Requests]
    BY DEF TypeInv, TypeOK
  <2>3. local'[h].call = stream[h].call /\ \A g \in Handlers : g # h => local'[g] = local[g]
    <3>1. [[local[h] EXCEPT !.call = stream[h].call] EXCEPT !.decision = stream[h].decision].call
             = stream[h].call
      BY <2>2 DEF Requests
    <3> QED BY <2>1, <2>2, <3>1
  <2>4. pc'[h] # "propose" /\ \A g \in Handlers : g # h => pc'[g] = pc[g]
    BY <2>1, <2>2
  <2> QED BY <1>1, <1>3, <2>1, <2>3, <2>4, RequestOffers
<1>6. CASE TakeUpQuestion(h)
  <2>1. PICK direct \in BOOLEAN : RunAgent(h, direct)
    BY <1>6 DEF TakeUpQuestion
  <2>2. /\ calls' = calls /\ pc' = [pc EXCEPT ![h] = "segment"]
        /\ local' = [local EXCEPT ![h].direct = direct]
    BY <2>1 DEF RunAgent, Goto
  <2>3. pc \in [Handlers -> Points] /\ local \in [Handlers -> Requests]
    BY DEF TypeInv, TypeOK
  <2>4. pc'[h] \notin DecidePoints \union {"propose"}
    BY <2>2, <2>3 DEF DecidePoints
  <2>5. \A g \in Handlers : g # h => pc'[g] = pc[g] /\ local'[g] = local[g]
    BY <2>2, <2>3
  <2> QED BY <1>1, <1>3, <2>2, <2>4, <2>5, RequestOffers
<1> QED BY <1>4, <1>5, <1>6

LEMMA AbortOffers ==
    ASSUME TypeInv, PanelInv, OfferInv, NEW h \in Handlers, NoticeAbort(h)
    PROVE  OfferInv'
<1>1. /\ h \in Connections /\ panel' = panel /\ Fault(h)
      /\ stream' = [stream EXCEPT ![h] = Released(stream[h], pc'[h] # "idle")]
      /\ stream \in [Connections -> Streams]
  BY DEF Connections, NoticeAbort, PanelInv, PanelTypeOK
<1>2. calls' = calls
  BY <1>1 DEF Fault, DisconnectAtAwait, DisconnectAtYield, DisconnectOutside
<1>3. stream'[h] = stream[h] \/ stream'[h] = NoStream
  BY <1>1 DEF Released
<1>4. /\ \A k \in Connections : stream'[k].call = stream[k].call \/ stream'[k].call = NoCall
      /\ \A k \in Connections, c \in Calls : Queued(k, c)' => Queued(k, c)
  BY <1>1, <1>3, NothingHeld DEF Queued, NoStream
<1>5. \A g \in Handlers : pc'[g] \in DecidePoints =>
          pc[g] \in DecidePoints /\ local'[g] = local[g]
  BY <1>1, DecidingStays
<1>6. \A g \in Handlers : pc'[g] = "propose" => pc[g] = "propose" /\ local'[g] = local[g]
  <2>1. ~ \E c \in Calls : CreateChangeCall(h, c)
    BY <1>1, <1>2 DEF CreateChangeCall, CreateCall, TypeInv, TypeOK, ToolCalls
  <2> QED BY <1>1, <2>1, ProposeStays
<1> QED BY <1>1, <1>2, <1>4, <1>5, <1>6, RequestOffers

(* OtherRun: the stream of the question answered elsewhere.                *)
LEMMA OtherRunSays ==
    ASSUME PanelInv, OtherRun
    PROVE  /\ \A j \in Connections : j # Elsewhere => stream'[j] = stream[j]
           /\ stream'[Elsewhere].call = stream[Elsewhere].call
                 \/ stream'[Elsewhere].call = NoCall
           /\ \A c : Holds(stream'[Elsewhere].queue, Proposal(c)) =>
                      Holds(stream[Elsewhere].queue, Proposal(c))
           /\ stream'[Elsewhere].end # "broken" \/ stream[Elsewhere].end = "broken"
<1> DEFINE s == stream[Elsewhere]
           u == [s EXCEPT !.sent = FALSE]
<1>1. Elsewhere \in Connections /\ s \in Streams /\ stream \in [Connections -> Streams]
  BY DEF Connections, PanelInv, PanelTypeOK
<1>2. u \in Streams /\ u.queue = s.queue /\ u.call = s.call /\ u.end = s.end
  BY <1>1 DEF Streams
<1>3. PICK events, end, busy :
          /\ stream' = [stream EXCEPT ![Elsewhere] = Released(Yields(u, events, end), busy)]
          /\ end \in {"open", "eof"}
          /\ events \in {<<>>, <<Event("run")>>, <<Event("text"), Event("done")>>,
                         <<Event("error"), Event("done")>>}
  <2> DEFINE said == CASE elsewhere = "idle" -> {<<Event("run")>>}
                       [] elsewhere = "running" -> {<<Event("text"), Event("done")>>,
                                                    <<Event("error"), Event("done")>>}
                       [] OTHER -> {<<>>}
  <2> HIDE DEF u
  <2>1. PICK events \in said, end \in {"open", "eof"}, busy \in BOOLEAN :
            stream' = [stream EXCEPT ![Elsewhere] = Released(Yields(u, events, end), busy)]
    BY DEF OtherRun, u
  <2>2. \A q \in said :
            q \in {<<>>, <<Event("run")>>, <<Event("text"), Event("done")>>,
                  <<Event("error"), Event("done")>>}
    OBVIOUS
  <2> HIDE DEF said
  <2> QED BY <2>1, <2>2
<1>4. events \in Seq(Events) /\ \A c : ~Holds(events, Proposal(c))
  BY <1>3, SaidNothing, SaidRun, SaidLast, EventsOK, EventNoProposal DEF EventTypes
<1> DEFINE new == Released(Yields(u, events, end), busy)
<1> HIDE DEF u, s
<1>5. /\ new.call = u.call \/ new.call = NoCall
      /\ \A e : Holds(new.queue, e) => Holds(u.queue, e) \/ Holds(events, e)
      /\ new.end \in {u.end, end, "open"}
  BY <1>2, <1>4, SayFields
<1> HIDE DEF new
<1>6. stream'[Elsewhere] = new /\ \A j \in Connections : j # Elsewhere => stream'[j] = stream[j]
  BY <1>1, <1>3 DEF new
<1> QED BY <1>2, <1>3, <1>4, <1>5, <1>6 DEF s

LEMMA QuietOffers ==
    ASSUME PanelInv, OfferInv, TakeUpCancel \/ OtherRun \/ \E k \in Connections : Vanish(k)
    PROVE  OfferInv'
<1>1. panel' = panel /\ calls' = calls /\ pc' = pc /\ local' = local
  BY DEF TakeUpCancel, Cancel, OtherRun, Vanish, vars
<1>2. /\ \A k \in Connections : stream'[k].call = stream[k].call \/ stream'[k].call = NoCall
      /\ \A k \in Connections, c \in Calls : Queued(k, c)' => Queued(k, c)
  <2>1. CASE TakeUpCancel
    BY <2>1 DEF TakeUpCancel, Queued
  <2>2. ASSUME NEW k \in Connections, Vanish(k)
        PROVE  \A j \in Connections : stream'[j] = stream[j] \/ stream'[j] = NoStream
    BY <2>2 DEF Vanish, PanelInv, PanelTypeOK
  <2>3. CASE \E k \in Connections : Vanish(k)
    BY <2>2, <2>3, NothingHeld DEF Queued, NoStream
  <2>4. CASE OtherRun
    BY <2>4, OtherRunSays DEF Queued
  <2> QED BY <2>1, <2>3, <2>4
<1> QED BY <1>1, <1>2, RequestOffers

(* The panel hears an event.                                               *)
LEMMA EventFields ==
    ASSUME PanelInv, NEW k \in Connections, HandleEvent(k)
    PROVE  /\ UNCHANGED <<vars, question, posted, elsewhere>>
           /\ \A j \in Connections : j # k => stream'[j] = stream[j]
           /\ stream[k].reading /\ stream'[k].reading
           /\ stream'[k].call = stream[k].call /\ stream'[k].sent = stream[k].sent
           /\ stream'[k].aborted = stream[k].aborted /\ stream'[k].end = stream[k].end
           /\ \A e : Holds(stream'[k].queue, e) => Holds(stream[k].queue, e)
           /\ \A c \in Calls : Queued(k, c) =>
                 \/ Queued(k, c)'
                 \/ Head(stream[k].queue) = Proposal(c) /\ panel'.proposal = c
           /\ \/ panel'.proposal = panel.proposal
              \/ \E c \in Ids : /\ panel'.proposal = c /\ Queued(k, c)
                               /\ \A d \in Calls : ~Queued(k, d)'
           /\ panel.error => panel'.error
           /\ panel'.asked = panel.asked /\ panel'.cancelled = panel.cancelled
<1> DEFINE s == stream[k]
           q == s.queue
           t == [s EXCEPT !.queue = Tail(@)]
           heard == Head(q)
<1>1. /\ UNCHANGED <<vars, question, posted, elsewhere>>
      /\ stream' = [stream EXCEPT ![k] = t]
      /\ s.reading /\ q # <<>>
  BY DEF HandleEvent
<1>2. s \in Streams /\ QueueOK(s, Over(k)) /\ stream \in [Connections -> Streams]
      /\ panel \in Panels
  BY DEF PanelInv, PanelTypeOK, StreamInv
<1>3. q \in Seq(Events) /\ heard = q[1] /\ heard \in Events /\ Len(q) \in Nat /\ Len(q) > 0
      /\ Len(Tail(q)) = Len(q) - 1 /\ \A i \in 1..Len(Tail(q)) : Tail(q)[i] = q[i + 1]
  BY <1>1, <1>2, HeadTailProperties DEF Streams
<1>4. /\ t.queue = Tail(q) /\ t.sent = s.sent /\ t.reading = s.reading /\ t.call = s.call
      /\ t.aborted = s.aborted /\ t.end = s.end
  BY <1>2 DEF Streams
<1>5. stream'[k] = t /\ \A j \in Connections : j # k => stream'[j] = stream[j]
  BY <1>1, <1>2
<1> HIDE DEF t
<1>6. \A e : Holds(Tail(q), e) => Holds(q, e)
  <2> SUFFICES ASSUME NEW i \in 1..Len(Tail(q)) PROVE \E j \in 1..Len(q) : q[j] = Tail(q)[i]
    BY DEF Holds
  <2>1. i + 1 \in 1..Len(q) /\ q[i + 1] = Tail(q)[i]
    BY <1>3
  <2> QED BY <2>1
<1>7. ASSUME NEW e, Holds(q, e) PROVE heard = e \/ Holds(Tail(q), e)
  <2>1. PICK i \in 1..Len(q) : q[i] = e
    BY <1>7 DEF Holds
  <2>2. CASE i = 1
    BY <1>3, <2>1, <2>2
  <2>3. CASE i # 1
    <3>1. i - 1 \in 1..Len(Tail(q)) /\ (i - 1) + 1 = i
      BY <1>3, <2>3
    <3>2. Tail(q)[i - 1] = e
      BY <1>3, <2>1, <3>1
    <3> QED BY <3>1, <3>2 DEF Holds
  <2> QED BY <2>2, <2>3
<1>8. PICK type \in EventTypes : type = heard.type
  BY <1>3 DEF Events
<1>9. /\ type # "proposal" => panel'.proposal = panel.proposal
      /\ type = "proposal" => panel'.proposal = heard.call
      /\ panel.error => panel'.error
      /\ panel'.asked = panel.asked /\ panel'.cancelled = panel.cancelled
  <2>1. panel' = CASE type = "run" -> [panel EXCEPT !.runId = s.question]
                   [] type = "proposal" -> [panel EXCEPT !.proposal = heard.call]
                   [] type = "error" -> [panel EXCEPT !.error = TRUE]
                   [] type = "done" -> [panel EXCEPT !.running = FALSE]
                   [] OTHER -> panel
    BY <1>8 DEF HandleEvent
  <2> HIDE DEF heard, s
  <2> QED BY <1>2, <2>1 DEF Panels, EventTypes
<1>10. ASSUME type = "proposal"
       PROVE  /\ heard.call \in Ids /\ heard = Proposal(heard.call)
              /\ \A d \in Calls : ~Holds(Tail(q), Proposal(d))
  <2>1. heard.call \in Ids /\ heard = Proposal(heard.call)
    BY <1>3, <1>8, <1>10 DEF Events, Proposal, Ids
  <2>2. ASSUME NEW d \in Calls, NEW i \in 1..Len(Tail(q)), Tail(q)[i] = Proposal(d) PROVE FALSE
    <3>1. 1 \in 1..Len(q) /\ i + 1 \in 1..Len(q) /\ 1 < i + 1 /\ q[i + 1] = Proposal(d)
      BY <1>3, <2>2
    <3>2. q[1].type # "run"
      BY <1>3, <1>8, <1>10
    <3>3. EndsOnce(q)
      BY <1>2 DEF QueueOK
    <3> HIDE DEF q
    <3>4. q[i + 1].type \notin Speaking
      BY <3>1, <3>2, <3>3 DEF EndsOnce
    <3> QED BY <3>1, <3>4 DEF Speaking, Proposal
  <2> QED BY <2>1, <2>2 DEF Holds
<1>11. Holds(q, heard)
  BY <1>3 DEF Holds
<1>12. ASSUME NEW c \in Calls, Queued(k, c)
       PROVE  Queued(k, c)' \/ (heard = Proposal(c) /\ panel'.proposal = c)
  <2>1. heard = Proposal(c) \/ Holds(Tail(q), Proposal(c))
    BY <1>7, <1>12 DEF Queued
  <2>2. heard = Proposal(c) => type = "proposal" /\ heard.call = c
    BY <1>8 DEF Proposal
  <2> QED BY <1>4, <1>5, <1>9, <2>1, <2>2 DEF Queued
<1>13. \/ panel'.proposal = panel.proposal
       \/ \E c \in Ids : /\ panel'.proposal = c /\ Queued(k, c)
                        /\ \A d \in Calls : ~Queued(k, d)'
  BY <1>4, <1>5, <1>9, <1>10, <1>11 DEF Queued
<1>14. /\ stream[k].reading /\ stream'[k].reading
       /\ stream'[k].call = stream[k].call /\ stream'[k].sent = stream[k].sent
       /\ stream'[k].aborted = stream[k].aborted /\ stream'[k].end = stream[k].end
       /\ \A e : Holds(stream'[k].queue, e) => Holds(stream[k].queue, e)
  BY <1>1, <1>4, <1>5, <1>6, ZenonT(30)
<1> HIDE DEF s, q, heard
<1>15. \A c \in Calls : Queued(k, c) =>
          \/ Queued(k, c)'
          \/ Head(stream[k].queue) = Proposal(c) /\ panel'.proposal = c
  BY <1>12 DEF heard, q, s
<1> QED BY <1>1, <1>5, <1>9, <1>13, <1>14, <1>15

LEMMA EventOffers ==
    ASSUME PanelInv, OfferInv, NEW k \in Connections, HandleEvent(k)
    PROVE  OfferInv'
<1>1. /\ calls' = calls /\ pc' = pc /\ local' = local
      /\ \A j \in Connections : stream'[j].call = stream[j].call
      /\ \A j \in Connections, c \in Calls : Queued(j, c)' => Queued(j, c)
      /\ panel.error => panel'.error
  <2>1. /\ UNCHANGED vars
        /\ panel.error => panel'.error
        /\ \A j \in Connections : j # k => stream'[j] = stream[j]
        /\ stream'[k].call = stream[k].call
        /\ \A e : Holds(stream'[k].queue, e) => Holds(stream[k].queue, e)
    BY EventFields
  <2>2. \A j \in Connections, c \in Calls : Queued(j, c)' => Queued(j, c)
    <3> SUFFICES ASSUME NEW j \in Connections, NEW c \in Calls, Queued(j, c)'
                 PROVE  Queued(j, c)
      OBVIOUS
    <3>1. CASE j = k
      BY <2>1, <3>1 DEF Queued
    <3>2. CASE j # k
      BY <2>1, <3>2 DEF Queued
    <3> QED BY <3>1, <3>2
  <2>3. \A j \in Connections : stream'[j].call = stream[j].call
    BY <2>1
  <2> QED BY <2>1, <2>2, <2>3 DEF vars
<1>2. \A c \in Calls : (InHand(c)' <=> InHand(c)) /\ (Untouched(c)' <=> Untouched(c))
  BY <1>1 DEF InHand, Deciding, Untouched
<1>3. CASE panel'.proposal = panel.proposal
  BY <1>1, <1>2, <1>3, OfferFrame
<1>4. CASE panel'.proposal = NoCall
  BY <1>1, <1>2, <1>4, OfferFrame
<1>5. ASSUME NEW c \in Calls, panel'.proposal = c, Queued(k, c),
             \A d \in Calls : ~Queued(k, d)'
      PROVE  OfferInv'
  <2>1. Untouched(c) /\ \A j \in Connections : Queued(j, c) => j = k
    BY <1>5 DEF OfferInv, QueuedInv
  <2>2. \A j \in Connections : ~Queued(j, c)'
    BY <1>1, <1>5, <2>1
  <2>3. OfferedInv'
    BY <1>1, <1>2, <1>5, <2>1 DEF OfferedInv, Untouched
  <2>4. QueuedInv'
    <3> SUFFICES ASSUME NEW j \in Connections, NEW d \in Calls, Queued(j, d)'
                 PROVE  /\ Untouched(d)' /\ panel'.proposal # d
                        /\ \A i \in Connections : Queued(i, d)' => i = j
      BY DEF QueuedInv
    <3> QED BY <1>1, <1>2, <1>5, <2>2 DEF OfferInv, QueuedInv
  <2>5. ProposedInv'
    <3> SUFFICES ASSUME NEW h \in Handlers, NEW d \in Calls, pc'[h] = "propose",
                        local'[h].call = d
                 PROVE  /\ Untouched(d)' /\ panel'.proposal # d
                        /\ \A j \in Connections : ~Queued(j, d)'
      BY DEF ProposedInv
    <3> QED BY <1>1, <1>2, <1>5 DEF OfferInv, ProposedInv
  <2>6. HandledInv'
    BY <1>1, <1>2 DEF OfferInv, HandledInv
  <2> QED BY <2>3, <2>4, <2>5, <2>6 DEF OfferInv
<1> QED BY <1>3, <1>4, <1>5, EventFields DEF Ids

(* A stream ends; a decision that failed is offered again, with an error.  *)
LEMMA EndFields ==
    ASSUME PanelInv, NEW k \in Connections, StreamEnds(k)
    PROVE  /\ UNCHANGED <<vars, question, posted, elsewhere>>
           /\ \A j \in Connections : j # k => stream'[j] = stream[j]
           /\ stream[k].reading /\ stream[k].queue = <<>> /\ stream[k].end # "open"
           /\ stream'[k] = NoStream \/ stream'[k] = [stream[k] EXCEPT !.reading = FALSE]
           /\ stream'[k].call = stream[k].call \/ stream'[k].call = NoCall
           /\ stream'[k].queue = <<>> /\ ~stream'[k].reading
           /\ panel'.asked = panel.asked /\ panel'.cancelled = panel.cancelled
           /\ panel.error => panel'.error
           /\ \/ panel'.proposal = panel.proposal
              \/ /\ stream[k].end = "broken" /\ stream[k].call # NoCall
                 /\ panel'.proposal = stream[k].call /\ panel'.error
<1> DEFINE s == stream[k]
           u == [s EXCEPT !.reading = FALSE]
           failed == s.end = "broken"
<1>1. /\ UNCHANGED <<vars, question, posted, elsewhere>>
      /\ stream' = [stream EXCEPT ![k] = Released(u, Busy(k))]
      /\ s.reading /\ s.queue = <<>> /\ s.end # "open"
      /\ panel' = [panel EXCEPT !.running = FALSE, !.controller = NoHandler,
                                !.error = @ \/ failed,
                                !.proposal = IF failed /\ s.call # NoCall THEN s.call ELSE @]
  BY DEF StreamEnds, Settled
<1>2. s \in Streams /\ stream \in [Connections -> Streams] /\ panel \in Panels
  BY DEF PanelInv, PanelTypeOK
<1>3. u.call = s.call /\ u.queue = s.queue /\ ~u.reading
  BY <1>2 DEF Streams
<1>4. /\ stream'[k] = Released(u, Busy(k))
      /\ \A j \in Connections : j # k => stream'[j] = stream[j]
  BY <1>1, <1>2
<1>5. stream'[k] = u \/ stream'[k] = NoStream
  BY <1>4 DEF Released
<1>6. NoStream.call = NoCall /\ NoStream.queue = <<>> /\ ~NoStream.reading
  BY DEF NoStream
<1>7. /\ panel'.asked = panel.asked /\ panel'.cancelled = panel.cancelled
      /\ panel'.proposal = IF failed /\ s.call # NoCall THEN s.call ELSE panel.proposal
  BY <1>1, <1>2 DEF Panels
<1>8. (panel.error => panel'.error) /\ (failed => panel'.error)
  <2> DEFINE e == panel.error \/ failed
  <2>1. panel'.error = e
    BY <1>1, <1>2 DEF Panels
  <2> QED BY Zenon, <2>1 DEF e
<1> HIDE DEF u
<1>9. /\ stream'[k].call = s.call \/ stream'[k].call = NoCall
      /\ stream'[k].queue = <<>> /\ ~stream'[k].reading
  BY <1>1, <1>3, <1>5, <1>6
<1> USE DEF u
<1> QED BY <1>1, <1>4, <1>5, <1>7, <1>8, <1>9

LEMMA EndOffers ==
    ASSUME PanelInv, OfferInv, NEW k \in Connections, StreamEnds(k)
    PROVE  OfferInv'
<1>1. /\ calls' = calls /\ pc' = pc /\ local' = local
      /\ panel.error => panel'.error
      /\ \A j \in Connections : stream'[j].call = stream[j].call \/ stream'[j].call = NoCall
      /\ \A j \in Connections, c \in Calls : Queued(j, c)' => Queued(j, c)
  <2>1. /\ UNCHANGED vars
        /\ panel.error => panel'.error
        /\ \A j \in Connections : j # k => stream'[j] = stream[j]
        /\ stream'[k].call = stream[k].call \/ stream'[k].call = NoCall
        /\ stream'[k].queue = <<>>
    BY EndFields
  <2>2. \A j \in Connections, c \in Calls : Queued(j, c)' => Queued(j, c)
    BY <2>1, NothingHeld DEF Queued
  <2> QED BY <2>1, <2>2 DEF vars
<1>2. ASSUME NEW c \in Calls
      PROVE  (InHand(c)' => InHand(c)) /\ (Untouched(c) => Untouched(c)')
  <2>1. InHand(c)' => InHand(c)
    BY <1>1, InHandStays
  <2> QED BY <1>1, <2>1 DEF Untouched
<1>3. CASE panel'.proposal = panel.proposal
  BY <1>1, <1>2, <1>3, OfferFrame
<1>4. CASE /\ stream[k].call # NoCall /\ panel'.proposal = stream[k].call /\ panel'.error
  <2> DEFINE c == stream[k].call
  <2>1. c \in Calls /\ InHand(c)
    BY <1>4 DEF PanelInv, PanelTypeOK, Streams, Ids, InHand
  <2>2. calls[c].state # "none" /\ ~Untouched(c)
    BY <2>1 DEF OfferInv, HandledInv, Untouched
  <2> HIDE DEF c
  <2>3. panel'.proposal = c
    BY <1>4 DEF c
  <2>4. OfferedInv'
    BY <1>1, <1>4, <2>2, <2>3 DEF OfferedInv
  <2>5. QueuedInv'
    <3> SUFFICES ASSUME NEW j \in Connections, NEW d \in Calls, Queued(j, d)'
                 PROVE  /\ Untouched(d)' /\ panel'.proposal # d
                        /\ \A i \in Connections : Queued(i, d)' => i = j
      BY DEF QueuedInv
    <3> QED BY <1>1, <1>2, <2>2, <2>3 DEF OfferInv, QueuedInv
  <2>6. ProposedInv'
    <3> SUFFICES ASSUME NEW h \in Handlers, NEW d \in Calls, pc'[h] = "propose",
                        local'[h].call = d
                 PROVE  /\ Untouched(d)' /\ panel'.proposal # d
                        /\ \A j \in Connections : ~Queued(j, d)'
      BY DEF ProposedInv
    <3> QED BY <1>1, <1>2, <2>2, <2>3 DEF OfferInv, ProposedInv
  <2>7. HandledInv'
    BY <1>1, <1>2 DEF OfferInv, HandledInv
  <2> QED BY <2>4, <2>5, <2>6, <2>7 DEF OfferInv
<1> QED BY <1>3, <1>4, EndFields

(* The user asks a question, decides, or cancels.                          *)
LEMMA SubmitFields ==
    ASSUME PanelInv, NEW k \in Connections, Submit(k)
    PROVE  /\ UNCHANGED <<vars, posted, elsewhere>>
           /\ stream[k] = NoStream /\ ~Busy(k)
           /\ \A j \in Connections : j # k => stream'[j] = stream[j]
           /\ stream'[k].call = NoCall /\ stream'[k].queue = <<>> /\ stream'[k].end = "open"
           /\ stream'[k].sent /\ stream'[k].reading /\ ~stream'[k].aborted
           /\ panel'.asked = panel.asked + 1 /\ panel'.proposal = NoCall
           /\ IF k = Elsewhere THEN question' = question
              ELSE question = 0 /\ question' = panel.asked + 1
<1> DEFINE request == [NoStream EXCEPT !.question = panel.asked + 1, !.sent = TRUE,
                                       !.reading = TRUE]
<1>1. panel \in Panels /\ panel.asked + 1 \in Nat
  BY DEF PanelInv, PanelTypeOK, Panels
<1>2. /\ request \in Streams /\ request.queue = <<>> /\ request.call = NoCall
      /\ request.sent /\ request.reading /\ ~request.aborted /\ request.end = "open"
  BY <1>1, QuestionOK
<1>3. UNCHANGED <<vars, posted, elsewhere>> /\ Send(k, request)
  BY DEF Submit
<1> HIDE DEF request
<1>4. pc' = pc
  BY <1>3 DEF vars
<1>5. /\ stream[k] = NoStream /\ ~Busy(k) /\ stream'[k] = request
      /\ \A j \in Connections : j # k => stream'[j] = stream[j]
  BY <1>2, <1>3, <1>4, SendOK
<1>6. panel'.asked = panel.asked + 1 /\ panel'.proposal = NoCall
  BY <1>1 DEF Submit, Panels
<1>7. IF k = Elsewhere THEN question' = question
      ELSE question = 0 /\ question' = panel.asked + 1
  BY DEF Submit
<1> QED BY <1>2, <1>3, <1>5, <1>6, <1>7

LEMMA DecideFields ==
    ASSUME PanelInv, NEW h \in Handlers, NEW decision \in Decisions,
           DecideProposal(h, decision)
    PROVE  /\ UNCHANGED <<vars, question, posted, elsewhere>>
           /\ stream[h] = NoStream /\ ~Busy(h)
           /\ \A j \in Connections : j # h => stream'[j] = stream[j]
           /\ stream'[h].call = panel.proposal /\ stream'[h].queue = <<>>
           /\ stream'[h].end = "open" /\ ~stream'[h].aborted
           /\ stream'[h].sent /\ stream'[h].reading
           /\ panel.proposal \in Calls /\ panel'.proposal = NoCall
           /\ panel'.asked = panel.asked /\ panel'.cancelled = panel.cancelled
<1> DEFINE request == DecisionRequest(panel.asked, panel.proposal, decision)
<1>1. h \in Connections /\ panel \in Panels /\ panel.asked \in Nat /\ panel.proposal \in Ids
  BY DEF PanelInv, PanelTypeOK, Panels, Connections
<1>2. /\ request \in Streams /\ request.queue = <<>> /\ request.call = panel.proposal
      /\ request.sent /\ request.reading /\ ~request.aborted /\ request.end = "open"
  BY <1>1, RequestOK
<1>3. /\ UNCHANGED <<vars, question, posted, elsewhere>>
      /\ Send(h, request) /\ panel.proposal \in Calls
  BY <1>1 DEF DecideProposal, DecisionRequest, Ids
<1> HIDE DEF request
<1>4. pc' = pc
  BY <1>3 DEF vars
<1>5. /\ stream[h] = NoStream /\ ~Busy(h) /\ stream'[h] = request
      /\ \A j \in Connections : j # h => stream'[j] = stream[j]
  BY <1>1, <1>2, <1>3, <1>4, SendOK
<1>6. /\ panel'.proposal = NoCall
      /\ panel'.asked = panel.asked /\ panel'.cancelled = panel.cancelled
  BY <1>1 DEF DecideProposal, Panels
<1> QED BY <1>2, <1>3, <1>5, <1>6

LEMMA CancelFields ==
    ASSUME PanelInv, CancelRequest
    PROVE  /\ UNCHANGED <<vars, question, elsewhere>>
           /\ panel'.proposal = panel.proposal /\ panel'.error = panel.error
           /\ panel'.asked = panel.asked /\ panel'.cancelled
           /\ posted' => posted \/ question # 0
           /\ \A j \in Connections :
                 /\ stream'[j].call = stream[j].call \/ stream'[j].call = NoCall
                 /\ \A e : Holds(stream'[j].queue, e) => Holds(stream[j].queue, e)
                 /\ stream'[j].end = "broken" => stream[j].end = "broken"
                 /\ stream[j] = NoStream /\ ~Busy(j) => stream'[j] = NoStream
<1> DEFINE k == panel.controller
           t == [stream[k] EXCEPT !.reading = FALSE, !.aborted = TRUE, !.queue = <<>>]
<1>1. panel \in Panels /\ stream \in [Connections -> Streams]
  BY DEF PanelInv, PanelTypeOK
<1>2. /\ UNCHANGED <<vars, question, elsewhere>>
      /\ stream' = [stream EXCEPT ![k] = Released(t, Busy(k))]
      /\ posted' = (posted \/ (panel.runId # 0 /\ panel.runId = question))
  BY DEF CancelRequest
<1>3. /\ panel'.proposal = panel.proposal /\ panel'.error = panel.error
      /\ panel'.asked = panel.asked /\ panel'.cancelled
  BY <1>1 DEF CancelRequest, Panels
<1>4. posted' => posted \/ question # 0
  BY Zenon, <1>2
<1>5. ASSUME NEW j \in Connections
      PROVE  /\ stream'[j].call = stream[j].call \/ stream'[j].call = NoCall
             /\ \A e : Holds(stream'[j].queue, e) => Holds(stream[j].queue, e)
             /\ stream'[j].end = "broken" => stream[j].end = "broken"
             /\ stream[j] = NoStream /\ ~Busy(j) => stream'[j] = NoStream
  <2>1. CASE j # k
    BY <1>1, <1>2, <2>1
  <2>2. CASE j = k
    <3>1. stream[j] \in Streams /\ stream'[j] = Released(t, Busy(j))
      BY <1>1, <1>2, <2>2
    <3>2. /\ t.call = stream[j].call /\ t.end = stream[j].end /\ t.sent = stream[j].sent
          /\ t.queue = <<>> /\ ~t.reading
      BY <2>2, <3>1 DEF Streams
    <3>3. stream'[j] = t \/ stream'[j] = NoStream
      BY <3>1 DEF Released
    <3>4. /\ NoStream.call = NoCall /\ NoStream.queue = <<>> /\ NoStream.end = "open"
          /\ ~NoStream.sent
      BY DEF NoStream
    <3>5. ~t.sent /\ ~Busy(j) => stream'[j] = NoStream
      BY <3>1, <3>2 DEF Released
    <3> HIDE DEF t
    <3> QED BY <3>2, <3>3, <3>4, <3>5, NothingHeld
  <2> QED BY <2>1, <2>2
<1> QED BY <1>2, <1>3, <1>4, <1>5

LEMMA UserOffers ==
    ASSUME PanelInv, OfferInv, User
    PROVE  OfferInv'
<1>1. ASSUME NEW k \in Connections, Submit(k) PROVE OfferInv'
  <2>1. /\ UNCHANGED vars /\ panel'.proposal = NoCall
        /\ \A j \in Connections : j # k => stream'[j] = stream[j]
        /\ stream'[k].call = NoCall /\ stream'[k].queue = <<>>
    BY <1>1, SubmitFields
  <2>2. \A j \in Connections, c \in Calls : Queued(j, c)' => Queued(j, c)
    BY <2>1, NothingHeld DEF Queued
  <2>3. /\ calls' = calls /\ pc' = pc /\ local' = local
        /\ \A j \in Connections : stream'[j].call = stream[j].call \/ stream'[j].call = NoCall
    BY <2>1 DEF vars
  <2>4. ASSUME NEW c \in Calls
        PROVE  (InHand(c)' => InHand(c)) /\ (Untouched(c) => Untouched(c)')
    <3>1. InHand(c)' => InHand(c)
      BY <2>3, InHandStays
    <3> QED BY <2>3, <3>1 DEF Untouched
  <2> QED BY <2>1, <2>2, <2>3, <2>4, OfferFrame
<1>2. ASSUME CancelRequest PROVE OfferInv'
  <2>1. /\ UNCHANGED vars /\ panel'.proposal = panel.proposal /\ panel'.error = panel.error
        /\ \A j \in Connections : stream'[j].call = stream[j].call \/ stream'[j].call = NoCall
        /\ \A j \in Connections, c \in Calls : Queued(j, c)' => Queued(j, c)
    BY <1>2, CancelFields DEF Queued
  <2>2. ASSUME NEW c \in Calls
        PROVE  (InHand(c)' => InHand(c)) /\ (Untouched(c) => Untouched(c)')
    <3>1. InHand(c)' => InHand(c)
      BY <2>1, InHandStays DEF vars
    <3> QED BY <2>1, <3>1 DEF Untouched, vars
  <2> QED BY <2>1, <2>2, OfferFrame DEF vars
<1>3. ASSUME NEW h \in Handlers, NEW decision \in Decisions, DecideProposal(h, decision)
      PROVE  OfferInv'
  <2> DEFINE c == panel.proposal
  <2>1. /\ UNCHANGED vars /\ panel'.proposal = NoCall /\ c \in Calls /\ h \in Connections
        /\ \A j \in Connections : j # h => stream'[j] = stream[j]
        /\ stream'[h].call = c /\ stream'[h].queue = <<>>
    BY <1>3, DecideFields DEF Connections
  <2>2. /\ calls[c].state # "none" /\ \A j \in Connections : ~Queued(j, c)
        /\ \A g \in Handlers : pc[g] = "propose" => local[g].call # c
    BY <2>1 DEF OfferInv, OfferedInv, QueuedInv, ProposedInv
  <2> HIDE DEF c
  <2>3. \A j \in Connections, d \in Calls : Queued(j, d)' => Queued(j, d)
    BY <2>1, NothingHeld DEF Queued
  <2>4. calls' = calls /\ pc' = pc /\ local' = local
    BY <2>1 DEF vars
  <2>5. \A d \in Calls : d # c => (InHand(d)' => InHand(d)) /\ (Untouched(d) => Untouched(d)')
    BY <2>1, <2>4 DEF InHand, Deciding, Untouched
  <2>6. OfferedInv'
    BY <2>1, NamesAssumption DEF OfferedInv
  <2>7. QueuedInv'
    <3> SUFFICES ASSUME NEW j \in Connections, NEW d \in Calls, Queued(j, d)'
                 PROVE  /\ Untouched(d)' /\ panel'.proposal # d
                        /\ \A i \in Connections : Queued(i, d)' => i = j
      BY DEF QueuedInv
    <3> QED BY <2>1, <2>2, <2>3, <2>5, NamesAssumption DEF OfferInv, QueuedInv
  <2>8. ProposedInv'
    <3> SUFFICES ASSUME NEW g \in Handlers, NEW d \in Calls, pc'[g] = "propose",
                        local'[g].call = d
                 PROVE  /\ Untouched(d)' /\ panel'.proposal # d
                        /\ \A j \in Connections : ~Queued(j, d)'
      BY DEF ProposedInv
    <3> QED BY <2>1, <2>2, <2>3, <2>4, <2>5, NamesAssumption DEF OfferInv, ProposedInv
  <2>9. HandledInv'
    BY <2>2, <2>4, <2>5 DEF OfferInv, HandledInv
  <2> QED BY <2>6, <2>7, <2>8, <2>9 DEF OfferInv
<1> QED BY <1>1, <1>2, <1>3 DEF User

LEMMA OfferStep ==
    ASSUME TypeInv, SingleSegment, PanelInv, OfferInv, [AssistantNext]_allVars
    PROVE  OfferInv'
<1>1. CASE UNCHANGED allVars
  <2>1. calls' = calls /\ pc' = pc /\ local' = local /\ panel' = panel /\ stream' = stream
    BY <1>1 DEF allVars, vars, panelVars
  <2>2. \A k \in Connections, c \in Calls : Queued(k, c)' => Queued(k, c)
    BY <2>1 DEF Queued
  <2> QED BY <2>1, <2>2, RequestOffers
<1>2. ASSUME NEW h \in Handlers, Server(h) \/ NoticeAbort(h) PROVE OfferInv'
  BY <1>2, ServeOffers, TakeUpOffers, AbortOffers DEF Server
<1>3. CASE PanelStep
  BY <1>3, EventOffers, EndOffers DEF PanelStep
<1> QED BY <1>1, <1>2, <1>3, UserOffers, QuietOffers DEF AssistantNext

LEMMA OfferInit == AssistantInit => OfferInv
<1> SUFFICES ASSUME AssistantInit PROVE OfferInv
  OBVIOUS
<1>1. /\ panel.proposal = NoCall /\ \A k \in Connections : stream[k] = NoStream
      /\ \A h \in Handlers : pc[h] = "idle"
  BY DEF AssistantInit, PanelInit, Init
<1>2. /\ \A k \in Connections : stream[k].call = NoCall
      /\ \A k \in Connections, c \in Calls : ~Queued(k, c)
  BY <1>1, NothingHeld DEF NoStream, Queued
<1> QED BY <1>1, <1>2, NamesAssumption
        DEF OfferInv, OfferedInv, QueuedInv, ProposedInv, HandledInv, InHand, Deciding,
            DecidePoints

-----------------------------------------------------------------------------
(* The status of the run while the panel drives it                         *)

(* Between its reading of the row and its next write a request knows in    *)
(* which status it has read or left the run.                               *)
StatusInv ==
    \A h \in Handlers :
        /\ pc[h] \in SegmentPoints \ {"segment", "loop"} => cached[h].status = "running"
        /\ pc[h] = "expire" => cached[h].status = "waiting_for_approval"

LEMMA StatusInvStep ==
    ASSUME TypeInv, StatusInv, RunStep
    PROVE  StatusInv'
<1>a. /\ pc \in [Handlers -> Points] /\ cached \in [Handlers -> Rows] /\ run \in Rows
      /\ \A h \in Handlers : cached[h] \in Rows
  BY DEF TypeInv, TypeOK
<1>1. CASE UNCHANGED vars
  BY <1>1 DEF vars, StatusInv
<1>2. ASSUME NEW h \in Handlers,
             HandlerStep(h) \/ Fault(h) \/ Request(h),
             /\ pc'[h] \in SegmentPoints \ {"segment", "loop"} => cached'[h].status = "running"
             /\ pc'[h] = "expire" => cached'[h].status = "waiting_for_approval"
      PROVE  StatusInv'
  BY <1>2, OthersStay DEF StatusInv
<1> DEFINE Fits(h) ==
        /\ pc'[h] \in SegmentPoints \ {"segment", "loop"} => cached'[h].status = "running"
        /\ pc'[h] = "expire" => cached'[h].status = "waiting_for_approval"
<1>3. ASSUME NEW h \in Handlers, SegmentStep(h) PROVE Fits(h)
  <2>1. CASE SegmentStart(h) \/ SeeCancel(h) \/ FinishAnswer(h) \/ LimitReached(h)
             \/ Propose(h) \/ (\E s \in {"failed", "timed_out"} : SegmentFails(h, s))
             \/ Close(h) \/ AbortSave(h)
    BY <1>a, <2>1 DEF SegmentStart, SeeCancel, FinishAnswer, LimitReached, Propose,
       SegmentFails, Close, AbortSave, Goto, Return, SegmentPoints
  <2>2. CASE LoopTop(h)
    BY <1>a, <2>2 DEF LoopTop, Save, Goto, Rows
  <2>3. CASE ProviderResponds(h) \/ ReadToolReturns(h)
    BY <1>a, <2>3 DEF ProviderResponds, ReadToolReturns, Goto, StatusInv, SegmentPoints
  <2>4. ASSUME NEW c \in Calls, CreateChangeCall(h, c) \/ CreateReadCall(h, c) PROVE Fits(h)
    <3>1. pc[h] \in {"change", "read"} /\ pc'[h] \in {"propose", "read_tool"}
          /\ cached'[h].status = cached[h].status
      BY <1>a, <2>4 DEF CreateChangeCall, CreateReadCall, CreateCall, Save, Goto, Rows
    <3> QED BY <3>1 DEF StatusInv, SegmentPoints
  <2> QED BY <1>3, <2>1, <2>2, <2>3, <2>4 DEF SegmentStep
<1>4. ASSUME NEW h \in Handlers, ~SegmentStep(h), HandlerStep(h) \/ Fault(h) PROVE Fits(h)
  BY <1>a, <1>4 DEF HandlerStep, DecideStep, ExpireRun, Claim, ClaimConflict, Refresh,
     ExecuteApproved, SaveApproved, SaveRejected, AppendResult, ApprovedToolFails,
     ReconnectStep, Transition, TransitionConflict, Reload, Activate, ActivateConflict,
     Fault, DisconnectAtAwait, DisconnectAtYield, DisconnectOutside, Goto, Return,
     SegmentPoints
<1>5. ASSUME NEW h \in Handlers, NEW c \in Calls, NEW d \in Decisions, Decide(h, c, d)
      PROVE  Fits(h)
  BY <1>a, <1>5 DEF Decide, Load, Goto, SegmentPoints
<1>6. ASSUME NEW h \in Handlers, NEW direct \in BOOLEAN, RunAgent(h, direct) PROVE Fits(h)
  BY <1>a, <1>6 DEF RunAgent, Goto, SegmentPoints
<1>7. ASSUME NEW h \in Handlers, Cancel(h) PROVE Fits(h)
  BY <1>a, <1>7 DEF Cancel, StatusInv
<1> HIDE DEF Fits
<1>8. \A h \in Handlers : Fits(h) /\ (HandlerStep(h) \/ Fault(h) \/ Request(h)) => StatusInv'
  BY <1>2 DEF Fits
<1> QED BY <1>1, <1>3, <1>4, <1>5, <1>6, <1>7, <1>8 DEF RunStep, Request

(* Only a claim, a reconnect and the start of the run begin work.          *)
LEMMA WorkBegins ==
    ASSUME TypeInv, NEW h \in Handlers, HandlerStep(h) \/ Fault(h), NEW g \in Handlers,
           pc'[g] \in WorkPoints
    PROVE  pc[g] \in WorkPoints \union ReconnectPoints \/ Claim(h)
<1>a. pc \in [Handlers -> Points]
  BY DEF TypeInv, TypeOK
<1>1. CASE g # h
  BY <1>1, OthersStay
<1>2. CASE g = h
  <2> USE <1>2, <1>a DEF Goto, Return, WorkPoints, SegmentPoints, Resuming
  <2>1. CASE SegmentStep(h)
    BY <2>1 DEF SegmentStep, SegmentStart, LoopTop, SeeCancel, ProviderResponds,
       FinishAnswer, LimitReached, Propose, ReadToolReturns, CreateChangeCall,
       CreateReadCall, SegmentFails, Close, AbortSave
  <2>2. CASE DecideStep(h)
    BY <2>2 DEF DecideStep, ExpireRun, ClaimConflict, Refresh, ExecuteApproved,
       SaveApproved, SaveRejected, AppendResult, ApprovedToolFails
  <2>3. CASE ReconnectStep(h) \/ Activate(h) \/ ActivateConflict(h)
    BY <2>3 DEF ReconnectStep, Transition, TransitionConflict, Reload, Activate,
       ActivateConflict, ReconnectPoints
  <2>4. CASE Fault(h)
    BY <2>4 DEF Fault, DisconnectAtAwait, DisconnectAtYield, DisconnectOutside
  <2> QED BY <2>1, <2>2, <2>3, <2>4 DEF HandlerStep
<1> QED BY <1>1, <1>2

(* Nobody works on the run any more, and nobody will.                      *)
Stuck ==
    /\ run.status \notin {"none", "waiting_for_approval"}
    /\ \A h \in Handlers : pc[h] \notin WorkPoints

LEMMA StuckStays ==
    ASSUME RunInv, RunStep, Stuck
    PROVE  Stuck'
<1>1. TypeInv /\ WorkInv /\ [Next]_vars
  BY RunStepsAreSteps DEF RunInv
<1>2. run'.status # "none"
  BY <1>1, StatusKept DEF Stuck
<1>3. CASE UNCHANGED vars
  BY <1>3 DEF vars, Stuck
<1>4. ASSUME NEW h \in Handlers, HandlerStep(h) \/ Fault(h) PROVE Stuck'
  <2>1. ~Propose(h) /\ ~Claim(h)
    BY DEF Propose, Claim, Claimable, Stuck, WorkPoints, SegmentPoints
  <2>2. run'.status # "waiting_for_approval"
    BY <1>1, <1>4, <2>1, WaitingByProposal DEF Stuck
  <2>3. \A g \in Handlers : pc'[g] \notin WorkPoints
    BY <1>1, <1>4, <2>1, WorkBegins DEF Stuck, WorkInv
  <2> QED BY <1>2, <2>2, <2>3 DEF Stuck
<1>5. ASSUME NEW h \in Handlers, Cancel(h) PROVE Stuck'
  BY <1>1, <1>5 DEF Cancel, Stuck, TypeInv, TypeOK, Rows
<1>6. ASSUME NEW h \in Handlers, NEW direct \in BOOLEAN PROVE ~RunAgent(h, direct)
  BY DEF RunAgent, Stuck
<1>7. ASSUME NEW h \in Handlers, NEW c \in Calls, NEW d \in Decisions PROVE ~Decide(h, c, d)
  BY DEF Decide, Stuck
<1> QED BY <1>3, <1>4, <1>5, <1>6, <1>7 DEF RunStep

(* While the run waits, requests decide, or come to their end.             *)
LEMMA StepWhileWaiting ==
    ASSUME TypeInv, WorkInv, StatusInv, NEW h \in Handlers, HandlerStep(h),
           run.status = "waiting_for_approval", pc[h] # "abort"
    PROVE  \/ Claim(h) \/ ClaimConflict(h)
           \/ ExpireRun(h) /\ run'.status = "timed_out" /\ pc'[h] = "idle"
           \/ Close(h) /\ run'.status = run.status /\ calls' = calls /\ pc'[h] = "idle"
<1>a. pc \in [Handlers -> Points] /\ cached[h] \in Rows
  BY DEF TypeInv, TypeOK
<1>1. pc[h] \notin WorkPoints /\ pc[h] \notin ReconnectPoints
  BY DEF WorkInv, Working
<1>2. SegmentStep(h) => Close(h)
  BY <1>1 DEF SegmentStep, SegmentStart, LoopTop, SeeCancel, ProviderResponds,
     FinishAnswer, LimitReached, Propose, ReadToolReturns, CreateChangeCall,
     CreateReadCall, SegmentFails, AbortSave, WorkPoints, SegmentPoints
<1>3. DecideStep(h) => ExpireRun(h) \/ Claim(h) \/ ClaimConflict(h)
  BY <1>1 DEF DecideStep, Refresh, ExecuteApproved, SaveApproved, SaveRejected,
     ApprovedToolFails, WorkPoints, Resuming
<1>4. ~(ReconnectStep(h) \/ Activate(h) \/ ActivateConflict(h))
  BY <1>1 DEF ReconnectStep, Transition, TransitionConflict, Reload, Activate,
     ActivateConflict, ReconnectPoints, WorkPoints, Resuming
<1>5. Close(h) => run'.status = run.status /\ calls' = calls /\ pc'[h] = "idle"
  BY <1>a DEF Close, Spent, Written, Return, Rows
<1>6. ExpireRun(h) => run'.status = "timed_out" /\ pc'[h] = "idle"
  <2> DEFINE new == [cached[h] EXCEPT !.status = "timed_out"]
  <2>1. new.status = "timed_out"
    BY <1>a DEF Rows
  <2>2. ExpireRun(h) => run' = Written(h, new) /\ pc[h] = "expire" /\ pc'[h] = "idle"
    BY <1>a DEF ExpireRun, Return
  <2> HIDE DEF new
  <2> QED BY <2>1, <2>2 DEF Written, StatusInv
<1> QED BY <1>2, <1>3, <1>4, <1>5, <1>6 DEF HandlerStep

(* A proposal makes the run wait.                                          *)
LEMMA ProposeWaits ==
    ASSUME TypeInv, WorkInv, StatusInv, NEW h \in Handlers, Propose(h)
    PROVE  run.status # "waiting_for_approval" /\ run'.status = "waiting_for_approval"
<1> DEFINE new == [cached[h] EXCEPT !.status = "waiting_for_approval"]
<1>1. cached[h] \in Rows /\ pc[h] = "propose" /\ run' = Written(h, new)
  BY DEF TypeInv, TypeOK, Propose, Save
<1>2. new.status = "waiting_for_approval" /\ cached[h].status = "running"
  BY <1>1 DEF Rows, StatusInv, SegmentPoints
<1> HIDE DEF new
<1>3. run'.status = "waiting_for_approval"
  BY <1>1, <1>2 DEF Written
<1>4. run.status # "waiting_for_approval"
  BY <1>1 DEF WorkInv, Working, WorkPoints, SegmentPoints
<1> QED BY <1>3, <1>4

-----------------------------------------------------------------------------
(* A run that waits has its proposal under way                             *)

(* The panel listens to what the server has to say of the run.             *)
Served(h) ==
    /\ ~stream[h].aborted /\ stream[h].end # "broken" /\ pc[h] # "abort"
    /\ pc[h] # "idle" \/ stream[h].sent => stream[h].reading /\ stream[h].end = "open"

(* The run waits exactly while its proposal is on the way, and only one    *)
(* decision about it is.                                                   *)
Carried ==
    /\ \A c \in Calls : OnTheWay(c) =>
          run.status = "waiting_for_approval" /\ calls[c].state = "pending"
    /\ \A c \in Calls : panel.proposal = c => ~InHand(c)
    /\ \A h, g \in Handlers, c \in Calls : Flying(h, c) /\ Flying(g, c) => h = g
    /\ run.status = "waiting_for_approval" => \E c \in Calls : OnTheWay(c)

Going == ~posted /\ (\A h \in Handlers : Served(h)) /\ Carried

(* The panel is at the question that started the run, which the user has   *)
(* not cancelled.                                                          *)
Window == question # 0 /\ panel.asked = question /\ ~panel.cancelled

(* When nobody will work on the run any more, the panel offers a proposal  *)
(* only beside an error, and no further one can come.                      *)
Left ==
    /\ panel.proposal # NoCall => panel.error
    /\ \A k \in Connections, c \in Calls : stream[k].reading => ~Queued(k, c)

WindowInv == Window => Going \/ (Stuck /\ Left)

BeforeRun ==
    question = 0 =>
        /\ run.status = "none" /\ panel.proposal = NoCall /\ ~posted
        /\ \A h \in Handlers : stream[h] = NoStream

(* The question answered elsewhere has nothing to do with the run, and a   *)
(* proposal names a call.                                                  *)
ElsewhereInv ==
    /\ stream[Elsewhere].call = NoCall /\ stream[Elsewhere].end # "broken"
    /\ \A c \in Calls : ~Queued(Elsewhere, c)
    /\ \A k \in Connections : ~Queued(k, NoCall)

AskedInv == question <= panel.asked

LEMMA NothingCarried ==
    ASSUME \A c \in Calls : ~OnTheWay(c), run.status # "waiting_for_approval"
    PROVE  Carried
  BY DEF Carried, OnTheWay

LEMMA NothingLeft ==
    ASSUME PanelInv, \A c \in Calls : ~OnTheWay(c)', panel' = panel
    PROVE  Left'
<1>1. panel'.proposal = NoCall
  <2>1. panel.proposal \in Ids
    BY DEF PanelInv, PanelTypeOK, Panels
  <2> QED BY <2>1 DEF OnTheWay, Ids
<1> QED BY <1>1 DEF Left, OnTheWay

LEMMA CarriedFrame ==
    ASSUME Carried, run'.status = run.status,
           \A c \in Calls : calls'[c].state = calls[c].state,
           \A c \in Calls : OnTheWay(c)' <=> OnTheWay(c),
           \A c \in Calls : panel'.proposal = c => ~InHand(c)',
           \A h \in Handlers, c \in Calls : Flying(h, c)' => Flying(h, c)
    PROVE  Carried'
  BY DEF Carried

(* The panel hears a proposal: it comes from the stream to the screen.     *)
LEMMA EventGoes ==
    ASSUME PanelInv, OfferInv, ElsewhereInv, Going, NEW k \in Connections, HandleEvent(k)
    PROVE  Going'
<1>1. /\ run' = run /\ calls' = calls /\ pc' = pc /\ local' = local /\ posted' = posted
      /\ stream[k].reading
      /\ \A j \in Connections :
            /\ stream'[j].reading <=> stream[j].reading
            /\ stream'[j].sent <=> stream[j].sent
            /\ stream'[j].aborted <=> stream[j].aborted
            /\ stream'[j].call = stream[j].call
            /\ stream'[j].end = stream[j].end
  <2>1. /\ UNCHANGED <<vars, question, posted, elsewhere>>
        /\ \A j \in Connections : j # k => stream'[j] = stream[j]
        /\ stream[k].reading /\ stream'[k].reading
        /\ stream'[k].call = stream[k].call /\ stream'[k].sent = stream[k].sent
        /\ stream'[k].aborted = stream[k].aborted /\ stream'[k].end = stream[k].end
    BY EventFields
  <2>2. ASSUME NEW j \in Connections
        PROVE  /\ stream'[j].reading <=> stream[j].reading
               /\ stream'[j].sent <=> stream[j].sent
               /\ stream'[j].aborted <=> stream[j].aborted
               /\ stream'[j].call = stream[j].call
               /\ stream'[j].end = stream[j].end
    <3>1. CASE j = k
      BY <2>1, <3>1
    <3>2. CASE j # k
      BY <2>1, <3>2
    <3> QED BY <3>1, <3>2
  <2> QED BY <2>1, <2>2 DEF vars
<1>2. \A j \in Connections, c \in Calls : Queued(j, c)' => Queued(j, c)
  <2> SUFFICES ASSUME NEW j \in Connections, NEW c \in Calls, Queued(j, c)'
               PROVE  Queued(j, c)
    OBVIOUS
  <2>1. CASE j = k
    BY <2>1, EventFields DEF Queued
  <2>2. CASE j # k
    BY <2>2, EventFields DEF Queued
  <2> QED BY <2>1, <2>2
<1>3. \A h \in Handlers, c \in Calls : Flying(h, c)' <=> Flying(h, c)
  BY <1>1 DEF Flying, Connections
<1>4. \A c \in Calls : InHand(c)' <=> InHand(c)
  BY <1>1 DEF InHand, Deciding
<1>5. \/ panel'.proposal = panel.proposal
      \/ \E c \in Calls : panel'.proposal = c /\ Queued(k, c)
  <2>1. \/ panel'.proposal = panel.proposal
        \/ \E c \in Ids : panel'.proposal = c /\ Queued(k, c)
    BY EventFields
  <2> QED BY <2>1 DEF Ids, ElsewhereInv
<1>6. \A c \in Calls : OnTheWay(c)' => OnTheWay(c)
  BY <1>1, <1>2, <1>3, <1>5 DEF OnTheWay
<1>7. \A c \in Calls : panel'.proposal = c => ~InHand(c)'
  <2> SUFFICES ASSUME NEW c \in Calls, panel'.proposal = c PROVE ~InHand(c)
    BY <1>4
  <2>1. Queued(k, c) => ~InHand(c)
    BY DEF OfferInv, QueuedInv, Untouched
  <2> QED BY <1>5, <2>1 DEF Going, Carried
<1>8. ASSUME NEW c \in Calls, OnTheWay(c) PROVE \E d \in Calls : OnTheWay(d)'
  <2>1. CASE \E d \in Calls : panel'.proposal = d
    BY <2>1 DEF OnTheWay
  <2>2. CASE panel'.proposal \notin Calls
    <3>1. panel'.proposal = panel.proposal
      BY <1>5, <2>2
    <3>2. ASSUME NEW j \in Connections, stream[j].reading, Queued(j, c)
          PROVE  stream'[j].reading /\ Queued(j, c)'
      <4>1. CASE j = k
        BY <1>1, <2>2, <3>2, <4>1, EventFields
      <4>2. CASE j # k
        BY <1>1, <3>2, <4>2, EventFields DEF Queued
      <4> QED BY <4>1, <4>2
    <3> QED BY <1>3, <1>8, <3>1, <3>2 DEF OnTheWay
  <2> QED BY <2>1, <2>2
<1>9. Carried'
  BY <1>1, <1>3, <1>6, <1>7, <1>8 DEF Going, Carried
<1>10. \A h \in Handlers : Served(h)'
  BY <1>1 DEF Going, Served, Connections
<1> QED BY <1>1, <1>9, <1>10 DEF Going

(* A stream of the run that ends has nothing more to carry.                *)
LEMMA EndGoes ==
    ASSUME PanelInv, ElsewhereInv, Going, NEW k \in Connections, StreamEnds(k)
    PROVE  Going'
<1>1. /\ run' = run /\ calls' = calls /\ pc' = pc /\ local' = local /\ posted' = posted
      /\ \A j \in Connections : j # k => stream'[j] = stream[j]
      /\ stream[k].reading /\ stream[k].queue = <<>> /\ stream[k].end # "open"
      /\ stream'[k] = NoStream \/ stream'[k] = [stream[k] EXCEPT !.reading = FALSE]
      /\ ~stream'[k].reading
  BY EndFields DEF vars
<1>2. /\ stream[k].end # "broken"
      /\ (k # Elsewhere => k \in Handlers /\ ~stream[k].sent /\ pc[k] = "idle")
  BY <1>1 DEF Going, Served, ElsewhereInv, Connections
<1>3. panel'.proposal = panel.proposal
  BY <1>2, EndFields
<1>4. /\ stream'[k].call = stream[k].call \/ stream'[k].call = NoCall
      /\ stream'[k].end # "broken"
      /\ stream'[k].sent => stream[k].sent
      /\ stream'[k].aborted => stream[k].aborted
  <2>1. stream[k] \in Streams
    BY DEF PanelInv, PanelTypeOK
  <2>2. CASE stream'[k] = NoStream
    BY <1>2, <2>2 DEF NoStream
  <2>3. CASE stream'[k] = [stream[k] EXCEPT !.reading = FALSE]
    BY <1>2, <2>1, <2>3 DEF Streams
  <2> QED BY <1>1, <2>2, <2>3
<1>5. \A h \in Handlers, c \in Calls : Flying(h, c)' <=> Flying(h, c)
  BY <1>1, <1>2, <1>4, PanelAssumption DEF Flying, Connections
<1>6. \A c \in Calls : ~Queued(k, c)
  BY <1>1, NothingHeld DEF Queued
<1>7. \A c \in Calls : OnTheWay(c)' <=> OnTheWay(c)
  <2>1. \A j \in Connections, c \in Calls :
            j # k => /\ (stream'[j].reading <=> stream[j].reading)
                     /\ (Queued(j, c)' <=> Queued(j, c))
    BY <1>1 DEF Queued
  <2> QED BY <1>1, <1>3, <1>5, <1>6, <2>1 DEF OnTheWay
<1>8. \A c \in Calls : InHand(c)' => InHand(c)
  <2>1. \A j \in Connections : stream'[j].call = stream[j].call \/ stream'[j].call = NoCall
    BY <1>1, <1>4
  <2> QED BY <1>1, <2>1, InHandStays
<1>9. Carried'
  BY <1>1, <1>3, <1>5, <1>7, <1>8, CarriedFrame DEF Going, Carried
<1>10. \A h \in Handlers : Served(h)'
  <2> SUFFICES ASSUME NEW h \in Handlers PROVE Served(h)'
    OBVIOUS
  <2>1. Served(h) /\ h \in Connections
    BY DEF Going, Connections
  <2>2. CASE h = k
    BY <1>1, <1>2, <1>4, <2>1, <2>2, PanelAssumption DEF Served
  <2>3. CASE h # k
    BY <1>1, <2>1, <2>3 DEF Served
  <2> QED BY <2>2, <2>3
<1> QED BY <1>1, <1>9, <1>10 DEF Going

(* The decision of the user takes the proposal from the screen to a        *)
(* handler.                                                                *)
LEMMA DecisionGoes ==
    ASSUME PanelInv, Going, NEW h \in Handlers, NEW decision \in Decisions,
           DecideProposal(h, decision)
    PROVE  Going'
<1> DEFINE c == panel.proposal
<1>1. /\ run' = run /\ calls' = calls /\ pc' = pc /\ local' = local /\ posted' = posted
      /\ h \in Connections /\ stream[h] = NoStream /\ pc[h] = "idle"
      /\ \A j \in Connections : j # h => stream'[j] = stream[j]
      /\ stream'[h].call = c /\ stream'[h].queue = <<>>
      /\ stream'[h].end = "open" /\ ~stream'[h].aborted
      /\ stream'[h].sent /\ stream'[h].reading
      /\ c \in Calls /\ panel'.proposal = NoCall
  <2>1. h \in Connections /\ h # Elsewhere
    BY PanelAssumption DEF Connections
  <2> QED BY <2>1, DecideFields DEF vars, Busy
<1>2. ~InHand(c) /\ OnTheWay(c)
  BY <1>1 DEF Going, Carried, OnTheWay
<1>3. ~NoStream.sent /\ NoStream.queue = <<>>
  BY DEF NoStream
<1> HIDE DEF c
<1>4. \A g \in Handlers : ~Flying(g, c)
  BY <1>2 DEF InHand, Flying, Deciding, DecidePoints, Connections
<1>5. \A g \in Handlers, d \in Calls :
          Flying(g, d)' <=> Flying(g, d) \/ (g = h /\ d = c)
  BY <1>1, <1>3 DEF Flying, Connections
<1>6. \A d \in Calls : OnTheWay(d)' <=> OnTheWay(d)
  <2>1. \A j \in Connections, d \in Calls :
            /\ j # h => /\ (stream'[j].reading <=> stream[j].reading)
                        /\ (Queued(j, d)' <=> Queued(j, d))
            /\ j = h => ~Queued(j, d) /\ ~Queued(j, d)'
    BY <1>1, <1>3, NothingHeld DEF Queued
  <2>2. \A d \in Calls : panel.proposal = d <=> d = c
    BY DEF c
  <2>3. \A d \in Calls : panel'.proposal # d
    BY <1>1, NamesAssumption
  <2> QED BY <1>1, <1>5, <2>1, <2>2, <2>3 DEF OnTheWay
<1>7. Carried'
  BY <1>1, <1>4, <1>5, <1>6, NamesAssumption DEF Going, Carried
<1>8. \A g \in Handlers : Served(g)'
  BY <1>1 DEF Going, Served, Connections
<1> QED BY <1>1, <1>7, <1>8 DEF Going

(* The question that starts the run finds nothing under way.               *)
LEMMA QuestionGoes ==
    ASSUME PanelInv, ElsewhereInv, BeforeRun, StartedOnce, NEW h \in Handlers, Submit(h)
    PROVE  Going'
<1>1. /\ run' = run /\ calls' = calls /\ pc' = pc /\ local' = local /\ posted' = posted
      /\ h \in Connections /\ h # Elsewhere /\ question = 0
      /\ \A j \in Connections : j # h => stream'[j] = stream[j]
      /\ stream'[h].call = NoCall /\ stream'[h].queue = <<>>
      /\ stream'[h].end = "open" /\ ~stream'[h].aborted
      /\ stream'[h].sent /\ stream'[h].reading
      /\ panel'.proposal = NoCall
  <2>1. h \in Connections /\ h # Elsewhere
    BY PanelAssumption DEF Connections
  <2> QED BY <2>1, SubmitFields DEF vars
<1>2. /\ run.status = "none" /\ ~posted
      /\ \A g \in Handlers : stream[g] = NoStream /\ pc[g] = "idle"
  BY <1>1 DEF BeforeRun, StartedOnce
<1>3. /\ ~NoStream.sent /\ NoStream.queue = <<>> /\ ~NoStream.aborted /\ NoStream.end = "open"
  BY DEF NoStream
<1>4. \A g \in Handlers, c \in Calls : ~Flying(g, c)'
  BY <1>1, <1>2, <1>3, NamesAssumption DEF Flying, Connections
<1>5. \A j \in Connections, c \in Calls : ~Queued(j, c)'
  <2> SUFFICES ASSUME NEW j \in Connections, NEW c \in Calls, Queued(j, c)' PROVE FALSE
    OBVIOUS
  <2>1. CASE j = h
    BY <1>1, <2>1, NothingHeld DEF Queued
  <2>2. CASE j = Elsewhere
    BY <1>1, <2>2 DEF Queued, ElsewhereInv
  <2>3. CASE j \in Handlers /\ j # h
    BY <1>1, <1>2, <1>3, <2>3, NothingHeld DEF Queued
  <2> QED BY <2>1, <2>2, <2>3 DEF Connections
<1>6. \A c \in Calls : ~OnTheWay(c)'
  BY <1>1, <1>4, <1>5, NamesAssumption DEF OnTheWay
<1>7. Carried'
  BY <1>1, <1>2, <1>6 DEF Carried, OnTheWay
<1>8. \A g \in Handlers : Served(g)'
  BY <1>1, <1>2, <1>3 DEF Served, Connections
<1> QED BY <1>1, <1>2, <1>7, <1>8 DEF Going

(* The server begins to answer.                                            *)
LEMMA TakeUpGoes ==
    ASSUME TypeInv, PanelInv, OfferInv, Going, NEW h \in Handlers,
           TakeUpQuestion(h) \/ TakeUpDecision(h) \/ RefuseDecision(h)
    PROVE  Going'
<1>1. h \in Connections /\ panel' = panel /\ posted' = posted /\ stream[h].sent
  BY DEF Connections, TakeUpQuestion, TakeUpDecision, RefuseDecision
<1>2. Served(h) /\ stream[h].reading /\ ~stream[h].aborted
  BY <1>1 DEF Going, Served
<1>3. ~RefuseDecision(h)
  <2> SUFFICES ASSUME RefuseDecision(h) PROVE FALSE
    OBVIOUS
  <2>1. stream[h].call \in Calls
    BY <1>1 DEF RefuseDecision, PanelInv, PanelTypeOK, Streams, Ids
  <2>2. OnTheWay(stream[h].call)
    BY <1>1 DEF OnTheWay, Flying
  <2> QED BY <2>1, <2>2 DEF RefuseDecision, Going, Carried
<1>4. PICK said \in Seq(Events), end \in {"open"} :
          TakenUp(h, said, end) /\ \A c : ~Holds(said, Proposal(c))
  BY <1>3, TakeUpFields
<1>5. /\ \A j \in Connections : j # h => stream'[j] = stream[j]
      /\ stream'[h].call = stream[h].call /\ stream'[h].reading /\ ~stream'[h].sent
      /\ stream'[h].end = "open" /\ ~stream'[h].aborted
      /\ \A c \in Calls : Queued(h, c)' <=> Queued(h, c)
  BY <1>1, <1>2, <1>4, TakenUpSays DEF Queued
<1>6. \A j \in Connections, c \in Calls :
          (stream'[j].reading <=> stream[j].reading) /\ (Queued(j, c)' <=> Queued(j, c))
  BY <1>2, <1>5 DEF Queued
<1>7. CASE TakeUpQuestion(h)
  <2>1. PICK direct \in BOOLEAN : RunAgent(h, direct)
    BY <1>7 DEF TakeUpQuestion
  <2>2. /\ run.status = "none" /\ run'.status = "running" /\ calls' = calls
        /\ pc' = [pc EXCEPT ![h] = "segment"] /\ local' = [local EXCEPT ![h].direct = direct]
    BY <2>1 DEF RunAgent, Goto, NoRow
  <2>3. pc \in [Handlers -> Points] /\ local \in [Handlers -> Requests]
    BY DEF TypeInv, TypeOK
  <2>4. pc'[h] = "segment" /\ \A g \in Handlers : g # h => pc'[g] = pc[g] /\ local'[g] = local[g]
    BY <2>2, <2>3
  <2>5. \A c \in Calls : ~OnTheWay(c)
    BY <2>2 DEF Going, Carried
  <2>6. \A g \in Handlers, c \in Calls : Flying(g, c)' => Flying(g, c)
    BY <1>5, <2>4 DEF Flying, Connections
  <2>7. \A c \in Calls : ~OnTheWay(c)'
    BY <1>1, <1>6, <2>5, <2>6 DEF OnTheWay
  <2>8. Carried'
    BY <2>2, <2>7 DEF Carried, OnTheWay
  <2>9. \A g \in Handlers : Served(g)'
    BY <1>5, <2>4 DEF Going, Served, Connections
  <2> QED BY <1>1, <2>8, <2>9 DEF Going
<1>8. CASE TakeUpDecision(h)
  <2> DEFINE c == stream[h].call
  <2>1. /\ run' = run /\ calls' = calls /\ pc[h] = "idle"
        /\ pc' = [pc EXCEPT ![h] = IF run.expired THEN "expire" ELSE "claim"]
        /\ local' = [local EXCEPT ![h].call = c, ![h].decision = stream[h].decision]
    BY <1>8 DEF TakeUpDecision, Decide, Goto
  <2>2. pc \in [Handlers -> Points] /\ local \in [Handlers -> Requests]
    BY DEF TypeInv, TypeOK
  <2>3. local'[h].call = c /\ \A g \in Handlers : g # h => local'[g] = local[g]
    <3>1. [[local[h] EXCEPT !.call = c] EXCEPT !.decision = stream[h].decision].call = c
      BY <2>2 DEF Requests
    <3> QED BY <2>1, <2>2, <3>1
  <2>4. pc'[h] \in {"expire", "claim"} /\ \A g \in Handlers : g # h => pc'[g] = pc[g]
    BY <2>1, <2>2
  <2>5. \A g \in Handlers, d \in Calls : Flying(g, d)' <=> Flying(g, d)
    BY <1>1, <1>5, <2>1, <2>3, <2>4, ZenonT(30) DEF Flying, Connections
  <2>6. \A d \in Calls : OnTheWay(d)' <=> OnTheWay(d)
    BY <1>1, <1>6, <2>5 DEF OnTheWay
  <2>7. \A d \in Calls : InHand(d)' => InHand(d)
    BY <1>1, <1>5, <2>3, <2>4 DEF InHand, Deciding
  <2>8. Carried'
    BY <1>1, <2>1, <2>5, <2>6, <2>7, CarriedFrame DEF Going, Carried
  <2>9. \A g \in Handlers : Served(g)'
    BY <1>5, <2>4 DEF Going, Served, Connections
  <2> QED BY <1>1, <2>8, <2>9 DEF Going
<1> QED BY <1>3, <1>7, <1>8

(* No handler is at the point of an abort unless it was disconnected.      *)
LEMMA NoStepAborts ==
    ASSUME TypeInv, NEW h \in Handlers, HandlerStep(h)
    PROVE  pc'[h] # "abort"
<1>a. pc \in [Handlers -> Points]
  BY DEF TypeInv, TypeOK
<1> USE <1>a DEF Goto, Return
<1>1. CASE SegmentStep(h)
  BY <1>1 DEF SegmentStep, SegmentStart, LoopTop, SeeCancel, ProviderResponds,
     FinishAnswer, LimitReached, Propose, ReadToolReturns, CreateChangeCall,
     CreateReadCall, SegmentFails, Close, AbortSave
<1>2. CASE DecideStep(h)
  BY <1>2 DEF DecideStep, ExpireRun, Claim, ClaimConflict, Refresh, ExecuteApproved,
     SaveApproved, SaveRejected, AppendResult, ApprovedToolFails
<1>3. CASE ReconnectStep(h) \/ Activate(h) \/ ActivateConflict(h)
  BY <1>3 DEF ReconnectStep, Transition, TransitionConflict, Reload, Activate,
     ActivateConflict
<1> QED BY <1>1, <1>2, <1>3 DEF HandlerStep

(* A handler works on: what is on the way stays so until its claim, or the *)
(* run ends.                                                               *)
LEMMA ServeGoes ==
    ASSUME RunInv, StatusInv, PanelInv, OfferInv, Going, NEW h \in Handlers, Serve(h)
    PROVE  Going' \/ (Stuck' /\ Left')
<1>1. TypeInv /\ StartedOnce /\ SingleSegment /\ WorkInv /\ OnePending
  BY DEF RunInv, WorkInv
<1>2. /\ h \in Connections /\ HandlerStep(h) /\ panel' = panel /\ posted' = posted
      /\ \A j \in Connections : j # h => stream'[j] = stream[j]
  BY <1>1, ServeFields DEF Serve
<1>3. /\ pc[h] # "idle" /\ pc[h] # "abort" /\ pc'[h] # "abort"
      /\ stream[h].reading /\ ~stream[h].aborted /\ ~stream[h].sent
  <2>1. pc[h] # "idle"
    BY <1>2, IdleDoesNothing
  <2>2. stream[h].reading /\ ~stream[h].aborted /\ pc[h] # "abort"
    BY <2>1 DEF Going, Served
  <2>3. ~stream[h].sent
    BY <1>2, <2>1, PanelAssumption DEF PanelInv, StreamInv, Busy
  <2> QED BY <1>1, <1>2, <2>1, <2>2, <2>3, NoStepAborts
<1>4. /\ stream'[h].reading /\ stream'[h].call = stream[h].call /\ ~stream'[h].sent
      /\ ~stream'[h].aborted /\ stream'[h].end = Ends(h)
      /\ \A e : Holds(stream[h].queue, e) \/ Holds(Said(h), e) => Holds(stream'[h].queue, e)
  BY <1>1, <1>3, ServeFields
<1>5. \A g \in Handlers : g # h => pc'[g] = pc[g] /\ local'[g] = local[g]
  BY <1>1, <1>2, OthersStay
<1>6. pc'[h] # "idle" \/ pc[h] \notin {"activate", "claim"} => \A g \in Handlers : Served(g)'
  BY <1>2, <1>3, <1>4, <1>5 DEF Going, Served, Ends, Connections
<1>7. \A g \in Handlers, c \in Calls : Flying(g, c)' => Flying(g, c)
  <2>1. \A g \in Handlers : pc'[g] \in {"claim", "expire"} =>
            pc[g] = pc'[g] /\ local'[g] = local[g]
    BY <1>1, <1>2, DecidingStays DEF DecidePoints
  <2>2. \A g \in Handlers : stream'[g].sent => stream'[g] = stream[g]
    BY <1>2, <1>4 DEF Connections
  <2> QED BY <2>1, <2>2 DEF Flying
<1>8. \A c \in Calls : InHand(c)' => InHand(c)
  BY <1>1, ServeMoves
<1>9. \A k \in Connections, c \in Calls :
          /\ Queued(k, c)' => Queued(k, c) \/ (k = h /\ Propose(h) /\ c = local[h].call)
          /\ stream[k].reading /\ Queued(k, c) => stream'[k].reading /\ Queued(k, c)'
          /\ stream'[k].reading => stream[k].reading
  <2> SUFFICES ASSUME NEW k \in Connections, NEW c \in Calls
               PROVE  /\ Queued(k, c)' =>
                            Queued(k, c) \/ (k = h /\ Propose(h) /\ c = local[h].call)
                      /\ stream[k].reading /\ Queued(k, c) =>
                            stream'[k].reading /\ Queued(k, c)'
                      /\ stream'[k].reading => stream[k].reading
    OBVIOUS
  <2>1. CASE k = h
    BY <1>1, <1>3, <1>4, <2>1, ServeMoves DEF Queued
  <2>2. CASE k # h
    BY <1>2, <2>2 DEF Queued
  <2> QED BY <2>1, <2>2
<1>10. run'.status # "none"
  <2>1. run.status # "none"
    BY <1>1, <1>3 DEF StartedOnce
  <2>2. [Next]_vars
    BY <1>2 DEF Next
  <2> QED BY <1>1, <2>1, <2>2, StatusKept
<1>11. CASE run.status # "waiting_for_approval" /\ ~Propose(h)
  <2>1. run'.status # "waiting_for_approval"
    BY <1>1, <1>2, <1>11, WaitingByProposal
  <2>2. \A c \in Calls : ~OnTheWay(c)
    BY <1>11 DEF Going, Carried
  <2>3. \A c \in Calls : ~OnTheWay(c)'
    BY <1>2, <1>7, <1>9, <1>11, <2>2 DEF OnTheWay
  <2>4. Carried'
    BY <2>1, <2>3 DEF Carried, OnTheWay
  <2>5. pc[h] # "claim"
    <3>1. pc[h] = "claim" => local[h].call \in Calls /\ Flying(h, local[h].call)
      BY <1>1 DEF TypeInv, DecidePointsNameCall, DecidePoints, Flying
    <3> QED BY <2>2, <3>1 DEF OnTheWay
  <2>6. pc[h] = "activate" /\ pc'[h] = "idle" => Stuck'
    BY <1>1, <1>5, <1>10, <2>1 DEF Stuck, WorkInv, WorkPoints, Resuming, SegmentPoints
  <2>7. Left'
    BY <1>2, <2>3, NothingLeft
  <2> QED BY <1>2, <1>6, <2>4, <2>5, <2>6, <2>7 DEF Going
<1>12. CASE Propose(h)
  <2>0. PICK c \in Calls : c = local[h].call
    BY <1>1, <1>12 DEF Propose, TypeInv, DecidePointsNameCall
  <2>1. /\ run.status # "waiting_for_approval" /\ run'.status = "waiting_for_approval"
        /\ pc[h] = "propose" /\ pc'[h] = "closing" /\ calls' = calls
        /\ cached'[h].status = "waiting_for_approval"
    <3>1. pc \in [Handlers -> Points] /\ cached \in [Handlers -> Rows] /\ cached[h] \in Rows
      BY <1>1 DEF TypeInv, TypeOK
    <3>2. cached'[h].status = "waiting_for_approval"
      BY <1>12, <3>1 DEF Propose, Save, Rows
    <3>3. pc[h] = "propose" /\ pc'[h] = "closing" /\ calls' = calls
      BY <1>1, <1>12, <3>1 DEF Propose, Goto
    <3> QED BY <1>1, <1>12, <3>2, <3>3, ProposeWaits
  <2>2. \A d \in Calls : ~OnTheWay(d)
    BY <2>1 DEF Going, Carried
  <2>3. calls'[c].state = "pending"
    BY <2>0, <2>1 DEF OfferInv, ProposedInv, Untouched
  <2>4. Queued(h, c)'
    <3>1. Said(h) = <<Proposal(c), Event("done")>>
      BY <2>0, <2>1 DEF Said
    <3>2. Said(h)[1] = Proposal(c) /\ Len(Said(h)) = 2
      BY <3>1
    <3>3. Holds(Said(h), Proposal(c))
      BY <3>2 DEF Holds
    <3> QED BY <1>4, <3>3 DEF Queued
  <2>5. \A d \in Calls : OnTheWay(d)' <=> d = c
    <3>1. OnTheWay(c)'
      BY <1>2, <1>4, <2>4 DEF OnTheWay
    <3>2. \A d \in Calls : OnTheWay(d)' => d = c
      BY <1>2, <1>7, <1>9, <2>0, <2>2 DEF OnTheWay
    <3> QED BY <3>1, <3>2
  <2>6. \A g \in Handlers, d \in Calls : ~Flying(g, d)'
    BY <1>7, <2>2 DEF OnTheWay
  <2>7. \A d \in Calls : panel'.proposal # d
    BY <1>2, <2>2 DEF OnTheWay
  <2>8. Carried'
    BY <2>1, <2>3, <2>5, <2>6, <2>7 DEF Carried
  <2> QED BY <1>2, <1>6, <2>1, <2>8 DEF Going
<1>13. CASE run.status = "waiting_for_approval"
  <2>1. \A c \in Calls : OnTheWay(c) => calls[c].state = "pending"
    BY DEF Going, Carried
  <2>2. ~ClaimConflict(h)
    <3> SUFFICES ASSUME ClaimConflict(h) PROVE FALSE
      OBVIOUS
    <3>1. pc[h] = "claim" /\ ~Claimable(h) /\ local[h].call \in Calls
      BY <1>1 DEF ClaimConflict, TypeInv, DecidePointsNameCall, DecidePoints
    <3>2. OnTheWay(local[h].call)
      BY <3>1 DEF OnTheWay, Flying
    <3> QED BY <1>13, <2>1, <3>1, <3>2 DEF Claimable
  <2>3. CASE ExpireRun(h) /\ run'.status = "timed_out" /\ pc'[h] = "idle"
    <3>1. \A g \in Handlers : pc'[g] \notin WorkPoints
      BY <1>1, <1>5, <1>13, <2>3
         DEF WorkInv, Working, WorkPoints, SegmentPoints, Resuming
    <3>2. PICK c \in Calls : c = local[h].call /\ pc[h] = "expire"
      BY <1>1, <2>3 DEF ExpireRun, TypeInv, DecidePointsNameCall, DecidePoints
    <3>3. Flying(h, c) /\ InHand(c)
      BY <3>2 DEF Flying, InHand, Deciding, DecidePoints
    <3>4. \A d \in Calls : OnTheWay(d) => d = c
      BY <1>1, <2>1, <3>3 DEF OnePending, OnTheWay
    <3>5. panel.proposal # c /\ \A k \in Connections : ~Queued(k, c)
      BY <3>3 DEF Going, Carried, OfferInv, QueuedInv, Untouched
    <3>6. panel.proposal = NoCall
      <4>1. panel.proposal \in Ids
        BY DEF PanelInv, PanelTypeOK, Panels
      <4> QED BY <3>4, <3>5, <4>1 DEF OnTheWay, Ids
    <3>7. ~Propose(h)
      BY <3>2 DEF Propose
    <3>8. \A k \in Connections, d \in Calls : stream'[k].reading => ~Queued(k, d)'
      BY <1>9, <3>4, <3>5, <3>7 DEF OnTheWay
    <3> QED BY <1>2, <2>3, <3>1, <3>6, <3>8 DEF Stuck, Left
  <2>4. CASE Close(h) /\ run'.status = run.status /\ calls' = calls /\ pc'[h] = "idle"
    <3>1. pc[h] = "closing"
      BY <2>4 DEF Close
    <3>2. \A g \in Handlers, c \in Calls : Flying(g, c)' <=> Flying(g, c)
      BY <1>2, <1>3, <1>5, <1>7, <3>1 DEF Flying, Connections
    <3>3. ~Propose(h)
      BY <3>1 DEF Propose
    <3>4. \A c \in Calls : OnTheWay(c)' <=> OnTheWay(c)
      BY <1>2, <1>9, <3>2, <3>3 DEF OnTheWay
    <3>5. Carried'
      BY <1>2, <1>8, <2>4, <3>2, <3>4, CarriedFrame DEF Going, Carried
    <3> QED BY <1>2, <1>6, <3>1, <3>5 DEF Going
  <2>5. CASE Claim(h)
    <3> DEFINE c == local[h].call
    <3>1. /\ pc[h] = "claim" /\ pc'[h] = "refresh" /\ run'.status = "resuming" /\ c \in Calls
          /\ calls[c].state = "pending"
      BY <1>1, <2>5 DEF Claim, Claimable, Goto, TypeInv, TypeOK, DecidePointsNameCall,
         DecidePoints, Rows
    <3>2. Flying(h, c) /\ InHand(c)
      BY <3>1 DEF Flying, InHand, Deciding, DecidePoints
    <3>3. \A d \in Calls : OnTheWay(d) => d = c
      BY <1>1, <2>1, <3>1 DEF OnePending
    <3>4. /\ panel.proposal # c /\ \A k \in Connections : ~Queued(k, c)
          /\ \A g \in Handlers : Flying(g, c) => g = h
      BY <3>1, <3>2 DEF Going, Carried, OfferInv, QueuedInv, Untouched
    <3>5. ~Propose(h) /\ \A d \in Calls : ~Flying(h, d)'
      BY <1>4, <3>1 DEF Propose, Flying
    <3> HIDE DEF c
    <3>6. \A g \in Handlers, d \in Calls : ~Flying(g, d)'
      <4> SUFFICES ASSUME NEW g \in Handlers, NEW d \in Calls, Flying(g, d)' PROVE FALSE
        OBVIOUS
      <4>1. Flying(g, d) /\ OnTheWay(d)
        BY <1>7 DEF OnTheWay
      <4> QED BY <3>3, <3>4, <3>5, <4>1
    <3>7. \A d \in Calls : ~OnTheWay(d)'
      <4> SUFFICES ASSUME NEW d \in Calls, OnTheWay(d)' PROVE FALSE
        OBVIOUS
      <4>1. panel.proposal = d \/ \E k \in Connections : stream[k].reading /\ Queued(k, d)
        BY <1>2, <1>9, <3>5, <3>6 DEF OnTheWay
      <4>2. d = c
        BY <3>3, <4>1 DEF OnTheWay
      <4> QED BY <3>4, <4>1, <4>2
    <3>8. Carried'
      BY <3>1, <3>7 DEF Carried, OnTheWay
    <3> QED BY <1>2, <1>6, <3>1, <3>8 DEF Going
  <2> QED BY <1>1, <1>2, <1>3, <1>13, <2>2, <2>3, <2>4, <2>5, StepWhileWaiting
<1> QED BY <1>11, <1>12, <1>13

(* Nothing else happens to the run while the panel listens.                *)
LEMMA RestGoes ==
    ASSUME PanelInv, ElsewhereInv, Going,
           \/ TakeUpCancel \/ OtherRun
           \/ \E h \in Handlers : NoticeAbort(h)
           \/ \E k \in Connections : Vanish(k)
    PROVE  Going'
<1>1. ~TakeUpCancel /\ \A h \in Handlers : ~NoticeAbort(h) /\ ~Vanish(h)
  BY DEF TakeUpCancel, NoticeAbort, Vanish, Going, Served
<1>2. OtherRun \/ Vanish(Elsewhere)
  BY <1>1 DEF Connections
<1>3. /\ run' = run /\ calls' = calls /\ pc' = pc /\ local' = local /\ posted' = posted
      /\ panel' = panel
  BY <1>2 DEF OtherRun, Vanish, vars
<1>4. /\ \A j \in Connections : j # Elsewhere => stream'[j] = stream[j]
      /\ stream'[Elsewhere].call = stream[Elsewhere].call \/ stream'[Elsewhere].call = NoCall
      /\ \A c \in Calls : ~Queued(Elsewhere, c)'
  <2>1. CASE OtherRun
    BY <2>1, OtherRunSays DEF ElsewhereInv, Queued
  <2>2. CASE Vanish(Elsewhere)
    <3>1. /\ stream'[Elsewhere] = NoStream
          /\ \A j \in Connections : j # Elsewhere => stream'[j] = stream[j]
      BY <2>2 DEF Vanish, PanelInv, PanelTypeOK, Connections
    <3> QED BY <3>1, NothingHeld DEF NoStream, Queued
  <2> QED BY <1>2, <2>1, <2>2
<1>5. \A h \in Handlers : h \in Connections /\ h # Elsewhere
  BY PanelAssumption DEF Connections
<1>6. \A g \in Handlers, c \in Calls : Flying(g, c)' <=> Flying(g, c)
  BY <1>3, <1>4, <1>5 DEF Flying
<1>7. \A c \in Calls : OnTheWay(c)' <=> OnTheWay(c)
  <2>1. \A j \in Connections, c \in Calls :
            stream'[j].reading /\ Queued(j, c)' <=> stream[j].reading /\ Queued(j, c)
    BY <1>4 DEF ElsewhereInv, Queued
  <2> QED BY <1>3, <1>6, <2>1 DEF OnTheWay
<1>8. \A c \in Calls : InHand(c)' => InHand(c)
  <2>1. \A j \in Connections : stream'[j].call = stream[j].call \/ stream'[j].call = NoCall
    BY <1>4
  <2> QED BY <1>3, <2>1, InHandStays
<1>9. Carried'
  BY <1>3, <1>6, <1>7, <1>8, CarriedFrame DEF Going, Carried
<1>10. \A h \in Handlers : Served(h)'
  BY <1>3, <1>4, <1>5 DEF Going, Served
<1> QED BY <1>3, <1>9, <1>10 DEF Going

-----------------------------------------------------------------------------
(* The question answered elsewhere, and the panel before the run           *)

LEMMA ElsewhereFrame ==
    ASSUME ElsewhereInv,
           stream'[Elsewhere].call = stream[Elsewhere].call
              \/ stream'[Elsewhere].call = NoCall,
           stream'[Elsewhere].end = "broken" => stream[Elsewhere].end = "broken",
           \A k \in Connections, c \in Ids :
              Queued(k, c)' => Queued(k, c) \/ (k \in Handlers /\ c \in Calls)
    PROVE  ElsewhereInv'
<1>1. Elsewhere \in Connections /\ Elsewhere \notin Handlers /\ NoCall \notin Calls
  BY NamesAssumption, PanelAssumption DEF Connections
<1>2. \A c \in Calls : ~Queued(Elsewhere, c)'
  BY <1>1 DEF ElsewhereInv, Ids
<1>3. \A k \in Connections : ~Queued(k, NoCall)'
  BY <1>1 DEF ElsewhereInv, Ids
<1> QED BY <1>2, <1>3 DEF ElsewhereInv

PlaceInv == BeforeRun /\ ElsewhereInv /\ AskedInv

(* A step of the run for a stream other than that of the question          *)
(* elsewhere.                                                              *)
LEMMA HandlerKeepsPlace ==
    ASSUME RunInv, PanelInv, PlaceInv, NEW h \in Handlers, Server(h) \/ NoticeAbort(h)
    PROVE  PlaceInv'
<1>1. TypeInv /\ StartedOnce /\ h \in Connections /\ h # Elsewhere
  BY PanelAssumption DEF RunInv, Connections
<1>2. panel' = panel /\ question' = question
  BY DEF Server, Serve, TakeUpQuestion, TakeUpDecision, RefuseDecision, NoticeAbort
<1>3. /\ \A j \in Connections : j # h => stream'[j] = stream[j]
      /\ \A c \in Ids : Queued(h, c)' => Queued(h, c) \/ c \in Calls
  <2>1. CASE Serve(h)
    <3>1. ASSUME NEW c \in Ids, Queued(h, c)' PROVE Queued(h, c) \/ c \in Calls
      <4>1. Holds(stream[h].queue, Proposal(c)) \/ Holds(Said(h), Proposal(c))
        BY <1>1, <2>1, <3>1, ServeFields DEF Queued
      <4>2. Holds(Said(h), Proposal(c)) => Propose(h) /\ c = local[h].call
        BY <1>1, <2>1, SaidProposal DEF Serve
      <4>3. Propose(h) => local[h].call \in Calls
        BY <1>1 DEF Propose, TypeInv, DecidePointsNameCall
      <4> QED BY <4>1, <4>2, <4>3 DEF Queued
    <3> QED BY <1>1, <2>1, <3>1, ServeFields
  <2>2. CASE TakeUpQuestion(h) \/ TakeUpDecision(h) \/ RefuseDecision(h)
    <3>1. PICK said \in Seq(Events), end \in {"open", "eof", "broken"} :
              TakenUp(h, said, end) /\ \A c : ~Holds(said, Proposal(c))
      BY <2>2, TakeUpFields
    <3> QED BY <1>1, <3>1, TakenUpSays DEF Queued
  <2>3. CASE NoticeAbort(h)
    <3>1. /\ stream' = [stream EXCEPT ![h] = Released(stream[h], pc'[h] # "idle")]
          /\ stream \in [Connections -> Streams]
      BY <2>3 DEF NoticeAbort, PanelInv, PanelTypeOK
    <3>2. stream'[h] = stream[h] \/ stream'[h] = NoStream
      BY <1>1, <3>1 DEF Released
    <3>3. \A c \in Ids : Queued(h, c)' => Queued(h, c)
      BY <3>2, NothingHeld DEF Queued, NoStream
    <3> QED BY <1>1, <3>1, <3>3
  <2> QED BY <2>1, <2>2, <2>3 DEF Server
<1>4. ElsewhereInv'
  <2>1. stream'[Elsewhere] = stream[Elsewhere]
    BY <1>1, <1>3 DEF Connections
  <2>2. ASSUME NEW k \in Connections, NEW c \in Ids, Queued(k, c)'
        PROVE  Queued(k, c) \/ (k \in Handlers /\ c \in Calls)
    <3>1. CASE k = h
      BY <1>3, <2>2, <3>1
    <3>2. CASE k # h
      BY <1>3, <2>2, <3>2 DEF Queued
    <3> QED BY <3>1, <3>2
  <2> QED BY <2>1, <2>2, ElsewhereFrame DEF PlaceInv
<1>5. question # 0
  <2> SUFFICES ASSUME question = 0 PROVE FALSE
    OBVIOUS
  <2>1. stream[h] = NoStream /\ pc[h] = "idle"
    BY <1>1 DEF PlaceInv, BeforeRun, StartedOnce
  <2> QED BY <2>1, IdleDoesNothing DEF Server, Serve, TakeUpQuestion, TakeUpDecision,
             RefuseDecision, NoticeAbort, NoStream
<1> QED BY <1>2, <1>4, <1>5 DEF PlaceInv, BeforeRun, AskedInv

LEMMA UserKeepsPlace ==
    ASSUME RunInv, PanelInv, PlaceInv, User
    PROVE  PlaceInv'
<1>a. StartedOnce /\ Elsewhere \in Connections /\ Elsewhere \notin Handlers
      /\ panel.asked \in Nat /\ question \in Nat /\ question <= panel.asked
  BY PanelAssumption DEF RunInv, Connections, PanelInv, PanelTypeOK, Panels, PlaceInv, AskedInv
<1>1. ASSUME NEW k \in Connections, Submit(k) PROVE PlaceInv'
  <2>1. /\ UNCHANGED <<vars, posted, elsewhere>>
        /\ \A j \in Connections : j # k => stream'[j] = stream[j]
        /\ stream'[k].call = NoCall /\ stream'[k].queue = <<>> /\ stream'[k].end = "open"
        /\ panel'.asked = panel.asked + 1 /\ panel'.proposal = NoCall
        /\ IF k = Elsewhere THEN question' = question
           ELSE question = 0 /\ question' = panel.asked + 1
    BY <1>1, SubmitFields
  <2>2. ASSUME NEW j \in Connections, NEW c \in Ids, Queued(j, c)' PROVE Queued(j, c)
    <3>1. CASE j = k
      BY <2>1, <2>2, <3>1, NothingHeld DEF Queued
    <3>2. CASE j # k
      BY <2>1, <2>2, <3>2 DEF Queued
    <3> QED BY <3>1, <3>2
  <2>3. ElsewhereInv'
    <3>1. CASE k = Elsewhere
      BY <2>1, <2>2, <3>1, ElsewhereFrame DEF PlaceInv
    <3>2. CASE k # Elsewhere
      BY <1>a, <2>1, <2>2, <3>2, ElsewhereFrame DEF PlaceInv
    <3> QED BY <3>1, <3>2
  <2>4. AskedInv'
    BY <1>a, <2>1 DEF AskedInv
  <2>5. BeforeRun'
    <3>1. CASE k = Elsewhere
      BY <1>a, <2>1, <3>1 DEF PlaceInv, BeforeRun, vars, Connections
    <3>2. CASE k # Elsewhere
      BY <1>a, <2>1, <3>2 DEF BeforeRun
    <3> QED BY <3>1, <3>2
  <2> QED BY <2>3, <2>4, <2>5 DEF PlaceInv
<1>2. ASSUME CancelRequest PROVE PlaceInv'
  <2>1. /\ UNCHANGED <<vars, question, elsewhere>>
        /\ panel'.proposal = panel.proposal /\ panel'.asked = panel.asked
        /\ posted' => posted \/ question # 0
        /\ \A j \in Connections :
              /\ stream'[j].call = stream[j].call \/ stream'[j].call = NoCall
              /\ \A e : Holds(stream'[j].queue, e) => Holds(stream[j].queue, e)
              /\ stream'[j].end = "broken" => stream[j].end = "broken"
              /\ stream[j] = NoStream /\ ~Busy(j) => stream'[j] = NoStream
    BY <1>2, CancelFields
  <2>2. ElsewhereInv'
    BY <1>a, <2>1, ElsewhereFrame DEF PlaceInv, Queued
  <2>3. BeforeRun'
    <3>1. question = 0 => \A h \in Handlers : h \in Connections /\ ~Busy(h)
      BY <1>a DEF PlaceInv, BeforeRun, StartedOnce, Busy, Connections
    <3> QED BY <2>1, <3>1 DEF PlaceInv, BeforeRun, vars
  <2> QED BY <2>1, <2>2, <2>3 DEF PlaceInv, AskedInv
<1>3. ASSUME NEW h \in Handlers, NEW decision \in Decisions, DecideProposal(h, decision)
      PROVE  PlaceInv'
  <2>1. /\ question' = question /\ panel'.asked = panel.asked
        /\ \A j \in Connections : j # h => stream'[j] = stream[j]
        /\ stream'[h].queue = <<>> /\ panel.proposal # NoCall
    BY <1>3, DecideFields, NamesAssumption
  <2>2. ASSUME NEW j \in Connections, NEW c \in Ids, Queued(j, c)' PROVE Queued(j, c)
    <3>1. CASE j = h
      BY <2>1, <2>2, <3>1, NothingHeld DEF Queued
    <3>2. CASE j # h
      BY <2>1, <2>2, <3>2 DEF Queued
    <3> QED BY <3>1, <3>2
  <2>3. ElsewhereInv'
    BY <1>a, <2>1, <2>2, ElsewhereFrame DEF PlaceInv
  <2>4. question # 0
    BY <2>1 DEF PlaceInv, BeforeRun
  <2> QED BY <2>1, <2>3, <2>4 DEF PlaceInv, BeforeRun, AskedInv
<1> QED BY <1>1, <1>2, <1>3 DEF User

LEMMA PanelKeepsPlace ==
    ASSUME RunInv, PanelInv, PlaceInv, PanelStep
    PROVE  PlaceInv'
<1>1. PICK k \in Connections : HandleEvent(k) \/ StreamEnds(k)
  BY DEF PanelStep
<1>2. /\ UNCHANGED <<vars, question, posted, elsewhere>>
      /\ \A j \in Connections : j # k => stream'[j] = stream[j]
      /\ stream[k].reading /\ panel'.asked = panel.asked
      /\ stream'[k].call = stream[k].call \/ stream'[k].call = NoCall
      /\ stream'[k].end = "broken" => stream[k].end = "broken"
      /\ \A e : Holds(stream'[k].queue, e) => Holds(stream[k].queue, e)
  <2>1. CASE HandleEvent(k)
    BY <2>1, EventFields
  <2>2. CASE StreamEnds(k)
    <3>1. stream[k] \in Streams
      BY DEF PanelInv, PanelTypeOK
    <3>2. stream'[k] = NoStream \/ stream'[k] = [stream[k] EXCEPT !.reading = FALSE]
      BY <2>2, EndFields
    <3>3. stream'[k].end = "broken" => stream[k].end = "broken"
      BY <3>1, <3>2 DEF NoStream, Streams
    <3>4. \A e : Holds(stream'[k].queue, e) => Holds(stream[k].queue, e)
      BY <2>2, EndFields, NothingHeld
    <3> QED BY <2>2, <3>3, <3>4, EndFields
  <2> QED BY <1>1, <2>1, <2>2
<1>3. ASSUME NEW j \in Connections
      PROVE  /\ \A c \in Ids : Queued(j, c)' => Queued(j, c)
             /\ stream'[j].call = stream[j].call \/ stream'[j].call = NoCall
             /\ stream'[j].end = "broken" => stream[j].end = "broken"
  <2>1. CASE j = k
    BY <1>2, <2>1 DEF Queued
  <2>2. CASE j # k
    BY <1>2, <2>2 DEF Queued
  <2> QED BY <2>1, <2>2
<1>4. ElsewhereInv'
  <2>1. Elsewhere \in Connections
    BY DEF Connections
  <2> QED BY <1>3, <2>1, ElsewhereFrame DEF PlaceInv
<1>5. BeforeRun'
  <2> SUFFICES ASSUME question = 0 PROVE BeforeRun'
    BY <1>2 DEF BeforeRun
  <2>1. \A h \in Handlers : stream[h] = NoStream
    BY DEF PlaceInv, BeforeRun
  <2>2. k = Elsewhere
    BY <1>2, <2>1 DEF Connections, NoStream
  <2>3. panel'.proposal = panel.proposal
    <3>1. \A c \in Ids : ~Queued(k, c)
      BY <2>2 DEF PlaceInv, ElsewhereInv, Ids, Connections
    <3>2. CASE HandleEvent(k)
      BY <3>1, <3>2, EventFields
    <3>3. CASE StreamEnds(k)
      BY <2>2, <3>3, EndFields DEF PlaceInv, ElsewhereInv
    <3> QED BY <1>1, <3>2, <3>3
  <2>4. \A h \in Handlers : stream'[h] = stream[h]
    BY <1>2, <2>2, PanelAssumption DEF Connections
  <2> QED BY <1>2, <2>3, <2>4 DEF PlaceInv, BeforeRun, vars
<1> QED BY <1>2, <1>4, <1>5 DEF PlaceInv, AskedInv

LEMMA QuietKeepsPlace ==
    ASSUME RunInv, PanelInv, PlaceInv,
           TakeUpCancel \/ OtherRun \/ \E k \in Connections : Vanish(k)
    PROVE  PlaceInv'
<1>1. panel' = panel /\ question' = question
  BY DEF TakeUpCancel, OtherRun, Vanish
<1>2. CASE TakeUpCancel
  <2>1. stream' = stream /\ question # 0
    BY <1>2 DEF TakeUpCancel, PlaceInv, BeforeRun
  <2>2. \A k \in Connections, c \in Ids : Queued(k, c)' => Queued(k, c)
    BY <2>1 DEF Queued
  <2> QED BY <1>1, <2>1, <2>2, ElsewhereFrame DEF PlaceInv, BeforeRun, AskedInv
<1>3. CASE OtherRun
  <2>1. /\ \A j \in Connections : j # Elsewhere => stream'[j] = stream[j]
        /\ stream'[Elsewhere].call = stream[Elsewhere].call
              \/ stream'[Elsewhere].call = NoCall
        /\ \A c : Holds(stream'[Elsewhere].queue, Proposal(c)) =>
                   Holds(stream[Elsewhere].queue, Proposal(c))
        /\ stream'[Elsewhere].end # "broken" \/ stream[Elsewhere].end = "broken"
    BY <1>3, OtherRunSays
  <2>2. \A k \in Connections, c \in Ids : Queued(k, c)' => Queued(k, c)
    BY <2>1 DEF Queued
  <2>3. ElsewhereInv'
    BY <2>1, <2>2, ElsewhereFrame DEF PlaceInv
  <2>4. run' = run /\ posted' = posted /\ \A h \in Handlers : stream'[h] = stream[h]
    BY <1>3, <2>1, PanelAssumption DEF OtherRun, vars, Connections
  <2> QED BY <1>1, <2>3, <2>4 DEF PlaceInv, BeforeRun, AskedInv
<1>4. ASSUME NEW k \in Connections, Vanish(k) PROVE PlaceInv'
  <2>1. /\ run' = run /\ posted' = posted /\ stream'[k] = NoStream
        /\ \A j \in Connections : j # k => stream'[j] = stream[j]
    BY <1>4 DEF Vanish, vars, PanelInv, PanelTypeOK
  <2>2. \A j \in Connections : stream'[j] = stream[j] \/ stream'[j] = NoStream
    BY <2>1
  <2>3. \A j \in Connections, c \in Ids : Queued(j, c)' => Queued(j, c)
    BY <2>2, NothingHeld DEF Queued, NoStream
  <2>4. ElsewhereInv'
    <3>1. NoStream.call = NoCall /\ NoStream.end = "open" /\ Elsewhere \in Connections
      BY DEF NoStream, Connections
    <3> QED BY <2>2, <2>3, <3>1, ElsewhereFrame DEF PlaceInv
  <2> QED BY <1>1, <2>1, <2>2, <2>4 DEF PlaceInv, BeforeRun, AskedInv, Connections
<1> QED BY <1>2, <1>3, <1>4

LEMMA PlaceStep ==
    ASSUME RunInv, PanelInv, PlaceInv, [AssistantNext]_allVars
    PROVE  PlaceInv'
<1>1. CASE UNCHANGED allVars
  <2>1. run' = run /\ panel' = panel /\ stream' = stream /\ question' = question
        /\ posted' = posted
    BY <1>1 DEF allVars, vars, panelVars
  <2>2. \A k \in Connections, c \in Ids : Queued(k, c)' => Queued(k, c)
    BY <2>1 DEF Queued
  <2> QED BY <2>1, <2>2, ElsewhereFrame DEF PlaceInv, BeforeRun, AskedInv
<1> QED BY <1>1, HandlerKeepsPlace, UserKeepsPlace, PanelKeepsPlace, QuietKeepsPlace
        DEF AssistantNext

-----------------------------------------------------------------------------
(* Without a proposal being made none comes to a stream that is read.      *)
LEMMA NoneComes ==
    ASSUME RunInv, PanelInv, ElsewhereInv, Left, NEW h \in Handlers, ~Propose(h),
           Server(h) \/ NoticeAbort(h)
    PROVE  Left'
<1>1. panel' = panel /\ h \in Connections
  BY DEF Server, Serve, TakeUpQuestion, TakeUpDecision, RefuseDecision, NoticeAbort,
     Connections
<1>2. ASSUME \A k \in Connections, c \in Calls :
                 /\ Queued(k, c)' => Queued(k, c)
                 /\ stream'[k].reading => stream[k].reading
      PROVE  Left'
  BY <1>1, <1>2 DEF Left
<1>3. CASE Serve(h)
  BY <1>2, <1>3, ServeFields, ServeMoves DEF RunInv
<1>4. CASE TakeUpQuestion(h) \/ TakeUpDecision(h) \/ RefuseDecision(h)
  <2>1. PICK said \in Seq(Events), end \in {"open", "eof", "broken"} :
            TakenUp(h, said, end) /\ \A c : ~Holds(said, Proposal(c))
    BY <1>4, TakeUpFields
  <2> QED BY <1>1, <1>2, <2>1, TakenUpSays DEF Queued
<1>5. CASE NoticeAbort(h)
  <2>1. stream \in [Connections -> Streams]
        /\ stream' = [stream EXCEPT ![h] = Released(stream[h], pc'[h] # "idle")]
    BY <1>5 DEF NoticeAbort, PanelInv, PanelTypeOK
  <2>2. stream'[h] = stream[h] \/ stream'[h] = NoStream
    BY <1>1, <2>1 DEF Released
  <2> QED BY <1>1, <1>2, <2>1, <2>2, NothingHeld DEF Queued, NoStream
<1> QED BY <1>3, <1>4, <1>5 DEF Server

LEMMA QuietLeaves ==
    ASSUME PanelInv, ElsewhereInv, Left,
           TakeUpCancel \/ OtherRun \/ \E k \in Connections : Vanish(k)
    PROVE  Left'
<1>1. panel' = panel
  BY DEF TakeUpCancel, OtherRun, Vanish
<1>2. ASSUME \A j \in Connections : stream'[j] = stream[j] \/ stream'[j] = NoStream
      PROVE  Left'
  BY <1>1, <1>2, NothingHeld DEF Left, Queued, NoStream
<1>3. CASE TakeUpCancel
  BY <1>2, <1>3 DEF TakeUpCancel
<1>4. ASSUME NEW k \in Connections, Vanish(k) PROVE Left'
  BY <1>2, <1>4 DEF Vanish, PanelInv, PanelTypeOK
<1>5. CASE OtherRun
  <2>1. /\ \A j \in Connections : j # Elsewhere => stream'[j] = stream[j]
        /\ \A c \in Calls : ~Queued(Elsewhere, c)'
    BY <1>5, OtherRunSays DEF ElsewhereInv, Queued
  <2> QED BY <1>1, <2>1 DEF Left, Queued
<1> QED BY <1>3, <1>4, <1>5

(* Once nobody will work on the run, what the panel offers stays beside an *)
(* error.                                                                  *)
LEMMA LeftStays ==
    ASSUME RunInv, PanelInv, PlaceInv, Stuck, Left, question # 0, Window',
           [AssistantNext]_allVars
    PROVE  Left'
<1>1. CASE UNCHANGED allVars
  BY <1>1 DEF Left, Queued, allVars, panelVars
<1>2. \A h \in Handlers : ~Propose(h)
  BY DEF Propose, Stuck, WorkPoints, SegmentPoints
<1>3. ASSUME NEW h \in Handlers, Server(h) \/ NoticeAbort(h) PROVE Left'
  BY <1>2, <1>3, NoneComes DEF PlaceInv
<1>4. CASE TakeUpCancel \/ OtherRun \/ \E k \in Connections : Vanish(k)
  BY <1>4, QuietLeaves DEF PlaceInv
<1>5. ASSUME NEW k \in Connections, HandleEvent(k) PROVE Left'
  <2>1. /\ \A j \in Connections : j # k => stream'[j] = stream[j]
        /\ stream[k].reading
        /\ \A e : Holds(stream'[k].queue, e) => Holds(stream[k].queue, e)
        /\ \/ panel'.proposal = panel.proposal
           \/ \E c \in Ids : panel'.proposal = c /\ Queued(k, c)
        /\ panel.error => panel'.error
    BY <1>5, EventFields
  <2>2. panel'.proposal = panel.proposal
    BY <2>1 DEF Left, PlaceInv, ElsewhereInv, Ids
  <2> QED BY <2>1, <2>2 DEF Left, Queued
<1>6. ASSUME NEW k \in Connections, StreamEnds(k) PROVE Left'
  <2>1. /\ \A j \in Connections : j # k => stream'[j] = stream[j]
        /\ ~stream'[k].reading /\ (panel.error => panel'.error)
        /\ panel'.proposal = panel.proposal \/ panel'.error
    BY <1>6, EndFields
  <2> QED BY <2>1 DEF Left, Queued
<1>7. ASSUME NEW k \in Connections, Submit(k) PROVE FALSE
  <2>1. question' = question /\ panel'.asked = panel.asked + 1
    BY <1>7, SubmitFields
  <2>2. question \in Nat /\ panel.asked \in Nat /\ question <= panel.asked
    BY DEF PanelInv, PanelTypeOK, Panels, PlaceInv, AskedInv
  <2> QED BY <2>1, <2>2 DEF Window
<1>8. ASSUME NEW h \in Handlers, NEW decision \in Decisions, DecideProposal(h, decision)
      PROVE  Left'
  <2>1. /\ \A j \in Connections : j # h => stream'[j] = stream[j]
        /\ stream'[h].queue = <<>> /\ panel'.proposal = NoCall
    BY <1>8, DecideFields
  <2> QED BY <2>1, NothingHeld DEF Left, Queued
<1>9. ~CancelRequest
  BY CancelFields DEF Window
<1> QED BY <1>1, <1>3, <1>4, <1>5, <1>6, <1>7, <1>8, <1>9
        DEF AssistantNext, User, PanelStep

(* While the panel listens to a run that can still go on, its proposal is  *)
(* under way whenever it waits.                                            *)
LEMMA WindowStep ==
    ASSUME RunInv, StatusInv, PanelInv, OfferInv, PlaceInv, WindowInv,
           [AssistantNext]_allVars
    PROVE  WindowInv'
<1> SUFFICES ASSUME Window' PROVE Going' \/ (Stuck' /\ Left')
  BY DEF WindowInv
<1>1. CASE Window /\ Stuck /\ Left
  <2>1. RunStep
    BY PanelStepsRun DEF PanelInv, RunStep, allVars
  <2> QED BY <1>1, <2>1, StuckStays, LeftStays DEF Window
<1>2. CASE ~(Window /\ Stuck /\ Left)
  <2>1. Window => Going
    BY <1>2 DEF WindowInv
  <2>2. CASE UNCHANGED allVars
    BY <2>1, <2>2 DEF Window, Going, Served, Carried, OnTheWay, Flying, InHand,
       Deciding, Queued, allVars, vars, panelVars
  <2>3. ASSUME NEW h \in Handlers, Server(h) \/ NoticeAbort(h)
        PROVE  Going' \/ (Stuck' /\ Left')
    <3>1. panel' = panel /\ question' = question
      BY <2>3 DEF Server, Serve, TakeUpQuestion, TakeUpDecision, RefuseDecision, NoticeAbort
    <3>2. Going
      BY <2>1, <3>1 DEF Window
    <3> QED BY <2>3, <3>2, ServeGoes, TakeUpGoes, RestGoes DEF Server, RunInv, PlaceInv
  <2>4. CASE TakeUpCancel \/ OtherRun \/ \E k \in Connections : Vanish(k)
    <3>1. panel' = panel /\ question' = question
      BY <2>4 DEF TakeUpCancel, OtherRun, Vanish
    <3> QED BY <2>1, <2>4, <3>1, RestGoes DEF Window, PlaceInv
  <2>5. ASSUME NEW k \in Connections, HandleEvent(k) \/ StreamEnds(k) PROVE Going'
    <3>1. /\ question' = question /\ panel'.asked = panel.asked
          /\ panel'.cancelled = panel.cancelled
      BY <2>5, EventFields, EndFields
    <3>2. Going
      BY <2>1, <3>1 DEF Window
    <3> QED BY <2>5, <3>2, EventGoes, EndGoes DEF PlaceInv
  <2>6. ASSUME NEW k \in Connections, Submit(k) PROVE Going'
    <3>1. CASE k = Elsewhere
      <4>1. question' = question /\ panel'.asked = panel.asked + 1
        BY <2>6, <3>1, SubmitFields
      <4>2. question \in Nat /\ panel.asked \in Nat /\ question <= panel.asked
        BY DEF PanelInv, PanelTypeOK, Panels, PlaceInv, AskedInv
      <4> QED BY <4>1, <4>2 DEF Window
    <3>2. CASE k \in Handlers
      BY <2>6, <3>2, QuestionGoes DEF PlaceInv, RunInv
    <3> QED BY <3>1, <3>2 DEF Connections
  <2>7. ASSUME NEW h \in Handlers, NEW decision \in Decisions, DecideProposal(h, decision)
        PROVE  Going'
    <3>1. /\ question' = question /\ panel'.asked = panel.asked
          /\ panel'.cancelled = panel.cancelled
      BY <2>7, DecideFields
    <3> QED BY <2>1, <2>7, <3>1, DecisionGoes DEF Window
  <2>8. ~CancelRequest
    BY CancelFields DEF Window
  <2> QED BY <2>2, <2>3, <2>4, <2>5, <2>6, <2>7, <2>8 DEF AssistantNext, User, PanelStep
<1> QED BY <1>1, <1>2

ShownInv == StatusInv /\ PlaceInv /\ WindowInv

LEMMA ShownInit == AssistantInit => ShownInv
<1> SUFFICES ASSUME AssistantInit PROVE ShownInv
  OBVIOUS
<1>1. /\ panel.asked = 0 /\ panel.proposal = NoCall /\ question = 0 /\ ~posted
      /\ run.status = "none" /\ \A k \in Connections : stream[k] = NoStream
      /\ \A h \in Handlers : pc[h] = "idle"
  BY DEF AssistantInit, PanelInit, Init, NoRow
<1>2. StatusInv
  BY <1>1 DEF StatusInv, SegmentPoints
<1>3. PlaceInv
  <2>1. \A k \in Connections : stream[k].call = NoCall /\ stream[k].end = "open"
    BY <1>1 DEF NoStream
  <2>2. \A k \in Connections : \A c : ~Queued(k, c)
    BY <1>1, NothingHeld DEF NoStream, Queued
  <2> QED BY <1>1, <2>1, <2>2 DEF PlaceInv, BeforeRun, ElsewhereInv, AskedInv, Connections
<1> QED BY <1>1, <1>2, <1>3 DEF ShownInv, WindowInv, Window

-----------------------------------------------------------------------------
(* Theorems                                                                *)

AllInv == RunInv /\ PanelInv /\ ApartInv /\ OfferInv /\ ShownInv

LEMMA PanelInvHolds == PanelHistorySpec => []AllInv
<1>1. PanelHistoryInit => AllInv
  BY RunInit, ApartInit, OfferInit, ShownInit DEF PanelHistoryInit, AllInv
<1>2. ASSUME AllInv, [PanelHistoryNext]_historyVars PROVE AllInv'
  <2>1. [AssistantNext]_allVars
    BY <1>2 DEF PanelHistoryNext, historyVars
  <2>2. RunInv'
    BY <1>2, <2>1, PanelKeepsRun DEF AllInv
  <2>3. PanelInv' /\ ApartInv'
    BY <1>2, ApartStep DEF AllInv, RunInv
  <2>4. OfferInv'
    BY <1>2, <2>1, OfferStep DEF AllInv, RunInv
  <2>5. RunStep
    BY <1>2, <2>1, PanelStepsRun DEF AllInv, PanelInv, RunStep, allVars
  <2>6. ShownInv'
    BY <1>2, <2>1, <2>5, StatusInvStep, PlaceStep, WindowStep DEF AllInv, ShownInv, RunInv
  <2> QED BY <2>2, <2>3, <2>4, <2>6 DEF AllInv
<1> QED BY <1>1, <1>2, PTL DEF PanelHistorySpec

(* The panel never reconnects, so that the run it drives keeps to          *)
(* max_tool_calls whatever the environment allows.                         *)
THEOREM PanelKeepsLimit == PanelHistorySpec => []ToolCallLimit
<1>1. AllInv => ToolCallLimit
  BY DEF AllInv, RunInv, WorkInv, CallsCounted, ToolCallLimit, Created
<1> QED BY <1>1, PanelInvHolds, PTL

(* What a stream brings goes to its own question, until the end of an old  *)
(* stream resets the panel under a newer request.                          *)
THEOREM AnswersDoNotMix == PanelHistorySpec => []AnswersStayApartAtFirst
<1>1. AllInv => AnswersStayApartAtFirst
  BY Zenon DEF AllInv, ApartInv, AnswersStayApartAtFirst
<1> QED BY <1>1, PanelInvHolds, PTL

(* As long as the panel is at the question that started the run and the    *)
(* user has not cancelled, a run that waits for approval has its proposal  *)
(* on the screen, on its way there, or decided and on its way back; and    *)
(* what the panel offers without an error can be decided.                  *)
THEOREM WaitingRunsAreShown == PanelHistorySpec => []ProposalsAreShown
<1>1. ASSUME AllInv, panel.asked = question, ~panel.cancelled
      PROVE  /\ run.status = "waiting_for_approval" => \E c \in Calls : OnTheWay(c)
             /\ panel.proposal # NoCall /\ ~panel.error =>
                   run.status = "waiting_for_approval"
  <2>1. CASE question = 0
    BY <2>1, <1>1 DEF AllInv, ShownInv, PlaceInv, BeforeRun
  <2>2. CASE question # 0
    <3>1. Going \/ (Stuck /\ Left)
      BY <1>1, <2>2 DEF AllInv, ShownInv, WindowInv, Window
    <3>2. panel.proposal \in Ids
      BY <1>1 DEF AllInv, PanelInv, PanelTypeOK, Panels
    <3>3. CASE Going
      BY <3>2, <3>3 DEF Going, Carried, OnTheWay, Ids
    <3>4. CASE Stuck /\ Left
      BY <3>4 DEF Stuck, Left
    <3> QED BY <3>1, <3>3, <3>4
  <2> QED BY <2>1, <2>2
<1>2. ASSUME AllInv, panel.proposal # NoCall, ~panel.error
      PROVE  calls[panel.proposal].state = "pending"
  <2>1. panel.proposal \in Calls
    BY <1>2 DEF AllInv, PanelInv, PanelTypeOK, Panels, Ids
  <2> QED BY <1>2, <2>1 DEF AllInv, OfferInv, OfferedInv, Untouched
<1>3. AllInv => ProposalsAreShown
  BY <1>1, <1>2 DEF ProposalsAreShown
<1> QED BY <1>3, PanelInvHolds, PTL
=============================================================================

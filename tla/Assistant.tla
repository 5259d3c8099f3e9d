----------------------------- MODULE Assistant -----------------------------
(***************************************************************************)
(* The assistant panel of the web client (AssistantPanel.tsx, api/agent.ts)*)
(* composed with the agent runs of the server.                             *)
(*                                                                         *)
(* One question starts the run of AgentRuns; another is answered elsewhere,*)
(* by a run of which only the events are modelled.  A stream is the answer *)
(* to one request: the server appends events to it and closes it, the panel*)
(* reads them one by one.  The state the panel updates is shared by all    *)
(* its streams; Cancel aborts only the one in controllerRef.               *)
(***************************************************************************)
EXTENDS AgentRuns, Sequences

CONSTANTS
    Elsewhere,      \* connection of the question that another run answers
    MaxQuestions    \* questions asked in the panel (bound)

ASSUME PanelAssumption == Elsewhere \notin Handlers /\ MaxQuestions \in Nat

VARIABLES
    panel,          \* the state of the component
    conversation,   \* whose answers each answer message holds
    stream,         \* every request of the panel and its answer
    question,       \* the one that AgentRuns' run answers, or 0
    posted,         \* a cancel for the run is on its way
    elsewhere       \* the other run

panelVars == <<panel, conversation, stream, question, posted, elsewhere>>
allVars == <<vars, panelVars>>

Connections == Handlers \union {Elsewhere}
Questions == 1..MaxQuestions

(* Events without an effect on the panel's state but the progress line are *)
(* left out; `sources' goes where `text' goes.                             *)
Event(type) == [type |-> type, call |-> NoCall]
Proposal(c) == [type |-> "proposal", call |-> c]

NoStream == [question |-> 0, call |-> NoCall, decision |-> "rejected",
             sent |-> FALSE,        \* the server has yet to take it up
             reading |-> FALSE,     \* the panel awaits it
             aborted |-> FALSE,
             queue |-> <<>>, end |-> "open"]

PanelInit ==
    /\ panel = [asked |-> 0, running |-> FALSE, runId |-> 0, controller |-> NoHandler,
                proposal |-> NoCall, error |-> FALSE, cancelled |-> FALSE]
    /\ conversation = [q \in Questions |-> {}]
    /\ stream = [k \in Connections |-> NoStream]
    /\ question = 0
    /\ posted = FALSE
    /\ elsewhere = "idle"

Busy(k) == IF k = Elsewhere THEN elsewhere # "idle" ELSE pc[k] # "idle"

(* A connection is free again when both sides are through with it.         *)
Released(s, busy) == IF s.sent \/ s.reading \/ busy THEN s ELSE NoStream

(* The server yields events, and closes the stream when it is through.     *)
Yields(s, said, end) ==
    IF s.aborted THEN s ELSE [s EXCEPT !.queue = @ \o said, !.end = end]

-----------------------------------------------------------------------------
(* The panel                                                               *)

(* A request goes to a handler that is free; which one makes no difference.*)
FreeHandlers == {h \in Handlers : stream[h] = NoStream /\ ~Busy(h)}
NextHandler == CHOOSE h \in FreeHandlers : TRUE

Send(k, request) ==
    /\ k = Elsewhere => stream[k] = NoStream /\ ~Busy(k)
    /\ k # Elsewhere => FreeHandlers # {} /\ k = NextHandler
    /\ stream' = [stream EXCEPT ![k] = request]

Submit(k) ==
    /\ ~panel.running /\ panel.asked < MaxQuestions
    /\ k = Elsewhere \/ question = 0
    /\ question' = IF k = Elsewhere THEN question ELSE panel.asked + 1
    /\ Send(k, [NoStream EXCEPT !.question = panel.asked + 1, !.sent = TRUE, !.reading = TRUE])
    /\ panel' = [panel EXCEPT !.asked = @ + 1, !.running = TRUE, !.runId = 0,
                              !.controller = k, !.proposal = NoCall,
                              !.error = FALSE, !.cancelled = FALSE]
    /\ UNCHANGED <<vars, conversation, posted, elsewhere>>

(* The stream of a decision belongs to the question that led to it; the    *)
(* buttons are there as long as the proposal is, whatever is running.      *)
DecideProposal(h, decision) ==
    /\ panel.proposal # NoCall
    /\ Send(h, [NoStream EXCEPT !.question = panel.asked, !.call = panel.proposal,
                                !.decision = decision, !.sent = TRUE, !.reading = TRUE])
    /\ panel' = [panel EXCEPT !.running = TRUE, !.controller = h,
                              !.proposal = NoCall, !.error = FALSE]
    /\ UNCHANGED <<vars, conversation, question, posted, elsewhere>>

(* Faulty variant: the stream is not aborted.                              *)
CancelWithoutAbort ==
    /\ panel.running
    /\ panel' = [panel EXCEPT !.running = FALSE, !.controller = NoHandler, !.cancelled = TRUE]
    /\ posted' = (posted \/ (panel.runId # 0 /\ panel.runId = question))
    /\ UNCHANGED <<vars, conversation, stream, question, elsewhere>>

(* Cancel aborts the stream, whose `finally' follows at once, and posts a  *)
(* cancel if the run's id is known.                                        *)
CancelRequest ==
    LET k == panel.controller
    IN  /\ panel.running
        /\ panel' = [panel EXCEPT !.running = FALSE, !.controller = NoHandler,
                                  !.cancelled = TRUE]
        /\ stream' = [stream EXCEPT ![k] =
                         Released([@ EXCEPT !.reading = FALSE, !.aborted = TRUE,
                                            !.queue = <<>>], Busy(k))]
        /\ posted' = (posted \/ (panel.runId # 0 /\ panel.runId = question))
        /\ UNCHANGED <<vars, conversation, question, elsewhere>>

(* handleEvent: answers go to the last message, whichever stream they are  *)
(* of.                                                                     *)
HandleEvent(k) ==
    LET heard == Head(stream[k].queue)
    IN  /\ stream[k].reading /\ stream[k].queue # <<>>
        /\ stream' = [stream EXCEPT ![k].queue = Tail(@)]
        /\ panel' = CASE heard.type = "run" -> [panel EXCEPT !.runId = stream[k].question]
                      [] heard.type = "proposal" -> [panel EXCEPT !.proposal = heard.call]
                      [] heard.type = "error" -> [panel EXCEPT !.error = TRUE]
                      [] heard.type = "done" -> [panel EXCEPT !.running = FALSE]
                      [] OTHER -> panel
        /\ conversation' = IF heard.type = "text"
                           THEN [conversation EXCEPT
                                    ![panel.asked] = @ \union {stream[k].question}]
                           ELSE conversation
        /\ UNCHANGED <<vars, question, posted, elsewhere>>

(* Faulty variant: a failed decision is offered again without a word.      *)
StreamEndsUntold(k) ==
    LET failed == stream[k].end = "broken"
    IN  /\ stream[k].reading /\ stream[k].queue = <<>> /\ stream[k].end # "open"
        /\ stream' = [stream EXCEPT ![k] = Released([@ EXCEPT !.reading = FALSE], Busy(k))]
        /\ panel' = [panel EXCEPT
                        !.running = FALSE, !.controller = NoHandler,
                        !.proposal = IF failed /\ stream[k].call # NoCall
                                     THEN stream[k].call ELSE @]
        /\ UNCHANGED <<vars, conversation, question, posted, elsewhere>>

(* Faulty variant: a failed decision leaves the panel running.             *)
StreamEndsRunning(k) ==
    LET failed == stream[k].end = "broken"
    IN  /\ stream[k].reading /\ stream[k].queue = <<>> /\ stream[k].end # "open"
        /\ stream' = [stream EXCEPT ![k] = Released([@ EXCEPT !.reading = FALSE], Busy(k))]
        /\ panel' = IF failed
                    THEN [panel EXCEPT !.error = TRUE,
                                       !.proposal = IF stream[k].call # NoCall
                                                    THEN stream[k].call ELSE @]
                    ELSE [panel EXCEPT !.running = FALSE, !.controller = NoHandler]
        /\ UNCHANGED <<vars, conversation, question, posted, elsewhere>>

(* The request is over, for submit: a failure is reported, and `finally'.  *)
Settled(failed) ==
    [panel EXCEPT !.running = FALSE, !.controller = NoHandler, !.error = @ \/ failed]

(* ... and for decide, which also offers a decision that failed again.     *)
StreamEnds(k) ==
    LET failed == stream[k].end = "broken"
    IN  /\ stream[k].reading /\ stream[k].queue = <<>> /\ stream[k].end # "open"
        /\ stream' = [stream EXCEPT ![k] = Released([@ EXCEPT !.reading = FALSE], Busy(k))]
        /\ panel' = [Settled(failed) EXCEPT
                        !.proposal = IF failed /\ stream[k].call # NoCall
                                     THEN stream[k].call ELSE @]
        /\ UNCHANGED <<vars, conversation, question, posted, elsewhere>>

-----------------------------------------------------------------------------
(* The server                                                              *)

(* What a step of a handler yields: the end of a segment by the status it  *)
(* saved; and the error or the timeout of a decision.                      *)
Said(h) ==
    IF pc'[h] = "closing" /\ pc[h] # "closing"
    THEN CASE cached'[h].status = "completed" -> <<Event("text"), Event("done")>>
           [] cached'[h].status = "waiting_for_approval"
                  -> <<Proposal(local[h].call), Event("done")>>
           [] cached'[h].status = "cancelled" -> <<Event("done")>>
           [] OTHER -> <<Event("error"), Event("done")>>
    ELSE IF pc'[h] = "idle" /\ pc[h] \in {"execute", "expire"}
         THEN <<Event("error"), Event("done")>> ELSE <<>>

(* A conflict is raised after the response has started: the stream breaks. *)
Ends(h) ==
    IF pc'[h] # "idle" THEN "open"
    ELSE IF pc[h] \in {"activate", "claim"} THEN "broken" ELSE "eof"

Serve(h) ==
    /\ HandlerStep(h)
    /\ stream' = [stream EXCEPT ![h] = Released(Yields(@, Said(h), Ends(h)), pc'[h] # "idle")]
    /\ UNCHANGED <<panel, conversation, question, posted, elsewhere>>

TakenUp(k, said, end) ==
    stream' = [stream EXCEPT ![k] = Released(Yields([@ EXCEPT !.sent = FALSE], said, end),
                                             end = "open")]

TakeUpQuestion(h) ==
    /\ stream[h].sent /\ stream[h].call = NoCall
    /\ \E direct \in BOOLEAN : RunAgent(h, direct)
    /\ TakenUp(h, <<Event("run")>>, "open")
    /\ UNCHANGED <<panel, conversation, question, posted, elsewhere>>

TakeUpDecision(h) ==
    /\ stream[h].sent /\ stream[h].call # NoCall
    /\ Decide(h, stream[h].call, stream[h].decision)
    /\ TakenUp(h, <<>>, "open")
    /\ UNCHANGED <<panel, conversation, question, posted, elsewhere>>

(* decide() on a call that is already decided, or whose run no longer      *)
(* waits.                                                                  *)
RefuseDecision(h) ==
    LET state == calls[stream[h].call].state
    IN  /\ stream[h].sent /\ stream[h].call # NoCall
        /\ state # "pending" \/ run.status # "waiting_for_approval"
        /\ IF state = stream[h].decision
           THEN TakenUp(h, <<Event("done")>>, "eof") ELSE TakenUp(h, <<>>, "broken")
        /\ UNCHANGED <<vars, panel, conversation, question, posted, elsewhere>>

(* A request aborted before the server has taken it up may not reach it.   *)
Vanish(k) ==
    /\ stream[k].sent /\ stream[k].aborted
    /\ stream' = [stream EXCEPT ![k] = NoStream]
    /\ UNCHANGED <<vars, panel, conversation, question, posted, elsewhere>>

(* The server notices an aborted stream.                                   *)
NoticeAbort(h) ==
    /\ stream[h].aborted
    /\ Fault(h)
    /\ stream' = [stream EXCEPT ![h] = Released(@, pc'[h] # "idle")]
    /\ UNCHANGED <<panel, conversation, question, posted, elsewhere>>

TakeUpCancel ==
    /\ posted /\ posted' = FALSE
    /\ \/ \E h \in Handlers : Cancel(h)
       \/ run.status \in Terminal /\ UNCHANGED vars
    /\ UNCHANGED <<panel, conversation, stream, question, elsewhere>>

(* The other run answers, or fails, and closes its stream.                 *)
OtherRun ==
    LET said == CASE elsewhere = "idle" -> {<<Event("run")>>}
                  [] elsewhere = "running" -> {<<Event("text"), Event("done")>>,
                                               <<Event("error"), Event("done")>>}
                  [] OTHER -> {<<>>}
        next == CASE elsewhere = "idle" -> "running"
                  [] elsewhere = "running" -> "closing"
                  [] OTHER -> "idle"
    IN  /\ elsewhere = "idle" => stream[Elsewhere].sent
        /\ elsewhere' = next
        /\ \E events \in said :
              stream' = [stream EXCEPT ![Elsewhere] =
                            Released(Yields([@ EXCEPT !.sent = FALSE], events,
                                            IF next = "idle" THEN "eof" ELSE "open"),
                                     next # "idle")]
        /\ UNCHANGED <<vars, panel, conversation, question, posted>>

-----------------------------------------------------------------------------
AssistantInit == Init /\ PanelInit

PanelStep == \E k \in Connections : HandleEvent(k) \/ StreamEnds(k)

User ==
    \/ \E k \in Connections : Submit(k)
    \/ \E h \in Handlers, d \in Decisions : DecideProposal(h, d)
    \/ CancelRequest

Server(h) == Serve(h) \/ TakeUpQuestion(h) \/ TakeUpDecision(h) \/ RefuseDecision(h)

AssistantNext ==
    \/ User \/ PanelStep
    \/ \E h \in Handlers : Server(h) \/ NoticeAbort(h)
    \/ \E k \in Connections : Vanish(k)
    \/ TakeUpCancel \/ OtherRun

(* The server works on what it has received (every await of a request      *)
(* returns: tools, the provider and the segment run under timeouts), the   *)
(* other run answers and the panel reads what arrives.  Nothing makes the  *)
(* user do anything, and no abort is ever noticed for certain.             *)
AssistantFairness ==
    /\ \A h \in Handlers : WF_allVars(Server(h))
    /\ \A k \in Connections : WF_allVars(HandleEvent(k) \/ StreamEnds(k))
    /\ WF_allVars(OtherRun)

AssistantSpec == AssistantInit /\ [][AssistantNext]_allVars /\ AssistantFairness
-----------------------------------------------------------------------------
(* Properties                                                              *)

(* What a stream brings goes to its own question: its text into that       *)
(* question's message, its run id to the Cancel button of that question.   *)
AnswersStayApart ==
    /\ panel.runId \in {0, panel.asked}
    /\ \A q \in Questions : conversation[q] \subseteq {q}

Holds(q, e) == \E i \in 1..Len(q) : q[i] = e
Queued(k, c) == Holds(stream[k].queue, Proposal(c))

(* A decision about the call that is sent, or that a handler still has to  *)
(* claim.                                                                  *)
Flying(h, c) ==
    \/ stream[h].sent /\ stream[h].call = c
    \/ pc[h] \in {"claim", "expire"} /\ local[h].call = c

(* The proposal of the call is on its way to the panel, on its screen, or  *)
(* on its way back as a decision.                                          *)
OnTheWay(c) ==
    \/ \E k \in Connections : stream[k].reading /\ Queued(k, c)
    \/ panel.proposal = c
    \/ \E h \in Handlers : Flying(h, c)

(* A run that waits for approval is never forgotten: as long as the panel  *)
(* is at the question that started it and the user has not cancelled, its  *)
(* proposal is on the screen, or in a stream the panel still reads, or     *)
(* decided and on its way back.  The other way round, what the panel offers*)
(* without an error on the screen can be decided: its call is pending and, *)
(* until the user cancels or asks something else, its run waits for it.    *)
ProposalsAreShown ==
    LET offered == panel.proposal # NoCall /\ ~panel.error
        waiting == run.status = "waiting_for_approval"
    IN  /\ offered => calls[panel.proposal].state = "pending"
        /\ panel.asked = question /\ ~panel.cancelled =>
              /\ waiting => \E c \in Calls : OnTheWay(c)
              /\ offered => waiting

(* A question or a decision comes to an end for the user: the panel accepts*)
(* another one.                                                            *)
PanelSettles == panel.running ~> ~panel.running

Deciding(h, c) == pc[h] \in DecidePoints /\ local[h].call = c

(* An approved change is carried out or recorded as failed, unless the user*)
(* aborts the stream that carries it out.                                  *)
ApprovedChangeEnds(c) ==
    calls[c].state = "approved" /\ (\E h \in Handlers : Deciding(h, c))
        ~> \/ calls[c].outcome # "none"
           \/ \E h \in Handlers : stream[h].aborted /\ Deciding(h, c)
=============================================================================

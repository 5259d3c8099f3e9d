----------------------------- MODULE ModelInstall -----------------------------
(***************************************************************************)
(* The local models: which ones the provider (Ollama) has, which one is    *)
(* selected, and the installations under way.  local_ai/service.py, the    *)
(* endpoints of api/local_ai.py and what it uses of local_ai/runtime.py.   *)
(*                                                                         *)
(* The installed models belong to the provider, the selection is a row of  *)
(* the database, the jobs live in the memory of the process: every look at *)
(* one of them is a step of its own and none of them locks another.        *)
(***************************************************************************)
EXTENDS Naturals

CONSTANTS
    Handlers,       \* concurrent requests
    Models,         \* MODEL_CATALOG
    NoModel,        \* no selection
    Rank,           \* their order in the catalog
    Recommended,    \* the one that fits the computer's memory
    Environment     \* what may happen besides requests, see below

(* "outage": the provider does not answer; "abort": a stream dies of its   *)
(* client or of an error nobody catches; "external": models are pulled and *)
(* removed with the provider's own tools; "crash": the server restarts.    *)
EnvironmentKinds == {"outage", "abort", "external", "crash"}

ASSUME ModelsAssumption == NoModel \notin Models /\ Recommended \in Models
ASSUME RankAssumption == Rank \in [Models -> Nat]
ASSUME EnvironmentAssumption == Environment \subseteq EnvironmentKinds

VARIABLES
    installed,  \* what the provider lists
    selected,   \* LocalAISettings.selected_model
    jobs,       \* _installation_jobs
    request,    \* where each request is and what it has seen
    orphaned,   \* history: models whose job has lost its stream
    excused     \* history: models removed, or being removed, while they were
                \* being selected, or by other programs

vars == <<installed, selected, jobs, request, orphaned, excused>>

RunningStates == {"checking", "downloading", "installing"}
EndStates == {"ready", "failed", "cancelled"}
Jobs == [state: RunningStates \union EndStates \union {"none"}, cancel: BOOLEAN]
NoJob == [state |-> "none", cancel |-> FALSE]

(* get_status; select_model; install_model; remove_model.                  *)
StatusPoints == {"snapshot", "settings", "heal"}
SelectPoints == {"check", "read", "choose"}
StreamPoints == {"inspect", "pull", "verify"}
RemovePoints == {"find", "remove"}
Points == {"idle"} \union StatusPoints \union SelectPoints \union StreamPoints
                   \union RemovePoints

Selections == Models \union {NoModel}
Requests == [pc: Points,
             model: Selections,         \* the model asked for
             seen: SUBSET Models,       \* the models last listed
             cached: Selections,        \* selected_model as loaded, or as to be written
             held: BOOLEAN]             \* the caller still refers to that row
NoRequest == [pc |-> "idle", model |-> NoModel, seen |-> {}, cached |-> NoModel,
              held |-> FALSE]

TypeOK ==
    /\ installed \in SUBSET Models
    /\ selected \in Selections
    /\ jobs \in [Models -> Jobs]
    /\ request \in [Handlers -> Requests]
    /\ \A h \in Handlers :
          request[h].pc \in SelectPoints \union StreamPoints \union RemovePoints
              => request[h].model \in Models
    /\ orphaned \in SUBSET Models
    /\ excused \in SUBSET Models

(* The provider may have been used before.                                 *)
Init ==
    /\ installed \in SUBSET Models
    /\ selected = NoModel
    /\ jobs = [m \in Models |-> NoJob]
    /\ request = [h \in Handlers |-> NoRequest]
    /\ orphaned = {}
    /\ excused = {}

-----------------------------------------------------------------------------
Model(h) == request[h].model
At(h, point) == request[h].pc = point
Running(m) == jobs[m].state \in RunningStates

Goto(h, point) == request' = [request EXCEPT ![h].pc = point]
Answer(h) == request' = [request EXCEPT ![h] = NoRequest]
Begin(h, point, m) ==
    /\ At(h, "idle")
    /\ request' = [request EXCEPT ![h] = [NoRequest EXCEPT !.pc = point, !.model = m]]

Outage == "outage" \in Environment

(* _runtime_snapshot: without an answer it lists nothing.                  *)
Listings == {installed} \union IF Outage THEN {{}} ELSE {}

(* _automatic_selection: the recommended model, else the first one.        *)
Automatic(seen) ==
    IF Recommended \in seen THEN {Recommended}
    ELSE IF seen = {} THEN {NoModel}
    ELSE {m \in seen : \A n \in seen : Rank[m] <= Rank[n]}

-----------------------------------------------------------------------------
(* get_status, also at the end of select_model and remove_model            *)

GetStatus(h) ==
    /\ Begin(h, "snapshot", NoModel)
    /\ UNCHANGED <<installed, selected, jobs, orphaned>>

Snapshot(h) ==
    /\ At(h, "snapshot")
    /\ \E seen \in Listings :
          request' = [request EXCEPT ![h].pc = "settings", ![h].seen = seen]
    /\ UNCHANGED <<installed, selected, jobs, orphaned>>

(* The row is read, unless the session has it already: then it is the old  *)
(* one.                                                                    *)
ReadSettings(h) ==
    LET row == IF request[h].held THEN request[h].cached ELSE selected
    IN  /\ At(h, "settings")
        /\ \E best \in Automatic(request[h].seen) :
              IF row \in request[h].seen \union {best}
              THEN Answer(h)
              ELSE request' = [request EXCEPT ![h] = [NoRequest EXCEPT !.pc = "heal",
                                                          !.cached = best]]
        /\ UNCHANGED <<installed, selected, jobs, orphaned>>

Heal(h) ==
    /\ At(h, "heal")
    /\ selected' = request[h].cached
    /\ Answer(h)
    /\ UNCHANGED <<installed, jobs, orphaned>>

-----------------------------------------------------------------------------
(* select_model                                                            *)

Select(h, m) ==
    /\ Begin(h, "check", m)
    /\ UNCHANGED <<installed, selected, jobs, orphaned>>

(* Faulty variant: takes the catalog's word for it.                        *)
CheckNothing(h) ==
    /\ At(h, "check")
    /\ Goto(h, "read")
    /\ UNCHANGED <<installed, selected, jobs, orphaned>>

CheckInstalled(h) ==
    /\ At(h, "check")
    /\ \E seen \in Listings : IF Model(h) \in seen THEN Goto(h, "read") ELSE Answer(h)
    /\ UNCHANGED <<installed, selected, jobs, orphaned>>

ReadSelection(h) ==
    /\ At(h, "read")
    /\ request' = [request EXCEPT ![h].pc = "choose", ![h].cached = selected]
    /\ UNCHANGED <<installed, selected, jobs, orphaned>>

(* The flush writes the column only if it differs from what was loaded.    *)
Choose(h) ==
    /\ At(h, "choose")
    /\ selected' = IF Model(h) = request[h].cached THEN selected ELSE Model(h)
    /\ request' = [request EXCEPT ![h] = [NoRequest EXCEPT !.pc = "snapshot"]]
    /\ UNCHANGED <<installed, jobs, orphaned>>

-----------------------------------------------------------------------------
(* remove_model                                                            *)

(* "select another model before removing the current model": the row stays *)
(* with the request until its answer.                                      *)
Remove(h, m) ==
    /\ At(h, "idle") /\ selected # m
    /\ request' = [request EXCEPT ![h] = [NoRequest EXCEPT !.pc = "find", !.model = m,
                                              !.cached = selected, !.held = TRUE]]
    /\ UNCHANGED <<installed, selected, jobs, orphaned>>

FindInstalled(h) ==
    /\ At(h, "find")
    /\ \E seen \in Listings : IF Model(h) \in seen THEN Goto(h, "remove") ELSE Answer(h)
    /\ UNCHANGED <<installed, selected, jobs, orphaned>>

(* The provider deletes the model; without the model, or without an answer *)
(* in time, the request fails.                                             *)
RemoveModel(h) ==
    /\ At(h, "remove")
    /\ \/ /\ Model(h) \in installed
          /\ installed' = installed \ {Model(h)}
          /\ \/ request' = [request EXCEPT ![h].pc = "snapshot", ![h].model = NoModel]
             \/ Outage /\ Answer(h)
       \/ /\ Model(h) \notin installed \/ Outage
          /\ Answer(h)
          /\ UNCHANGED installed
    /\ UNCHANGED <<selected, jobs, orphaned>>

-----------------------------------------------------------------------------
(* install_model, a stream of events, and cancel_installation              *)

SetState(m, state) == jobs' = [jobs EXCEPT ![m].state = state]

(* "model installation is already running", or else a new job.             *)
Install(h, m) ==
    /\ ~Running(m)
    /\ Begin(h, "inspect", m)
    /\ jobs' = [jobs EXCEPT ![m] = [state |-> "checking", cancel |-> FALSE]]
    /\ UNCHANGED <<installed, selected, orphaned>>

(* Nobody reads the event of a job that has ended.                         *)
End(h, state) ==
    /\ jobs' = [jobs EXCEPT ![Model(h)] = [state |-> state, cancel |-> FALSE]]
    /\ Answer(h)

(* Already installed, or something to download; without an answer, or      *)
(* without the disk space, the installation fails.                         *)
Inspect(h) ==
    /\ At(h, "inspect")
    /\ \/ Model(h) \in installed /\ End(h, "ready")
       \/ Model(h) \notin installed /\ SetState(Model(h), "downloading") /\ Goto(h, "pull")
       \/ (Model(h) \notin installed \/ Outage) /\ End(h, "failed")
    /\ UNCHANGED <<installed, selected, orphaned>>

(* A line of progress: the cancellation is seen here ...                   *)
PullLine(h, state) ==
    /\ At(h, "pull") /\ ~jobs[Model(h)].cancel
    /\ state \in {jobs[Model(h)].state, "installing"}
    /\ SetState(Model(h), state)
    /\ UNCHANGED <<installed, selected, request, orphaned>>

(* Faulty variant: the stream ends without a last word.                    *)
StopQuietly(h) ==
    /\ At(h, "pull") /\ jobs[Model(h)].cancel
    /\ Answer(h)
    /\ UNCHANGED <<installed, selected, jobs, orphaned>>

(* ... or at the end of the stream.                                        *)
StopPull(h) ==
    /\ At(h, "pull") /\ jobs[Model(h)].cancel
    /\ End(h, "cancelled")
    /\ UNCHANGED <<installed, selected, orphaned>>

PullEnds(h) ==
    /\ At(h, "pull") /\ ~jobs[Model(h)].cancel
    /\ Goto(h, "verify")
    /\ UNCHANGED <<installed, selected, jobs, orphaned>>

(* The provider has written the model's manifest.                          *)
ModelArrives(h) ==
    /\ At(h, "pull")
    /\ installed' = installed \union {Model(h)}
    /\ UNCHANGED <<selected, jobs, request, orphaned>>

Verify(h) ==
    /\ At(h, "verify")
    /\ End(h, IF Model(h) \in installed THEN "ready" ELSE "failed")
    /\ UNCHANGED <<installed, selected, orphaned>>

(* httpx.HTTPError or RuntimeError                                         *)
StreamFails(h) ==
    /\ request[h].pc \in {"pull", "verify"}
    /\ End(h, "failed")
    /\ UNCHANGED <<installed, selected, orphaned>>

(* The client goes away, as its Cancel button does first, or the provider  *)
(* sends what cannot be parsed: nobody writes an end into the job.         *)
StreamDies(h) ==
    /\ "abort" \in Environment
    /\ request[h].pc \in StreamPoints
    /\ orphaned' = orphaned \union {Model(h)}
    /\ Answer(h)
    /\ UNCHANGED <<installed, selected, jobs>>

(* Only an event: the stream reads it with the next line.                  *)
Cancel(m) ==
    /\ Running(m)
    /\ jobs' = [jobs EXCEPT ![m].cancel = TRUE]
    /\ UNCHANGED <<installed, selected, request, orphaned>>

-----------------------------------------------------------------------------
ExternalChange ==
    /\ "external" \in Environment
    /\ installed' \in SUBSET Models
    /\ UNCHANGED <<selected, jobs, request, orphaned>>

(* A restart empties the memory.                                           *)
Crash ==
    /\ "crash" \in Environment
    /\ jobs' = [m \in Models |-> NoJob]
    /\ request' = [h \in Handlers |-> NoRequest]
    /\ orphaned' = {}
    /\ UNCHANGED <<installed, selected>>

-----------------------------------------------------------------------------
(* A removal and a selection of the model are under way at once.           *)
Removing(m) == \E h \in Handlers : request[h].pc \in RemovePoints /\ Model(h) = m
Choosing(m) ==
    \E h \in Handlers :
        \/ request[h].pc \in {"read", "choose"} /\ Model(h) = m
        \/ At(h, "settings") /\ m \in request[h].seen
        \/ At(h, "heal") /\ request[h].cached = m
Races == {m \in Models : Removing(m) /\ Choosing(m)}
Settled == {m \in installed : ~Removing(m)}

Excuse(models) == excused' = (excused \ Settled') \union Races' \union models

StreamStep(h) ==
    /\ \/ Inspect(h) \/ StopPull(h) \/ PullEnds(h) \/ Verify(h) \/ StreamFails(h)
    /\ Excuse({})

RequestStep(h) ==
    /\ \/ Snapshot(h) \/ ReadSettings(h) \/ Heal(h)
       \/ CheckInstalled(h) \/ ReadSelection(h) \/ Choose(h)
       \/ FindInstalled(h) \/ RemoveModel(h)
    /\ Excuse({})

Client ==
    /\ \/ \E h \in Handlers : GetStatus(h) \/ StreamDies(h)
       \/ \E h \in Handlers, m \in Models : Select(h, m) \/ Remove(h, m) \/ Install(h, m)
       \/ \E m \in Models : Cancel(m)
    /\ Excuse({})

Surroundings ==
    \/ /\ \/ \E h \in Handlers : ModelArrives(h)
          \/ \E h \in Handlers, state \in RunningStates : PullLine(h, state)
          \/ Crash
       /\ Excuse({})
    \/ ExternalChange /\ Excuse(installed \ installed')

Next ==
    \/ \E h \in Handlers : StreamStep(h) \/ RequestStep(h)
    \/ Client \/ Surroundings

Spec == Init /\ [][Next]_vars
-----------------------------------------------------------------------------
(* Properties                                                              *)

Streams(h, m) == request[h].pc \in StreamPoints /\ Model(h) = m

(* Two streams never download the same model at once, whatever was aborted *)
(* and retried before (_installation_jobs is looked at under the lock).    *)
OneStreamPerModel ==
    \A m \in Models, g, h \in Handlers : Streams(g, m) /\ Streams(h, m) => g = h

(* The selected model is installed: remove_model refuses the current       *)
(* model, select_model and get_status choose among the listed ones.  Not   *)
(* if a removal and a selection overlap, or other programs remove it.      *)
SelectionIsInstalled == selected \in installed \union excused \union {NoModel}

(* A job is checking, downloading or installing exactly while a stream     *)
(* drives it: every way out of install_model writes an end into it, and    *)
(* nothing else touches it.  Only a stream that died leaves its job there. *)
JobsHaveStreams ==
    \A m \in Models :
        (\E h \in Handlers : Streams(h, m)) <=> Running(m) /\ m \notin orphaned

(* Jobs and streams go together: both of the above.                        *)
JobsMatchStreams == OneStreamPerModel /\ JobsHaveStreams
=============================================================================

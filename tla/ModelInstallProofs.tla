-------------------------- MODULE ModelInstallProofs --------------------------
(***************************************************************************)
(* Proofs about ModelInstall, for any models, requests and surroundings:   *)
(* types, one stream per model, jobs that are driven by their stream, and  *)
(* a selection that is installed.                                          *)
(***************************************************************************)
EXTENDS ModelInstall, TLAPS

(* What a selection that is under way can rely on.                         *)
ChoiceIsInstalled == \A m \in Models : Choosing(m) => m \in installed \union excused
RemovedIsUnselected == \A m \in Models : Removing(m) /\ selected = m => m \in excused
RacesAreExcused == Races \subseteq excused

SelectionInv ==
    SelectionIsInstalled /\ ChoiceIsInstalled /\ RemovedIsUnselected /\ RacesAreExcused

(* A job that lost its stream is never ended, and never given another.     *)
OrphansRun == \A m \in orphaned : Running(m)

JobInv == OneStreamPerModel /\ JobsHaveStreams /\ OrphansRun

-----------------------------------------------------------------------------
(* Types                                                                   *)

LEMMA NoRequestType ==
    /\ NoRequest \in Requests /\ NoRequest.pc = "idle"
    /\ NoRequest.model = NoModel /\ NoRequest.cached = NoModel
    /\ NoRequest.seen = {} /\ NoRequest.held = FALSE
  BY DEF NoRequest, Requests, Selections, Points

LEMMA PointNames ==
    /\ StatusPoints \subseteq Points /\ SelectPoints \subseteq Points
    /\ StreamPoints \subseteq Points /\ RemovePoints \subseteq Points
    /\ {"idle"} \subseteq Points
  BY DEF Points

(* An update of some fields of a request.                                  *)
LEMMA RequestUpdates ==
    ASSUME NEW r \in Requests, NEW p \in Points, NEW m \in Selections,
           NEW c \in Selections, NEW s \in SUBSET Models, NEW b \in BOOLEAN
    PROVE  /\ [r EXCEPT !.pc = p, !.model = m] \in Requests
           /\ [r EXCEPT !.pc = p, !.seen = s] \in Requests
           /\ [r EXCEPT !.pc = p, !.cached = c] \in Requests
           /\ [r EXCEPT !.pc = p, !.model = m, !.cached = c, !.held = b] \in Requests
  BY DEF Requests

LEMMA PointUpdate ==
    ASSUME NEW r \in Requests, NEW p \in Points
    PROVE  [r EXCEPT !.pc = p] \in Requests
  BY DEF Requests

LEMMA JobUpdates ==
    ASSUME NEW j \in Jobs, NEW state \in RunningStates \union EndStates,
           NEW c \in BOOLEAN
    PROVE  /\ [j EXCEPT !.state = state] \in Jobs
           /\ [j EXCEPT !.cancel = c] \in Jobs
           /\ [state |-> state, cancel |-> c] \in Jobs
           /\ NoJob \in Jobs
  BY DEF Jobs, NoJob

LEMMA AutomaticType ==
    ASSUME NEW seen \in SUBSET Models, NEW best \in Automatic(seen)
    PROVE  best \in Selections /\ (best \in Models => best \in seen)
  BY ModelsAssumption DEF Automatic, Selections

(* The part of the type invariant that a step of one request disturbs.     *)
WellFormed(r) ==
    /\ r \in Requests
    /\ r.pc \in SelectPoints \union StreamPoints \union RemovePoints => r.model \in Models

LEMMA RequestType ==
    ASSUME TypeOK, NEW h \in Handlers, NEW r, WellFormed(r),
           request' = [request EXCEPT ![h] = r]
    PROVE  /\ request' \in [Handlers -> Requests]
           /\ \A g \in Handlers :
                 request'[g].pc \in SelectPoints \union StreamPoints \union RemovePoints
                     => request'[g].model \in Models
  BY DEF TypeOK, WellFormed

(* Everything but the excuses.                                             *)
CoreTypes ==
    /\ installed \in SUBSET Models
    /\ selected \in Selections
    /\ jobs \in [Models -> Jobs]
    /\ request \in [Handlers -> Requests]
    /\ \A h \in Handlers :
          request[h].pc \in SelectPoints \union StreamPoints \union RemovePoints
              => request[h].model \in Models
    /\ orphaned \in SUBSET Models

LEMMA ExcuseType ==
    ASSUME TypeOK, NEW models \in SUBSET Models, Excuse(models)
    PROVE  excused' \in SUBSET Models
  BY DEF TypeOK, Excuse, Races

(* How the requests change, one lemma per way of changing them.            *)
LEMMA AnswerType ==
    ASSUME TypeOK, NEW h \in Handlers, Answer(h)
    PROVE  /\ request' = [request EXCEPT ![h] = NoRequest]
           /\ WellFormed(NoRequest)
  BY NoRequestType DEF Answer, WellFormed, SelectPoints, StreamPoints, RemovePoints

LEMMA GotoType ==
    ASSUME TypeOK, NEW h \in Handlers, NEW p \in Points, Goto(h, p),
           Model(h) \in Models \/ p \in {"idle"} \union StatusPoints
    PROVE  /\ request' = [request EXCEPT ![h] = [request[h] EXCEPT !.pc = p]]
           /\ WellFormed([request[h] EXCEPT !.pc = p])
  <1> DEFINE r == [request[h] EXCEPT !.pc = p]
  <1>1. r \in Requests
    BY PointUpdate DEF TypeOK
  <1>2. r.pc = p /\ r.model = Model(h)
    BY DEF TypeOK, Requests, Model
  <1> QED
    BY <1>1, <1>2 DEF Goto, WellFormed, StatusPoints, SelectPoints, StreamPoints,
                      RemovePoints

LEMMA BeginType ==
    ASSUME TypeOK, NEW h \in Handlers, NEW p \in Points, NEW m \in Selections,
           Begin(h, p, m), m \in Models \/ p \in StatusPoints
    PROVE  \E r : /\ request' = [request EXCEPT ![h] = r]
                  /\ WellFormed(r) /\ r.pc = p /\ r.model = m
                  /\ request[h].pc = "idle"
  <1> DEFINE r == [NoRequest EXCEPT !.pc = p, !.model = m]
  <1>1. r \in Requests
    BY NoRequestType, RequestUpdates
  <1>2. r.pc = p /\ r.model = m
    BY DEF NoRequest
  <1>3. request' = [request EXCEPT ![h] = r] /\ request[h].pc = "idle"
    BY DEF Begin, At
  <1> HIDE DEF r
  <1>4. WellFormed(r)
    BY <1>1, <1>2 DEF WellFormed, StatusPoints, SelectPoints, StreamPoints, RemovePoints
  <1> QED
    BY <1>2, <1>3, <1>4

LEMMA EndType ==
    ASSUME TypeOK, NEW h \in Handlers, Model(h) \in Models, NEW state \in EndStates,
           End(h, state)
    PROVE  /\ jobs' \in [Models -> Jobs]
           /\ \A m \in Models : m # Model(h) => jobs'[m] = jobs[m]
           /\ jobs'[Model(h)].state = state
           /\ Answer(h)
  <1>1. [state |-> state, cancel |-> FALSE] \in Jobs
    BY DEF Jobs
  <1> QED
    BY <1>1 DEF End, TypeOK

LEMMA SetStateType ==
    ASSUME TypeOK, NEW m \in Models, NEW state \in RunningStates, SetState(m, state)
    PROVE  /\ jobs' \in [Models -> Jobs]
           /\ \A n \in Models : n # m => jobs'[n] = jobs[n]
           /\ jobs'[m].state = state
  <1>1. [jobs[m] EXCEPT !.state = state] \in Jobs
    BY JobUpdates DEF TypeOK
  <1>2. [jobs[m] EXCEPT !.state = state].state = state
    BY DEF TypeOK, Jobs
  <1> QED
    BY <1>1, <1>2 DEF SetState, TypeOK

-----------------------------------------------------------------------------
(* What a step does to the selection, the removals and the streams         *)

(* The request r is choosing, or removing, m.                              *)
Chooses(r, m) ==
    \/ r.pc \in {"read", "choose"} /\ r.model = m
    \/ r.pc = "settings" /\ m \in r.seen
    \/ r.pc = "heal" /\ r.cached = m
Removes(r, m) == r.pc \in RemovePoints /\ r.model = m

ChoosesInstalled == \A m \in Models : Choosing(m)' => Choosing(m) \/ m \in installed'
RemovesUnselected == \A m \in Models : Removing(m)' => Removing(m) \/ selected' # m
UninstallsRemoved ==
    \A m \in installed : m \in installed' \/ Removing(m) \/ m \in excused'

SelectionStep ==
    ChoosesInstalled /\ RemovesUnselected /\ UninstallsRemoved
    /\ (selected' \in {selected, NoModel}
        \/ \E m \in Models : selected' = m /\ Choosing(m))

KeepsStreams ==
    /\ UNCHANGED <<jobs, orphaned>>
    /\ \A h \in Handlers, m \in Models : Streams(h, m)' <=> Streams(h, m)

LEMMA RequestEffect ==
    ASSUME TypeOK, NEW h \in Handlers, NEW r, WellFormed(r),
           request' = [request EXCEPT ![h] = r],
           \A m \in Models : Chooses(r, m) => Choosing(m) \/ m \in installed',
           \A m \in Models : Removes(r, m) => Removing(m) \/ selected' # m
    PROVE  ChoosesInstalled /\ RemovesUnselected
  <1>1. request'[h] = r /\ \A g \in Handlers : g # h => request'[g] = request[g]
    BY DEF TypeOK
  <1>2. ChoosesInstalled
    BY <1>1 DEF ChoosesInstalled, Choosing, Chooses, At, Model
  <1>3. RemovesUnselected
    BY <1>1 DEF RemovesUnselected, Removing, Removes, Model
  <1> QED
    BY <1>2, <1>3

(* A request that neither chooses nor removes, whatever it did before.     *)
LEMMA QuietRequest ==
    ASSUME TypeOK, NEW h \in Handlers, NEW r, WellFormed(r),
           request' = [request EXCEPT ![h] = r],
           r.pc \in {"idle", "snapshot", "check"} \union StreamPoints
    PROVE  ChoosesInstalled /\ RemovesUnselected
  <1>1. \A m \in Models : ~Chooses(r, m) /\ ~Removes(r, m)
    BY DEF Chooses, Removes, StreamPoints, RemovePoints
  <1> QED
    BY <1>1, RequestEffect

LEMMA NoStreamTouched ==
    ASSUME TypeOK, NEW h \in Handlers, NEW r, WellFormed(r),
           request' = [request EXCEPT ![h] = r],
           request[h].pc \notin StreamPoints, r.pc \notin StreamPoints,
           UNCHANGED <<jobs, orphaned>>
    PROVE  KeepsStreams
  <1>1. request'[h] = r /\ \A g \in Handlers : g # h => request'[g] = request[g]
    BY DEF TypeOK
  <1> QED
    BY <1>1 DEF KeepsStreams, Streams, Model

(* The steps of a request that is no stream: what remains to be shown is   *)
(* that it becomes r, and that r chooses and removes what it may.          *)
LEMMA PlainStep ==
    ASSUME TypeOK, NEW h \in Handlers, NEW r, WellFormed(r),
           request' = [request EXCEPT ![h] = r],
           request[h].pc \notin StreamPoints, r.pc \notin StreamPoints,
           UNCHANGED <<installed, selected, jobs, orphaned>>,
           \A m \in Models : Chooses(r, m) => Choosing(m) \/ m \in installed,
           \A m \in Models : Removes(r, m) => Removing(m) \/ selected # m
    PROVE  CoreTypes' /\ SelectionStep /\ KeepsStreams
  <1>1. CoreTypes'
    BY RequestType DEF CoreTypes, TypeOK
  <1>2. SelectionStep
    BY RequestEffect DEF SelectionStep, UninstallsRemoved
  <1> QED
    BY <1>1, <1>2, NoStreamTouched

-----------------------------------------------------------------------------
(* The steps of get_status, select_model and remove_model                  *)

LEMMA NoRequestIsQuiet ==
    \A m \in Models : ~Chooses(NoRequest, m) /\ ~Removes(NoRequest, m)
  BY NoRequestType DEF Chooses, Removes, RemovePoints

LEMMA AnswerStep ==
    ASSUME TypeOK, NEW h \in Handlers, Answer(h), request[h].pc \notin StreamPoints,
           UNCHANGED <<installed, selected, jobs, orphaned>>
    PROVE  CoreTypes' /\ SelectionStep /\ KeepsStreams
  BY AnswerType, NoRequestIsQuiet, NoRequestType, PlainStep DEF StreamPoints

LEMMA GetStatusStep ==
    ASSUME TypeOK, NEW h \in Handlers, GetStatus(h)
    PROVE  CoreTypes' /\ SelectionStep /\ KeepsStreams
  <1>0. /\ "snapshot" \in Points /\ "snapshot" \in StatusPoints
        /\ NoModel \in Selections /\ Begin(h, "snapshot", NoModel)
    BY DEF GetStatus, Points, StatusPoints, Selections
  <1>1. PICK r : /\ request' = [request EXCEPT ![h] = r] /\ WellFormed(r)
                 /\ r.pc = "snapshot" /\ request[h].pc = "idle"
    BY <1>0, BeginType
  <1>2. \A m \in Models : ~Chooses(r, m) /\ ~Removes(r, m)
    BY <1>1 DEF Chooses, Removes, RemovePoints
  <1> QED
    BY <1>1, <1>2, PlainStep DEF GetStatus, StreamPoints

LEMMA SnapshotStep ==
    ASSUME TypeOK, NEW h \in Handlers, Snapshot(h)
    PROVE  CoreTypes' /\ SelectionStep /\ KeepsStreams
  <1>1. PICK seen \in Listings :
            request' = [request EXCEPT ![h].pc = "settings", ![h].seen = seen]
    BY DEF Snapshot
  <1>2. seen \subseteq installed
    BY DEF Listings
  <1> DEFINE r == [request[h] EXCEPT !.pc = "settings", !.seen = seen]
  <1>3. r \in Requests /\ r.pc = "settings" /\ r.seen = seen
    <2>1. seen \in SUBSET Models /\ "settings" \in Points /\ request[h] \in Requests
      BY <1>2 DEF TypeOK, Points, StatusPoints
    <2> QED
      BY <2>1, RequestUpdates DEF Requests
  <1>4. request' = [request EXCEPT ![h] = r]
    BY <1>1
  <1> HIDE DEF r
  <1>5. WellFormed(r)
    BY <1>3 DEF WellFormed, SelectPoints, StreamPoints, RemovePoints
  <1>6. \A m \in Models : (Chooses(r, m) => m \in installed) /\ ~Removes(r, m)
    BY <1>2, <1>3 DEF Chooses, Removes, RemovePoints
  <1> QED
    BY <1>3, <1>4, <1>5, <1>6, PlainStep DEF Snapshot, At, StreamPoints

LEMMA ReadSettingsStep ==
    ASSUME TypeOK, NEW h \in Handlers, ReadSettings(h)
    PROVE  CoreTypes' /\ SelectionStep /\ KeepsStreams
  <1>1. /\ request[h].pc = "settings" /\ request[h].seen \in SUBSET Models
        /\ UNCHANGED <<installed, selected, jobs, orphaned>>
    BY DEF ReadSettings, At, TypeOK, Requests
  <1>2. PICK best \in Automatic(request[h].seen) :
            \/ Answer(h)
            \/ request' = [request EXCEPT ![h] = [NoRequest EXCEPT !.pc = "heal",
                                                      !.cached = best]]
    BY DEF ReadSettings
  <1>3. CASE Answer(h)
    BY <1>1, <1>3, AnswerStep DEF StreamPoints
  <1>4. CASE request' = [request EXCEPT ![h] = [NoRequest EXCEPT !.pc = "heal",
                                                    !.cached = best]]
    <2> DEFINE r == [NoRequest EXCEPT !.pc = "heal", !.cached = best]
    <2>1. best \in Selections /\ (best \in Models => best \in request[h].seen)
      BY <1>1, AutomaticType
    <2>2. r \in Requests
      BY <2>1, NoRequestType, RequestUpdates DEF Points, StatusPoints
    <2>3. r.pc = "heal" /\ r.cached = best
      BY DEF NoRequest
    <2>4. request' = [request EXCEPT ![h] = r]
      BY <1>4
    <2> HIDE DEF r
    <2>5. WellFormed(r)
      BY <2>2, <2>3 DEF WellFormed, SelectPoints, StreamPoints, RemovePoints
    <2>6. \A m \in Models : (Chooses(r, m) => Choosing(m)) /\ ~Removes(r, m)
      BY <1>1, <2>1, <2>3 DEF Chooses, Removes, RemovePoints, Choosing, At
    <2> QED
      BY <1>1, <2>3, <2>4, <2>5, <2>6, PlainStep DEF StreamPoints
  <1> QED
    BY <1>2, <1>3, <1>4

LEMMA HealStep ==
    ASSUME TypeOK, NEW h \in Handlers, Heal(h)
    PROVE  CoreTypes' /\ SelectionStep /\ KeepsStreams
  <1>1. /\ request[h].pc = "heal" /\ request[h].cached \in Selections
        /\ selected' = request[h].cached /\ UNCHANGED <<installed, jobs, orphaned>>
        /\ Answer(h)
    BY DEF Heal, At, TypeOK, Requests
  <1>2. request' = [request EXCEPT ![h] = NoRequest] /\ WellFormed(NoRequest)
    BY <1>1, AnswerType
  <1>3. CoreTypes'
    BY <1>1, <1>2, RequestType DEF CoreTypes, TypeOK
  <1>4. selected' = NoModel \/ \E m \in Models : selected' = m /\ Choosing(m)
    BY <1>1 DEF Choosing, At, Selections
  <1>5. ChoosesInstalled /\ RemovesUnselected
    BY <1>2, NoRequestType, QuietRequest
  <1>6. SelectionStep
    BY <1>1, <1>4, <1>5 DEF SelectionStep, UninstallsRemoved
  <1>7. KeepsStreams
    BY <1>1, <1>2, NoRequestType, NoStreamTouched DEF StreamPoints
  <1> QED
    BY <1>3, <1>6, <1>7

LEMMA SelectStep ==
    ASSUME TypeOK, NEW h \in Handlers, NEW m \in Models, Select(h, m)
    PROVE  CoreTypes' /\ SelectionStep /\ KeepsStreams
  <1>0. "check" \in Points /\ m \in Selections /\ Begin(h, "check", m)
    BY DEF Select, Points, SelectPoints, Selections
  <1>1. PICK r : /\ request' = [request EXCEPT ![h] = r] /\ WellFormed(r)
                 /\ r.pc = "check" /\ request[h].pc = "idle"
    BY <1>0, BeginType
  <1>2. \A n \in Models : ~Chooses(r, n) /\ ~Removes(r, n)
    BY <1>1 DEF Chooses, Removes, RemovePoints
  <1> QED
    BY <1>1, <1>2, PlainStep DEF Select, StreamPoints

LEMMA CheckInstalledStep ==
    ASSUME TypeOK, NEW h \in Handlers, CheckInstalled(h)
    PROVE  CoreTypes' /\ SelectionStep /\ KeepsStreams
  <1>1. /\ request[h].pc = "check" /\ Model(h) \in Models
        /\ UNCHANGED <<installed, selected, jobs, orphaned>>
    BY DEF CheckInstalled, At, TypeOK, Model, SelectPoints
  <1>2. Answer(h) \/ (Model(h) \in installed /\ Goto(h, "read"))
    BY DEF CheckInstalled, Listings
  <1>3. CASE Answer(h)
    BY <1>1, <1>3, AnswerStep DEF StreamPoints
  <1>4. CASE Model(h) \in installed /\ Goto(h, "read")
    <2> DEFINE r == [request[h] EXCEPT !.pc = "read"]
    <2>1. request' = [request EXCEPT ![h] = r] /\ WellFormed(r)
      BY <1>1, <1>4, GotoType DEF Points, SelectPoints
    <2>2. r.pc = "read" /\ r.model = Model(h)
      BY DEF TypeOK, Requests, Model
    <2> HIDE DEF r
    <2>3. \A m \in Models : (Chooses(r, m) => m \in installed) /\ ~Removes(r, m)
      BY <1>4, <2>2 DEF Chooses, Removes, RemovePoints
    <2> QED
      BY <1>1, <2>1, <2>2, <2>3, PlainStep DEF StreamPoints
  <1> QED
    BY <1>2, <1>3, <1>4

LEMMA ReadSelectionStep ==
    ASSUME TypeOK, NEW h \in Handlers, ReadSelection(h)
    PROVE  CoreTypes' /\ SelectionStep /\ KeepsStreams
  <1> DEFINE r == [request[h] EXCEPT !.pc = "choose", !.cached = selected]
  <1>1. /\ request[h].pc = "read" /\ Model(h) \in Models
        /\ UNCHANGED <<installed, selected, jobs, orphaned>>
        /\ request' = [request EXCEPT ![h] = r]
    BY DEF ReadSelection, At, TypeOK, Model, SelectPoints
  <1>2. r \in Requests /\ r.pc = "choose" /\ r.model = Model(h)
    <2>1. selected \in Selections /\ "choose" \in Points /\ request[h] \in Requests
      BY DEF TypeOK, Points, SelectPoints
    <2> QED
      BY <2>1, RequestUpdates DEF Requests, Model
  <1> HIDE DEF r
  <1>3. WellFormed(r)
    BY <1>1, <1>2 DEF WellFormed
  <1>4. \A m \in Models : (Chooses(r, m) => Choosing(m)) /\ ~Removes(r, m)
    BY <1>1, <1>2 DEF Chooses, Removes, RemovePoints, Choosing, Model
  <1> QED
    BY <1>1, <1>2, <1>3, <1>4, PlainStep DEF StreamPoints

LEMMA ChooseStep ==
    ASSUME TypeOK, NEW h \in Handlers, Choose(h)
    PROVE  CoreTypes' /\ SelectionStep /\ KeepsStreams
  <1> DEFINE r == [NoRequest EXCEPT !.pc = "snapshot"]
  <1>1. /\ request[h].pc = "choose" /\ Model(h) \in Models
        /\ selected' \in {selected, Model(h)}
        /\ UNCHANGED <<installed, jobs, orphaned>>
        /\ request' = [request EXCEPT ![h] = r]
    BY DEF Choose, At, TypeOK, Model, SelectPoints
  <1>2. r \in Requests /\ r.pc = "snapshot"
    <2>1. "snapshot" \in Points
      BY DEF Points, StatusPoints
    <2>2. r \in Requests
      BY <2>1, NoRequestType, PointUpdate
    <2> QED
      BY <2>2 DEF NoRequest
  <1> HIDE DEF r
  <1>3. WellFormed(r)
    BY <1>2 DEF WellFormed, SelectPoints, StreamPoints, RemovePoints
  <1>4. CoreTypes'
    BY <1>1, <1>3, RequestType DEF CoreTypes, TypeOK, Selections
  <1>5. selected' = selected \/ \E m \in Models : selected' = m /\ Choosing(m)
    BY <1>1 DEF Choosing, Model
  <1>6. ChoosesInstalled /\ RemovesUnselected
    BY <1>1, <1>2, <1>3, QuietRequest
  <1>7. SelectionStep
    BY <1>1, <1>5, <1>6 DEF SelectionStep, UninstallsRemoved
  <1>8. KeepsStreams
    BY <1>1, <1>2, <1>3, NoStreamTouched DEF StreamPoints
  <1> QED
    BY <1>4, <1>7, <1>8

LEMMA RemoveStep ==
    ASSUME TypeOK, NEW h \in Handlers, NEW m \in Models, Remove(h, m)
    PROVE  CoreTypes' /\ SelectionStep /\ KeepsStreams
  <1> DEFINE r == [NoRequest EXCEPT !.pc = "find", !.model = m,
                                    !.cached = selected, !.held = TRUE]
  <1>1. /\ request[h].pc = "idle" /\ selected # m
        /\ UNCHANGED <<installed, selected, jobs, orphaned>>
        /\ request' = [request EXCEPT ![h] = r]
    BY DEF Remove, At
  <1>2. r \in Requests
    <2>1. selected \in Selections /\ m \in Selections /\ "find" \in Points
      BY DEF TypeOK, Selections, Points, RemovePoints
    <2> QED
      BY <2>1, NoRequestType, RequestUpdates
  <1>3. r.pc = "find" /\ r.model = m
    BY DEF NoRequest
  <1> HIDE DEF r
  <1>4. WellFormed(r)
    BY <1>2, <1>3 DEF WellFormed
  <1>5. \A n \in Models : ~Chooses(r, n) /\ (Removes(r, n) => selected # n)
    BY <1>1, <1>3 DEF Chooses, Removes
  <1> QED
    BY <1>1, <1>3, <1>4, <1>5, PlainStep DEF StreamPoints

LEMMA FindInstalledStep ==
    ASSUME TypeOK, NEW h \in Handlers, FindInstalled(h)
    PROVE  CoreTypes' /\ SelectionStep /\ KeepsStreams
  <1>1. /\ request[h].pc = "find" /\ Model(h) \in Models
        /\ UNCHANGED <<installed, selected, jobs, orphaned>>
        /\ Answer(h) \/ Goto(h, "remove")
    BY DEF FindInstalled, At, TypeOK, Model, RemovePoints
  <1>2. CASE Answer(h)
    BY <1>1, <1>2, AnswerStep DEF StreamPoints
  <1>3. CASE Goto(h, "remove")
    <2> DEFINE r == [request[h] EXCEPT !.pc = "remove"]
    <2>1. request' = [request EXCEPT ![h] = r] /\ WellFormed(r)
      BY <1>1, <1>3, GotoType DEF Points, RemovePoints
    <2>2. r.pc = "remove" /\ r.model = Model(h)
      BY DEF TypeOK, Requests, Model
    <2> HIDE DEF r
    <2>3. \A m \in Models : ~Chooses(r, m) /\ (Removes(r, m) => Removing(m))
      BY <1>1, <2>2 DEF Chooses, Removes, Removing, RemovePoints, Model
    <2> QED
      BY <1>1, <2>1, <2>2, <2>3, PlainStep DEF StreamPoints
  <1> QED
    BY <1>1, <1>2, <1>3

LEMMA RemoveModelStep ==
    ASSUME TypeOK, NEW h \in Handlers, RemoveModel(h)
    PROVE  CoreTypes' /\ SelectionStep /\ KeepsStreams
  <1>1. /\ request[h].pc = "remove" /\ Model(h) \in Models
        /\ UNCHANGED <<selected, jobs, orphaned>>
        /\ installed' \in {installed, installed \ {Model(h)}}
    BY DEF RemoveModel, At, TypeOK, Model, RemovePoints
  <1>2. \E r : /\ request' = [request EXCEPT ![h] = r] /\ WellFormed(r)
               /\ r.pc \in {"idle", "snapshot"}
    <2>1. CASE Answer(h)
      BY <2>1, AnswerType, NoRequestType
    <2>2. CASE request' = [request EXCEPT ![h].pc = "snapshot", ![h].model = NoModel]
      <3> DEFINE r == [request[h] EXCEPT !.pc = "snapshot", !.model = NoModel]
      <3>1. /\ NoModel \in Selections /\ "snapshot" \in Points
            /\ request[h] \in Requests
        BY DEF TypeOK, Selections, Points, StatusPoints
      <3>2. r \in Requests /\ r.pc = "snapshot"
        BY <3>1, RequestUpdates DEF Requests
      <3>3. request' = [request EXCEPT ![h] = r]
        BY <2>2
      <3> HIDE DEF r
      <3>4. WellFormed(r)
        BY <3>2 DEF WellFormed, SelectPoints, StreamPoints, RemovePoints
      <3> QED
        BY <3>2, <3>3, <3>4
    <2> QED
      BY <2>1, <2>2 DEF RemoveModel
  <1>3. PICK r : /\ request' = [request EXCEPT ![h] = r] /\ WellFormed(r)
                 /\ r.pc \in {"idle", "snapshot"}
    BY <1>2
  <1>4. CoreTypes'
    BY <1>1, <1>3, RequestType DEF CoreTypes, TypeOK
  <1>5. ChoosesInstalled /\ RemovesUnselected
    BY <1>3, QuietRequest
  <1>6. Removing(Model(h))
    BY <1>1 DEF Removing, RemovePoints
  <1>7. SelectionStep
    BY <1>1, <1>5, <1>6 DEF SelectionStep, UninstallsRemoved
  <1>8. KeepsStreams
    BY <1>1, <1>3, NoStreamTouched DEF StreamPoints
  <1> QED
    BY <1>4, <1>7, <1>8

-----------------------------------------------------------------------------
(* The steps of an installation, and what happens around                   *)

(* A step of a stream changes no selection and removes no model.           *)
LEMMA StreamEffect ==
    ASSUME TypeOK, NEW h \in Handlers, NEW r, WellFormed(r),
           request' = [request EXCEPT ![h] = r],
           r.pc \in {"idle"} \union StreamPoints,
           UNCHANGED <<installed, selected>>,
           jobs' \in [Models -> Jobs], orphaned' \in SUBSET Models
    PROVE  CoreTypes' /\ SelectionStep
  <1>1. CoreTypes'
    BY RequestType DEF CoreTypes, TypeOK
  <1>2. SelectionStep
    BY QuietRequest DEF SelectionStep, UninstallsRemoved
  <1> QED
    BY <1>1, <1>2

(* The stream of m goes on, and so does its job.                           *)
StreamGoesOn(h) ==
    /\ request[h].pc \in StreamPoints /\ request'[h].pc \in StreamPoints
    /\ request'[h].model = request[h].model
    /\ \A g \in Handlers : g # h => request'[g] = request[g]
    /\ \A m \in Models : Running(m)' <=> Running(m)
    /\ UNCHANGED orphaned

(* The stream of m ends, and so does its job.                              *)
StreamEnds(h) ==
    /\ request[h].pc \in StreamPoints /\ request'[h].pc = "idle"
    /\ \A g \in Handlers : g # h => request'[g] = request[g]
    /\ jobs'[request[h].model].state \notin RunningStates
    /\ \A m \in Models : m # request[h].model => (Running(m)' <=> Running(m))
    /\ UNCHANGED orphaned

LEMMA GoesOnKeeps ==
    ASSUME TypeOK, JobInv, NEW h \in Handlers, StreamGoesOn(h)
    PROVE  JobInv'
  <1>1. \A g \in Handlers, m \in Models : Streams(g, m)' <=> Streams(g, m)
    BY DEF StreamGoesOn, Streams, Model
  <1>2. orphaned \subseteq Models
    BY DEF TypeOK
  <1> QED
    BY <1>1, <1>2 DEF JobInv, OneStreamPerModel, JobsHaveStreams, OrphansRun, StreamGoesOn

LEMMA EndsKeeps ==
    ASSUME TypeOK, JobInv, NEW h \in Handlers, StreamEnds(h)
    PROVE  JobInv'
  <1>1. \A g \in Handlers, m \in Models : Streams(g, m)' <=> Streams(g, m) /\ g # h
    BY DEF StreamEnds, Streams, Model, StreamPoints
  <1>2. Model(h) \in Models /\ Streams(h, Model(h))
    BY DEF TypeOK, StreamEnds, Streams, Model
  <1>3. OneStreamPerModel'
    BY <1>1 DEF JobInv, OneStreamPerModel
  <1>4. ASSUME NEW m \in Models
        PROVE  (\E g \in Handlers : Streams(g, m)') <=> Running(m)' /\ m \notin orphaned'
    <2>1. CASE m = Model(h)
      <3>1. \A g \in Handlers : ~Streams(g, m)'
        BY <1>1, <1>2, <2>1 DEF JobInv, OneStreamPerModel
      <3> QED
        BY <3>1, <2>1 DEF StreamEnds, Running, Model
    <2>2. CASE m # Model(h)
      <3>1. ~Streams(h, m)
        BY <2>2 DEF Streams
      <3> QED
        BY <1>1, <2>2, <3>1 DEF JobInv, JobsHaveStreams, StreamEnds, Model
    <2> QED
      BY <2>1, <2>2
  <1>5. JobsHaveStreams'
    BY <1>4 DEF JobsHaveStreams
  <1>6. Model(h) \notin orphaned
    BY <1>2 DEF JobInv, JobsHaveStreams
  <1>7. OrphansRun'
    BY <1>6 DEF JobInv, OrphansRun, StreamEnds, TypeOK, Model
  <1> QED
    BY <1>3, <1>5, <1>7 DEF JobInv

LEMMA EndEffect ==
    ASSUME TypeOK, JobInv, NEW h \in Handlers, request[h].pc \in StreamPoints,
           NEW state \in EndStates, End(h, state),
           UNCHANGED <<installed, selected, orphaned>>
    PROVE  CoreTypes' /\ SelectionStep /\ JobInv'
  <1>1. Model(h) \in Models
    BY DEF TypeOK, Model
  <1>2. /\ jobs' \in [Models -> Jobs] /\ jobs'[Model(h)].state = state
        /\ \A m \in Models : m # Model(h) => jobs'[m] = jobs[m]
        /\ Answer(h)
    BY <1>1, EndType
  <1>3. request' = [request EXCEPT ![h] = NoRequest] /\ WellFormed(NoRequest)
    BY <1>2, AnswerType
  <1>4. CoreTypes' /\ SelectionStep
    BY <1>2, <1>3, NoRequestType, StreamEffect DEF TypeOK
  <1>5. request'[h].pc = "idle" /\ \A g \in Handlers : g # h => request'[g] = request[g]
    BY <1>3, NoRequestType DEF TypeOK
  <1>6. \A m \in Models : m # Model(h) => (Running(m)' <=> Running(m))
    BY <1>2 DEF Running
  <1>7. jobs'[Model(h)].state \notin RunningStates
    BY <1>2 DEF RunningStates, EndStates
  <1>9. StreamEnds(h)
    BY <1>5, <1>6, <1>7 DEF StreamEnds, Model
  <1> QED
    BY <1>4, <1>9, EndsKeeps

LEMMA InstallStep ==
    ASSUME TypeOK, JobInv, NEW h \in Handlers, NEW m \in Models, Install(h, m)
    PROVE  CoreTypes' /\ SelectionStep /\ JobInv'
  <1> DEFINE job == [state |-> "checking", cancel |-> FALSE]
  <1>1. "inspect" \in Points /\ m \in Selections /\ Begin(h, "inspect", m)
    BY DEF Install, Points, StreamPoints, Selections
  <1>2. PICK r : /\ request' = [request EXCEPT ![h] = r] /\ WellFormed(r)
                 /\ r.pc = "inspect" /\ r.model = m /\ request[h].pc = "idle"
    BY <1>1, BeginType
  <1>3. job \in Jobs /\ job.state \in RunningStates
    BY DEF Jobs, RunningStates
  <1>4. jobs' \in [Models -> Jobs] /\ jobs'[m] = job
        /\ \A n \in Models : n # m => jobs'[n] = jobs[n]
    BY <1>3 DEF Install, TypeOK
  <1>5. UNCHANGED <<installed, selected, orphaned>>
    BY DEF Install
  <1>6. CoreTypes' /\ SelectionStep
    BY <1>2, <1>4, <1>5, StreamEffect DEF TypeOK, StreamPoints
  <1>7. request'[h] = r /\ \A g \in Handlers : g # h => request'[g] = request[g]
    BY <1>2 DEF TypeOK
  <1>8. \A g \in Handlers, n \in Models :
            Streams(g, n)' <=> Streams(g, n) \/ (g = h /\ n = m)
    BY <1>2, <1>7 DEF Streams, Model, StreamPoints
  <1>9. Running(m)' /\ \A n \in Models : n # m => (Running(n)' <=> Running(n))
    BY <1>3, <1>4 DEF Running
  <1>10. ~Running(m)
    BY DEF Install
  <1>11. \A g \in Handlers : ~Streams(g, m)
    BY <1>10 DEF JobInv, JobsHaveStreams
  <1>12. m \notin orphaned
    BY <1>10 DEF JobInv, OrphansRun
  <1>13. OneStreamPerModel'
    BY <1>8, <1>11 DEF JobInv, OneStreamPerModel
  <1>14. JobsHaveStreams'
    BY <1>5, <1>8, <1>9, <1>12 DEF JobInv, JobsHaveStreams
  <1>15. OrphansRun'
    BY <1>5, <1>9 DEF JobInv, OrphansRun, TypeOK
  <1> QED
    BY <1>6, <1>13, <1>14, <1>15 DEF JobInv

LEMMA InspectStep ==
    ASSUME TypeOK, JobInv, NEW h \in Handlers, Inspect(h)
    PROVE  CoreTypes' /\ SelectionStep /\ JobInv'
  <1>1. /\ request[h].pc = "inspect" /\ Model(h) \in Models
        /\ UNCHANGED <<installed, selected, orphaned>>
    BY DEF Inspect, At, TypeOK, Model, StreamPoints
  <1>2. CASE End(h, "ready") \/ End(h, "failed")
    BY <1>1, <1>2, EndEffect DEF EndStates, StreamPoints
  <1>3. CASE SetState(Model(h), "downloading") /\ Goto(h, "pull")
    <2> DEFINE r == [request[h] EXCEPT !.pc = "pull"]
    <2>1. "pull" \in Points /\ "downloading" \in RunningStates
      BY DEF Points, StreamPoints, RunningStates
    <2>2. request' = [request EXCEPT ![h] = r] /\ WellFormed(r)
      BY <1>1, <1>3, <2>1, GotoType
    <2>3. r.pc = "pull" /\ r.model = request[h].model
      BY DEF TypeOK, Requests
    <2> HIDE DEF r
    <2>4. /\ jobs' \in [Models -> Jobs] /\ jobs'[Model(h)].state = "downloading"
          /\ \A m \in Models : m # Model(h) => jobs'[m] = jobs[m]
      BY <1>1, <1>3, <2>1, SetStateType
    <2>5. CoreTypes' /\ SelectionStep
      BY <1>1, <2>2, <2>3, <2>4, StreamEffect DEF TypeOK, StreamPoints
    <2>6. Running(Model(h))
      BY <1>1 DEF JobInv, JobsHaveStreams, Streams, StreamPoints
    <2>7. \A m \in Models : Running(m)' <=> Running(m)
      BY <2>1, <2>4, <2>6 DEF Running
    <2>8. request'[h] = r /\ \A g \in Handlers : g # h => request'[g] = request[g]
      BY <2>2 DEF TypeOK
    <2>9. StreamGoesOn(h)
      BY <1>1, <2>3, <2>7, <2>8 DEF StreamGoesOn, StreamPoints
    <2> QED
      BY <2>5, <2>9, GoesOnKeeps
  <1> QED
    BY <1>2, <1>3 DEF Inspect

LEMMA PullEndsStep ==
    ASSUME TypeOK, JobInv, NEW h \in Handlers, PullEnds(h)
    PROVE  CoreTypes' /\ SelectionStep /\ JobInv'
  <1> DEFINE r == [request[h] EXCEPT !.pc = "verify"]
  <1>1. /\ request[h].pc = "pull" /\ Model(h) \in Models
        /\ UNCHANGED <<installed, selected, jobs, orphaned>> /\ Goto(h, "verify")
    BY DEF PullEnds, At, TypeOK, Model, StreamPoints
  <1>2. "verify" \in Points
    BY DEF Points, StreamPoints
  <1>3. request' = [request EXCEPT ![h] = r] /\ WellFormed(r)
    BY <1>1, <1>2, GotoType
  <1>4. r.pc = "verify" /\ r.model = request[h].model
    BY DEF TypeOK, Requests
  <1> HIDE DEF r
  <1>5. CoreTypes' /\ SelectionStep
    BY <1>1, <1>3, <1>4, StreamEffect DEF TypeOK, StreamPoints
  <1>6. request'[h] = r /\ \A g \in Handlers : g # h => request'[g] = request[g]
    BY <1>3 DEF TypeOK
  <1>7. StreamGoesOn(h)
    BY <1>1, <1>4, <1>6 DEF StreamGoesOn, StreamPoints, Running
  <1> QED
    BY <1>5, <1>7, GoesOnKeeps

LEMMA EndingSteps ==
    ASSUME TypeOK, JobInv, NEW h \in Handlers,
           StopPull(h) \/ Verify(h) \/ StreamFails(h)
    PROVE  CoreTypes' /\ SelectionStep /\ JobInv'
  <1>1. PICK state \in EndStates : End(h, state)
    BY DEF StopPull, Verify, StreamFails, EndStates
  <1>2. request[h].pc \in StreamPoints /\ UNCHANGED <<installed, selected, orphaned>>
    BY DEF StopPull, Verify, StreamFails, At, StreamPoints
  <1> QED
    BY <1>1, <1>2, EndEffect

(* A stream that dies leaves a running job, which is an orphan from then on. *)
LEMMA StreamDiesStep ==
    ASSUME TypeOK, JobInv, NEW h \in Handlers, StreamDies(h)
    PROVE  CoreTypes' /\ SelectionStep /\ JobInv'
  <1>1. /\ request[h].pc \in StreamPoints /\ Model(h) \in Models /\ Answer(h)
        /\ orphaned' = orphaned \union {Model(h)}
        /\ UNCHANGED <<installed, selected, jobs>>
    BY DEF StreamDies, TypeOK, Model
  <1>2. request' = [request EXCEPT ![h] = NoRequest] /\ WellFormed(NoRequest)
    BY <1>1, AnswerType
  <1>3. CoreTypes' /\ SelectionStep
    BY <1>1, <1>2, NoRequestType, StreamEffect DEF TypeOK
  <1>4. request'[h].pc = "idle" /\ \A g \in Handlers : g # h => request'[g] = request[g]
    BY <1>2, NoRequestType DEF TypeOK
  <1>5. \A g \in Handlers, m \in Models : Streams(g, m)' <=> Streams(g, m) /\ g # h
    BY <1>4 DEF Streams, Model, StreamPoints
  <1>6. Streams(h, Model(h)) /\ \A m \in Models : Streams(h, m) => m = Model(h)
    BY <1>1 DEF Streams
  <1>7. OneStreamPerModel'
    BY <1>5 DEF JobInv, OneStreamPerModel
  <1>8. Running(Model(h))
    BY <1>1, <1>6 DEF JobInv, JobsHaveStreams
  <1>9. \A m \in Models : Running(m)' <=> Running(m)
    BY <1>1 DEF Running
  <1>10. ASSUME NEW m \in Models
         PROVE  (\E g \in Handlers : Streams(g, m)') <=> Running(m)' /\ m \notin orphaned'
    <2>1. CASE m = Model(h)
      <3>1. \A g \in Handlers : ~Streams(g, m)'
        BY <1>1, <1>5, <1>6, <2>1 DEF JobInv, OneStreamPerModel
      <3> QED
        BY <1>1, <2>1, <3>1
    <2>2. CASE m # Model(h)
      <3>1. (\E g \in Handlers : Streams(g, m)') <=> \E g \in Handlers : Streams(g, m)
        BY <1>5, <1>6, <2>2
      <3> QED
        BY <1>1, <1>9, <2>2, <3>1 DEF JobInv, JobsHaveStreams
    <2> QED
      BY <2>1, <2>2
  <1>11. JobsHaveStreams'
    BY <1>10 DEF JobsHaveStreams
  <1>12. OrphansRun'
    BY <1>1, <1>8, <1>9 DEF JobInv, OrphansRun, TypeOK
  <1> QED
    BY <1>3, <1>7, <1>11, <1>12 DEF JobInv

(* Steps that leave the requests alone.                                    *)
LEMMA OthersEffect ==
    ASSUME TypeOK, JobInv, UNCHANGED <<selected, request, orphaned>>,
           installed' \in SUBSET Models, jobs' \in [Models -> Jobs],
           \A m \in Models : Running(m)' <=> Running(m),
           \A m \in installed : m \in installed' \/ m \in excused'
    PROVE  CoreTypes' /\ SelectionStep /\ JobInv'
  <1>1. CoreTypes'
    BY DEF CoreTypes, TypeOK
  <1>2. /\ \A m \in Models : Choosing(m)' <=> Choosing(m)
        /\ \A m \in Models : Removing(m)' <=> Removing(m)
        /\ \A h \in Handlers, m \in Models : Streams(h, m)' <=> Streams(h, m)
    BY DEF Choosing, Removing, Streams, At, Model
  <1>3. SelectionStep
    BY <1>2 DEF SelectionStep, ChoosesInstalled, RemovesUnselected, UninstallsRemoved
  <1>4. orphaned \subseteq Models
    BY DEF TypeOK
  <1>5. JobInv'
    BY <1>2, <1>4 DEF JobInv, OneStreamPerModel, JobsHaveStreams, OrphansRun
  <1> QED
    BY <1>1, <1>3, <1>5

LEMMA CancelStep ==
    ASSUME TypeOK, JobInv, NEW m \in Models, Cancel(m)
    PROVE  CoreTypes' /\ SelectionStep /\ JobInv'
  <1> DEFINE job == [jobs[m] EXCEPT !.cancel = TRUE]
  <1>1. jobs' = [jobs EXCEPT ![m] = job]
        /\ UNCHANGED <<installed, selected, request, orphaned>>
    BY DEF Cancel
  <1>2. job \in Jobs /\ job.state = jobs[m].state
    BY DEF TypeOK, Jobs
  <1> HIDE DEF job
  <1>3. jobs' \in [Models -> Jobs] /\ \A n \in Models : jobs'[n].state = jobs[n].state
    BY <1>1, <1>2 DEF TypeOK
  <1>4. \A n \in Models : Running(n)' <=> Running(n)
    BY <1>3 DEF Running
  <1> QED
    BY <1>1, <1>3, <1>4, OthersEffect DEF TypeOK

LEMMA ProviderSteps ==
    ASSUME TypeOK, JobInv, NEW h \in Handlers,
           ModelArrives(h) \/ \E state \in RunningStates : PullLine(h, state)
    PROVE  CoreTypes' /\ SelectionStep /\ JobInv'
  <1>1. CASE ModelArrives(h)
    <2>1. /\ installed' = installed \union {Model(h)} /\ Model(h) \in Models
          /\ UNCHANGED <<selected, jobs, request, orphaned>>
      BY <1>1 DEF ModelArrives, At, TypeOK, Model, StreamPoints
    <2>2. \A m \in Models : Running(m)' <=> Running(m)
      BY <2>1 DEF Running
    <2> QED
      BY <2>1, <2>2, OthersEffect DEF TypeOK
  <1>2. CASE \E state \in RunningStates : PullLine(h, state)
    <2>1. PICK state \in RunningStates : PullLine(h, state)
      BY <1>2
    <2>2. /\ request[h].pc = "pull" /\ Model(h) \in Models /\ SetState(Model(h), state)
          /\ UNCHANGED <<installed, selected, request, orphaned>>
      BY <2>1 DEF PullLine, At, TypeOK, Model, StreamPoints
    <2>3. /\ jobs' \in [Models -> Jobs] /\ jobs'[Model(h)].state = state
          /\ \A m \in Models : m # Model(h) => jobs'[m] = jobs[m]
      BY <2>2, SetStateType
    <2>4. Running(Model(h))
      BY <2>2 DEF JobInv, JobsHaveStreams, Streams, StreamPoints
    <2>5. \A m \in Models : Running(m)' <=> Running(m)
      BY <2>3, <2>4 DEF Running
    <2> QED
      BY <2>2, <2>3, <2>5, OthersEffect DEF TypeOK
  <1> QED
    BY <1>1, <1>2

LEMMA CrashStep ==
    ASSUME TypeOK, JobInv, Crash
    PROVE  CoreTypes' /\ SelectionStep /\ JobInv'
  <1>1. /\ jobs' = [m \in Models |-> NoJob] /\ request' = [h \in Handlers |-> NoRequest]
        /\ orphaned' = {} /\ UNCHANGED <<installed, selected>>
    BY DEF Crash
  <1>2. NoJob \in Jobs /\ NoJob.state \notin RunningStates
    BY DEF NoJob, Jobs, RunningStates
  <1>3. CoreTypes'
    BY <1>1, <1>2, NoRequestType DEF CoreTypes, TypeOK, SelectPoints, StreamPoints,
                                     RemovePoints
  <1>4. \A h \in Handlers : request'[h].pc = "idle"
    BY <1>1, NoRequestType
  <1>5. \A m \in Models : ~Choosing(m)' /\ ~Removing(m)'
    BY <1>4 DEF Choosing, Removing, At, RemovePoints
  <1>6. SelectionStep
    BY <1>1, <1>5 DEF SelectionStep, ChoosesInstalled, RemovesUnselected,
                      UninstallsRemoved
  <1>7. \A h \in Handlers, m \in Models : ~Streams(h, m)'
    BY <1>4 DEF Streams, StreamPoints
  <1>8. \A m \in Models : ~Running(m)'
    BY <1>1, <1>2 DEF Running
  <1>9. JobInv'
    BY <1>1, <1>7, <1>8 DEF JobInv, OneStreamPerModel, JobsHaveStreams, OrphansRun
  <1> QED
    BY <1>3, <1>6, <1>9

-----------------------------------------------------------------------------
(* The invariants                                                          *)

(* The one argument about the selection: whatever a step does that chooses *)
(* only what was installed when it was listed, removes only what is not    *)
(* selected, and selects only what it has chosen, keeps SelectionInv.      *)
LEMMA SelectionPreserved ==
    ASSUME TypeOK, SelectionInv, SelectionStep, NEW models \in SUBSET Models,
           Excuse(models), selected' \in Selections
    PROVE  SelectionInv'
  <1>1. \A m \in excused : m \in excused' \/ (m \in installed' /\ ~Removing(m)')
    BY DEF Excuse, Settled
  <1>2. RacesAreExcused'
    BY DEF Excuse, RacesAreExcused
  <1>3. \A m \in Models : Choosing(m) /\ Removing(m) => m \in excused
    BY DEF SelectionInv, RacesAreExcused, Races
  <1>4. ASSUME NEW m \in Models, selected' = m
        PROVE  m \in installed' \union excused'
    <2>1. CASE selected = m
      <3>1. m \in installed \union excused
        BY <2>1, ModelsAssumption DEF SelectionInv, SelectionIsInstalled
      <3>2. CASE m \in installed /\ Removing(m)
        BY <1>1, <2>1, <3>2 DEF SelectionInv, RemovedIsUnselected
      <3> QED
        BY <1>1, <3>1, <3>2 DEF SelectionStep, UninstallsRemoved
    <2>2. CASE Choosing(m)
      <3>1. m \in installed \union excused
        BY <2>2 DEF SelectionInv, ChoiceIsInstalled
      <3>2. CASE m \in installed /\ Removing(m)
        BY <1>1, <1>3, <2>2, <3>2
      <3> QED
        BY <1>1, <3>1, <3>2 DEF SelectionStep, UninstallsRemoved
    <2> QED
      BY <1>4, <2>1, <2>2, ModelsAssumption DEF SelectionStep
  <1>5. SelectionIsInstalled'
    BY <1>4 DEF SelectionIsInstalled, Selections
  <1>6. ASSUME NEW m \in Models, Choosing(m)'
        PROVE  m \in installed' \union excused'
    <2>1. CASE Choosing(m)
      <3>1. m \in installed \union excused
        BY <2>1 DEF SelectionInv, ChoiceIsInstalled
      <3>2. CASE m \in installed /\ Removing(m)
        BY <1>1, <1>3, <2>1, <3>2
      <3> QED
        BY <1>1, <3>1, <3>2 DEF SelectionStep, UninstallsRemoved
    <2> QED
      BY <1>6, <2>1 DEF SelectionStep, ChoosesInstalled
  <1>7. ChoiceIsInstalled'
    BY <1>6 DEF ChoiceIsInstalled
  <1>8. ASSUME NEW m \in Models, Removing(m)', selected' = m
        PROVE  m \in excused'
    <2>1. Removing(m)
      BY <1>8 DEF SelectionStep, RemovesUnselected
    <2>2. selected = m \/ Choosing(m)
      BY <1>8, ModelsAssumption DEF SelectionStep
    <2>3. m \in excused
      BY <1>3, <2>1, <2>2 DEF SelectionInv, RemovedIsUnselected
    <2> QED
      BY <1>1, <1>8, <2>3
  <1>9. RemovedIsUnselected'
    BY <1>8 DEF RemovedIsUnselected
  <1> QED
    BY <1>2, <1>5, <1>7, <1>9 DEF SelectionInv

LEMMA StreamsKept ==
    ASSUME TypeOK, JobInv, KeepsStreams
    PROVE  JobInv'
  <1>1. \A m \in Models : Running(m)' <=> Running(m)
    BY DEF KeepsStreams, Running
  <1>2. orphaned \subseteq Models
    BY DEF TypeOK
  <1> QED
    BY <1>1, <1>2 DEF KeepsStreams, JobInv, OneStreamPerModel, JobsHaveStreams, OrphansRun

LEMMA Steps ==
    ASSUME TypeOK, JobInv, Next
    PROVE  CoreTypes' /\ SelectionStep /\ JobInv' /\ \E X \in SUBSET Models : Excuse(X)
  <1>1. ASSUME NEW h \in Handlers, StreamStep(h)
        PROVE  CoreTypes' /\ SelectionStep /\ JobInv' /\ Excuse({})
    BY <1>1, InspectStep, PullEndsStep, EndingSteps DEF StreamStep
  <1>2. ASSUME NEW h \in Handlers, RequestStep(h)
        PROVE  CoreTypes' /\ SelectionStep /\ JobInv' /\ Excuse({})
    BY <1>2, SnapshotStep, ReadSettingsStep, HealStep, CheckInstalledStep,
       ReadSelectionStep, ChooseStep, FindInstalledStep, RemoveModelStep, StreamsKept
       DEF RequestStep
  <1>3. ASSUME Client
        PROVE  CoreTypes' /\ SelectionStep /\ JobInv' /\ Excuse({})
    BY <1>3, GetStatusStep, StreamDiesStep, SelectStep, RemoveStep, InstallStep,
       CancelStep, StreamsKept DEF Client
  <1>4. ASSUME Surroundings
        PROVE  CoreTypes' /\ SelectionStep /\ JobInv'
               /\ (Excuse({}) \/ Excuse(installed \ installed'))
    <2>1. CASE ExternalChange /\ Excuse(installed \ installed')
      <3>1. /\ installed' \in SUBSET Models
            /\ UNCHANGED <<selected, jobs, request, orphaned>>
        BY <2>1 DEF ExternalChange
      <3>2. \A m \in installed : m \in installed' \/ m \in excused'
        BY <2>1 DEF Excuse
      <3>3. \A m \in Models : Running(m)' <=> Running(m)
        BY <3>1 DEF Running
      <3> QED
        BY <2>1, <3>1, <3>2, <3>3, OthersEffect DEF TypeOK
    <2> QED
      BY <1>4, <2>1, ProviderSteps, CrashStep DEF Surroundings
  <1>5. installed \ installed' \in SUBSET Models /\ {} \in SUBSET Models
    BY DEF TypeOK
  <1> QED
    BY <1>1, <1>2, <1>3, <1>4, <1>5 DEF Next

IInv == TypeOK /\ JobInv /\ SelectionInv

LEMMA InitIInv == Init => IInv
  <1> SUFFICES ASSUME Init PROVE IInv
    OBVIOUS
  <1>1. NoJob \in Jobs /\ NoJob.state \notin RunningStates
    BY DEF NoJob, Jobs, RunningStates
  <1>2. \A h \in Handlers : request[h] = NoRequest
    BY DEF Init
  <1>3. TypeOK
    BY <1>1, NoRequestType DEF Init, TypeOK, Selections, SelectPoints, StreamPoints,
                               RemovePoints
  <1>4. \A m \in Models : ~Running(m)
    BY <1>1 DEF Init, Running
  <1>5. \A h \in Handlers, m \in Models : ~Streams(h, m)
    BY <1>2, NoRequestType DEF Streams, StreamPoints
  <1>6. JobInv
    BY <1>4, <1>5 DEF JobInv, OneStreamPerModel, JobsHaveStreams, OrphansRun, Init
  <1>7. \A m \in Models : ~Choosing(m) /\ ~Removing(m)
    BY <1>2, NoRequestType DEF Choosing, Removing, At, RemovePoints
  <1>8. SelectionInv
    BY <1>7 DEF SelectionInv, SelectionIsInstalled, ChoiceIsInstalled,
                RemovedIsUnselected, RacesAreExcused, Races, Init
  <1> QED
    BY <1>3, <1>6, <1>8 DEF IInv

LEMMA NextIInv == IInv /\ [Next]_vars => IInv'
  <1> SUFFICES ASSUME IInv, [Next]_vars PROVE IInv'
    OBVIOUS
  <1>1. CASE Next
    <2>1. /\ CoreTypes' /\ SelectionStep /\ JobInv'
          /\ \E X \in SUBSET Models : Excuse(X)
      BY <1>1, Steps DEF IInv
    <2>2. excused' \in SUBSET Models
      BY <2>1, ExcuseType DEF IInv
    <2>3. TypeOK'
      BY <2>1, <2>2 DEF CoreTypes, TypeOK
    <2>4. SelectionInv'
      BY <2>1, SelectionPreserved DEF IInv, CoreTypes
    <2> QED
      BY <2>1, <2>3, <2>4 DEF IInv
  <1>2. CASE UNCHANGED vars
    <2>1. TypeOK'
      BY <1>2 DEF IInv, TypeOK, vars
    <2>2. JobInv'
      BY <1>2 DEF IInv, JobInv, OneStreamPerModel, JobsHaveStreams, OrphansRun,
                  Streams, Running, Model, vars
    <2>3. SelectionInv'
      BY <1>2 DEF IInv, SelectionInv, SelectionIsInstalled, ChoiceIsInstalled,
                  RemovedIsUnselected, RacesAreExcused, Races, Choosing, Removing,
                  At, Model, vars
    <2> QED
      BY <2>1, <2>2, <2>3 DEF IInv
  <1> QED
    BY <1>1, <1>2

(* The rows, jobs and requests are what the code says they are, for any    *)
(* models and any number of requests.                                      *)
THEOREM TypeCorrect == Spec => []TypeOK
  <1>1. IInv => TypeOK
    BY DEF IInv
  <1> QED
    BY <1>1, InitIInv, NextIInv, PTL DEF Spec

(* A model has at most one stream, and its job is in progress exactly while *)
(* that stream lives or after it died.                                     *)
THEOREM JobsFollowStreams == Spec => []JobsMatchStreams
  <1>1. IInv => JobsMatchStreams
    BY DEF IInv, JobInv, JobsMatchStreams
  <1> QED
    BY <1>1, InitIInv, NextIInv, PTL DEF Spec

(* The selected model is installed, unless it was removed while it was     *)
(* being selected, or by another program.                                  *)
THEOREM SelectedIsInstalled == Spec => []SelectionIsInstalled
  <1>1. IInv => SelectionIsInstalled
    BY DEF IInv, SelectionInv
  <1> QED
    BY <1>1, InitIInv, NextIInv, PTL DEF Spec
=============================================================================

# GoldenSon: TLA+ models and proofs

GoldenSon is a local-first workspace: a FastAPI server with a SQLite database, a React client, a
language model behind a local provider (Ollama), and an AI agent whose changes need the user's approval. This
directory holds TLA+ models of its state machines, the TLC configurations that check them and TLAPS proofs about them.
Paths below are relative to `src/`; `B/` is `apps/api/src/goldenson_api/`, `W/` is `apps/web/src/`.

    AgentRuns           the requests about one agent run (agent/service.py)
    ApprovalGate        what the approval of changes promises; AgentRuns implements it
    AgentRunsHistory    AgentRuns with a history: whether anybody has reconnected
    Assistant           the assistant panel of the client, its streams, and AgentRuns behind them
    AssistantHistory    Assistant with a history: whether an old stream has reset the panel
    AgentProofs         all properties of AgentRuns and the safety properties of Assistant
    PageIndex           the search index of a page, its background tasks, the vector table all pages share
    PageIndexProofs     types, one model, texts of vectors, ready pages, waiting pages
    Retrieval           ranking, choice and refusal of sources
    RetrievalProofs     nothing better is left out, answers are grounded, the best related pages
    PageTree            the hierarchy of pages under concurrent moves, creations and deletions, and the client's tree of it
    PageTreeProofs      types, parents exist in the right workspace, no cycles unless moves cross, a complete sidebar
    BlockOrder          the order of the blocks of a page
    BlockOrderProofs    unique positions, inserts, reorders, conflicts
    FileStore           rows and contents of files, their index tasks
    FileStoreProofs     types, rows have contents, contents have owners, deletions find contents, old tasks write nothing
    ModelInstall        installed models, the selected one, installations under way
    ModelInstallProofs  types, jobs follow streams, the selected model is installed
    Editor              a block, its editors and the list they share
    EditorProofs        types, no conflict with oneself, nothing lost silently, nothing newer overwritten
    MC*                 values of the constants for TLC

## The system

### What all server components share

* One process, one asyncio event loop. Between two awaits a coroutine is atomic. Every database call
  and every call of the provider is an await, so requests and background tasks interleave there.
* Every request and every background task has its own session (`B/db/session.py`,
  `expire_on_commit=False`). SQLite is in its default mode: a SELECT before the first write sees the
  last commit and takes no lock, the first INSERT, UPDATE or DELETE begins a transaction, and
  write transactions are serialised. Hence the rule used in every module: **each read before a request's
  first write is a step of its own; from the first write to the commit is one step.**
* A session keeps the objects it loaded as long as somebody refers to them (the identity map is weak).
  Reading a row again returns the kept object *with its old attributes*; `refresh()` and
  `rollback()` are what renews it; a flush writes only the columns that differ from what was loaded. `cached`
  in AgentRuns and PageIndex and `held` in PageTree are these objects.
* `run_mutation` (`B/api/transaction.py`) commits a service's work or rolls all of it back.
* Foreign keys are on (`B/db/session.py`); deletes cascade.

### Components

| component | state | operations | hard about it | correct when |
|---|---|---|---|---|
| Agent runs (`B/agent/service.py`, `B/api/agent.py`, `B/db/repositories/agent_audit_repository.py`) | rows of runs and tool calls; `_active_run_ids`, `_cancel_events` in memory | run, decide, reconnect, cancel; the segment loop | concurrent requests on one run, stale run objects, lost clients, restarts between commits, the time budget | only approved changes are made, once; the audit trail is true; one segment at a time; limits hold; a run ends |
| Page indexing (`B/services/knowledge_service.py`, `B/api/knowledge_tasks.py`) | PageKnowledge, chunks; vectors and their configuration, shared by all pages | mark pending, index (three sessions), retry, delete, search | tasks race with edits, searches and each other, provider outages, restarts, other embedding configurations | a ready page is searchable as it is now; vectors of two models never mix; a waiting page has a task; waiting ends |
| Page hierarchy (`B/services/page_service.py`, `B/db/repositories/page_repository.py`, `W/components/pages/tree.ts`) | parent and version of every page | create, rename, move, delete; list and show | the cycle check reads a tree that changes | no cycles, one workspace, no dangling parent, every page shown |
| Block ordering (`B/services/block_service.py`, `B/db/repositories/block_repository.py`) | position and version of every block | create, reorder, update, delete | UNIQUE(page, position) is checked row by row; reads before writes | requested order, no false conflict |
| Files (`B/services/file_service.py`, `B/storage/local_storage.py`, `B/api/files.py`) | rows, stored contents, their index status | upload, delete, retry, index (three sessions) | database and disk do not commit together | every row has its content; contents do not leak; deletions meet once; indexing ends |
| Local models (`B/local_ai/service.py`, `B/local_ai/runtime.py`) | installation jobs, selected model, the provider's models | install, cancel, select, remove | streams aborted half way, cancellation, races with removal | one stream per model; a running job has a stream; the selected model is installed |
| Ollama installer (`B/local_ai/installer.py`) | a downloaded program | install, start | none of its own: I/O | |
| Block editor (`W/components/blocks/InlineEditableBlock.tsx`) | pending content, version, save in flight, the cached list | open, edit, save, reload, leave | saves in flight while typing, lists that arrive late, conflicts, lost answers | nothing typed is lost silently; nothing newer is overwritten |
| Assistant panel (`W/components/assistant/AssistantPanel.tsx`, `W/api/agent.ts`, `B/api/agent.py`) | conversation, proposal, running, run id, the controller of one stream | ask, decide, cancel, read events | streams that outlive their `done`, aborts the server notices late or never, decisions that fail after they were claimed | the panel comes back; proposals are not hidden; answers do not mix |
| Retrieval (`B/retrieval/service.py`, the sources of `B/agent/service.py`) | none | search, choose sources before and after an answer, related pages | order, compaction and cut together; two choices from two sets of scores | nothing better is left out; an answer has evidence or is refused; shown sources stay |
| Client shell (`W/App.tsx`) | lists of pages | the requests above | | presentation |
| Inference (`B/inference/`) | none | complete, embed | I/O | |
| Workspaces | rows | create, list | none: one statement each | |
| Schema, configuration, errors | none | | | |

Clients send requests to the API; page, block and agent requests write pages and blocks; the endpoints of `B/api/pages.py` and
`B/api/blocks.py` queue `index_page` tasks after their commit; the agent's approved tools
(`B/agent/tools.py`) call the same services inside one transaction with their audit row, without queueing tasks. Deleting a page cascades to its
subpages, blocks, chunks and index records. `CommitUpload` and the `MarkPending` of FileStore and of PageIndex queue the tasks of the same
`B/api/knowledge_tasks.py`. The editor sends the PATCH whose server side, with the reads before it, is `EditBlock` and `MoveBlock` of BlockOrder.

`PROJECT.json` lists every component with its status, every hazard at its line, and for each definition the lines
it models.

## The modules and the code

### AgentRuns

Runs share nothing, so the module follows one. `run` and `calls` are the rows; `applies` counts how often a call's change was committed;
`active`, `event` and `cancelSet` are the process memory (`_active_run_ids`, `_cancel_events`, the
event objects); `pc`, `cached` and `local` are each request's position, its session's AgentRun object and its
arguments. Messages are abstracted to the set of calls whose result they hold (`answers`), and
`remaining_seconds` to whether any are left (`expired`).

* `RunAgent`, `Activate`, `SegmentStart`, `LoopTop`, `SeeCancel`, `ProviderResponds`, `CreateChangeCall`,
  `CreateReadCall`, `LimitReached`, `Propose`, `ReadToolReturns`, `SegmentFails`, `FinishAnswer`, `Close`: `run`,
  `_activate_and_execute`, `_execute_segment` and `_run_loop`, one action from an await to the next that matters.
* `Decide` ... `SaveRejected`: `decide` with the claim (call and run in one transaction),
  the execution (change and audit row in one transaction) and the save of the result (another one).
* `Reconnect`, `Transition`, `Reload`; `Cancel`.
* `DisconnectAtAwait` with `AbortSave`, `DisconnectAtYield`, `DisconnectOutside`: a lost client cancels the
  request inside an await, suspended at a yield, or before it is active. `Crash`: a restart empties the memory.

`Save` is a flush: `Written` keeps the columns the session did not change, so a stale object overwrites
exactly what the code overwrites.

`ApprovalGate` is the promise alone: a call is asked, decided at most once, and applied at
most once and only if approved. `Gate!Spec` under `decision <- state of the call, effect <- applies` is the
property `ImplementsGate`.

### Assistant

`AssistantSpec` composes the panel with `AgentRuns`: a `stream` is one request of the panel and the answer to it, carried by one handler of
AgentRuns. `Serve` is a step of that handler, of which `Said` and `Ends` say what it yields: the events of the segment's end, the error of a failed
change, the end of the response, or a broken one, because a conflict is raised after the response has started. The panel takes the events one by one
(`HandleEvent`) and sees the end after them (`StreamEnds`, the `catch` and `finally` of `submit` and `decide`). `panel` is the component's state, with
`controller` for `controllerRef`; `conversation` keeps whose answers each message holds. `Submit`, `DecideProposal` and `CancelRequest` are the buttons;
`posted` is a cancel on its way to `TakeUpCancel`. `NoticeAbort` is a fault of AgentRuns restricted to aborted streams, and `Vanish` an aborted request that
never reaches the server. The question answered `Elsewhere` has a run of its own, of which `OtherRun` gives only the events: text or an error, no proposals.

### PageIndex

One page with its title (chunk `page:0`) and its blocks; a text is the number of its revision. A `task` is one
run of `index_page` with its `pc` over the three sessions: pending, start, mark (first), page,
content, index, chunks, embed, recheck, refresh, write (second), fail, mark_failed (third). The PageKnowledge object of the
session is `cached`. `UpdatePage`, `ChangeBlocks`, `DeletePage` are the endpoints, `Reindex`, `ReadRecord` and `MarkPending` the retry, which reads the page, then the record,
and marks it. `AgentEdit` is an edit by an approved tool, `TimeOut` the `asyncio.timeout` of the task, `Crash` a restart. `DatabaseFails` is the failure of a session that nobody
repeats: the first one (knowledge_tasks.py:29-34), the one that is to report a failure (50-54), or an endpoint's. Sessions may commit between any read of another and its write. `vectors` is the virtual table without
foreign keys, `chunks` the rows with them. Each chunk and each vector names the embedding model it is of, `model` is the configured one and `config` the row of
knowledge_index_config: who finds another configuration there drops the table (`EnsureTable`, `Kept`). A restart may come with another model (`Crash`), `StartSearch` and
`SearchTable` are `semantic_search` for the agent, `OthersIndex` any other page or workspace that is the first to use the new model. `Searchable` is what the
query of `semantic_search` selects. Four histories: `lost` (a task was lost to a restart or to a session that failed before the work, or an edit by the agent had none), `forgotten` (a failure
was not reported, or a retry was queued with a version of the page that an edit had outdated), `overtaken` (a session wrote over a generation it had not seen) and `stripped` (vectors were lost
to somebody else's DROP or in a race with a search, and have not all been embedded again).

### PageTree

`parent` and `version` of every page. A move reads the page, the new parent, and walks up with
`is_descendant`, one read per step (`WalkUp`), before the UPDATE that compares the version of the moved page only
(`UpdateParent`). A page deleted during the walk ends it like a root (`WalkEnds`), as `get_by_id` returns None. The parent asked for is
held by the session, so its own parent is the one first read (`held`). `ListPages` and `EraseSubtree` are
`delete_page` with ON DELETE CASCADE. `Listing`, `Roots` and `Shown` are the endpoint's listing and `buildPageTree` with its rendering: pages whose parent is not
in the listing are roots, and only what hangs from a root is shown. The constant `Movers` names the requests that may move pages.

### BlockOrder

`rows` are the blocks in rowid order, because SQLite checks UNIQUE(page_id, position) row by row in that order:
`OffsetConflict` and `TargetConflict` decide whether an UPDATE of many rows meets another row on its way. `Create` and
`Reorder` are the reads before the first write, `AppendBlock`, `InsertBlock`, `Measure`, `ReorderBlocks` what follows, `EditBlock`, `MoveBlock` and
`DeleteBlock` the other operations.

### Retrieval

A search is a pure function of a reading, which says which query words each page, block and file holds, and how near its vectors are. `Candidates`, `Compacted` and the
cut at the limit are `search`. `ShowSources` to `FinishAnswer` are what a segment of the agent makes of it: the sources chosen before the answer, whether evidence is required (`required`), the
reads that lift that, the refusal, the second choice. A request to create a page is not searched for (`SkipSearch`), and is turned into a proposal at once if a title is found in it ("create").
A segment after a decision or a reconnect (`Decided`, `Reconnected`; `resumed`) has no search and requires nothing. `Gathered` and `ListRelated` are `related`, over several passages. The
definitions follow the code's sorts with their tie-breaks, and the properties compare the results with the sets they were taken from.

### FileStore

A handler is a request and then the background task it has queued. `rows` are the FileMetadata rows, `disk` what the storage directory holds of
each key ("temporary" is the hidden file of `store_upload`), `request` a position, a generation and the row its session has loaded.

* `StartUpload`, `StoreUpload`, `UploadFails`, `CommitUpload`, `RollbackUpload`: `upload_file`, from the temporary file over the rename to the
  commit or to `on_failure`; `AgentCreate`: `create_text_file` inside the transaction of an approved tool.
* `StartDelete`, `DeleteRow`, `DeleteRefused`, `Unlink`: the row and its commit first, then `cleanup_file`.
* `StartRetry`, `MarkPending`, `RetryRefused`, and the three sessions of `index_file`: `ReadForMark`, `MarkIndexing`, `MarkFails`;
  `FindFile`, `ReadContent`, `Refresh`, `WriteText`, `IndexFails`; `ReadForFailure`, `MarkFailed`, `FailureNotMarked`.
* `littered` and `forgotten` are histories: contents left, and tasks lost, by accidents.

### ModelInstall

`installed` belongs to the provider, `selected` is a row of the database and `jobs` are `_installation_jobs` in memory; no lock covers two of them.
`GetStatus`, `Snapshot`, `ReadSettings`, `Heal` are `get_status` with its automatic selection, which also ends `select_model` (`Select`,
`CheckInstalled`, `ReadSelection`, `Choose`) and `remove_model` (`Remove`, `FindInstalled`, `RemoveModel`). `held` says that the caller still
refers to the settings row, so that `get_status` sees the old one. `Install` to `Verify` is the stream of `install_model`;
`StreamDies` the client that aborts it, which writes no end into the job. `Cancel` only sets the event. `Listings` is what a look at the
provider may show: its models, or nothing during an outage. The histories: `orphaned` (models whose job has lost its stream) and `excused`
(models removed while a selection of them was under way, or by other programs), computed at each step from `Races`, and forgotten when the model is
installed and nobody removes it (`Settled`).

### Editor

`server` is the row of the block, `list` the block in the client's cached list, `loading` the answer to the latest request for that list, `editor` the refs of
`InlineEditableBlock`, one record per visit of the page: a save under way outlives the visit. `saving` is how far the loop of `save` has come:
sent, stored or rejected, the invalidation of the list, then `Continue` with the next pending content or `Stop`. `Unchanged` is the early return,
which compares with the list and not with what is being saved. `Continue` does not wait for the list: a reload may fail or be replaced, and
`mutateAsync` returns then too. `OthersWrite` and `Reorder` raise the version behind the editor's back. `saved`, `latest`, `reverted`, `unsure` are
histories: what was opened or found stored last and its version, whether the early return dropped the last edit (it compared with a list that does not show what is stored or being sent),
whether an answer was lost.

## The runs

`tlc -config <cfg> <module>`; numbers are distinct states.

| run | instance | states | shows |
|---|---|---|---|
| agent_concurrent | 2 requests, 2 calls, limit 2, everything may happen | 329 302 | gate, audit, mutual exclusion, a waiting run has a pending call, an ended run stays ended once its requests are over; transcript and one pending call until somebody reconnects |
| assistant | 2 connections and one elsewhere, 2 questions, 2 calls, limit 1, aborts and cancels | 220 087 | the panel settles, in every state a waiting run has its proposal on the way and what is offered can be decided, until a cancel or a new question; answers do not mix before a stream is overtaken; approved changes and segments end, within the limit |
| agent_lost_cancel | as agent_concurrent | | a cancelled run comes back (finding 1) |
| page_index_edits | 2 tasks, title and 1 block, 2 revisions, 2 generations; edits, deleted blocks, retries, outages | 1 813 733 | ready is current, vectors match, a waiting page has a task |
| page_index_liveness | 2 tasks, 2 models, 1 revision, retries, failing sessions, timeouts, restarts, searches, other pages, the agent, deletion | 379 911 | waiting ends; vectors are of one model; ready is current unless stripped by others |
| page_tree | 2 requests, one of them moving; 3 pages in one workspace, 1 in another | 564 298 | no cycles, right parents, every page is shown, moves end |
| page_tree_cycle | 2 movers, 3 pages | | two moves make a cycle (finding 2) |
| block_order | 2 requests, 3 blocks, positions to 3, versions to 1 | 161 150 | inserts, reorders, no false conflict |
| file_store | 3 requests, 1 file, 3 generations, everything but overtaking | 8 236 | rows have contents, contents have owners, deletions find contents, old tasks write nothing, indexing ends |
| model_install | 2 requests, 2 models, everything may happen | 1 332 500 | jobs match streams, the selected model is installed |
| editor | 2 visits, 2 contents, versions to 4, everything may happen | 2 919 483 | no conflict with oneself, saved or told, nothing newer is overwritten |
| retrieval | 3 pages, 2 blocks, 1 file, 2 words, every reading | 498 236 | nothing better is left out, answers without evidence are refused, related pages are the best |

Why the bounds are enough. Every hazard here is a race of two: two requests see every
order of their steps. With a limit of 1 the second call, a read or a change, is the one too many. Two revisions are an old and a new text; two generations an
old and a new task. A cycle of two pages needs two, and a third page makes the walk longer than one step, so that the
tree can change under it; the page of the second workspace makes a wrong parent possible. Three blocks give a first, a middle and
a last position and, with MoveBlock and DeleteBlock, gaps. Files share nothing, so one is enough; three requests let a retry meet an old task and a deletion.
Two models are the least for a selection that moves, and the recommended one is not the first of the catalog. Two visits are a save that outlives its page and
the editor opened after it; four versions are three writes: the save under way, the pending one, and somebody else's. Two models are an
old and a new embedding configuration. Two handlers behind the panel let one stream outlive the next; a request waits for a free one, and as they are interchangeable
`NextHandler` takes any. Two questions are an old stream and a new message. Retrieval needs a page, its blocks and
a rival for each place in the list. MaxVersion, MaxPosition, MaxRevision,
MaxGeneration, MaxReads and MaxQuestions only stop otherwise unbounded counters. SYMMETRY is used only in runs without liveness properties.

CHECK_DEADLOCK is FALSE everywhere: identifiers and revisions run out and every request may have been answered, so that the instances really stop.

### Fairness

* Assistant: weak fairness of every step of a request the server has received, of the panel reading its streams and of the other run. Tools, provider and the segment run under
  timeouts, and the event loop resumes every coroutine. Nothing makes the user act, and no abort is noticed for certain; when one is, nobody is left to carry the decision out, which is the excuse of
  `FirstApprovedChangeEnds`. AgentRuns by itself, with crashes and lost clients at any moment, claims no liveness.
* PageIndex: weak fairness of the tasks' steps: asyncio runs background tasks to their end and embedding is bounded by
  `knowledge_index_timeout_seconds`. A failing session ends its task, it does not delay it; what it and restarts leave behind is excused (`lost`, `forgotten`), because nobody tries again.
* PageTree: weak fairness of the steps of a move.
* FileStore: strong fairness of each request's and task's next step. `Free` disables a step while another session is between its read and
  its write; nothing in the code holds it up for longer, so that it may not be passed over for ever.
* ModelInstall and Editor claim no liveness: a pull has no timeout, and a save waits for the server as long as the browser does.

### Properties that assume something

* `TranscriptCompleteAtFirst`, and in `WaitingHasOnePending` that the pending call is the only one, hold until the first reconnect (`reconnected`; the web client never
  calls it). After one they fail, see below. `ToolCallLimit` is checked in Assistant, where nobody reconnects.
* `AnswersStayApartAtFirst` holds until the end of an old stream resets the panel under a newer request (`overtaken`), see below.
* `FirstApprovedChangeEnds` speaks of the first of two interchangeable calls, and excuses a decision whose stream the user aborts.
* PageIndex assumes nothing of its environment: the runs and the theorems have every overlap of sessions. Its properties excuse a page by what has happened to it.
  `IndexingEnds` and `WaitingHasTask` excuse pages that are `lost`, `forgotten` or `overtaken`: each of these may leave a page waiting for nothing (below).
  `ReadyIsCurrent` excuses `lost`, `stripped` and `overtaken` pages, and speaks of a table of the configured model: with another one, a search finds that out first.
  `VectorMatchesText` excuses `overtaken` pages only, `VectorsOfOneModel` nothing.
* `ProposalsAreShown` speaks, in every state, of a panel at the question that started the run, until the user cancels: a cancelled run cannot be decided though its card may stay, without an error. That
  what is offered without an error has a pending call holds always. The panel's own cancel is not enough of an excuse once the user has asked something else: a cancel posted for the old question may be taken up
  after the new one, and leaves the card of the old run undecidable.
* `AnswersAreGrounded` excuses answers of `resumed` segments, which require no evidence.
* `InsertPlacesBlock` and `NoFalseConflict` speak of requests whose reads still hold when they
  write; the last one also of pages without gaps.
* `Acyclic` and `EveryPageIsShown` hold with one mover at a time, and as long as no move commits behind the walk of another.
* FileStore without "overtake": nobody else commits between a session's last look at the row and its write, a few statements later. Its three invariants hold with it as well, `OldTaskWritesNothing` does not
  (a retry in that window is not noticed).
  `ContentIsOwned` excuses `littered` contents (a crash, a refused delete of a deleted file or in the cleanup of a failed upload, a rolled back tool), `FileIndexingEnds` excuses `forgotten` tasks.
* `JobsMatchStreams` excuses `orphaned` jobs, `SelectionIsInstalled` excuses models in `excused`.
* `SavedOrTold` counts an edit as told once the error message is shown, and excuses `reverted` ones: what the list shows is not what is stored or on its way (see below). `OwnSavesNeverConflict` excuses editors
  that have missed an answer (`unsure`).

## What is proved

Every safety property that a run checks is a theorem, for all values of the constants; the assumptions are the named ASSUMEs of the modules and, where a
theorem has one, its hypothesis on the environment (`OldTasksWriteNothing`: no overtaking, as in the run). What each proof turns on:

**AgentProofs.** `TypeCorrect`: `TypeOK` alone is not inductive: that the reads left are a natural number needs that a request
takes one only while some are left (`ReadsLeft`), and that `calls[local[h].call]` is a call needs that a request between decision and result names one
(`DecidePointsNameCall`); `TypeInv` is the three together. `AuditIsTrue` and `AgentImplementsGate` rest on `GateInv`: what is true of a call at each
point of a request. A request at "execute" has an approved call without outcome that no other request works on, because
the claim is what makes it approved and only one claim finds it pending. So the commit of the change raises `applies` from 0 to 1 with its audit row,
which is `Apply` of the gate; every other step is `Ask`, `Decide` or a stutter.
`OneSegmentAtATime` is nearly inductive: whoever is in a segment holds `active`. `EndedRunsStayClosed` looks at each step from a
state in which every request is over. For `WaitingRunsHaveOnePending`, `WaitingInv` says that a waiting run has a pending call that nobody is just proposing,
with or without reconnects. That it is the only one, the transcript and the limit (`TranscriptHasEveryChange`, `LimitHolds`, `LimitHoldsAtFirst`) need `WorkInv`: of all
requests one at most works on the run, the object it works with is up to date with the changes made, and the tool calls created are counted in it.
A reconnect is what breaks that, so it is guarded by the history `reconnected`.
For Assistant one lemma shows that the panel only takes steps of AgentRuns, none of them a reconnect (`RunInv`), which gives `PanelKeepsLimit`.
`AnswersDoNotMix` follows from `ApartInv`: a stream that can still say something is the one `controllerRef` holds, of the question asked last. `WaitingRunsAreShown`:
a call that a segment is about to propose is untouched until its event is heard (`OfferInv`), and from the claim of the segment's end on, a waiting run has its call *on the way*: in a queue, on
the screen, or in a decision that no server has claimed yet, and in one of them only (`Carried`, part of `Going`). That is so while the panel stays with the question and every request of it is read to its
end; once one is not, nobody will work on the run any more (`Stuck`), and what is then left on the screen stands beside an error and no further proposal can come (`Left`). `WindowInv` says that one of the two is the
case in every state before a cancel and a new question.

**PageIndexProofs.** No theorem assumes anything of the environment. `TypesHold`. `OneModel` adds that a task about to write to a table of another model has either decided to drop it or found it empty (`VectorInv`).
The others carry the case "until a session writes over a generation it has not seen" through the invariants: whoever writes has, or had not, the record's generation in its copy (`CopyInv`, `NotOvertaking`), and as long as
all had, a generation is a ticket: the tasks that hold one hold different ones, none above the record's, and a failure is reported by the last task of its generation (`TicketInv`). Sessions that read before
somebody else's commit and write after it are in the proof, not left out of it: each write either fails the comparison, or is the step that sets `overtaken`.
A task with the record's generation has found the chunks as they are, except for what was deleted since and what a search marked (`FoundInv`), so the chunks it takes over have their texts' vectors
(`TextInv`, `VectorsMatchTexts`). The status it found is not "ready" and nobody has made it so since (`StatusInv`), so that a flush, which leaves out columns that did not change, does write "ready".
`ReadyPagesAreCurrent` puts together that a ready chunk has its vector unless the task about to write has dropped the table for it (`IndexInv`), that a ready
record describes the chunks (`ReadyInv`), and that, when no request still carries the news of a change, the record describes the page and the record's task works on the page as it is (`CurrentInv`).
`WaitingHaveTasks`: every step that leaves the record waiting keeps or makes a task in charge of it, whose mark can still be written (`WaitInv`), unless it sets one of the three histories.

**RetrievalProofs.** A ranking is a function from a place to the source with that many sources before it. In a finite set with a strict order every place is taken by exactly one
member (`RankFacts`: the number of members before it is an injection, and so a surjection), which makes `Ranked`, and the filter `Kept`, well defined. `NothingBetterIsMissed` is then the head
of a ranking (`BestRanked`) after compaction (`CompactedFacts`: blocks inherit at least the score of the page they hide). `AnswersAreNotBare` follows an answer through its segments: until it is there the sources shown are those of the first choice, which is a part of the
context, and evidence is required exactly while there is none (`Asked`); a decision or a reconnect lifts that from any step on, and later choices of the question's own segment contain the first (`FinishedGrounded`).
`BestPagesAreShown` is about a loop: `Gathered` is a recursive function, which exists because each of its steps does (`StepsExist`), and after each source what is known of a page is a summary of all
findings so far (`Summary`: its strongest source and its strongest block are among the findings and no finding is stronger). The induction over the sources is by a set of numbers with
no first one missing (`Upwards`), since induction theorems over a predicate cannot be instantiated.

**BlockOrderProofs.** `PositionsAreUnique` (`TypeOK` contains the constraint) with `OrderInv`: what a request has read is a listing of the page as it was. The statements about steps
rest on lemmas about lists: a finite set with unique numbers has exactly one sorted listing, so that "lands at its place and leaves the order of the others" can be computed from places;
`ConflictsAreReal` follows the rows as they are moved one by one: without gaps the place a row moves to has just been left.

**EditorProofs.** `TypeCorrect`, `NoConflictWithItself`, `NothingLostSilently` and `OverwritesAreKnown` from one invariant, `EditorInv`: at each point of a save, how the version the editor knows
relates to the server's and to the list's (`VersionsOf`), and where the text on the screen is: pending, being sent, saved, or given up with a message (`TextOf`). The cached list and the
one being loaded are never ahead of the server.

**PageTreeProofs.** `TypeCorrect` and `ParentsAreInWorkspace` hold for any number of movers, from
`TreeInv` = types, what each request has checked and still relies on (`Targets`), and the property.
`NoCycles` holds for any number of requests that move pages in every behaviour without a step that `Crosses`: a
page gets a new parent while another move relies on its walk (`page_tree_cycle` shows that one such step is enough for a cycle). A single mover never crosses, which is the
instance of the run page_tree (`NoCyclesWithOneMover`). The invariant `Walks` gives each walk the set V of pages it has
passed: V contains the new parent, not the moved page, and is closed upwards except for the page the walk looks
at next; creating and deleting pages keep that, because they change no parent of a page that stays, and so does a
move to the top, which leads nowhere else. When the walk
ends, V is a set closed upwards without the moved page. "No cycle" is stated as: every nonempty set of
pages has a member whose parent lies outside. After the move, take a set S: if it lacks the moved page nothing changed for it; if
it has the moved page and its new parent, S \cap V lies above the moved page and has, by the old invariant, a member whose
parent lies outside S \cap V, and, V being closed upwards, outside S. Recursion and induction are not needed.
`SidebarIsComplete` follows from the two: the pages of a workspace that are not shown form a set; if it is not empty, one of them has its parent outside
it, and is then a root or hangs below a page that is shown (`TreeIsShown`).

**FileStoreProofs.** `TypeCorrect`, `RowsHaveContent`, `ContentsAreOwned` and `DeletionsFindContent` hold with every accident, overtaking included. `RowHasContent` alone is not inductive: a commit makes a row for a content that must still be there, and a
deletion of the content must not meet a row. `StoreInv` adds `Owned` (a request that uploads or unlinks is in charge of a
content that has no row, and the content is as it left it) and `OwnersAlone` (no two requests are in charge of the same content: keys are fresh, and only one
request deletes the row). `OldTasksWriteNothing` assumes no overtaking: then a task that is about to write is the row's newest (`WritersAreCurrent`), because a retry that replaced it
would have committed between its look and its write.

**ModelInstallProofs.** `TypeCorrect`, `JobsFollowStreams` and `SelectedIsInstalled`, for any models and
requests. `JobInv` adds to the two properties that the job of an orphaned model is running (`OrphansRun`): that is what makes `Install` refuse it, and
so what keeps a stream from being joined by a second one. `SelectionInv` adds that a model about to be selected is installed or excused
(`ChoiceIsInstalled`), that one about to be removed is not selected or excused (`RemovedIsUnselected`), and that models which are both are excused
(`RacesAreExcused`). Every step chooses only what is installed, removes only what is unselected and selects only what was chosen (`SelectionStep`), and
one lemma shows that any such step preserves the three, whichever action it is.

**Only model-checked.** Liveness under fairness, for which the prover has no rules: `FirstApprovedChangeEnds`, `SegmentEnds`, `PanelSettles`, `IndexingEnds`, `MoveEnds`, `FileIndexingEnds`.

**What proving changed in the models.** `ReorderApplied` used to say that the rows a reorder does not name are always behind the others; that is false when a row is deleted between the listing
and the count of rows (an instance of five blocks is needed to see it), and is now claimed only where no row was deleted before (`Len(order) <= request[h].size`). `ProposalsAreShown` excused
a waiting run whose panel shows an error; the proof did not need it, so it is gone. `Kept` replaces a library filter the prover cannot look into, and related pages, which are sorted by their ids where scores
are equal (`IdOrder`), no longer share the key of the search results.

## Findings

1. *A cancel is lost* (run agent_lost_cancel). The Cancel button aborts the stream and posts the cancel
   (`W/components/assistant/AssistantPanel.tsx:118-120`). The aborted request reads the run as running
   (`B/agent/service.py:470`), the cancel commits, the request saves "resuming" over it. The test
   `test_waiting_run_can_be_cancelled_and_cannot_resume` (`apps/api/tests/test_agent.py:843`) says a cancelled run cannot resume.
2. *Two moves make a cycle* (run page_tree_cycle). `page_service.py:84` refuses cycles, but the check reads before the
   write and the write compares the moved page's version only. The pages disappear from the client's tree and the
   next move below them walks for ever.

What the code does besides, found while modelling and kept out of the properties:

* Agent. Through reconnect with an old run object the tool-call limit can be passed (service.py:229) and a run can get
  two pending calls (640), for which `scalar_one_or_none` raises (agent_audit_repository.py:107). A crash between the commit of a change and
  the save of its result (316) loses the result; a resumed run may ask for the change again.
* Page index. What leaves a page "pending" or "indexing" until somebody edits it or asks for this page's reindex (the retry of a workspace selects failed pages only): a restart; a first session that fails after the retry has marked the page
  (knowledge_tasks.py:29-34); a session that fails while it reports a failure (50-54); a retry that has read the page before and the record after an edit of the title (api/pages.py:136, 139), whose task is queued with the old version and returns at once
  (30-31) although it took over the generation; and a mark written over a newer generation, which leaves "indexing" after the newer task has ended. Another session that
  commits between the check of the generation (knowledge_service.py:342) and the write lets a superseded task write over the newer index, against the name of the test
  `test_stale_generation_cannot_overwrite_newer_index` (`apps/api/tests/test_knowledge.py:161`), which runs the two tasks one after the other; two sessions that overlap at line 134 take the same generation. Such a page may also
  stay "ready" with an old text or with a vector of another text. Changes by the agent queue no indexing (agent/service.py:709). Vectors of chunks deleted by a cascade stay (367), and descendants of a deleted page get no `delete_page_index`
  (api/pages.py:110).
* Embedding configurations. Whoever first uses another one drops the vector table (185-186) while all other pages stay "ready" without vectors, although `.github/copilot-instructions.md:270` asks
  for "a required re-index"; a search marks its own workspace stale (432-442), and nothing retries stale pages. Searches of the API are rolled back, so that only the agent's leave the mark, while
  their INSERT into knowledge_index_config takes the write lock. When the configuration goes to another model and back after a DROP that left this page's chunks alone, the chunks are reused and never get vectors. The DROP is
  committed by itself: the write that follows may fail. A search that marks chunks stale while a task has already loaded them leaves the page "ready" with stale chunks. Reuse compares model and version, not the dimensions.
* Assistant. `done` lets the user ask or approve before the stream has ended; the `finally` of the old stream then hides Cancel and drops the controller of the new one (AssistantPanel.tsx:112-114), and a question
  asked in that state receives the other answer's text (the last message, 61-73). Approving before the first segment has closed makes the resumed segment fail with "agent run is already active" (agent/service.py:337) although
  the change was made; the proposal is offered again and the run stays "resuming". Cancel between the proposal and `done` leaves a proposal that can no longer be decided; Cancel before the run's id has arrived posts
  nothing (120); a new question drops a waiting proposal (100) whose run waits for ever.
* Retrieval. Without embeddings, or for a short answer, the second choice replaces the focused sources by all candidates (agent/service.py:586), against the docstring of `_select_answer_sources`, so that a refusal can stand
  beside sources that were not chosen before. Otherwise the second choice is the first: it goes by the lexical match alone (retrieval/service.py:163-177), so that rescoring removes no source, although a test says that it may
  (`apps/api/tests/test_answer_aware_sources.py:99-100`). One weak lexical match (below 15 percent) empties the choice, and a question is refused although semantic evidence exists. A segment after a decision or a
  reconnect neither requires evidence nor shows sources (agent/service.py:370, 421): the "deterministic insufficient-evidence handling" (`apps/api/README.md:11`) ends there. A request that names a page to create is never
  asked of the provider: its proposal is made at once (431-450). `related` counts pages deleted meanwhile against its limit.
* Blocks. On a page with gaps between positions (delete two middle blocks of four) reorders and inserts are refused with 409, each
  time, by the row-by-row check, although no one else changed the page. Two reorders with the same versions may both pass
  the comparison (block_service.py:46-53), and an insert writes back the positions it read over a newer reorder (block_repository.py:26-52).
* Pages. A page moved out of a subtree between its listing and its deletion is deleted all the same (page_service.py:102-115).
* Files. A download whose file is deleted between its lookup and the response finds nothing (api/files.py:120). A database error in
  the first session of an index task leaves "pending" for good (knowledge_tasks.py:63). An approved create_file that times out or is rolled back after the content is stored
  leaves the content (file_service.py:74-108), a restart during an upload leaves the temporary file or the content.
* Models. The Cancel button aborts the stream before it posts the cancel (LocalAIManager.tsx:127-142): the job stays "downloading" and every later installation of the model is
  refused until a restart (local_ai/service.py:143). A model that is installed while its last job failed, was cancelled or lost its stream is not offered to the agent until a
  retry (249-252). During an outage `get_status` finds no models and erases the selection (68-72); with an old listing it may write over a selection made meanwhile.
  A removal that overlaps a selection leaves a selection that is gone until the next status. Without a settings row, the INSERT of `get_status` holds the write lock of SQLite during a call of the provider.
* Editor. After a conflict, or a reorder of the page, an editor keeps its old version, so that every later save is refused too until the page is
  opened again (InlineEditableBlock.tsx:97), though the message says "Latest block data has been reloaded" (App.tsx:292); a page opened on a stale list has the same fate. A failed save
  drops its content, and what is pending waits for the next edit (110). The early return also drops an edit that is taken back while its save is under way (102): toggling a todo twice before the first answer leaves the first toggle stored and
  the second on the screen, without a message. After a failed reload the early return may compare with a list that is out of date.

## What is not modelled, and why

Positions of pages among siblings (nothing constrains them); the chunks of several pages at once (other pages only replace the shared table); lost connections, server crashes and the closing of
the panel in Assistant (AgentRuns has them without the panel), and the proposals of a second run; `getDescendantIds` of the move dialog, which only hides choices the server refuses; the contents of
prompts and texts; the wording of errors; the installer (I/O); schema migrations; presentation in the client. The parts marked not_modelled in PROJECT.json carry their reason.

## Plan

Order: the approval of changes (AgentRuns, ApprovalGate), the index (PageIndex, with configurations and searches), the hierarchy (PageTree, with the
sidebar), the order of blocks (BlockOrder), files (FileStore), local models (ModelInstall), the editor (Editor), sources (Retrieval), the panel over the runs
(Assistant): all done, and so are the proofs of the safety properties. Left to do:

1. An abstract specification of the page index (a page and the searchable copy of one of its revisions) that PageIndex implements.
2. The liveness properties as far as safety carries them: each step of a task lowers a measure, with the steps of others that may raise it named.

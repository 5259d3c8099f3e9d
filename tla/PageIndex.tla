----------------------------- MODULE PageIndex -----------------------------
(***************************************************************************)
(* The search index of one page: services/knowledge_service.py, the        *)
(* background tasks of api/knowledge_tasks.py and the endpoints that queue *)
(* them (api/pages.py, api/blocks.py, api/workspaces.py), under changing   *)
(* embedding configurations, with the searches that notice them.           *)
(*                                                                         *)
(* A task is one run of index_page.  Its first session marks the record,   *)
(* its second reads the page and the index, embeds, looks at the page      *)
(* again and writes; a third records a failure.  Reads and the write       *)
(* transaction that follows them are separate steps.  A session keeps the  *)
(* Page and the PageKnowledge it loaded (later reads return the copy,      *)
(* refresh() reloads it, a flush writes the columns that differ from it);  *)
(* the Block objects are dropped after each read and so read anew.         *)
(***************************************************************************)
EXTENDS Integers

CONSTANTS
    Tasks,          \* background tasks at one time (bound)
    Blocks,         \* identifiers of blocks; an identifier is never reused
    Title,          \* the key of the page's own chunk, "page:0"
    Models,         \* embedding configurations: model, version, dimensions
    NoModel,        \* knowledge_index_config has no row yet
    MaxRevision,    \* edits of one title or one block (bound)
    MaxGeneration,  \* generation from which nobody asks for a reindex (bound)
    Environment     \* what else may happen, see below

EnvironmentKinds == {"blocks", "remove", "titles", "reindex", "agent", "delete", "outage",
                     "timeout", "database", "crash", "configuration", "search", "others"}

ASSUME TitleAssumption == Title \notin Blocks
ASSUME ModelAssumption == NoModel \notin Models /\ Models # {}
ASSUME RevisionAssumption == MaxRevision \in Nat \ {0} /\ MaxGeneration \in Nat
ASSUME EnvironmentAssumption == Environment \subseteq EnvironmentKinds

VARIABLES
    page,       \* the Page row; its version stands for its title
    blocks,     \* the revision of each block's content
    record,     \* the PageKnowledge row
    chunks,     \* the KnowledgeChunk rows of the page, by chunk_key
    vectors,    \* the rows of vec_knowledge_chunks, by their chunk
    config,     \* the row of knowledge_index_config: whose vectors they are
    model,      \* the configuration the server was started with
    task,       \* local state of the background tasks
    lost,       \* history: an edit had no task, or its task was lost
    forgotten,  \* history: a failure was not reported, or a retry was outdated
    overtaken,  \* history: a session wrote over a generation it had not seen
    stripped    \* history: the page lost vectors or chunks outside its own writes

content == <<page, blocks>>
index == <<record, chunks, vectors, config>>
vars == <<page, blocks, record, chunks, vectors, config, model, task,
          lost, forgotten, overtaken, stripped>>

Keys == Blocks \union {Title}
New == 0            \* the block has not been created yet
Deleted == -1
Revisions == 1..MaxRevision

(* Functions from some of the keys: what a page, an index or a task holds. *)
Partial(S) == UNION {[K -> S] : K \in SUBSET Keys}
Nothing == [k \in {} |-> 0]
Without(f, K) == [k \in DOMAIN f \ K |-> f[k]]
With(f, g) == [k \in DOMAIN f \union DOMAIN g |->
                  IF k \in DOMAIN g THEN g[k] ELSE f[k]]

Statuses == {"pending", "indexing", "ready", "stale", "failed"}
Records == [exists: BOOLEAN, status: Statuses, generation: Nat,
            hash: Partial(Revisions)]
NoRecord == [exists |-> FALSE, status |-> "pending", generation |-> 0,
             hash |-> Nothing]
Chunks == [text: Revisions, status: {"ready", "stale"}, model: Models]
Vectors == [text: Revisions, model: Models]

NoGeneration == 0   \* the argument None: mark_pending starts counting at 1

Points == {"idle", "retry", "pending", "queue", "start", "lookup", "mark", "page",
           "content", "index", "chunks", "embed", "recheck", "refresh", "table", "write",
           "fail", "mark_failed", "delete", "search"}
TaskStates == [pc: Points, version: 0..MaxRevision, generation: Nat,
               cached: Records, specs: Partial(Revisions),
               found: Partial(Chunks), failed: BOOLEAN, changed: BOOLEAN,
               seen: Models \union {NoModel}]
NoTask == [pc |-> "idle", version |-> 0, generation |-> NoGeneration,
           cached |-> NoRecord, specs |-> Nothing, found |-> Nothing,
           failed |-> FALSE, changed |-> FALSE, seen |-> NoModel]

TypeOK ==
    /\ page \in [exists: BOOLEAN, version: 0..MaxRevision]
    /\ blocks \in [Blocks -> Revisions \union {New, Deleted}]
    /\ record \in Records
    /\ chunks \in Partial(Chunks)
    /\ vectors \in Partial(Vectors)
    /\ config \in Models \union {NoModel} /\ model \in Models
    /\ task \in [Tasks -> TaskStates]
    /\ lost \in BOOLEAN /\ forgotten \in BOOLEAN
    /\ overtaken \in BOOLEAN /\ stripped \in BOOLEAN

Init ==
    /\ page = [exists |-> TRUE, version |-> 1]
    /\ blocks = [b \in Blocks |-> New]
    /\ record = NoRecord
    /\ chunks = Nothing
    /\ vectors = Nothing
    /\ config = NoModel
    /\ model = CHOOSE m \in Models : TRUE
    /\ \E t \in Tasks :     \* create_page has queued the first task
          task = [[s \in Tasks |-> NoTask] EXCEPT ![t].pc = "start", ![t].version = 1]
    /\ lost = FALSE /\ forgotten = FALSE /\ overtaken = FALSE /\ stripped = FALSE

-----------------------------------------------------------------------------
Step(t, new) == task' = [task EXCEPT ![t] = new]
Goto(t, point) == Step(t, [task[t] EXCEPT !.pc = point])
End(t) == Step(t, NoTask)

LiveBlocks == {b \in Blocks : blocks[b] > 0}

(* _chunk_specs: one chunk for the title and, here, one for each block.    *)
Specs(version) ==
    [k \in LiveBlocks \union {Title} |-> IF k = Title THEN version ELSE blocks[k]]

(* Faulty variant: models are not compared.                                *)
ReusableOfAnyModel(t, k) ==
    /\ k \in DOMAIN task[t].found
    /\ task[t].found[k].text = task[t].specs[k]
    /\ task[t].found[k].status = "ready"

(* A chunk is not embedded again if it is ready and unchanged and no chunk *)
(* of the page is of another model.                                        *)
Reusable(t, k) ==
    /\ k \in DOMAIN task[t].found
    /\ task[t].found[k].text = task[t].specs[k]
    /\ task[t].found[k].status = "ready"
    /\ \A j \in DOMAIN task[t].found : task[t].found[j].model = model

Staged(t) == {k \in DOMAIN task[t].specs : ~Reusable(t, k)}

-----------------------------------------------------------------------------
(* Edits.  Each commits; the endpoints of pages.py and blocks.py then      *)
(* queue a task, the agent's tools do not.                                 *)

SetTitle ==
    /\ "titles" \in Environment
    /\ page.exists /\ page.version < MaxRevision
    /\ page' = [page EXCEPT !.version = @ + 1]
    /\ UNCHANGED <<blocks, index>>

CreateBlock(b) ==
    /\ "blocks" \in Environment
    /\ page.exists /\ blocks[b] = New
    /\ blocks' = [blocks EXCEPT ![b] = 1]
    /\ UNCHANGED <<page, index>>

UpdateBlock(b) ==
    /\ "blocks" \in Environment
    /\ blocks[b] \in 1..(MaxRevision - 1)
    /\ blocks' = [blocks EXCEPT ![b] = @ + 1]
    /\ UNCHANGED <<page, index>>

(* The row of its chunk goes with the block (ON DELETE CASCADE).           *)
DeleteBlock(b) ==
    /\ "remove" \in Environment
    /\ blocks[b] > 0
    /\ blocks' = [blocks EXCEPT ![b] = Deleted]
    /\ chunks' = Without(chunks, {b})
    /\ UNCHANGED <<page, record, vectors, config>>

EditBlocks == \E b \in Blocks : CreateBlock(b) \/ UpdateBlock(b) \/ DeleteBlock(b)

UpdatePage(t) ==
    /\ task[t].pc = "idle"
    /\ SetTitle
    /\ Step(t, [NoTask EXCEPT !.pc = "start", !.version = page.version + 1])

ChangeBlocks(t) ==
    /\ task[t].pc = "idle"
    /\ EditBlocks
    /\ Step(t, [NoTask EXCEPT !.pc = "queue"])

(* The endpoint reads the page's version after its commit.                 *)
Queue(t) ==
    /\ task[t].pc = "queue"
    /\ IF page.exists
       THEN Step(t, [NoTask EXCEPT !.pc = "start", !.version = page.version])
       ELSE End(t)
    /\ UNCHANGED <<content, index>>

AgentEdit ==
    /\ "agent" \in Environment
    /\ SetTitle \/ EditBlocks
    /\ lost' = TRUE
    /\ UNCHANGED <<task, model, forgotten, overtaken, stripped>>

(* Everything but the vectors goes with the page; those have a task.       *)
DeletePage(t) ==
    /\ "delete" \in Environment
    /\ task[t].pc = "idle" /\ page.exists
    /\ page' = [page EXCEPT !.exists = FALSE]
    /\ blocks' = [b \in Blocks |-> Deleted]
    /\ record' = NoRecord
    /\ chunks' = Nothing
    /\ Step(t, [NoTask EXCEPT !.pc = "delete"])
    /\ UNCHANGED <<vectors, config>>

DeletePageIndex(t) ==
    /\ task[t].pc = "delete"
    /\ vectors' = Nothing
    /\ End(t)
    /\ UNCHANGED <<content, record, chunks, config>>

-----------------------------------------------------------------------------
(* mark_pending and mark_indexing                                          *)

(* The row that h's flush leaves: a new one, or the copy's columns that    *)
(* `new' changes.                                                          *)
Flushed(old, new) ==
    [new EXCEPT !.status     = IF @ = old.status     THEN record.status     ELSE @,
                !.generation = IF @ = old.generation THEN record.generation ELSE @,
                !.hash       = IF @ = old.hash       THEN record.hash       ELSE @]

(* A row inserted twice, updated after its deletion or left without its    *)
(* page fails.                                                             *)
Writable(old) == page.exists /\ old.exists = record.exists

Pending(old) ==
    [old EXCEPT !.exists = TRUE, !.status = "pending", !.generation = @ + 1]

(* reindex_page, and retry_failed_workspace_indexing for a failed page:    *)
(* the page is read, then the record (ReadRecord) ...                      *)
Reindex(t) ==
    /\ "reindex" \in Environment
    /\ task[t].pc = "idle" /\ page.exists
    /\ record.generation < MaxGeneration
    /\ Step(t, [NoTask EXCEPT !.pc = "retry", !.version = page.version])
    /\ UNCHANGED <<content, index>>

(* Faulty variant: the task is queued with the generation that was read.   *)
MarkPendingOldGeneration(t) ==
    /\ task[t].pc = "pending"
    /\ LET new == Pending(task[t].cached)
       IN  IF Writable(task[t].cached)
           THEN /\ record' = Flushed(task[t].cached, new)
                /\ Step(t, [task[t] EXCEPT !.pc = "start", !.cached = NoRecord,
                                           !.generation = task[t].cached.generation])
           ELSE End(t) /\ UNCHANGED record
    /\ UNCHANGED <<content, chunks, vectors, config>>

(* ... and marked, and the task is queued with its generation.             *)
MarkPending(t) ==
    /\ task[t].pc = "pending"
    /\ LET new == Pending(task[t].cached)
       IN  IF Writable(task[t].cached)
           THEN /\ record' = Flushed(task[t].cached, new)
                /\ Step(t, [task[t] EXCEPT !.pc = "start", !.cached = NoRecord,
                                           !.generation = new.generation])
           ELSE End(t) /\ UNCHANGED record
    /\ UNCHANGED <<content, chunks, vectors, config>>

(* The first session: "return" unless the page has the expected version.   *)
Start(t) ==
    /\ task[t].pc = "start"
    /\ IF page.exists /\ page.version = task[t].version THEN Goto(t, "lookup") ELSE End(t)
    /\ UNCHANGED <<content, index>>

(* mark_pending and mark_indexing read the record; a task with a           *)
(* generation goes on only if that is still the record's.                  *)
ReadRecord(t) ==
    /\ task[t].pc \in {"retry", "lookup"}
    /\ IF task[t].generation \in {NoGeneration, record.generation}
       THEN Step(t, [task[t] EXCEPT !.pc = IF @ = "retry" THEN "pending" ELSE "mark",
                                    !.cached = record])
       ELSE End(t)
    /\ UNCHANGED <<content, index>>

Indexing(t, old) ==
    IF task[t].generation = NoGeneration
    THEN [Flushed(old, Pending(old)) EXCEPT !.status = "indexing"]
    ELSE Flushed(old, [old EXCEPT !.status = "indexing"])

(* A task without a generation takes the next one.                         *)
MarkIndexing(t) ==
    /\ task[t].pc = "mark"
    /\ LET old == task[t].cached
       IN  IF Writable(old)
           THEN /\ record' = Indexing(t, old)
                /\ Step(t, [task[t] EXCEPT !.pc = "page", !.cached = NoRecord,
                                           !.generation = record'.generation])
           ELSE End(t) /\ UNCHANGED record
    /\ UNCHANGED <<content, chunks, vectors, config>>

(* A session before the work fails and is rolled back, or the one that is  *)
(* to report a failure; an endpoint answers 500.  Nobody tries again.      *)
DatabaseFails(t) ==
    /\ "database" \in Environment
    /\ task[t].pc \in {"retry", "pending", "queue", "start", "lookup", "mark",
                       "fail", "mark_failed", "delete"}
    /\ End(t)
    /\ lost' = (lost \/ task[t].pc \in {"queue", "start", "lookup", "mark"})
    /\ forgotten' = (forgotten \/ task[t].pc \in {"fail", "mark_failed"})
    /\ UNCHANGED <<content, index, model, overtaken, stripped>>

-----------------------------------------------------------------------------
(* KnowledgeService.index_page                                             *)

ReadPage(t) ==
    /\ task[t].pc = "page"
    /\ IF page.exists /\ page.version = task[t].version THEN Goto(t, "content")
       ELSE Goto(t, "fail")
    /\ UNCHANGED <<content, index>>

ReadContent(t) ==
    /\ task[t].pc = "content"
    /\ Step(t, [task[t] EXCEPT !.pc = "index", !.specs = Specs(task[t].version)])
    /\ UNCHANGED <<content, index>>

ReadIndex(t) ==
    /\ task[t].pc = "index"
    /\ CASE ~record.exists -> Goto(t, "fail")
         [] record.exists /\ record.generation # task[t].generation -> End(t)
         [] OTHER -> Goto(t, "chunks")
    /\ UNCHANGED <<content, index>>

ReadChunks(t) ==
    /\ task[t].pc = "chunks"
    /\ Step(t, [task[t] EXCEPT !.pc = "embed", !.found = chunks])
    /\ UNCHANGED <<content, index>>

(* The embedding provider fails for some chunk only if one is embedded.    *)
Embed(t) ==
    /\ task[t].pc = "embed"
    /\ \E failed \in BOOLEAN :
          /\ failed => "outage" \in Environment /\ Staged(t) # {}
          /\ Step(t, [task[t] EXCEPT !.pc = "recheck", !.failed = failed])
    /\ UNCHANGED <<content, index>>

(* latest_hash: the blocks are read again, the page is the session's copy. *)
Recheck(t) ==
    /\ task[t].pc = "recheck"
    /\ Step(t, [task[t] EXCEPT !.pc = "refresh",
                               !.changed = Specs(task[t].version) # task[t].specs])
    /\ UNCHANGED <<content, index>>

(* The table is looked at before anything is written, if all went well.    *)
TableOfOthers == config \notin {NoModel, model}

AfterRefresh(t) ==
    IF TableOfOthers /\ ~task[t].changed /\ ~task[t].failed THEN "table" ELSE "write"

(* Faulty variant: the generation is not compared again.                   *)
RefreshUnchecked(t) ==
    /\ task[t].pc = "refresh"
    /\ IF record.exists
       THEN Step(t, [task[t] EXCEPT !.pc = AfterRefresh(t), !.cached = record])
       ELSE Goto(t, "fail")
    /\ UNCHANGED <<content, index>>

Refresh(t) ==
    /\ task[t].pc = "refresh"
    /\ CASE ~record.exists -> Goto(t, "fail")
         [] record.exists /\ record.generation # task[t].generation -> End(t)
         [] OTHER -> Step(t, [task[t] EXCEPT !.pc = AfterRefresh(t), !.cached = record])
    /\ UNCHANGED <<content, index>>

WriteStale(t) ==
    /\ record' = Flushed(task[t].cached, [task[t].cached EXCEPT !.status = "stale"])
    /\ UNCHANGED <<chunks, vectors, config>>

(* The provider failed: an index of other content is withdrawn.            *)
WriteFailed(t) ==
    /\ record' = Flushed(task[t].cached, [task[t].cached EXCEPT !.status = "failed"])
    /\ IF task[t].cached.hash \in {Nothing, task[t].specs}
       THEN UNCHANGED <<chunks, vectors, config>>
       ELSE /\ vectors' = Nothing /\ UNCHANGED config
            /\ chunks' = [k \in DOMAIN chunks |->
                             IF k \in DOMAIN task[t].found
                             THEN [chunks[k] EXCEPT !.status = "stale"]
                             ELSE chunks[k]]

(* The chunk row after the flush: a column differs from the copy or is     *)
(* left alone.                                                             *)
StoredChunk(t, k) ==
    LET new == [text |-> task[t].specs[k], status |-> "ready", model |-> model]
    IN  IF k \notin DOMAIN task[t].found THEN new
        ELSE [column \in DOMAIN new |->
                 IF new[column] = task[t].found[k][column]
                 THEN chunks[k][column] ELSE new[column]]

Obsolete(t) == DOMAIN task[t].found \ DOMAIN task[t].specs

(* Faulty variant: a table that exists is good enough.                     *)
AllKept == vectors

(* _ensure_vector_table drops the table of another configuration.          *)
Kept == IF TableOfOthers THEN Nothing ELSE vectors

(* Before the first write the DROP is a transaction of its own; removing   *)
(* the vectors of obsolete chunks makes it part of the one that follows.   *)
EnsureTable(t) ==
    /\ task[t].pc = "table"
    /\ vectors' = IF Obsolete(t) = {} THEN Kept ELSE vectors
    /\ Goto(t, "write")
    /\ UNCHANGED <<content, record, chunks, config>>

Staging(t) == [k \in Staged(t) |-> [text |-> task[t].specs[k], model |-> model]]

(* Faulty variant: changed chunks keep the vector they had.                *)
WriteReadyOldVectors(t) ==
    /\ record' = Flushed(task[t].cached,
                         [task[t].cached EXCEPT !.status = "ready",
                                                !.hash = task[t].specs])
    /\ chunks' = With(Without(chunks, Obsolete(t)),
                      [k \in Staged(t) |-> StoredChunk(t, k)])
    /\ vectors' = With(Staging(t), Without(vectors, Obsolete(t)))
    /\ config' = model

WriteReady(t) ==
    /\ record' = Flushed(task[t].cached,
                         [task[t].cached EXCEPT !.status = "ready",
                                                !.hash = task[t].specs])
    /\ chunks' = With(Without(chunks, Obsolete(t)),
                      [k \in Staged(t) |-> StoredChunk(t, k)])
    /\ vectors' = With(Without(IF Obsolete(t) = {} THEN vectors ELSE Kept, Obsolete(t)),
                       Staging(t))
    /\ config' = model

(* The statements of the write transaction: a staged chunk that was found  *)
(* is updated, another is inserted (its block must exist, its key be new). *)
Consistent(t) ==
    /\ record.exists
    /\ ~task[t].changed /\ ~task[t].failed =>
          \A k \in Staged(t) :
              IF k \in DOMAIN task[t].found THEN k \in DOMAIN chunks
              ELSE k \notin DOMAIN chunks /\ k \in LiveBlocks \union {Title}
    /\ ~task[t].changed /\ task[t].failed =>
          \A k \in DOMAIN task[t].found :
              \/ task[t].found[k].status = "stale"
              \/ task[t].cached.hash \in {Nothing, task[t].specs}
              \/ k \in DOMAIN chunks

Write(t) ==
    /\ task[t].pc = "write" /\ Consistent(t)
    /\ CASE task[t].changed -> WriteStale(t)
         [] ~task[t].changed /\ task[t].failed -> WriteFailed(t)
         [] OTHER -> WriteReady(t)
    /\ End(t)
    /\ UNCHANGED content

(* A statement fails and the transaction is rolled back.                   *)
WriteFails(t) ==
    /\ task[t].pc = "write" /\ ~Consistent(t)
    /\ Goto(t, "fail")
    /\ UNCHANGED <<content, index>>

(* asyncio.timeout, or the database stays locked.                          *)
TimeOut(t) ==
    /\ "timeout" \in Environment
    /\ task[t].pc \in {"page", "content", "index", "chunks", "embed", "recheck",
                       "refresh", "table", "write"}
    /\ Goto(t, "fail")
    /\ UNCHANGED <<content, index>>

(* mark_failed in a third session: the record is read ...                  *)
Fail(t) ==
    /\ task[t].pc = "fail"
    /\ IF record.exists /\ record.generation = task[t].generation
       THEN Step(t, [NoTask EXCEPT !.pc = "mark_failed", !.cached = record])
       ELSE End(t)
    /\ UNCHANGED <<content, index>>

(* Faulty variant: a failure leaves no trace in the record.                *)
MarkFailedSilently(t) ==
    /\ task[t].pc = "mark_failed"
    /\ End(t)
    /\ UNCHANGED <<content, index>>

(* ... and written.                                                        *)
MarkFailed(t) ==
    /\ task[t].pc = "mark_failed"
    /\ record' = IF record.exists
                 THEN Flushed(task[t].cached, [task[t].cached EXCEPT !.status = "failed"])
                 ELSE record
    /\ End(t)
    /\ UNCHANGED <<content, chunks, vectors, config>>

-----------------------------------------------------------------------------
(* Other embedding configurations.                                         *)

(* semantic_search for a question to the agent, in the page's workspace:   *)
(* the query is embedded and the configuration read ...                    *)
StartSearch(t) ==
    /\ "search" \in Environment
    /\ task[t].pc = "idle"
    /\ Step(t, [NoTask EXCEPT !.pc = "search", !.seen = config])
    /\ UNCHANGED <<content, index>>

(* ... and, if another one was found, the workspace is marked stale.  The  *)
(* agent commits; searches of the API are rolled back, and leave nothing.  *)
SearchTable(t) ==
    /\ task[t].pc = "search"
    /\ IF task[t].seen \notin {NoModel, model}
       THEN /\ chunks' = [k \in DOMAIN chunks |-> [chunks[k] EXCEPT !.status = "stale"]]
            /\ record' = IF record.exists THEN [record EXCEPT !.status = "stale"] ELSE record
       ELSE UNCHANGED <<chunks, record>>
    /\ vectors' = Kept
    /\ config' = model
    /\ End(t)
    /\ UNCHANGED content

(* A page or a search elsewhere comes first: the table is dropped without  *)
(* a word to this page.                                                    *)
OthersIndex ==
    /\ "others" \in Environment
    /\ TableOfOthers
    /\ vectors' = Nothing
    /\ config' = model
    /\ stripped' = TRUE
    /\ UNCHANGED <<content, record, chunks, task, model, lost, forgotten, overtaken>>

(* A restart loses the queued and the running tasks, and may come with     *)
(* another configuration.                                                  *)
Crash ==
    /\ {"crash", "configuration"} \intersect Environment # {}
    /\ model' \in (IF "configuration" \in Environment THEN Models ELSE {model})
    /\ task' = [t \in Tasks |-> NoTask]
    /\ lost' = (lost \/ \E t \in Tasks : task[t].pc \notin {"idle", "search"})
    /\ UNCHANGED <<content, index, forgotten, overtaken, stripped>>

(* What the page has lost is restored when all its chunks are embedded.    *)
(* It is lost to a DROP whose write then fails, and to a search that marks *)
(* chunks which a task has already read as ready.                          *)
Restores(t) ==
    /\ task[t].pc = "write" /\ task'[t].pc = "idle"
    /\ ~task[t].changed /\ ~task[t].failed /\ Staged(t) = DOMAIN task[t].specs
    /\ \A k \in DOMAIN task[t].found \ Obsolete(t) :
          chunks[k].status = task[t].found[k].status

Strips(t) ==
    \/ task[t].pc = "write" /\ task'[t].pc = "fail" /\ TableOfOthers
    \/ /\ task[t].pc = "search" /\ task[t].seen \notin {NoModel, model}
       /\ \E s \in Tasks : task[s].pc \in {"embed", "recheck", "refresh", "table", "write"}

(* The record has another generation than the copy of the session that     *)
(* writes.                                                                 *)
Overtakes(t) ==
    /\ <<task[t].pc, task'[t].pc>> \in {<<"pending", "start">>, <<"mark", "page">>,
                                       <<"write", "idle">>, <<"mark_failed", "idle">>}
    /\ task[t].cached.generation # record.generation

(* A retry is queued with a version of the page that an edit has outdated. *)
Outdated(t) ==
    task[t].pc = "pending" /\ task'[t].pc = "start" /\ task[t].version # page.version

Histories(t) ==
    /\ stripped' = IF Restores(t) THEN FALSE ELSE stripped \/ Strips(t)
    /\ overtaken' = (overtaken \/ Overtakes(t))
    /\ forgotten' = (forgotten \/ Outdated(t))
    /\ UNCHANGED <<lost, model>>

-----------------------------------------------------------------------------
TaskStep(t) ==
    \/ Queue(t) \/ DeletePageIndex(t) \/ MarkPending(t)
    \/ Start(t) \/ ReadRecord(t) \/ MarkIndexing(t)
    \/ ReadPage(t) \/ ReadContent(t) \/ ReadIndex(t) \/ ReadChunks(t)
    \/ Embed(t) \/ Recheck(t) \/ Refresh(t)
    \/ EnsureTable(t) \/ Write(t) \/ WriteFails(t) \/ Fail(t) \/ MarkFailed(t)
    \/ SearchTable(t)

Request(t) ==
    UpdatePage(t) \/ ChangeBlocks(t) \/ DeletePage(t) \/ Reindex(t) \/ StartSearch(t)

Next ==
    \/ \E t \in Tasks : (TaskStep(t) \/ TimeOut(t) \/ Request(t)) /\ Histories(t)
    \/ \E t \in Tasks : DatabaseFails(t)
    \/ AgentEdit \/ OthersIndex \/ Crash

Spec == Init /\ [][Next]_vars

(* asyncio runs every background task to its end; embedding is bounded by  *)
(* knowledge_index_timeout_seconds.                                        *)
FairSpec == Spec /\ \A t \in Tasks : WF_vars(TaskStep(t) /\ Histories(t))
-----------------------------------------------------------------------------
(* Properties                                                              *)

Quiet == \A t \in Tasks : task[t].pc = "idle"

(* What a search can return: ready chunks of the model, with a vector.     *)
Searchable == {k \in DOMAIN chunks \intersect DOMAIN vectors :
                  chunks[k].status = "ready" /\ chunks[k].model = model}

(* When no task is left, a page shown as ready is searchable as it is now: *)
(* every chunk of it, with its current text and vector, and nothing else.  *)
(* Only an edit by the agent, a lost task, another configuration that      *)
(* somebody else was the first to use, or a session that writes over a     *)
(* generation it has not seen may leave an old index "ready".              *)
ReadyIsCurrent ==
    /\ Quiet /\ page.exists /\ record.status = "ready" /\ config = model
    /\ ~lost /\ ~stripped /\ ~overtaken
    => /\ Searchable = LiveBlocks \union {Title}
       /\ \A k \in Searchable : chunks[k].text = Specs(page.version)[k]

(* A search compares the query with the vector of the text it returns,     *)
(* unless a session wrote over a generation it had not seen.               *)
VectorMatchesText == overtaken \/ \A k \in Searchable : vectors[k].text = chunks[k].text

(* Vectors of two models are never in the table at the same time, and the  *)
(* configuration says whose they are, although restarts change the model   *)
(* and tasks and searches replace the table while others are at work.      *)
VectorsOfOneModel == \A k \in DOMAIN vectors : vectors[k].model = config

(* A page shown as waiting for its index has a task that will give it one, *)
(* or say that it failed: a task that works under the record's generation  *)
(* or is about to, or one of a later edit that will take the next.  Only a *)
(* task lost, a failure that could not be reported, a retry that an edit   *)
(* outdated and a session that wrote over another generation leave a page  *)
(* waiting for nothing.                                                    *)
Waiting == record.exists /\ record.status \in {"pending", "indexing"}

InCharge(t) ==
    \/ task[t].pc = "queue"
    \/ /\ task[t].pc \in {"start", "lookup", "mark"}
       /\ task[t].generation \in {NoGeneration, record.generation}
       /\ task[t].pc = "start" => task[t].version = page.version
    \/ /\ task[t].pc \in {"page", "content", "index", "chunks", "embed", "recheck",
                          "refresh", "table", "write", "fail"}
       /\ task[t].generation = record.generation
    \/ task[t].pc = "mark_failed" /\ task[t].cached.generation = record.generation

WaitingHasTask ==
    Waiting /\ ~lost /\ ~forgotten /\ ~overtaken => \E t \in Tasks : InCharge(t)

(* Indexing ends: a page shown as waiting for its index gets it, or is     *)
(* shown as failed or stale, with the same exceptions.                     *)
IndexingEnds == Waiting ~> ~Waiting \/ lost \/ forgotten \/ overtaken
=============================================================================

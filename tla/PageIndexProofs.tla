-------------------------- MODULE PageIndexProofs --------------------------
(***************************************************************************)
(* Proofs about PageIndex for every set of tasks, blocks and models, every *)
(* bound and every environment.                                            *)
(***************************************************************************)
EXTENDS PageIndex, TLAPS

-----------------------------------------------------------------------------
(* Functions from some of the keys                                         *)

LEMMA PartialFacts ==
    ASSUME NEW S, NEW f \in Partial(S)
    PROVE  DOMAIN f \subseteq Keys /\ f \in [DOMAIN f -> S]
  BY DEF Partial

LEMMA PartialIntro ==
    ASSUME NEW S, NEW K \in SUBSET Keys, NEW f \in [K -> S]
    PROVE  f \in Partial(S)
  BY DEF Partial

LEMMA NothingFacts ==
    ASSUME NEW S
    PROVE  Nothing \in Partial(S) /\ DOMAIN Nothing = {}
<1>1. Nothing \in [{} -> S] /\ DOMAIN Nothing = {}
  BY DEF Nothing
<1> QED BY <1>1, PartialIntro

LEMMA WithoutFacts ==
    ASSUME NEW S, NEW f \in Partial(S), NEW K
    PROVE  /\ Without(f, K) \in Partial(S)
           /\ DOMAIN Without(f, K) = DOMAIN f \ K
           /\ \A k \in DOMAIN f \ K : Without(f, K)[k] = f[k]
<1>1. DOMAIN f \subseteq Keys /\ f \in [DOMAIN f -> S]
  BY PartialFacts
<1>2. Without(f, K) \in [DOMAIN f \ K -> S]
  BY <1>1 DEF Without
<1>3. DOMAIN f \ K \in SUBSET Keys
  BY <1>1
<1>4. Without(f, K) \in Partial(S)
  BY <1>2, <1>3, PartialIntro
<1> QED BY <1>4 DEF Without

LEMMA ChunksWith ==
    ASSUME NEW f \in Partial(Chunks), NEW g \in Partial(Chunks)
    PROVE  /\ With(f, g) \in Partial(Chunks)
           /\ DOMAIN With(f, g) = DOMAIN f \union DOMAIN g
           /\ \A k \in DOMAIN g : With(f, g)[k] = g[k]
           /\ \A k \in DOMAIN f \ DOMAIN g : With(f, g)[k] = f[k]
<1>1. /\ DOMAIN f \subseteq Keys /\ f \in [DOMAIN f -> Chunks]
      /\ DOMAIN g \subseteq Keys /\ g \in [DOMAIN g -> Chunks]
  BY PartialFacts
<1>2. With(f, g) \in [DOMAIN f \union DOMAIN g -> Chunks]
  BY <1>1 DEF With
<1>3. DOMAIN f \union DOMAIN g \in SUBSET Keys
  BY <1>1
<1>4. With(f, g) \in Partial(Chunks)
  BY <1>2, <1>3, PartialIntro
<1> QED BY <1>4 DEF With

LEMMA VectorsWith ==
    ASSUME NEW f \in Partial(Vectors), NEW g \in Partial(Vectors)
    PROVE  /\ With(f, g) \in Partial(Vectors)
           /\ DOMAIN With(f, g) = DOMAIN f \union DOMAIN g
           /\ \A k \in DOMAIN g : With(f, g)[k] = g[k]
           /\ \A k \in DOMAIN f \ DOMAIN g : With(f, g)[k] = f[k]
<1>1. /\ DOMAIN f \subseteq Keys /\ f \in [DOMAIN f -> Vectors]
      /\ DOMAIN g \subseteq Keys /\ g \in [DOMAIN g -> Vectors]
  BY PartialFacts
<1>2. With(f, g) \in [DOMAIN f \union DOMAIN g -> Vectors]
  BY <1>1 DEF With
<1>3. DOMAIN f \union DOMAIN g \in SUBSET Keys
  BY <1>1
<1>4. With(f, g) \in Partial(Vectors)
  BY <1>2, <1>3, PartialIntro
<1> QED BY <1>4 DEF With

-----------------------------------------------------------------------------
(* Types                                                                   *)

Numbered == {"page", "content", "index", "chunks", "embed", "recheck", "refresh",
             "table", "write", "fail"}

Versioned == {"retry", "pending", "start", "lookup", "mark"} \union Numbered

(* A page has a title from the start, and a task that goes by the version  *)
(* of the page has one.                                                    *)
Versions ==
    /\ page.version >= 1
    /\ \A t \in Tasks : task[t].pc \in Versioned => task[t].version >= 1

TypeInv == TypeOK /\ Versions

LEMMA ConstantTypes ==
    /\ NoRecord \in Records /\ NoTask \in TaskStates
    /\ MaxRevision \in Nat /\ MaxRevision >= 1 /\ 1 \in Revisions
    /\ NoModel \notin Models
<1>1. MaxRevision \in Nat /\ MaxRevision >= 1 /\ NoModel \notin Models
  BY RevisionAssumption, ModelAssumption
<1>2. Nothing \in Partial(Revisions) /\ Nothing \in Partial(Chunks)
  BY NothingFacts
<1>3. NoRecord \in Records
  BY <1>2 DEF NoRecord, Records, Statuses
<1>4. NoTask \in TaskStates
  BY <1>1, <1>2, <1>3 DEF NoTask, TaskStates, Points, NoGeneration
<1> QED BY <1>1, <1>3, <1>4 DEF Revisions

LEMMA RecordUpdates ==
    ASSUME NEW r \in Records, NEW s \in Statuses, NEW x \in Partial(Revisions)
    PROVE  /\ [r EXCEPT !.status = s] \in Records
           /\ [r EXCEPT !.status = s, !.hash = x] \in Records
           /\ Pending(r) \in Records
           /\ Pending(r).generation = r.generation + 1
<1>1. /\ [r EXCEPT !.status = s] \in Records
      /\ [r EXCEPT !.status = s, !.hash = x] \in Records
  BY DEF Records
<1>2. r.generation + 1 \in Nat /\ "pending" \in Statuses
  BY DEF Records, Statuses
<1>3. ASSUME NEW n \in Nat, NEW p \in Statuses
      PROVE  /\ [r EXCEPT !.exists = TRUE, !.status = p, !.generation = n] \in Records
             /\ [r EXCEPT !.exists = TRUE, !.status = p, !.generation = n].generation = n
  BY DEF Records
<1>4. Pending(r) = [r EXCEPT !.exists = TRUE, !.status = "pending",
                             !.generation = r.generation + 1]
  BY DEF Pending
<1> QED BY <1>1, <1>2, <1>3, <1>4, ZenonT(30)

(* What a flush leaves is a record; and it is the session's own if nobody  *)
(* has changed the row since the session read it.                          *)
LEMMA FlushedFacts ==
    ASSUME record \in Records, NEW old \in Records, NEW new \in Records
    PROVE  /\ Flushed(old, new) \in Records
           /\ old = record => Flushed(old, new) = new
  BY DEF Flushed, Records

(* What a record's write leaves.                                           *)
LEMMA RecordWrites ==
    ASSUME record \in Records, NEW old \in Records, NEW s \in Statuses
    PROVE  /\ Flushed(old, [old EXCEPT !.status = s]) \in Records
           /\ \A x \in Partial(Revisions) :
                 Flushed(old, [old EXCEPT !.status = s, !.hash = x]) \in Records
           /\ Flushed(old, Pending(old)) \in Records
           /\ [Flushed(old, Pending(old)) EXCEPT !.status = s] \in Records
<1>1. Nothing \in Partial(Revisions)
  BY NothingFacts
<1>2. Pending(old) \in Records
  BY <1>1, RecordUpdates
<1>3. \A new \in Records : Flushed(old, new) \in Records
  BY FlushedFacts
<1>4. Flushed(old, Pending(old)) \in Records
  BY <1>2, <1>3
<1>5. [Flushed(old, Pending(old)) EXCEPT !.status = s] \in Records
  BY <1>1, <1>4, RecordUpdates
<1>6. [old EXCEPT !.status = s] \in Records
  BY <1>1, RecordUpdates
<1>7. \A x \in Partial(Revisions) : [old EXCEPT !.status = s, !.hash = x] \in Records
  BY RecordUpdates
<1>8. \A x \in Partial(Revisions) :
         Flushed(old, [old EXCEPT !.status = s, !.hash = x]) \in Records
  BY <1>3, <1>7
<1> QED BY <1>3, <1>4, <1>5, <1>6, <1>8

LEMMA IndexingTypes ==
    ASSUME record \in Records, NEW t \in Tasks, NEW old \in Records
    PROVE  Indexing(t, old) \in Records
<1>1. "indexing" \in Statuses
  BY DEF Statuses
<1> QED BY <1>1, RecordWrites DEF Indexing

LEMMA SpecsFacts ==
    ASSUME TypeInv, NEW version \in 1..MaxRevision
    PROVE  /\ Specs(version) \in Partial(Revisions)
           /\ DOMAIN Specs(version) = LiveBlocks \union {Title}
           /\ Specs(version)[Title] = version
           /\ \A b \in LiveBlocks : Specs(version)[b] = blocks[b]
<1>1. LiveBlocks \union {Title} \in SUBSET Keys
  BY DEF LiveBlocks, Keys
<1>2. \A b \in LiveBlocks : blocks[b] \in Revisions /\ b # Title
  BY TitleAssumption DEF TypeInv, TypeOK, LiveBlocks, New, Deleted, Revisions
<1>3. Specs(version) \in [LiveBlocks \union {Title} -> Revisions]
  BY <1>2 DEF Specs, Revisions
<1>4. Specs(version) \in Partial(Revisions)
  BY <1>1, <1>3, PartialIntro
<1> QED BY <1>2, <1>4 DEF Specs

LEMMA StagedFacts ==
    ASSUME TypeInv, NEW t \in Tasks
    PROVE  /\ Staged(t) \subseteq DOMAIN task[t].specs /\ Staged(t) \subseteq Keys
           /\ \A k \in Staged(t) : task[t].specs[k] \in Revisions
           /\ Staging(t) \in Partial(Vectors) /\ DOMAIN Staging(t) = Staged(t)
           /\ \A k \in Staged(t) :
                 Staging(t)[k].text = task[t].specs[k] /\ Staging(t)[k].model = model
<1>1. task[t].specs \in Partial(Revisions) /\ model \in Models
  BY DEF TypeInv, TypeOK, TaskStates
<1>2. Staged(t) \subseteq DOMAIN task[t].specs
  BY DEF Staged
<1>3. \A k \in Staged(t) : k \in Keys /\ task[t].specs[k] \in Revisions
  BY <1>1, <1>2, PartialFacts
<1>4. Staging(t) \in [Staged(t) -> Vectors]
  BY <1>1, <1>3 DEF Staging, Vectors
<1>5. Staging(t) \in Partial(Vectors)
  BY <1>3, <1>4, PartialIntro
<1> QED BY <1>2, <1>3, <1>5 DEF Staging

(* The row of a chunk that a task writes: its text and model are what the  *)
(* task has embedded, if the row is as the task found it but for its status.*)
LEMMA StoredChunkFacts ==
    ASSUME TypeInv, NEW t \in Tasks, NEW k \in Staged(t),
           k \in DOMAIN task[t].found => k \in DOMAIN chunks
    PROVE  /\ StoredChunk(t, k) \in Chunks
           /\ \/ k \notin DOMAIN task[t].found
              \/ /\ chunks[k].text = task[t].found[k].text
                 /\ chunks[k].model = task[t].found[k].model
              => /\ StoredChunk(t, k).text = task[t].specs[k]
                 /\ StoredChunk(t, k).model = model
           /\ \/ k \notin DOMAIN task[t].found
              \/ chunks[k].status = task[t].found[k].status
              => StoredChunk(t, k).status = "ready"
<1>1. task[t].specs[k] \in Revisions /\ model \in Models
  BY StagedFacts DEF TypeInv, TypeOK
<1> DEFINE new == [text |-> task[t].specs[k], status |-> "ready", model |-> model]
<1>2. new \in Chunks /\ DOMAIN new = {"text", "status", "model"}
  BY <1>1 DEF Chunks
<1>3. CASE k \notin DOMAIN task[t].found
  <2>1. StoredChunk(t, k) = new
    BY <1>3 DEF StoredChunk
  <2> QED BY <1>2, <1>3, <2>1
<1>4. CASE k \in DOMAIN task[t].found
  <2> DEFINE old == task[t].found[k]
  <2>1. chunks[k] \in Chunks
    BY <1>4, PartialFacts DEF TypeInv, TypeOK
  <2>2. StoredChunk(t, k) =
           [text   |-> IF new.text   = old.text   THEN chunks[k].text   ELSE new.text,
            status |-> IF new.status = old.status THEN chunks[k].status ELSE new.status,
            model  |-> IF new.model  = old.model  THEN chunks[k].model  ELSE new.model]
    BY <1>2, <1>4 DEF StoredChunk
  <2>3. StoredChunk(t, k) \in Chunks
    BY <1>2, <2>1, <2>2 DEF Chunks
  <2> QED BY <1>4, <2>2, <2>3
<1> QED BY <1>3, <1>4

WellFormed(u) == u \in TaskStates /\ (u.pc \in Versioned => u.version >= 1)

LEMMA PointNames ==
    /\ Points = {"idle", "retry", "pending", "queue", "start", "lookup", "mark", "page",
           "content", "index", "chunks", "embed", "recheck", "refresh", "write", "fail",
           "mark_failed", "delete", "table", "search"}
    /\ Versioned = {"retry", "pending", "start", "lookup", "mark", "page", "content", "index",
           "chunks", "embed", "recheck", "refresh", "table", "write", "fail"}
  BY DEF Points, Versioned, Numbered

LEMMA PageFacts ==
    ASSUME TypeInv
    PROVE  /\ page.version \in 1..MaxRevision /\ page.exists \in BOOLEAN
           /\ record \in Records /\ chunks \in Partial(Chunks)
           /\ vectors \in Partial(Vectors)
           /\ task \in [Tasks -> TaskStates]
           /\ \A t \in Tasks : task[t] \in TaskStates /\ WellFormed(task[t])
  BY DEF TypeInv, TypeOK, Versions, WellFormed

(* A step moves its own task only.                                         *)
LEMMA StepFacts ==
    ASSUME task \in [Tasks -> TaskStates], NEW t \in Tasks, NEW new, Step(t, new)
    PROVE  task'[t] = new /\ \A s \in Tasks : s # t => task'[s] = task[s]
  BY DEF Step

(* The states that the steps of a task give it.                            *)
LEMMA TaskUpdates ==
    ASSUME NEW u \in TaskStates, NEW p \in Points
    PROVE  /\ [u EXCEPT !.pc = p] \in TaskStates
           /\ \A v \in 0..MaxRevision : [u EXCEPT !.pc = p, !.version = v] \in TaskStates
           /\ \A r \in Records : [u EXCEPT !.pc = p, !.cached = r] \in TaskStates
           /\ \A v \in 0..MaxRevision : \A r \in Records :
                 [u EXCEPT !.pc = p, !.version = v, !.cached = r] \in TaskStates
           /\ \A r \in Records : \A n \in Nat :
                 [u EXCEPT !.pc = p, !.cached = r, !.generation = n] \in TaskStates
           /\ \A x \in Partial(Revisions) : [u EXCEPT !.pc = p, !.specs = x] \in TaskStates
           /\ \A f \in Partial(Chunks) : [u EXCEPT !.pc = p, !.found = f] \in TaskStates
           /\ \A b \in BOOLEAN : [u EXCEPT !.pc = p, !.failed = b] \in TaskStates
           /\ \A b \in BOOLEAN : [u EXCEPT !.pc = p, !.changed = b] \in TaskStates
           /\ \A m \in Models \union {NoModel} :
                 [u EXCEPT !.pc = p, !.seen = m] \in TaskStates
<1>1. [u EXCEPT !.pc = p] \in TaskStates
  BY DEF TaskStates
<1>2. \A v \in 0..MaxRevision : [u EXCEPT !.pc = p, !.version = v] \in TaskStates
  BY DEF TaskStates
<1>3. \A r \in Records : [u EXCEPT !.pc = p, !.cached = r] \in TaskStates
  BY DEF TaskStates
<1>4. \A v \in 0..MaxRevision : \A r \in Records :
         [u EXCEPT !.pc = p, !.version = v, !.cached = r] \in TaskStates
  BY DEF TaskStates
<1>5. \A r \in Records : \A n \in Nat :
         [u EXCEPT !.pc = p, !.cached = r, !.generation = n] \in TaskStates
  BY DEF TaskStates
<1>6. \A x \in Partial(Revisions) : [u EXCEPT !.pc = p, !.specs = x] \in TaskStates
  BY DEF TaskStates
<1>7. \A f \in Partial(Chunks) : [u EXCEPT !.pc = p, !.found = f] \in TaskStates
  BY DEF TaskStates
<1>8. \A b \in BOOLEAN : [u EXCEPT !.pc = p, !.failed = b] \in TaskStates
  BY DEF TaskStates
<1>9. \A b \in BOOLEAN : [u EXCEPT !.pc = p, !.changed = b] \in TaskStates
  BY DEF TaskStates
<1>10. \A m \in Models \union {NoModel} : [u EXCEPT !.pc = p, !.seen = m] \in TaskStates
  BY DEF TaskStates
<1> QED BY <1>1, <1>2, <1>3, <1>4, <1>5, <1>6, <1>7, <1>8, <1>9, <1>10

(* Where a step of a task leads, by action.                                *)
LEMMA TaskStepTypes ==
    ASSUME TypeInv, NEW t \in Tasks, TaskStep(t) \/ TimeOut(t)
    PROVE  WellFormed(task'[t]) /\ \A s \in Tasks : s # t => task'[s] = task[s]
<1> DEFINE Good == WellFormed(task'[t]) /\ \A s \in Tasks : s # t => task'[s] = task[s]
<1> SUFFICES Good
  OBVIOUS
<1> DEFINE u == task[t]
<1>a. /\ u \in TaskStates /\ page.version \in 1..MaxRevision /\ record \in Records
      /\ u.pc \in Versioned => u.version \in 1..MaxRevision
      /\ chunks \in Partial(Chunks) /\ NoRecord \in Records /\ NoTask \in TaskStates
      /\ u.cached \in Records /\ u.generation \in Nat
  BY ConstantTypes, PageFacts DEF WellFormed, TaskStates
<1>s. ASSUME NEW new, Step(t, new), new \in TaskStates, new.pc \in Versioned => new.version >= 1
      PROVE  Good
  <2>1. task \in [Tasks -> TaskStates]
    BY PageFacts
  <2> QED BY <1>s, <2>1, StepFacts DEF WellFormed
<1>e. End(t) => Good
  <2>1. NoTask.pc \notin Versioned
    BY PointNames DEF NoTask
  <2> QED BY <1>a, <1>s, <2>1 DEF End
<1>g. ASSUME NEW p \in Points, Goto(t, p), p \in Versioned => u.pc \in Versioned
      PROVE  Good
  <2> DEFINE new == [u EXCEPT !.pc = p]
  <2>1. new \in TaskStates
    BY <1>a, TaskUpdates
  <2>2. new.pc = p /\ new.version = u.version
    BY <1>a DEF TaskStates
  <2>3. Step(t, new)
    BY <1>g DEF Goto
  <2> HIDE DEF new
  <2> QED BY <1>a, <1>g, <1>s, <2>1, <2>2, <2>3, ConstantTypes
<1> HIDE DEF Good
<1>1. CASE Queue(t)
  <2> DEFINE new == [NoTask EXCEPT !.pc = "start", !.version = page.version]
  <2>1. new \in TaskStates
    <3>1. page.version \in 0..MaxRevision
      BY <1>a
    <3> QED BY <1>a, <3>1, PointNames, TaskUpdates
  <2>2. new.version = page.version
    BY <1>a DEF TaskStates
  <2>3. Step(t, new) \/ End(t)
    BY <1>1 DEF Queue
  <2> HIDE DEF new
  <2> QED BY <1>a, <1>e, <1>s, <2>1, <2>2, <2>3, ConstantTypes
<1>2. CASE DeletePageIndex(t) \/ Write(t) \/ MarkFailed(t) \/ SearchTable(t)
  BY <1>2, <1>e DEF DeletePageIndex, Write, MarkFailed, SearchTable
<1>3. ASSUME NEW p \in Points, NEW r \in Records, NEW n \in Nat, u.pc \in Versioned,
             Step(t, [u EXCEPT !.pc = p, !.cached = r, !.generation = n])
      PROVE  Good
  <2> DEFINE new == [u EXCEPT !.pc = p, !.cached = r, !.generation = n]
  <2>1. new \in TaskStates
    BY <1>a, TaskUpdates
  <2>2. new.version = u.version
    BY <1>a DEF TaskStates
  <2>3. Step(t, new)
    BY <1>3
  <2> HIDE DEF new
  <2> QED BY <1>a, <1>s, <1>3, <2>1, <2>2, <2>3, ConstantTypes
<1>4. ASSUME NEW p \in Points, NEW r \in Records, u.pc \in Versioned,
             Step(t, [u EXCEPT !.pc = p, !.cached = r])
      PROVE  Good
  <2> DEFINE new == [u EXCEPT !.pc = p, !.cached = r]
  <2>1. new \in TaskStates
    BY <1>a, TaskUpdates
  <2>2. new.version = u.version
    BY <1>a DEF TaskStates
  <2>3. Step(t, new)
    BY <1>4
  <2> HIDE DEF new
  <2> QED BY <1>a, <1>s, <1>4, <2>1, <2>2, <2>3, ConstantTypes
<1>5. CASE MarkPending(t) \/ MarkIndexing(t)
  <2>1. /\ Pending(u.cached).generation \in Nat /\ Indexing(t, u.cached) \in Records
        /\ u.pc \in Versioned /\ "start" \in Points /\ "page" \in Points
    BY <1>5, <1>a, RecordUpdates, IndexingTypes, PointNames
       DEF MarkPending, MarkIndexing, Pending, Records
  <2>2. ASSUME MarkPending(t) PROVE Good
    BY <2>1, <2>2, <1>3, <1>a, <1>e DEF MarkPending
  <2>3. ASSUME MarkIndexing(t) PROVE Good
    <3>1. CASE ~Writable(u.cached)
      BY <1>e, <2>3, <3>1 DEF MarkIndexing
    <3>2. CASE Writable(u.cached)
      <4>1. record'.generation \in Nat
        BY <2>1, <2>3, <3>2 DEF MarkIndexing, Records
      <4>2. PICK n \in Nat : n = record'.generation
        BY <4>1
      <4>3. Step(t, [u EXCEPT !.pc = "page", !.cached = NoRecord, !.generation = n])
        BY <2>3, <3>2, <4>2 DEF MarkIndexing
      <4> QED BY <1>3, <1>a, <2>1, <4>3
    <3> QED BY <3>1, <3>2
  <2> QED BY <1>5, <2>2, <2>3
<1>6. CASE Start(t)
  BY <1>6, <1>a, <1>e, <1>g, PointNames DEF Start
<1>15. CASE ReadRecord(t)
  <2>1. u.pc \in {"retry", "lookup"} /\ u.pc \in Versioned
    BY <1>15, PointNames DEF ReadRecord
  <2>2. PICK p \in {"pending", "mark"} : p = IF u.pc = "retry" THEN "pending" ELSE "mark"
    OBVIOUS
  <2>3. Step(t, [u EXCEPT !.pc = p, !.cached = record]) \/ End(t)
    BY <1>15, <1>a, <2>1, <2>2 DEF ReadRecord, TaskStates
  <2> QED BY <1>4, <1>a, <1>e, <2>1, <2>3, PointNames
<1>7. CASE ReadPage(t) \/ WriteFails(t) \/ TimeOut(t) \/ EnsureTable(t)
  BY <1>7, <1>g, PointNames DEF ReadPage, WriteFails, TimeOut, EnsureTable
<1>8. CASE ReadContent(t)
  <2> DEFINE new == [u EXCEPT !.pc = "index", !.specs = Specs(u.version)]
  <2>1. u.pc = "content" /\ u.version \in 1..MaxRevision
    BY <1>8, <1>a, PointNames DEF ReadContent
  <2>2. new \in TaskStates
    BY <1>a, <2>1, SpecsFacts, TaskUpdates, PointNames
  <2>3. new.version = u.version
    BY <1>a DEF TaskStates
  <2>4. Step(t, new)
    BY <1>8 DEF ReadContent
  <2> HIDE DEF new
  <2> QED BY <1>s, <2>1, <2>2, <2>3, <2>4, ConstantTypes
<1>9. CASE ReadIndex(t)
  BY <1>9, <1>e, <1>g, PointNames DEF ReadIndex
<1>10. CASE ReadChunks(t)
  <2> DEFINE new == [u EXCEPT !.pc = "embed", !.found = chunks]
  <2>1. u.pc = "chunks" /\ u.version \in 1..MaxRevision
    BY <1>10, <1>a, PointNames DEF ReadChunks
  <2>2. new \in TaskStates
    BY <1>a, TaskUpdates, PointNames
  <2>3. new.version = u.version
    BY <1>a DEF TaskStates
  <2>4. Step(t, new)
    BY <1>10 DEF ReadChunks
  <2> HIDE DEF new
  <2> QED BY <1>s, <2>1, <2>2, <2>3, <2>4, ConstantTypes
<1>11. CASE Embed(t)
  <2>0. PICK b \in BOOLEAN : Step(t, [u EXCEPT !.pc = "recheck", !.failed = b])
    BY <1>11 DEF Embed
  <2> DEFINE new == [u EXCEPT !.pc = "recheck", !.failed = b]
  <2>1. u.pc = "embed" /\ u.version \in 1..MaxRevision
    BY <1>11, <1>a, PointNames DEF Embed
  <2>2. new \in TaskStates
    BY <1>a, TaskUpdates, PointNames
  <2>3. new.version = u.version
    BY <1>a DEF TaskStates
  <2>4. Step(t, new)
    BY <2>0
  <2> HIDE DEF new
  <2> QED BY <1>s, <2>1, <2>2, <2>3, <2>4, ConstantTypes
<1>12. CASE Recheck(t)
  <2> DEFINE b == Specs(u.version) # u.specs
             new == [u EXCEPT !.pc = "refresh", !.changed = b]
  <2>1. u.pc = "recheck" /\ u.version \in 1..MaxRevision /\ b \in BOOLEAN
    BY <1>12, <1>a, PointNames DEF Recheck
  <2>4. Step(t, new)
    BY <1>12 DEF Recheck
  <2> HIDE DEF b
  <2>2. new \in TaskStates
    BY <1>a, <2>1, TaskUpdates, PointNames
  <2>3. new.version = u.version
    BY <1>a DEF TaskStates
  <2> HIDE DEF new
  <2> QED BY <1>s, <2>1, <2>2, <2>3, <2>4, ConstantTypes
<1>13. CASE Refresh(t)
  BY <1>13, <1>a, <1>e, <1>g, <1>4, PointNames DEF Refresh, AfterRefresh
<1>14. CASE Fail(t)
  <2> DEFINE new == [NoTask EXCEPT !.pc = "mark_failed", !.cached = record]
  <2>1. new \in TaskStates
    BY <1>a, TaskUpdates, PointNames
  <2>2. new.pc = "mark_failed"
    BY <1>a DEF TaskStates
  <2>3. Step(t, new) \/ End(t)
    BY <1>14 DEF Fail
  <2> HIDE DEF new
  <2> QED BY <1>e, <1>s, <2>1, <2>2, <2>3, PointNames
<1> QED BY <1>1, <1>2, <1>5, <1>6, <1>7, <1>8, <1>9, <1>10, <1>11, <1>12, <1>13, <1>14,
          <1>15 DEF TaskStep

LEMMA RequestTypes ==
    ASSUME TypeInv, NEW t \in Tasks, Request(t)
    PROVE  WellFormed(task'[t]) /\ \A s \in Tasks : s # t => task'[s] = task[s]
<1> DEFINE Good == WellFormed(task'[t]) /\ \A s \in Tasks : s # t => task'[s] = task[s]
<1> SUFFICES Good
  OBVIOUS
<1>a. /\ page.version \in 1..MaxRevision /\ record \in Records /\ NoTask \in TaskStates
      /\ config \in Models \union {NoModel}
  BY ConstantTypes, PageFacts DEF TypeInv, TypeOK
<1>s. ASSUME NEW new, Step(t, new), new \in TaskStates, new.pc \in Versioned => new.version >= 1
      PROVE  Good
  <2>1. task \in [Tasks -> TaskStates]
    BY PageFacts
  <2> QED BY <1>s, <2>1, StepFacts DEF WellFormed
<1> HIDE DEF Good
<1>1. CASE UpdatePage(t)
  <2> DEFINE new == [NoTask EXCEPT !.pc = "start", !.version = page.version + 1]
  <2>1. page.version + 1 \in 0..MaxRevision /\ page.version + 1 >= 1
    BY <1>1, <1>a, ConstantTypes DEF UpdatePage, SetTitle
  <2>2. new \in TaskStates
    BY <1>a, <2>1, TaskUpdates, PointNames
  <2>3. new.version = page.version + 1
    BY <1>a DEF TaskStates
  <2>4. Step(t, new)
    BY <1>1 DEF UpdatePage
  <2> HIDE DEF new
  <2> QED BY <1>s, <2>1, <2>2, <2>3, <2>4
<1>2. CASE Reindex(t)
  <2> DEFINE new == [NoTask EXCEPT !.pc = "retry", !.version = page.version]
  <2>1. page.version \in 0..MaxRevision /\ page.version >= 1
    BY <1>a, ConstantTypes
  <2>2. new \in TaskStates
    BY <1>a, <2>1, TaskUpdates, PointNames
  <2>3. new.version = page.version
    BY <1>a DEF TaskStates
  <2>4. Step(t, new)
    BY <1>2 DEF Reindex
  <2> HIDE DEF new
  <2> QED BY <1>s, <2>1, <2>2, <2>3, <2>4
<1>3. ASSUME NEW p \in {"queue", "delete"}, Step(t, [NoTask EXCEPT !.pc = p]) PROVE Good
  <2> DEFINE new == [NoTask EXCEPT !.pc = p]
  <2>1. new \in TaskStates
    BY <1>a, TaskUpdates, PointNames
  <2>2. new.pc = p
    BY <1>a DEF TaskStates
  <2>3. Step(t, new)
    BY <1>3
  <2> HIDE DEF new
  <2> QED BY <1>s, <1>3, <2>1, <2>2, <2>3, PointNames
<1>4. CASE StartSearch(t)
  <2> DEFINE new == [NoTask EXCEPT !.pc = "search", !.seen = config]
  <2>1. new \in TaskStates
    BY <1>a, TaskUpdates, PointNames
  <2>2. new.pc = "search"
    BY <1>a DEF TaskStates
  <2>3. Step(t, new)
    BY <1>4 DEF StartSearch
  <2> HIDE DEF new
  <2> QED BY <1>s, <2>1, <2>2, <2>3, PointNames
<1> QED BY <1>1, <1>2, <1>3, <1>4 DEF Request, ChangeBlocks, DeletePage

-----------------------------------------------------------------------------
(* What the writes leave in the index                                      *)

(* The status of some chunks is changed.                                   *)
LEMMA Restatused ==
    ASSUME chunks \in Partial(Chunks), NEW K,
           NEW new, new = [k \in DOMAIN chunks |->
                             IF k \in K THEN [chunks[k] EXCEPT !.status = "stale"] ELSE chunks[k]]
    PROVE  /\ new \in Partial(Chunks) /\ DOMAIN new = DOMAIN chunks
           /\ \A k \in DOMAIN chunks :
                 /\ new[k].text = chunks[k].text /\ new[k].model = chunks[k].model
                 /\ k \in K => new[k].status = "stale"
                 /\ k \notin K => new[k] = chunks[k]
<1>1. DOMAIN chunks \in SUBSET Keys /\ \A k \in DOMAIN chunks : chunks[k] \in Chunks
  BY PartialFacts
<1>2. \A k \in DOMAIN chunks :
         /\ [chunks[k] EXCEPT !.status = "stale"] \in Chunks
         /\ [chunks[k] EXCEPT !.status = "stale"].text = chunks[k].text
         /\ [chunks[k] EXCEPT !.status = "stale"].model = chunks[k].model
         /\ [chunks[k] EXCEPT !.status = "stale"].status = "stale"
  BY <1>1 DEF Chunks
<1>3. new \in [DOMAIN chunks -> Chunks]
  BY <1>1, <1>2
<1> QED BY <1>1, <1>2, <1>3, PartialIntro

LEMMA MarkedStale ==
    ASSUME chunks \in Partial(Chunks),
           NEW new, new = [k \in DOMAIN chunks |-> [chunks[k] EXCEPT !.status = "stale"]]
    PROVE  /\ new \in Partial(Chunks) /\ DOMAIN new = DOMAIN chunks
           /\ \A k \in DOMAIN chunks :
                 /\ new[k].text = chunks[k].text /\ new[k].model = chunks[k].model
                 /\ new[k].status = "stale"
<1>1. new = [k \in DOMAIN chunks |->
                IF k \in DOMAIN chunks THEN [chunks[k] EXCEPT !.status = "stale"] ELSE chunks[k]]
  OBVIOUS
<1> QED BY <1>1, Restatused

LEMMA KeptFacts ==
    ASSUME TypeInv
    PROVE  /\ Kept \in Partial(Vectors) /\ DOMAIN Kept \subseteq DOMAIN vectors
           /\ \A k \in DOMAIN Kept : Kept[k] = vectors[k]
           /\ TableOfOthers => Kept = Nothing /\ DOMAIN Kept = {}
           /\ ~TableOfOthers => Kept = vectors
  BY NothingFacts DEF Kept, TypeInv, TypeOK

(* A successful write: the staged chunks are stored, the obsolete ones go, *)
(* the vectors are those of the table that is kept and the staged ones.    *)
Table(t) == IF Obsolete(t) = {} THEN vectors ELSE Kept

LEMMA WriteReadyFacts ==
    ASSUME TypeInv, NEW t \in Tasks, Consistent(t), ~task[t].changed, ~task[t].failed,
           WriteReady(t)
    PROVE  /\ chunks' \in Partial(Chunks)
           /\ DOMAIN chunks' = (DOMAIN chunks \ Obsolete(t)) \union Staged(t)
           /\ \A k \in Staged(t) : chunks'[k] = StoredChunk(t, k)
           /\ \A k \in DOMAIN chunks' \ Staged(t) : chunks'[k] = chunks[k]
           /\ vectors' \in Partial(Vectors)
           /\ DOMAIN vectors' = (DOMAIN Table(t) \ Obsolete(t)) \union Staged(t)
           /\ \A k \in Staged(t) :
                 vectors'[k].text = task[t].specs[k] /\ vectors'[k].model = model
           /\ \A k \in DOMAIN vectors' \ Staged(t) :
                 k \in DOMAIN vectors /\ vectors'[k] = vectors[k]
           /\ config' = model
<1>a. chunks \in Partial(Chunks) /\ vectors \in Partial(Vectors)
  BY PageFacts
<1>1. \A k \in Staged(t) : k \in DOMAIN task[t].found => k \in DOMAIN chunks
  BY DEF Consistent
<1> DEFINE stored == [k \in Staged(t) |-> StoredChunk(t, k)]
<1>2. stored \in Partial(Chunks) /\ DOMAIN stored = Staged(t)
      /\ \A k \in Staged(t) : stored[k] = StoredChunk(t, k)
  <2>1. \A k \in Staged(t) : StoredChunk(t, k) \in Chunks
    BY <1>1, StoredChunkFacts
  <2>2. Staged(t) \in SUBSET Keys /\ stored \in [Staged(t) -> Chunks]
    BY <2>1, StagedFacts
  <2> QED BY <2>2, PartialIntro
<1> DEFINE rest == Without(chunks, Obsolete(t))
<1>3. /\ rest \in Partial(Chunks) /\ DOMAIN rest = DOMAIN chunks \ Obsolete(t)
      /\ \A k \in DOMAIN chunks \ Obsolete(t) : rest[k] = chunks[k]
  BY <1>a, WithoutFacts, ZenonT(30)
<1>4. chunks' = With(rest, stored)
  BY DEF WriteReady
<1>5. Table(t) \in Partial(Vectors)
      /\ \A k \in DOMAIN Table(t) : k \in DOMAIN vectors /\ Table(t)[k] = vectors[k]
  BY <1>a, KeptFacts DEF Table
<1> DEFINE left == Without(Table(t), Obsolete(t))
<1>6. /\ left \in Partial(Vectors) /\ DOMAIN left = DOMAIN Table(t) \ Obsolete(t)
      /\ \A k \in DOMAIN Table(t) \ Obsolete(t) : left[k] = Table(t)[k]
  <2>1. Table(t) \in Partial(Vectors)
    BY <1>5
  <2> QED BY <2>1, WithoutFacts, ZenonT(30)
<1>7. vectors' = With(left, Staging(t)) /\ config' = model
  BY DEF WriteReady, Table
<1> HIDE DEF stored, rest, left
<1>8. /\ chunks' \in Partial(Chunks) /\ DOMAIN chunks' = DOMAIN rest \union DOMAIN stored
      /\ \A k \in DOMAIN stored : chunks'[k] = stored[k]
      /\ \A k \in DOMAIN rest \ DOMAIN stored : chunks'[k] = rest[k]
  <2>1. rest \in Partial(Chunks) /\ stored \in Partial(Chunks)
    BY <1>2, <1>3
  <2>2. /\ With(rest, stored) \in Partial(Chunks)
        /\ DOMAIN With(rest, stored) = DOMAIN rest \union DOMAIN stored
        /\ \A k \in DOMAIN stored : With(rest, stored)[k] = stored[k]
        /\ \A k \in DOMAIN rest \ DOMAIN stored : With(rest, stored)[k] = rest[k]
    BY <2>1, ChunksWith
  <2> QED BY <1>4, <2>2
<1>9. /\ Staging(t) \in Partial(Vectors) /\ DOMAIN Staging(t) = Staged(t)
      /\ \A k \in Staged(t) :
            Staging(t)[k].text = task[t].specs[k] /\ Staging(t)[k].model = model
  BY StagedFacts
<1>10. /\ vectors' \in Partial(Vectors)
       /\ DOMAIN vectors' = DOMAIN left \union DOMAIN Staging(t)
       /\ \A k \in DOMAIN Staging(t) : vectors'[k] = Staging(t)[k]
       /\ \A k \in DOMAIN left \ DOMAIN Staging(t) : vectors'[k] = left[k]
  <2>1. left \in Partial(Vectors) /\ Staging(t) \in Partial(Vectors)
    BY <1>6, <1>9
  <2>2. /\ With(left, Staging(t)) \in Partial(Vectors)
        /\ DOMAIN With(left, Staging(t)) = DOMAIN left \union DOMAIN Staging(t)
        /\ \A k \in DOMAIN Staging(t) : With(left, Staging(t))[k] = Staging(t)[k]
        /\ \A k \in DOMAIN left \ DOMAIN Staging(t) : With(left, Staging(t))[k] = left[k]
    BY <2>1, VectorsWith
  <2> QED BY <1>7, <2>2
<1>11. \A k \in DOMAIN vectors' \ Staged(t) : k \in DOMAIN vectors /\ vectors'[k] = vectors[k]
  BY <1>5, <1>6, <1>9, <1>10
<1> QED BY <1>2, <1>3, <1>6, <1>7, <1>8, <1>9, <1>10, <1>11

(* A failed write leaves the index, or withdraws the chunks it had found.  *)
LEMMA WriteFailedFacts ==
    ASSUME TypeInv, NEW t \in Tasks, WriteFailed(t)
    PROVE  /\ chunks' \in Partial(Chunks) /\ vectors' \in Partial(Vectors)
           /\ DOMAIN chunks' = DOMAIN chunks /\ config' = config
           /\ \A k \in DOMAIN chunks :
                 chunks'[k].text = chunks[k].text /\ chunks'[k].model = chunks[k].model
           /\ \/ chunks' = chunks /\ vectors' = vectors
              \/ /\ vectors' = Nothing
                 /\ \A k \in DOMAIN chunks :
                       /\ k \in DOMAIN task[t].found => chunks'[k].status = "stale"
                       /\ k \notin DOMAIN task[t].found => chunks'[k] = chunks[k]
<1>a. chunks \in Partial(Chunks) /\ vectors \in Partial(Vectors) /\ Nothing \in Partial(Vectors)
  BY PageFacts, NothingFacts
<1>1. CASE task[t].cached.hash \in {Nothing, task[t].specs}
  BY <1>1, <1>a DEF WriteFailed
<1>2. CASE task[t].cached.hash \notin {Nothing, task[t].specs}
  <2> DEFINE new == [k \in DOMAIN chunks |->
                       IF k \in DOMAIN task[t].found THEN [chunks[k] EXCEPT !.status = "stale"]
                       ELSE chunks[k]]
  <2>1. chunks' = new /\ vectors' = Nothing /\ config' = config
    BY <1>2 DEF WriteFailed
  <2> HIDE DEF new
  <2>2. /\ new \in Partial(Chunks) /\ DOMAIN new = DOMAIN chunks
        /\ \A k \in DOMAIN chunks :
              /\ new[k].text = chunks[k].text /\ new[k].model = chunks[k].model
              /\ k \in DOMAIN task[t].found => new[k].status = "stale"
              /\ k \notin DOMAIN task[t].found => new[k] = chunks[k]
    BY <1>a, Restatused DEF new
  <2> QED BY <1>a, <2>1, <2>2
<1> QED BY <1>1, <1>2

(* A search that finds another configuration marks everything stale.       *)
LEMMA SearchFacts ==
    ASSUME TypeInv, NEW t \in Tasks, SearchTable(t)
    PROVE  /\ chunks' \in Partial(Chunks) /\ DOMAIN chunks' = DOMAIN chunks
           /\ \A k \in DOMAIN chunks :
                 chunks'[k].text = chunks[k].text /\ chunks'[k].model = chunks[k].model
           /\ record' \in Records
           /\ vectors' = Kept /\ config' = model
           /\ \/ chunks' = chunks /\ record' = record /\ task[t].seen \in {NoModel, model}
              \/ /\ task[t].seen \notin {NoModel, model}
                 /\ \A k \in DOMAIN chunks : chunks'[k].status = "stale"
                 /\ record' = IF record.exists THEN [record EXCEPT !.status = "stale"] ELSE record
<1>a. chunks \in Partial(Chunks) /\ record \in Records /\ vectors' = Kept /\ config' = model
  BY PageFacts DEF SearchTable
<1>1. CASE task[t].seen \in {NoModel, model}
  BY <1>1, <1>a DEF SearchTable
<1>2. CASE task[t].seen \notin {NoModel, model}
  <2> DEFINE new == [k \in DOMAIN chunks |-> [chunks[k] EXCEPT !.status = "stale"]]
  <2>1. /\ chunks' = new
        /\ record' = IF record.exists THEN [record EXCEPT !.status = "stale"] ELSE record
    BY <1>2 DEF SearchTable
  <2> HIDE DEF new
  <2>2. /\ new \in Partial(Chunks) /\ DOMAIN new = DOMAIN chunks
        /\ \A k \in DOMAIN chunks :
              /\ new[k].text = chunks[k].text /\ new[k].model = chunks[k].model
              /\ new[k].status = "stale"
    BY <1>a, MarkedStale DEF new
  <2>3. [record EXCEPT !.status = "stale"] \in Records
    BY <1>a DEF Records, Statuses
  <2> QED BY <1>a, <1>2, <2>1, <2>2, <2>3
<1> QED BY <1>1, <1>2

(* Edits keep the page, its blocks and its index well-formed.              *)
Shared ==
    /\ page \in [exists: BOOLEAN, version: 0..MaxRevision] /\ page.version >= 1
    /\ blocks \in [Blocks -> Revisions \union {New, Deleted}]
    /\ record \in Records /\ chunks \in Partial(Chunks) /\ vectors \in Partial(Vectors)
    /\ config \in Models \union {NoModel}

LEMMA EditTypes ==
    ASSUME TypeInv, SetTitle \/ EditBlocks
    PROVE  Shared'
<1>a. /\ page \in [exists: BOOLEAN, version: 0..MaxRevision] /\ page.version >= 1
      /\ blocks \in [Blocks -> Revisions \union {New, Deleted}]
      /\ record \in Records /\ chunks \in Partial(Chunks) /\ vectors \in Partial(Vectors)
      /\ config \in Models \union {NoModel} /\ MaxRevision \in Nat /\ MaxRevision >= 1
  BY ConstantTypes DEF TypeInv, TypeOK, Versions
<1>1. CASE SetTitle
  <2>1. page.version + 1 \in 0..MaxRevision /\ page.version + 1 >= 1
    BY <1>1, <1>a DEF SetTitle
  <2>2. page' = [page EXCEPT !.version = page.version + 1]
    BY <1>1 DEF SetTitle
  <2>3. page' \in [exists: BOOLEAN, version: 0..MaxRevision] /\ page'.version >= 1
    BY <1>a, <2>1, <2>2
  <2> QED BY <1>1, <1>a, <2>3 DEF SetTitle, index, Shared
<1>2. ASSUME NEW b \in Blocks, CreateBlock(b) \/ UpdateBlock(b) \/ DeleteBlock(b)
      PROVE  Shared'
  <2>1. /\ blocks' \in [Blocks -> Revisions \union {New, Deleted}]
    <3>1. CASE CreateBlock(b) \/ DeleteBlock(b)
      BY <1>a, <1>2, <3>1, ConstantTypes DEF CreateBlock, DeleteBlock, Deleted
    <3>2. CASE UpdateBlock(b)
      <4>1. blocks[b] + 1 \in Revisions
        BY <1>a, <3>2 DEF UpdateBlock, Revisions
      <4>2. blocks' = [blocks EXCEPT ![b] = blocks[b] + 1]
        BY <3>2 DEF UpdateBlock
      <4> QED BY <1>a, <4>1, <4>2
    <3> QED BY <1>2, <3>1, <3>2
  <2>2. chunks' \in Partial(Chunks)
    <3>1. Without(chunks, {b}) \in Partial(Chunks)
      BY <1>a, WithoutFacts, Zenon
    <3> QED BY <1>a, <1>2, <3>1 DEF CreateBlock, UpdateBlock, DeleteBlock, index
  <2> QED BY <1>a, <1>2, <2>1, <2>2 DEF CreateBlock, UpdateBlock, DeleteBlock, index, Shared
<1> QED BY <1>1, <1>2 DEF EditBlocks

LEMMA WriteTypes ==
    ASSUME TypeInv, NEW t \in Tasks, Write(t)
    PROVE  /\ record' \in Records /\ chunks' \in Partial(Chunks)
           /\ vectors' \in Partial(Vectors) /\ config' \in Models \union {NoModel}
<1>a. /\ task[t].cached \in Records /\ task[t].specs \in Partial(Revisions)
      /\ record \in Records /\ chunks \in Partial(Chunks) /\ vectors \in Partial(Vectors)
      /\ config \in Models \union {NoModel} /\ model \in Models
      /\ {"stale", "failed", "ready"} \subseteq Statuses
  BY DEF TypeInv, TypeOK, TaskStates, Statuses
<1>1. CASE WriteStale(t)
  BY <1>1, <1>a, RecordWrites DEF WriteStale
<1>2. CASE WriteFailed(t)
  <2>1. record' \in Records
    BY <1>2, <1>a, RecordWrites DEF WriteFailed
  <2> QED BY <1>2, <1>a, <2>1, WriteFailedFacts
<1>3. CASE WriteReady(t) /\ ~task[t].changed /\ ~task[t].failed
  <2>1. record' \in Records
    BY <1>3, <1>a, RecordWrites DEF WriteReady
  <2>2. Consistent(t)
    BY DEF Write
  <2> QED BY <1>3, <1>a, <2>1, <2>2, WriteReadyFacts
<1> QED BY <1>1, <1>2, <1>3 DEF Write

LEMMA TaskStepShared ==
    ASSUME TypeInv, NEW t \in Tasks, TaskStep(t) \/ TimeOut(t) \/ Request(t)
    PROVE  Shared'
<1>a. Shared /\ model \in Models /\ {"stale", "failed", "ready", "indexing"} \subseteq Statuses
      /\ task[t].cached \in Records /\ Nothing \in Partial(Vectors)
      /\ Nothing \in Partial(Chunks)
      /\ NoRecord \in Records
  BY NothingFacts, ConstantTypes DEF TypeInv, TypeOK, TaskStates, Statuses, Shared, Versions
<1>1. CASE UNCHANGED <<content, index>>
  BY <1>1, <1>a DEF content, index, Shared
<1>2. CASE MarkPending(t)
  <2>1. record' = record \/ record' = Flushed(task[t].cached, Pending(task[t].cached))
    BY <1>2 DEF MarkPending
  <2>2. record' \in Records
    BY <1>a, <2>1, RecordWrites DEF Shared
  <2> QED BY <1>2, <1>a, <2>2 DEF MarkPending, Shared, content
<1>3. CASE MarkIndexing(t)
  <2>1. record' = record \/ record' = Indexing(t, task[t].cached)
    BY <1>3 DEF MarkIndexing
  <2>2. record' \in Records
    BY <1>a, <2>1, IndexingTypes DEF Shared
  <2> QED BY <1>3, <1>a, <2>2 DEF MarkIndexing, Shared, content
<1>4. CASE EnsureTable(t)
  BY <1>4, <1>a, KeptFacts DEF EnsureTable, Shared, content
<1>5. CASE Write(t)
  BY <1>5, <1>a, WriteTypes DEF Write, Shared, content
<1>6. CASE MarkFailed(t)
  <2>1. \/ record' = record
        \/ record' = Flushed(task[t].cached, [task[t].cached EXCEPT !.status = "failed"])
    BY <1>6 DEF MarkFailed
  <2>2. record' \in Records
    BY <1>a, <2>1, RecordWrites DEF Shared
  <2> QED BY <1>6, <1>a, <2>2 DEF MarkFailed, Shared, content
<1>7. CASE SearchTable(t)
  <2>1. /\ record' \in Records /\ chunks' \in Partial(Chunks)
        /\ vectors' \in Partial(Vectors) /\ config' \in Models
    BY <1>7, <1>a, SearchFacts, KeptFacts
  <2> QED BY <1>7, <1>a, <2>1 DEF SearchTable, Shared, content
<1>8. CASE DeletePageIndex(t)
  BY <1>8, <1>a DEF DeletePageIndex, Shared, content
<1>9. CASE UpdatePage(t) \/ ChangeBlocks(t)
  BY <1>9, EditTypes DEF UpdatePage, ChangeBlocks
<1>10. CASE DeletePage(t)
  <2>1. page' \in [exists: BOOLEAN, version: 0..MaxRevision] /\ page'.version >= 1
    BY <1>10, <1>a DEF DeletePage, Shared
  <2>2. blocks' \in [Blocks -> Revisions \union {New, Deleted}]
    BY <1>10 DEF DeletePage
  <2> QED BY <1>10, <1>a, <2>1, <2>2 DEF DeletePage, Shared
<1> QED
  BY <1>1, <1>2, <1>3, <1>4, <1>5, <1>6, <1>7, <1>8, <1>9, <1>10
     DEF TaskStep, TimeOut, Request, Queue, Start, ReadRecord, ReadPage, ReadContent, ReadIndex,
         ReadChunks, Embed, Recheck, Refresh, WriteFails, Fail, Reindex, StartSearch

(* A failed session leaves everything but its own task.                    *)
LEMMA DatabaseMoves ==
    ASSUME task \in [Tasks -> TaskStates], NEW t \in Tasks, DatabaseFails(t)
    PROVE  /\ task'[t] = NoTask /\ \A s \in Tasks : s # t => task'[s] = task[s]
           /\ page' = page /\ blocks' = blocks /\ record' = record /\ chunks' = chunks
           /\ vectors' = vectors /\ config' = config /\ model' = model
           /\ overtaken' = overtaken /\ stripped' = stripped
  BY StepFacts DEF DatabaseFails, End, content, index

LEMMA TypeStep == TypeInv /\ [Next]_vars => TypeInv'
<1> SUFFICES ASSUME TypeInv, [Next]_vars PROVE TypeInv'
  OBVIOUS
<1> DEFINE Booleans == /\ lost \in BOOLEAN /\ forgotten \in BOOLEAN
                       /\ overtaken \in BOOLEAN /\ stripped \in BOOLEAN
<1>a. /\ Shared /\ model \in Models /\ Booleans
      /\ task \in [Tasks -> TaskStates] /\ \A t \in Tasks : WellFormed(task[t])
  BY PageFacts DEF TypeInv, TypeOK, Shared, Versions
<1>b. ASSUME Shared', model' \in Models, Booleans',
             task' \in [Tasks -> TaskStates], \A t \in Tasks : WellFormed(task'[t])
      PROVE  TypeInv'
  BY <1>b DEF Shared, TypeInv, TypeOK, Versions, WellFormed
<1>1. ASSUME NEW t \in Tasks, TaskStep(t) \/ TimeOut(t) \/ Request(t), Histories(t)
      PROVE  TypeInv'
  <2>1. Shared'
    BY <1>1, TaskStepShared
  <2>2. WellFormed(task'[t]) /\ \A s \in Tasks : s # t => task'[s] = task[s]
    BY <1>1, TaskStepTypes, RequestTypes
  <2>3. \E u : task' = [task EXCEPT ![t] = u]
    BY <1>1 DEF TaskStep, TimeOut, Request, Queue, DeletePageIndex, MarkPending, Start,
       ReadRecord, MarkIndexing, ReadPage, ReadContent, ReadIndex, ReadChunks, Embed, Recheck,
       Refresh, EnsureTable, Write, WriteFails, Fail, MarkFailed, SearchTable, UpdatePage,
       ChangeBlocks, DeletePage, Reindex, StartSearch, Step, Goto, End
  <2>4. task' \in [Tasks -> TaskStates]
    BY <1>a, <2>2, <2>3 DEF WellFormed
  <2>5. stripped' \in BOOLEAN
    BY <1>1, <1>a DEF Histories
  <2>6. overtaken' \in BOOLEAN /\ forgotten' \in BOOLEAN /\ lost' \in BOOLEAN
        /\ model' \in Models
    BY <1>1, <1>a DEF Histories
  <2> QED BY <1>a, <1>b, <2>1, <2>2, <2>4, <2>5, <2>6
<1>2. CASE AgentEdit
  <2>1. Shared'
    BY <1>2, EditTypes DEF AgentEdit
  <2> QED BY <1>2, <1>a, <1>b, <2>1 DEF AgentEdit
<1>3. CASE OthersIndex
  <2>1. Nothing \in Partial(Vectors)
    BY NothingFacts
  <2> QED BY <1>3, <1>a, <1>b, <2>1 DEF OthersIndex, Shared, content
<1>4. CASE Crash
  <2>1. NoTask \in TaskStates /\ NoTask.pc \notin Versioned
    BY ConstantTypes, PointNames DEF NoTask
  <2>2. task' \in [Tasks -> TaskStates] /\ \A t \in Tasks : WellFormed(task'[t])
    BY <1>4, <2>1 DEF Crash, WellFormed
  <2>3. model' \in Models /\ lost' \in BOOLEAN
    BY <1>4, <1>a DEF Crash
  <2> QED BY <1>4, <1>a, <1>b, <2>2, <2>3 DEF Crash, Shared, content, index
<1>5. ASSUME NEW t \in Tasks, DatabaseFails(t) PROVE TypeInv'
  <2>1. NoTask \in TaskStates /\ NoTask.pc \notin Versioned
    BY ConstantTypes, PointNames DEF NoTask
  <2>2. task'[t] = NoTask /\ \A s \in Tasks : s # t => task'[s] = task[s]
    BY <1>5, <1>a, DatabaseMoves
  <2>3. \E u : task' = [task EXCEPT ![t] = u]
    BY <1>5 DEF DatabaseFails, End, Step
  <2>4. task' \in [Tasks -> TaskStates] /\ \A s \in Tasks : WellFormed(task'[s])
    BY <1>a, <2>1, <2>2, <2>3 DEF WellFormed
  <2>5. Booleans' /\ model' \in Models
    BY <1>5, <1>a DEF DatabaseFails
  <2> QED BY <1>5, <1>a, <1>b, <2>4, <2>5, DatabaseMoves DEF Shared
<1>6. CASE UNCHANGED vars
  BY <1>6, <1>a, <1>b DEF vars, Shared
<1> QED BY <1>1, <1>2, <1>3, <1>4, <1>5, <1>6 DEF Next

LEMMA TypeStart == Init => TypeInv
<1> SUFFICES ASSUME Init PROVE TypeInv
  OBVIOUS
<1>1. /\ page \in [exists: BOOLEAN, version: 0..MaxRevision] /\ page.version >= 1
      /\ blocks \in [Blocks -> Revisions \union {New, Deleted}]
      /\ record \in Records /\ chunks \in Partial(Chunks) /\ vectors \in Partial(Vectors)
      /\ config \in Models \union {NoModel}
  BY ConstantTypes, NothingFacts DEF Init
<1>2. /\ model \in Models /\ lost \in BOOLEAN /\ forgotten \in BOOLEAN
      /\ overtaken \in BOOLEAN /\ stripped \in BOOLEAN
  BY ModelAssumption DEF Init
<1>3. \A t \in Tasks : WellFormed(task[t])
  <2>1. PICK s \in Tasks :
           task = [[r \in Tasks |-> NoTask] EXCEPT ![s].pc = "start", ![s].version = 1]
    BY DEF Init
  <2> DEFINE first == [NoTask EXCEPT !.pc = "start", !.version = 1]
  <2>2. \A t \in Tasks : task[t] = IF t = s THEN first ELSE NoTask
    BY <2>1
  <2>3. NoTask \in TaskStates /\ 1 \in 0..MaxRevision /\ "start" \in Points
    BY ConstantTypes, PointNames
  <2>5. first \in TaskStates
    BY <2>3, TaskUpdates
  <2>6. first.version = 1
    BY <2>3 DEF TaskStates
  <2>4. NoTask \in TaskStates /\ NoTask.pc \notin Versioned
    BY ConstantTypes, PointNames DEF NoTask
  <2>7. WellFormed(first) /\ WellFormed(NoTask)
    BY <2>4, <2>5, <2>6 DEF WellFormed
  <2> HIDE DEF first
  <2> QED BY <2>2, <2>7
<1>4. \E f : task = [t \in Tasks |-> f[t]]
  BY DEF Init
<1>5. task \in [Tasks -> TaskStates]
  BY <1>3, <1>4 DEF WellFormed
<1> QED BY <1>1, <1>2, <1>3, <1>5 DEF TypeInv, TypeOK, Versions, WellFormed

(* The page, its index and its tasks stay well-formed, whatever tasks,     *)
(* edits, searches and restarts do.                                        *)
THEOREM TypesHold == Spec => []TypeOK
<1>1. TypeInv => TypeOK
  BY DEF TypeInv
<1> QED BY <1>1, TypeStart, TypeStep, PTL DEF Spec

-----------------------------------------------------------------------------
(* What the actions do to the task that takes them, field by field         *)

Same(u, v) == /\ v.version = u.version /\ v.specs = u.specs /\ v.found = u.found
              /\ v.failed = u.failed /\ v.changed = u.changed

Still(u, v) == Same(u, v) /\ v.generation = u.generation /\ v.cached = u.cached

Anew(v) == v.generation = NoGeneration /\ v.found = Nothing

LEMMA NoTaskFields == NoTask.pc = "idle" /\ Anew(NoTask)
  BY DEF NoTask, Anew

LEMMA Moved ==
    ASSUME TypeInv, NEW t \in Tasks
    PROVE  /\ \A new : Step(t, new) => task'[t] = new
           /\ End(t) => task'[t] = NoTask
           /\ \A p : Goto(t, p) => task'[t].pc = p /\ Still(task[t], task'[t])
<1>1. task \in [Tasks -> TaskStates] /\ task[t] \in TaskStates
  BY PageFacts
<1>2. \A new : Step(t, new) => task'[t] = new
  BY <1>1, StepFacts
<1>3. ASSUME NEW p, Goto(t, p) PROVE task'[t].pc = p /\ Still(task[t], task'[t])
  <2> DEFINE new == [task[t] EXCEPT !.pc = p]
  <2>1. new.pc = p /\ Still(task[t], new)
    BY <1>1 DEF TaskStates, Same, Still
  <2>2. Step(t, new)
    BY <1>3 DEF Goto
  <2> HIDE DEF new
  <2> QED BY <1>2, <2>1, <2>2
<1> QED BY <1>2, <1>3 DEF End

LEMMA QueueMoves ==
    ASSUME TypeInv, NEW t \in Tasks, Queue(t)
    PROVE  \/ task'[t] = NoTask
           \/ /\ page.exists
              /\ task'[t].pc = "start" /\ task'[t].version = page.version
              /\ Anew(task'[t])
<1> DEFINE new == [NoTask EXCEPT !.pc = "start", !.version = page.version]
<1>1. task[t] \in TaskStates /\ NoTask \in TaskStates
  BY PageFacts, ConstantTypes
<1>2. /\ new.pc = "start" /\ new.version = page.version
      /\ Anew(new)
  BY <1>1, NoTaskFields DEF TaskStates, Same, Still, Anew
<1>3. (Step(t, new) /\ page.exists) \/ End(t)
  BY DEF Queue
<1> HIDE DEF new
<1> QED BY <1>2, <1>3, Moved

LEMMA UpdateMoves ==
    ASSUME TypeInv, NEW t \in Tasks, UpdatePage(t)
    PROVE  /\ task'[t].pc = "start" /\ task'[t].version = page.version + 1
           /\ Anew(task'[t])
<1> DEFINE new == [NoTask EXCEPT !.pc = "start", !.version = page.version + 1]
<1>1. task[t] \in TaskStates /\ NoTask \in TaskStates
  BY PageFacts, ConstantTypes
<1>2. /\ new.pc = "start" /\ new.version = page.version + 1
      /\ Anew(new)
  BY <1>1, NoTaskFields DEF TaskStates, Same, Still, Anew
<1>3. Step(t, new)
  BY DEF UpdatePage
<1> HIDE DEF new
<1> QED BY <1>2, <1>3, Moved

LEMMA ChangeMoves ==
    ASSUME TypeInv, NEW t \in Tasks, ChangeBlocks(t)
    PROVE  /\ task'[t].pc = "queue"
           /\ Anew(task'[t])
<1> DEFINE new == [NoTask EXCEPT !.pc = "queue"]
<1>1. task[t] \in TaskStates /\ NoTask \in TaskStates
  BY PageFacts, ConstantTypes
<1>2. /\ new.pc = "queue"
      /\ Anew(new)
  BY <1>1, NoTaskFields DEF TaskStates, Same, Still, Anew
<1>3. Step(t, new)
  BY DEF ChangeBlocks
<1> HIDE DEF new
<1> QED BY <1>2, <1>3, Moved

LEMMA DeleteMoves ==
    ASSUME TypeInv, NEW t \in Tasks, DeletePage(t)
    PROVE  /\ task'[t].pc = "delete"
           /\ Anew(task'[t])
<1> DEFINE new == [NoTask EXCEPT !.pc = "delete"]
<1>1. task[t] \in TaskStates /\ NoTask \in TaskStates
  BY PageFacts, ConstantTypes
<1>2. /\ new.pc = "delete"
      /\ Anew(new)
  BY <1>1, NoTaskFields DEF TaskStates, Same, Still, Anew
<1>3. Step(t, new)
  BY DEF DeletePage
<1> HIDE DEF new
<1> QED BY <1>2, <1>3, Moved

LEMMA SearchMoves ==
    ASSUME TypeInv, NEW t \in Tasks, StartSearch(t)
    PROVE  /\ task'[t].pc = "search" /\ task'[t].seen = config
           /\ Anew(task'[t])
<1> DEFINE new == [NoTask EXCEPT !.pc = "search", !.seen = config]
<1>1. task[t] \in TaskStates /\ NoTask \in TaskStates
  BY PageFacts, ConstantTypes
<1>2. /\ new.pc = "search" /\ new.seen = config
      /\ Anew(new)
  BY <1>1, NoTaskFields DEF TaskStates, Same, Still, Anew
<1>3. Step(t, new)
  BY DEF StartSearch
<1> HIDE DEF new
<1> QED BY <1>2, <1>3, Moved

LEMMA ReindexMoves ==
    ASSUME TypeInv, NEW t \in Tasks, Reindex(t)
    PROVE  /\ task'[t].pc = "retry" /\ task'[t].version = page.version
           /\ Anew(task'[t])
<1> DEFINE new == [NoTask EXCEPT !.pc = "retry", !.version = page.version]
<1>1. task[t] \in TaskStates /\ NoTask \in TaskStates
  BY PageFacts, ConstantTypes
<1>2. /\ new.pc = "retry" /\ new.version = page.version
      /\ Anew(new)
  BY <1>1, NoTaskFields DEF TaskStates, Same, Still, Anew
<1>3. Step(t, new)
  BY DEF Reindex
<1> HIDE DEF new
<1> QED BY <1>2, <1>3, Moved

LEMMA PendingMoves ==
    ASSUME TypeInv, NEW t \in Tasks, MarkPending(t)
    PROVE  \/ task'[t] = NoTask /\ record' = record
           \/ /\ Writable(task[t].cached)
              /\ record' = Flushed(task[t].cached, Pending(task[t].cached))
              /\ task'[t].pc = "start"
              /\ task'[t].generation = Pending(task[t].cached).generation
              /\ Same(task[t], task'[t])
<1> DEFINE new == [task[t] EXCEPT !.pc = "start", !.cached = NoRecord,
                              !.generation = Pending(task[t].cached).generation]
<1>1. task[t] \in TaskStates /\ NoTask \in TaskStates
  BY PageFacts, ConstantTypes
<1>2. /\ new.pc = "start" /\ new.generation = Pending(task[t].cached).generation
      /\ Same(task[t], new)
  BY <1>1, NoTaskFields DEF TaskStates, Same, Still, Anew
<1>3. \/ End(t) /\ record' = record
      \/ /\ Step(t, new) /\ Writable(task[t].cached)
         /\ record' = Flushed(task[t].cached, Pending(task[t].cached))
  BY DEF MarkPending
<1> HIDE DEF new
<1> QED BY <1>2, <1>3, Moved

LEMMA StartMoves ==
    ASSUME TypeInv, NEW t \in Tasks, Start(t)
    PROVE  \/ task'[t] = NoTask
           \/ /\ page.exists /\ page.version = task[t].version
              /\ task'[t].pc = "lookup" /\ Still(task[t], task'[t])
  BY Moved DEF Start

LEMMA RecordReadMoves ==
    ASSUME TypeInv, NEW t \in Tasks, ReadRecord(t)
    PROVE  \/ task'[t] = NoTask /\ task[t].generation \notin {NoGeneration, record.generation}
           \/ /\ task[t].generation \in {NoGeneration, record.generation}
              /\ \/ task[t].pc = "retry" /\ task'[t].pc = "pending"
                 \/ task[t].pc = "lookup" /\ task'[t].pc = "mark"
              /\ task'[t].cached = record /\ task'[t].generation = task[t].generation
              /\ Same(task[t], task'[t])
<1> DEFINE p == IF task[t].pc = "retry" THEN "pending" ELSE "mark"
           new == [task[t] EXCEPT !.pc = p, !.cached = record]
<1>1. task[t] \in TaskStates
  BY PageFacts
<1>2. /\ new.pc = p /\ new.cached = record /\ new.generation = task[t].generation
      /\ Same(task[t], new)
  BY <1>1 DEF TaskStates, Same
<1>3. IF task[t].generation \in {NoGeneration, record.generation} THEN Step(t, new) ELSE End(t)
  BY <1>1 DEF ReadRecord, TaskStates
<1>4. \/ task[t].pc = "retry" /\ p = "pending"
      \/ task[t].pc = "lookup" /\ p = "mark"
  BY DEF ReadRecord
<1> HIDE DEF p, new
<1> QED BY <1>2, <1>3, <1>4, Moved

LEMMA ContentMoves ==
    ASSUME TypeInv, NEW t \in Tasks, ReadContent(t)
    PROVE  /\ task'[t].pc = "index" /\ task'[t].specs = Specs(task[t].version)
           /\ task'[t].found = task[t].found
           /\ task'[t].version = task[t].version /\ task'[t].generation = task[t].generation
<1> DEFINE new == [task[t] EXCEPT !.pc = "index", !.specs = Specs(task[t].version)]
<1>1. task[t] \in TaskStates /\ NoTask \in TaskStates
  BY PageFacts, ConstantTypes
<1>2. /\ new.pc = "index" /\ new.specs = Specs(task[t].version) /\ new.found = task[t].found
      /\ new.version = task[t].version /\ new.generation = task[t].generation
  BY <1>1, NoTaskFields DEF TaskStates, Same, Still, Anew
<1>3. Step(t, new)
  BY DEF ReadContent
<1> HIDE DEF new
<1> QED BY <1>2, <1>3, Moved

LEMMA ChunksMoves ==
    ASSUME TypeInv, NEW t \in Tasks, ReadChunks(t)
    PROVE  /\ task'[t].pc = "embed" /\ task'[t].specs = task[t].specs
           /\ task'[t].found = chunks
           /\ task'[t].version = task[t].version /\ task'[t].generation = task[t].generation
<1> DEFINE new == [task[t] EXCEPT !.pc = "embed", !.found = chunks]
<1>1. task[t] \in TaskStates /\ NoTask \in TaskStates
  BY PageFacts, ConstantTypes
<1>2. /\ new.pc = "embed" /\ new.specs = task[t].specs /\ new.found = chunks
      /\ new.version = task[t].version /\ new.generation = task[t].generation
  BY <1>1, NoTaskFields DEF TaskStates, Same, Still, Anew
<1>3. Step(t, new)
  BY DEF ReadChunks
<1> HIDE DEF new
<1> QED BY <1>2, <1>3, Moved

LEMMA RecheckMoves ==
    ASSUME TypeInv, NEW t \in Tasks, Recheck(t)
    PROVE  /\ task'[t].pc = "refresh" /\ task'[t].specs = task[t].specs
           /\ task'[t].found = task[t].found /\ task'[t].failed = task[t].failed
           /\ task'[t].changed = (Specs(task[t].version) # task[t].specs)
           /\ task'[t].version = task[t].version /\ task'[t].generation = task[t].generation
<1> DEFINE new == [task[t] EXCEPT !.pc = "refresh",
                             !.changed = Specs(task[t].version) # task[t].specs]
<1>1. task[t] \in TaskStates /\ NoTask \in TaskStates
  BY PageFacts, ConstantTypes
<1>2. /\ new.pc = "refresh" /\ new.specs = task[t].specs /\ new.found = task[t].found
      /\ new.failed = task[t].failed
      /\ new.changed = (Specs(task[t].version) # task[t].specs)
      /\ new.version = task[t].version /\ new.generation = task[t].generation
  BY <1>1, NoTaskFields DEF TaskStates, Same, Still, Anew
<1>3. Step(t, new)
  BY DEF Recheck
<1> HIDE DEF new
<1> QED BY <1>2, <1>3, Moved

LEMMA FailMoves ==
    ASSUME TypeInv, NEW t \in Tasks, Fail(t)
    PROVE  \/ task'[t] = NoTask
           \/ /\ record.exists /\ record.generation = task[t].generation
              /\ task'[t].pc = "mark_failed" /\ task'[t].cached = record
              /\ Anew(task'[t])
<1> DEFINE new == [NoTask EXCEPT !.pc = "mark_failed", !.cached = record]
<1>1. task[t] \in TaskStates /\ NoTask \in TaskStates
  BY PageFacts, ConstantTypes
<1>2. /\ new.pc = "mark_failed" /\ new.cached = record
      /\ Anew(new)
  BY <1>1, NoTaskFields DEF TaskStates, Same, Still, Anew
<1>3. (Step(t, new) /\ record.exists /\ record.generation = task[t].generation) \/ End(t)
  BY DEF Fail
<1> HIDE DEF new
<1> QED BY <1>2, <1>3, Moved

LEMMA EmbedMoves ==
    ASSUME TypeInv, NEW t \in Tasks, Embed(t)
    PROVE  /\ task'[t].pc = "recheck" /\ task'[t].specs = task[t].specs
           /\ task'[t].found = task[t].found
           /\ task'[t].version = task[t].version /\ task'[t].generation = task[t].generation
<1>0. PICK b \in BOOLEAN : Step(t, [task[t] EXCEPT !.pc = "recheck", !.failed = b])
  BY DEF Embed
<1> DEFINE new == [task[t] EXCEPT !.pc = "recheck", !.failed = b]
<1>1. task[t] \in TaskStates
  BY PageFacts
<1>2. /\ new.pc = "recheck" /\ new.specs = task[t].specs /\ new.found = task[t].found
      /\ new.version = task[t].version /\ new.generation = task[t].generation
  BY <1>1 DEF TaskStates
<1>3. Step(t, new)
  BY <1>0
<1> HIDE DEF new
<1> QED BY <1>2, <1>3, Moved

LEMMA IndexingMoves ==
    ASSUME TypeInv, NEW t \in Tasks, MarkIndexing(t)
    PROVE  \/ task'[t] = NoTask /\ record' = record /\ ~Writable(task[t].cached)
           \/ /\ Writable(task[t].cached)
              /\ record' = Indexing(t, task[t].cached)
              /\ task'[t].pc = "page" /\ task'[t].generation = record'.generation
              /\ Same(task[t], task'[t])
<1>1. task[t] \in TaskStates
  BY PageFacts
<1>2. CASE ~Writable(task[t].cached)
  BY <1>2, Moved DEF MarkIndexing
<1>3. CASE Writable(task[t].cached)
  <2>1. PICK n : n = record'.generation
    OBVIOUS
  <2> DEFINE new == [task[t] EXCEPT !.pc = "page", !.cached = NoRecord, !.generation = n]
  <2>2. new.pc = "page" /\ new.generation = n /\ Same(task[t], new)
    BY <1>1 DEF TaskStates, Same
  <2>3. Step(t, new) /\ record' = Indexing(t, task[t].cached)
    BY <1>3, <2>1 DEF MarkIndexing
  <2> HIDE DEF new
  <2> QED BY <1>3, <2>1, <2>2, <2>3, Moved
<1> QED BY <1>2, <1>3

LEMMA RefreshMoves ==
    ASSUME TypeInv, NEW t \in Tasks, Refresh(t)
    PROVE  \/ task'[t] = NoTask
           \/ task'[t].pc = "fail" /\ Still(task[t], task'[t])
           \/ /\ record.exists /\ record.generation = task[t].generation
              /\ task'[t].pc = AfterRefresh(t) /\ task'[t].cached = record
              /\ task'[t].generation = task[t].generation /\ Same(task[t], task'[t])
<1> DEFINE new == [task[t] EXCEPT !.pc = AfterRefresh(t), !.cached = record]
<1>1. task[t] \in TaskStates
  BY PageFacts
<1>2. /\ new.pc = AfterRefresh(t) /\ new.cached = record
      /\ new.generation = task[t].generation /\ Same(task[t], new)
  BY <1>1 DEF TaskStates, Same
<1>3. \/ End(t)
      \/ Goto(t, "fail")
      \/ record.exists /\ record.generation = task[t].generation /\ Step(t, new)
  BY DEF Refresh
<1> HIDE DEF new
<1> QED BY <1>2, <1>3, Moved

LEMMA OtherMoves ==
    ASSUME TypeInv, NEW t \in Tasks
    PROVE  /\ DeletePageIndex(t) \/ Write(t) \/ MarkFailed(t) \/ SearchTable(t)
              => task'[t] = NoTask
           /\ WriteFails(t) \/ TimeOut(t)
              => task'[t].pc = "fail" /\ Still(task[t], task'[t])
           /\ EnsureTable(t) => task'[t].pc = "write" /\ Still(task[t], task'[t])
           /\ ReadPage(t) => /\ Still(task[t], task'[t])
                             /\ \/ task'[t].pc = "fail"
                                \/ task'[t].pc = "content" /\ page.version = task[t].version
           /\ ReadIndex(t) => \/ task'[t] = NoTask
                              \/ Still(task[t], task'[t]) /\ task'[t].pc \in {"fail", "chunks"}
  BY Moved DEF DeletePageIndex, Write, MarkFailed, SearchTable, WriteFails, TimeOut,
               EnsureTable, ReadPage, ReadIndex

-----------------------------------------------------------------------------
(* The vector table belongs to one model                                   *)

(* What the tasks that have looked at the table rely on: one that will     *)
(* drop nothing when it writes finds the table empty, or its own.          *)
VectorInv ==
    /\ VectorsOfOneModel
    /\ \A t \in Tasks :
          task[t].pc = "write" /\ ~task[t].changed /\ ~task[t].failed /\ TableOfOthers
              => Obsolete(t) # {} \/ vectors = Nothing

(* Nothing but the write keeps vectors of another model out of the table.  *)
LEMMA VectorsReplaced ==
    ASSUME TypeInv, VectorInv, NEW t \in Tasks, Write(t)
    PROVE  /\ \A k \in DOMAIN vectors' : vectors'[k].model = config'
           /\ config' = model \/ (config' = config /\ vectors' \in {vectors, Nothing})
<1>a. /\ \A k \in DOMAIN vectors : vectors[k].model = config
      /\ vectors \in Partial(Vectors) /\ DOMAIN Nothing = {}
      /\ \A k \in DOMAIN vectors : vectors[k].model # NoModel
  <2>1. \A k \in DOMAIN vectors : vectors[k] \in Vectors
    BY PartialFacts, PageFacts
  <2> QED BY <2>1, PageFacts, NothingFacts, ConstantTypes DEF VectorInv, VectorsOfOneModel, Vectors
<1>1. CASE WriteStale(t)
  BY <1>1, <1>a DEF WriteStale
<1>2. CASE WriteFailed(t)
  BY <1>2, <1>a DEF WriteFailed
<1>3. CASE WriteReady(t) /\ ~task[t].changed /\ ~task[t].failed
  <2>1. /\ DOMAIN vectors' = (DOMAIN Table(t) \ Obsolete(t)) \union Staged(t)
        /\ \A k \in Staged(t) : vectors'[k].model = model
        /\ \A k \in DOMAIN vectors' \ Staged(t) :
              k \in DOMAIN vectors /\ vectors'[k] = vectors[k]
        /\ config' = model
    BY <1>3, WriteReadyFacts DEF Write
  <2>2. TableOfOthers => DOMAIN Table(t) = {}
    <3>1. CASE Obsolete(t) = {}
      BY <1>3, <1>a, <3>1 DEF VectorInv, Table, Write
    <3>2. CASE Obsolete(t) # {}
      BY <3>2, KeptFacts DEF Table
    <3> QED BY <3>1, <3>2
  <2>3. ASSUME NEW k \in DOMAIN vectors' \ Staged(t) PROVE vectors'[k].model = model
    <3>1. ~TableOfOthers
      BY <2>1, <2>2, <2>3
    <3>2. config \in {NoModel, model} /\ vectors[k].model = config /\ vectors[k].model # NoModel
      BY <1>a, <2>1, <2>3, <3>1 DEF TableOfOthers
    <3> QED BY <2>1, <3>2
  <2> QED BY <2>1, <2>3
<1> QED BY <1>1, <1>2, <1>3 DEF Write

LEMMA VectorStep == TypeInv /\ VectorInv /\ [Next]_vars => VectorInv'
<1> SUFFICES ASSUME TypeInv, VectorInv, [Next]_vars PROVE VectorInv'
  OBVIOUS
<1>a. /\ \A k \in DOMAIN vectors : vectors[k].model = config
      /\ DOMAIN Nothing = {}
      /\ \A k \in DOMAIN vectors : vectors[k].model # NoModel
  <2>1. \A k \in DOMAIN vectors : vectors[k] \in Vectors
    BY PartialFacts, PageFacts
  <2> QED BY <2>1, PageFacts, NothingFacts, ConstantTypes DEF VectorInv, VectorsOfOneModel, Vectors
<1>b. ASSUME \A k \in DOMAIN vectors' : vectors'[k].model = config',
             config' = model' \/ \A t \in Tasks : task'[t].pc # "write"
      PROVE  VectorInv'
  BY <1>b DEF VectorInv, VectorsOfOneModel, TableOfOthers
<1>c. ASSUME NEW t \in Tasks, \A s \in Tasks : s # t => task'[s] = task[s],
             config' = config, model' = model, vectors' = vectors \/ vectors' = Nothing,
             \/ task'[t].pc # "write"
             \/ task'[t].changed \/ task'[t].failed \/ ~TableOfOthers
             \/ task'[t].found = task[t].found /\ task'[t].specs = task[t].specs
                   /\ (Obsolete(t) = {} => vectors' = Nothing)
      PROVE  VectorInv'
  <2>1. VectorsOfOneModel'
    BY <1>a, <1>c DEF VectorsOfOneModel
  <2>2. TableOfOthers' = TableOfOthers
    BY <1>c DEF TableOfOthers
  <2>3. ASSUME NEW s \in Tasks, task'[s].pc = "write", ~task'[s].changed, ~task'[s].failed,
               TableOfOthers
        PROVE  (Obsolete(s) # {})' \/ vectors' = Nothing
    <3>1. CASE s # t
      <4>1. Obsolete(s)' = Obsolete(s)
        BY <1>c, <3>1 DEF Obsolete
      <4> QED BY <1>c, <2>3, <3>1, <4>1 DEF VectorInv
    <3>2. CASE s = t
      <4>1. task'[t].found = task[t].found /\ task'[t].specs = task[t].specs
              /\ (Obsolete(t) = {} => vectors' = Nothing)
        BY <1>c, <2>3, <3>2
      <4>2. Obsolete(t)' = Obsolete(t)
        BY <4>1 DEF Obsolete
      <4> QED BY <3>2, <4>1, <4>2
    <3> QED BY <3>1, <3>2
  <2> QED BY <2>1, <2>2, <2>3 DEF VectorInv
<1>1. ASSUME NEW t \in Tasks, TaskStep(t) \/ TimeOut(t) \/ Request(t), Histories(t)
      PROVE  VectorInv'
  <2>a. /\ \A s \in Tasks : s # t => task'[s] = task[s]
        /\ model' = model
    BY <1>1, TaskStepTypes, RequestTypes DEF Histories
  <2>b. NoTask.pc # "write"
    BY NoTaskFields
  <2>1. CASE Write(t)
    <3>1. task'[t].pc # "write"
      BY <2>1, <2>b, OtherMoves
    <3> QED BY <1>a, <1>b, <1>c, <2>1, <2>a, <3>1, VectorsReplaced
  <2>2. CASE SearchTable(t)
    <3>1. vectors' = Kept /\ config' = model
      BY <2>2 DEF SearchTable
    <3>2. \A k \in DOMAIN vectors' : vectors'[k].model = config'
      BY <1>a, <3>1 DEF Kept, TableOfOthers
    <3> QED BY <1>b, <2>a, <3>1, <3>2
  <2>3. CASE EnsureTable(t)
    <3>1. /\ config' = config /\ vectors' \in {vectors, Nothing}
          /\ TableOfOthers /\ Obsolete(t) = {} => vectors' = Nothing
      BY <2>3 DEF EnsureTable, Kept
    <3>2. task'[t].found = task[t].found /\ task'[t].specs = task[t].specs
      BY <2>3, OtherMoves DEF Still, Same
    <3> QED BY <1>c, <2>a, <3>1, <3>2
  <2>4. CASE Refresh(t)
    <3>1. config' = config /\ vectors' = vectors
      BY <2>4 DEF Refresh, index
    <3>2. task'[t].pc # "write" \/ task'[t].changed \/ task'[t].failed \/ ~TableOfOthers
      BY <2>4, <2>b, RefreshMoves DEF AfterRefresh, Same
    <3> QED BY <1>c, <2>a, <3>1, <3>2
  <2>5. CASE DeletePageIndex(t)
    BY <1>c, <2>5, <2>a, <2>b, OtherMoves DEF DeletePageIndex
  <2>6. ASSUME task'[t].pc # "write", vectors' = vectors, config' = config PROVE VectorInv'
    BY <1>c, <2>6, <2>a
  <2>7. CASE MarkPending(t) \/ MarkIndexing(t) \/ MarkFailed(t)
    <3>1. task'[t].pc # "write"
      BY <2>7, <2>b, PendingMoves, IndexingMoves, OtherMoves
    <3> QED BY <2>6, <2>7, <3>1 DEF MarkPending, MarkIndexing, MarkFailed
  <2>8. CASE TimeOut(t) \/ WriteFails(t) \/ ReadPage(t) \/ ReadIndex(t)
    <3>1. task'[t].pc # "write"
      BY <2>8, <2>b, OtherMoves
    <3> QED BY <2>6, <2>8, <3>1 DEF TimeOut, WriteFails, ReadPage, ReadIndex, index
  <2>9. CASE Queue(t) \/ Start(t) \/ ReadRecord(t) \/ ReadContent(t) \/ ReadChunks(t)
    <3>1. task'[t].pc # "write"
      BY <2>9, <2>b, QueueMoves, StartMoves, RecordReadMoves, ContentMoves, ChunksMoves
    <3> QED BY <2>6, <2>9, <3>1 DEF Queue, Start, ReadRecord, ReadContent, ReadChunks, index
  <2>10. CASE Embed(t) \/ Recheck(t) \/ Fail(t)
    <3>1. task'[t].pc # "write"
      BY <2>10, <2>b, EmbedMoves, RecheckMoves, FailMoves
    <3> QED BY <2>6, <2>10, <3>1 DEF Embed, Recheck, Fail, index
  <2>11. CASE Request(t)
    <3>1. task'[t].pc # "write"
      BY <2>11, UpdateMoves, ChangeMoves, DeleteMoves, SearchMoves, ReindexMoves DEF Request
    <3>2. vectors' = vectors /\ config' = config
      BY <2>11 DEF Request, UpdatePage, SetTitle, ChangeBlocks, EditBlocks, CreateBlock,
         UpdateBlock, DeleteBlock, DeletePage, StartSearch, Reindex, index
    <3> QED BY <2>6, <3>1, <3>2
  <2> QED BY <1>1, <2>1, <2>2, <2>3, <2>4, <2>5, <2>7, <2>8, <2>9, <2>10, <2>11 DEF TaskStep
<1>2. CASE AgentEdit
  <2>1. vectors' = vectors /\ config' = config /\ task' = task /\ model' = model
    BY <1>2 DEF AgentEdit, SetTitle, EditBlocks, CreateBlock, UpdateBlock, DeleteBlock, index
  <2> QED BY <2>1 DEF VectorInv, VectorsOfOneModel, TableOfOthers, Obsolete
<1>3. CASE OthersIndex
  BY <1>3, <1>a, <1>b DEF OthersIndex
<1>4. CASE Crash
  <2>1. vectors' = vectors /\ config' = config /\ \A t \in Tasks : task'[t].pc # "write"
    BY <1>4, NoTaskFields DEF Crash, index
  <2> QED BY <1>a, <1>b, <2>1
<1>5. ASSUME NEW t \in Tasks, DatabaseFails(t) PROVE VectorInv'
  <2>1. /\ task'[t].pc # "write" /\ \A s \in Tasks : s # t => task'[s] = task[s]
        /\ vectors' = vectors /\ config' = config /\ model' = model
    BY <1>5, PageFacts, NoTaskFields, DatabaseMoves
  <2> QED BY <1>c, <2>1
<1>6. CASE UNCHANGED vars
  BY <1>6 DEF vars, VectorInv, VectorsOfOneModel, TableOfOthers, Obsolete
<1> QED BY <1>1, <1>2, <1>3, <1>4, <1>5, <1>6 DEF Next

LEMMA VectorStart == Init => VectorInv
<1> SUFFICES ASSUME Init PROVE VectorInv
  OBVIOUS
<1>1. vectors = Nothing /\ DOMAIN vectors = {}
  BY NothingFacts DEF Init
<1> QED BY <1>1 DEF VectorInv, VectorsOfOneModel

(* Vectors of two models never meet in the table, and the configuration    *)
(* names the model whose vectors they are, in every environment: whatever  *)
(* restarts with another configuration, and whoever else replaces the      *)
(* table, between any two steps of a task.                                 *)
THEOREM OneModel == Spec => []VectorsOfOneModel
<1>1. VectorInv => VectorsOfOneModel
  BY DEF VectorInv
<1> QED BY <1>1, TypeStart, TypeStep, VectorStart, VectorStep, PTL DEF Spec

-----------------------------------------------------------------------------
(* A session's copy of the record                                          *)

(* A session that is about to write an index or a failure has found a      *)
(* record, and one that works under a generation has found that generation.*)
CopyOf(u) ==
    /\ u.pc \in {"table", "write", "mark_failed"} => u.cached.exists
    /\ u.pc \in {"table", "write"} => u.cached.generation = u.generation
    /\ u.pc = "mark" /\ u.generation # NoGeneration =>
          u.cached.exists /\ u.cached.generation = u.generation
    /\ u.pc \in {"retry", "pending"} => u.generation = NoGeneration

CopyInv == \A t \in Tasks : CopyOf(task[t])

ExistInv ==
    /\ ~record.exists => record = NoRecord
    /\ ~page.exists => /\ record = NoRecord /\ chunks = Nothing
                       /\ \A b \in Blocks : blocks[b] = Deleted

LEMMA CopyStep ==
    ASSUME TypeInv, CopyInv, ExistInv, [Next]_vars
    PROVE  CopyInv'
<1>a. CopyOf(NoTask) /\ NoTask.pc = "idle"
  BY NoTaskFields DEF CopyOf
<1>c. ASSUME NEW t \in Tasks, \A s \in Tasks : s # t => task'[s] = task[s], CopyOf(task'[t])
      PROVE  CopyInv'
  BY <1>c DEF CopyInv
<1>1. ASSUME NEW t \in Tasks, TaskStep(t) \/ TimeOut(t) \/ Request(t) PROVE CopyInv'
  <2>a. \A s \in Tasks : s # t => task'[s] = task[s]
    BY <1>1, TaskStepTypes, RequestTypes
  <2>b. CopyOf(task[t])
    BY DEF CopyInv
  <2>1. ASSUME task'[t].pc \notin {"table", "write", "mark_failed", "mark", "retry", "pending"}
        PROVE  CopyInv'
    BY <1>c, <2>1, <2>a DEF CopyOf
  <2>2. CASE ReadRecord(t)
    <3>1. CASE task'[t] = NoTask
      BY <1>a, <1>c, <2>a, <3>1
    <3>2. CASE task[t].pc = "retry" /\ task'[t].pc = "pending"
                  /\ task'[t].generation = task[t].generation
      BY <1>c, <2>a, <2>b, <3>2 DEF CopyOf
    <3>3. CASE /\ task[t].generation \in {NoGeneration, record.generation}
               /\ task'[t].pc = "mark" /\ task'[t].generation = task[t].generation
               /\ task'[t].cached = record
      <4>1. record.generation # NoGeneration => record.exists
        BY DEF ExistInv, NoRecord, NoGeneration
      <4> QED BY <1>c, <2>a, <3>3, <4>1 DEF CopyOf
    <3> QED BY <2>2, <3>1, <3>2, <3>3, RecordReadMoves
  <2>3. CASE Reindex(t)
    BY <1>c, <2>3, <2>a, ReindexMoves DEF Anew, CopyOf
  <2>4. CASE Fail(t)
    BY <1>a, <1>c, <2>4, <2>a, FailMoves DEF Anew, CopyOf
  <2>5. CASE Refresh(t)
    BY <1>a, <1>c, <2>1, <2>5, <2>a, RefreshMoves DEF AfterRefresh, CopyOf
  <2>6. CASE EnsureTable(t)
    BY <1>c, <2>6, <2>a, <2>b, OtherMoves DEF EnsureTable, Still, CopyOf
  <2>7. CASE \/ DeletePageIndex(t) \/ Write(t) \/ MarkFailed(t) \/ SearchTable(t)
             \/ WriteFails(t) \/ TimeOut(t) \/ ReadPage(t) \/ ReadIndex(t)
    BY <1>a, <2>1, <2>7, OtherMoves
  <2>8. CASE Queue(t) \/ MarkPending(t) \/ Start(t) \/ MarkIndexing(t)
    BY <1>a, <2>1, <2>8, QueueMoves, PendingMoves, StartMoves, IndexingMoves
  <2>9. CASE ReadContent(t) \/ ReadChunks(t) \/ Embed(t) \/ Recheck(t)
    BY <2>1, <2>9, ContentMoves, ChunksMoves, EmbedMoves, RecheckMoves
  <2>10. CASE UpdatePage(t) \/ ChangeBlocks(t) \/ DeletePage(t) \/ StartSearch(t)
    BY <2>1, <2>10, UpdateMoves, ChangeMoves, DeleteMoves, SearchMoves
  <2> QED BY <1>1, <2>2, <2>3, <2>4, <2>5, <2>6, <2>7, <2>8, <2>9, <2>10 DEF TaskStep, Request
<1>2. CASE AgentEdit \/ OthersIndex
  BY <1>2 DEF AgentEdit, OthersIndex, CopyInv
<1>3. CASE Crash
  BY <1>3, <1>a DEF Crash, CopyInv
<1>4. ASSUME NEW t \in Tasks, DatabaseFails(t) PROVE CopyInv'
  BY <1>4, <1>a, <1>c, PageFacts, DatabaseMoves
<1>5. CASE UNCHANGED vars
  BY <1>5 DEF vars, CopyInv
<1> QED BY <1>1, <1>2, <1>3, <1>4, <1>5 DEF Next

LEMMA FirstTask ==
    ASSUME Init
    PROVE  \E t \in Tasks :
              /\ task[t].pc = "start" /\ task[t].version = 1 /\ Anew(task[t])
              /\ task[t].specs = Nothing
              /\ \A s \in Tasks : s # t => task[s] = NoTask
<1>1. PICK t \in Tasks :
         task = [[r \in Tasks |-> NoTask] EXCEPT ![t].pc = "start", ![t].version = 1]
  BY DEF Init
<1> DEFINE first == [NoTask EXCEPT !.pc = "start", !.version = 1]
<1>2. \A s \in Tasks : task[s] = IF s = t THEN first ELSE NoTask
  BY <1>1
<1>3. first.pc = "start" /\ first.version = 1 /\ Anew(first) /\ first.specs = Nothing
  <2>1. NoTask \in TaskStates /\ Anew(NoTask) /\ NoTask.specs = Nothing
    BY ConstantTypes, NoTaskFields DEF NoTask
  <2> QED BY <2>1 DEF TaskStates, Anew
<1> HIDE DEF first
<1> QED BY <1>2, <1>3

LEMMA CopyStart == Init => CopyInv
<1> SUFFICES ASSUME Init PROVE CopyInv
  OBVIOUS
<1>1. \A t \in Tasks : task[t].pc \in {"idle", "start"}
  BY FirstTask, NoTaskFields
<1> QED BY <1>1 DEF CopyInv, CopyOf

-----------------------------------------------------------------------------
(* What the writes make of the record                                      *)

(* The column of a row whose session read it as `old' and sets it to `new'.*)
StatusLeft(new, old) == IF new = old THEN record.status ELSE new
HashLeft(new, old) == IF new = old THEN record.hash ELSE new

LEMMA FlushedColumns ==
    ASSUME record \in Records, NEW old \in Records, NEW new \in Records
    PROVE  /\ Flushed(old, new).exists = new.exists
           /\ Flushed(old, new).status = StatusLeft(new.status, old.status)
           /\ Flushed(old, new).hash = HashLeft(new.hash, old.hash)
           /\ Flushed(old, new).generation =
                 IF new.generation = old.generation THEN record.generation ELSE new.generation
  BY DEF Flushed, Records, StatusLeft, HashLeft

Rewritten(status, hash) ==
    /\ record'.exists = record.exists /\ record'.generation = record.generation
    /\ record'.status = status /\ record'.hash = hash

(* A session that found a record changes its status, and what it describes.*)
LEMMA Rewrites ==
    ASSUME record \in Records, record.exists, NEW old \in Records, old.exists, NEW s \in Statuses
    PROVE  /\ record' = Flushed(old, [old EXCEPT !.status = s])
              => Rewritten(StatusLeft(s, old.status), record.hash)
           /\ \A x \in Partial(Revisions) :
                 record' = Flushed(old, [old EXCEPT !.status = s, !.hash = x])
                     => Rewritten(StatusLeft(s, old.status), HashLeft(x, old.hash))
<1>1. ASSUME NEW x \in Partial(Revisions)
      PROVE  LET new == [old EXCEPT !.status = s, !.hash = x]
             IN  /\ new \in Records /\ new.exists = old.exists
                 /\ new.generation = old.generation /\ new.status = s /\ new.hash = x
  BY DEF Records
<1>2. LET new == [old EXCEPT !.status = s]
      IN  /\ new \in Records /\ new.exists = old.exists
          /\ new.generation = old.generation /\ new.status = s /\ new.hash = old.hash
  BY DEF Records
<1>3. ASSUME NEW new \in Records, new.exists, new.generation = old.generation,
             record' = Flushed(old, new)
      PROVE  Rewritten(StatusLeft(new.status, old.status), HashLeft(new.hash, old.hash))
  BY <1>3, FlushedColumns DEF Rewritten
<1>4. ASSUME record' = Flushed(old, [old EXCEPT !.status = s])
      PROVE  Rewritten(StatusLeft(s, old.status), record.hash)
  <2> DEFINE new == [old EXCEPT !.status = s]
  <2>1. /\ new \in Records /\ new.exists /\ new.generation = old.generation
        /\ new.status = s /\ new.hash = old.hash /\ record' = Flushed(old, new)
    BY <1>2, <1>4
  <2> HIDE DEF new
  <2>2. Rewritten(StatusLeft(s, old.status), HashLeft(old.hash, old.hash))
    BY <1>3, <2>1
  <2> QED BY <2>2 DEF HashLeft
<1>5. ASSUME NEW x \in Partial(Revisions),
             record' = Flushed(old, [old EXCEPT !.status = s, !.hash = x])
      PROVE  Rewritten(StatusLeft(s, old.status), HashLeft(x, old.hash))
  <2> DEFINE new == [old EXCEPT !.status = s, !.hash = x]
  <2>1. /\ new \in Records /\ new.exists /\ new.generation = old.generation
        /\ new.status = s /\ new.hash = x /\ record' = Flushed(old, new)
    BY <1>1, <1>5
  <2> HIDE DEF new
  <2> QED BY <1>3, <2>1
<1> QED BY <1>4, <1>5

(* The record is new, or has the next generation.                          *)
Counted ==
    /\ page.exists /\ record'.exists /\ record'.generation = record.generation + 1
    /\ record'.hash = record.hash

LEMMA PendingFacts ==
    ASSUME NEW old \in Records
    PROVE  /\ Pending(old) \in Records /\ Pending(old).exists
           /\ Pending(old).status = "pending" /\ Pending(old).hash = old.hash
           /\ Pending(old).generation = old.generation + 1
<1>1. Nothing \in Partial(Revisions) /\ "pending" \in Statuses
  BY NothingFacts DEF Statuses
<1>2. Pending(old) \in Records /\ Pending(old).generation = old.generation + 1
  BY <1>1, RecordUpdates
<1>3. Pending(old).exists /\ Pending(old).status = "pending" /\ Pending(old).hash = old.hash
  BY DEF Records, Pending
<1> QED BY <1>2, <1>3

(* A session that overtakes no other has the record's generation in its    *)
(* copy when it writes.                                                    *)
LEMMA NotOvertaking ==
    ASSUME NEW t \in Tasks, ~Overtakes(t),
           \/ task[t].pc = "pending" /\ task'[t].pc = "start"
           \/ task[t].pc = "mark" /\ task'[t].pc = "page"
           \/ task[t].pc = "write" /\ task'[t].pc = "idle"
           \/ task[t].pc = "mark_failed" /\ task'[t].pc = "idle"
    PROVE  task[t].cached.generation = record.generation
  BY DEF Overtakes

LEMMA PendingEffect ==
    ASSUME TypeInv, NEW t \in Tasks, ~Overtakes(t), MarkPending(t)
    PROVE  \/ task'[t] = NoTask /\ record' = record
           \/ /\ Counted /\ record'.status = StatusLeft("pending", task[t].cached.status)
              /\ task'[t].pc = "start" /\ task'[t].generation = record'.generation
              /\ Same(task[t], task'[t])
<1> DEFINE old == task[t].cached
<1>1. record \in Records /\ old \in Records /\ task[t].pc = "pending"
  BY PageFacts DEF MarkPending, TaskStates
<1>2. CASE task'[t] = NoTask /\ record' = record
  BY <1>2
<1>3. CASE /\ Writable(old) /\ record' = Flushed(old, Pending(old)) /\ task'[t].pc = "start"
           /\ task'[t].generation = Pending(old).generation /\ Same(task[t], task'[t])
  <2>1. old.generation = record.generation
    BY <1>1, <1>3, NotOvertaking
  <2>2. record.generation \in Nat /\ old.generation \in Nat
    BY <1>1 DEF Records
  <2>3. /\ Pending(old) \in Records /\ Pending(old).exists
        /\ Pending(old).status = "pending" /\ Pending(old).hash = old.hash
        /\ Pending(old).generation = old.generation + 1
    BY <1>1, PendingFacts
  <2>4. /\ record'.exists = Pending(old).exists
        /\ record'.status = StatusLeft("pending", old.status)
        /\ record'.hash = HashLeft(old.hash, old.hash)
        /\ record'.generation = Pending(old).generation
    <3>1. PICK new \in Records : new = Pending(old)
      BY <2>3
    <3>2. /\ record' = Flushed(old, new) /\ new.status = "pending" /\ new.hash = old.hash
          /\ new.generation # old.generation
      BY <1>3, <2>2, <2>3, <3>1
    <3>3. /\ Flushed(old, new).exists = new.exists
          /\ Flushed(old, new).status = StatusLeft(new.status, old.status)
          /\ Flushed(old, new).hash = HashLeft(new.hash, old.hash)
          /\ Flushed(old, new).generation = new.generation
      BY <1>1, <3>2, FlushedColumns
    <3> QED BY <3>1, <3>2, <3>3
  <2> QED BY <1>3, <2>1, <2>3, <2>4 DEF Counted, HashLeft, Writable
<1> QED BY <1>2, <1>3, PendingMoves

LEMMA IndexingEffect ==
    ASSUME TypeInv, CopyInv, NEW t \in Tasks, ~Overtakes(t), MarkIndexing(t)
    PROVE  \/ task'[t] = NoTask /\ record' = record /\ ~Writable(task[t].cached)
           \/ /\ task[t].generation = NoGeneration /\ Counted /\ record'.status = "indexing"
              /\ task'[t].pc = "page" /\ task'[t].generation = record'.generation
              /\ Same(task[t], task'[t])
           \/ /\ task[t].generation # NoGeneration /\ task[t].generation = record.generation
              /\ page.exists /\ record.exists
              /\ Rewritten(StatusLeft("indexing", task[t].cached.status), record.hash)
              /\ task'[t].pc = "page" /\ task'[t].generation = record'.generation
              /\ Same(task[t], task'[t])
<1> DEFINE old == task[t].cached
<1>1. /\ record \in Records /\ old \in Records /\ task[t].pc = "mark"
      /\ record.generation \in Nat /\ old.generation \in Nat
  BY PageFacts DEF MarkIndexing, TaskStates, Records
<1>2. CASE task'[t] = NoTask /\ record' = record /\ ~Writable(old)
  BY <1>2
<1>3. CASE /\ Writable(old) /\ record' = Indexing(t, old) /\ task'[t].pc = "page"
           /\ task'[t].generation = record'.generation /\ Same(task[t], task'[t])
  <2>1. old.generation = record.generation /\ page.exists /\ old.exists = record.exists
    BY <1>1, <1>3, NotOvertaking DEF Writable
  <2>2. CASE task[t].generation = NoGeneration
    <3> DEFINE taken == Flushed(old, Pending(old))
    <3>1. /\ Pending(old) \in Records /\ Pending(old).exists
          /\ Pending(old).hash = old.hash /\ Pending(old).generation = old.generation + 1
      BY <1>1, PendingFacts
    <3>2. taken \in Records
      BY <1>1, <3>1, FlushedFacts
    <3>3. /\ taken.exists /\ taken.hash = record.hash
          /\ taken.generation = record.generation + 1
      BY <1>1, <2>1, <3>1, FlushedColumns DEF HashLeft
    <3>4. record' = [taken EXCEPT !.status = "indexing"]
      BY <1>3, <2>2 DEF Indexing
    <3> HIDE DEF taken
    <3>5. /\ record'.status = "indexing" /\ record'.exists = taken.exists
          /\ record'.hash = taken.hash /\ record'.generation = taken.generation
      BY <3>2, <3>4 DEF Records
    <3> QED BY <1>3, <2>1, <2>2, <3>3, <3>5 DEF Counted
  <2>3. CASE task[t].generation # NoGeneration
    <3>1. old.exists /\ old.generation = task[t].generation
      BY <1>1, <2>3 DEF CopyInv, CopyOf
    <3>2. record' = Flushed(old, [old EXCEPT !.status = "indexing"])
      BY <1>3, <2>3 DEF Indexing
    <3>3. "indexing" \in Statuses /\ Nothing \in Partial(Revisions)
      BY NothingFacts DEF Statuses
    <3>4. Rewritten(StatusLeft("indexing", old.status), record.hash)
      BY <1>1, <2>1, <3>1, <3>2, <3>3, Rewrites
    <3> QED BY <1>3, <2>1, <2>3, <3>1, <3>4
  <2> QED BY <2>2, <2>3
<1> QED BY <1>2, <1>3, IndexingMoves

LEMMA WriteEffect ==
    ASSUME TypeInv, CopyInv, NEW t \in Tasks, ~Overtakes(t), Write(t)
    PROVE  /\ record.exists /\ task[t].generation = record.generation /\ task'[t] = NoTask
           /\ \/ /\ task[t].changed
                 /\ Rewritten(StatusLeft("stale", task[t].cached.status), record.hash)
                 /\ chunks' = chunks /\ vectors' = vectors /\ config' = config
              \/ /\ ~task[t].changed /\ task[t].failed
                 /\ Rewritten(StatusLeft("failed", task[t].cached.status), record.hash)
              \/ /\ ~task[t].changed /\ ~task[t].failed
                 /\ Rewritten(StatusLeft("ready", task[t].cached.status),
                              HashLeft(task[t].specs, task[t].cached.hash))
<1>1. /\ task[t].pc = "write" /\ record.exists /\ task'[t] = NoTask /\ NoTask.pc = "idle"
      /\ task[t].cached \in Records /\ record \in Records
      /\ {"stale", "failed", "ready"} \subseteq Statuses /\ task[t].specs \in Partial(Revisions)
  BY PageFacts, OtherMoves, NoTaskFields DEF Write, Consistent, Statuses, TaskStates
<1>2. task[t].cached.exists /\ task[t].generation = record.generation
  BY <1>1, NotOvertaking DEF CopyInv, CopyOf
<1>3. CASE task[t].changed
  BY <1>1, <1>2, <1>3, Rewrites DEF Write, WriteStale
<1>4. CASE ~task[t].changed /\ task[t].failed
  BY <1>1, <1>2, <1>4, Rewrites DEF Write, WriteFailed
<1>5. CASE ~task[t].changed /\ ~task[t].failed
  BY <1>1, <1>2, <1>5, Rewrites DEF Write, WriteReady
<1> QED BY <1>1, <1>2, <1>3, <1>4, <1>5

LEMMA FailedEffect ==
    ASSUME TypeInv, CopyInv, NEW t \in Tasks, MarkFailed(t)
    PROVE  /\ task'[t] = NoTask
           /\ \/ record' = record /\ ~record.exists
              \/ /\ record.exists
                 /\ Rewritten(StatusLeft("failed", task[t].cached.status), record.hash)
<1>1. /\ task[t].cached.exists /\ task'[t] = NoTask /\ "failed" \in Statuses
      /\ task[t].cached \in Records /\ record \in Records /\ Nothing \in Partial(Revisions)
  BY PageFacts, NothingFacts, OtherMoves
     DEF MarkFailed, CopyInv, CopyOf, Statuses, TaskStates
<1> QED BY <1>1, Rewrites DEF MarkFailed

LEMMA SearchEffect ==
    ASSUME TypeInv, NEW t \in Tasks, SearchTable(t)
    PROVE  /\ task'[t] = NoTask
           /\ \/ record' = record /\ (chunks' = chunks \/ ~record.exists)
              \/ record.exists /\ Rewritten("stale", record.hash)
<1>1. task'[t] = NoTask /\ record \in Records
  BY PageFacts, OtherMoves
<1>2. ASSUME record' = [record EXCEPT !.status = "stale"] PROVE Rewritten("stale", record.hash)
  BY <1>1, <1>2 DEF Records, Rewritten
<1> QED BY <1>1, <1>2 DEF SearchTable

-----------------------------------------------------------------------------
(* The record and the page's own rows                                      *)

LEMMA MarksExist ==
    ASSUME TypeInv, CopyInv, NEW t \in Tasks, MarkPending(t) \/ MarkIndexing(t)
    PROVE  record' = record \/ (record'.exists /\ page.exists)
<1> DEFINE old == task[t].cached
<1>1. /\ record \in Records /\ old \in Records
      /\ Pending(old) \in Records /\ Pending(old).exists
  BY PageFacts, PendingFacts DEF TaskStates
<1>2. Flushed(old, Pending(old)) \in Records /\ Flushed(old, Pending(old)).exists
  <2>1. PICK new \in Records : new = Pending(old)
    BY <1>1
  <2>2. Flushed(old, new) \in Records /\ Flushed(old, new).exists
    BY <1>1, <2>1, FlushedFacts, FlushedColumns
  <2> QED BY <2>1, <2>2
<1>3. CASE MarkPending(t)
  BY <1>2, <1>3, PendingMoves DEF Writable
<1>4. CASE MarkIndexing(t) /\ record' # record
  <2>1. page.exists /\ record' = Indexing(t, old) /\ task[t].pc = "mark"
    BY <1>4, IndexingMoves DEF Writable, MarkIndexing
  <2>2. CASE task[t].generation = NoGeneration
    <3>1. PICK taken \in Records : taken = Flushed(old, Pending(old)) /\ taken.exists
      BY <1>2
    <3>2. record' = [taken EXCEPT !.status = "indexing"]
      BY <2>1, <2>2, <3>1 DEF Indexing
    <3>3. [taken EXCEPT !.status = "indexing"].exists
      BY <3>1 DEF Records
    <3> QED BY <2>1, <3>2, <3>3
  <2>3. CASE task[t].generation # NoGeneration
    <3>1. old.exists
      BY <2>1, <2>3 DEF CopyInv, CopyOf
    <3>2. [old EXCEPT !.status = "indexing"] \in Records /\ [old EXCEPT !.status = "indexing"].exists
      BY <1>1, <3>1 DEF Records, Statuses
    <3>3. PICK new \in Records : new = [old EXCEPT !.status = "indexing"] /\ new.exists
      BY <3>2
    <3>4. record' = Flushed(old, new)
      BY <2>1, <2>3, <3>3 DEF Indexing
    <3>5. Flushed(old, new).exists
      BY <3>3 DEF Flushed, Records
    <3> QED BY <2>1, <3>4, <3>5
  <2> QED BY <2>2, <2>3
<1> QED BY <1>3, <1>4

LEMMA WritesExist ==
    ASSUME TypeInv, CopyInv, NEW t \in Tasks, Write(t) \/ MarkFailed(t)
    PROVE  \/ record' = record /\ ~Write(t)
           \/ record'.exists /\ record.exists
<1>1. /\ record \in Records /\ task[t].cached \in Records /\ task[t].cached.exists
      /\ {"stale", "failed", "ready"} \subseteq Statuses /\ task[t].specs \in Partial(Revisions)
  BY PageFacts DEF Write, MarkFailed, CopyInv, CopyOf, Statuses, TaskStates
<1>2. CASE MarkFailed(t)
  BY <1>2, FailedEffect DEF Rewritten, Write, MarkFailed
<1>3. CASE Write(t)
  <2>1. record.exists
    BY <1>3 DEF Write, Consistent
  <2>2. CASE WriteStale(t)
    BY <1>1, <2>1, <2>2, Rewrites DEF WriteStale, Rewritten
  <2>3. CASE WriteFailed(t)
    BY <1>1, <2>1, <2>3, Rewrites DEF WriteFailed, Rewritten
  <2>4. CASE WriteReady(t)
    BY <1>1, <2>1, <2>4, Rewrites DEF WriteReady, Rewritten
  <2> QED BY <1>3, <2>1, <2>2, <2>3, <2>4 DEF Write
<1> QED BY <1>2, <1>3

LEMMA ExistStep ==
    ASSUME TypeInv, CopyInv, ExistInv, [Next]_vars
    PROVE  ExistInv'
<1>a. record \in Records /\ ~NoRecord.exists /\ DOMAIN Nothing = {}
  BY PageFacts, NothingFacts DEF NoRecord
<1>b. ASSUME record' = record, chunks' = chunks, page' = page, blocks' = blocks
      PROVE  ExistInv'
  BY <1>b DEF ExistInv
<1>c. ASSUME record'.exists, page.exists, page' = page PROVE ExistInv'
  BY <1>a, <1>c DEF ExistInv
<1>d. record.exists => page.exists
  BY <1>a DEF ExistInv
<1>e. ASSUME SetTitle \/ EditBlocks PROVE ExistInv'
  <2>1. page.exists
    <3>1. ~page.exists => \A b \in Blocks : blocks[b] = -1
      BY DEF ExistInv, Deleted
    <3>2. ASSUME NEW b \in Blocks, blocks[b] = -1
          PROVE  ~UpdateBlock(b) /\ ~DeleteBlock(b)
      BY <3>2, ConstantTypes DEF UpdateBlock, DeleteBlock
    <3> QED BY <1>e, <3>1, <3>2 DEF SetTitle, EditBlocks, CreateBlock
  <2>2. record' = record
    BY <1>e DEF SetTitle, EditBlocks, CreateBlock, UpdateBlock, DeleteBlock, index
  <2>3. page'.exists
    BY <1>e, <2>1, PageFacts DEF SetTitle, EditBlocks, CreateBlock, UpdateBlock, DeleteBlock,
       TypeInv, TypeOK
  <2> QED BY <2>2, <2>3 DEF ExistInv
<1>1. ASSUME NEW t \in Tasks, TaskStep(t) \/ TimeOut(t) \/ Request(t) PROVE ExistInv'
  <2>1. CASE UNCHANGED <<content, index>>
    BY <1>b, <2>1 DEF content, index
  <2>2. CASE MarkPending(t) \/ MarkIndexing(t)
    BY <1>b, <1>c, <2>2, MarksExist DEF MarkPending, MarkIndexing, content
  <2>4. CASE Write(t) \/ MarkFailed(t)
    <3>1. page' = page /\ blocks' = blocks
      BY <2>4 DEF Write, MarkFailed, content
    <3>2. MarkFailed(t) => chunks' = chunks
      BY DEF MarkFailed
    <3> QED BY <1>b, <1>c, <1>d, <2>4, <3>1, <3>2, WritesExist
  <2>6. CASE SearchTable(t)
    <3>1. page' = page /\ blocks' = blocks
      BY <2>6 DEF SearchTable, content
    <3>2. CASE record.exists
      <4>1. record'.exists
        BY <2>6, <3>2, SearchEffect DEF Rewritten
      <4> QED BY <1>c, <1>d, <3>1, <3>2, <4>1
    <3>3. CASE ~record.exists
      <4>1. record' = record
        BY <2>6, <3>3 DEF SearchTable
      <4>2. chunks = Nothing => chunks' = Nothing
        BY <2>6, <1>a DEF SearchTable, Nothing
      <4> QED BY <3>1, <4>1, <4>2 DEF ExistInv
    <3> QED BY <3>2, <3>3
  <2>7. CASE DeletePageIndex(t) \/ EnsureTable(t)
    BY <1>b, <2>7 DEF DeletePageIndex, EnsureTable, content
  <2>8. CASE UpdatePage(t) \/ ChangeBlocks(t)
    BY <1>e, <2>8 DEF UpdatePage, ChangeBlocks
  <2>9. CASE DeletePage(t)
    BY <2>9 DEF DeletePage, ExistInv
  <2> QED
    BY <1>1, <2>1, <2>2, <2>4, <2>6, <2>7, <2>8, <2>9
       DEF TaskStep, TimeOut, Request, Queue, Start, ReadRecord, ReadPage, ReadContent,
           ReadIndex, ReadChunks, Embed, Recheck, Refresh, WriteFails, Fail, Reindex, StartSearch
<1>2. CASE AgentEdit
  BY <1>2, <1>e DEF AgentEdit
<1>3. CASE OthersIndex
  BY <1>3, <1>b DEF OthersIndex, content
<1>4. CASE Crash
  BY <1>4, <1>b DEF Crash, content, index
<1>5. ASSUME NEW t \in Tasks, DatabaseFails(t) PROVE ExistInv'
  BY <1>5, <1>b, PageFacts, DatabaseMoves
<1>6. CASE UNCHANGED vars
  BY <1>6, <1>b DEF vars
<1> QED BY <1>1, <1>2, <1>3, <1>4, <1>5, <1>6 DEF Next

LEMMA ExistStart == Init => ExistInv
  BY DEF Init, ExistInv

-----------------------------------------------------------------------------
(* Sessions that overtake no other                                         *)

(* What was not overtaken before a step is not after it, unless the step   *)
(* overtakes.                                                              *)
LEMMA Orderly ==
    ASSUME TypeInv, [Next]_vars, ~overtaken'
    PROVE  ~overtaken /\ \A t \in Tasks : Histories(t) => ~Overtakes(t)
<1>1. \A t \in Tasks : Histories(t) => ~overtaken /\ ~Overtakes(t)
  BY DEF Histories
<1> QED BY <1>1, PageFacts, DatabaseMoves DEF Next, AgentEdit, OthersIndex, Crash, vars

(* Generations: the one with which a task marked the record, or was queued.*)
HasTicket(t) ==
    /\ task[t].pc \in {"start", "lookup", "mark"} \union Numbered
    /\ task[t].generation # NoGeneration

(* Two tasks never work under one generation, none is ahead of the record, *)
(* and one that reports a failure is the last of its generation.           *)
TicketInv ==
    /\ \A s, t \in Tasks :
          HasTicket(s) /\ HasTicket(t) /\ task[s].generation = task[t].generation => s = t
    /\ page.exists => \A t \in Tasks : HasTicket(t) => task[t].generation <= record.generation
    /\ \A t \in Tasks : task[t].pc \in Numbered => task[t].generation # NoGeneration
    /\ \A s \in Tasks : task[s].pc = "mark_failed" =>
          /\ page.exists => task[s].cached.generation <= record.generation
          /\ \A t \in Tasks : HasTicket(t) => task[t].generation # task[s].cached.generation

LEMMA TicketStep ==
    ASSUME TypeInv, CopyInv, TicketInv, ~overtaken', [Next]_vars
    PROVE  TicketInv'
<1>a. /\ record \in Records /\ record.generation \in Nat
      /\ \A t \in Tasks : task[t].generation \in Nat /\ task[t].cached.generation \in Nat
      /\ NoTask.pc = "idle" /\ NoGeneration = 0
  BY PageFacts, NoTaskFields DEF Records, TaskStates, NoGeneration
<1>c. ASSUME NEW t \in Tasks, \A s \in Tasks : s # t => task'[s] = task[s],
             page'.exists => page.exists /\ record'.generation >= record.generation,
             record'.generation \in Nat,
             HasTicket(t)' =>
                 \/ HasTicket(t) /\ task'[t].generation = task[t].generation
                 \/ /\ page.exists /\ task'[t].generation = record'.generation
                    /\ record'.generation = record.generation + 1,
             task'[t].pc \in Numbered => task'[t].generation # NoGeneration,
             task'[t].pc = "mark_failed" =>
                 HasTicket(t) /\ task'[t].cached.generation = task[t].generation
      PROVE  TicketInv'
  <2>1. \A s \in Tasks : s # t => HasTicket(s)' = HasTicket(s)
    BY <1>c DEF HasTicket
  <2>2. ASSUME NEW s \in Tasks, s # t, HasTicket(s)', HasTicket(t)'
        PROVE  task'[s].generation # task'[t].generation
    <3>1. HasTicket(s) /\ task'[s].generation = task[s].generation
      BY <1>c, <2>1, <2>2
    <3>2. CASE HasTicket(t) /\ task'[t].generation = task[t].generation
      BY <2>2, <3>1, <3>2 DEF TicketInv
    <3>3. CASE page.exists /\ task'[t].generation = record.generation + 1
      <4>1. task[s].generation <= record.generation
        BY <3>1, <3>3 DEF TicketInv
      <4> QED BY <1>a, <3>1, <3>3, <4>1
    <3> QED BY <1>c, <2>2, <3>2, <3>3
  <2>3. \A r, s \in Tasks :
           HasTicket(r)' /\ HasTicket(s)' /\ task'[r].generation = task'[s].generation => r = s
    BY <1>c, <2>1, <2>2 DEF TicketInv
  <2>4. ASSUME page'.exists, NEW s \in Tasks, HasTicket(s)'
        PROVE  task'[s].generation <= record'.generation
    <3>1. CASE s # t
      <4>1. task[s].generation <= record.generation /\ task'[s].generation = task[s].generation
        BY <1>c, <2>1, <2>4, <3>1 DEF TicketInv
      <4> QED BY <1>a, <1>c, <2>4, <4>1
    <3>2. CASE s = t /\ HasTicket(t) /\ task'[t].generation = task[t].generation
      <4>1. task[t].generation <= record.generation
        BY <1>c, <2>4, <3>2 DEF TicketInv
      <4> QED BY <1>a, <1>c, <2>4, <3>2, <4>1
    <3>3. CASE s = t /\ task'[t].generation = record'.generation
      BY <1>c, <3>3
    <3> QED BY <1>c, <2>4, <3>1, <3>2, <3>3
  <2>5. ASSUME NEW s \in Tasks, task'[s].pc = "mark_failed", page'.exists
        PROVE  task'[s].cached.generation <= record'.generation
    <3>1. CASE s # t
      <4>1. task[s].cached.generation <= record.generation /\ task'[s] = task[s]
        BY <1>c, <2>5, <3>1 DEF TicketInv
      <4> QED BY <1>a, <1>c, <2>5, <4>1
    <3>2. CASE s = t
      <4>1. task[t].generation <= record.generation
        BY <1>c, <2>5, <3>2 DEF TicketInv
      <4> QED BY <1>a, <1>c, <2>5, <3>2, <4>1
    <3> QED BY <3>1, <3>2
  <2>6. ASSUME NEW s \in Tasks, task'[s].pc = "mark_failed", NEW r \in Tasks, HasTicket(r)'
        PROVE  task'[r].generation # task'[s].cached.generation
    <3>0. r = t => HasTicket(t)'
      BY <2>6
    <3>1. CASE s # t /\ (r = t => HasTicket(t) /\ task'[t].generation = task[t].generation)
      <4>1. HasTicket(r) /\ task'[r].generation = task[r].generation /\ task'[s] = task[s]
        BY <1>c, <2>1, <2>6, <3>1
      <4> QED BY <2>6, <4>1 DEF TicketInv
    <3>2. CASE s # t /\ r = t /\ page.exists /\ task'[t].generation = record.generation + 1
      <4>1. task[s].cached.generation <= record.generation /\ task'[s] = task[s]
        BY <1>c, <2>6, <3>2 DEF TicketInv
      <4> QED BY <1>a, <3>2, <4>1
    <3>3. CASE s = t
      <4>1. HasTicket(t) /\ task'[t].cached.generation = task[t].generation /\ r # t
        BY <1>c, <2>6, <3>3 DEF HasTicket, Numbered
      <4>2. HasTicket(r) /\ task'[r].generation = task[r].generation
        BY <1>c, <2>1, <2>6, <4>1
      <4> QED BY <3>3, <4>1, <4>2 DEF TicketInv
    <3> QED BY <1>c, <3>0, <3>1, <3>2, <3>3
  <2> QED BY <1>c, <2>3, <2>4, <2>5, <2>6 DEF TicketInv
<1>1. ASSUME NEW t \in Tasks, TaskStep(t) \/ TimeOut(t) \/ Request(t), ~Overtakes(t)
      PROVE  TicketInv'
  <2>a. \A s \in Tasks : s # t => task'[s] = task[s]
    BY <1>1, TaskStepTypes, RequestTypes
  <2>1. ASSUME page' = page, record' = record \/ record'.generation = record.generation,
               \/ task'[t].pc \notin Numbered \union {"start", "lookup", "mark", "mark_failed"}
               \/ task'[t].pc \in {"start", "lookup", "mark"} /\ Anew(task'[t])
               \/ /\ task'[t].generation = task[t].generation /\ task'[t].pc # "mark_failed"
                  /\ \/ task[t].pc \in Numbered
                     \/ /\ task[t].pc \in {"start", "lookup"}
                        /\ task'[t].pc \in {"lookup", "mark"}
        PROVE  TicketInv'
    <3>1. HasTicket(t)' => HasTicket(t) /\ task'[t].generation = task[t].generation
      BY <2>1 DEF HasTicket, Anew
    <3>2. task'[t].pc \in Numbered => task'[t].generation # NoGeneration
      BY <2>1 DEF TicketInv, Numbered
    <3>3. task'[t].pc # "mark_failed"
      BY <2>1 DEF Anew
    <3> QED BY <1>a, <1>c, <2>1, <2>a, <3>1, <3>2, <3>3
  <2>2. CASE MarkPending(t)
    <3>1. page' = page
      BY <2>2 DEF MarkPending, content
    <3>2. CASE task'[t] = NoTask /\ record' = record
      BY <1>a, <2>1, <3>1, <3>2 DEF Numbered
    <3>3. CASE /\ Counted /\ task'[t].pc = "start"
               /\ task'[t].generation = record'.generation
      BY <1>a, <1>c, <2>a, <3>1, <3>3 DEF Counted, Numbered
    <3> QED BY <1>1, <2>2, <3>2, <3>3, PendingEffect
  <2>3. CASE MarkIndexing(t)
    <3>1. page' = page /\ task[t].pc = "mark"
      BY <2>3 DEF MarkIndexing, content
    <3>2. CASE task'[t] = NoTask /\ record' = record
      BY <1>a, <2>1, <3>1, <3>2 DEF Numbered
    <3>3. CASE /\ Counted /\ task'[t].pc = "page"
               /\ task'[t].generation = record'.generation
      BY <1>a, <1>c, <2>a, <3>1, <3>3 DEF Counted, Numbered
    <3>4. CASE /\ task[t].generation # NoGeneration /\ task[t].generation = record.generation
               /\ record'.generation = record.generation /\ task'[t].pc = "page"
               /\ task'[t].generation = record'.generation
      <4>1. HasTicket(t)
        BY <3>1, <3>4 DEF HasTicket
      <4> QED BY <1>a, <1>c, <2>a, <3>1, <3>4, <4>1 DEF Numbered
    <3> QED BY <1>1, <2>3, <3>2, <3>3, <3>4, IndexingEffect DEF Rewritten
  <2>4. CASE Write(t) \/ MarkFailed(t) \/ SearchTable(t)
    <3>1. page' = page
      BY <2>4 DEF Write, MarkFailed, SearchTable, content
    <3>2. record' = record \/ record'.generation = record.generation
      BY <1>1, <2>4, WriteEffect, FailedEffect, SearchEffect DEF Rewritten
    <3> QED BY <1>a, <2>1, <2>4, <3>1, <3>2, OtherMoves DEF Numbered
  <2>5. CASE DeletePageIndex(t) \/ EnsureTable(t) \/ WriteFails(t) \/ TimeOut(t)
             \/ ReadPage(t) \/ ReadIndex(t)
    <3>1. page' = page /\ record' = record
      BY <2>5 DEF DeletePageIndex, EnsureTable, WriteFails, TimeOut, ReadPage, ReadIndex,
                  content, index
    <3>2. DeletePageIndex(t) \/ task[t].pc \in Numbered
      BY <2>5 DEF EnsureTable, WriteFails, TimeOut, ReadPage, ReadIndex, Numbered
    <3>3. \/ task'[t] = NoTask
          \/ /\ task'[t].generation = task[t].generation
             /\ task'[t].pc # "mark_failed" /\ task[t].pc \in Numbered
      BY <2>5, <3>2, OtherMoves DEF Still
    <3> QED BY <1>a, <2>1, <3>1, <3>3 DEF Numbered
  <2>6. CASE Queue(t)
    <3>1. page' = page /\ record' = record
      BY <2>6 DEF Queue, content, index
    <3> QED BY <1>a, <2>1, <2>6, <3>1, QueueMoves DEF Numbered
  <2>11. CASE Fail(t)
    <3>1. page' = page /\ record' = record /\ task[t].pc = "fail"
      BY <2>11 DEF Fail, content, index
    <3>2. CASE task'[t] = NoTask
      BY <1>a, <2>1, <3>1, <3>2 DEF Numbered
    <3>3. CASE /\ record.generation = task[t].generation
               /\ task'[t].pc = "mark_failed" /\ task'[t].cached = record
      <4>1. HasTicket(t)
        BY <3>1 DEF TicketInv, HasTicket, Numbered
      <4> QED BY <1>a, <1>c, <2>a, <3>1, <3>3, <4>1 DEF HasTicket, Numbered
    <3> QED BY <2>11, <3>2, <3>3, FailMoves
  <2>12. CASE Start(t) \/ ReadRecord(t)
    <3>1. page' = page /\ record' = record
      BY <2>12 DEF Start, ReadRecord, content, index
    <3> QED BY <1>a, <2>1, <2>12, <3>1, StartMoves, RecordReadMoves DEF Start, Still, Numbered
  <2>7. CASE ReadContent(t) \/ ReadChunks(t) \/ Embed(t) \/ Recheck(t) \/ Refresh(t)
    <3>1. page' = page /\ record' = record
      BY <2>7 DEF ReadContent, ReadChunks, Embed, Recheck, Refresh, content, index
    <3>3. task[t].pc \in Numbered
      BY <2>7 DEF ReadContent, ReadChunks, Embed, Recheck, Refresh, Numbered
    <3>2. \/ task'[t] = NoTask
          \/ task'[t].generation = task[t].generation /\ task'[t].pc # "mark_failed"
      BY <2>7, ContentMoves, ChunksMoves, EmbedMoves, RecheckMoves, RefreshMoves
         DEF Still, AfterRefresh
    <3> QED BY <1>a, <2>1, <3>1, <3>2, <3>3 DEF Numbered
  <2>8. CASE UpdatePage(t)
    <3>1. record' = record /\ task'[t].pc = "start" /\ Anew(task'[t])
      BY <2>8, UpdateMoves DEF UpdatePage, SetTitle, index
    <3>2. page.exists
      BY <2>8 DEF UpdatePage, SetTitle
    <3> QED BY <1>a, <1>c, <2>a, <3>1, <3>2 DEF HasTicket, Anew, Numbered
  <2>9. CASE ChangeBlocks(t) \/ Reindex(t) \/ StartSearch(t)
    <3>1. page' = page /\ record' = record
      BY <2>9 DEF ChangeBlocks, EditBlocks, CreateBlock, UpdateBlock, DeleteBlock, Reindex,
                  StartSearch, content, index
    <3> QED BY <2>1, <2>9, <3>1, ChangeMoves, ReindexMoves, SearchMoves DEF Numbered
  <2>10. CASE DeletePage(t)
    <3>1. ~page'.exists /\ task'[t].pc = "delete"
      BY <2>10, PageFacts, DeleteMoves DEF DeletePage, TypeInv, TypeOK
    <3>2. record' = NoRecord /\ NoRecord.generation = 0
      BY <2>10 DEF DeletePage, NoRecord
    <3> QED BY <1>c, <2>a, <3>1, <3>2 DEF HasTicket, Numbered
  <2> QED BY <1>1, <2>2, <2>3, <2>4, <2>5, <2>6, <2>7, <2>8, <2>9, <2>10, <2>11, <2>12
          DEF TaskStep, Request
<1>2. CASE AgentEdit
  <2>1. record' = record /\ task' = task /\ page'.exists = page.exists
    BY <1>2, PageFacts DEF AgentEdit, SetTitle, EditBlocks, CreateBlock, UpdateBlock,
       DeleteBlock, index, TypeInv, TypeOK
  <2> QED BY <2>1 DEF TicketInv, HasTicket
<1>3. CASE OthersIndex
  BY <1>3 DEF OthersIndex, content, TicketInv, HasTicket
<1>4. CASE Crash
  <2>1. \A t \in Tasks : task'[t].pc = "idle"
    BY <1>4, <1>a DEF Crash
  <2> QED BY <2>1 DEF TicketInv, HasTicket, Numbered
<1>5. ASSUME NEW t \in Tasks, DatabaseFails(t) PROVE TicketInv'
  <2>1. /\ task'[t] = NoTask /\ \A s \in Tasks : s # t => task'[s] = task[s]
        /\ page' = page /\ record' = record
    BY <1>5, PageFacts, DatabaseMoves
  <2> QED BY <1>a, <1>c, <2>1 DEF HasTicket, Numbered
<1>6. CASE UNCHANGED vars
  BY <1>6 DEF vars, TicketInv, HasTicket
<1> QED BY <1>1, <1>2, <1>3, <1>4, <1>5, <1>6, Orderly DEF Next

LEMMA TicketStart == Init => TicketInv
<1> SUFFICES ASSUME Init PROVE TicketInv
  OBVIOUS
<1>1. \A t \in Tasks : task[t].pc \in {"idle", "start"} /\ task[t].generation = NoGeneration
  BY FirstTask, NoTaskFields DEF Anew
<1> QED BY <1>1 DEF TicketInv, HasTicket, Numbered

(* What holds however sessions overtake each other, and the tickets.       *)
BaseInv == TypeInv /\ CopyInv /\ ExistInv

LEMMA Bases == Spec => []BaseInv
<1>1. Init => BaseInv
  BY TypeStart, CopyStart, ExistStart DEF BaseInv
<1>2. BaseInv /\ [Next]_vars => BaseInv'
  BY TypeStep, CopyStep, ExistStep DEF BaseInv
<1> QED BY <1>1, <1>2, PTL DEF Spec

GenerationInv == BaseInv /\ TicketInv

-----------------------------------------------------------------------------
(* The chunks that a task has read                                         *)

Live == LiveBlocks \union {Title}
Known == {Title} \union {b \in Blocks : blocks[b] # New}

(* Chunks are of blocks that have been created; so a block that is created *)
(* is in no index, and in nothing that a task has read.                    *)
KnownInv ==
    /\ DOMAIN chunks \subseteq Known
    /\ \A t \in Tasks : DOMAIN task[t].found \subseteq Known

LEMMA LiveIsKnown == ASSUME TypeInv PROVE Live \subseteq Known
<1>1. \A b \in LiveBlocks : b \in Blocks /\ blocks[b] # 0
  BY DEF TypeInv, TypeOK, LiveBlocks, Revisions, New, Deleted
<1> QED BY <1>1 DEF Live, Known, New

LEMMA EditEffect ==
    ASSUME TypeInv, SetTitle \/ EditBlocks
    PROVE  /\ record' = record /\ vectors' = vectors /\ config' = config
           /\ page'.exists = page.exists
           /\ DOMAIN chunks' \subseteq DOMAIN chunks
           /\ \A k \in DOMAIN chunks' : chunks'[k] = chunks[k]
           /\ \A k \in DOMAIN chunks : k \in Live' => k \in DOMAIN chunks'
           /\ \A k \in Live' : k \notin Live => k \notin Known
           /\ Known \subseteq Known'
<1>a. /\ chunks \in Partial(Chunks) /\ blocks \in [Blocks -> Revisions \union {New, Deleted}]
      /\ New = 0 /\ Deleted = -1 /\ MaxRevision \in Nat /\ Title \notin Blocks
      /\ page \in [exists: BOOLEAN, version: 0..MaxRevision]
  BY ConstantTypes, TitleAssumption DEF TypeInv, TypeOK, New, Deleted
<1>1. CASE SetTitle
  <2>1. page'.exists = page.exists /\ Live' = Live /\ Known' = Known
    BY <1>1, <1>a DEF SetTitle, Live, LiveBlocks, Known
  <2> QED BY <1>1, <2>1 DEF SetTitle, index
<1>2. ASSUME NEW b \in Blocks, CreateBlock(b) \/ UpdateBlock(b)
      PROVE  /\ \A k \in Live' : k \notin Live => k \notin Known
             /\ Known \subseteq Known'
  <2>1. /\ \A c \in Blocks : c # b => blocks'[c] = blocks[c]
        /\ blocks'[b] > 0 /\ blocks'[b] \in Int
        /\ blocks[b] = New \/ blocks[b] > 0
    BY <1>2, <1>a DEF CreateBlock, UpdateBlock, Revisions
  <2>2. \A k \in LiveBlocks' : k \notin LiveBlocks => k = b /\ blocks[b] = New
    BY <2>1 DEF LiveBlocks
  <2>3. Known \subseteq Known'
    BY <1>a, <2>1 DEF Known
  <2> QED BY <1>a, <2>2, <2>3 DEF Live, Known
<1>3. ASSUME NEW b \in Blocks, DeleteBlock(b)
      PROVE  /\ DOMAIN chunks' \subseteq DOMAIN chunks
             /\ \A k \in DOMAIN chunks' : chunks'[k] = chunks[k]
             /\ \A k \in DOMAIN chunks : k \in Live' => k \in DOMAIN chunks'
             /\ \A k \in Live' : k \notin Live => k \notin Known
             /\ Known \subseteq Known'
  <2>1. blocks' = [blocks EXCEPT ![b] = -1] /\ chunks' = Without(chunks, {b})
    BY <1>3 DEF DeleteBlock, Deleted
  <2>2. /\ \A c \in Blocks : c # b => blocks'[c] = blocks[c]
        /\ blocks'[b] = -1
    BY <1>a, <2>1
  <2>3. Without(chunks, {b}) = [k \in DOMAIN chunks \ {b} |-> chunks[k]]
    BY DEF Without
  <2>4. DOMAIN chunks' = DOMAIN chunks \ {b} /\ \A k \in DOMAIN chunks' : chunks'[k] = chunks[k]
    BY <2>1, <2>3
  <2>5. b \notin Live' /\ LiveBlocks' \subseteq LiveBlocks
    BY <1>a, <2>2 DEF Live, LiveBlocks
  <2>6. Known \subseteq Known'
    BY <1>a, <2>2 DEF Known
  <2> QED BY <2>4, <2>5, <2>6 DEF Live
<1>4. ASSUME EditBlocks
      PROVE  record' = record /\ vectors' = vectors /\ config' = config /\ page' = page
  BY <1>4 DEF EditBlocks, CreateBlock, UpdateBlock, DeleteBlock, index
<1>5. ASSUME NEW b \in Blocks, CreateBlock(b) \/ UpdateBlock(b) PROVE chunks' = chunks
  BY <1>5 DEF CreateBlock, UpdateBlock, index
<1> QED BY <1>1, <1>2, <1>3, <1>4, <1>5 DEF EditBlocks

(* Only ReadChunks fills what a task has found.                            *)
LEMMA FoundMoves ==
    ASSUME TypeInv, NEW t \in Tasks, TaskStep(t) \/ TimeOut(t) \/ Request(t)
    PROVE  \/ ReadChunks(t) /\ task'[t].found = chunks
           \/ task'[t].found = Nothing
           \/ task'[t].found = task[t].found
<1>1. CASE Queue(t) \/ MarkPending(t) \/ Start(t) \/ ReadRecord(t) \/ MarkIndexing(t)
  BY <1>1, NoTaskFields, QueueMoves, PendingMoves, StartMoves, RecordReadMoves, IndexingMoves
     DEF Anew, Still, Same
<1>2. CASE ReadContent(t) \/ ReadChunks(t) \/ Embed(t) \/ Recheck(t)
  BY <1>2, ContentMoves, ChunksMoves, EmbedMoves, RecheckMoves
<1>3. CASE Refresh(t) \/ Fail(t)
  BY <1>3, NoTaskFields, RefreshMoves, FailMoves DEF Still, Anew, Same
<1>4. CASE \/ DeletePageIndex(t) \/ Write(t) \/ MarkFailed(t) \/ SearchTable(t)
           \/ WriteFails(t) \/ TimeOut(t) \/ EnsureTable(t) \/ ReadPage(t) \/ ReadIndex(t)
  BY <1>4, NoTaskFields, OtherMoves DEF Still, Anew, Same
<1>5. CASE Request(t)
  BY <1>5, UpdateMoves, ChangeMoves, DeleteMoves, SearchMoves, ReindexMoves DEF Request, Anew
<1> QED BY <1>1, <1>2, <1>3, <1>4, <1>5 DEF TaskStep

LEMMA KnownStep ==
    ASSUME TypeInv, KnownInv, [Next]_vars
    PROVE  KnownInv'
<1>a. DOMAIN Nothing = {}
  BY NothingFacts
<1>b. ASSUME Known \subseteq Known', DOMAIN chunks' \subseteq Known,
             \A t \in Tasks : DOMAIN task'[t].found \subseteq Known
      PROVE  KnownInv'
  BY <1>b DEF KnownInv
<1>1. ASSUME NEW t \in Tasks, TaskStep(t) \/ TimeOut(t) \/ Request(t) PROVE KnownInv'
  <2>1. \A s \in Tasks : DOMAIN task'[s].found \subseteq Known
    <3>1. \A s \in Tasks : s # t => task'[s] = task[s]
      BY <1>1, TaskStepTypes, RequestTypes
    <3> QED BY <1>1, <1>a, <3>1, FoundMoves DEF KnownInv
  <2>2. ASSUME blocks' = blocks, DOMAIN chunks' \subseteq Known PROVE KnownInv'
    <3>1. Known' = Known
      BY <2>2 DEF Known
    <3> QED BY <1>b, <2>1, <2>2, <3>1
  <2>3. CASE UNCHANGED <<content, index>>
    BY <2>2, <2>3 DEF content, index, KnownInv
  <2>4. CASE MarkPending(t) \/ MarkIndexing(t) \/ MarkFailed(t) \/ EnsureTable(t)
             \/ DeletePageIndex(t)
    BY <2>2, <2>4 DEF MarkPending, MarkIndexing, MarkFailed, EnsureTable, DeletePageIndex,
                      content, KnownInv
  <2>5. CASE Write(t)
    <3>1. blocks' = blocks /\ Consistent(t)
      BY <2>5 DEF Write, content
    <3>2. CASE task[t].changed
      BY <2>2, <2>5, <3>1, <3>2 DEF Write, WriteStale, KnownInv
    <3>3. CASE ~task[t].changed /\ task[t].failed
      BY <2>2, <2>5, <3>1, <3>3, WriteFailedFacts DEF Write, KnownInv
    <3>4. CASE ~task[t].changed /\ ~task[t].failed
      <4>1. \A k \in Staged(t) : k \in Known
        BY <3>1, <3>4, LiveIsKnown DEF Consistent, KnownInv, Live
      <4>2. DOMAIN chunks' = (DOMAIN chunks \ Obsolete(t)) \union Staged(t)
        BY <2>5, <3>1, <3>4, WriteReadyFacts DEF Write
      <4> QED BY <2>2, <3>1, <4>1, <4>2 DEF KnownInv
    <3> QED BY <3>2, <3>3, <3>4
  <2>6. CASE SearchTable(t)
    <3>1. blocks' = blocks /\ DOMAIN chunks' = DOMAIN chunks
      BY <2>6, SearchFacts DEF SearchTable, content
    <3> QED BY <2>2, <3>1 DEF KnownInv
  <2>7. CASE UpdatePage(t) \/ ChangeBlocks(t)
    <3>1. Known \subseteq Known' /\ DOMAIN chunks' \subseteq DOMAIN chunks
      BY <2>7, EditEffect DEF UpdatePage, ChangeBlocks
    <3> QED BY <1>b, <2>1, <3>1 DEF KnownInv
  <2>8. CASE DeletePage(t)
    <3>1. Known \subseteq Known' /\ DOMAIN chunks' = {}
      BY <2>8, <1>a DEF DeletePage, Known, Deleted, New
    <3> QED BY <1>b, <2>1, <3>1 DEF KnownInv
  <2> QED
    BY <1>1, <2>3, <2>4, <2>5, <2>6, <2>7, <2>8
       DEF TaskStep, TimeOut, Request, Queue, Start, ReadRecord, ReadPage, ReadContent,
           ReadIndex, ReadChunks, Embed, Recheck, Refresh, WriteFails, Fail, Reindex, StartSearch
<1>2. CASE AgentEdit
  <2>1. Known \subseteq Known' /\ DOMAIN chunks' \subseteq DOMAIN chunks /\ task' = task
    BY <1>2, EditEffect DEF AgentEdit
  <2> QED BY <1>b, <2>1 DEF KnownInv
<1>3. CASE OthersIndex
  BY <1>3 DEF OthersIndex, content, KnownInv, Known
<1>4. CASE Crash
  <2>1. \A t \in Tasks : DOMAIN task'[t].found = {}
    BY <1>4, <1>a, NoTaskFields DEF Crash, Anew
  <2>2. blocks' = blocks /\ chunks' = chunks
    BY <1>4 DEF Crash, content, index
  <2> QED BY <2>1, <2>2 DEF KnownInv, Known
<1>5. ASSUME NEW t \in Tasks, DatabaseFails(t) PROVE KnownInv'
  <2>1. /\ task'[t] = NoTask /\ \A s \in Tasks : s # t => task'[s] = task[s]
        /\ blocks' = blocks /\ chunks' = chunks
    BY <1>5, PageFacts, DatabaseMoves
  <2> QED BY <2>1, <1>a, NoTaskFields DEF Anew, KnownInv, Known
<1>6. CASE UNCHANGED vars
  BY <1>6 DEF vars, KnownInv, Known
<1> QED BY <1>1, <1>2, <1>3, <1>4, <1>5, <1>6 DEF Next

LEMMA KnownStart == Init => KnownInv
<1> SUFFICES ASSUME Init PROVE KnownInv
  OBVIOUS
<1>1. DOMAIN chunks = {} /\ \A t \in Tasks : DOMAIN task[t].found = {}
  BY FirstTask, NoTaskFields, NothingFacts DEF Init, Anew
<1> QED BY <1>1 DEF KnownInv

Reading == {"embed", "recheck", "refresh", "table", "write"}

Latest(t) == record.exists /\ task[t].generation = record.generation

(* A task with the record's generation has found the chunks as they are,   *)
(* but for the blocks deleted since and, if a search marked them, their    *)
(* status.                                                                 *)
FoundInv ==
    \A t \in Tasks : task[t].pc \in Reading /\ Latest(t) =>
        /\ DOMAIN chunks \subseteq DOMAIN task[t].found
        /\ \A k \in DOMAIN task[t].found : k \in Live => k \in DOMAIN chunks
        /\ \A k \in DOMAIN chunks :
              /\ chunks[k].text = task[t].found[k].text
              /\ chunks[k].model = task[t].found[k].model
              /\ ~stripped => chunks[k].status = task[t].found[k].status

(* Who begins to read, and which task has what it has read afterwards.     *)
LEMMA ReadingMoves ==
    ASSUME TypeInv, NEW t \in Tasks, TaskStep(t) \/ TimeOut(t) \/ Request(t),
           task'[t].pc \in Reading
    PROVE  \/ ReadChunks(t)
           \/ /\ task[t].pc \in Reading /\ task'[t].found = task[t].found
              /\ task'[t].generation = task[t].generation
              /\ Embed(t) \/ Recheck(t) \/ Refresh(t) \/ EnsureTable(t)
<1>a. NoTask.pc = "idle"
  BY NoTaskFields
<1>1. CASE Queue(t) \/ MarkPending(t) \/ Start(t) \/ ReadRecord(t) \/ MarkIndexing(t)
  BY <1>1, <1>a, QueueMoves, PendingMoves, StartMoves, RecordReadMoves, IndexingMoves DEF Reading
<1>2. CASE ReadContent(t) \/ Fail(t)
  BY <1>2, <1>a, ContentMoves, FailMoves DEF Reading
<1>3. CASE Embed(t) \/ Recheck(t) \/ ReadChunks(t)
  BY <1>3, EmbedMoves, RecheckMoves DEF Embed, Recheck, Reading
<1>4. CASE Refresh(t)
  BY <1>4, <1>a, RefreshMoves DEF Refresh, Reading, Still, Same
<1>5. CASE \/ DeletePageIndex(t) \/ Write(t) \/ MarkFailed(t) \/ SearchTable(t)
           \/ WriteFails(t) \/ TimeOut(t) \/ ReadPage(t) \/ ReadIndex(t)
  BY <1>5, <1>a, OtherMoves DEF Reading
<1>6. CASE EnsureTable(t)
  BY <1>6, OtherMoves DEF EnsureTable, Reading, Still, Same
<1>7. CASE Request(t)
  BY <1>7, UpdateMoves, ChangeMoves, DeleteMoves, SearchMoves, ReindexMoves DEF Request, Reading
<1> QED BY <1>1, <1>2, <1>3, <1>4, <1>5, <1>6, <1>7 DEF TaskStep

Working == {"content", "index", "chunks"} \union Reading

(* Whoever writes is the only one left with the record's generation.       *)
LEMMA NoOther ==
    ASSUME GenerationInv, NEW t \in Tasks, ~Overtakes(t),
           TaskStep(t) \/ TimeOut(t) \/ Request(t),
           \/ Write(t)
           \/ Counted
           \/ MarkIndexing(t) /\ task[t].generation # NoGeneration
                /\ task[t].generation = record.generation /\ record'.generation = record.generation,
           NEW s \in Tasks, s # t, HasTicket(s)'
    PROVE  ~Latest(s)'
<1>a. /\ TypeInv /\ record.generation \in Nat /\ task[s].generation \in Nat
  BY PageFacts DEF GenerationInv, BaseInv, Records, TaskStates
<1>1. task'[s] = task[s] /\ HasTicket(s)
  BY <1>a, TaskStepTypes, RequestTypes DEF HasTicket
<1>2. CASE Write(t)
  <2>1. /\ task[t].generation = record.generation /\ record'.generation = record.generation
        /\ task[t].pc = "write"
    BY <1>2, WriteEffect DEF GenerationInv, BaseInv, Rewritten, Write
  <2>2. HasTicket(t)
    BY <2>1 DEF HasTicket, GenerationInv, TicketInv, Numbered
  <2> QED BY <1>1, <2>1, <2>2 DEF GenerationInv, TicketInv, Latest
<1>3. CASE Counted
  <2>1. page.exists /\ record'.generation = record.generation + 1
    BY <1>3 DEF Counted
  <2>2. task[s].generation <= record.generation
    BY <1>1, <2>1 DEF GenerationInv, TicketInv
  <2> QED BY <1>a, <1>1, <2>1, <2>2 DEF Latest
<1>4. CASE MarkIndexing(t) /\ task[t].generation # NoGeneration
             /\ task[t].generation = record.generation /\ record'.generation = record.generation
  <2>1. HasTicket(t)
    BY <1>4 DEF MarkIndexing, HasTicket
  <2> QED BY <1>1, <1>4, <2>1 DEF GenerationInv, TicketInv, Latest
<1> QED BY <1>2, <1>3, <1>4

LEMMA NoReader ==
    ASSUME GenerationInv, NEW t \in Tasks, TaskStep(t), ~Overtakes(t),
           \/ Write(t)
           \/ MarkPending(t) /\ Counted
           \/ MarkIndexing(t) /\ Counted,
           NEW s \in Tasks, task'[s].pc \in Working
    PROVE  ~Latest(s)'
<1>a. TypeInv /\ NoTask.pc = "idle"
  BY NoTaskFields DEF GenerationInv, BaseInv
<1>1. s # t
  BY <1>a, OtherMoves, PendingMoves, IndexingMoves DEF Working, Reading
<1>2. HasTicket(s)'
  BY <1>1, <1>a, TaskStepTypes DEF Working, Reading, HasTicket, GenerationInv, TicketInv, Numbered
<1> QED BY <1>1, <1>2, NoOther

(* What a task about to write can do.                                      *)
LEMMA Writing ==
    ASSUME NEW t \in Tasks, TaskStep(t) \/ TimeOut(t) \/ Request(t), task[t].pc = "write"
    PROVE  Write(t) \/ WriteFails(t) \/ TimeOut(t)
  BY DEF TaskStep, Request, Queue, DeletePageIndex, MarkPending, Start, ReadRecord, MarkIndexing,
         ReadPage, ReadContent, ReadIndex, ReadChunks, Embed, Recheck, Refresh, EnsureTable, Fail,
         MarkFailed, SearchTable, UpdatePage, ChangeBlocks, DeletePage, Reindex, StartSearch

LEMMA FoundStep ==
    ASSUME GenerationInv, KnownInv, FoundInv, ~overtaken', [Next]_vars
    PROVE  FoundInv'
<1>a. /\ TypeInv /\ CopyInv /\ TicketInv
      /\ \A t \in Tasks : Histories(t) => ~Overtakes(t)
  BY Orderly DEF GenerationInv, BaseInv
<1>c. ASSUME \A t \in Tasks : task'[t].pc \in Reading /\ Latest(t)' =>
                 /\ task[t].pc \in Reading /\ Latest(t) /\ task'[t].found = task[t].found
                 /\ ~stripped' => ~stripped /\ \A k \in DOMAIN chunks' :
                                                chunks'[k].status = chunks[k].status,
             DOMAIN chunks' \subseteq DOMAIN chunks,
             \A k \in DOMAIN chunks : k \in Live' => k \in DOMAIN chunks',
             \A k \in Live' : k \notin Live => k \notin Known,
             \A k \in DOMAIN chunks' :
                 chunks'[k].text = chunks[k].text /\ chunks'[k].model = chunks[k].model
      PROVE  FoundInv'
  <2>1. SUFFICES ASSUME NEW t \in Tasks, task'[t].pc \in Reading, Latest(t)'
                 PROVE  /\ DOMAIN chunks' \subseteq DOMAIN task'[t].found
                        /\ \A k \in DOMAIN task'[t].found : k \in Live' => k \in DOMAIN chunks'
                        /\ \A k \in DOMAIN chunks' :
                              /\ chunks'[k].text = task'[t].found[k].text
                              /\ chunks'[k].model = task'[t].found[k].model
                              /\ ~stripped' => chunks'[k].status = task'[t].found[k].status
    BY DEF FoundInv
  <2>2. /\ task[t].pc \in Reading /\ Latest(t) /\ task'[t].found = task[t].found
        /\ ~stripped' => ~stripped /\ \A k \in DOMAIN chunks' :
                                       chunks'[k].status = chunks[k].status
    BY <1>c, <2>1
  <2>3. /\ DOMAIN chunks \subseteq DOMAIN task[t].found
        /\ \A k \in DOMAIN task[t].found : k \in Live => k \in DOMAIN chunks
        /\ \A k \in DOMAIN chunks :
              /\ chunks[k].text = task[t].found[k].text
              /\ chunks[k].model = task[t].found[k].model
              /\ ~stripped => chunks[k].status = task[t].found[k].status
    BY <2>2 DEF FoundInv
  <2>4. \A k \in DOMAIN task[t].found : k \in Live' => k \in DOMAIN chunks'
    BY <1>c, <2>3 DEF KnownInv
  <2> QED BY <1>c, <2>2, <2>3, <2>4
<1>d. ASSUME chunks' = chunks, blocks' = blocks,
             \A t \in Tasks : task'[t].pc \in Reading /\ Latest(t)' =>
                 /\ task[t].pc \in Reading /\ Latest(t) /\ task'[t].found = task[t].found
                 /\ ~stripped' => ~stripped
      PROVE  FoundInv'
  <2>1. Live' = Live
    BY <1>d DEF Live, LiveBlocks
  <2> QED BY <1>c, <1>d, <2>1
<1>e. ASSUME \A t \in Tasks : task'[t].pc \in Reading => ~Latest(t)' PROVE FoundInv'
  BY <1>e DEF FoundInv
<1>1. ASSUME NEW t \in Tasks, TaskStep(t) \/ TimeOut(t) \/ Request(t), Histories(t)
      PROVE  FoundInv'
  <2>a. \A s \in Tasks : s # t => task'[s] = task[s]
    BY <1>1, <1>a, TaskStepTypes, RequestTypes
  <2>b. ~stripped' => ~stripped \/ (task[t].pc = "write" /\ task'[t].pc = "idle")
    <3>1. CASE Restores(t)
      BY <3>1 DEF Restores
    <3>2. CASE ~Restores(t)
      BY <1>1, <3>2, Zenon DEF Histories
    <3> QED BY <3>1, <3>2
  <2>1. CASE Write(t)
    BY <1>1, <1>a, <1>e, <2>1, NoReader DEF TaskStep, Working
  <2>2. CASE ReadChunks(t)
    <3>1. /\ chunks' = chunks /\ blocks' = blocks /\ record' = record
          /\ task'[t].found = chunks /\ task[t].pc = "chunks"
      BY <2>2, <1>a, ChunksMoves DEF ReadChunks, content, index
    <3>2. Live' = Live
      BY <3>1 DEF Live, LiveBlocks
    <3>3. ~stripped' => ~stripped
      BY <2>b, <3>1
    <3>4. ASSUME NEW s \in Tasks, s # t PROVE Latest(s)' => Latest(s)
      BY <2>a, <3>1, <3>4 DEF Latest
    <3> QED BY <2>a, <3>1, <3>2, <3>3, <3>4 DEF FoundInv
  <2>c. ASSUME ~Write(t), ~ReadChunks(t)
        PROVE  /\ ~stripped' => ~stripped
               /\ task'[t].pc \in Reading =>
                     /\ task[t].pc \in Reading /\ task'[t].found = task[t].found
                     /\ task'[t].generation = task[t].generation
    <3>1. ~stripped' => ~stripped
      <4>1. CASE task[t].pc = "write"
        <5>1. WriteFails(t) \/ TimeOut(t)
          BY <1>1, <2>c, <4>1, Writing
        <5>2. task'[t].pc = "fail"
          BY <1>a, <5>1, OtherMoves
        <5> QED BY <2>b, <5>2
      <4> QED BY <2>b, <4>1
    <3> QED BY <1>1, <1>a, <2>c, <3>1, ReadingMoves
  <2>d. ASSUME ~Write(t), ~ReadChunks(t), record'.exists => record.exists,
               record'.exists => record'.generation = record.generation,
               NEW s \in Tasks, task'[s].pc \in Reading, Latest(s)'
        PROVE  task[s].pc \in Reading /\ Latest(s) /\ task'[s].found = task[s].found
    <3>1. CASE s = t
      BY <2>c, <2>d, <3>1 DEF Latest
    <3>2. CASE s # t
      BY <2>a, <2>d, <3>2 DEF Latest
    <3> QED BY <3>1, <3>2
  <2>3. CASE UNCHANGED <<content, index>> /\ ~ReadChunks(t) /\ ~Write(t)
    BY <1>d, <2>3, <2>c, <2>d DEF content, index
  <2>4. CASE (MarkPending(t) \/ MarkIndexing(t)) /\ ~Write(t) /\ ~ReadChunks(t)
    <3>1. chunks' = chunks /\ blocks' = blocks
      BY <2>4 DEF MarkPending, MarkIndexing, content
    <3>2. CASE /\ record'.exists => record.exists
               /\ record'.generation = record.generation
      BY <1>d, <2>4, <2>c, <2>d, <3>1, <3>2
    <3>3. CASE (MarkPending(t) \/ MarkIndexing(t)) /\ Counted
      BY <1>1, <1>a, <1>e, <3>3, NoReader DEF TaskStep, Working
    <3>4. MarkPending(t) => record' = record \/ Counted
      BY <1>1, <1>a, PendingEffect
    <3>5. MarkIndexing(t) => \/ record' = record
                             \/ Counted
                             \/ record.exists /\ record'.generation = record.generation
      BY <1>1, <1>a, IndexingEffect DEF Rewritten
    <3>6. CASE MarkPending(t)
      BY <3>2, <3>3, <3>4, <3>6
    <3>7. CASE MarkIndexing(t)
      BY <3>2, <3>3, <3>5, <3>7
    <3> QED BY <2>4, <3>6, <3>7
  <2>5. CASE (MarkFailed(t) \/ EnsureTable(t) \/ DeletePageIndex(t)) /\ ~Write(t) /\ ~ReadChunks(t)
    <3>1. chunks' = chunks /\ blocks' = blocks
      BY <2>5 DEF MarkFailed, EnsureTable, DeletePageIndex, content
    <3>2. (record'.exists => record.exists) /\ record'.generation = record.generation
      BY <1>a, <2>5, FailedEffect DEF EnsureTable, DeletePageIndex, Rewritten
    <3> QED BY <1>d, <2>5, <2>c, <2>d, <3>1, <3>2
  <2>6. CASE SearchTable(t)
    <3>a. ~Write(t) /\ ~ReadChunks(t) /\ ~(task[t].pc = "write")
      BY <2>6 DEF SearchTable, Write, ReadChunks
    <3>1. (record'.exists => record.exists) /\ record'.generation = record.generation
      BY <1>a, <2>6, SearchEffect DEF Rewritten
    <3>2. /\ DOMAIN chunks' = DOMAIN chunks
          /\ \A k \in DOMAIN chunks :
                chunks'[k].text = chunks[k].text /\ chunks'[k].model = chunks[k].model
          /\ chunks' = chunks \/ task[t].seen \notin {NoModel, model}
      BY <1>a, <2>6, SearchFacts
    <3>3. Live' = Live
      BY <2>6 DEF SearchTable, content, Live, LiveBlocks
    <3>4. ASSUME NEW s \in Tasks, task'[s].pc \in Reading, Latest(s)', ~stripped'
          PROVE  chunks' = chunks
      <4>1. task[s].pc \in Reading
        BY <2>d, <3>4, <3>a, <3>1
      <4>2. ~Restores(t) /\ ~Strips(t)
        BY <1>1, <3>4, <3>a DEF Histories, Restores
      <4>3. task[t].pc = "search"
        BY <2>6 DEF SearchTable
      <4> QED BY <3>2, <4>1, <4>2, <4>3 DEF Strips, Reading
    <3> QED BY <1>c, <2>c, <2>d, <3>a, <3>1, <3>2, <3>3, <3>4
  <2>7. CASE UpdatePage(t) \/ ChangeBlocks(t)
    <3>1. SetTitle \/ EditBlocks
      BY <2>7 DEF UpdatePage, ChangeBlocks
    <3>2. ~Write(t) /\ ~ReadChunks(t)
      BY <2>7 DEF UpdatePage, ChangeBlocks, Write, ReadChunks
    <3> QED BY <1>a, <1>c, <2>c, <2>d, <3>1, <3>2, EditEffect
  <2>8. CASE DeletePage(t)
    BY <1>e, <2>8 DEF DeletePage, Latest, NoRecord
  <2>9. CASE Write(t) \/ ReadChunks(t)
    BY <2>1, <2>2, <2>9
  <2> QED
    BY <1>1, <2>3, <2>4, <2>5, <2>6, <2>7, <2>8, <2>9
       DEF TaskStep, TimeOut, Request, Queue, Start, ReadRecord, ReadPage, ReadContent,
           ReadIndex, Embed, Recheck, Refresh, WriteFails, Fail, Reindex, StartSearch
<1>2. CASE AgentEdit
  <2>1. task' = task /\ stripped' = stripped /\ (SetTitle \/ EditBlocks)
    BY <1>2 DEF AgentEdit
  <2>2. record' = record
    BY <1>a, <2>1, EditEffect
  <2> QED BY <1>a, <1>c, <2>1, <2>2, EditEffect DEF Latest
<1>3. CASE OthersIndex
  BY <1>3, <1>d DEF OthersIndex, content, Latest
<1>4. CASE Crash
  <2>1. \A t \in Tasks : task'[t].pc = "idle"
    BY <1>4, NoTaskFields DEF Crash
  <2> QED BY <1>e, <2>1 DEF Reading
<1>5. ASSUME NEW t \in Tasks, DatabaseFails(t) PROVE FoundInv'
  <2>1. /\ task'[t].pc = "idle" /\ \A s \in Tasks : s # t => task'[s] = task[s]
        /\ blocks' = blocks /\ chunks' = chunks /\ record' = record /\ stripped' = stripped
    BY <1>5, <1>a, PageFacts, DatabaseMoves, NoTaskFields
  <2> QED BY <1>d, <2>1 DEF Latest, Reading
<1>6. CASE UNCHANGED vars
  BY <1>6, <1>d DEF vars, Latest
<1> QED BY <1>1, <1>2, <1>3, <1>4, <1>5, <1>6 DEF Next

LEMMA FoundStart == Init => FoundInv
<1> SUFFICES ASSUME Init PROVE FoundInv
  OBVIOUS
<1>1. \A t \in Tasks : task[t].pc \in {"idle", "start"}
  BY FirstTask, NoTaskFields
<1> QED BY <1>1 DEF FoundInv, Reading

-----------------------------------------------------------------------------
(* Texts and their vectors                                                 *)

TextInv ==
    \A k \in DOMAIN chunks : k \in DOMAIN vectors => vectors[k].text = chunks[k].text

LEMMA TextStep ==
    ASSUME GenerationInv, FoundInv, TextInv, ~overtaken', [Next]_vars
    PROVE  TextInv'
<1>a. /\ TypeInv /\ CopyInv /\ DOMAIN Nothing = {}
      /\ \A t \in Tasks : Histories(t) => ~Overtakes(t)
  BY NothingFacts, Orderly DEF GenerationInv, BaseInv
<1>c. ASSUME DOMAIN chunks' \subseteq DOMAIN chunks,
             \A k \in DOMAIN chunks' : chunks'[k].text = chunks[k].text,
             DOMAIN vectors' \subseteq DOMAIN vectors,
             \A k \in DOMAIN vectors' : vectors'[k] = vectors[k]
      PROVE  TextInv'
  BY <1>c DEF TextInv
<1>1. ASSUME NEW t \in Tasks, TaskStep(t) \/ TimeOut(t) \/ Request(t), Histories(t)
      PROVE  TextInv'
  <2>1. CASE chunks' = chunks /\ vectors' = vectors
    BY <1>c, <2>1
  <2>2. CASE Write(t)
    <3>1. CASE task[t].changed
      BY <1>1, <1>a, <1>c, <2>2, <3>1, WriteEffect
    <3>2. CASE ~task[t].changed /\ task[t].failed
      BY <1>a, <1>c, <2>2, <3>2, WriteFailedFacts DEF Write
    <3>3. CASE ~task[t].changed /\ ~task[t].failed
      <4>1. /\ DOMAIN chunks' = (DOMAIN chunks \ Obsolete(t)) \union Staged(t)
            /\ \A k \in Staged(t) : chunks'[k] = StoredChunk(t, k)
            /\ \A k \in DOMAIN chunks' \ Staged(t) : chunks'[k] = chunks[k]
            /\ \A k \in Staged(t) : vectors'[k].text = task[t].specs[k]
            /\ \A k \in DOMAIN vectors' \ Staged(t) :
                  k \in DOMAIN vectors /\ vectors'[k] = vectors[k]
        BY <1>a, <2>2, <3>3, WriteReadyFacts DEF Write
      <4>2. ASSUME NEW k \in Staged(t) PROVE chunks'[k].text = vectors'[k].text
        <5>1. k \in DOMAIN task[t].found => k \in DOMAIN chunks
          BY <2>2, <3>3, <4>2 DEF Write, Consistent
        <5>2. task[t].pc \in Reading /\ Latest(t)
          BY <1>1, <1>a, <2>2, WriteEffect DEF Write, Reading, Latest
        <5>3. k \in DOMAIN task[t].found =>
                 /\ chunks[k].text = task[t].found[k].text
                 /\ chunks[k].model = task[t].found[k].model
          BY <5>1, <5>2 DEF FoundInv
        <5>4. StoredChunk(t, k).text = task[t].specs[k]
          BY <1>a, <4>2, <5>1, <5>3, StoredChunkFacts
        <5> QED BY <4>1, <4>2, <5>4
      <4>3. ASSUME NEW k \in DOMAIN chunks', k \in DOMAIN vectors', k \notin Staged(t)
            PROVE  vectors'[k].text = chunks'[k].text
        BY <4>1, <4>3 DEF TextInv
      <4> QED BY <4>2, <4>3 DEF TextInv
    <3> QED BY <3>1, <3>2, <3>3
  <2>3. CASE SearchTable(t)
    BY <1>a, <1>c, <2>3, SearchFacts, KeptFacts
  <2>4. CASE EnsureTable(t)
    BY <1>a, <1>c, <2>4, KeptFacts DEF EnsureTable
  <2>5. CASE DeletePageIndex(t)
    BY <1>a, <2>5 DEF DeletePageIndex, TextInv
  <2>6. CASE UpdatePage(t) \/ ChangeBlocks(t)
    BY <1>a, <1>c, <2>6, EditEffect DEF UpdatePage, ChangeBlocks
  <2>7. CASE DeletePage(t)
    BY <1>a, <2>7 DEF DeletePage, TextInv
  <2> QED
    BY <1>1, <2>1, <2>2, <2>3, <2>4, <2>5, <2>6, <2>7
       DEF TaskStep, TimeOut, Request, Queue, Start, ReadRecord, MarkPending, MarkIndexing,
           ReadPage, ReadContent, ReadIndex, ReadChunks, Embed, Recheck, Refresh, WriteFails, Fail,
           MarkFailed, Reindex, StartSearch, index
<1>2. CASE AgentEdit
  BY <1>2, <1>a, <1>c, EditEffect DEF AgentEdit
<1>3. CASE OthersIndex
  BY <1>3, <1>a DEF OthersIndex, TextInv
<1>4. CASE Crash
  BY <1>4 DEF Crash, index, TextInv
<1>5. ASSUME NEW t \in Tasks, DatabaseFails(t) PROVE TextInv'
  BY <1>5, <1>a, <1>c, PageFacts, DatabaseMoves
<1>6. CASE UNCHANGED vars
  BY <1>6 DEF vars, TextInv
<1> QED BY <1>1, <1>2, <1>3, <1>4, <1>5, <1>6 DEF Next

ChunkInv ==
    /\ BaseInv /\ KnownInv
    /\ overtaken \/ (TicketInv /\ FoundInv /\ TextInv)

LEMMA ChunksAreKept == Spec => []ChunkInv
<1>1. Init => ChunkInv
  <2>1. Init => TextInv
    BY NothingFacts DEF Init, TextInv
  <2> QED BY <2>1, TypeStart, CopyStart, ExistStart, TicketStart, KnownStart, FoundStart
          DEF ChunkInv, BaseInv
<1>2. ASSUME ChunkInv, [Next]_vars PROVE ChunkInv'
  <2>1. BaseInv' /\ KnownInv'
    BY <1>2, TypeStep, CopyStep, ExistStep, KnownStep DEF ChunkInv, BaseInv
  <2>2. ASSUME ~overtaken' PROVE TicketInv' /\ FoundInv' /\ TextInv'
    <3>1. ~overtaken /\ GenerationInv /\ KnownInv /\ FoundInv /\ TextInv
      BY <1>2, <2>2, Orderly DEF ChunkInv, BaseInv, GenerationInv
    <3> QED BY <1>2, <2>2, <3>1, TicketStep, FoundStep, TextStep DEF GenerationInv, BaseInv
  <2> QED BY <2>1, <2>2 DEF ChunkInv
<1> QED BY <1>1, <1>2, PTL DEF Spec

(* A search compares a query with the vector of the text that it returns:  *)
(* whatever a task found before it wrote, and whichever tasks and restarts *)
(* come between, the vectors in the table are those of the chunks' present *)
(* texts until a session writes over a generation that it has not seen.    *)
THEOREM VectorsMatchTexts == Spec => []VectorMatchesText
<1>1. ChunkInv => VectorMatchesText
  BY DEF ChunkInv, TextInv, VectorMatchesText, Searchable
<1> QED BY <1>1, ChunksAreKept, PTL

-----------------------------------------------------------------------------
(* The status that a session finds                                         *)

(* Which action brings a task to a point of its own.                       *)
LEMMA AsideMoves ==
    ASSUME TypeInv, NEW t \in Tasks, TaskStep(t) \/ TimeOut(t) \/ Request(t)
    PROVE  /\ task'[t].pc = "delete" => DeletePage(t)
           /\ task'[t].pc = "search" => StartSearch(t)
           /\ task'[t].pc = "table" => Refresh(t)
           /\ task'[t].pc \in {"pending", "mark"} => ReadRecord(t)
           /\ task'[t].pc = "mark_failed" => Fail(t)
<1>a. NoTask.pc = "idle"
  BY NoTaskFields
<1>1. CASE Queue(t) \/ MarkPending(t) \/ Start(t) \/ ReadRecord(t) \/ MarkIndexing(t)
  BY <1>1, <1>a, QueueMoves, PendingMoves, StartMoves, RecordReadMoves, IndexingMoves
<1>2. CASE ReadContent(t) \/ ReadChunks(t) \/ Embed(t) \/ Recheck(t) \/ Fail(t)
  BY <1>2, <1>a, ContentMoves, ChunksMoves, EmbedMoves, RecheckMoves, FailMoves
<1>3. CASE Refresh(t)
  BY <1>3, <1>a, RefreshMoves DEF AfterRefresh
<1>4. CASE \/ DeletePageIndex(t) \/ Write(t) \/ MarkFailed(t) \/ SearchTable(t)
           \/ WriteFails(t) \/ TimeOut(t) \/ EnsureTable(t) \/ ReadPage(t) \/ ReadIndex(t)
  BY <1>4, <1>a, OtherMoves
<1>5. CASE Request(t)
  BY <1>5, UpdateMoves, ChangeMoves, DeleteMoves, SearchMoves, ReindexMoves DEF Request
<1> QED BY <1>1, <1>2, <1>3, <1>4, <1>5 DEF TaskStep


(* Who is at work has marked the record, and goes on with its generation.  *)
LEMMA AtWork ==
    ASSUME TypeInv, NEW t \in Tasks, TaskStep(t) \/ TimeOut(t) \/ Request(t),
           task'[t].pc \in {"page"} \union Working
    PROVE  \/ MarkIndexing(t)
           \/ /\ task[t].pc \in {"page"} \union Working /\ record' = record
              /\ task'[t].generation = task[t].generation
<1>a. NoTask.pc = "idle"
  BY NoTaskFields
<1>1. CASE Queue(t) \/ MarkPending(t) \/ Start(t) \/ ReadRecord(t)
  BY <1>1, <1>a, QueueMoves, PendingMoves, StartMoves, RecordReadMoves DEF Working, Reading
<1>2. CASE ReadContent(t) \/ ReadChunks(t) \/ Embed(t) \/ Recheck(t)
  BY <1>2, ContentMoves, ChunksMoves, EmbedMoves, RecheckMoves
     DEF ReadContent, ReadChunks, Embed, Recheck, Working, Reading, index
<1>3. CASE Refresh(t)
  BY <1>3, <1>a, RefreshMoves DEF Refresh, Working, Reading, index
<1>4. CASE ReadPage(t) \/ ReadIndex(t)
  BY <1>4, <1>a, OtherMoves DEF ReadPage, ReadIndex, Still, Working, Reading, index
<1>5. CASE EnsureTable(t)
  BY <1>5, OtherMoves DEF EnsureTable, Still, Working, Reading
<1>6. CASE \/ DeletePageIndex(t) \/ Write(t) \/ MarkFailed(t) \/ SearchTable(t)
           \/ WriteFails(t) \/ TimeOut(t)
  BY <1>6, <1>a, OtherMoves DEF Working, Reading
<1>7. CASE Fail(t)
  BY <1>7, <1>a, FailMoves DEF Working, Reading
<1>8. CASE Request(t)
  BY <1>8, UpdateMoves, ChangeMoves, DeleteMoves, SearchMoves, ReindexMoves
     DEF Request, Working, Reading
<1> QED BY <1>1, <1>2, <1>3, <1>4, <1>5, <1>6, <1>7, <1>8 DEF TaskStep

(* A flush leaves the status alone when the session found the status that  *)
(* it sets.  The session at work on the record's generation has found the  *)
(* record not ready, and nobody has made it ready since; a failure that    *)
(* was found is still there, or was withdrawn by a search.                 *)
StatusOf(t) ==
    /\ Latest(t) /\ task[t].pc \in {"page"} \union Working => record.status # "ready"
    /\ Latest(t) /\ task[t].pc \in {"table", "write"} =>
          /\ task[t].cached.status # "ready" /\ task[t].cached.hash = record.hash
          /\ task[t].cached.status \in {"stale", "failed"} =>
                record.status \notin {"pending", "indexing"}
    /\ /\ Latest(t) /\ task[t].pc = "mark" /\ task[t].generation # NoGeneration
       /\ task[t].cached.status = "indexing"
       => record.status # "ready"
    /\ /\ task[t].pc = "mark_failed" /\ record.exists
       /\ task[t].cached.generation = record.generation /\ task[t].cached.status = "failed"
       => record.status \notin {"pending", "indexing", "ready"}

StatusInv == \A t \in Tasks : StatusOf(t)

LEMMA StatusKept ==
    ASSUME NEW s \in Tasks, StatusOf(s), task'[s] = task[s],
           record'.exists => record.exists, record'.generation = record.generation,
           record'.hash = record.hash, record'.status \in {record.status, "stale", "failed"}
    PROVE  StatusOf(s)'
<1>1. Latest(s)' => Latest(s)
  BY DEF Latest
<1> QED BY <1>1 DEF StatusOf

(* The tickets of those at work.                                           *)
LEMMA AtWorkHasTicket ==
    ASSUME TicketInv, NEW s \in Tasks,
           \/ task[s].pc \in {"page"} \union Working
           \/ task[s].pc = "mark" /\ task[s].generation # NoGeneration
    PROVE  HasTicket(s)
  BY DEF TicketInv, HasTicket, Numbered, Working, Reading

LEMMA StatusOfOther ==
    ASSUME TicketInv, NEW s \in Tasks, task'[s] = task[s], HasTicket(s) => ~Latest(s)',
           task[s].pc = "mark_failed" =>
               ~record'.exists \/ task[s].cached.generation # record'.generation
    PROVE  StatusOf(s)'
<1>1. \/ task[s].pc \in {"page"} \union Working
      \/ task[s].pc = "mark" /\ task[s].generation # NoGeneration
      => ~Latest(s)'
  BY AtWorkHasTicket
<1>2. {"table", "write"} \subseteq Working
  BY DEF Working, Reading
<1> QED BY <1>1, <1>2 DEF StatusOf

LEMMA StatusOfSelf ==
    ASSUME GenerationInv, StatusInv, NEW t \in Tasks, ~Overtakes(t),
           TaskStep(t) \/ TimeOut(t) \/ Request(t)
    PROVE  StatusOf(t)'
<1>a. TypeInv /\ CopyInv /\ NoTask.pc = "idle" /\ StatusOf(t)
  BY NoTaskFields DEF GenerationInv, BaseInv, StatusInv
<1>1. ASSUME Latest(t)', task'[t].pc \in {"page"} \union Working PROVE record'.status # "ready"
  <2>1. CASE MarkIndexing(t)
    <3>1. CASE record'.status = "indexing"
      BY <3>1
    <3>2. CASE /\ task[t].generation # NoGeneration /\ task[t].generation = record.generation
               /\ record.exists
               /\ Rewritten(StatusLeft("indexing", task[t].cached.status), record.hash)
      BY <1>a, <2>1, <3>2 DEF MarkIndexing, StatusOf, Latest, Rewritten, StatusLeft
    <3>3. task'[t] # NoTask
      BY <1>a, <1>1 DEF Working, Reading
    <3> QED BY <1>a, <2>1, <3>1, <3>2, <3>3, IndexingEffect
  <2>2. CASE ~MarkIndexing(t)
    <3>1. /\ task[t].pc \in {"page"} \union Working /\ record' = record
          /\ task'[t].generation = task[t].generation
      BY <1>a, <1>1, <2>2, AtWork
    <3> QED BY <1>a, <1>1, <3>1 DEF StatusOf, Latest
  <2> QED BY <2>1, <2>2
<1>2. ASSUME Latest(t)', task'[t].pc \in {"table", "write"}
      PROVE  /\ task'[t].cached.status # "ready" /\ task'[t].cached.hash = record'.hash
             /\ task'[t].cached.status \in {"stale", "failed"} =>
                   record'.status \notin {"pending", "indexing"}
  <2>1. ~ReadChunks(t) /\ ~Embed(t) /\ ~Recheck(t) /\ task'[t].pc \in Reading
    BY <1>a, <1>2, ChunksMoves, EmbedMoves, RecheckMoves DEF Reading
  <2>2. CASE Refresh(t)
    <3>1. /\ task'[t].cached = record /\ record' = record /\ Latest(t)
          /\ task[t].pc = "refresh"
      BY <1>a, <1>2, <2>2, RefreshMoves DEF Refresh, Latest, index
    <3> QED BY <1>a, <3>1 DEF StatusOf, Working, Reading
  <2>3. CASE EnsureTable(t)
    <3>1. /\ task'[t].cached = task[t].cached /\ record' = record
          /\ task'[t].generation = task[t].generation /\ task[t].pc = "table"
      BY <1>a, <2>3, OtherMoves DEF EnsureTable, Still
    <3> QED BY <1>a, <1>2, <3>1 DEF StatusOf, Latest
  <2> QED BY <1>a, <2>1, <2>2, <2>3, ReadingMoves
<1>3. task'[t].pc = "mark" => task'[t].cached = record' /\ record' = record
  BY <1>a, AsideMoves, RecordReadMoves DEF ReadRecord, index
<1>4. task'[t].pc = "mark_failed" => task'[t].cached = record' /\ record' = record
  BY <1>a, AsideMoves, FailMoves DEF Fail, index
<1> QED BY <1>1, <1>2, <1>3, <1>4 DEF StatusOf

LEMMA StatusStep ==
    ASSUME GenerationInv, StatusInv, ~overtaken', [Next]_vars
    PROVE  StatusInv'
<1>a. /\ TypeInv /\ CopyInv /\ TicketInv /\ record.generation \in Nat
      /\ \A t \in Tasks : task[t].cached.generation \in Nat
      /\ \A t \in Tasks : Histories(t) => ~Overtakes(t)
  BY Orderly, PageFacts DEF GenerationInv, BaseInv, Records, TaskStates
<1>1. ASSUME NEW t \in Tasks, TaskStep(t) \/ TimeOut(t) \/ Request(t), ~Overtakes(t)
      PROVE  StatusInv'
  <2>a. StatusOf(t)'
    BY <1>1, StatusOfSelf
  <2> SUFFICES ASSUME NEW s \in Tasks, s # t PROVE StatusOf(s)'
    BY <2>a DEF StatusInv
  <2>b. task'[s] = task[s] /\ StatusOf(s) /\ (HasTicket(s)' <=> HasTicket(s))
    BY <1>1, <1>a, TaskStepTypes, RequestTypes DEF StatusInv, HasTicket
  <2>1. CASE record' = record
    BY <2>1, <2>b, StatusKept
  <2>2. CASE Counted
    <3>1. HasTicket(s) => ~Latest(s)'
      BY <1>1, <2>2, <2>b, NoOther
    <3>2. task[s].pc = "mark_failed" => task[s].cached.generation # record'.generation
      BY <1>a, <2>2 DEF Counted, TicketInv
    <3> QED BY <1>a, <2>b, <3>1, <3>2, StatusOfOther
  <2>3. CASE Write(t)
    <3>1. HasTicket(s) => ~Latest(s)'
      BY <1>1, <2>3, <2>b, NoOther
    <3>2. /\ task[t].generation = record.generation /\ record'.generation = record.generation
          /\ task[t].pc = "write"
      BY <1>1, <1>a, <2>3, WriteEffect DEF Rewritten, Write
    <3>3. HasTicket(t)
      BY <1>a, <3>2, AtWorkHasTicket DEF Working, Reading
    <3> QED BY <1>a, <2>b, <3>1, <3>2, <3>3, StatusOfOther DEF TicketInv
  <2>4. CASE MarkIndexing(t) /\ record' # record /\ ~Counted
    <3>1. /\ task[t].generation # NoGeneration /\ task[t].generation = record.generation
          /\ record'.generation = record.generation /\ task[t].pc = "mark"
      BY <1>1, <1>a, <2>4, IndexingEffect DEF Rewritten, MarkIndexing
    <3>2. HasTicket(s) => ~Latest(s)'
      BY <1>1, <2>4, <2>b, <3>1, NoOther
    <3>3. HasTicket(t)
      BY <1>a, <3>1, AtWorkHasTicket
    <3> QED BY <1>a, <2>b, <3>1, <3>2, <3>3, StatusOfOther DEF TicketInv
  <2>5. CASE MarkPending(t)
    BY <1>1, <1>a, <2>1, <2>2, <2>5, PendingEffect
  <2>6. CASE MarkFailed(t) \/ SearchTable(t)
    <3>1. ASSUME Rewritten(StatusLeft("failed", task[t].cached.status), record.hash)
          PROVE  StatusOf(s)'
      BY <2>b, <3>1, StatusKept DEF Rewritten, StatusLeft
    <3>2. ASSUME Rewritten("stale", record.hash) PROVE StatusOf(s)'
      BY <2>b, <3>2, StatusKept DEF Rewritten
    <3> QED BY <1>a, <2>1, <2>6, <3>1, <3>2, FailedEffect, SearchEffect
  <2>7. CASE DeletePage(t)
    BY <1>a, <2>7, <2>b, StatusOfOther DEF DeletePage, NoRecord, Latest
  <2>8. CASE UpdatePage(t) \/ ChangeBlocks(t)
    BY <1>a, <2>1, <2>8, EditEffect DEF UpdatePage, ChangeBlocks
  <2> QED
    BY <1>1, <2>1, <2>2, <2>3, <2>4, <2>5, <2>6, <2>7, <2>8
       DEF TaskStep, TimeOut, Request, Queue, DeletePageIndex, Start, ReadRecord, ReadPage,
           ReadContent, ReadIndex, ReadChunks, Embed, Recheck, Refresh, EnsureTable,
           WriteFails, Fail, Reindex, StartSearch, index
<1>b. ASSUME record' = record, \A s \in Tasks : task'[s] = task[s] \/ task'[s].pc = "idle"
      PROVE  StatusInv'
  <2>1. ASSUME NEW s \in Tasks, task'[s].pc = "idle" PROVE StatusOf(s)'
    BY <2>1 DEF StatusOf, Working, Reading
  <2>2. ASSUME NEW s \in Tasks, task'[s] = task[s] PROVE StatusOf(s)'
    BY <1>b, <2>2, StatusKept DEF StatusInv
  <2> QED BY <1>b, <2>1, <2>2 DEF StatusInv
<1>2. CASE AgentEdit
  BY <1>2, <1>a, <1>b, EditEffect DEF AgentEdit
<1>3. CASE OthersIndex
  BY <1>3, <1>b DEF OthersIndex
<1>4. CASE Crash
  BY <1>4, <1>b, NoTaskFields DEF Crash, index
<1>5. ASSUME NEW t \in Tasks, DatabaseFails(t) PROVE StatusInv'
  <2>1. /\ task'[t].pc = "idle" /\ \A s \in Tasks : s # t => task'[s] = task[s]
        /\ record' = record
    BY <1>5, <1>a, PageFacts, NoTaskFields, DatabaseMoves
  <2> QED BY <1>b, <2>1
<1>6. CASE UNCHANGED vars
  BY <1>6, <1>b DEF vars
<1> QED BY <1>1, <1>2, <1>3, <1>4, <1>5, <1>6, <1>a DEF Next

LEMMA StatusStart == Init => StatusInv
<1> SUFFICES ASSUME Init PROVE StatusInv
  OBVIOUS
<1>1. \A t \in Tasks : task[t].pc \in {"idle", "start"}
  BY FirstTask, NoTaskFields
<1> QED BY <1>1 DEF StatusInv, StatusOf, Working, Reading

-----------------------------------------------------------------------------
(* A page shown as ready                                                   *)

(* What a task will write, and what is written, is of created blocks.      *)
HashInv ==
    /\ DOMAIN record.hash \subseteq Known
    /\ \A t \in Tasks : DOMAIN task[t].specs \subseteq Known

LEMMA SpecsMoves ==
    ASSUME TypeInv, NEW t \in Tasks, TaskStep(t) \/ TimeOut(t) \/ Request(t)
    PROVE  \/ /\ ReadContent(t) /\ task'[t].specs = Specs(task[t].version)
              /\ task[t].version \in 1..MaxRevision
           \/ task'[t].specs = Nothing
           \/ task'[t].specs = task[t].specs
<1>n. /\ NoTask.specs = Nothing
      /\ NoTask \in TaskStates /\ task \in [Tasks -> TaskStates] /\ task[t] \in TaskStates
  BY ConstantTypes, PageFacts DEF NoTask
<1>f. ASSUME NEW new, Step(t, new), new.specs = Nothing PROVE task'[t].specs = Nothing
  BY <1>f, Moved
<1>1. CASE Queue(t)
  <2> DEFINE new == [NoTask EXCEPT !.pc = "start", !.version = page.version]
  <2>1. new.specs = Nothing /\ (Step(t, new) \/ End(t))
    BY <1>1, <1>n DEF Queue, TaskStates
  <2> HIDE DEF new
  <2> QED BY <1>f, <1>n, <2>1, Moved
<1>2. CASE ReadContent(t)
  <2>1. task[t].version \in 1..MaxRevision
    BY <1>2, PageFacts DEF ReadContent, WellFormed, Versioned, Numbered, TaskStates
  <2> QED BY <1>2, <2>1, ContentMoves
<1>3. CASE Fail(t)
  <2> DEFINE new == [NoTask EXCEPT !.pc = "mark_failed", !.cached = record]
  <2>1. new.specs = Nothing /\ (Step(t, new) \/ End(t))
    BY <1>3, <1>n DEF Fail, TaskStates
  <2> HIDE DEF new
  <2> QED BY <1>f, <1>n, <2>1, Moved
<1>4. CASE UpdatePage(t)
  <2> DEFINE new == [NoTask EXCEPT !.pc = "start", !.version = page.version + 1]
  <2>1. new.specs = Nothing /\ Step(t, new)
    BY <1>4, <1>n DEF UpdatePage, TaskStates
  <2> HIDE DEF new
  <2> QED BY <1>f, <2>1
<1>5. CASE Reindex(t)
  <2> DEFINE new == [NoTask EXCEPT !.pc = "retry", !.version = page.version]
  <2>1. new.specs = Nothing /\ Step(t, new)
    BY <1>5, <1>n DEF Reindex, TaskStates
  <2> HIDE DEF new
  <2> QED BY <1>f, <2>1
<1>6. CASE StartSearch(t)
  <2> DEFINE new == [NoTask EXCEPT !.pc = "search", !.seen = config]
  <2>1. new.specs = Nothing /\ Step(t, new)
    BY <1>6, <1>n DEF StartSearch, TaskStates
  <2> HIDE DEF new
  <2> QED BY <1>f, <2>1
<1>7. CASE ChangeBlocks(t) \/ DeletePage(t)
  <2>1. PICK p : Step(t, [NoTask EXCEPT !.pc = p])
    BY <1>7 DEF ChangeBlocks, DeletePage
  <2> DEFINE new == [NoTask EXCEPT !.pc = p]
  <2>2. new.specs = Nothing /\ Step(t, new)
    BY <1>n, <2>1 DEF TaskStates
  <2> HIDE DEF new
  <2> QED BY <1>f, <2>2
<1>8. CASE MarkPending(t) \/ Start(t) \/ ReadRecord(t) \/ MarkIndexing(t)
  BY <1>8, <1>n, PendingMoves, StartMoves, RecordReadMoves, IndexingMoves DEF Still, Same
<1>9. CASE ReadChunks(t) \/ Embed(t) \/ Recheck(t) \/ Refresh(t)
  BY <1>9, <1>n, ChunksMoves, EmbedMoves, RecheckMoves, RefreshMoves DEF Still, Same
<1>10. CASE \/ DeletePageIndex(t) \/ Write(t) \/ MarkFailed(t) \/ SearchTable(t)
            \/ WriteFails(t) \/ TimeOut(t) \/ EnsureTable(t) \/ ReadPage(t) \/ ReadIndex(t)
  BY <1>10, <1>n, OtherMoves DEF Still, Same
<1> QED BY <1>1, <1>2, <1>3, <1>4, <1>5, <1>6, <1>7, <1>8, <1>9, <1>10 DEF TaskStep, Request

(* A task that writes its index has found the record not ready, so that    *)
(* the record becomes ready; one that has something else to say leaves it  *)
(* neither ready nor waiting.                                              *)
LEMMA WriteOutcome ==
    ASSUME GenerationInv, StatusInv, NEW t \in Tasks, ~Overtakes(t), Write(t)
    PROVE  \/ /\ task[t].changed \/ task[t].failed
              /\ record'.exists = record.exists /\ record'.generation = record.generation
              /\ record'.hash = record.hash
              /\ record'.status \notin {"ready", "pending", "indexing"}
           \/ /\ ~task[t].changed /\ ~task[t].failed
              /\ Rewritten("ready", task[t].specs)
<1>1. /\ TypeInv /\ CopyInv /\ StatusOf(t) /\ task[t].pc = "write"
  BY DEF GenerationInv, BaseInv, StatusInv, Write
<1>2. Latest(t)
  BY <1>1, WriteEffect DEF Latest
<1>3. /\ record.status # "ready" /\ task[t].cached.status # "ready"
      /\ task[t].cached.hash = record.hash
      /\ task[t].cached.status \in {"stale", "failed"} =>
            record.status \notin {"pending", "indexing"}
  BY <1>1, <1>2 DEF StatusOf, Working, Reading
<1>4. /\ StatusLeft("stale", task[t].cached.status) \notin {"ready", "pending", "indexing"}
      /\ StatusLeft("failed", task[t].cached.status) \notin {"ready", "pending", "indexing"}
      /\ StatusLeft("ready", task[t].cached.status) = "ready"
      /\ HashLeft(task[t].specs, task[t].cached.hash) = task[t].specs
  BY <1>3 DEF StatusLeft, HashLeft
<1> QED BY <1>1, <1>4, WriteEffect DEF Rewritten

(* What the actions make of the record.                                    *)
LEMMA RecordMoves ==
    ASSUME GenerationInv, StatusInv, NEW t \in Tasks, ~Overtakes(t),
           TaskStep(t) \/ TimeOut(t) \/ Request(t)
    PROVE  \/ record' = record
           \/ /\ Counted
              /\ \/ MarkPending(t) /\ (record'.status = "ready" => record.status = "ready")
                 \/ MarkIndexing(t) /\ record'.status = "indexing"
           \/ /\ record'.exists = record.exists /\ record'.generation = record.generation
              /\ record'.hash = record.hash
              /\ record'.status = "ready" => record.status = "ready" /\ ~Write(t)
           \/ /\ Write(t) /\ ~task[t].changed /\ ~task[t].failed
              /\ Rewritten("ready", task[t].specs)
           \/ DeletePage(t) /\ record' = NoRecord
<1>a. TypeInv /\ CopyInv
  BY DEF GenerationInv, BaseInv
<1>1. CASE MarkPending(t)
  BY <1>1, <1>a, PendingEffect DEF StatusLeft
<1>2. CASE MarkIndexing(t)
  <2>1. ~Write(t)
    BY <1>2 DEF MarkIndexing, Write
  <2> QED BY <1>2, <1>a, <2>1, IndexingEffect DEF Rewritten, StatusLeft
<1>3. CASE Write(t)
  BY <1>3, WriteOutcome
<1>4. CASE MarkFailed(t) \/ SearchTable(t)
  <2>1. ~Write(t)
    BY <1>4 DEF MarkFailed, SearchTable, Write
  <2> QED BY <1>4, <1>a, <2>1, FailedEffect, SearchEffect DEF Rewritten, StatusLeft
<1>5. CASE DeletePage(t)
  BY <1>5 DEF DeletePage
<1>6. CASE UpdatePage(t) \/ ChangeBlocks(t)
  BY <1>6, <1>a, EditEffect DEF UpdatePage, ChangeBlocks
<1> QED
  BY <1>1, <1>2, <1>3, <1>4, <1>5, <1>6
     DEF TaskStep, TimeOut, Request, Queue, DeletePageIndex, Start, ReadRecord, ReadPage,
         ReadContent, ReadIndex, ReadChunks, Embed, Recheck, Refresh, EnsureTable, WriteFails,
         Fail, Reindex, StartSearch, index

(* Blocks, once created, stay known.                                       *)
LEMMA KnownGrows ==
    ASSUME TypeInv, NEW t \in Tasks, TaskStep(t) \/ TimeOut(t) \/ Request(t)
    PROVE  Known \subseteq Known'
<1>1. CASE UpdatePage(t) \/ ChangeBlocks(t)
  BY <1>1, EditEffect DEF UpdatePage, ChangeBlocks
<1>2. CASE DeletePage(t)
  BY <1>2 DEF DeletePage, Known, Deleted, New
<1>3. CASE blocks' = blocks
  BY <1>3 DEF Known
<1> QED
  BY <1>1, <1>2, <1>3
     DEF TaskStep, TimeOut, Request, Queue, DeletePageIndex, MarkPending, Start, ReadRecord,
         MarkIndexing, ReadPage, ReadContent, ReadIndex, ReadChunks, Embed, Recheck, Refresh, EnsureTable,
         Write, WriteFails, Fail, MarkFailed, SearchTable, Reindex, StartSearch, content

LEMMA HashStep ==
    ASSUME GenerationInv, StatusInv, HashInv, ~overtaken', [Next]_vars
    PROVE  HashInv'
<1>b. TypeInv /\ \A t \in Tasks : Histories(t) => ~Overtakes(t)
  BY Orderly DEF GenerationInv, BaseInv
<1>a. DOMAIN Nothing = {} /\ NoRecord.hash = Nothing
  BY NothingFacts DEF NoRecord
<1>1. ASSUME NEW t \in Tasks, TaskStep(t) \/ TimeOut(t) \/ Request(t), Histories(t)
      PROVE  HashInv'
  <2>1. Known \subseteq Known'
    BY <1>1, <1>b, KnownGrows
  <2>2. \A s \in Tasks : s # t => task'[s] = task[s]
    BY <1>1, <1>b, TaskStepTypes, RequestTypes
  <2>3. DOMAIN task'[t].specs \subseteq Known
    <3>1. ASSUME NEW v \in 1..MaxRevision PROVE DOMAIN Specs(v) \subseteq Known
      BY <1>b, <3>1, SpecsFacts, LiveIsKnown DEF Live
    <3> QED BY <1>1, <1>a, <1>b, <3>1, SpecsMoves DEF HashInv
  <2>4. DOMAIN record'.hash \subseteq Known
    BY <1>1, <1>a, <1>b, RecordMoves DEF HashInv, Rewritten, Counted
  <2> QED BY <2>1, <2>2, <2>3, <2>4 DEF HashInv
<1>2. CASE AgentEdit
  BY <1>2, <1>b, EditEffect DEF AgentEdit, HashInv
<1>3. CASE OthersIndex
  BY <1>3 DEF OthersIndex, content, HashInv, Known
<1>4. CASE Crash
  <2>1. \A t \in Tasks : task'[t].specs = Nothing
    BY <1>4 DEF Crash, NoTask
  <2>2. blocks' = blocks /\ record' = record
    BY <1>4 DEF Crash, content, index
  <2> QED BY <1>a, <2>1, <2>2 DEF HashInv, Known
<1>5. ASSUME NEW t \in Tasks, DatabaseFails(t) PROVE HashInv'
  <2>1. /\ task'[t].specs = Nothing /\ \A s \in Tasks : s # t => task'[s] = task[s]
        /\ blocks' = blocks /\ record' = record
    BY <1>5, <1>b, PageFacts, DatabaseMoves DEF NoTask
  <2> QED BY <1>a, <2>1 DEF HashInv, Known
<1>6. CASE UNCHANGED vars
  BY <1>6 DEF vars, HashInv, Known
<1> QED BY <1>1, <1>2, <1>3, <1>4, <1>5, <1>6, <1>b DEF Next

LEMMA HashStart == Init => HashInv
<1> SUFFICES ASSUME Init PROVE HashInv
  OBVIOUS
<1>1. NoTask.specs = Nothing /\ NoRecord.hash = Nothing /\ DOMAIN Nothing = {}
  BY NothingFacts DEF NoTask, NoRecord
<1>2. record = NoRecord /\ \A t \in Tasks : task[t].specs = Nothing
  BY <1>1, FirstTask DEF Init
<1> QED BY <1>1, <1>2 DEF HashInv

(* What the tasks beside the indexing, and one that goes to look at the    *)
(* table, have seen.                                                       *)
AsideInv ==
    \A t \in Tasks :
        /\ task[t].pc = "table" => ~task[t].changed /\ ~task[t].failed
        /\ task[t].pc = "delete" => ~page.exists
        /\ task[t].pc = "search" /\ task[t].seen \in {NoModel, model} => ~TableOfOthers

(* The configuration and the page, in the steps of tasks.                  *)
LEMMA ConfigMoves ==
    ASSUME TypeInv, NEW t \in Tasks, TaskStep(t) \/ TimeOut(t) \/ Request(t)
    PROVE  /\ config' = config \/ config' = model
           /\ page'.exists => page.exists
<1>1. CASE UpdatePage(t) \/ ChangeBlocks(t)
  BY <1>1, EditEffect DEF UpdatePage, ChangeBlocks
<1>2. CASE DeletePage(t)
  <2>1. page' = [page EXCEPT !.exists = FALSE] /\ config' = config
    BY <1>2 DEF DeletePage
  <2> QED BY <2>1, PageFacts DEF TypeInv, TypeOK
<1>3. CASE Write(t)
  BY <1>3 DEF Write, WriteStale, WriteFailed, WriteReady, content
<1>4. CASE SearchTable(t)
  BY <1>4 DEF SearchTable, content
<1> QED
  BY <1>1, <1>2, <1>3, <1>4
     DEF TaskStep, TimeOut, Request, Queue, DeletePageIndex, MarkPending, Start, ReadRecord,
         MarkIndexing, ReadPage, ReadContent, ReadIndex, ReadChunks, Embed, Recheck, Refresh, EnsureTable,
         WriteFails, Fail, MarkFailed, Reindex, StartSearch, content, index

LEMMA AsideStep ==
    ASSUME TypeInv, AsideInv, [Next]_vars
    PROVE  AsideInv'
<1>1. ASSUME NEW t \in Tasks, TaskStep(t) \/ TimeOut(t) \/ Request(t), Histories(t)
      PROVE  AsideInv'
  <2>1. model' = model /\ \A s \in Tasks : s # t => task'[s] = task[s]
    BY <1>1, TaskStepTypes, RequestTypes DEF Histories
  <2>2. TableOfOthers' => TableOfOthers
    BY <1>1, <2>1, ConfigMoves DEF TableOfOthers
  <2>3. page'.exists => page.exists
    BY <1>1, ConfigMoves
  <2>4. task'[t].pc = "delete" => ~page'.exists
    <3>1. DeletePage(t) => ~page'.exists
      BY PageFacts DEF DeletePage, TypeInv, TypeOK
    <3> QED BY <1>1, <3>1, AsideMoves
  <2>5. task'[t].pc = "search" /\ task'[t].seen \in {NoModel, model} => ~TableOfOthers'
    <3>1. StartSearch(t) => task'[t].seen = config /\ config' = config
      BY SearchMoves DEF StartSearch, index
    <3> QED BY <1>1, <2>1, <3>1, AsideMoves DEF TableOfOthers
  <2>6. task'[t].pc = "table" => ~task'[t].changed /\ ~task'[t].failed
    <3>1. Refresh(t) /\ task'[t].pc = "table" => ~task'[t].changed /\ ~task'[t].failed
      BY NoTaskFields, RefreshMoves DEF AfterRefresh, Same
    <3> QED BY <1>1, <3>1, AsideMoves
  <2> QED BY <2>1, <2>2, <2>3, <2>4, <2>5, <2>6 DEF AsideInv
<1>2. CASE AgentEdit
  BY <1>2, EditEffect DEF AgentEdit, AsideInv, TableOfOthers
<1>3. CASE OthersIndex
  BY <1>3 DEF OthersIndex, content, AsideInv, TableOfOthers
<1>4. CASE Crash
  <2>1. \A t \in Tasks : task'[t].pc = "idle"
    BY <1>4, NoTaskFields DEF Crash
  <2> QED BY <2>1 DEF AsideInv
<1>5. ASSUME NEW t \in Tasks, DatabaseFails(t) PROVE AsideInv'
  <2>1. /\ task'[t].pc = "idle" /\ \A s \in Tasks : s # t => task'[s] = task[s]
        /\ page' = page /\ config' = config /\ model' = model
    BY <1>5, PageFacts, DatabaseMoves, NoTaskFields
  <2> QED BY <2>1 DEF AsideInv, TableOfOthers
<1>6. CASE UNCHANGED vars
  BY <1>6 DEF vars, AsideInv, TableOfOthers
<1> QED BY <1>1, <1>2, <1>3, <1>4, <1>5, <1>6 DEF Next

LEMMA AsideStart == Init => AsideInv
<1> SUFFICES ASSUME Init PROVE AsideInv
  OBVIOUS
<1>1. \A t \in Tasks : task[t].pc \in {"idle", "start"}
  BY FirstTask, NoTaskFields
<1> QED BY <1>1 DEF AsideInv

(* A ready chunk is of the table's model and has its vector, unless the    *)
(* task that is about to write has dropped the table for it.               *)
Dropped ==
    /\ TableOfOthers
    /\ \E t \in Tasks : task[t].pc = "write" /\ ~task[t].changed /\ ~task[t].failed

IndexInv ==
    ~stripped /\ ~lost =>
        \A k \in DOMAIN chunks : chunks[k].status = "ready" =>
            chunks[k].model = config /\ (k \in DOMAIN vectors \/ Dropped)

LEMMA Unstripped ==
    ASSUME TypeInv, NEW t \in Tasks, TaskStep(t) \/ TimeOut(t) \/ Request(t), Histories(t),
           ~stripped'
    PROVE  \/ ~stripped /\ ~Strips(t) /\ ~Restores(t)
           \/ Restores(t) /\ Write(t)
<1>1. CASE Restores(t)
  <2>1. task[t].pc = "write" /\ task'[t].pc = "idle"
    BY <1>1 DEF Restores
  <2> QED BY <1>1, <2>1, Writing, OtherMoves
<1>2. CASE ~Restores(t)
  BY <1>2 DEF Histories
<1> QED BY <1>1, <1>2

(* The chunks that a successful write leaves: those that were embedded,    *)
(* and those that were found unchanged, ready and of the model.            *)
LEMMA ReadyWrite ==
    ASSUME GenerationInv, FoundInv, NEW t \in Tasks, Write(t), Histories(t), ~stripped',
           ~Overtakes(t), ~task[t].changed, ~task[t].failed
    PROVE  /\ DOMAIN chunks' \subseteq DOMAIN task[t].specs
           /\ \A k \in Staged(t) :
                 /\ k \in DOMAIN chunks' /\ chunks'[k].status = "ready"
                 /\ chunks'[k].text = task[t].specs[k] /\ chunks'[k].model = model
                 /\ k \in DOMAIN vectors'
           /\ \A k \in DOMAIN task[t].specs \ Staged(t) :
                 /\ ~stripped /\ k \in DOMAIN task[t].found
                 /\ k \in DOMAIN chunks => /\ k \in DOMAIN chunks' /\ chunks'[k] = chunks[k]
                                           /\ chunks[k].status = "ready"
                                           /\ chunks[k].text = task[t].specs[k]
                                           /\ chunks[k].model = model
           /\ \A k \in DOMAIN task[t].specs \ Staged(t) :
                 k \in DOMAIN chunks' => k \in DOMAIN chunks
           /\ \A k \in DOMAIN task[t].specs :
                 k \in DOMAIN vectors /\ ~TableOfOthers => k \in DOMAIN vectors'
<1>a. TypeInv /\ CopyInv /\ Consistent(t) /\ TaskStep(t)
  BY DEF GenerationInv, BaseInv, Write, TaskStep
<1>b. /\ DOMAIN chunks \subseteq DOMAIN task[t].found
      /\ \A k \in DOMAIN chunks :
            /\ chunks[k].text = task[t].found[k].text
            /\ chunks[k].model = task[t].found[k].model
            /\ ~stripped => chunks[k].status = task[t].found[k].status
  <2>1. task[t].pc \in Reading /\ Latest(t)
    BY <1>a, WriteEffect DEF Write, Reading, Latest
  <2> QED BY <2>1 DEF FoundInv
<1>c. /\ DOMAIN chunks' = (DOMAIN chunks \ Obsolete(t)) \union Staged(t)
      /\ \A k \in Staged(t) : chunks'[k] = StoredChunk(t, k)
      /\ \A k \in DOMAIN chunks' \ Staged(t) : chunks'[k] = chunks[k]
      /\ DOMAIN vectors' = (DOMAIN Table(t) \ Obsolete(t)) \union Staged(t)
  BY <1>a, WriteReadyFacts DEF Write
<1>d. Staged(t) \subseteq DOMAIN task[t].specs
  BY DEF Staged
<1>e. ~stripped \/ Restores(t)
  BY <1>a, Unstripped
<1>1. DOMAIN chunks' \subseteq DOMAIN task[t].specs
  BY <1>b, <1>c, <1>d DEF Obsolete
<1>2. ASSUME NEW k \in Staged(t)
      PROVE  /\ k \in DOMAIN chunks' /\ chunks'[k].status = "ready"
             /\ chunks'[k].text = task[t].specs[k] /\ chunks'[k].model = model
             /\ k \in DOMAIN vectors'
  <2>1. k \in DOMAIN task[t].found => k \in DOMAIN chunks
    BY <1>a, <1>2 DEF Consistent
  <2>2. k \in DOMAIN task[t].found => chunks[k].status = task[t].found[k].status
    BY <1>2, <1>b, <1>d, <1>e, <2>1 DEF Restores, Obsolete
  <2>3. /\ StoredChunk(t, k).status = "ready"
        /\ StoredChunk(t, k).text = task[t].specs[k] /\ StoredChunk(t, k).model = model
    BY <1>a, <1>b, <2>1, <2>2, StoredChunkFacts
  <2> QED BY <1>c, <1>2, <2>3
<1>3. ASSUME NEW k \in DOMAIN task[t].specs \ Staged(t)
      PROVE  /\ ~stripped /\ k \in DOMAIN task[t].found
             /\ k \in DOMAIN chunks => /\ k \in DOMAIN chunks' /\ chunks'[k] = chunks[k]
                                       /\ chunks[k].status = "ready"
                                       /\ chunks[k].text = task[t].specs[k]
                                       /\ chunks[k].model = model
             /\ k \in DOMAIN chunks' => k \in DOMAIN chunks
  <2>1. /\ k \in DOMAIN task[t].found /\ task[t].found[k].text = task[t].specs[k]
        /\ task[t].found[k].status = "ready" /\ task[t].found[k].model = model
    BY <1>3 DEF Staged, Reusable
  <2>2. ~stripped
    BY <1>3, <1>e DEF Restores
  <2>3. k \notin Obsolete(t)
    BY <1>3 DEF Obsolete
  <2> QED BY <1>b, <1>c, <1>3, <2>1, <2>2, <2>3
<1>4. ASSUME NEW k \in DOMAIN task[t].specs, k \in DOMAIN vectors, ~TableOfOthers
      PROVE  k \in DOMAIN vectors'
  <2>1. Table(t) = vectors /\ k \notin Obsolete(t)
    BY <1>4 DEF Table, Kept, Obsolete
  <2> QED BY <1>4, <1>c, <2>1
<1> QED BY <1>1, <1>2, <1>3, <1>4

LEMMA IndexStep ==
    ASSUME GenerationInv, FoundInv, AsideInv, IndexInv, ~overtaken', [Next]_vars
    PROVE  IndexInv'
<1>a. /\ TypeInv /\ CopyInv /\ DOMAIN Nothing = {}
      /\ \A k \in DOMAIN chunks : chunks[k].model # NoModel
      /\ \A t \in Tasks : Histories(t) => ~Overtakes(t)
  <2>1. TypeInv
    BY DEF GenerationInv, BaseInv
  <2>2. \A k \in DOMAIN chunks : chunks[k] \in Chunks
    BY <2>1, PartialFacts, PageFacts
  <2> QED BY <2>1, <2>2, NothingFacts, ConstantTypes, Orderly DEF GenerationInv, BaseInv, Chunks
<1>c. ASSUME ~stripped' /\ ~lost' => ~stripped /\ ~lost /\ (Dropped => Dropped'),
             DOMAIN chunks' \subseteq DOMAIN chunks,
             \A k \in DOMAIN chunks' : chunks'[k] = chunks[k],
             vectors' = vectors, config' = config
      PROVE  IndexInv'
  BY <1>c DEF IndexInv
<1>1. ASSUME NEW t \in Tasks, TaskStep(t) \/ TimeOut(t) \/ Request(t), Histories(t)
      PROVE  IndexInv'
  <2>a. /\ \A s \in Tasks : s # t => task'[s] = task[s]
        /\ model' = model /\ lost' = lost
    BY <1>1, <1>a, TaskStepTypes, RequestTypes DEF Histories
  <2>b. ~stripped' => (~stripped /\ ~Strips(t)) \/ Write(t)
    BY <1>1, <1>a, Unstripped
  <2>c. ASSUME Dropped, config' = config
        PROVE  \/ Dropped'
               \/ TableOfOthers /\ task[t].pc = "write" /\ ~task[t].changed /\ ~task[t].failed
    <3>1. PICK s \in Tasks : task[s].pc = "write" /\ ~task[s].changed /\ ~task[s].failed
      BY <2>c DEF Dropped
    <3> QED BY <2>a, <2>c, <3>1 DEF Dropped, TableOfOthers
  <2>1. CASE Write(t)
    <3>1. CASE task[t].changed
      <4>1. ~Restores(t)
        BY <3>1 DEF Restores
      <4>2. config' = config => (Dropped => Dropped')
        BY <2>c, <3>1
      <4>3. ~stripped' => ~stripped
        BY <1>1, <1>a, <4>1, Unstripped
      <4> QED BY <1>1, <1>a, <1>c, <2>1, <2>a, <3>1, <4>2, <4>3, WriteEffect
    <3>2. CASE ~task[t].changed /\ task[t].failed
      <4>1. ~Restores(t)
        BY <3>2 DEF Restores
      <4>2. config' = config => (Dropped => Dropped')
        BY <2>c, <3>2
      <4>3. ~stripped' => ~stripped
        BY <1>1, <1>a, <4>1, Unstripped
      <4>4. WriteFailed(t)
        BY <2>1, <3>2 DEF Write
      <4>5. CASE chunks' = chunks /\ vectors' = vectors
        BY <1>a, <1>c, <2>a, <4>2, <4>3, <4>4, <4>5, WriteFailedFacts
      <4>6. CASE /\ DOMAIN chunks' = DOMAIN chunks
                 /\ \A k \in DOMAIN chunks :
                       k \in DOMAIN task[t].found => chunks'[k].status = "stale"
        <5>1. task[t].pc \in Reading /\ Latest(t)
          BY <1>1, <1>a, <2>1, WriteEffect DEF Write, Reading, Latest
        <5>2. DOMAIN chunks \subseteq DOMAIN task[t].found
          BY <5>1 DEF FoundInv
        <5> QED BY <4>6, <5>2 DEF IndexInv
      <4> QED BY <1>a, <4>4, <4>5, <4>6, WriteFailedFacts
    <3>3. CASE ~task[t].changed /\ ~task[t].failed
      <4>1. SUFFICES ASSUME ~stripped', ~lost', NEW k \in DOMAIN chunks',
                            chunks'[k].status = "ready"
                     PROVE  chunks'[k].model = config' /\ k \in DOMAIN vectors'
        BY DEF IndexInv
      <4>2. config' = model
        BY <2>1, <3>3 DEF Write, WriteReady
      <4>3. CASE k \in Staged(t)
        BY <1>1, <1>a, <2>1, <3>3, <4>1, <4>2, <4>3, ReadyWrite
      <4>4. CASE k \notin Staged(t)
        <5>1. /\ k \in DOMAIN task[t].specs \ Staged(t) /\ ~stripped
              /\ k \in DOMAIN chunks /\ chunks'[k] = chunks[k] /\ chunks[k].model = model
          BY <1>1, <1>a, <2>1, <3>3, <4>1, <4>4, ReadyWrite
        <5>2. chunks[k].model = config /\ (k \in DOMAIN vectors \/ Dropped)
          BY <2>a, <4>1, <5>1 DEF IndexInv
        <5>3. ~TableOfOthers /\ ~Dropped
          BY <5>1, <5>2 DEF TableOfOthers, Dropped
        <5> QED BY <1>1, <1>a, <2>1, <3>3, <4>1, <4>2, <5>1, <5>2, <5>3, ReadyWrite
      <4> QED BY <4>3, <4>4
    <3> QED BY <3>1, <3>2, <3>3
  <2>d. ASSUME ~Write(t), ~stripped'
        PROVE  ~stripped /\ ~Strips(t) /\ (config' = config => (Dropped => Dropped'))
    <3>1. ~stripped /\ ~Strips(t)
      BY <2>b, <2>d
    <3>2. CASE task[t].pc = "write"
      <4>1. task'[t].pc = "fail"
        BY <1>1, <1>a, <2>d, <3>2, Writing, OtherMoves
      <4>2. ~TableOfOthers
        BY <3>1, <3>2, <4>1 DEF Strips
      <4> QED BY <3>1, <4>2 DEF Dropped
    <3> QED BY <2>c, <3>1, <3>2
  <2>2. ASSUME ~Write(t), chunks' = chunks, vectors' = vectors, config' = config
        PROVE  IndexInv'
    BY <1>c, <2>2, <2>a, <2>d
  <2>3. CASE EnsureTable(t)
    <3>1. ~Write(t) /\ chunks' = chunks /\ config' = config /\ task[t].pc = "table"
      BY <2>3 DEF EnsureTable, Write
    <3>2. CASE TableOfOthers
      <4>1. task'[t].pc = "write" /\ ~task'[t].changed /\ ~task'[t].failed
        BY <1>a, <2>3, <3>1, OtherMoves DEF AsideInv, Still, Same
      <4>2. Dropped'
        BY <2>a, <3>1, <3>2, <4>1 DEF Dropped, TableOfOthers
      <4> QED BY <2>a, <2>d, <3>1, <4>2 DEF IndexInv
    <3>3. CASE ~TableOfOthers
      <4>1. vectors' = vectors
        BY <2>3, <3>3 DEF EnsureTable, Kept
      <4> QED BY <2>2, <3>1, <4>1
    <3> QED BY <3>2, <3>3
  <2>4. CASE SearchTable(t)
    <3>1. ~Write(t) /\ task[t].pc = "search" /\ config' = model /\ vectors' = Kept
      BY <2>4 DEF SearchTable, Write
    <3>2. CASE task[t].seen \notin {NoModel, model}
      <4>1. \A k \in DOMAIN chunks' : chunks'[k].status = "stale"
        BY <1>a, <2>4, <3>2, SearchFacts
      <4> QED BY <4>1 DEF IndexInv
    <3>3. CASE task[t].seen \in {NoModel, model}
      <4>1. ~TableOfOthers
        BY <3>1, <3>3 DEF AsideInv
      <4>2. vectors' = vectors /\ chunks' = chunks
        BY <2>4, <3>1, <3>3, <4>1 DEF SearchTable, Kept
      <4>3. SUFFICES ASSUME ~stripped', ~lost', NEW k \in DOMAIN chunks,
                            chunks[k].status = "ready"
                     PROVE  chunks[k].model = model /\ k \in DOMAIN vectors
        BY <3>1, <4>2 DEF IndexInv
      <4>4. chunks[k].model = config /\ k \in DOMAIN vectors
        BY <2>a, <2>d, <3>1, <4>1, <4>3 DEF IndexInv, Dropped
      <4> QED BY <1>a, <4>1, <4>4 DEF TableOfOthers
    <3> QED BY <3>2, <3>3
  <2>5. CASE DeletePageIndex(t)
    <3>1. ~page.exists /\ chunks' = chunks
      BY <2>5 DEF DeletePageIndex, AsideInv
    <3>2. DOMAIN chunks' = {}
      BY <1>a, <3>1 DEF GenerationInv, BaseInv, ExistInv
    <3> QED BY <3>2 DEF IndexInv
  <2>6. CASE UpdatePage(t) \/ ChangeBlocks(t)
    <3>1. ~Write(t)
      BY <2>6 DEF UpdatePage, ChangeBlocks, Write
    <3> QED BY <1>a, <1>c, <2>6, <2>a, <2>d, <3>1, EditEffect DEF UpdatePage, ChangeBlocks
  <2>7. CASE DeletePage(t)
    BY <1>a, <2>7 DEF DeletePage, IndexInv
  <2> QED
    BY <1>1, <2>1, <2>2, <2>3, <2>4, <2>5, <2>6, <2>7
       DEF TaskStep, TimeOut, Request, Queue, MarkPending, Start, ReadRecord, MarkIndexing,
           ReadPage, ReadContent, ReadIndex, ReadChunks, Embed, Recheck, Refresh, WriteFails, Fail,
           MarkFailed, Reindex, StartSearch, index
<1>2. CASE AgentEdit
  BY <1>2 DEF AgentEdit, IndexInv
<1>3. CASE OthersIndex
  BY <1>3 DEF OthersIndex, IndexInv
<1>4. CASE Crash
  <2>1. chunks' = chunks /\ vectors' = vectors /\ config' = config /\ stripped' = stripped
    BY <1>4 DEF Crash, index
  <2>2. ~lost' => ~lost /\ ~Dropped
    BY <1>4 DEF Crash, Dropped
  <2> QED BY <1>c, <2>1, <2>2
<1>5. ASSUME NEW t \in Tasks, DatabaseFails(t) PROVE IndexInv'
  <2>1. /\ \A s \in Tasks : s # t => task'[s] = task[s]
        /\ chunks' = chunks /\ vectors' = vectors /\ config' = config /\ model' = model
        /\ stripped' = stripped /\ task[t].pc # "write"
    BY <1>5, <1>a, PageFacts, DatabaseMoves DEF DatabaseFails
  <2>2. Dropped => Dropped'
    <3>1. ASSUME NEW s \in Tasks, task[s].pc = "write" PROVE task'[s] = task[s]
      BY <2>1, <3>1
    <3> QED BY <2>1, <3>1 DEF Dropped, TableOfOthers
  <2>3. ~lost' => ~lost
    BY <1>5 DEF DatabaseFails
  <2> QED BY <1>c, <2>1, <2>2, <2>3
<1>6. CASE UNCHANGED vars
  BY <1>6 DEF vars, IndexInv, Dropped, TableOfOthers
<1> QED BY <1>1, <1>2, <1>3, <1>4, <1>5, <1>6 DEF Next

LEMMA IndexStart == Init => IndexInv
  BY NothingFacts DEF Init, IndexInv

(* A ready record describes the chunks, but for the blocks deleted and     *)
(* created since.                                                          *)
ReadyInv ==
    ~stripped /\ ~lost /\ page.exists /\ record.status = "ready" =>
        /\ DOMAIN chunks \subseteq DOMAIN record.hash
        /\ \A k \in DOMAIN record.hash : k \in Live =>
              /\ k \in DOMAIN chunks /\ chunks[k].status = "ready"
              /\ chunks[k].text = record.hash[k]

LEMMA ReadyStep ==
    ASSUME GenerationInv, FoundInv, StatusInv, HashInv, ReadyInv, ~overtaken', [Next]_vars
    PROVE  ReadyInv'
<1>a. /\ TypeInv /\ CopyInv
      /\ \A t \in Tasks : Histories(t) => ~Overtakes(t)
  BY Orderly DEF GenerationInv, BaseInv
<1>c. ASSUME ~stripped' /\ ~lost' /\ page'.exists =>
                 ~stripped /\ ~lost /\ page.exists,
             record'.hash = record.hash, record'.status = "ready" => record.status = "ready",
             DOMAIN chunks' \subseteq DOMAIN chunks,
             \A k \in DOMAIN chunks' : chunks'[k] = chunks[k],
             \A k \in DOMAIN chunks : k \in Live' => k \in DOMAIN chunks',
             \A k \in Live' : k \notin Live => k \notin Known
      PROVE  ReadyInv'
  <2> SUFFICES ASSUME ~stripped', ~lost', page'.exists, record'.status = "ready"
               PROVE  /\ DOMAIN chunks' \subseteq DOMAIN record'.hash
                      /\ \A k \in DOMAIN record'.hash : k \in Live' =>
                            /\ k \in DOMAIN chunks' /\ chunks'[k].status = "ready"
                            /\ chunks'[k].text = record'.hash[k]
    BY DEF ReadyInv
  <2>1. /\ DOMAIN chunks \subseteq DOMAIN record.hash
        /\ \A k \in DOMAIN record.hash : k \in Live =>
              /\ k \in DOMAIN chunks /\ chunks[k].status = "ready"
              /\ chunks[k].text = record.hash[k]
    BY <1>c DEF ReadyInv
  <2>2. \A k \in DOMAIN record.hash : k \in Live' => k \in Live
    BY <1>c DEF HashInv
  <2> QED BY <1>c, <2>1, <2>2
<1>d. ASSUME ~stripped' /\ ~lost' /\ page'.exists => ~stripped /\ ~lost /\ page.exists,
             record'.hash = record.hash, record'.status = "ready" => record.status = "ready",
             chunks' = chunks, blocks' = blocks
      PROVE  ReadyInv'
  <2>1. Live' = Live
    BY <1>d DEF Live, LiveBlocks
  <2> QED BY <1>c, <1>d, <2>1
<1>1. ASSUME NEW t \in Tasks, TaskStep(t) \/ TimeOut(t) \/ Request(t), Histories(t)
      PROVE  ReadyInv'
  <2>a. lost' = lost /\ (page'.exists => page.exists)
    BY <1>1, <1>a, ConfigMoves DEF Histories
  <2>b. ~stripped' => ~stripped \/ Write(t)
    BY <1>1, <1>a, Unstripped
  <2>1. CASE record'.status # "ready"
    BY <2>1 DEF ReadyInv
  <2>2. CASE Write(t) /\ record'.status = "ready"
    <3>1. /\ ~task[t].changed /\ ~task[t].failed /\ Rewritten("ready", task[t].specs)
          /\ Latest(t) /\ task[t].pc \in Reading
      <4>1. Latest(t) /\ task[t].pc \in Reading
        BY <1>1, <1>a, <2>2, WriteEffect DEF Latest, Write, Reading
      <4> QED BY <1>1, <1>a, <2>2, <4>1, WriteOutcome
    <3>2. Live' = Live
      BY <2>2 DEF Write, content, Live, LiveBlocks
    <3> SUFFICES ASSUME ~stripped', ~lost'
                 PROVE  /\ DOMAIN chunks' \subseteq DOMAIN task[t].specs
                        /\ \A k \in DOMAIN task[t].specs : k \in Live =>
                              /\ k \in DOMAIN chunks' /\ chunks'[k].status = "ready"
                              /\ chunks'[k].text = task[t].specs[k]
      BY <3>1, <3>2 DEF ReadyInv, Rewritten
    <3>3. ASSUME NEW k \in DOMAIN task[t].specs, k \in Live, k \notin Staged(t)
          PROVE  /\ k \in DOMAIN chunks' /\ chunks'[k].status = "ready"
                 /\ chunks'[k].text = task[t].specs[k]
      <4>1. k \in DOMAIN task[t].found
        BY <1>1, <1>a, <2>2, <3>1, <3>3, ReadyWrite
      <4>2. k \in DOMAIN chunks
        BY <3>1, <3>3, <4>1 DEF FoundInv
      <4> QED BY <1>1, <1>a, <2>2, <3>1, <3>3, <4>2, ReadyWrite
    <3>4. ASSUME NEW k \in Staged(t)
          PROVE  /\ k \in DOMAIN chunks' /\ chunks'[k].status = "ready"
                 /\ chunks'[k].text = task[t].specs[k]
      BY <1>1, <1>a, <2>2, <3>1, <3>4, ReadyWrite
    <3>5. DOMAIN chunks' \subseteq DOMAIN task[t].specs
      BY <1>1, <1>a, <2>2, <3>1, ReadyWrite
    <3> QED BY <3>3, <3>4, <3>5
  <2>3. CASE DeletePage(t)
    <3>1. ~page'.exists
      BY <1>a, <2>3, PageFacts DEF DeletePage, TypeInv, TypeOK
    <3> QED BY <3>1 DEF ReadyInv
  <2>4. CASE UpdatePage(t) \/ ChangeBlocks(t)
    <3>1. ~Write(t)
      BY <2>4 DEF UpdatePage, ChangeBlocks, Write
    <3> QED BY <1>a, <1>c, <2>4, <2>a, <2>b, <3>1, EditEffect DEF UpdatePage, ChangeBlocks
  <2>5. CASE SearchTable(t)
    <3>1. ~Write(t) /\ blocks' = blocks
      BY <2>5 DEF SearchTable, Write, content
    <3>2. CASE record' = record /\ chunks' = chunks
      BY <1>d, <2>a, <2>b, <3>1, <3>2
    <3>3. CASE record' = record /\ ~record.exists
      <4>1. record'.status # "ready"
        BY <3>3 DEF GenerationInv, BaseInv, ExistInv, NoRecord
      <4> QED BY <2>1, <4>1
    <3>4. CASE Rewritten("stale", record.hash)
      BY <2>1, <3>4 DEF Rewritten
    <3> QED BY <1>a, <2>5, <3>2, <3>3, <3>4, SearchEffect
  <2>6. ASSUME ~Write(t), ~DeletePage(t), chunks' = chunks, blocks' = blocks PROVE ReadyInv'
    <3>1. record'.hash = record.hash /\ (record'.status = "ready" => record.status = "ready")
      BY <1>1, <1>a, <2>6, RecordMoves DEF Counted
    <3> QED BY <1>d, <2>6, <2>a, <2>b, <3>1
  <2> QED
    BY <1>1, <2>1, <2>2, <2>3, <2>4, <2>5, <2>6
       DEF TaskStep, TimeOut, Request, Queue, DeletePageIndex, MarkPending, Start, ReadRecord,
           MarkIndexing, ReadPage, ReadContent, ReadIndex, ReadChunks, Embed, Recheck, Refresh, EnsureTable,
           WriteFails, Fail, MarkFailed, Reindex, StartSearch, content, index
<1>2. CASE AgentEdit
  BY <1>2 DEF AgentEdit, ReadyInv
<1>3. CASE OthersIndex
  BY <1>3 DEF OthersIndex, ReadyInv
<1>4. CASE Crash
  BY <1>4, <1>d DEF Crash, content, index
<1>5. ASSUME NEW t \in Tasks, DatabaseFails(t) PROVE ReadyInv'
  <2>1. /\ page' = page /\ blocks' = blocks /\ chunks' = chunks /\ record' = record
        /\ stripped' = stripped
    BY <1>5, <1>a, PageFacts, DatabaseMoves
  <2>2. ~lost' => ~lost
    BY <1>5 DEF DatabaseFails
  <2> QED BY <1>d, <2>1, <2>2
<1>6. CASE UNCHANGED vars
  BY <1>6, <1>d DEF vars
<1> QED BY <1>1, <1>2, <1>3, <1>4, <1>5, <1>6 DEF Next

LEMMA ReadyStart == Init => ReadyInv
  BY DEF Init, ReadyInv, NoRecord

(* A task that will bring the record up to date: it has not begun, and     *)
(* will take the next generation.                                          *)
Carries(t) ==
    \/ task[t].pc = "queue"
    \/ /\ task[t].pc \in {"start", "lookup", "mark"} /\ task[t].generation = NoGeneration
       /\ task[t].version = page.version
       /\ task[t].pc = "mark" => task[t].cached.exists = record.exists

Carried == \E t \in Tasks : Carries(t)

UpToDate(t) ==
    /\ task[t].pc \in {"content", "index", "chunks", "embed", "recheck"}
          => task[t].version = page.version
    /\ task[t].pc \in {"refresh", "table", "write"} /\ ~task[t].changed
          => task[t].specs = Specs(page.version)

(* If no such task is left, a ready record describes the page as it is,    *)
(* and the task of the record's generation works on the page as it is.     *)
CurrentInv ==
    ~lost /\ page.exists /\ ~Carried =>
        /\ record.status = "ready" => record.hash = Specs(page.version)
        /\ \A t \in Tasks : Latest(t) => UpToDate(t)

LEMMA WorkMoves ==
    ASSUME TypeInv, NEW t \in Tasks, TaskStep(t) \/ TimeOut(t) \/ Request(t),
           page' = page, blocks' = blocks, task'[t].pc \in Working
    PROVE  task'[t].generation = task[t].generation /\ (UpToDate(t) => UpToDate(t)')
<1>a. NoTask.pc = "idle" /\ Specs(page.version)' = Specs(page.version)
  BY NoTaskFields DEF Specs, LiveBlocks
<1>1. CASE Queue(t) \/ MarkPending(t) \/ Start(t) \/ ReadRecord(t) \/ MarkIndexing(t)
  BY <1>1, <1>a, QueueMoves, PendingMoves, StartMoves, RecordReadMoves, IndexingMoves
     DEF Working, Reading
<1>2. CASE ReadPage(t)
  BY <1>2, OtherMoves DEF Still, Same, Working, Reading, UpToDate
<1>3. CASE ReadContent(t)
  BY <1>3, ContentMoves DEF ReadContent, UpToDate
<1>4. CASE ReadIndex(t)
  BY <1>4, <1>a, OtherMoves DEF ReadIndex, Still, Same, Working, Reading, UpToDate
<1>5. CASE ReadChunks(t)
  BY <1>5, ChunksMoves DEF ReadChunks, UpToDate
<1>6. CASE Embed(t)
  BY <1>6, EmbedMoves DEF Embed, UpToDate
<1>7. CASE Recheck(t)
  BY <1>7, <1>a, RecheckMoves DEF Recheck, UpToDate
<1>8. CASE Refresh(t)
  <2>1. \/ task'[t].pc \notin Working
        \/ task'[t].pc = AfterRefresh(t) /\ task'[t].generation = task[t].generation
              /\ Same(task[t], task'[t])
    BY <1>8, <1>a, RefreshMoves DEF Working, Reading
  <2> QED BY <1>8, <1>a, <2>1 DEF Refresh, AfterRefresh, Same, UpToDate
<1>9. CASE EnsureTable(t)
  BY <1>9, <1>a, OtherMoves DEF EnsureTable, Still, Same, UpToDate
<1>10. CASE Fail(t)
  BY <1>10, <1>a, FailMoves DEF Working, Reading
<1>11. CASE \/ DeletePageIndex(t) \/ Write(t) \/ MarkFailed(t) \/ SearchTable(t)
            \/ WriteFails(t) \/ TimeOut(t)
  BY <1>11, <1>a, OtherMoves DEF Working, Reading
<1>12. CASE Request(t)
  BY <1>12, UpdateMoves, ChangeMoves, DeleteMoves, SearchMoves, ReindexMoves
     DEF Request, Working, Reading
<1> QED BY <1>1, <1>2, <1>3, <1>4, <1>5, <1>6, <1>7, <1>8, <1>9, <1>10, <1>11, <1>12
        DEF TaskStep

(* What a task at one of its first points can do.                          *)
LEMMA FirstMoves ==
    ASSUME NEW t \in Tasks, TaskStep(t) \/ TimeOut(t) \/ Request(t)
    PROVE  /\ task[t].pc = "queue" => Queue(t)
           /\ task[t].pc = "start" => Start(t)
           /\ task[t].pc = "lookup" => ReadRecord(t)
           /\ task[t].pc = "mark" => MarkIndexing(t)
  BY DEF TaskStep, TimeOut, Request, Queue, DeletePageIndex, MarkPending, Start, ReadRecord,
         MarkIndexing, ReadPage, ReadContent, ReadIndex, ReadChunks, Embed, Recheck, Refresh,
         EnsureTable, Write, WriteFails, Fail, MarkFailed, SearchTable, UpdatePage,
         ChangeBlocks, DeletePage, Reindex, StartSearch

(* A task that carries an edit goes on to take the next generation.        *)
LEMMA CarrierMoves ==
    ASSUME TypeInv, CopyInv, NEW t \in Tasks, TaskStep(t) \/ TimeOut(t) \/ Request(t),
           ~Overtakes(t), Carries(t), page.exists
    PROVE  \/ page' = page /\ record' = record /\ Carries(t)'
           \/ MarkIndexing(t) /\ Counted /\ record'.status = "indexing"
<1>1. CASE task[t].pc = "queue"
  <2>1. Queue(t)
    BY <1>1, FirstMoves
  <2> DEFINE new == [NoTask EXCEPT !.pc = "start", !.version = page.version]
  <2>2. Step(t, new) /\ page' = page /\ record' = record
    BY <2>1 DEF Queue, content, index
  <2>3. new.pc = "start" /\ new.version = page.version /\ Anew(new)
    BY ConstantTypes, NoTaskFields DEF TaskStates, Anew
  <2> HIDE DEF new
  <2> QED BY <2>2, <2>3, Moved DEF Carries, Anew
<1>2. CASE task[t].pc = "start"
  <2>1. page.version = task[t].version /\ task[t].generation = NoGeneration
    BY <1>2 DEF Carries
  <2>2. Goto(t, "lookup") /\ page' = page /\ record' = record
    BY <1>2, <2>1, FirstMoves DEF Start, content, index
  <2> QED BY <2>1, <2>2, Moved DEF Carries, Still, Same
<1>3. CASE task[t].pc = "lookup"
  <2>1. page.version = task[t].version /\ task[t].generation = NoGeneration
    BY <1>3 DEF Carries
  <2>2. ReadRecord(t) /\ page' = page /\ record' = record
    BY <1>3, FirstMoves DEF ReadRecord, content, index
  <2>3. /\ task'[t].pc = "mark" /\ task'[t].cached = record
        /\ task'[t].generation = NoGeneration /\ task'[t].version = page.version
    BY <1>3, <2>1, <2>2, RecordReadMoves DEF Same
  <2> QED BY <2>2, <2>3 DEF Carries
<1>4. CASE task[t].pc = "mark"
  <2>1. /\ MarkIndexing(t) /\ task[t].generation = NoGeneration
        /\ Writable(task[t].cached)
    BY <1>4, FirstMoves DEF Carries, Writable
  <2> QED BY <2>1, IndexingEffect
<1> QED BY <1>1, <1>2, <1>3, <1>4 DEF Carries

LEMMA IndexingCounts ==
    ASSUME TypeInv, CopyInv, NEW t \in Tasks, ~Overtakes(t), MarkIndexing(t), Counted
    PROVE  record'.status = "indexing"
<1>1. record.generation \in Nat
  BY PageFacts DEF Records
<1>2. record' # record /\ ~(record'.generation = record.generation)
  BY <1>1 DEF Counted
<1> QED BY <1>2, IndexingEffect DEF Rewritten

LEMMA CurrentStep ==
    ASSUME GenerationInv, StatusInv, CurrentInv, ~overtaken', [Next]_vars
    PROVE  CurrentInv'
<1>a. /\ TypeInv /\ CopyInv /\ ExistInv
      /\ \A t \in Tasks : Histories(t) => ~Overtakes(t)
  BY Orderly DEF GenerationInv, BaseInv
<1>b. ASSUME page' = page, blocks' = blocks PROVE Specs(page.version)' = Specs(page.version)
  BY <1>b DEF Specs, LiveBlocks
<1>1. ASSUME NEW t \in Tasks, TaskStep(t) \/ TimeOut(t) \/ Request(t), Histories(t)
      PROVE  CurrentInv'
  <2>a. lost' = lost /\ \A s \in Tasks : s # t => task'[s] = task[s]
    BY <1>1, <1>a, TaskStepTypes, RequestTypes DEF Histories
  <2>1. CASE (MarkPending(t) \/ MarkIndexing(t)) /\ Counted
    <3>1. \A s \in Tasks : task'[s].pc \in Working => ~Latest(s)'
      BY <1>1, <1>a, <2>1, NoReader DEF TaskStep
    <3>2. \A s \in Tasks : task'[s].pc \notin Working => UpToDate(s)'
      BY DEF UpToDate, Working, Reading
    <3>3. page' = page /\ blocks' = blocks
      BY <2>1 DEF MarkPending, MarkIndexing, content
    <3>4. ASSUME ~lost', page'.exists, ~Carried', record'.status = "ready"
          PROVE  record'.hash = Specs(page.version)'
      <4>1. MarkPending(t) /\ record.status = "ready" /\ record'.hash = record.hash
        <5>1. CASE MarkPending(t)
          BY <1>1, <1>a, <2>1, <3>4, <5>1, PendingEffect DEF Counted, StatusLeft
        <5>2. CASE MarkIndexing(t)
          BY <1>1, <1>a, <2>1, <3>4, <5>2, IndexingCounts
        <5> QED BY <2>1, <5>1, <5>2
      <4>2. record.exists /\ record'.exists
        BY <1>a, <2>1, <4>1 DEF ExistInv, NoRecord, Counted
      <4>3. ~Carries(t)
        BY <4>1 DEF MarkPending, Carries
      <4>4. ASSUME NEW s \in Tasks, s # t, Carries(s) PROVE Carries(s)'
        BY <2>a, <3>3, <4>2, <4>4 DEF Carries
      <4>5. ~Carried
        BY <3>4, <4>3, <4>4 DEF Carried
      <4>6. record.hash = Specs(page.version)
        BY <2>a, <3>3, <3>4, <4>1, <4>5 DEF CurrentInv
      <4> QED BY <1>b, <3>3, <4>1, <4>6
    <3> QED BY <3>1, <3>2, <3>4 DEF CurrentInv
  <2>2. CASE UpdatePage(t) \/ ChangeBlocks(t)
    <3>1. Carries(t)'
      <4>1. CASE UpdatePage(t)
        <5>1. page'.version = page.version + 1
          BY <4>1, PageFacts, <1>a DEF UpdatePage, SetTitle, TypeInv, TypeOK
        <5> QED BY <1>a, <4>1, <5>1, UpdateMoves DEF Carries, Anew
      <4>2. CASE ChangeBlocks(t)
        BY <1>a, <4>2, ChangeMoves DEF Carries
      <4> QED BY <2>2, <4>1, <4>2
    <3> QED BY <3>1 DEF CurrentInv, Carried
  <2>3. CASE DeletePage(t)
    <3>1. ~page'.exists
      BY <1>a, <2>3, PageFacts DEF DeletePage, TypeInv, TypeOK
    <3> QED BY <3>1 DEF CurrentInv
  <2>4. ASSUME page' = page, blocks' = blocks,
               ~((MarkPending(t) \/ MarkIndexing(t)) /\ Counted)
        PROVE  CurrentInv'
    <3> SUFFICES ASSUME ~lost', page'.exists, ~Carried'
                 PROVE  /\ record'.status = "ready" => record'.hash = Specs(page.version)
                        /\ \A s \in Tasks : Latest(s)' => UpToDate(s)'
      BY <1>b, <2>4 DEF CurrentInv
    <3>0. /\ record'.exists = record.exists /\ record'.generation = record.generation
          /\ record'.hash = record.hash \/ Write(t)
          /\ record'.status = "ready" /\ ~Write(t) => record.status = "ready"
      <4>1. ~DeletePage(t)
        <5>1. DeletePage(t) => ~page'.exists
          BY <1>a, PageFacts DEF DeletePage, TypeInv, TypeOK
        <5> QED BY <5>1
      <4> QED BY <1>1, <1>a, <2>4, <4>1, RecordMoves DEF Rewritten
    <3>1. ~Carried
      <4>1. ~Carries(t)
        BY <1>1, <1>a, <2>4, CarrierMoves DEF Carried
      <4>2. ASSUME NEW s \in Tasks, s # t PROVE Carries(s)' = Carries(s)
        BY <2>4, <2>a, <3>0, <4>2 DEF Carries
      <4> QED BY <4>1, <4>2 DEF Carried
    <3>2. /\ record.status = "ready" => record.hash = Specs(page.version)
          /\ \A s \in Tasks : Latest(s) => UpToDate(s)
      BY <2>4, <2>a, <3>1 DEF CurrentInv
    <3>3. ASSUME NEW s \in Tasks, s # t PROVE UpToDate(s) => UpToDate(s)'
      BY <1>b, <2>4, <2>a, <3>3 DEF UpToDate
    <3>4. \A s \in Tasks : task'[s].pc \notin Working => UpToDate(s)'
      BY DEF UpToDate, Working, Reading
    <3>5. CASE Write(t)
      <4>1. ASSUME NEW s \in Tasks, Latest(s)' PROVE UpToDate(s)'
        BY <1>1, <1>a, <3>4, <3>5, <4>1, NoReader DEF TaskStep
      <4>2. ~task[t].changed => task[t].specs = Specs(page.version)
        <5>1. task[t].pc = "write" /\ Latest(t)
          BY <1>1, <1>a, <3>5, WriteEffect DEF Write, Latest
        <5> QED BY <3>2, <5>1 DEF UpToDate
      <4>3. record'.status = "ready" => record'.hash = Specs(page.version)
        BY <1>1, <1>a, <3>5, <4>2, WriteOutcome DEF Rewritten
      <4> QED BY <4>1, <4>3
    <3>6. CASE ~Write(t)
      <4>2. ASSUME NEW s \in Tasks, s # t, Latest(s)' PROVE UpToDate(s)'
        <5>1. Latest(s)
          BY <2>a, <3>0, <4>2 DEF Latest
        <5> QED BY <3>2, <3>3, <4>2, <5>1
      <4>3. ASSUME Latest(t)' PROVE UpToDate(t)'
        <5>1. CASE task'[t].pc \in Working
          <6>1. task'[t].generation = task[t].generation /\ (UpToDate(t) => UpToDate(t)')
            BY <1>1, <1>a, <2>4, <5>1, WorkMoves
          <6>2. Latest(t)
            BY <3>0, <4>3, <6>1 DEF Latest
          <6> QED BY <3>2, <6>1, <6>2
        <5> QED BY <3>4, <5>1
      <4> QED BY <3>0, <3>2, <3>6, <4>2, <4>3
    <3> QED BY <3>5, <3>6
  <2> QED
    BY <1>1, <2>1, <2>2, <2>3, <2>4
       DEF TaskStep, TimeOut, Request, Queue, DeletePageIndex, MarkPending, Start, ReadRecord,
           MarkIndexing, ReadPage, ReadContent, ReadIndex, ReadChunks, Embed, Recheck, Refresh, EnsureTable,
           Write, WriteFails, Fail, MarkFailed, SearchTable, Reindex, StartSearch, content
<1>2. CASE AgentEdit
  BY <1>2 DEF AgentEdit, CurrentInv
<1>3. CASE OthersIndex
  <2>1. /\ page' = page /\ blocks' = blocks /\ record' = record /\ task' = task /\ lost' = lost
    BY <1>3 DEF OthersIndex, content
  <2>2. Carried' = Carried
    BY <2>1 DEF Carried, Carries
  <2>3. \A t \in Tasks : Latest(t)' = Latest(t) /\ UpToDate(t)' = UpToDate(t)
    BY <1>b, <2>1 DEF Latest, UpToDate
  <2> QED BY <1>b, <2>1, <2>2, <2>3 DEF CurrentInv
<1>4. CASE Crash
  <2>1. page' = page /\ blocks' = blocks /\ record' = record
    BY <1>4 DEF Crash, content, index
  <2>2. \A t \in Tasks : UpToDate(t)'
    BY <1>4, NoTaskFields DEF Crash, UpToDate
  <2>3. ~lost' => ~lost /\ ~Carried
    BY <1>4 DEF Crash, Carried, Carries
  <2> QED BY <1>b, <2>1, <2>2, <2>3 DEF CurrentInv
<1>5. ASSUME NEW t \in Tasks, DatabaseFails(t) PROVE CurrentInv'
  <2>1. /\ task'[t].pc = "idle" /\ \A s \in Tasks : s # t => task'[s] = task[s]
        /\ page' = page /\ blocks' = blocks /\ record' = record
    BY <1>5, <1>a, PageFacts, DatabaseMoves, NoTaskFields
  <2>2. ~lost' => ~lost /\ ~Carries(t)
    BY <1>5 DEF DatabaseFails, Carries
  <2>3. \A s \in Tasks : s # t => Carries(s)' = Carries(s)
    BY <2>1 DEF Carries
  <2>4. ~lost' /\ ~Carried' => ~lost /\ ~Carried
    BY <2>2, <2>3 DEF Carried
  <2>5. UpToDate(t)'
    BY <2>1 DEF UpToDate
  <2>6. \A s \in Tasks : s # t => Latest(s)' = Latest(s) /\ UpToDate(s)' = UpToDate(s)
    BY <1>b, <2>1 DEF Latest, UpToDate
  <2> QED BY <1>b, <2>1, <2>4, <2>5, <2>6 DEF CurrentInv
<1>6. CASE UNCHANGED vars
  <2>1. /\ page' = page /\ blocks' = blocks /\ record' = record /\ task' = task /\ lost' = lost
    BY <1>6 DEF vars
  <2>2. Carried' = Carried
    BY <2>1 DEF Carried, Carries
  <2>3. \A t \in Tasks : Latest(t)' = Latest(t) /\ UpToDate(t)' = UpToDate(t)
    BY <1>b, <2>1 DEF Latest, UpToDate
  <2> QED BY <1>b, <2>1, <2>2, <2>3 DEF CurrentInv
<1> QED BY <1>1, <1>2, <1>3, <1>4, <1>5, <1>6 DEF Next

LEMMA CurrentStart == Init => CurrentInv
<1> SUFFICES ASSUME Init PROVE CurrentInv
  OBVIOUS
<1>1. PICK t \in Tasks : task[t].pc = "start" /\ task[t].version = 1 /\ Anew(task[t])
  BY FirstTask
<1>2. page.version = 1
  BY DEF Init
<1> QED BY <1>1, <1>2 DEF CurrentInv, Carried, Carries, Anew

-----------------------------------------------------------------------------
(* The task that a waiting page has                                        *)

(* A task in charge whose mark can still be written.                       *)
Busy(t) == InCharge(t) /\ (task[t].pc = "mark" => task[t].cached.exists = record.exists)

WaitInv == Waiting /\ ~lost /\ ~forgotten => \E t \in Tasks : Busy(t)

LEMMA BusyKept ==
    ASSUME NEW s \in Tasks, Busy(s), task'[s] = task[s], page' = page,
           record'.exists = record.exists, record'.generation = record.generation
    PROVE  Busy(s)'
  BY DEF Busy, InCharge

LEMMA BusyMoves ==
    ASSUME TypeInv, NEW t \in Tasks, Busy(t), record.exists, page.exists,
           page' = page, record' = record,
           \/ Queue(t) \/ Start(t) \/ ReadRecord(t) \/ ReadPage(t) \/ ReadContent(t)
           \/ ReadIndex(t) \/ ReadChunks(t) \/ Embed(t) \/ Recheck(t) \/ Refresh(t)
           \/ EnsureTable(t) \/ WriteFails(t) \/ TimeOut(t) \/ Fail(t)
    PROVE  Busy(t)'
<1>a. NoTask.pc = "idle" /\ record \in Records
  BY NoTaskFields, PageFacts
<1>1. CASE Queue(t)
  <2> DEFINE new == [NoTask EXCEPT !.pc = "start", !.version = page.version]
  <2>1. Step(t, new)
    BY <1>1 DEF Queue
  <2>2. new.pc = "start" /\ new.version = page.version /\ new.generation = NoGeneration
    BY ConstantTypes, NoTaskFields DEF TaskStates, Anew
  <2> HIDE DEF new
  <2>3. task'[t] = new
    BY <2>1, Moved
  <2> QED BY <2>2, <2>3 DEF Busy, InCharge
<1>2. CASE Start(t)
  <2>1. Goto(t, "lookup")
    BY <1>2 DEF Start, Busy, InCharge
  <2> QED BY <1>2, <2>1, Moved DEF Start, Still, Same, Busy, InCharge
<1>3. CASE ReadRecord(t)
  <2>1. task[t].pc = "lookup" /\ task[t].generation \in {NoGeneration, record.generation}
    BY <1>3 DEF ReadRecord, Busy, InCharge
  <2>2. /\ task'[t].pc = "mark" /\ task'[t].cached = record
        /\ task'[t].generation = task[t].generation
    BY <1>3, <2>1, RecordReadMoves
  <2> QED BY <2>1, <2>2 DEF Busy, InCharge
<1>4. CASE ReadPage(t)
  BY <1>4, OtherMoves DEF ReadPage, Still, Same, Busy, InCharge
<1>5. CASE ReadContent(t)
  BY <1>5, ContentMoves DEF ReadContent, Busy, InCharge
<1>6. CASE ReadIndex(t)
  <2>1. task[t].pc = "index" /\ task[t].generation = record.generation
    BY <1>6 DEF ReadIndex, Busy, InCharge
  <2>2. Goto(t, "chunks")
    BY <1>6, <2>1 DEF ReadIndex
  <2> QED BY <2>1, <2>2, Moved DEF Still, Same, Busy, InCharge
<1>7. CASE ReadChunks(t)
  BY <1>7, ChunksMoves DEF ReadChunks, Busy, InCharge
<1>8. CASE Embed(t)
  BY <1>8, EmbedMoves DEF Embed, Busy, InCharge
<1>9. CASE Recheck(t)
  BY <1>9, RecheckMoves DEF Recheck, Busy, InCharge
<1>10. CASE Refresh(t)
  <2>1. task[t].pc = "refresh" /\ task[t].generation = record.generation
    BY <1>10 DEF Refresh, Busy, InCharge
  <2>2. task'[t].pc = AfterRefresh(t) /\ task'[t].generation = task[t].generation
    <3>1. Step(t, [task[t] EXCEPT !.pc = AfterRefresh(t), !.cached = record])
      BY <1>10, <2>1 DEF Refresh
    <3> DEFINE new == [task[t] EXCEPT !.pc = AfterRefresh(t), !.cached = record]
    <3>2. new.pc = AfterRefresh(t) /\ new.generation = task[t].generation
      BY PageFacts DEF TaskStates
    <3> HIDE DEF new
    <3>3. task'[t] = new
      BY <3>1, Moved DEF new
    <3> QED BY <3>2, <3>3
  <2> QED BY <2>1, <2>2 DEF AfterRefresh, Busy, InCharge
<1>11. CASE EnsureTable(t) \/ WriteFails(t) \/ TimeOut(t)
  BY <1>11, OtherMoves DEF EnsureTable, WriteFails, TimeOut, Still, Same, Busy, InCharge
<1>12. CASE Fail(t)
  <2> DEFINE new == [NoTask EXCEPT !.pc = "mark_failed", !.cached = record]
  <2>1. task[t].pc = "fail" /\ task[t].generation = record.generation
    BY <1>12 DEF Fail, Busy, InCharge
  <2>2. Step(t, new)
    BY <1>12, <2>1 DEF Fail
  <2>3. new.pc = "mark_failed" /\ new.cached = record
    BY ConstantTypes DEF TaskStates
  <2> HIDE DEF new
  <2>4. task'[t] = new
    BY <2>2, Moved
  <2> QED BY <2>3, <2>4 DEF Busy, InCharge
<1> QED BY <1>1, <1>2, <1>3, <1>4, <1>5, <1>6, <1>7, <1>8, <1>9, <1>10, <1>11, <1>12

(* Which action leaves the page waiting when no mark is written.           *)
LEMMA WaitingMoves ==
    ASSUME GenerationInv, StatusInv, NEW t \in Tasks, ~Overtakes(t),
           MarkFailed(t) \/ SearchTable(t) \/ Write(t), Waiting'
    PROVE  SearchTable(t) /\ record' = record
<1>a. TypeInv /\ CopyInv /\ StatusOf(t)
  BY DEF GenerationInv, BaseInv, StatusInv
<1>1. ~Write(t)
  BY WriteOutcome DEF Waiting, Rewritten
<1>2. ~MarkFailed(t)
  <2> SUFFICES ASSUME MarkFailed(t) PROVE FALSE
    OBVIOUS
  <2>1. record.exists /\ Rewritten(StatusLeft("failed", task[t].cached.status), record.hash)
    BY <1>a, FailedEffect DEF Waiting
  <2>2. task[t].pc = "mark_failed" /\ task'[t].pc = "idle"
    BY <1>a, FailedEffect, NoTaskFields DEF MarkFailed
  <2>3. task[t].cached.generation = record.generation
    BY <2>2, NotOvertaking
  <2> QED BY <1>a, <2>1, <2>2, <2>3 DEF StatusOf, StatusLeft, Rewritten, Waiting
<1> QED BY <1>1, <1>2, <1>a, SearchEffect DEF Rewritten, Waiting

LEMMA WaitStep ==
    ASSUME GenerationInv, StatusInv, WaitInv, ~overtaken', [Next]_vars
    PROVE  WaitInv'
<1> SUFFICES ASSUME Waiting', ~lost', ~forgotten'
             PROVE  \E t \in Tasks : Busy(t)'
  BY DEF WaitInv
<1>a. /\ TypeInv /\ CopyInv /\ ExistInv
      /\ \A t \in Tasks : Histories(t) => ~Overtakes(t)
  BY Orderly DEF GenerationInv, BaseInv
<1>b. record.exists => page.exists
  BY <1>a DEF ExistInv, NoRecord
<1>1. ASSUME NEW t \in Tasks, TaskStep(t) \/ TimeOut(t) \/ Request(t), Histories(t)
      PROVE  \E s \in Tasks : Busy(s)'
  <2>a. /\ ~lost /\ ~forgotten /\ ~Outdated(t)
        /\ \A s \in Tasks : s # t => task'[s] = task[s]
    BY <1>1, <1>a, TaskStepTypes, RequestTypes DEF Histories
  <2>b. ASSUME page' = page, record' = record, Busy(t) => Busy(t)'
        PROVE  \E s \in Tasks : Busy(s)'
    <3>1. PICK s \in Tasks : Busy(s)
      BY <2>a, <2>b DEF WaitInv, Waiting
    <3>2. CASE s = t
      BY <2>b, <3>1, <3>2
    <3>3. CASE s # t
      BY <2>a, <2>b, <3>1, <3>3, BusyKept
    <3> QED BY <3>2, <3>3
  <2>1. CASE MarkPending(t)
    <3>1. page' = page
      BY <2>1 DEF MarkPending, content
    <3>2. CASE task'[t] = NoTask /\ record' = record
      <4>1. ~Busy(t)
        BY <2>1 DEF MarkPending, Busy, InCharge
      <4> QED BY <2>b, <3>1, <3>2, <4>1
    <3>3. CASE /\ task'[t].pc = "start" /\ task'[t].generation = record'.generation
               /\ Same(task[t], task'[t])
      <4>1. task'[t].version = page'.version
        BY <2>1, <2>a, <3>1, <3>3 DEF MarkPending, Outdated, Same
      <4> QED BY <3>3, <4>1 DEF Busy, InCharge
    <3> QED BY <1>1, <1>a, <2>1, <3>2, <3>3, PendingEffect
  <2>2. CASE MarkIndexing(t)
    <3>1. page' = page
      BY <2>2 DEF MarkIndexing, content
    <3>2. CASE record' = record /\ ~Writable(task[t].cached)
      <4>1. task[t].pc = "mark" /\ page.exists
        BY <2>2, <1>b, <3>2 DEF MarkIndexing, Waiting
      <4>2. ~Busy(t)
        BY <3>2, <4>1 DEF Busy, Writable
      <4> QED BY <2>b, <3>1, <3>2, <4>2
    <3>3. CASE task'[t].pc = "page" /\ task'[t].generation = record'.generation
      BY <3>3 DEF Busy, InCharge
    <3> QED BY <1>1, <1>a, <2>2, <3>2, <3>3, IndexingEffect
  <2>3. CASE UpdatePage(t) \/ ChangeBlocks(t)
    <3>1. CASE UpdatePage(t)
      <4>1. page'.version = page.version + 1
        BY <3>1, <1>a, PageFacts DEF UpdatePage, SetTitle, TypeInv, TypeOK
      <4> QED BY <1>a, <3>1, <4>1, UpdateMoves DEF Busy, InCharge, Anew
    <3>2. CASE ChangeBlocks(t)
      BY <1>a, <3>2, ChangeMoves DEF Busy, InCharge
    <3> QED BY <2>3, <3>1, <3>2
  <2>4. CASE DeletePage(t)
    BY <2>4 DEF DeletePage, NoRecord, Waiting
  <2>5. CASE MarkFailed(t) \/ SearchTable(t) \/ Write(t)
    <3>1. SearchTable(t) /\ record' = record
      BY <1>1, <1>a, <2>5, WaitingMoves
    <3>2. page' = page /\ ~Busy(t)
      BY <3>1 DEF SearchTable, content, Busy, InCharge
    <3> QED BY <2>b, <3>1, <3>2
  <2>6. CASE DeletePageIndex(t) \/ Reindex(t) \/ StartSearch(t)
    <3>1. page' = page /\ record' = record /\ ~Busy(t)
      BY <2>6 DEF DeletePageIndex, Reindex, StartSearch, content, index, Busy, InCharge
    <3> QED BY <2>b, <3>1
  <2>7. CASE \/ Queue(t) \/ Start(t) \/ ReadRecord(t) \/ ReadPage(t) \/ ReadContent(t)
             \/ ReadIndex(t) \/ ReadChunks(t) \/ Embed(t) \/ Recheck(t) \/ Refresh(t)
             \/ EnsureTable(t) \/ WriteFails(t) \/ TimeOut(t) \/ Fail(t)
    <3>1. page' = page /\ record' = record
      BY <2>7 DEF Queue, Start, ReadRecord, ReadPage, ReadContent, ReadIndex, ReadChunks,
                  Embed, Recheck, Refresh, EnsureTable, WriteFails, TimeOut, Fail,
                  content, index
    <3>2. record.exists /\ page.exists
      BY <1>b, <3>1 DEF Waiting
    <3>3. Busy(t) => Busy(t)'
      BY <1>a, <2>7, <3>1, <3>2, BusyMoves
    <3> QED BY <2>b, <3>1, <3>3
  <2> QED BY <1>1, <2>1, <2>2, <2>3, <2>4, <2>5, <2>6, <2>7 DEF TaskStep, Request
<1>2. ASSUME page' = page, record' = record, ~lost, ~forgotten,
             \A s \in Tasks : Busy(s) => task'[s] = task[s]
      PROVE  \E s \in Tasks : Busy(s)'
  <2>1. PICK s \in Tasks : Busy(s)
    BY <1>2 DEF WaitInv, Waiting
  <2> QED BY <1>2, <2>1, BusyKept
<1>3. CASE AgentEdit
  BY <1>3 DEF AgentEdit
<1>4. CASE OthersIndex \/ UNCHANGED vars
  <2>1. /\ page' = page /\ record' = record /\ task' = task /\ lost' = lost
        /\ forgotten' = forgotten
    BY <1>4 DEF OthersIndex, content, vars
  <2> QED BY <1>2, <2>1
<1>5. CASE Crash
  <2>1. page' = page /\ record' = record /\ ~lost /\ ~forgotten
    BY <1>5 DEF Crash, content, index
  <2>2. \A s \in Tasks : ~Busy(s)
    BY <1>5 DEF Crash, Busy, InCharge
  <2> QED BY <1>2, <2>1, <2>2
<1>6. ASSUME NEW t \in Tasks, DatabaseFails(t) PROVE \E s \in Tasks : Busy(s)'
  <2>1. /\ \A s \in Tasks : s # t => task'[s] = task[s]
        /\ page' = page /\ record' = record
    BY <1>6, <1>a, PageFacts, DatabaseMoves
  <2>2. ~lost /\ ~forgotten /\ ~Busy(t)
    BY <1>6 DEF DatabaseFails, Busy, InCharge
  <2> QED BY <1>2, <2>1, <2>2
<1> QED BY <1>1, <1>3, <1>4, <1>5, <1>6 DEF Next

LEMMA WaitStart == Init => WaitInv
  BY DEF Init, NoRecord, Waiting, WaitInv

IndexedInv ==
    /\ ChunkInv /\ AsideInv
    /\ overtaken \/ (StatusInv /\ HashInv /\ IndexInv /\ ReadyInv /\ CurrentInv /\ WaitInv)

LEMMA IndexesAreKept == Spec => []IndexedInv
<1>1. Init => ChunkInv
  <2>1. Init => TextInv
    BY NothingFacts DEF Init, TextInv
  <2> QED BY <2>1, TypeStart, CopyStart, ExistStart, TicketStart, KnownStart, FoundStart
          DEF ChunkInv, BaseInv
<1>2. Init => IndexedInv
  BY <1>1, StatusStart, HashStart, AsideStart, IndexStart, ReadyStart, CurrentStart,
     WaitStart
     DEF IndexedInv
<1>3. ASSUME IndexedInv, ChunkInv', [Next]_vars PROVE IndexedInv'
  <2>1. BaseInv /\ TypeInv /\ AsideInv
    BY <1>3 DEF IndexedInv, ChunkInv, BaseInv
  <2>2. AsideInv'
    BY <1>3, <2>1, AsideStep
  <2>3. ASSUME ~overtaken'
        PROVE  /\ StatusInv' /\ HashInv' /\ IndexInv' /\ ReadyInv' /\ CurrentInv'
               /\ WaitInv'
    <3>1. ~overtaken
      BY <1>3, <2>1, <2>3, Orderly
    <3>2. /\ GenerationInv /\ FoundInv /\ StatusInv /\ HashInv /\ IndexInv /\ ReadyInv
          /\ CurrentInv /\ WaitInv
      BY <1>3, <2>1, <3>1 DEF IndexedInv, ChunkInv, GenerationInv
    <3>3. StatusInv' /\ HashInv'
      BY <1>3, <2>3, <3>2, StatusStep, HashStep
    <3>4. IndexInv' /\ ReadyInv'
      BY <1>3, <2>1, <2>3, <3>2, IndexStep, ReadyStep
    <3>5. CurrentInv' /\ WaitInv'
      BY <1>3, <2>3, <3>2, CurrentStep, WaitStep
    <3> QED BY <3>3, <3>4, <3>5
  <2> QED BY <1>3, <2>2, <2>3 DEF IndexedInv
<1> QED BY <1>2, <1>3, ChunksAreKept, PTL DEF Spec

(* When no task is left, a page shown as ready is found by its present     *)
(* title and blocks, with vectors of the configured model, and by nothing  *)
(* else; whatever edits, reindexing, failures, searches and restarts came  *)
(* before, short of an agent's edit, a lost task, another's dropped table  *)
(* or a session that wrote over a generation it had not seen.              *)
THEOREM ReadyPagesAreCurrent == Spec => []ReadyIsCurrent
<1>1. IndexedInv => ReadyIsCurrent
  <2> SUFFICES ASSUME IndexedInv, Quiet, ~lost, ~stripped, ~overtaken, config = model,
                      page.exists, record.status = "ready"
               PROVE  /\ Searchable = LiveBlocks \union {Title}
                      /\ \A k \in Searchable : chunks[k].text = Specs(page.version)[k]
    BY DEF ReadyIsCurrent
  <2>1. TypeInv /\ ~Dropped /\ ~Carried
    BY DEF IndexedInv, ChunkInv, BaseInv, Quiet, Dropped, Carried, Carries
  <2>2. record.hash = Specs(page.version)
    BY <2>1 DEF IndexedInv, CurrentInv
  <2>3. DOMAIN record.hash = Live
    BY <2>1, <2>2, SpecsFacts, PageFacts DEF Live
  <2>4. /\ DOMAIN chunks \subseteq Live
        /\ \A k \in Live : /\ k \in DOMAIN chunks /\ chunks[k].status = "ready"
                           /\ chunks[k].text = record.hash[k]
    BY <2>3 DEF IndexedInv, ReadyInv
  <2>5. \A k \in Live : chunks[k].model = model /\ k \in DOMAIN vectors
    BY <2>1, <2>4 DEF IndexedInv, IndexInv
  <2> QED BY <2>2, <2>4, <2>5 DEF Searchable, Live
<1> QED BY <1>1, IndexesAreKept, PTL

(* A page shown as waiting for its index has a task in charge of it: one   *)
(* that works under the record's generation, holds a generation nobody has *)
(* written over, or will take the next one.  The steps that break this are *)
(* exactly the named ones: a task lost, a failure not reported, a retry    *)
(* that an edit outdated, a session that wrote over another's generation.  *)
THEOREM WaitingHaveTasks == Spec => []WaitingHasTask
<1>1. IndexedInv => WaitingHasTask
  BY DEF IndexedInv, WaitInv, Busy, WaitingHasTask
<1> QED BY <1>1, IndexesAreKept, PTL

=============================================================================

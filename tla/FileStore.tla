------------------------------ MODULE FileStore ------------------------------
(***************************************************************************)
(* Files: their rows in the database, their contents on disk and their     *)
(* text index.  services/file_service.py, storage/local_storage.py,        *)
(* services/file_index_service.py, the endpoints of api/files.py and the   *)
(* background task index_file of api/knowledge_tasks.py.                   *)
(*                                                                         *)
(* A handler is one request and then the task it has queued, which runs    *)
(* after the response.  The database and the disk do not commit together:  *)
(* contents are stored before their row and deleted after it.              *)
(***************************************************************************)
EXTENDS Naturals

CONSTANTS
    Handlers,       \* concurrent requests
    Files,          \* storage keys, fresh uuids and so never reused
    NoFile,         \* "this request has no file yet"
    MaxGeneration,  \* generation from which nobody asks for a retry (bound)
    Environment     \* what may go wrong, see below

(* "database": statements and commits may fail (database is locked);       *)
(* "disk": deleting a content may fail; "overtake": others may commit      *)
(* between a session's read of a row and its write, a statement later.     *)
EnvironmentKinds == {"crash", "database", "disk", "agent", "overtake"}

ASSUME FilesAssumption == NoFile \notin Files
ASSUME GenerationAssumption == MaxGeneration \in Nat
ASSUME KindsAssumption == Environment \subseteq EnvironmentKinds

VARIABLES
    rows,       \* the FileMetadata rows
    disk,       \* what the storage directory holds of each file
    request,    \* where each request or task is and what it has loaded
    littered,   \* history: files whose content an accident may have left
    forgotten   \* history: files whose index task an accident has lost

vars == <<rows, disk, request, littered, forgotten>>

Statuses == {"pending", "indexing", "ready", "failed", "metadata_only"}
Rows == [exists: BOOLEAN, status: Statuses, generation: Nat]
NoRow == [exists |-> FALSE, status |-> "metadata_only", generation |-> 0]

(* "temporary": the hidden file that store_upload writes to.               *)
Contents == {"unused", "temporary", "stored", "gone"}

UploadPoints == {"receive", "insert"}
(* Points of index_file: its three sessions read, then write.              *)
IndexPoints == {"mark", "marking", "find", "read", "refresh", "write",
                "fail", "failing"}
Points == {"idle", "delete", "unlink", "retry"} \union UploadPoints \union IndexPoints
Requests == [pc: Points, file: Files \union {NoFile}, generation: Nat, cached: Rows]
NoRequest == [pc |-> "idle", file |-> NoFile, generation |-> 0, cached |-> NoRow]

TypeOK ==
    /\ rows \in [Files -> Rows]
    /\ disk \in [Files -> Contents]
    /\ request \in [Handlers -> Requests]
    /\ \A h \in Handlers : request[h].pc # "idle" => request[h].file \in Files
    /\ littered \in SUBSET Files
    /\ forgotten \in SUBSET Files

Init ==
    /\ rows = [f \in Files |-> NoRow]
    /\ disk = [f \in Files |-> "unused"]
    /\ request = [h \in Handlers |-> NoRequest]
    /\ littered = {}
    /\ forgotten = {}

-----------------------------------------------------------------------------
File(h) == request[h].file
Row(h) == rows[request[h].file]

Begin(h, f, point) ==
    /\ request[h].pc = "idle"
    /\ request' = [request EXCEPT ![h].pc = point, ![h].file = f]
Goto(h, point) == request' = [request EXCEPT ![h].pc = point]
Answer(h) == request' = [request EXCEPT ![h] = NoRequest]

(* Load the row and go on, or answer if there is none to go on with.       *)
LoadIf(h, found, point) ==
    request' = [request EXCEPT ![h] = IF found
                                      THEN [@ EXCEPT !.pc = point, !.cached = Row(h)]
                                      ELSE NoRequest]

(* A flush writes the columns that differ from what the session loaded.    *)
Flush(h, new) ==
    LET old == request[h].cached
    IN  rows' = [rows EXCEPT ![File(h)] =
            [exists |-> TRUE,
             status |-> IF new.status = old.status THEN @.status ELSE new.status,
             generation |-> IF new.generation = old.generation THEN @.generation
                            ELSE new.generation]]

(* The content, or the temporary file, is removed; if the disk refuses it  *)
(* stays, and nobody comes back for it.                                    *)
RemoveContent(h) ==
    \/ /\ disk' = [disk EXCEPT ![File(h)] = "gone"]
       /\ UNCHANGED littered
    \/ /\ "disk" \in Environment
       /\ littered' = littered \union {File(h)}
       /\ UNCHANGED disk

-----------------------------------------------------------------------------
(* Uploads: FileService.upload_file under run_mutation                     *)

StartUpload(h, f) ==
    /\ disk[f] = "unused"
    /\ Begin(h, f, "receive")
    /\ disk' = [disk EXCEPT ![f] = "temporary"]
    /\ UNCHANGED <<rows, littered, forgotten>>

(* The upload is complete: the temporary file is renamed.                  *)
StoreUpload(h) ==
    /\ request[h].pc = "receive"
    /\ disk' = [disk EXCEPT ![File(h)] = "stored"]
    /\ Goto(h, "insert")
    /\ UNCHANGED <<rows, littered, forgotten>>

(* Too large, or an error of the disk: the temporary file is unlinked.     *)
UploadFails(h) ==
    /\ request[h].pc = "receive"
    /\ RemoveContent(h)
    /\ Answer(h)
    /\ UNCHANGED <<rows, forgotten>>

(* The row is committed; a file that can be searched is queued for         *)
(* indexing with generation 1.                                             *)
CommitUpload(h, searchable) ==
    /\ request[h].pc = "insert"
    /\ rows' = [rows EXCEPT ![File(h)] =
                   [exists |-> TRUE,
                    status |-> IF searchable THEN "pending" ELSE "metadata_only",
                    generation |-> IF searchable THEN 1 ELSE 0]]
    /\ IF searchable
       THEN request' = [request EXCEPT ![h].pc = "mark", ![h].generation = 1]
       ELSE Answer(h)
    /\ UNCHANGED <<disk, littered, forgotten>>

(* Faulty variant: without on_failure.                                     *)
RollbackUploadOnly(h) ==
    /\ request[h].pc = "insert"
    /\ Answer(h)
    /\ UNCHANGED <<rows, disk, littered, forgotten>>

(* The insert fails (its page is gone) and upload_file deletes the         *)
(* content, or the commit fails and the endpoint's cleanup does.  Its own  *)
(* error (StorageError) goes to the client, and the content stays.         *)
RollbackUpload(h) ==
    /\ request[h].pc = "insert"
    /\ RemoveContent(h)
    /\ Answer(h)
    /\ UNCHANGED <<rows, forgotten>>

(* An approved create_file: content, row and audit row in one step of the  *)
(* agent.  If the insert fails the content is deleted; a later failure, or *)
(* the tool's timeout, rolls the row back and leaves the content.          *)
AgentCreate(h, f) ==
    /\ "agent" \in Environment
    /\ request[h].pc = "idle" /\ disk[f] = "unused"
    /\ \/ /\ disk' = [disk EXCEPT ![f] = "stored"]
          /\ rows' = [rows EXCEPT ![f] = [exists |-> TRUE, status |-> "ready",
                                          generation |-> 1]]
          /\ UNCHANGED littered
       \/ /\ disk' = [disk EXCEPT ![f] = "stored"]
          /\ littered' = littered \union {f}
          /\ UNCHANGED rows
       \/ /\ disk' = [disk EXCEPT ![f] = "gone"]
          /\ UNCHANGED <<rows, littered>>
    /\ UNCHANGED <<request, forgotten>>

-----------------------------------------------------------------------------
(* delete_file_metadata                                                    *)

StartDelete(h, f) ==
    /\ rows[f].exists
    /\ Begin(h, f, "delete")
    /\ UNCHANGED <<rows, disk, littered, forgotten>>

(* Faulty variant: takes the row read before for the row deleted.          *)
DeleteRowUnchecked(h) ==
    /\ request[h].pc = "delete"
    /\ rows' = [rows EXCEPT ![File(h)] = NoRow]
    /\ Goto(h, "unlink")
    /\ UNCHANGED <<disk, littered, forgotten>>

(* Faulty variant: deletes the content first.                              *)
DeleteContentFirst(h) ==
    /\ request[h].pc = "delete" /\ Row(h).exists
    /\ disk' = [disk EXCEPT ![File(h)] = "gone"]
    /\ Answer(h)
    /\ UNCHANGED <<rows, littered, forgotten>>

(* delete_by_id and the commit.                                            *)
DeleteRow(h) ==
    /\ request[h].pc = "delete" /\ Row(h).exists
    /\ rows' = [rows EXCEPT ![File(h)] = NoRow]
    /\ Goto(h, "unlink")
    /\ UNCHANGED <<disk, littered, forgotten>>

(* Somebody else has deleted it, or the database refuses.                  *)
DeleteRefused(h) ==
    /\ request[h].pc = "delete"
    /\ ~Row(h).exists \/ "database" \in Environment
    /\ Answer(h)
    /\ UNCHANGED <<rows, disk, littered, forgotten>>

(* cleanup_file after the commit; its failure is logged.                   *)
Unlink(h) ==
    /\ request[h].pc = "unlink"
    /\ RemoveContent(h)
    /\ Answer(h)
    /\ UNCHANGED <<rows, forgotten>>

-----------------------------------------------------------------------------
(* retry_file_index: mark_pending                                          *)

StartRetry(h, f) ==
    /\ request[h].pc = "idle"
    /\ rows[f].exists /\ rows[f].generation < MaxGeneration
    /\ request' = [request EXCEPT ![h] = [NoRequest EXCEPT !.pc = "retry", !.file = f,
                                                           !.cached = rows[f]]]
    /\ UNCHANGED <<rows, disk, littered, forgotten>>

MarkPending(h) ==
    LET next == request[h].cached.generation + 1
    IN  /\ request[h].pc = "retry" /\ Row(h).exists
        /\ request[h].cached.status # "metadata_only"
        /\ Flush(h, [request[h].cached EXCEPT !.status = "pending", !.generation = next])
        /\ request' = [request EXCEPT ![h] = [NoRequest EXCEPT !.pc = "mark", !.file = File(h),
                                                               !.generation = next]]
        /\ forgotten' = forgotten \ {File(h)}
        /\ UNCHANGED <<disk, littered>>

(* The row is gone, the file cannot be searched, or the database refuses.  *)
RetryRefused(h) ==
    /\ request[h].pc = "retry"
    /\ \/ ~Row(h).exists \/ request[h].cached.status = "metadata_only"
       \/ "database" \in Environment
    /\ Answer(h)
    /\ UNCHANGED <<rows, disk, littered, forgotten>>

-----------------------------------------------------------------------------
(* index_file                                                              *)

Current(h) == Row(h).exists /\ Row(h).generation = request[h].generation

(* mark_indexing, in a first session ...                                   *)
ReadForMark(h) ==
    /\ request[h].pc = "mark"
    /\ LoadIf(h, Current(h), "marking")
    /\ UNCHANGED <<rows, disk, littered, forgotten>>

MarkIndexing(h) ==
    /\ request[h].pc = "marking" /\ Row(h).exists
    /\ Flush(h, [request[h].cached EXCEPT !.status = "indexing"])
    /\ request' = [request EXCEPT ![h].pc = "find", ![h].cached = NoRow]
    /\ UNCHANGED <<disk, littered, forgotten>>

(* ... whose failure ends the task and leaves the status as it is.         *)
MarkFails(h) ==
    /\ request[h].pc = "marking"
    /\ ~Row(h).exists \/ "database" \in Environment
    /\ forgotten' = forgotten \union {File(h)}
    /\ Answer(h)
    /\ UNCHANGED <<rows, disk, littered>>

(* index_file of the service, in a second session.                         *)
FindFile(h) ==
    /\ request[h].pc = "find"
    /\ LoadIf(h, Current(h), "read")
    /\ UNCHANGED <<rows, disk, littered, forgotten>>

(* The content is read in a thread.                                        *)
ReadContent(h) ==
    /\ request[h].pc = "read" /\ disk[File(h)] = "stored"
    /\ Goto(h, "refresh")
    /\ UNCHANGED <<rows, disk, littered, forgotten>>

(* Too large, missing, no UTF-8 text, or not in time.                      *)
IndexFails(h) ==
    /\ request[h].pc \in {"read", "refresh", "write"}
    /\ request' = [request EXCEPT ![h].pc = "fail", ![h].cached = NoRow]
    /\ UNCHANGED <<rows, disk, littered, forgotten>>

(* Faulty variant: keeps the row it has loaded.                            *)
RefreshNothing(h) ==
    /\ request[h].pc = "refresh"
    /\ Goto(h, "write")
    /\ UNCHANGED <<rows, disk, littered, forgotten>>

(* refresh() of a row that is gone fails like the rest (IndexFails).       *)
Refresh(h) ==
    /\ request[h].pc = "refresh" /\ Row(h).exists
    /\ LoadIf(h, Current(h), "write")
    /\ UNCHANGED <<rows, disk, littered, forgotten>>

WriteText(h) ==
    /\ request[h].pc = "write" /\ Row(h).exists
    /\ Flush(h, [request[h].cached EXCEPT !.status = "ready"])
    /\ Answer(h)
    /\ UNCHANGED <<disk, littered, forgotten>>

(* mark_failed, in a third session ...                                     *)
ReadForFailure(h) ==
    /\ request[h].pc = "fail"
    /\ LoadIf(h, Current(h), "failing")
    /\ UNCHANGED <<rows, disk, littered, forgotten>>

(* Faulty variant: forgets to write the status.                            *)
MarkFailedSilently(h) ==
    /\ request[h].pc = "failing" /\ Row(h).exists
    /\ Answer(h)
    /\ UNCHANGED <<rows, disk, littered, forgotten>>

MarkFailed(h) ==
    /\ request[h].pc = "failing" /\ Row(h).exists
    /\ Flush(h, [request[h].cached EXCEPT !.status = "failed"])
    /\ Answer(h)
    /\ UNCHANGED <<disk, littered, forgotten>>

(* ... whose failure leaves "indexing".                                    *)
FailureNotMarked(h) ==
    /\ request[h].pc = "failing"
    /\ ~Row(h).exists \/ "database" \in Environment
    /\ forgotten' = forgotten \union {File(h)}
    /\ Answer(h)
    /\ UNCHANGED <<rows, disk, littered>>

-----------------------------------------------------------------------------
(* A restart forgets the requests and the tasks.                           *)
Working(points) == {File(h) : h \in {g \in Handlers : request[g].pc \in points}}

Crash ==
    /\ "crash" \in Environment
    /\ request' = [h \in Handlers |-> NoRequest]
    /\ littered' = littered \union Working(UploadPoints \union {"unlink"})
    /\ forgotten' = forgotten \union Working(IndexPoints)
    /\ UNCHANGED <<rows, disk>>

TaskStep(h) ==
    \/ ReadForMark(h) \/ MarkIndexing(h) \/ MarkFails(h)
    \/ FindFile(h) \/ ReadContent(h) \/ Refresh(h) \/ WriteText(h) \/ IndexFails(h)
    \/ ReadForFailure(h) \/ MarkFailed(h) \/ FailureNotMarked(h)

RequestStep(h) ==
    \/ StoreUpload(h) \/ UploadFails(h) \/ RollbackUpload(h)
    \/ \E searchable \in BOOLEAN : CommitUpload(h, searchable)
    \/ DeleteRow(h) \/ DeleteRefused(h) \/ Unlink(h)
    \/ MarkPending(h) \/ RetryRefused(h)

NewRequest(h) ==
    \E f \in Files :
        StartUpload(h, f) \/ AgentCreate(h, f) \/ StartDelete(h, f) \/ StartRetry(h, f)

(* No other request has read a row that it is about to write.              *)
Free(h) ==
    \/ "overtake" \in Environment
    \/ \A g \in Handlers \ {h} :
          request[g].pc \notin {"retry", "marking", "write", "failing"}

Step(h) == Free(h) /\ (TaskStep(h) \/ RequestStep(h))

Next ==
    \/ \E h \in Handlers : Step(h) \/ (Free(h) /\ NewRequest(h))
    \/ Crash

Spec == Init /\ [][Next]_vars

(* The event loop runs requests and background tasks to their end; reading *)
(* a content is bounded by knowledge_index_timeout_seconds.  Strong        *)
(* fairness, for a step that only waits until others have written is not   *)
(* held up by anything in the code.                                        *)
FairSpec == Spec /\ \A h \in Handlers : SF_vars(Step(h))
-----------------------------------------------------------------------------
(* Properties                                                              *)

(* Every row has its content: whatever fails or crashes, nobody is offered *)
(* a file whose download finds nothing.                                    *)
RowHasContent == \A f \in Files : rows[f].exists => disk[f] = "stored"

(* Every content, and every temporary file, belongs to a row or to a       *)
(* request that is going to finish or to remove it, but for accidents:     *)
(* a crash, a delete that the disk refuses (of a deleted file, or in the   *)
(* cleanup of a failed upload), a rolled back tool of the agent.           *)
ContentIsOwned ==
    \A f \in Files \ littered :
        disk[f] \in {"temporary", "stored"} =>
            rows[f].exists \/ f \in Working(UploadPoints \union {"unlink"})

(* Of several requests that delete a file only one removes the content,    *)
(* and it finds it: cleanup_file never fails with "content is missing".    *)
UnlinkFindsContent ==
    \A h \in Handlers : request[h].pc = "unlink" =>
        /\ disk[File(h)] = "stored"
        /\ \A g \in Handlers \ {h} : request[g].pc = "unlink" => File(g) # File(h)

(* A task writes only while its generation is the file's: a task that a    *)
(* retry has replaced never changes the status the new one reports.        *)
OldTaskWritesNothing ==
    [][\A h \in Handlers :
          request[h].pc \in IndexPoints /\ request'[h] # request[h] /\ rows' # rows
              => rows[File(h)].generation = request[h].generation]_vars

(* A file that waits for its index gets it, or is shown as failed, or is   *)
(* deleted, unless a restart or the database has ended its task.           *)
Waiting(f) == rows[f].exists /\ rows[f].status \in {"pending", "indexing"}

FileIndexingEnds == \A f \in Files : Waiting(f) ~> ~Waiting(f) \/ f \in forgotten
=============================================================================

--------------------------- MODULE FileStoreProofs ---------------------------
(***************************************************************************)
(* Proofs about FileStore, for any files and requests and whatever goes    *)
(* wrong: types, rows that have their contents, contents that have an      *)
(* owner, deletions that find what they delete, and index tasks that stop  *)
(* when a retry has replaced them.                                         *)
(***************************************************************************)
EXTENDS FileStore, TLAPS

(* Points at which a request alone is in charge of a content that has no   *)
(* row: it is being written or about to be removed.                        *)
Owners == UploadPoints \union {"unlink"}

Owned ==
    \A h \in Handlers :
        /\ request[h].pc \in Owners => ~Row(h).exists
        /\ request[h].pc = "receive" => disk[File(h)] = "temporary"
        /\ request[h].pc \in {"insert", "unlink"} => disk[File(h)] = "stored"

OwnersAlone ==
    \A g, h \in Handlers :
        request[g].pc \in Owners /\ request[h].pc \in Owners /\ File(g) = File(h) => g = h

StoreInv == TypeOK /\ RowHasContent /\ Owned /\ OwnersAlone /\ ContentIsOwned

-----------------------------------------------------------------------------
(* Types                                                                   *)

LEMMA NoRequestType ==
    /\ NoRow \in Rows
    /\ NoRequest \in Requests /\ NoRequest.pc = "idle"
  BY DEF NoRequest, Requests, NoRow, Rows, Statuses, Points

(* What a request becomes is a request about a file.                       *)
LEMMA RequestUpdates ==
    ASSUME NEW r \in Requests, NEW p \in Points, NEW f \in Files,
           NEW n \in Nat, NEW row \in Rows
    PROVE  /\ [r EXCEPT !.pc = p] \in Requests
           /\ [r EXCEPT !.pc = p, !.file = f] \in Requests
           /\ [r EXCEPT !.pc = p, !.generation = n] \in Requests
           /\ [r EXCEPT !.pc = p, !.cached = row] \in Requests
           /\ [r EXCEPT !.pc = p, !.file = f, !.cached = row] \in Requests
           /\ [r EXCEPT !.pc = p, !.file = f, !.generation = n] \in Requests
  BY DEF Requests

LEMMA RowUpdates ==
    ASSUME NEW row \in Rows, NEW s \in Statuses, NEW n \in Nat
    PROVE  /\ [row EXCEPT !.status = s] \in Rows
           /\ [row EXCEPT !.status = s, !.generation = n] \in Rows
  BY DEF Rows

LEMMA FlushType ==
    ASSUME TypeOK, NEW h \in Handlers, request[h].pc # "idle", NEW new \in Rows,
           Flush(h, new)
    PROVE  /\ rows' \in [Files -> Rows]
           /\ \A f \in Files : f # File(h) => rows'[f] = rows[f]
           /\ rows'[File(h)].exists
  BY DEF TypeOK, Flush, File, Rows

(* The request after a step of h, if it is well-formed.                    *)
LEMMA RequestType ==
    ASSUME TypeOK, NEW h \in Handlers, NEW r \in Requests,
           r.pc # "idle" => r.file \in Files,
           request' = [request EXCEPT ![h] = r]
    PROVE  /\ request' \in [Handlers -> Requests]
           /\ \A g \in Handlers : request'[g].pc # "idle" => request'[g].file \in Files
           /\ request'[h] = r
           /\ \A g \in Handlers : g # h => request'[g] = request[g]
  BY DEF TypeOK

(* A step of h alone ...                                                   *)
Only(h) ==
    /\ request' \in [Handlers -> Requests]
    /\ \A g \in Handlers : request'[g].pc # "idle" => request'[g].file \in Files
    /\ \A g \in Handlers : g # h => request'[g] = request[g]

(* ... that stays with its file until it answers.                          *)
Moves(h, points) ==
    /\ Only(h)
    /\ request'[h].pc \in points
    /\ request'[h].pc # "idle" => request'[h].file = request[h].file

LEMMA GotoMoves ==
    ASSUME TypeOK, NEW h \in Handlers, request[h].pc # "idle", NEW p \in Points, Goto(h, p)
    PROVE  Moves(h, {p})
<1> DEFINE r == [request[h] EXCEPT !.pc = p]
<1>1. request[h] \in Requests /\ request[h].file \in Files
  BY DEF TypeOK
<1>2. r \in Requests /\ r.pc = p /\ r.file = request[h].file
  BY <1>1, RequestUpdates DEF Requests
<1>3. request' = [request EXCEPT ![h] = r]
  BY DEF Goto
<1> HIDE DEF r
<1> QED BY <1>1, <1>2, <1>3, RequestType DEF Moves, Only

LEMMA AnswerMoves ==
    ASSUME TypeOK, NEW h \in Handlers, Answer(h)
    PROVE  Moves(h, {"idle"})
  BY NoRequestType, RequestType DEF Answer, Moves, Only

LEMMA LoadMoves ==
    ASSUME TypeOK, NEW h \in Handlers, request[h].pc # "idle", NEW p \in Points,
           NEW found \in BOOLEAN, LoadIf(h, found, p)
    PROVE  Moves(h, {"idle", p})
<1> DEFINE r == [request[h] EXCEPT !.pc = p, !.cached = Row(h)]
<1>1. request[h] \in Requests /\ request[h].file \in Files /\ Row(h) \in Rows
  BY DEF TypeOK, Row
<1>2. r \in Requests /\ r.pc = p /\ r.file = request[h].file
  BY <1>1, RequestUpdates DEF Requests
<1>3. CASE found
  <2>1. request' = [request EXCEPT ![h] = r]
    BY <1>3 DEF LoadIf
  <2> HIDE DEF r
  <2> QED BY <1>1, <1>2, <2>1, RequestType DEF Moves, Only
<1>4. CASE ~found
  BY <1>4, AnswerMoves DEF LoadIf, Answer, Moves
<1> QED BY <1>3, <1>4

-----------------------------------------------------------------------------
(* Steps                                                                   *)

(* A step of a request that owns no content and neither creates nor        *)
(* deletes a row disturbs nothing.                                         *)
LEMMA PlainStep ==
    ASSUME StoreInv, NEW h \in Handlers, Only(h),
           request[h].pc \notin Owners, request'[h].pc \notin Owners,
           rows' \in [Files -> Rows], \A f \in Files : rows'[f].exists = rows[f].exists,
           disk' = disk, littered' = littered, forgotten' \in SUBSET Files
    PROVE  StoreInv'
<1>1. TypeOK'
  BY DEF StoreInv, TypeOK, Only
<1>2. \A g \in Handlers : request'[g].pc \in Owners =>
          /\ g # h /\ request'[g] = request[g] /\ File(g)' = File(g) /\ File(g) \in Files
          /\ Row(g)'.exists = Row(g).exists
  <2> SUFFICES ASSUME NEW g \in Handlers, request'[g].pc \in Owners
               PROVE  /\ g # h /\ request'[g] = request[g]
                      /\ File(g)' = File(g) /\ File(g) \in Files
                      /\ Row(g)'.exists = Row(g).exists
    OBVIOUS
  <2>1. g # h /\ request'[g] = request[g] /\ request[g].pc # "idle"
    BY DEF Only, Owners, UploadPoints
  <2>2. File(g) \in Files
    BY <2>1 DEF StoreInv, TypeOK, File
  <2> QED BY <2>1, <2>2 DEF File, Row
<1>3. \A g \in Handlers : request[g].pc \in Owners => request'[g] = request[g]
  BY DEF Only
<1>4. Owned'
  BY <1>2 DEF StoreInv, Owned, Owners, UploadPoints
<1>5. OwnersAlone'
  BY <1>2 DEF StoreInv, OwnersAlone
<1>6. RowHasContent'
  BY DEF StoreInv, RowHasContent
<1>7. ContentIsOwned'
  BY <1>3 DEF StoreInv, ContentIsOwned, Working, Owners, File
<1> QED BY <1>1, <1>4, <1>5, <1>6, <1>7 DEF StoreInv

(* Where a step of h leads.                                                *)
LEMMA PointNames ==
    /\ Owners = {"receive", "insert", "unlink"} /\ "idle" \notin Owners
    /\ Points = {"idle", "delete", "unlink", "retry", "receive", "insert", "mark",
                 "marking", "find", "read", "refresh", "write", "fail", "failing"}
    /\ IndexPoints \cap Owners = {}
  BY DEF Owners, UploadPoints, Points, IndexPoints

LEMMA FlushKeepsRows ==
    ASSUME StoreInv, NEW h \in Handlers, request[h].pc # "idle", Row(h).exists,
           NEW new \in Rows, Flush(h, new)
    PROVE  rows' \in [Files -> Rows] /\ \A f \in Files : rows'[f].exists = rows[f].exists
<1>1. TypeOK /\ File(h) \in Files /\ rows[File(h)].exists
  BY DEF StoreInv, TypeOK, File, Row
<1>2. /\ rows' \in [Files -> Rows] /\ rows'[File(h)].exists
      /\ \A f \in Files : f # File(h) => rows'[f] = rows[f]
  BY <1>1, FlushType
<1>3. rows'[File(h)].exists = rows[File(h)].exists
  BY <1>1, <1>2 DEF TypeOK, Rows
<1> QED BY <1>2, <1>3

(* What a session has loaded, with another status or generation, is a row. *)
LEMMA CachedType ==
    ASSUME StoreInv, NEW h \in Handlers, NEW s \in Statuses
    PROVE  /\ [request[h].cached EXCEPT !.status = s] \in Rows
           /\ [request[h].cached EXCEPT !.status = s,
                  !.generation = request[h].cached.generation + 1] \in Rows
           /\ request[h].cached.generation + 1 \in Nat
<1>1. request[h].cached \in Rows
  BY DEF StoreInv, TypeOK, Requests
<1>2. request[h].cached.generation + 1 \in Nat
  BY <1>1 DEF Rows
<1> QED BY <1>1, <1>2, RowUpdates

(* Steps that change no row.                                               *)
LEMMA ReadStep ==
    ASSUME StoreInv, NEW h \in Handlers, Only(h),
           request[h].pc \notin Owners, request'[h].pc \notin Owners,
           UNCHANGED <<rows, disk, littered>>, forgotten' \in SUBSET Files
    PROVE  StoreInv'
<1>1. rows' \in [Files -> Rows] /\ \A f \in Files : rows'[f].exists = rows[f].exists
  BY DEF StoreInv, TypeOK
<1> QED BY <1>1, PlainStep

LEMMA BeginStep ==
    ASSUME StoreInv, NEW h \in Handlers, NEW f \in Files,
           StartDelete(h, f) \/ StartRetry(h, f)
    PROVE  StoreInv'
<1> TypeOK /\ request[h] \in Requests
  BY DEF StoreInv, TypeOK
<1>1. ASSUME NEW p \in {"delete", "retry"}, NEW r \in Requests, r.pc = p, r.file = f,
             request' = [request EXCEPT ![h] = r], request[h].pc = "idle",
             UNCHANGED <<rows, disk, littered, forgotten>>
      PROVE  StoreInv'
  <2>1. Only(h) /\ request'[h].pc = p
    BY <1>1, RequestType DEF Only
  <2>2. forgotten' \in SUBSET Files
    BY <1>1 DEF TypeOK
  <2> QED BY <1>1, <2>1, <2>2, ReadStep, PointNames
<1>2. CASE StartDelete(h, f)
  <2> DEFINE r == [request[h] EXCEPT !.pc = "delete", !.file = f]
  <2>1. r \in Requests /\ r.pc = "delete" /\ r.file = f
    BY PointNames DEF Requests
  <2>2. request' = [request EXCEPT ![h] = r] /\ request[h].pc = "idle"
    BY <1>2 DEF StartDelete, Begin
  <2> HIDE DEF r
  <2> QED BY <1>1, <1>2, <2>1, <2>2 DEF StartDelete
<1>3. CASE StartRetry(h, f)
  <2> DEFINE r == [NoRequest EXCEPT !.pc = "retry", !.file = f, !.cached = rows[f]]
  <2>1. rows[f] \in Rows
    BY DEF TypeOK
  <2>2. r \in Requests /\ r.pc = "retry" /\ r.file = f
    BY <2>1, PointNames, NoRequestType DEF Requests
  <2>3. request' = [request EXCEPT ![h] = r] /\ request[h].pc = "idle"
    BY <1>3 DEF StartRetry
  <2> HIDE DEF r
  <2> QED BY <1>1, <1>3, <2>2, <2>3 DEF StartRetry
<1> QED BY <1>2, <1>3

LEMMA RefusedStep ==
    ASSUME StoreInv, NEW h \in Handlers, Answer(h), request[h].pc \notin Owners,
           UNCHANGED <<rows, disk, littered>>, forgotten' \in SUBSET Files
    PROVE  StoreInv'
<1>1. Only(h) /\ request'[h].pc = "idle"
  BY AnswerMoves DEF StoreInv, Moves
<1> QED BY <1>1, ReadStep, PointNames

LEMMA RefusedSteps ==
    ASSUME StoreInv, NEW h \in Handlers,
           DeleteRefused(h) \/ RetryRefused(h) \/ MarkFails(h) \/ FailureNotMarked(h)
    PROVE  StoreInv'
<1>1. Answer(h) /\ UNCHANGED <<rows, disk, littered>>
  BY DEF DeleteRefused, RetryRefused, MarkFails, FailureNotMarked
<1>2. request[h].pc \in {"delete", "retry", "marking", "failing"}
  BY DEF DeleteRefused, RetryRefused, MarkFails, FailureNotMarked
<1>3. File(h) \in Files /\ forgotten \in SUBSET Files
  BY <1>2 DEF StoreInv, TypeOK, File
<1>4. forgotten' \in SUBSET Files
  BY <1>3 DEF DeleteRefused, RetryRefused, MarkFails, FailureNotMarked
<1> QED BY <1>1, <1>2, <1>4, RefusedStep, PointNames

LEMMA LoadSteps ==
    ASSUME StoreInv, NEW h \in Handlers,
           ReadForMark(h) \/ FindFile(h) \/ Refresh(h) \/ ReadForFailure(h)
    PROVE  StoreInv'
<1>1. PICK p \in {"marking", "read", "write", "failing"} : LoadIf(h, Current(h), p)
  BY DEF ReadForMark, FindFile, Refresh, ReadForFailure
<1>2. /\ request[h].pc \in {"mark", "find", "refresh", "fail"}
      /\ UNCHANGED <<rows, disk, littered, forgotten>>
  BY DEF ReadForMark, FindFile, Refresh, ReadForFailure
<1>3. Current(h) \in BOOLEAN
  <2>1. File(h) \in Files
    BY <1>2 DEF StoreInv, TypeOK, File
  <2>2. Row(h) \in Rows
    BY <2>1 DEF StoreInv, TypeOK, File, Row
  <2> QED BY <2>2 DEF Current, Rows
<1>4. Only(h) /\ request'[h].pc \in {"idle", p}
  BY <1>1, <1>2, <1>3, LoadMoves, PointNames DEF StoreInv, Moves
<1>5. forgotten' \in SUBSET Files
  BY <1>2 DEF StoreInv, TypeOK
<1> QED BY <1>2, <1>4, <1>5, ReadStep, PointNames

LEMMA TaskSteps ==
    ASSUME StoreInv, NEW h \in Handlers, ReadContent(h) \/ IndexFails(h)
    PROVE  StoreInv'
<1> DEFINE r == [request[h] EXCEPT !.pc = "fail", !.cached = NoRow]
<1>1. /\ TypeOK /\ request[h] \in Requests
      /\ request[h].pc \in {"read", "refresh", "write"} /\ request[h].file \in Files
      /\ UNCHANGED <<rows, disk, littered, forgotten>>
  BY DEF ReadContent, IndexFails, StoreInv, TypeOK
<1>2. CASE ReadContent(h)
  BY <1>1, <1>2, GotoMoves, PointNames, ReadStep DEF ReadContent, Moves, TypeOK
<1>3. CASE IndexFails(h)
  <2>1. r \in Requests /\ r.pc = "fail" /\ r.file = request[h].file
    BY <1>1, PointNames, NoRequestType DEF Requests
  <2>2. request' = [request EXCEPT ![h] = r]
    BY <1>3 DEF IndexFails
  <2> HIDE DEF r
  <2>3. Only(h) /\ request'[h].pc = "fail"
    BY <1>1, <2>1, <2>2, RequestType DEF Only
  <2>4. forgotten' \in SUBSET Files
    BY <1>1 DEF TypeOK
  <2> QED BY <1>1, <2>3, <2>4, ReadStep, PointNames
<1> QED BY <1>2, <1>3

(* Steps that write a row which exists.                                    *)
LEMMA FlushStep ==
    ASSUME StoreInv, NEW h \in Handlers, Only(h),
           request[h].pc \notin Owners \union {"idle"}, request'[h].pc \notin Owners,
           Row(h).exists, NEW new \in Rows, Flush(h, new),
           UNCHANGED <<disk, littered>>, forgotten' \in SUBSET Files
    PROVE  StoreInv'
<1>1. rows' \in [Files -> Rows] /\ \A f \in Files : rows'[f].exists = rows[f].exists
  BY FlushKeepsRows
<1> QED BY <1>1, PlainStep

LEMMA FlushSteps ==
    ASSUME StoreInv, NEW h \in Handlers,
           MarkPending(h) \/ MarkIndexing(h) \/ WriteText(h) \/ MarkFailed(h)
    PROVE  StoreInv'
<1> {"pending", "indexing", "ready", "failed"} \subseteq Statuses
  BY DEF Statuses
<1>1. /\ request[h].pc \in {"retry", "marking", "write", "failing"} /\ Row(h).exists
      /\ UNCHANGED <<disk, littered>>
  BY DEF MarkPending, MarkIndexing, WriteText, MarkFailed
<1>2. TypeOK /\ request[h] \in Requests /\ File(h) \in Files /\ File(h) = request[h].file
  BY <1>1 DEF StoreInv, TypeOK, File
<1>3. forgotten' \in SUBSET Files
  BY <1>2 DEF MarkPending, MarkIndexing, WriteText, MarkFailed, TypeOK
<1>4. \E new \in Rows : Flush(h, new)
  BY CachedType DEF MarkPending, MarkIndexing, WriteText, MarkFailed
<1>5. Only(h) /\ request'[h].pc \in {"idle", "mark", "find"}
  <2>1. CASE MarkPending(h)
    <3> DEFINE n == request[h].cached.generation + 1
               r == [NoRequest EXCEPT !.pc = "mark", !.file = File(h), !.generation = n]
    <3>1. n \in Nat
      BY CachedType DEF Statuses
    <3> HIDE DEF n
    <3>2. r \in Requests /\ r.pc = "mark" /\ r.file = File(h)
      BY <1>2, <3>1, PointNames, NoRequestType DEF Requests
    <3>3. request' = [request EXCEPT ![h] = r]
      BY <2>1 DEF MarkPending, n
    <3> HIDE DEF r
    <3> QED BY <1>2, <3>2, <3>3, RequestType DEF Only
  <2>2. CASE MarkIndexing(h)
    <3> DEFINE r == [request[h] EXCEPT !.pc = "find", !.cached = NoRow]
    <3>1. r \in Requests /\ r.pc = "find" /\ r.file = File(h)
      BY <1>2, PointNames, NoRequestType DEF Requests
    <3>2. request' = [request EXCEPT ![h] = r]
      BY <2>2 DEF MarkIndexing
    <3> HIDE DEF r
    <3> QED BY <1>2, <3>1, <3>2, RequestType DEF Only
  <2>3. CASE WriteText(h) \/ MarkFailed(h)
    BY <1>2, <2>3, AnswerMoves DEF WriteText, MarkFailed, Moves
  <2> QED BY <2>1, <2>2, <2>3
<1> QED BY <1>1, <1>3, <1>4, <1>5, FlushStep, PointNames

(* A step of h about f, when no other request is in charge of f.           *)
LEMMA ContentStep ==
    ASSUME StoreInv, NEW h \in Handlers, NEW f \in Files, Only(h),
           rows' \in [Files -> Rows], disk' \in [Files -> Contents],
           littered' \in SUBSET Files, littered \subseteq littered',
           forgotten' \in SUBSET Files,
           \A e \in Files : e # f =>
               rows'[e].exists = rows[e].exists /\ disk'[e] = disk[e],
           \A g \in Handlers : g # h /\ request[g].pc \in Owners => File(g) # f,
           request[h].pc \in Owners => File(h) = f,
           request'[h].pc \in Owners => request'[h].file = f /\ ~rows'[f].exists,
           request'[h].pc = "receive" => disk'[f] = "temporary",
           request'[h].pc \in {"insert", "unlink"} => disk'[f] = "stored",
           rows'[f].exists => disk'[f] = "stored",
           disk'[f] \in {"temporary", "stored"} =>
               rows'[f].exists \/ request'[h].pc \in Owners \/ f \in littered'
    PROVE  StoreInv'
<1>1. TypeOK'
  BY DEF StoreInv, TypeOK, Only
<1>2. ASSUME NEW g \in Handlers, g # h, request'[g].pc \in Owners
      PROVE  /\ request'[g] = request[g] /\ File(g)' = File(g)
             /\ File(g) \in Files /\ File(g) # f
             /\ Row(g)'.exists = Row(g).exists /\ disk'[File(g)] = disk[File(g)]
  <2>1. request'[g] = request[g] /\ request[g].pc # "idle"
    BY <1>2, PointNames DEF Only
  <2>2. File(g) \in Files /\ File(g) # f
    BY <1>2, <2>1 DEF StoreInv, TypeOK, File
  <2> QED BY <2>1, <2>2 DEF File, Row
<1>3. Owned'
  <2> SUFFICES ASSUME NEW g \in Handlers
               PROVE  /\ request'[g].pc \in Owners => ~Row(g)'.exists
                      /\ request'[g].pc = "receive" => disk'[File(g)'] = "temporary"
                      /\ request'[g].pc \in {"insert", "unlink"}
                             => disk'[File(g)'] = "stored"
    BY DEF Owned
  <2>1. CASE g = h
    BY <2>1, PointNames DEF File, Row
  <2>2. CASE g # h
    BY <1>2, <2>2, PointNames DEF StoreInv, Owned
  <2> QED BY <2>1, <2>2
<1>4. OwnersAlone'
  <2> SUFFICES ASSUME NEW e \in Handlers, NEW g \in Handlers,
                      request'[e].pc \in Owners, request'[g].pc \in Owners,
                      File(e)' = File(g)'
               PROVE  e = g
    BY DEF OwnersAlone
  <2>1. request'[h].pc \in Owners => File(h)' = f
    BY DEF File
  <2> QED BY <1>2, <2>1 DEF StoreInv, OwnersAlone
<1>5. RowHasContent'
  BY DEF StoreInv, RowHasContent
<1>6. ContentIsOwned'
  <2> SUFFICES ASSUME NEW e \in Files, e \notin littered', disk'[e] \in {"temporary", "stored"},
                      ~rows'[e].exists
               PROVE  \E g \in Handlers : request'[g].pc \in Owners /\ request'[g].file = e
    BY DEF ContentIsOwned, Working, Owners, File
  <2>1. CASE e = f
    BY <2>1
  <2>2. CASE e # f
    <3>1. PICK g \in Handlers : request[g].pc \in Owners /\ request[g].file = e
      BY <2>2 DEF StoreInv, ContentIsOwned, Working, Owners, File
    <3>2. g # h
      BY <2>2, <3>1 DEF File
    <3> QED BY <3>1, <3>2 DEF Only
  <2> QED BY <2>1, <2>2
<1> QED BY <1>1, <1>3, <1>4, <1>5, <1>6 DEF StoreInv

(* What an owner knows of its file.                                        *)
LEMMA OwnerFacts ==
    ASSUME StoreInv, NEW h \in Handlers, request[h].pc \in Owners
    PROVE  /\ TypeOK /\ request[h].pc # "idle"
           /\ File(h) \in Files /\ request[h].file = File(h) /\ ~rows[File(h)].exists
           /\ \A g \in Handlers : g # h /\ request[g].pc \in Owners => File(g) # File(h)
  BY PointNames DEF StoreInv, TypeOK, File, Row, Owned, OwnersAlone

(* Nobody is in charge of a file that has a row or has not been used.      *)
LEMMA UnownedFile ==
    ASSUME StoreInv, NEW f \in Files, rows[f].exists \/ disk[f] = "unused"
    PROVE  \A g \in Handlers : request[g].pc \in Owners => File(g) # f
  BY PointNames DEF StoreInv, Owned, Row, File

LEMMA UploadStep ==
    ASSUME StoreInv, NEW h \in Handlers, StoreUpload(h)
    PROVE  StoreInv'
<1>1. request[h].pc = "receive" /\ UNCHANGED <<rows, littered, forgotten>>
  BY DEF StoreUpload
<1>2. /\ TypeOK /\ request[h].pc # "idle"
      /\ File(h) \in Files /\ request[h].file = File(h) /\ ~rows[File(h)].exists
      /\ \A g \in Handlers : g # h /\ request[g].pc \in Owners => File(g) # File(h)
  BY <1>1, OwnerFacts, PointNames
<1>3. Only(h) /\ request'[h].pc = "insert" /\ request'[h].file = File(h)
  BY <1>2, GotoMoves, PointNames DEF StoreUpload, Moves
<1>4. /\ disk' \in [Files -> Contents] /\ disk'[File(h)] = "stored"
      /\ \A e \in Files : e # File(h) => disk'[e] = disk[e]
  BY <1>2 DEF StoreUpload, TypeOK, Contents
<1> HIDE DEF File
<1> QED BY <1>1, <1>2, <1>3, <1>4, ContentStep, PointNames DEF TypeOK

LEMMA RemovalSteps ==
    ASSUME StoreInv, NEW h \in Handlers,
           UploadFails(h) \/ RollbackUpload(h) \/ Unlink(h)
    PROVE  StoreInv'
<1>1. /\ request[h].pc \in {"receive", "insert", "unlink"} /\ UNCHANGED <<rows, forgotten>>
      /\ RemoveContent(h) /\ Answer(h)
  BY DEF UploadFails, RollbackUpload, Unlink
<1>2. /\ TypeOK /\ request[h].pc # "idle"
      /\ File(h) \in Files /\ request[h].file = File(h) /\ ~rows[File(h)].exists
      /\ \A g \in Handlers : g # h /\ request[g].pc \in Owners => File(g) # File(h)
  BY <1>1, OwnerFacts, PointNames
<1>3. Only(h) /\ request'[h].pc = "idle"
  BY <1>1, <1>2, AnswerMoves DEF Moves
<1>4. /\ disk' \in [Files -> Contents] /\ littered' \in SUBSET Files
      /\ littered \subseteq littered'
      /\ \A e \in Files : e # File(h) => disk'[e] = disk[e]
      /\ disk'[File(h)] = "gone" \/ File(h) \in littered'
  BY <1>1, <1>2 DEF RemoveContent, TypeOK, Contents
<1> QED BY <1>1, <1>2, <1>3, <1>4, ContentStep, PointNames DEF TypeOK

LEMMA CommitStep ==
    ASSUME StoreInv, NEW h \in Handlers, NEW searchable \in BOOLEAN,
           CommitUpload(h, searchable)
    PROVE  StoreInv'
<1> DEFINE r == [request[h] EXCEPT !.pc = "mark", !.generation = 1]
<1>1. request[h].pc = "insert" /\ UNCHANGED <<disk, littered, forgotten>>
  BY DEF CommitUpload
<1>2. /\ TypeOK /\ request[h] \in Requests
      /\ File(h) \in Files /\ request[h].file = File(h) /\ disk[File(h)] = "stored"
      /\ \A g \in Handlers : g # h /\ request[g].pc \in Owners => File(g) # File(h)
  BY <1>1, OwnerFacts, PointNames DEF StoreInv, Owned, TypeOK
<1>3. /\ rows' \in [Files -> Rows] /\ rows'[File(h)].exists
      /\ \A e \in Files : e # File(h) => rows'[e].exists = rows[e].exists
  BY <1>2 DEF CommitUpload, TypeOK, Rows, Statuses
<1>4. Only(h) /\ request'[h].pc \in {"idle", "mark"}
  <2>1. CASE searchable
    <3>1. r \in Requests /\ r.pc = "mark" /\ r.file = File(h)
      BY <1>2, PointNames DEF Requests
    <3>2. request' = [request EXCEPT ![h] = r]
      BY <2>1 DEF CommitUpload
    <3> HIDE DEF r
    <3> QED BY <1>2, <3>1, <3>2, RequestType DEF Only
  <2>2. CASE ~searchable
    BY <1>2, <2>2, AnswerMoves DEF CommitUpload, Moves
  <2> QED BY <2>1, <2>2
<1> QED BY <1>1, <1>2, <1>3, <1>4, ContentStep, PointNames DEF TypeOK

LEMMA NewContentSteps ==
    ASSUME StoreInv, NEW h \in Handlers, NEW f \in Files,
           StartUpload(h, f) \/ AgentCreate(h, f)
    PROVE  StoreInv'
<1> DEFINE r == [request[h] EXCEPT !.pc = "receive", !.file = f]
<1>1. /\ TypeOK /\ request[h] \in Requests /\ request[h].pc = "idle" /\ disk[f] = "unused"
      /\ forgotten' = forgotten
  BY DEF StartUpload, AgentCreate, Begin, StoreInv, TypeOK
<1>2. /\ \A g \in Handlers : request[g].pc \in Owners => File(g) # f
      /\ ~rows[f].exists
  BY <1>1, UnownedFile DEF StoreInv, RowHasContent
<1>3. CASE StartUpload(h, f)
  <2>1. r \in Requests /\ r.pc = "receive" /\ r.file = f
    BY <1>1, PointNames DEF Requests
  <2>2. request' = [request EXCEPT ![h] = r] /\ UNCHANGED <<rows, littered>>
    BY <1>3 DEF StartUpload, Begin
  <2> HIDE DEF r
  <2>3. Only(h) /\ request'[h].pc = "receive" /\ request'[h].file = f
    BY <1>1, <2>1, <2>2, RequestType DEF Only
  <2>4. /\ disk' \in [Files -> Contents] /\ disk'[f] = "temporary"
        /\ \A e \in Files : e # f => disk'[e] = disk[e]
    BY <1>1, <1>3 DEF StartUpload, TypeOK, Contents
  <2> QED BY <1>1, <1>2, <2>2, <2>3, <2>4, ContentStep, PointNames DEF TypeOK
<1>4. CASE AgentCreate(h, f)
  <2>1. Only(h) /\ request'[h].pc = "idle"
    BY <1>1, <1>4 DEF AgentCreate, Only, TypeOK
  <2>2. /\ rows' \in [Files -> Rows] /\ disk' \in [Files -> Contents]
        /\ littered' \in SUBSET Files /\ littered \subseteq littered'
        /\ \A e \in Files : e # f =>
               rows'[e].exists = rows[e].exists /\ disk'[e] = disk[e]
        /\ \/ disk'[f] = "stored" /\ (rows'[f].exists \/ f \in littered')
           \/ disk'[f] = "gone" /\ rows' = rows
    <3> DEFINE row == [exists |-> TRUE, status |-> "ready", generation |-> 1]
    <3>1. row \in Rows /\ row.exists
      BY DEF Rows, Statuses
    <3>2. \/ /\ disk' = [disk EXCEPT ![f] = "stored"]
             /\ rows' = [rows EXCEPT ![f] = row]
             /\ littered' = littered
          \/ /\ disk' = [disk EXCEPT ![f] = "stored"]
             /\ littered' = littered \union {f}
             /\ rows' = rows
          \/ /\ disk' = [disk EXCEPT ![f] = "gone"]
             /\ rows' = rows
             /\ littered' = littered
      BY <1>4 DEF AgentCreate
    <3> HIDE DEF row
    <3> QED BY <1>1, <3>1, <3>2 DEF TypeOK, Contents
  <2> QED BY <1>1, <1>2, <2>1, <2>2, ContentStep, PointNames DEF TypeOK
<1> QED BY <1>3, <1>4

LEMMA DeletionStep ==
    ASSUME StoreInv, NEW h \in Handlers, DeleteRow(h)
    PROVE  StoreInv'
<1>1. /\ TypeOK /\ request[h].pc = "delete" /\ request[h].file = File(h)
      /\ File(h) \in Files /\ rows[File(h)].exists
      /\ UNCHANGED <<disk, littered, forgotten>>
  BY DEF DeleteRow, StoreInv, TypeOK, File, Row
<1>2. /\ disk[File(h)] = "stored"
      /\ \A g \in Handlers : request[g].pc \in Owners => File(g) # File(h)
  BY <1>1, UnownedFile DEF StoreInv, RowHasContent
<1>3. Only(h) /\ request'[h].pc = "unlink" /\ request'[h].file = File(h)
  BY <1>1, GotoMoves, PointNames DEF DeleteRow, Moves
<1>4. /\ rows' \in [Files -> Rows] /\ ~rows'[File(h)].exists
      /\ \A e \in Files : e # File(h) => rows'[e] = rows[e]
  BY <1>1, NoRequestType DEF DeleteRow, TypeOK, NoRow
<1> QED BY <1>1, <1>2, <1>3, <1>4, ContentStep, PointNames DEF TypeOK

LEMMA CrashStep ==
    ASSUME StoreInv, Crash
    PROVE  StoreInv'
<1>1. /\ TypeOK /\ UNCHANGED <<rows, disk>> /\ request' = [h \in Handlers |-> NoRequest]
      /\ littered' = littered \union Working(Owners)
      /\ forgotten' = forgotten \union Working(IndexPoints)
  BY DEF Crash, StoreInv, Owners
<1>2. Working(Owners) \subseteq Files /\ Working(IndexPoints) \subseteq Files
  BY <1>1, PointNames DEF Working, File, TypeOK, IndexPoints
<1>3. TypeOK'
  BY <1>1, <1>2, NoRequestType DEF TypeOK
<1>4. Owned' /\ OwnersAlone'
  BY <1>1, NoRequestType, PointNames DEF Owned, OwnersAlone
<1>5. RowHasContent'
  BY <1>1 DEF StoreInv, RowHasContent
<1>6. ContentIsOwned'
  BY <1>1 DEF StoreInv, ContentIsOwned, Owners
<1> QED BY <1>3, <1>4, <1>5, <1>6 DEF StoreInv

LEMMA StoreInit == Init => StoreInv
<1> SUFFICES ASSUME Init PROVE StoreInv
  OBVIOUS
<1>1. TypeOK
  BY NoRequestType DEF Init, TypeOK, Contents
<1>2. Owned /\ OwnersAlone
  BY NoRequestType, PointNames DEF Init, Owned, OwnersAlone
<1>3. RowHasContent /\ ContentIsOwned
  BY DEF Init, RowHasContent, ContentIsOwned, NoRow
<1> QED BY <1>1, <1>2, <1>3 DEF StoreInv

LEMMA StoreStep == StoreInv /\ [Next]_vars => StoreInv'
<1> SUFFICES ASSUME StoreInv, [Next]_vars PROVE StoreInv'
  OBVIOUS
<1>1. CASE UNCHANGED vars
  BY <1>1 DEF vars, StoreInv, TypeOK, RowHasContent, Owned, OwnersAlone, ContentIsOwned,
              Working, File, Row
<1>2. CASE Crash
  BY <1>2, CrashStep
<1>3. ASSUME NEW h \in Handlers, TaskStep(h)
      PROVE  StoreInv'
  BY <1>3, LoadSteps, TaskSteps, FlushSteps, RefusedSteps DEF TaskStep
<1>4. ASSUME NEW h \in Handlers, RequestStep(h)
      PROVE  StoreInv'
  BY <1>4, UploadStep, RemovalSteps, CommitStep, DeletionStep, FlushSteps, RefusedSteps
     DEF RequestStep
<1>5. ASSUME NEW h \in Handlers, NewRequest(h)
      PROVE  StoreInv'
  BY <1>5, NewContentSteps, BeginStep DEF NewRequest
<1> QED BY <1>1, <1>2, <1>3, <1>4, <1>5 DEF Next, Step

-----------------------------------------------------------------------------
(* Every variable of FileStore keeps its type.                             *)
THEOREM TypeCorrect == Spec => []TypeOK
<1>1. StoreInv => TypeOK
  BY DEF StoreInv
<1> QED BY <1>1, StoreInit, StoreStep, PTL DEF Spec

(* A file that the database knows has its content on disk: upload_file     *)
(* stores before it inserts, delete_file_metadata unlinks after it commits.*)
THEOREM RowsHaveContent == Spec => []RowHasContent
<1>1. StoreInv => RowHasContent
  BY DEF StoreInv
<1> QED BY <1>1, StoreInit, StoreStep, PTL DEF Spec

(* Only accidents leave content behind: every error path of an upload, and *)
(* every deletion, removes what it is in charge of.                        *)
THEOREM ContentsAreOwned == Spec => []ContentIsOwned
<1>1. StoreInv => ContentIsOwned
  BY DEF StoreInv
<1> QED BY <1>1, StoreInit, StoreStep, PTL DEF Spec

(* One of several deletions removes the content, and finds it.             *)
THEOREM DeletionsFindContent == Spec => []UnlinkFindsContent
<1>1. StoreInv => UnlinkFindsContent
  BY PointNames DEF StoreInv, Owned, OwnersAlone, UnlinkFindsContent
<1> QED BY <1>1, StoreInit, StoreStep, PTL DEF Spec

-----------------------------------------------------------------------------
(* Old tasks                                                               *)

(* Points at which a task is about to write the row it has loaded.         *)
WritePoints == {"marking", "write", "failing"}

(* A task that is about to write is the row's newest task.                 *)
WritersAreCurrent == \A h \in Handlers : request[h].pc \in WritePoints => Current(h)

(* Every step but a restart is one request's.                            *)
LEMMA StepIsOnes ==
    ASSUME TypeOK, NEW h \in Handlers, TaskStep(h) \/ RequestStep(h) \/ NewRequest(h)
    PROVE  \A g \in Handlers : g # h => request'[g] = request[g]
<1> request \in [Handlers -> Requests]
  BY DEF TypeOK
<1>1. ASSUME TaskStep(h)
      PROVE  \A g \in Handlers : g # h => request'[g] = request[g]
  <2>1. \/ \E p \in Points : Goto(h, p)
        \/ Answer(h)
        \/ \E p \in Points : LoadIf(h, Current(h), p)
        \/ MarkIndexing(h) \/ IndexFails(h)
    BY <1>1, PointNames DEF TaskStep, ReadForMark, MarkFails, FindFile, ReadContent, Refresh,
           WriteText, ReadForFailure, MarkFailed, FailureNotMarked
  <2> QED BY <2>1 DEF Goto, Answer, LoadIf, MarkIndexing, IndexFails
<1>2. ASSUME RequestStep(h)
      PROVE  \A g \in Handlers : g # h => request'[g] = request[g]
  <2>1. \/ \E p \in Points : Goto(h, p)
        \/ Answer(h)
        \/ \E searchable \in BOOLEAN : CommitUpload(h, searchable)
        \/ MarkPending(h)
    BY <1>2, PointNames DEF RequestStep, StoreUpload, UploadFails, RollbackUpload, DeleteRow,
           DeleteRefused, Unlink, RetryRefused
  <2> QED BY <2>1 DEF Goto, Answer, CommitUpload, MarkPending
<1>3. ASSUME NewRequest(h)
      PROVE  \A g \in Handlers : g # h => request'[g] = request[g]
  BY <1>3 DEF NewRequest, StartUpload, StartDelete, Begin, StartRetry, AgentCreate
<1> QED BY <1>1, <1>2, <1>3

(* A task comes to such a point only by reading the row and finding its    *)
(* own generation there, and writes it only from there.                    *)
LEMMA OwnStep ==
    ASSUME TypeOK, NEW h \in Handlers, TaskStep(h) \/ RequestStep(h) \/ NewRequest(h)
    PROVE  /\ request'[h].pc \in WritePoints => Current(h)'
           /\ request[h].pc \in IndexPoints /\ rows' # rows => request[h].pc \in WritePoints
<1> DEFINE Good == /\ request'[h].pc \in WritePoints => Current(h)'
                   /\ request[h].pc \in IndexPoints /\ rows' # rows
                         => request[h].pc \in WritePoints
<1> request \in [Handlers -> Requests] /\ request[h] \in Requests
  BY DEF TypeOK
<1> USE DEF WritePoints
<1>1. CASE ReadForMark(h) \/ FindFile(h) \/ Refresh(h) \/ ReadForFailure(h)
  <2>1. PICK p \in Points : LoadIf(h, Current(h), p)
    BY <1>1, PointNames DEF ReadForMark, FindFile, Refresh, ReadForFailure
  <2>2. rows' = rows
    BY <1>1 DEF ReadForMark, FindFile, Refresh, ReadForFailure
  <2>3. CASE Current(h)
    <3>1. request'[h] = [request[h] EXCEPT !.pc = p, !.cached = Row(h)]
      BY <2>1, <2>3 DEF LoadIf
    <3>2. request'[h].file = request[h].file /\ request'[h].generation = request[h].generation
      BY <3>1 DEF Requests
    <3> QED BY <2>2, <2>3, <3>2 DEF Current, Row
  <2>4. CASE ~Current(h)
    BY <2>1, <2>2, <2>4, NoRequestType DEF LoadIf
  <2> QED BY <2>3, <2>4
<1>2. CASE Answer(h) /\ (request[h].pc \in WritePoints \/ request[h].pc \notin IndexPoints)
  BY <1>2, NoRequestType DEF Answer
<1>3. CASE MarkIndexing(h) \/ IndexFails(h) \/ ReadContent(h)
  BY <1>3 DEF MarkIndexing, IndexFails, ReadContent, Goto, Requests
<1>4. CASE \/ StoreUpload(h) \/ DeleteRow(h) \/ MarkPending(h)
           \/ \E searchable \in BOOLEAN : CommitUpload(h, searchable)
  <2>1. request[h].pc \notin IndexPoints
    BY <1>4 DEF StoreUpload, DeleteRow, MarkPending, CommitUpload, IndexPoints
  <2> DEFINE Safe == request'[h].pc \in {"insert", "unlink", "mark", "idle"}
  <2>2. ASSUME \E p \in {"insert", "unlink"} : Goto(h, p)  PROVE  Safe
    BY <2>2 DEF Goto, Requests
  <2>3. ASSUME Answer(h)  PROVE  Safe
    BY <2>3, NoRequestType DEF Answer
  <2>4. ASSUME MarkPending(h)  PROVE  Safe
    BY <2>4, NoRequestType DEF MarkPending, Requests
  <2>5. ASSUME NEW searchable \in BOOLEAN, CommitUpload(h, searchable)  PROVE  Safe
    <3>1. \/ Answer(h)
          \/ request' = [request EXCEPT ![h].pc = "mark", ![h].generation = 1]
      BY <2>5 DEF CommitUpload
    <3>2. CASE request' = [request EXCEPT ![h].pc = "mark", ![h].generation = 1]
      BY <3>2 DEF Requests
    <3> QED BY <2>3, <3>1, <3>2
  <2>6. Safe
    BY <1>4, <2>2, <2>4, <2>5 DEF StoreUpload, DeleteRow
  <2> QED BY <2>1, <2>6
<1>5. CASE NewRequest(h)
  <2>1. request[h].pc \notin IndexPoints
    BY <1>5 DEF NewRequest, StartUpload, StartDelete, Begin, StartRetry, AgentCreate, IndexPoints
  <2> DEFINE Safe == request'[h].pc \in {"receive", "delete", "retry", "idle"}
  <2>2. ASSUME NEW f \in Files, NEW p \in {"receive", "delete"}, Begin(h, f, p)  PROVE  Safe
    BY <2>2 DEF Begin, Requests
  <2>3. ASSUME NEW f \in Files, StartRetry(h, f)  PROVE  Safe
    BY <2>3, NoRequestType DEF StartRetry, Requests
  <2>4. ASSUME NEW f \in Files, AgentCreate(h, f)  PROVE  Safe
    BY <2>4 DEF AgentCreate
  <2>5. Safe
    BY <1>5, <2>2, <2>3, <2>4 DEF NewRequest, StartUpload, StartDelete
  <2> QED BY <2>1, <2>5
<1>6. CASE TaskStep(h)
  <2>1. \/ ReadForMark(h) \/ FindFile(h) \/ Refresh(h) \/ ReadForFailure(h)
        \/ MarkIndexing(h) \/ IndexFails(h) \/ ReadContent(h)
        \/ Answer(h) /\ request[h].pc \in WritePoints
    BY <1>6 DEF TaskStep, MarkFails, WriteText, MarkFailed, FailureNotMarked
  <2> QED BY <1>1, <1>2, <1>3, <2>1
<1>7. CASE RequestStep(h)
  <2>1. \/ StoreUpload(h) \/ DeleteRow(h) \/ MarkPending(h)
        \/ \E searchable \in BOOLEAN : CommitUpload(h, searchable)
        \/ Answer(h) /\ request[h].pc \notin IndexPoints
    BY <1>7 DEF RequestStep, UploadFails, RollbackUpload, DeleteRefused, Unlink, RetryRefused,
                IndexPoints
  <2> QED BY <1>2, <1>4, <2>1
<1> QED BY <1>5, <1>6, <1>7

(* While a task is about to write nobody else can make its row a newer     *)
(* task's: that is what "overtake" would allow.                            *)
LEMMA OthersWait ==
    ASSUME TypeOK, "overtake" \notin Environment, NEW h \in Handlers, NEW g \in Handlers,
           g # h, Free(h)
    PROVE  request[g].pc \notin WritePoints
  BY DEF Free, WritePoints

LEMMA WritersInit == Init => WritersAreCurrent
  BY NoRequestType DEF Init, WritersAreCurrent, WritePoints

LEMMA WritersStep ==
    ASSUME TypeOK, WritersAreCurrent, [Next]_vars, "overtake" \notin Environment
    PROVE  WritersAreCurrent'
<1>1. CASE UNCHANGED vars
  BY <1>1 DEF vars, WritersAreCurrent, Current, Row
<1>2. CASE Crash
  BY <1>2, NoRequestType DEF Crash, WritersAreCurrent, WritePoints
<1>3. ASSUME NEW h \in Handlers, Free(h), TaskStep(h) \/ RequestStep(h) \/ NewRequest(h)
      PROVE  WritersAreCurrent'
  <2> SUFFICES ASSUME NEW g \in Handlers, request'[g].pc \in WritePoints
               PROVE  Current(g)'
    BY DEF WritersAreCurrent
  <2>1. CASE g = h
    BY <1>3, <2>1, OwnStep
  <2>2. CASE g # h
    BY <1>3, <2>2, StepIsOnes, OthersWait
  <2> QED BY <2>1, <2>2
<1> QED BY <1>1, <1>2, <1>3 DEF Next, Step

LEMMA OnlyCurrentWrite ==
    ASSUME TypeOK, WritersAreCurrent, [Next]_vars, "overtake" \notin Environment,
           NEW h \in Handlers,
           request[h].pc \in IndexPoints, request'[h] # request[h], rows' # rows
    PROVE  rows[File(h)].generation = request[h].generation
<1>1. ~UNCHANGED vars /\ ~Crash
  BY DEF vars, Crash
<1>2. PICK g \in Handlers : TaskStep(g) \/ RequestStep(g) \/ NewRequest(g)
  BY <1>1 DEF Next, Step
<1>3. g = h
  BY <1>2, StepIsOnes
<1>4. request[h].pc \in WritePoints
  BY <1>2, <1>3, OwnStep
<1> QED BY <1>4 DEF WritersAreCurrent, Current, Row, File

(* A task that a retry has replaced never writes the row: each of its      *)
(* three sessions looks at the generation first.  It needs that nobody     *)
(* commits between a session's read and its write, a statement later.      *)
THEOREM OldTasksWriteNothing ==
    ASSUME "overtake" \notin Environment
    PROVE  Spec => OldTaskWritesNothing
<1> DEFINE Inv == TypeOK /\ WritersAreCurrent
           Writes == \A h \in Handlers :
               request[h].pc \in IndexPoints /\ request'[h] # request[h] /\ rows' # rows
                   => rows[File(h)].generation = request[h].generation
<1>1. Init => Inv
  BY StoreInit, WritersInit DEF StoreInv
<1>2. Inv /\ StoreInv /\ [Next]_vars => Inv'
  BY StoreStep, WritersStep DEF StoreInv
<1>3. Inv /\ [Next]_vars => [Writes]_vars
  BY OnlyCurrentWrite
<1> QED BY <1>1, <1>2, <1>3, StoreInit, StoreStep, PTL DEF Spec, OldTaskWritesNothing
=============================================================================

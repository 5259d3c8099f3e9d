---------------------------- MODULE EditorProofs ----------------------------
(***************************************************************************)
(* What a block's editors may rely on, for any contents, any number of     *)
(* editors and any environment: other writers, reorders, lost requests and *)
(* lost answers.                                                           *)
(***************************************************************************)
EXTENDS Editor, TLAPS

(* Nothing changes in any editor but e, which becomes new.                 *)
Moves(e, new) == editor' = [editor EXCEPT ![e] = new]

LEMMA OthersKept ==
    ASSUME editor \in [Editors -> EditorStates], NEW e \in Editors,
           NEW new \in EditorStates, Moves(e, new)
    PROVE  /\ editor' \in [Editors -> EditorStates]
           /\ editor'[e] = new
           /\ \A f \in Editors : f # e => editor'[f] = editor[f]
BY DEF Moves

LEMMA ClosedFacts == Closed \in EditorStates
BY DEF Closed, EditorStates, SavePoints

-----------------------------------------------------------------------------
(* The versions that are known anywhere: none is ahead of the row's.  An   *)
(* editor's own is behind the one it stored last while it has not heard of *)
(* it, and for good if the answer is lost.                                 *)
VersionsOf(ed, last) ==
    /\ ed.version <= ed.latest
    /\ ed.latest <= last
    /\ ed.version = ed.latest \/ ed.unsure \/ ed.saving \in {"stored", "reloading"}
    /\ ed.saving \in {"stored", "reloading"} => ed.latest = ed.version + 1

(* What an editor was last asked to save is pending, on its way, or stored *)
(* -- or the user has been told, or the edit was dropped.                  *)
TextOf(ed) ==
    /\ ed.pending \in {NoContent, ed.text}
    /\ ed.saving = "sent" => ed.sent \in Contents
    /\ ed.saving \in {"rejected", "reporting"} => ed.told
    /\ ed.saving = "no" =>
          ed.told \/ (ed.pending = NoContent /\ (ed.saved = ed.text \/ ed.reverted))
    /\ ed.saving = "sent" =>
          ed.pending # NoContent \/ ed.sent = ed.text \/ ed.reverted
    /\ ed.saving \in {"stored", "reloading"} =>
          ed.pending # NoContent \/ ed.saved = ed.text \/ ed.reverted

EditorInv ==
    /\ TypeOK
    /\ list.version <= server.version
    /\ loading.version <= server.version
    /\ \A e \in Editors : VersionsOf(editor[e], server.version) /\ TextOf(editor[e])

(* A step of one editor that leaves the row and the list as they are.      *)
LEMMA EditorMoves ==
    ASSUME EditorInv, NEW e \in Editors, NEW new \in EditorStates,
           Moves(e, new),
           server' \in Rows, list' = list, loading' \in {loading, server},
           server'.version >= server.version,
           VersionsOf(new, server'.version), TextOf(new)
    PROVE  EditorInv'
<1>1. /\ editor' \in [Editors -> EditorStates]
      /\ editor'[e] = new
      /\ \A f \in Editors : f # e => editor'[f] = editor[f]
  BY OthersKept DEF EditorInv, TypeOK
<1>2. /\ server.version \in Nat /\ server'.version \in Nat /\ list.version \in Nat
      /\ loading.version \in Nat /\ \A f \in Editors : editor[f].latest \in Nat
  BY DEF EditorInv, TypeOK, Rows, NoRow, Versions, EditorStates
<1>3. \A f \in Editors : VersionsOf(editor'[f], server'.version) /\ TextOf(editor'[f])
  <2> SUFFICES ASSUME NEW f \in Editors
               PROVE  VersionsOf(editor'[f], server'.version) /\ TextOf(editor'[f])
    OBVIOUS
  <2>1. CASE f = e
    BY <1>1, <2>1
  <2>2. CASE f # e
    <3>1. VersionsOf(editor[f], server.version) /\ TextOf(editor[f]) /\ editor'[f] = editor[f]
      BY <1>1, <2>2 DEF EditorInv
    <3>2. editor[f].latest <= server'.version
      BY <1>2, <3>1 DEF VersionsOf
    <3> QED BY <3>1, <3>2 DEF VersionsOf
  <2> QED BY <2>1, <2>2
<1>4. TypeOK'
  BY <1>1 DEF EditorInv, TypeOK
<1>5. list'.version <= server'.version /\ loading'.version <= server'.version
  BY <1>2 DEF EditorInv
<1> QED BY <1>3, <1>4, <1>5 DEF EditorInv, TextOf

LEMMA EditorStep == ASSUME EditorInv, [Next]_vars PROVE EditorInv'
<1>a. /\ server \in Rows /\ list \in Rows /\ loading \in Rows \union {NoRow}
      /\ server.version \in Versions /\ server.version \in Nat
      /\ list.version \in Versions /\ list.version \in Nat /\ list.content \in Contents
      /\ loading # NoRow => loading \in Rows
  BY DEF EditorInv, TypeOK, Rows, Versions
<1>b. NoContent \notin Contents
  BY EditorAssumption
<1>c. ASSUME NEW e \in Editors
      PROVE  /\ editor[e] \in EditorStates
             /\ VersionsOf(editor[e], server.version) /\ TextOf(editor[e])
  BY DEF EditorInv, TypeOK
<1>1. ASSUME NEW e \in Editors, Open(e) PROVE EditorInv'
  <2> DEFINE new == [Closed EXCEPT !.open = TRUE, !.version = list.version,
                                   !.text = list.content, !.saved = list.content,
                                   !.latest = list.version]
  <2>1. new \in EditorStates
    BY <1>a DEF Closed, EditorStates, SavePoints
  <2>2. VersionsOf(new, server.version) /\ TextOf(new)
    BY <1>a DEF Closed, VersionsOf, TextOf, EditorInv
  <2>3. Moves(e, new) /\ UNCHANGED <<server, list, loading>>
    BY <1>1 DEF Open, Moves
  <2> HIDE DEF new
  <2> QED BY <1>a, <2>1, <2>2, <2>3, EditorMoves
<1>2. ASSUME NEW e \in Editors, Close(e) PROVE EditorInv'
  <2> DEFINE new == [editor[e] EXCEPT !.open = FALSE]
  <2>1. new \in EditorStates /\ VersionsOf(new, server.version) /\ TextOf(new)
    BY <1>c DEF EditorStates, VersionsOf, TextOf
  <2>2. Moves(e, new) /\ UNCHANGED <<server, list, loading>>
    BY <1>2 DEF Close, Moves
  <2> HIDE DEF new
  <2> QED BY <1>a, <2>1, <2>2, EditorMoves
<1>3. ASSUME NEW e \in Editors, NEW c \in Contents, Unchanged(e, c) PROVE EditorInv'
  <2> DEFINE edited == c # editor[e].text
             stored == Saving(e, "no") /\ list.content = server.content
             new == [editor[e] EXCEPT !.text = c,
                                      !.reverted = IF edited THEN ~stored ELSE @,
                                      !.saved = IF edited /\ stored THEN c ELSE @]
  <2>1. new \in EditorStates /\ VersionsOf(new, server.version)
    BY <1>c DEF EditorStates, VersionsOf
  <2>2. TextOf(new)
    BY <1>3, <1>c DEF Unchanged, EditorStates, TextOf, Saving
  <2>3. Moves(e, new) /\ UNCHANGED <<server, list, loading>>
    BY <1>3 DEF Unchanged, Moves
  <2> HIDE DEF new, edited, stored
  <2> QED BY <1>a, <2>1, <2>2, <2>3, EditorMoves
<1>4. ASSUME NEW e \in Editors, NEW c \in Contents, Queue(e, c) PROVE EditorInv'
  <2> DEFINE new == [editor[e] EXCEPT !.text = c, !.pending = c, !.reverted = FALSE]
  <2>1. new \in EditorStates /\ VersionsOf(new, server.version)
    BY <1>c DEF EditorStates, VersionsOf
  <2>2. TextOf(new)
    BY <1>4, <1>b, <1>c DEF Queue, Saving, EditorStates, TextOf
  <2>3. Moves(e, new) /\ UNCHANGED <<server, list, loading>>
    BY <1>4 DEF Queue, Moves
  <2> HIDE DEF new
  <2> QED BY <1>a, <2>1, <2>2, <2>3, EditorMoves
<1>5. ASSUME NEW e \in Editors, NEW c \in Contents, Send(e, c) PROVE EditorInv'
  <2> DEFINE new == [editor[e] EXCEPT !.text = c, !.pending = NoContent, !.sent = c,
                                      !.saving = "sent", !.reverted = FALSE]
  <2>1. new \in EditorStates
    BY <1>c DEF EditorStates, SavePoints
  <2>2. VersionsOf(new, server.version)
    BY <1>5, <1>c DEF Send, Saving, EditorStates, VersionsOf
  <2>3. TextOf(new)
    BY <1>c DEF EditorStates, TextOf
  <2>4. Moves(e, new) /\ UNCHANGED <<server, list, loading>>
    BY <1>5 DEF Send, Moves
  <2> HIDE DEF new
  <2> QED BY <1>a, <2>1, <2>2, <2>3, <2>4, EditorMoves
<1>6. ASSUME NEW e \in Editors, Store(e) PROVE EditorInv'
  <2>1. PICK lost \in BOOLEAN :
          editor' = [editor EXCEPT ![e].saved = editor[e].sent,
                                   ![e].latest = server.version + 1,
                                   ![e].saving = IF lost THEN "rejected" ELSE "stored",
                                   ![e].sent = NoContent, ![e].told = @ \/ lost,
                                   ![e].unsure = @ \/ lost]
    <3>1. (IF "network" \in Environment THEN BOOLEAN ELSE {FALSE}) \subseteq BOOLEAN
      OBVIOUS
    <3> QED BY <1>6, <3>1 DEF Store
  <2> DEFINE new == [editor[e] EXCEPT
                        !.saved = editor[e].sent, !.latest = server.version + 1,
                        !.saving = IF lost THEN "rejected" ELSE "stored",
                        !.sent = NoContent, !.told = @ \/ lost, !.unsure = @ \/ lost]
  <2>2. /\ editor[e].saving = "sent" /\ editor[e].version = server.version
        /\ server' \in Rows /\ server'.version = server.version + 1
        /\ server.version + 1 \in Versions
        /\ UNCHANGED <<list, loading>>
    BY <1>6, <1>a, <1>c, EditorAssumption DEF Store, Saving, Write, Rows, Versions, TextOf
  <2>3. new \in EditorStates
    <3> DEFINE saving == IF lost THEN "rejected" ELSE "stored"
               told == editor[e].told \/ lost
               unsure == editor[e].unsure \/ lost
               sent == editor[e].sent
               latest == server.version + 1
    <3>1. editor[e] \in EditorStates /\ sent \in Contents
      BY <1>c, <2>2 DEF TextOf
    <3>2. editor[e].told \in BOOLEAN /\ editor[e].unsure \in BOOLEAN
      BY <3>1 DEF EditorStates
    <3>3. told \in BOOLEAN /\ unsure \in BOOLEAN
      BY <3>2, Zenon
    <3>4. saving \in SavePoints /\ latest \in Versions
      BY <2>2 DEF SavePoints
    <3>5. new = [editor[e] EXCEPT !.saved = sent, !.latest = latest, !.saving = saving,
                                  !.sent = NoContent, !.told = told, !.unsure = unsure]
      OBVIOUS
    <3> HIDE DEF new, saving, told, unsure, sent, latest
    <3> QED BY <3>1, <3>3, <3>4, <3>5 DEF EditorStates
  <2>4. VersionsOf(new, server'.version)
    BY <1>a, <1>c, <2>2 DEF EditorStates, VersionsOf
  <2>5. TextOf(new)
    BY <1>c, <2>2 DEF EditorStates, TextOf
  <2>6. Moves(e, new)
    BY <2>1 DEF Moves
  <2>7. server'.version >= server.version
    BY <1>a, <2>2
  <2> HIDE DEF new
  <2> QED BY <2>2, <2>3, <2>4, <2>5, <2>6, <2>7, EditorMoves
<1>7. ASSUME NEW e \in Editors, Reject(e) PROVE EditorInv'
  <2> DEFINE new == [editor[e] EXCEPT !.saving = "rejected", !.sent = NoContent, !.told = TRUE]
  <2>1. new \in EditorStates
    BY <1>c DEF EditorStates, SavePoints
  <2>2. VersionsOf(new, server.version) /\ TextOf(new)
    BY <1>7, <1>c DEF Reject, Saving, EditorStates, VersionsOf, TextOf
  <2>3. Moves(e, new) /\ UNCHANGED <<server, list, loading>>
    BY <1>7 DEF Reject, Moves
  <2> HIDE DEF new
  <2> QED BY <1>a, <2>1, <2>2, <2>3, EditorMoves
<1>8. ASSUME NEW e \in Editors, Invalidate(e) PROVE EditorInv'
  <2>1. PICK point \in {"reloading", "reporting"} :
          /\ editor' = [editor EXCEPT ![e] = [editor[e] EXCEPT !.saving = point]]
          /\ IF point = "reloading" THEN editor[e].saving = "stored"
                                    ELSE editor[e].saving = "rejected"
    BY <1>8 DEF Invalidate, Saving
  <2> DEFINE new == [editor[e] EXCEPT !.saving = point]
  <2>2. new \in EditorStates
    BY <1>c DEF EditorStates, SavePoints
  <2>3. VersionsOf(new, server.version) /\ TextOf(new)
    BY <1>c, <2>1 DEF EditorStates, VersionsOf, TextOf
  <2>4. /\ Moves(e, new)
        /\ UNCHANGED <<server, list>> /\ loading' \in {loading, server}
    BY <1>8, <2>1 DEF Invalidate, Moves
  <2> HIDE DEF new
  <2> QED BY <1>a, <2>2, <2>3, <2>4, EditorMoves
<1>9. ASSUME NEW e \in Editors, Continue(e) PROVE EditorInv'
  <2> DEFINE next == editor[e].pending
             new == [editor[e] EXCEPT !.version = @ + 1, !.told = FALSE,
                                      !.pending = NoContent, !.sent = next,
                                      !.saving = IF next = NoContent THEN "no" ELSE "sent"]
  <2>1. editor[e].saving = "reloading" /\ editor[e].latest = editor[e].version + 1
    BY <1>9, <1>c DEF Continue, Saving, VersionsOf
  <2>2. new \in EditorStates
    BY <1>c, <2>1, ZenonT(30) DEF EditorStates, SavePoints
  <2>3. VersionsOf(new, server.version)
    BY <1>c, <2>1 DEF EditorStates, VersionsOf, Versions
  <2>4. TextOf(new)
    BY <1>c, <2>1 DEF EditorStates, TextOf
  <2>5. Moves(e, new) /\ UNCHANGED <<server, list, loading>>
    BY <1>9 DEF Continue, Moves
  <2> HIDE DEF new
  <2> QED BY <1>a, <2>2, <2>3, <2>4, <2>5, EditorMoves
<1>10. ASSUME NEW e \in Editors, Stop(e) PROVE EditorInv'
  <2> DEFINE new == [editor[e] EXCEPT !.saving = "no"]
  <2>1. new \in EditorStates
    BY <1>c DEF EditorStates, SavePoints
  <2>2. VersionsOf(new, server.version) /\ TextOf(new)
    BY <1>10, <1>c DEF Stop, Saving, EditorStates, VersionsOf, TextOf
  <2>3. Moves(e, new) /\ UNCHANGED <<server, list, loading>>
    BY <1>10 DEF Stop, Moves
  <2> HIDE DEF new
  <2> QED BY <1>a, <2>1, <2>2, <2>3, EditorMoves
<1>11. ASSUME editor' = editor, list' \in {list, loading}, loading' \in {server, NoRow, loading},
              list' \in Rows, server' \in Rows, server'.version >= server.version
       PROVE  EditorInv'
  <2>1. /\ server.version \in Nat /\ server'.version \in Nat
        /\ list.version \in Nat /\ loading.version \in Nat /\ NoRow.version = 0
        /\ \A e \in Editors : editor[e].latest \in Nat
    BY <1>a, <1>11, <1>c DEF Rows, NoRow, Versions, EditorStates
  <2>2. list'.version <= server'.version /\ loading'.version <= server'.version
    BY <1>11, <2>1 DEF EditorInv
  <2>3. TypeOK'
    BY <1>11, <1>a DEF EditorInv, TypeOK
  <2>4. \A e \in Editors : editor[e].latest <= server'.version
    BY <1>11, <1>c, <2>1 DEF VersionsOf
  <2> QED BY <1>11, <1>c, <2>2, <2>3, <2>4 DEF EditorInv, VersionsOf, TextOf
<1>12. ASSUME NEW c \in Contents, OthersWrite(c) PROVE EditorInv'
  BY <1>11, <1>12, <1>a, EditorAssumption DEF OthersWrite, Write, Rows, Versions
<1>13. CASE Reorder
  BY <1>11, <1>13, <1>a, EditorAssumption DEF Reorder, Rows, Versions
<1>14. CASE Refresh \/ Arrive \/ UNCHANGED vars
  BY <1>11, <1>14, <1>a DEF Refresh, Arrive, vars, Rows, Versions
<1> QED
  BY <1>1, <1>2, <1>3, <1>4, <1>5, <1>6, <1>7, <1>8, <1>9, <1>10, <1>12, <1>13, <1>14
     DEF Next, Edit

LEMMA EditorStart == Init => EditorInv
<1> SUFFICES ASSUME Init PROVE EditorInv
  OBVIOUS
<1>1. TypeOK
  BY ClosedFacts DEF Init, TypeOK
<1>2. server.version = 1 /\ list.version = 1 /\ loading.version = 0
  BY DEF Init, NoRow
<1>3. VersionsOf(Closed, server.version) /\ TextOf(Closed)
  BY <1>2 DEF Closed, VersionsOf, TextOf
<1> QED BY <1>1, <1>2, <1>3 DEF Init, EditorInv

LEMMA EditorsAreKept == Spec => []EditorInv
BY EditorStart, EditorStep, PTL DEF Spec

-----------------------------------------------------------------------------
(* Every variable of Editor keeps its type.                                *)
THEOREM TypeCorrect == Spec => []TypeOK
<1>1. EditorInv => TypeOK
  BY DEF EditorInv
<1> QED BY <1>1, EditorsAreKept, PTL

(* An editor never sends a version its own earlier save has outdated,      *)
(* unless the answer to that save was lost.                                *)
THEOREM NoConflictWithItself == Spec => []OwnSavesNeverConflict
<1>1. EditorInv => OwnSavesNeverConflict
  BY DEF EditorInv, VersionsOf, OwnSavesNeverConflict, Saving
<1> QED BY <1>1, EditorsAreKept, PTL

(* Nothing an editor was given to save is lost without a word: it is       *)
(* stored, or the error is shown, or it was the edit the early return of   *)
(* save drops.                                                             *)
THEOREM NothingLostSilently == Spec => []SavedOrTold
<1>1. EditorInv => SavedOrTold
  BY DEF EditorInv, TextOf, SavedOrTold, Saving
<1> QED BY <1>1, EditorsAreKept, PTL

(* A save that is stored replaces the version its editor knows, whoever    *)
(* else writes the block, and whatever answers are lost.                   *)
THEOREM OverwritesAreKnown == Spec => NoSilentOverwrite
<1> DEFINE Known == \A e \in Editors :
                        Saving(e, "sent") /\ ~Saving(e, "sent")' /\ server' # server
                            => server.version = editor[e].latest
<1>1. EditorInv /\ [Next]_vars => [Known]_vars
  <2> SUFFICES ASSUME EditorInv, Next, NEW e \in Editors,
                      Saving(e, "sent"), ~Saving(e, "sent")', server' # server
               PROVE  server.version = editor[e].latest
    OBVIOUS
  <2>a. editor \in [Editors -> EditorStates]
    BY DEF EditorInv, TypeOK
  <2>b. Saving(e, "sent")' <=> editor'[e].saving = "sent"
    BY DEF Saving
  <2>1. PICK f \in Editors : Store(f)
    <3>1. ASSUME NEW f \in Editors,
                 \/ Open(f) \/ Close(f) \/ \E c \in Contents : Edit(f, c)
                 \/ Store(f) \/ Reject(f) \/ Invalidate(f) \/ Continue(f) \/ Stop(f)
          PROVE  Store(f)
      BY <3>1 DEF Edit, Open, Close, Unchanged, Queue, Send, Reject, Invalidate, Continue, Stop
    <3>2. ~(Refresh \/ Arrive)
      BY DEF Refresh, Arrive
    <3>3. ~Reorder /\ ~\E c \in Contents : OthersWrite(c)
      BY <2>b DEF OthersWrite, Reorder, Saving
    <3>4. PICK f \in Editors :
                 \/ Open(f) \/ Close(f) \/ \E c \in Contents : Edit(f, c)
                 \/ Store(f) \/ Reject(f) \/ Invalidate(f) \/ Continue(f) \/ Stop(f)
      BY <3>2, <3>3 DEF Next
    <3> QED BY <3>1, <3>4
  <2>2. f = e
    BY <2>a, <2>1 DEF Store, Saving
  <2>3. editor[e].version = server.version
    BY <2>1, <2>2 DEF Store
  <2>4. /\ editor[e].version <= editor[e].latest /\ editor[e].latest <= server.version
        /\ editor[e].latest \in Nat /\ server.version \in Nat
    BY DEF EditorInv, VersionsOf, TypeOK, EditorStates, Rows, Versions
  <2> QED BY <2>3, <2>4
<1> QED BY <1>1, EditorsAreKept, PTL DEF Spec, NoSilentOverwrite
=============================================================================

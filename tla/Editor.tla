-------------------------------- MODULE Editor --------------------------------
(***************************************************************************)
(* A block of a page, the editors that are opened on it one after another  *)
(* (each time its page is shown), and the list of blocks they share.       *)
(* InlineEditableBlock.tsx, BlockEditor.tsx, the queries and mutations of  *)
(* App.tsx, and PATCH /blocks/{id} of the API.                             *)
(*                                                                         *)
(* An editor reads the version of its block once, when it is created, and  *)
(* counts its own saves up from there.  It outlives its page: a save that  *)
(* is under way goes on when the page is left.                             *)
(***************************************************************************)
EXTENDS Naturals

CONSTANTS
    Editors,
    Contents,
    NoContent,
    MaxVersion,     \* bound: versions of the block
    Environment     \* what may happen besides, see below

(* "network": a request or its answer is lost; "others": another  *)
(* window or program writes the block; "reorder": the blocks of the page   *)
(* are moved, by whomever.                                                 *)
EnvironmentKinds == {"network", "others", "reorder"}

ASSUME EditorAssumption ==
    /\ NoContent \notin Contents
    /\ MaxVersion \in Nat \ {0}
    /\ Environment \subseteq EnvironmentKinds

VARIABLES
    server,     \* the row of the block
    list,       \* the block in the cached list, a prop of its editor
    loading,    \* the answer to the latest request for the list
    editor      \* the state and the refs of each editor

vars == <<server, list, loading, editor>>

Versions == 1..MaxVersion
Rows == [version: Versions, content: Contents]
NoRow == [version |-> 0, content |-> NoContent]

SavePoints == {"no", "sent", "stored", "reloading", "rejected", "reporting"}
EditorStates ==
    [open: BOOLEAN,                             \* mounted
     version: {0} \union Versions,              \* versionRef
     text: Contents \union {NoContent},         \* what it was last asked to save
     pending: Contents \union {NoContent},      \* pendingSaveRef
     saving: SavePoints,                        \* savingRef, and how far
     sent: Contents \union {NoContent},
     told: BOOLEAN,                             \* the error message
     saved: Contents \union {NoContent},        \* history: opened with, or found stored
     latest: {0} \union Versions,               \* history: its version
     reverted: BOOLEAN,                         \* history, see Unchanged
     unsure: BOOLEAN]                           \* history: an answer was lost

Closed == [open |-> FALSE, version |-> 0, text |-> NoContent, pending |-> NoContent,
           saving |-> "no", sent |-> NoContent, told |-> FALSE, saved |-> NoContent,
           latest |-> 0, reverted |-> FALSE, unsure |-> FALSE]

TypeOK ==
    /\ server \in Rows
    /\ list \in Rows
    /\ loading \in Rows \union {NoRow}
    /\ editor \in [Editors -> EditorStates]

Init ==
    /\ server \in {row \in Rows : row.version = 1}
    /\ list = server
    /\ loading = NoRow
    /\ editor = [e \in Editors |-> Closed]

-----------------------------------------------------------------------------
Saving(e, point) == editor[e].saving = point

(* The page is shown: the list may still be the cached one.                *)
Open(e) ==
    /\ \A f \in Editors : ~editor[f].open
    /\ Saving(e, "no")
    /\ editor' = [editor EXCEPT ![e] =
          [Closed EXCEPT !.open = TRUE, !.version = list.version, !.text = list.content,
                         !.saved = list.content, !.latest = list.version]]
    /\ UNCHANGED <<server, list, loading>>

Close(e) ==
    /\ editor[e].open
    /\ editor' = [editor EXCEPT ![e].open = FALSE]
    /\ UNCHANGED <<server, list, loading>>

-----------------------------------------------------------------------------
(* save(content), on leaving a text or on a click                          *)

(* "Nothing new": the comparison is with the list.  It is right where the  *)
(* list shows what is stored and nothing else is on its way there.         *)
Unchanged(e, c) ==
    LET edited == c # editor[e].text
        stored == Saving(e, "no") /\ list.content = server.content
    IN  /\ editor[e].open
        /\ c = list.content /\ editor[e].pending = NoContent
        /\ editor' = [editor EXCEPT
                        ![e].text = c,
                        ![e].reverted = IF edited THEN ~stored ELSE @,
                        ![e].saved = IF edited /\ stored THEN c ELSE @]
    /\ UNCHANGED <<server, list, loading>>

(* Faulty variant: sends at once, whatever is under way.                   *)
SendAnyway(e, c) ==
    /\ editor[e].open /\ ~Saving(e, "no")
    /\ c # list.content \/ editor[e].pending # NoContent
    /\ editor' = [editor EXCEPT ![e].text = c, ![e].pending = NoContent, ![e].sent = c,
                                ![e].saving = "sent", ![e].reverted = FALSE]
    /\ UNCHANGED <<server, list, loading>>

Queue(e, c) ==
    /\ editor[e].open /\ ~Saving(e, "no")
    /\ c # list.content \/ editor[e].pending # NoContent
    /\ editor' = [editor EXCEPT ![e].text = c, ![e].pending = c, ![e].reverted = FALSE]
    /\ UNCHANGED <<server, list, loading>>

Send(e, c) ==
    /\ editor[e].open /\ Saving(e, "no")
    /\ c # list.content \/ editor[e].pending # NoContent
    /\ editor' = [editor EXCEPT ![e].text = c, ![e].pending = NoContent, ![e].sent = c,
                                ![e].saving = "sent", ![e].reverted = FALSE]
    /\ UNCHANGED <<server, list, loading>>

-----------------------------------------------------------------------------
(* PATCH /blocks/{id}                                                      *)

Write(c) ==
    /\ server.version < MaxVersion
    /\ server' = [version |-> server.version + 1, content |-> c]

Store(e) ==
    /\ Saving(e, "sent") /\ editor[e].version = server.version
    /\ Write(editor[e].sent)
    /\ \E lost \in IF "network" \in Environment THEN BOOLEAN ELSE {FALSE} :
          editor' = [editor EXCEPT ![e].saved = editor[e].sent,
                                   ![e].latest = server.version + 1,
                                   ![e].saving = IF lost THEN "rejected" ELSE "stored",
                                   ![e].sent = NoContent, ![e].told = @ \/ lost,
                                   ![e].unsure = @ \/ lost]
    /\ UNCHANGED <<list, loading>>

(* The version is not the row's, or the request fails.                     *)
Reject(e) ==
    /\ Saving(e, "sent")
    /\ editor[e].version # server.version \/ "network" \in Environment
    /\ editor' = [editor EXCEPT ![e].saving = "rejected", ![e].sent = NoContent,
                                ![e].told = TRUE]
    /\ UNCHANGED <<server, list, loading>>

Shown == \E e \in Editors : editor[e].open

(* invalidateQueries, on success and on error: asks for the list of a page *)
(* that is shown, instead of a request that is under way, and waits.       *)
Invalidate(e) ==
    /\ \/ /\ Saving(e, "stored")
          /\ editor' = [editor EXCEPT ![e].saving = "reloading"]
       \/ /\ Saving(e, "rejected")
          /\ editor' = [editor EXCEPT ![e].saving = "reporting"]
    /\ loading' = IF Shown THEN server ELSE loading
    /\ UNCHANGED <<server, list>>

(* Faulty variant: takes the version of the list.                          *)
ContinueWithList(e) ==
    LET next == editor[e].pending
    IN  /\ Saving(e, "reloading")
        /\ editor' = [editor EXCEPT ![e].version = list.version, ![e].told = FALSE,
                                    ![e].pending = NoContent,
                                    ![e].sent = next,
                                    ![e].saving = IF next = NoContent THEN "no" ELSE "sent"]
        /\ UNCHANGED <<server, list, loading>>

(* Faulty variant: clears what is pending after the save, not before.      *)
ContinueCleared(e) ==
    /\ Saving(e, "reloading")
    /\ editor' = [editor EXCEPT ![e].version = @ + 1, ![e].told = FALSE,
                                ![e].pending = NoContent, ![e].saving = "no"]
    /\ UNCHANGED <<server, list, loading>>

(* The reload has arrived, has failed or has been replaced: the next save. *)
Continue(e) ==
    LET next == editor[e].pending
    IN  /\ Saving(e, "reloading")
        /\ editor' = [editor EXCEPT ![e].version = @ + 1, ![e].told = FALSE,
                                    ![e].pending = NoContent,
                                    ![e].sent = next,
                                    ![e].saving = IF next = NoContent THEN "no" ELSE "sent"]
        /\ UNCHANGED <<server, list, loading>>

(* The loop ends with the error; what is pending stays so.                 *)
Stop(e) ==
    /\ Saving(e, "reporting")
    /\ editor' = [editor EXCEPT ![e].saving = "no"]
    /\ UNCHANGED <<server, list, loading>>

-----------------------------------------------------------------------------
(* A reload for another reason: the window has the focus again, the page   *)
(* is shown again.                                                         *)
Refresh ==
    /\ Shown /\ loading = NoRow
    /\ loading' = server
    /\ UNCHANGED <<server, list, editor>>

Arrive ==
    /\ loading # NoRow
    /\ list' = loading
    /\ loading' = NoRow
    /\ UNCHANGED <<server, editor>>

OthersWrite(c) ==
    /\ "others" \in Environment
    /\ Write(c)
    /\ UNCHANGED <<list, loading, editor>>

(* The version of every block goes up, its content stays.                  *)
Reorder ==
    /\ "reorder" \in Environment
    /\ server.version < MaxVersion
    /\ server' = [server EXCEPT !.version = @ + 1]
    /\ UNCHANGED <<list, loading, editor>>

-----------------------------------------------------------------------------
Edit(e, c) == Unchanged(e, c) \/ Queue(e, c) \/ Send(e, c)

Next ==
    \/ \E e \in Editors :
          \/ Open(e) \/ Close(e)
          \/ \E c \in Contents : Edit(e, c)
          \/ Store(e) \/ Reject(e) \/ Invalidate(e) \/ Continue(e) \/ Stop(e)
    \/ Refresh \/ Arrive
    \/ \E c \in Contents : OthersWrite(c)
    \/ Reorder

Spec == Init /\ [][Next]_vars
-----------------------------------------------------------------------------
(* Properties                                                              *)

(* "Never silently overwrite a newer user change": a save that is stored   *)
(* replaces the version its editor was opened with or has itself stored.   *)
NoSilentOverwrite ==
    [][\A e \in Editors :
          Saving(e, "sent") /\ ~Saving(e, "sent")' /\ server' # server
              => server.version = editor[e].latest]_vars

(* An editor never conflicts with itself: what it sends is the version it  *)
(* was opened with or stored last, unless the answer that would have told  *)
(* it was lost.                                                            *)
OwnSavesNeverConflict ==
    \A e \in Editors :
        Saving(e, "sent") => editor[e].version = editor[e].latest \/ editor[e].unsure

(* What an editor was given is stored once it is quiet, or it has said     *)
(* that something went wrong, or the early return of save has dropped the  *)
(* last edit (InlineEditableBlock.tsx:102): the edit went back to what the *)
(* list showed, but something else was just being saved, or the list did   *)
(* not show what is stored, because its reload is late or has failed.      *)
SavedOrTold ==
    \A e \in Editors :
        Saving(e, "no") =>
            editor[e].saved = editor[e].text \/ editor[e].told \/ editor[e].reverted
=============================================================================

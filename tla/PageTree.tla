------------------------------ MODULE PageTree ------------------------------
(***************************************************************************)
(* The hierarchy of pages: services/page_service.py and                    *)
(* db/repositories/page_repository.py under run_mutation.                  *)
(*                                                                         *)
(* Every read before a request's first write sees the last commit, and     *)
(* other requests run in between; from the first write to the commit it is *)
(* one serialised transaction.  A Page object that a local variable still  *)
(* holds is not read again: the new parent during a move.                  *)
(***************************************************************************)
EXTENDS Naturals, FiniteSets

CONSTANTS
    Handlers,       \* concurrent requests, of clients or of the agent
    Movers,         \* those that may move a page below another one
    Pages,          \* identifiers of pages, never reused
    Workspaces,
    WorkspaceOf,    \* the workspace each page is created in
    MaxVersion,     \* version after which a page is left alone (bound)
    Root, Unused, Deleted   \* instead of a parent

ASSUME ConstantsAssumption ==
    /\ Movers \subseteq Handlers
    /\ Workspaces # {} /\ WorkspaceOf \in [Pages -> Workspaces]
    /\ MaxVersion \in Nat
    /\ {Root, Unused, Deleted} \cap Pages = {}
    /\ Root # Unused /\ Root # Deleted /\ Unused # Deleted

VARIABLES
    parent,     \* parent_page_id of every page, or what became of its id
    version,    \* of every page
    request     \* where each request is and what it has read

vars == <<parent, version, request>>

Points == {"idle", "parent", "walk", "update", "create", "list", "erase"}
Parents == Pages \union {Root}
Requests == [pc: Points,
             page: Parents,             \* the page to move or to delete
             to: Parents,               \* the parent asked for
             version: Nat,              \* the version the client saw
             workspace: Workspaces,     \* of the page to create
             above: Parents,            \* the walk: parent of the current page
             held: Parents,             \* the parent of `to' as first read
             doomed: SUBSET Parents]    \* the subtree to delete

Existing == {p \in Pages : parent[p] \in Parents}

TypeOK ==
    /\ parent \in [Pages -> Parents \union {Unused, Deleted}]
    /\ version \in [Pages -> Nat]
    /\ request \in [Handlers -> Requests]

NoRequest == [pc |-> "idle", page |-> Root, to |-> Root, version |-> 0,
              workspace |-> CHOOSE w \in Workspaces : TRUE, above |-> Root,
              held |-> Root, doomed |-> {}]

Init ==
    /\ parent = [p \in Pages |-> Unused]
    /\ version = [p \in Pages |-> 0]
    /\ request = [h \in Handlers |-> NoRequest]

(* The pages of S and all pages below them.                                *)
Closed(T) == \A p \in Existing : parent[p] \in T => p \in T
Below(S) ==
    {p \in Existing : \A T \in SUBSET Existing :
                          S \cap Existing \subseteq T /\ Closed(T) => p \in T}

Answer(h) == request' = [request EXCEPT ![h] = NoRequest]
Refused(h) == Answer(h) /\ UNCHANGED <<parent, version>>

-----------------------------------------------------------------------------
(* PageService.create_page: the parent, if any, is read ...                *)
StartCreate(h, w, q) ==
    /\ request[h].pc = "idle"
    /\ q = Root \/ (q \in Existing /\ WorkspaceOf[q] = w)
    /\ request' = [request EXCEPT ![h] =
                      [NoRequest EXCEPT !.pc = "create", !.workspace = w, !.to = q]]
    /\ UNCHANGED <<parent, version>>

(* ... and the row inserted, if the foreign key still finds the parent.    *)
InsertPage(h, p) ==
    /\ request[h].pc = "create"
    /\ parent[p] = Unused /\ WorkspaceOf[p] = request[h].workspace
    /\ IF request[h].to \notin Existing \union {Root} THEN Refused(h)
       ELSE /\ parent' = [parent EXCEPT ![p] = request[h].to]
            /\ version' = [version EXCEPT ![p] = 1]
            /\ Answer(h)

-----------------------------------------------------------------------------
(* PageService.update_page: a new title or position.                       *)
Rename(h, p) ==
    /\ request[h].pc = "idle"
    /\ p \in Existing /\ version[p] <= MaxVersion
    /\ version' = [version EXCEPT ![p] = @ + 1]
    /\ Answer(h)
    /\ UNCHANGED parent

(* A new parent: the page is read, then the parent ...                     *)
StartMove(h, p, q, seen) ==
    /\ h \in Movers
    /\ request[h].pc = "idle"
    /\ p \in Existing /\ seen \in {version[p], version[p] - 1}
    /\ q # p
    /\ request' = [request EXCEPT ![h] =
                      [NoRequest EXCEPT !.pc = IF q = Root THEN "update" ELSE "parent",
                                        !.page = p, !.to = q, !.version = seen]]
    /\ UNCHANGED <<parent, version>>

(* Faulty variant: the parent may be a page of another workspace.          *)
ReadAnyParent(h) ==
    LET q == request[h].to
    IN  /\ request[h].pc = "parent"
        /\ IF q \notin Existing THEN Refused(h)
           ELSE /\ request' = [request EXCEPT ![h].pc = "walk", ![h].above = parent[q],
                                              ![h].held = parent[q]]
                /\ UNCHANGED <<parent, version>>

ReadParent(h) ==
    LET q == request[h].to
    IN  /\ request[h].pc = "parent"
        /\ IF q \notin Existing \/ WorkspaceOf[q] # WorkspaceOf[request[h].page]
           THEN Refused(h)
           ELSE /\ request' = [request EXCEPT ![h].pc = "walk", ![h].above = parent[q],
                                              ![h].held = parent[q]]
                /\ UNCHANGED <<parent, version>>

(* ... and is_descendant walks up from it, a read per page: until the page *)
(* to move is found,                                                       *)
CycleFound(h) ==
    /\ request[h].pc = "walk" /\ request[h].above = request[h].page
    /\ Refused(h)

(* Faulty variant: the walk starts again from the parent.                  *)
WalkAround(h) ==
    /\ request[h].pc = "walk"
    /\ request[h].above \notin {request[h].page, Root}
    /\ request' = [request EXCEPT ![h].above = request[h].held]
    /\ UNCHANGED <<parent, version>>

(* or another page,                                                        *)
WalkUp(h) ==
    LET above == request[h].above
    IN  /\ request[h].pc = "walk"
        /\ above \notin {request[h].page, Root}
        /\ above \in Existing \union {request[h].to}
        /\ request' = [request EXCEPT ![h].above = IF above = request[h].to
                                                   THEN request[h].held ELSE parent[above]]
        /\ UNCHANGED <<parent, version>>

(* Faulty variant: the walk looks no further than the parent's parent.     *)
WalkShort(h) ==
    /\ request[h].pc = "walk"
    /\ request[h].above # request[h].page
    /\ request' = [request EXCEPT ![h].pc = "update", ![h].above = Root, ![h].held = Root]
    /\ UNCHANGED <<parent, version>>

(* or the end, which is a root or a page that has been deleted.            *)
WalkEnds(h) ==
    /\ request[h].pc = "walk"
    /\ request[h].above = Root
          \/ request[h].above \notin Existing \union {request[h].page, request[h].to}
    /\ request' = [request EXCEPT ![h].pc = "update", ![h].above = Root, ![h].held = Root]
    /\ UNCHANGED <<parent, version>>

(* update_with_version; the foreign key needs the parent.                  *)
UpdateParent(h) ==
    LET p == request[h].page
    IN  /\ request[h].pc = "update"
        /\ IF \/ p \notin Existing \/ version[p] # request[h].version
              \/ request[h].to \notin Existing \union {Root}
           THEN Refused(h)
           ELSE /\ parent' = [parent EXCEPT ![p] = request[h].to]
                /\ version' = [version EXCEPT ![p] = @ + 1]
                /\ Answer(h)

-----------------------------------------------------------------------------
(* PageService.delete_page: the page is read, then the workspace,          *)
StartDelete(h, p) ==
    /\ request[h].pc = "idle"
    /\ p \in Existing
    /\ request' = [request EXCEPT ![h] = [NoRequest EXCEPT !.pc = "list", !.page = p]]
    /\ UNCHANGED <<parent, version>>

ListPages(h) ==
    /\ request[h].pc = "list"
    /\ request' = [request EXCEPT ![h].pc = "erase", ![h].page = Root,
                                  ![h].doomed = Below({request[h].page})
                                                    \union {request[h].page}]
    /\ UNCHANGED <<parent, version>>

Erase(gone) ==
    /\ parent' = [p \in Pages |-> IF p \in gone THEN Deleted ELSE parent[p]]
    /\ version' = [p \in Pages |-> IF p \in gone THEN 0 ELSE version[p]]

(* and the pages found below it are deleted; ON DELETE CASCADE takes those *)
(* that have come below them since.                                        *)
EraseSubtree(h) ==
    /\ request[h].pc = "erase"
    /\ Erase(Below(request[h].doomed))
    /\ Answer(h)

Next ==
    \E h \in Handlers :
        \/ \E w \in Workspaces, q \in Parents : StartCreate(h, w, q)
        \/ \E p \in Pages : InsertPage(h, p) \/ Rename(h, p) \/ StartDelete(h, p)
        \/ \E p \in Pages, q \in Parents, seen \in 1..MaxVersion : StartMove(h, p, q, seen)
        \/ ReadParent(h) \/ CycleFound(h) \/ WalkUp(h) \/ WalkEnds(h) \/ UpdateParent(h)
        \/ ListPages(h) \/ EraseSubtree(h)

Spec == Init /\ [][Next]_vars

(* A move that has started is carried on by the event loop.                *)
Fairness ==
    \A h \in Movers :
        WF_vars(CycleFound(h) \/ WalkUp(h) \/ WalkEnds(h) \/ UpdateParent(h))

FairSpec == Spec /\ Fairness

-----------------------------------------------------------------------------
(* components/pages/tree.ts builds the sidebar from the listing of a       *)
(* workspace: roots are the pages whose parent is not listed, and only     *)
(* what hangs from a root is shown.                                        *)
Listing(w) == {p \in Existing : WorkspaceOf[p] = w}
Roots(w) == {p \in Listing(w) : parent[p] \notin Listing(w)}

(* Faulty variant: only the children of roots get the children they have.  *)
ShownTwoLevels(w) ==
    {p \in Listing(w) : {p, parent[p]} \intersect Roots(w) # {}}

Shown(w) == Listing(w) \intersect Below(Roots(w))

-----------------------------------------------------------------------------
(* Properties                                                              *)

(* No page is below itself ("parent change would create a cycle"): every   *)
(* set of pages has a member whose parent lies outside.  The web client    *)
(* would not show a page of a cycle, and is_descendant not return on it.   *)
Acyclic ==
    \A S \in SUBSET Existing : S # {} => \E p \in S : parent[p] \notin S

(* Pages are below pages that exist, in the same workspace, whatever is    *)
(* deleted, moved or created at the same time.                             *)
ParentInWorkspace ==
    \A p \in Existing :
        parent[p] # Root => parent[p] \in Existing /\ WorkspaceOf[parent[p]] = WorkspaceOf[p]

(* The sidebar shows every page of the workspace, whatever is created,     *)
(* moved and deleted: on a cycle buildPageTree loses pages without an error.*)
EveryPageIsShown ==
    \A w \in Workspaces : Shown(w) = Listing(w)

(* A move is answered: is_descendant's walk up the changing hierarchy ends.*)
MoveEnds ==
    \A h \in Handlers : request[h].pc = "walk" ~> request[h].pc = "idle"
=============================================================================

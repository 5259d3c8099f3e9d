--------------------------- MODULE PageTreeProofs ---------------------------
(***************************************************************************)
(* Proofs about PageTree, for any pages, workspaces and requests: types,   *)
(* parents that exist in the right workspace, and, as long as no move      *)
(* commits behind the walk of another, no cycles.                          *)
(***************************************************************************)
EXTENDS PageTree, TLAPS

(* What a request has checked and still relies on at its write.            *)
OnTarget(r) ==
    /\ r.pc = "create" /\ r.to # Root => WorkspaceOf[r.to] = r.workspace
    /\ r.pc \in {"parent", "walk", "update"} => r.page \in Pages /\ r.to # r.page
    /\ r.pc \in {"walk", "update"} /\ r.to # Root => WorkspaceOf[r.to] = WorkspaceOf[r.page]
Targets == \A h \in Handlers : OnTarget(request[h])

TreeInv == TypeOK /\ Targets /\ ParentInWorkspace

(* The steps that change no parent.                                        *)
Reads(h) ==
    \/ \E w \in Workspaces, q \in Parents : StartCreate(h, w, q)
    \/ \E p \in Pages, q \in Parents, seen \in 1..MaxVersion : StartMove(h, p, q, seen)
    \/ \E p \in Pages : StartDelete(h, p) \/ Rename(h, p)
    \/ ReadParent(h) \/ CycleFound(h) \/ WalkUp(h) \/ WalkEnds(h) \/ ListPages(h)

-----------------------------------------------------------------------------
LEMMA NoRequestType == NoRequest \in Requests
  <1>1. (CHOOSE w \in Workspaces : TRUE) \in Workspaces
    BY ConstantsAssumption
  <1> QED
    BY <1>1, SMT DEF NoRequest, Requests, Points, Parents

LEMMA RequestChange ==
    ASSUME TypeOK, NEW h \in Handlers, NEW r \in Requests,
           request' = [request EXCEPT ![h] = r]
    PROVE  request' \in [Handlers -> Requests]
  BY DEF TypeOK

LEMMA ExistingParent ==
    ASSUME TypeOK, NEW p \in Existing
    PROVE  p \in Pages /\ parent[p] \in Parents
  BY DEF Existing

LEMMA BelowExists == \A S : Below(S) \in SUBSET Existing
  BY DEF Below

(* Types. *)
LEMMA TypeInit == Init => TypeOK
  BY NoRequestType DEF Init, TypeOK

LEMMA TypeStep == TypeOK /\ [Next]_vars => TypeOK'
  <1> SUFFICES ASSUME TypeOK, [Next]_vars PROVE TypeOK'
    OBVIOUS
  <1> USE NoRequestType
  <1>0. CASE UNCHANGED vars
    BY <1>0 DEF TypeOK, vars
  <1>1. ASSUME NEW h \in Handlers, NEW w \in Workspaces, NEW q \in Parents,
               StartCreate(h, w, q)
        PROVE  TypeOK'
    <2>1. [NoRequest EXCEPT !.pc = "create", !.workspace = w, !.to = q] \in Requests
      BY DEF Requests, Points
    <2> QED
      BY <1>1, <2>1 DEF StartCreate, TypeOK
  <1>2. ASSUME NEW h \in Handlers, NEW p \in Pages, InsertPage(h, p)
        PROVE  TypeOK'
    <2>1. request[h].to \in Parents
      BY DEF TypeOK, Requests
    <2> QED
      BY <1>2, <2>1 DEF InsertPage, Refused, Answer, TypeOK
  <1>3. ASSUME NEW h \in Handlers, NEW p \in Pages, Rename(h, p)
        PROVE  TypeOK'
    BY <1>3 DEF Rename, Answer, TypeOK
  <1>4. ASSUME NEW h \in Handlers, NEW p \in Pages, NEW q \in Parents,
               NEW seen \in 1..MaxVersion, StartMove(h, p, q, seen)
        PROVE  TypeOK'
    <2>1. seen \in Nat
      BY ConstantsAssumption
    <2>2. [NoRequest EXCEPT !.pc = IF q = Root THEN "update" ELSE "parent",
                            !.page = p, !.to = q, !.version = seen] \in Requests
      BY <2>1 DEF Requests, Points, Parents
    <2> QED
      BY <1>4, <2>2 DEF StartMove, TypeOK
  <1>5. ASSUME NEW h \in Handlers, NEW p \in Pages, StartDelete(h, p)
        PROVE  TypeOK'
    <2>1. [NoRequest EXCEPT !.pc = "list", !.page = p] \in Requests
      BY DEF Requests, Points, Parents
    <2> QED
      BY <1>5, <2>1 DEF StartDelete, TypeOK
  <1>6. ASSUME NEW h \in Handlers, ReadParent(h)
        PROVE  TypeOK'
    <2> DEFINE q == request[h].to
    <2>1. CASE Refused(h)
      BY <2>1 DEF Refused, Answer, TypeOK
    <2>2. CASE ~Refused(h)
      <3>1. parent[q] \in Parents
        BY <1>6, <2>2 DEF ReadParent, Existing
      <3>2. request' = [request EXCEPT ![h].pc = "walk", ![h].above = parent[q],
                                       ![h].held = parent[q]]
        BY <1>6, <2>2 DEF ReadParent
      <3>3. request[h] \in Requests
        BY DEF TypeOK
      <3>4. request'[h] \in Requests
        BY <3>1, <3>2, <3>3 DEF Requests, Points, TypeOK
      <3> QED
        BY <1>6, <2>2, <3>2, <3>4 DEF ReadParent, TypeOK
    <2> QED
      BY <2>1, <2>2
  <1>7. ASSUME NEW h \in Handlers, CycleFound(h)
        PROVE  TypeOK'
    BY <1>7 DEF CycleFound, Refused, Answer, TypeOK
  <1>8. ASSUME NEW h \in Handlers, WalkUp(h)
        PROVE  TypeOK'
    <2>1. request[h] \in Requests
      BY DEF TypeOK
    <2>2. (IF request[h].above = request[h].to THEN request[h].held
           ELSE parent[request[h].above]) \in Parents
      BY <1>8, <2>1 DEF WalkUp, Requests, Existing
    <2>3. request'[h] \in Requests
      BY <1>8, <2>1, <2>2 DEF WalkUp, Requests, TypeOK
    <2> QED
      BY <1>8, <2>3 DEF WalkUp, TypeOK
  <1>9. ASSUME NEW h \in Handlers, WalkEnds(h)
        PROVE  TypeOK'
    <2>1. request'[h] \in Requests
      BY <1>9 DEF WalkEnds, Requests, Points, Parents, TypeOK
    <2> QED
      BY <1>9, <2>1 DEF WalkEnds, TypeOK
  <1>10. ASSUME NEW h \in Handlers, UpdateParent(h)
         PROVE  TypeOK'
    <2>1. request[h].to \in Parents
      BY DEF TypeOK, Requests
    <2> QED
      BY <1>10, <2>1 DEF UpdateParent, Refused, Answer, TypeOK
  <1>11. ASSUME NEW h \in Handlers, ListPages(h)
         PROVE  TypeOK'
    <2>1. request[h].pc = "list" /\ request[h].page \in Parents
      BY <1>11 DEF ListPages, TypeOK, Requests
    <2> DEFINE doomed == Below({request[h].page}) \union {request[h].page}
    <2>2. doomed \in SUBSET Parents
      BY <2>1, BelowExists DEF Existing, Parents
    <2> HIDE DEF doomed
    <2>3. request' = [request EXCEPT ![h].pc = "erase", ![h].page = Root, ![h].doomed = doomed]
      BY <1>11 DEF ListPages, doomed
    <2>4. request'[h] \in Requests
      BY <2>2, <2>3, ZenonT(30) DEF Requests, Points, Parents, TypeOK
    <2> QED
      BY <1>11, <2>3, <2>4 DEF ListPages, TypeOK
  <1>12. ASSUME NEW h \in Handlers, EraseSubtree(h)
         PROVE  TypeOK'
    BY <1>12 DEF EraseSubtree, Erase, Answer, TypeOK
  <1> QED
    BY <1>0, <1>1, <1>2, <1>3, <1>4, <1>5, <1>6, <1>7, <1>8, <1>9, <1>10, <1>11, <1>12
       DEF Next

-----------------------------------------------------------------------------
(* Parents exist, in the same workspace.                                   *)
LEMMA NextCases ==
    ASSUME NEW h \in Handlers,
           \/ \E w \in Workspaces, q \in Parents : StartCreate(h, w, q)
           \/ \E p \in Pages : InsertPage(h, p) \/ Rename(h, p) \/ StartDelete(h, p)
           \/ \E p \in Pages, q \in Parents, seen \in 1..MaxVersion : StartMove(h, p, q, seen)
           \/ ReadParent(h) \/ CycleFound(h) \/ WalkUp(h) \/ WalkEnds(h) \/ UpdateParent(h)
           \/ ListPages(h) \/ EraseSubtree(h)
    PROVE  \/ Reads(h) \/ \E p \in Pages : InsertPage(h, p)
           \/ UpdateParent(h) \/ EraseSubtree(h)
  BY DEF Reads

LEMMA ReadsKeepParents == ASSUME NEW h, Reads(h) PROVE parent' = parent
  BY DEF Reads, StartCreate, StartMove, StartDelete, Rename, ReadParent, CycleFound,
         WalkUp, WalkEnds, ListPages, Refused

(* A step of a request leaves the others as they are.                      *)
LEMMA OwnRequest ==
    ASSUME TypeOK, NEW h \in Handlers, NEW g \in Handlers, g # h,
           \/ Reads(h) \/ \E p \in Pages : InsertPage(h, p)
           \/ UpdateParent(h) \/ EraseSubtree(h)
    PROVE  request'[g] = request[g]
  BY DEF TypeOK, Reads, StartCreate, StartMove, StartDelete, Rename, ReadParent, CycleFound,
         WalkUp, WalkEnds, ListPages, InsertPage, UpdateParent, EraseSubtree, Refused, Answer

LEMMA BelowClosed ==
    ASSUME NEW S, NEW p \in Existing, parent[p] \in Below(S)
    PROVE  p \in Below(S)
  BY DEF Below, Closed

LEMMA ParentsStep ==
    ASSUME TreeInv, TypeOK', [Next]_vars
    PROVE  ParentInWorkspace'
  <1>0. CASE UNCHANGED vars
    BY <1>0 DEF vars, TreeInv, ParentInWorkspace, Existing
  <1>1. ASSUME NEW h \in Handlers, Reads(h)
        PROVE  ParentInWorkspace'
    BY <1>1, ReadsKeepParents DEF TreeInv, ParentInWorkspace, Existing
  <1>2. ASSUME NEW h \in Handlers, NEW p \in Pages, InsertPage(h, p)
        PROVE  ParentInWorkspace'
    <2>1. CASE Refused(h)
      BY <2>1 DEF Refused, TreeInv, ParentInWorkspace, Existing
    <2>2. CASE ~Refused(h)
      <3>1. /\ request[h].to \in Existing \union {Root}
            /\ parent' = [parent EXCEPT ![p] = request[h].to]
            /\ WorkspaceOf[p] = request[h].workspace
            /\ request[h].pc = "create" /\ parent[p] = Unused
        BY <1>2, <2>2 DEF InsertPage
      <3>2. request[h].to # Root => WorkspaceOf[request[h].to] = WorkspaceOf[p]
        BY <3>1 DEF TreeInv, Targets, OnTarget
      <3>3. Existing' = Existing \union {p}
        BY <3>1 DEF Existing, TreeInv, TypeOK, Parents
      <3> QED
        BY <3>1, <3>2, <3>3, ConstantsAssumption
        DEF TreeInv, ParentInWorkspace, TypeOK, Existing, Parents
    <2> QED
      BY <2>1, <2>2
  <1>3. ASSUME NEW h \in Handlers, UpdateParent(h)
        PROVE  ParentInWorkspace'
    <2> DEFINE p == request[h].page
    <2>1. CASE Refused(h)
      BY <2>1 DEF Refused, TreeInv, ParentInWorkspace, Existing
    <2>2. CASE ~Refused(h)
      <3>1. /\ request[h].to \in Existing \union {Root}
            /\ parent' = [parent EXCEPT ![p] = request[h].to]
            /\ request[h].pc = "update" /\ p \in Existing
        BY <1>3, <2>2 DEF UpdateParent
      <3>2. request[h].to # Root => WorkspaceOf[request[h].to] = WorkspaceOf[p]
        BY <3>1 DEF TreeInv, Targets, OnTarget
      <3>3. Existing' = Existing
        BY <3>1 DEF Existing, TreeInv, TypeOK, Parents
      <3> QED
        BY <3>1, <3>2, <3>3 DEF TreeInv, ParentInWorkspace, TypeOK, Existing
    <2> QED
      BY <2>1, <2>2
  <1>4. ASSUME NEW h \in Handlers, EraseSubtree(h)
        PROVE  ParentInWorkspace'
    <2> DEFINE gone == Below(request[h].doomed)
    <2>1. parent' = [p \in Pages |-> IF p \in gone THEN Deleted ELSE parent[p]]
      BY <1>4 DEF EraseSubtree, Erase
    <2>2. \A p \in Existing : parent[p] \in gone => p \in gone
      BY BelowClosed
    <2> HIDE DEF gone
    <2>3. Existing' = Existing \ gone
      BY <2>1, ConstantsAssumption DEF Existing, Parents
    <2> QED
      BY <2>1, <2>2, <2>3 DEF TreeInv, ParentInWorkspace, Existing
  <1> QED
    BY <1>0, <1>1, <1>2, <1>3, <1>4, NextCases DEF Next

LEMMA AnswerOnTarget ==
    ASSUME TypeOK, NEW h \in Handlers, Answer(h)
    PROVE  OnTarget(request'[h])
  BY DEF Answer, NoRequest, OnTarget, TypeOK

LEMMA ReadsOnTarget ==
    ASSUME TypeOK, NEW h \in Handlers, Reads(h), OnTarget(request[h])
    PROVE  OnTarget(request'[h])
  <1> request[h] \in Requests
    BY DEF TypeOK
  <1>1. ASSUME NEW w \in Workspaces, NEW q \in Parents, StartCreate(h, w, q)
        PROVE  OnTarget(request'[h])
    BY <1>1 DEF StartCreate, NoRequest, OnTarget, TypeOK
  <1>2. ASSUME NEW p \in Pages, NEW q \in Parents, NEW seen \in 1..MaxVersion,
               StartMove(h, p, q, seen)
        PROVE  OnTarget(request'[h])
    BY <1>2 DEF StartMove, NoRequest, OnTarget, TypeOK
  <1>3. ASSUME NEW p \in Pages, StartDelete(h, p)
        PROVE  OnTarget(request'[h])
    BY <1>3 DEF StartDelete, NoRequest, OnTarget, TypeOK
  <1>4. ASSUME NEW p \in Pages, Rename(h, p)
        PROVE  OnTarget(request'[h])
    BY <1>4, AnswerOnTarget DEF Rename
  <1>5. CASE ReadParent(h)
    BY <1>5, AnswerOnTarget DEF ReadParent, Refused, OnTarget, TypeOK, Requests
  <1>6. CASE CycleFound(h)
    BY <1>6, AnswerOnTarget DEF CycleFound, Refused
  <1>7. CASE WalkUp(h)
    BY <1>7 DEF WalkUp, OnTarget, TypeOK, Requests
  <1>8. CASE WalkEnds(h)
    BY <1>8 DEF WalkEnds, OnTarget, TypeOK, Requests
  <1>9. CASE ListPages(h)
    BY <1>9 DEF ListPages, OnTarget, TypeOK, Requests
  <1> QED
    BY <1>1, <1>2, <1>3, <1>4, <1>5, <1>6, <1>7, <1>8, <1>9 DEF Reads

LEMMA TargetsStep ==
    ASSUME TreeInv, [Next]_vars
    PROVE  Targets'
  <1> USE DEF TreeInv
  <1>0. CASE UNCHANGED vars
    BY <1>0 DEF vars, Targets
  <1>1. ASSUME NEW h \in Handlers,
               \/ Reads(h) \/ \E p \in Pages : InsertPage(h, p)
               \/ UpdateParent(h) \/ EraseSubtree(h)
        PROVE  Targets'
    <2>1. OnTarget(request[h])
      BY DEF Targets
    <2>2. OnTarget(request'[h])
      BY <1>1, <2>1, ReadsOnTarget, AnswerOnTarget
      DEF InsertPage, UpdateParent, EraseSubtree, Refused
    <2>3. ASSUME NEW g \in Handlers PROVE OnTarget(request'[g])
      <3>1. CASE g = h
        BY <2>2, <3>1
      <3>2. CASE g # h
        BY <1>1, <3>2, OwnRequest DEF Targets
      <3> QED
        BY <3>1, <3>2
    <2> QED
      BY <2>3 DEF Targets, OnTarget
  <1> QED
    BY <1>0, <1>1, NextCases DEF Next

LEMMA TreeInit == Init => TreeInv
  <1> SUFFICES ASSUME Init PROVE TreeInv
    OBVIOUS
  <1>1. Existing = {}
    BY ConstantsAssumption DEF Init, Existing, Parents
  <1> QED
    BY <1>1, TypeInit DEF TreeInv, Init, Targets, OnTarget, NoRequest, ParentInWorkspace

LEMMA TreeStep == TreeInv /\ [Next]_vars => TreeInv'
  BY TypeStep, TargetsStep, ParentsStep DEF TreeInv

(* Every variable of PageTree keeps its type.                              *)
THEOREM TypeCorrect == Spec => []TypeOK
  <1> QED
    BY TypeInit, TypeStep, PTL DEF Spec

(* Pages are only ever below existing pages of their own workspace,        *)
(* however many requests create, move and delete pages at once.            *)
THEOREM ParentsAreInWorkspace == Spec => []ParentInWorkspace
  <1>1. TreeInv => ParentInWorkspace
    BY DEF TreeInv
  <1> QED
    BY <1>1, TreeInit, TreeStep, PTL DEF Spec

-----------------------------------------------------------------------------
(* No cycles, as long as moves do not cross.                               *)

(* A page gets another parent while another request that moves a page      *)
(* walks up from its new parent, or has done so and not yet written.       *)
Crosses ==
    /\ parent' # parent
    /\ \E g, h \in Handlers :
          /\ g # h /\ UpdateParent(h) /\ request[h].to # Root
          /\ request[g].pc \in {"walk", "update"} /\ request[g].to # Root

(* In the tree, V leads to Root and the pages in `ends' only, and not      *)
(* through p.  Its identifiers have all been given out, so that none gets  *)
(* a new parent by being created.                                          *)
Apart(tree, V, p, ends) ==
    /\ V \in SUBSET Pages /\ p \notin V
    /\ \A x \in V : /\ tree[x] # Unused
                    /\ tree[x] \in Parents => tree[x] \in V \union ends

(* What the walk of a move has established: the pages it has visited.      *)
Walked(h) ==
    LET r == request[h]
    IN  /\ r.pc \in {"parent", "walk"} => h \in Movers /\ r.to # Root
        /\ r.pc = "update" => h \in Movers
        /\ r.pc = "walk" => \E V : r.to \in V /\ Apart(parent, V, r.page, {r.above, Root})
        /\ r.pc = "update" /\ r.to # Root
               => \E V : r.to \in V /\ Apart(parent, V, r.page, {Root})

Walks == \A h \in Handlers : Walked(h)

CycleInv == TreeInv /\ Walks /\ Acyclic

(* A page once created keeps its parent while it exists.                   *)
ParentsKept ==
    \A x \in Pages : parent[x] # Unused =>
        parent'[x] # Unused /\ (x \in Existing' => x \in Existing /\ parent'[x] = parent[x])

LEMMA ApartKept ==
    ASSUME ParentsKept, NEW V, NEW p, NEW ends, Apart(parent, V, p, ends)
    PROVE  Apart(parent', V, p, ends)
  BY DEF ParentsKept, Apart, Existing

LEMMA InsertKeepsParents ==
    ASSUME TypeOK, NEW h \in Handlers, NEW p \in Pages, InsertPage(h, p)
    PROVE  ParentsKept
  BY ConstantsAssumption DEF ParentsKept, InsertPage, Refused, TypeOK, Existing

LEMMA EraseKeepsParents ==
    ASSUME NEW h \in Handlers, EraseSubtree(h)
    PROVE  ParentsKept
  BY ConstantsAssumption DEF ParentsKept, EraseSubtree, Erase, Existing, Parents

LEMMA ReadsKeepParentsKept ==
    ASSUME NEW h \in Handlers, Reads(h)
    PROVE  ParentsKept
  BY ReadsKeepParents DEF ParentsKept, Existing

LEMMA AnswerWalked ==
    ASSUME TypeOK, NEW h \in Handlers, Answer(h)
    PROVE  Walked(h)'
  BY DEF Answer, NoRequest, Walked, TypeOK

(* The walk starts from the new parent ...                                 *)
LEMMA WalkFromParent ==
    ASSUME TreeInv, NEW h \in Handlers, ReadParent(h), Walked(h)
    PROVE  Walked(h)'
  <1> DEFINE q == request[h].to
             p == request[h].page
  <1>1. CASE Refused(h)
    BY <1>1, AnswerWalked DEF Refused, TreeInv
  <1>2. CASE ~Refused(h)
    <2>1. /\ q \in Existing
          /\ request' = [request EXCEPT ![h].pc = "walk", ![h].above = parent[q],
                                        ![h].held = parent[q]]
          /\ parent' = parent /\ request[h].pc = "parent"
      BY <1>2 DEF ReadParent, Refused
    <2>2. p \in Pages /\ q # p /\ h \in Movers /\ q # Root
      BY <2>1 DEF TreeInv, Targets, OnTarget, Walked
    <2>3. /\ request'[h].pc = "walk" /\ request'[h].to = q /\ request'[h].page = p
          /\ request'[h].above = parent[q]
      BY <2>1 DEF TreeInv, TypeOK, Requests
    <2>4. Apart(parent', {q}, p, {parent[q], Root})
      BY <2>1, <2>2, ConstantsAssumption DEF Apart, Existing, Parents
    <2> QED
      BY <2>2, <2>3, <2>4 DEF Walked
  <1> QED
    BY <1>1, <1>2

(* ... adds a page at each step ...                                        *)
LEMMA WalkAddsPage ==
    ASSUME TreeInv, NEW h \in Handlers, WalkUp(h), Walked(h)
    PROVE  Walked(h)'
  <1> DEFINE above == request[h].above
             to == request[h].to
             p == request[h].page
             next == IF above = to THEN request[h].held ELSE parent[above]
  <1>1. /\ request[h].pc = "walk" /\ above \notin {p, Root}
        /\ above \in Existing \union {to} /\ parent' = parent
        /\ request' = [request EXCEPT ![h].above = next]
    BY DEF WalkUp
  <1>2. /\ request'[h].pc = "walk" /\ request'[h].to = to /\ request'[h].page = p
        /\ request'[h].above = next
    BY <1>1 DEF TreeInv, TypeOK, Requests
  <1>3. PICK V : to \in V /\ Apart(parent, V, p, {above, Root})
    BY <1>1 DEF Walked
  <1>4. h \in Movers /\ to # Root
    BY <1>1 DEF Walked
  <1>5. CASE above = to
    <2>1. Apart(parent', V, p, {next, Root})
      BY <1>1, <1>3, <1>5 DEF Apart, Parents
    <2> QED
      BY <1>2, <1>3, <1>4, <2>1 DEF Walked
  <1>6. CASE above # to
    <2>1. above \in Existing /\ next = parent[above] /\ parent[above] \in Parents
      BY <1>1, <1>6 DEF Existing
    <2>2. Apart(parent', V \union {above}, p, {next, Root})
      BY <1>1, <1>3, <2>1, ConstantsAssumption DEF Apart, Existing, Parents
    <2> QED
      BY <1>2, <1>3, <1>4, <2>2 DEF Walked
  <1> QED
    BY <1>5, <1>6

(* ... and ends where nothing leads further.                               *)
LEMMA WalkIsComplete ==
    ASSUME TreeInv, NEW h \in Handlers, WalkEnds(h), Walked(h)
    PROVE  Walked(h)'
  <1> DEFINE above == request[h].above
             to == request[h].to
             p == request[h].page
  <1>1. /\ request[h].pc = "walk" /\ parent' = parent
        /\ above = Root \/ above \notin Existing
        /\ request' = [request EXCEPT ![h].pc = "update", ![h].above = Root, ![h].held = Root]
    BY DEF WalkEnds
  <1>2. request'[h].pc = "update" /\ request'[h].to = to /\ request'[h].page = p
    BY <1>1 DEF TreeInv, TypeOK, Requests
  <1>3. PICK V : to \in V /\ Apart(parent, V, p, {above, Root})
    BY <1>1 DEF Walked
  <1>4. \A x \in Existing : parent[x] # Root => parent[x] \in Existing
    BY DEF TreeInv, ParentInWorkspace
  <1>5. Apart(parent', V, p, {Root})
    BY <1>1, <1>3, <1>4 DEF Apart, Existing
  <1>6. h \in Movers
    BY <1>1 DEF Walked
  <1> QED
    BY <1>2, <1>3, <1>5, <1>6 DEF Walked

LEMMA ReadsWalked ==
    ASSUME TreeInv, NEW h \in Handlers, Reads(h), Walked(h)
    PROVE  Walked(h)'
  <1> TypeOK /\ request[h] \in Requests
    BY DEF TreeInv, TypeOK
  <1>1. ASSUME NEW w \in Workspaces, NEW q \in Parents, StartCreate(h, w, q)
        PROVE  Walked(h)'
    BY <1>1 DEF StartCreate, NoRequest, Walked, TypeOK
  <1>2. ASSUME NEW p \in Pages, NEW q \in Parents, NEW seen \in 1..MaxVersion,
               StartMove(h, p, q, seen)
        PROVE  Walked(h)'
    BY <1>2 DEF StartMove, NoRequest, Walked, TypeOK
  <1>3. ASSUME NEW p \in Pages, StartDelete(h, p)
        PROVE  Walked(h)'
    BY <1>3 DEF StartDelete, NoRequest, Walked, TypeOK
  <1>4. ASSUME NEW p \in Pages, Rename(h, p)
        PROVE  Walked(h)'
    BY <1>4, AnswerWalked DEF Rename
  <1>5. CASE CycleFound(h)
    BY <1>5, AnswerWalked DEF CycleFound, Refused
  <1>6. CASE ListPages(h)
    <2>1. request'[h].pc = "erase"
      BY <1>6 DEF ListPages, TypeOK, Requests
    <2> QED
      BY <2>1 DEF Walked
  <1> QED
    BY <1>1, <1>2, <1>3, <1>4, <1>5, <1>6, WalkFromParent, WalkAddsPage, WalkIsComplete
    DEF Reads

LEMMA WalksStep ==
    ASSUME TreeInv, Walks, [Next]_vars, [~Crosses]_vars
    PROVE  Walks'
  <1> TypeOK
    BY DEF TreeInv
  <1>0. CASE UNCHANGED vars
    BY <1>0 DEF vars, Walks, Walked
  <1>1. ASSUME NEW h \in Handlers,
               \/ Reads(h) \/ \E p \in Pages : InsertPage(h, p)
               \/ UpdateParent(h) \/ EraseSubtree(h)
        PROVE  Walks'
    <2>1. Walked(h)'
      BY <1>1, ReadsWalked, AnswerWalked
      DEF Walks, InsertPage, UpdateParent, EraseSubtree, Refused
    <2>2. ASSUME NEW g \in Handlers, g # h PROVE Walked(g)'
      <3>1. request'[g] = request[g] /\ Walked(g)
        BY <1>1, <2>2, OwnRequest DEF Walks
      <3>2. CASE UpdateParent(h)
        <4>1. CASE parent' = parent
          BY <3>1, <4>1 DEF Walked
        <4>2. CASE parent' # parent /\ request[h].to = Root
          <5>1. \A x \in Pages : parent'[x] = parent[x] \/ parent'[x] = Root
            BY <3>2, <4>2 DEF UpdateParent, Refused, TypeOK
          <5>2. ASSUME NEW V, NEW p, NEW ends, Root \in ends, Apart(parent, V, p, ends)
                PROVE  Apart(parent', V, p, ends)
            BY <5>1, <5>2, ConstantsAssumption DEF Apart, Parents
          <5> QED
            BY <3>1, <5>2 DEF Walked
        <4>3. CASE parent' # parent /\ request[h].to # Root
          <5>1. ~(request[g].pc \in {"walk", "update"} /\ request[g].to # Root)
            BY <2>2, <3>2, <4>3 DEF Crosses, vars
          <5>2. request[g].pc # "walk"
            BY <5>1 DEF Walks, Walked
          <5> QED
            BY <3>1, <5>1, <5>2 DEF Walked
        <4> QED
          BY <4>1, <4>2, <4>3
      <3>3. CASE ~UpdateParent(h)
        <4>1. ParentsKept
          BY <1>1, <3>3, InsertKeepsParents, EraseKeepsParents, ReadsKeepParentsKept
        <4> QED
          BY <3>1, <4>1, ApartKept DEF Walked
      <3> QED
        BY <3>2, <3>3
    <2> QED
      BY <2>1, <2>2 DEF Walks
  <1> QED
    BY <1>0, <1>1, NextCases DEF Next

-----------------------------------------------------------------------------
(* Fewer pages, with the parents they had, have no new cycle.              *)
LEMMA AcyclicKept ==
    ASSUME Acyclic, Existing' \subseteq Existing, \A p \in Existing' : parent'[p] = parent[p]
    PROVE  Acyclic'
  BY DEF Acyclic

(* A new page is nobody's parent.                                          *)
LEMMA AcyclicInsert ==
    ASSUME TreeInv, Acyclic, NEW h \in Handlers, NEW p \in Pages, InsertPage(h, p)
    PROVE  Acyclic'
  <1>1. CASE Refused(h)
    BY <1>1 DEF Refused, Acyclic, Existing
  <1>2. CASE ~Refused(h)
    <2>1. /\ request[h].to \in Existing \union {Root} /\ parent[p] = Unused
          /\ parent' = [parent EXCEPT ![p] = request[h].to]
      BY <1>2 DEF InsertPage
    <2>2. p \notin Existing /\ Existing' = Existing \union {p}
      BY <2>1, ConstantsAssumption DEF Existing, TreeInv, TypeOK, Parents
    <2>3. /\ parent'[p] # p
          /\ \A x \in Existing : parent'[x] = parent[x] /\ parent[x] # p
      BY <2>1, <2>2, ConstantsAssumption
      DEF TreeInv, TypeOK, ParentInWorkspace, Existing, Parents
    <2>4. ASSUME NEW S \in SUBSET Existing', S # {}
          PROVE  \E x \in S : parent'[x] \notin S
      <3>1. CASE S \ {p} = {}
        BY <2>3, <2>4, <3>1
      <3>2. CASE S \ {p} # {}
        <4>1. PICK x \in S \ {p} : parent[x] \notin S \ {p}
          BY <2>2, <3>2 DEF Acyclic
        <4> QED
          BY <2>2, <2>3, <4>1
      <3> QED
        BY <3>1, <3>2
    <2> QED
      BY <2>4 DEF Acyclic
  <1> QED
    BY <1>1, <1>2

(* A page moved below one that does not lead to it closes no cycle.        *)
LEMMA AcyclicMove ==
    ASSUME TreeInv, Walks, Acyclic, NEW h \in Handlers, UpdateParent(h)
    PROVE  Acyclic'
  <1> DEFINE p == request[h].page
             q == request[h].to
  <1>1. CASE Refused(h)
    BY <1>1 DEF Refused, Acyclic, Existing
  <1>2. CASE ~Refused(h)
    <2>1. /\ p \in Existing /\ q \in Existing \union {Root}
          /\ parent' = [parent EXCEPT ![p] = q] /\ request[h].pc = "update"
      BY <1>2 DEF UpdateParent
    <2>2. Existing' = Existing
      BY <2>1 DEF Existing, TreeInv, TypeOK, Parents
    <2>3. parent'[p] = q /\ \A x \in Pages : x # p => parent'[x] = parent[x]
      BY <2>1 DEF TreeInv, TypeOK, Existing
    <2> HIDE DEF p, q
    <2>4. ASSUME NEW S \in SUBSET Existing, S # {}
          PROVE  \E x \in S : parent'[x] \notin S
      <3>1. CASE p \notin S
        BY <2>3, <2>4, <3>1 DEF Acyclic, Existing
      <3>2. CASE q \notin S
        <4>1. CASE p \in S
          BY <2>3, <3>2, <4>1
        <4> QED
          BY <3>1, <4>1
      <3>3. CASE p \in S /\ q \in S
        <4>1. q # Root
          BY <3>3, ConstantsAssumption DEF Existing
        <4>2. PICK V : q \in V /\ Apart(parent, V, p, {Root})
          BY <2>1, <4>1 DEF Walks, Walked, p, q
        <4>3. S \cap V # {} /\ S \cap V \in SUBSET Existing
          BY <3>3, <4>2
        <4>4. PICK x \in S \cap V : parent[x] \notin S \cap V
          BY <4>3 DEF Acyclic
        <4>5. x # p /\ parent[x] \in V \union {Root} /\ x \in Pages
          BY <4>2, <4>4 DEF Apart, Existing
        <4>6. Root \notin S
          BY ConstantsAssumption DEF Existing
        <4> QED
          BY <2>3, <4>4, <4>5, <4>6
      <3> QED
        BY <3>1, <3>2, <3>3
    <2> QED
      BY <2>2, <2>4 DEF Acyclic
  <1> QED
    BY <1>1, <1>2

LEMMA AcyclicStep ==
    ASSUME TreeInv, Walks, Acyclic, [Next]_vars
    PROVE  Acyclic'
  <1>0. CASE UNCHANGED vars
    BY <1>0 DEF vars, Acyclic, Existing
  <1>1. ASSUME NEW h \in Handlers, Reads(h) PROVE Acyclic'
    BY <1>1, ReadsKeepParents, AcyclicKept DEF Existing
  <1>2. ASSUME NEW h \in Handlers, EraseSubtree(h) PROVE Acyclic'
    <2>1. Existing' \subseteq Existing /\ \A p \in Existing' : parent'[p] = parent[p]
      BY <1>2, ConstantsAssumption DEF EraseSubtree, Erase, Existing, Parents
    <2> QED
      BY <2>1, AcyclicKept
  <1> QED
    BY <1>0, <1>1, <1>2, AcyclicInsert, AcyclicMove, NextCases DEF Next

LEMMA CycleInit == Init => CycleInv
  <1> SUFFICES ASSUME Init PROVE CycleInv
    OBVIOUS
  <1>1. Existing = {}
    BY ConstantsAssumption DEF Init, Existing, Parents
  <1> QED
    BY <1>1, TreeInit DEF CycleInv, Init, Walks, Walked, NoRequest, Acyclic

LEMMA NeverCyclic == Spec /\ [][~Crosses]_vars => []CycleInv
  <1>1. CycleInv /\ [Next]_vars /\ [~Crosses]_vars => CycleInv'
    BY TreeStep, WalksStep, AcyclicStep DEF CycleInv
  <1> QED
    BY <1>1, CycleInit, PTL DEF Spec

(* As long as no move commits between another one's reads and its update,  *)
(* no page is ever below itself, however many requests move pages, and     *)
(* although pages are created, renamed, moved to the top and deleted all   *)
(* the while between the reads of is_descendant and the update.            *)
THEOREM NoCycles == Spec /\ [][~Crosses]_vars => []Acyclic
  <1>1. CycleInv => Acyclic
    BY DEF CycleInv
  <1> QED
    BY <1>1, NeverCyclic, PTL

(* One request alone that moves pages is never crossed, and so never makes *)
(* a cycle.                                                                *)
OneMover == \A g, h \in Movers : g = h

COROLLARY NoCyclesWithOneMover ==
    ASSUME OneMover
    PROVE  Spec => []Acyclic
  <1>1. Walks => ~Crosses
    BY DEF Walks, Walked, Crosses, UpdateParent, OneMover
  <1>2. CycleInv /\ [Next]_vars => CycleInv'
    BY <1>1, TreeStep, WalksStep, AcyclicStep DEF CycleInv
  <1>3. CycleInv => Acyclic
    BY DEF CycleInv
  <1> QED
    BY <1>2, <1>3, CycleInit, PTL DEF Spec

(* A hierarchy without cycles whose parents are in the workspace hangs     *)
(* from its roots: of the pages left out, one has a parent that is not,    *)
(* and then it is a root or is hung below a page that is shown.            *)
LEMMA TreeIsShown ==
    ASSUME TypeOK, Acyclic, ParentInWorkspace
    PROVE  EveryPageIsShown
  <1> SUFFICES ASSUME NEW w \in Workspaces PROVE Shown(w) = Listing(w)
    BY DEF EveryPageIsShown
  <1> DEFINE Lost == Listing(w) \ Below(Roots(w))
  <1>1. SUFFICES ASSUME Lost # {} PROVE FALSE
    BY DEF Shown
  <1>2. Lost \in SUBSET Existing
    BY DEF Listing
  <1>3. PICK p \in Lost : parent[p] \notin Lost
    BY <1>1, <1>2 DEF Acyclic
  <1>4. p \in Existing /\ p \in Listing(w) /\ WorkspaceOf[p] = w /\ p \notin Below(Roots(w))
    BY <1>3 DEF Listing
  <1>5. CASE parent[p] \notin Listing(w)
    <2>1. p \in Roots(w) \intersect Existing
      BY <1>4, <1>5 DEF Roots
    <2> QED
      BY <1>4, <2>1 DEF Below
  <1>6. CASE parent[p] \in Listing(w)
    <2>1. parent[p] \in Below(Roots(w))
      BY <1>3, <1>6
    <2> QED
      BY <1>4, <2>1, BelowClosed
  <1> QED
    BY <1>5, <1>6

(* buildPageTree then shows every page of every workspace, after any       *)
(* sequence of creations, moves and deletions.                             *)
THEOREM SidebarIsComplete == Spec /\ [][~Crosses]_vars => []EveryPageIsShown
  <1>1. CycleInv => EveryPageIsShown
    BY TreeIsShown DEF CycleInv, TreeInv
  <1> QED
    BY <1>1, NeverCyclic, PTL
=============================================================================

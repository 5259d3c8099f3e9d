----------------------------- MODULE BlockOrder -----------------------------
(***************************************************************************)
(* The blocks of one page: services/block_service.py and                   *)
(* db/repositories/block_repository.py under run_mutation.                 *)
(*                                                                         *)
(* A request reads before its first write without holding a lock; from its *)
(* first write to its commit it is one serialised transaction.  The table  *)
(* has a constraint UNIQUE(page_id, position) that SQLite checks row by    *)
(* row while a statement runs, in rowid order, which is creation order.    *)
(***************************************************************************)
EXTENDS Naturals, FiniteSets, Sequences, SequencesExt, Functions

CONSTANTS
    Handlers,       \* concurrent requests about the page
    Blocks,         \* identifiers of blocks, never reused
    MaxVersion,     \* version after which a block is left alone (bound)
    MaxPosition,    \* highest position a client asks for (bound)
    Environment     \* what clients do besides creating blocks

EnvironmentKinds == {"reorder", "edit", "move", "delete"}

ASSUME BoundsAssumption == MaxVersion \in Nat /\ MaxPosition \in Nat
ASSUME EnvironmentAssumption == Environment \subseteq EnvironmentKinds

VARIABLES
    rows,       \* the blocks in the order of their rowids
    position,   \* their positions
    version,    \* their versions
    used,       \* identifiers that have been given out
    request     \* what each request has read

vars == <<rows, position, version, used, request>>

Page == {rows[i] : i \in 1..Len(rows)}

Points == {"idle", "create", "reorder", "measured"}
Requests(seen) == [pc: Points,
                   index: Nat,          \* the requested position
                   order: Seq(Blocks),  \* blocks as read or requested
                   seen: {seen},        \* their positions or versions
                   size: Nat]           \* number of blocks read last
NoRequest == [pc |-> "idle", index |-> 0, order |-> <<>>,
              seen |-> [b \in {} |-> 0], size |-> 0]

TypeOK ==
    /\ rows \in Seq(Blocks)
    /\ position \in [Page -> Nat] /\ IsInjective(position)
    /\ version \in [Page -> Nat \ {0}]
    /\ used \in SUBSET Blocks /\ Page \subseteq used
    /\ DOMAIN request = Handlers
    /\ \A h \in Handlers :
          LET seen == request[h].seen
          IN  /\ request[h] \in Requests(seen)
              /\ DOMAIN seen \in SUBSET Blocks /\ seen \in [DOMAIN seen -> Nat]

Init ==
    /\ rows = <<>>
    /\ position = [b \in {} |-> 0]
    /\ version = [b \in {} |-> 0]
    /\ used = {}
    /\ request = [h \in Handlers |-> NoRequest]

-----------------------------------------------------------------------------
(* list_for_page                                                           *)
ByPosition ==
    CHOOSE s \in [1..Len(rows) -> Page] :
        \A i, j \in 1..Len(rows) : i < j => position[s[i]] < position[s[j]]

Answer(h) == request' = [request EXCEPT ![h] = NoRequest]

Index(s, b) == CHOOSE i \in 1..Len(s) : s[i] = b

(* UPDATE blocks SET position = position + offset: a row may not land on   *)
(* one that has not been moved yet.                                        *)
OffsetConflict(offset) ==
    \E i, j \in 1..Len(rows) :
        i < j /\ position[rows[i]] + offset = position[rows[j]]

(* The updates that follow give the blocks of `order' their targets, one   *)
(* after the other; the others still have their offset.                    *)
TargetConflict(order, target, offset) ==
    \E i \in 1..Len(order) : \E c \in Page \ {order[k] : k \in 1..i} :
        order[i] \in Page /\ position[c] + offset = target[order[i]]

(* Faulty variant: no constraint on the positions of a page.               *)
NeverTaken(at) == FALSE

Taken(at) == \E c \in Page : position[c] = at

Moved(target, offset) ==
    [b \in Page |-> IF b \in DOMAIN target THEN target[b] ELSE position[b] + offset]

-----------------------------------------------------------------------------
(* BlockService.create_block: read ...                                     *)
Create(h, index) ==
    /\ request[h].pc = "idle"
    /\ used # Blocks
    /\ request' = [request EXCEPT ![h] =
                      [NoRequest EXCEPT !.pc = "create", !.index = index,
                                        !.order = ByPosition, !.seen = position]]
    /\ UNCHANGED <<rows, position, version, used>>

Insert(b, at, positions) ==
    /\ rows' = Append(rows, b)
    /\ position' = [c \in Page \union {b} |-> IF c = b THEN at ELSE positions[c]]
    /\ version' = [c \in Page \union {b} |-> IF c = b THEN 1 ELSE version[c]]
    /\ used' = used \union {b}

(* 409: run_mutation rolls back.                                           *)
Rejected(h) ==
    /\ Answer(h)
    /\ UNCHANGED <<rows, position, version, used>>

(* ... then append after the last block read,                              *)
AppendBlock(h, b) ==
    LET seen == request[h].seen
        order == request[h].order
        at == IF order = <<>> THEN 0 ELSE seen[Last(order)] + 1
    IN  /\ request[h].pc = "create" /\ request[h].index >= Len(order)
        /\ b \notin used
        /\ IF Taken(at) THEN Rejected(h)
           ELSE Insert(b, at, position) /\ Answer(h)

InsertPosition(h) == request[h].seen[request[h].order[request[h].index + 1]]

(* Faulty variant: the block at the index does not make room.              *)
ShiftedBehind(h) ==
    LET seen == request[h].seen
    IN  [c \in DOMAIN seen |-> IF seen[c] > InsertPosition(h) THEN seen[c] + 1 ELSE seen[c]]

(* Faulty variant: only the block at the index makes room.                 *)
ShiftedOnce(h) ==
    LET seen == request[h].seen
    IN  [c \in DOMAIN seen |->
            IF seen[c] = InsertPosition(h) THEN Len(request[h].order) + 1 ELSE seen[c]]

(* The blocks read at or behind the index move up by one.                  *)
Shifted(h) ==
    LET seen == request[h].seen
    IN  [c \in DOMAIN seen |-> IF seen[c] >= InsertPosition(h) THEN seen[c] + 1 ELSE seen[c]]

(* ... or make room in front of the block read at the index.               *)
InsertBlock(h, b) ==
    LET order == request[h].order
        offset == Len(order) + 1
        positions == Moved(Shifted(h), offset)
    IN  /\ request[h].pc = "create" /\ request[h].index < Len(order)
        /\ b \notin used
        /\ IF \/ OffsetConflict(offset)
              \/ TargetConflict(order, Shifted(h), offset)
              \/ \E c \in Page : positions[c] = InsertPosition(h)
           THEN Rejected(h)
           ELSE Insert(b, InsertPosition(h), positions) /\ Answer(h)

-----------------------------------------------------------------------------
(* BlockService.reorder_blocks: the client names every block once, with    *)
(* the versions it saw.                                                    *)
Reorder(h, order, seen) ==
    /\ "reorder" \in Environment
    /\ request[h].pc = "idle"
    /\ \A b \in DOMAIN seen : seen[b] <= MaxVersion
    /\ IF seen # version THEN Rejected(h)
       ELSE /\ request' = [request EXCEPT ![h] =
                              [NoRequest EXCEPT !.pc = "reorder", !.order = order,
                                                !.seen = seen]]
            /\ UNCHANGED <<rows, position, version, used>>

(* reorder_for_page reads the blocks again, for their number.              *)
Measure(h) ==
    /\ request[h].pc = "reorder"
    /\ request' = [request EXCEPT ![h].pc = "measured", ![h].size = Len(rows)]
    /\ UNCHANGED <<rows, position, version, used>>

(* Faulty variant: numbers the blocks in the order they were read.         *)
NumberedAsRead(order) == [b \in ToSet(order) \cap Page |-> Index(ByPosition, b) - 1]

Numbered(order) == [b \in ToSet(order) |-> Index(order, b) - 1]

ReorderBlocks(h) ==
    /\ request[h].pc = "measured"
    /\ LET order == request[h].order
           offset == request[h].size + 1
       IN  IF OffsetConflict(offset) \/ TargetConflict(order, Numbered(order), offset)
           THEN Rejected(h)
           ELSE /\ position' = Moved(Numbered(order), offset)
                /\ version' = [b \in Page |->
                                  IF b \in ToSet(order) THEN version[b] + 1 ELSE version[b]]
                /\ Answer(h)
                /\ UNCHANGED <<rows, used>>

-----------------------------------------------------------------------------
(* Single statements: update_with_version (its content or its position)    *)
(* and delete_by_id.                                                       *)
EditBlock(h, b) ==
    /\ "edit" \in Environment
    /\ request[h].pc = "idle"
    /\ b \in Page /\ version[b] <= MaxVersion
    /\ version' = [version EXCEPT ![b] = @ + 1]
    /\ Answer(h)
    /\ UNCHANGED <<rows, position, used>>

MoveBlock(h, b, to) ==
    /\ "move" \in Environment
    /\ request[h].pc = "idle"
    /\ b \in Page /\ version[b] <= MaxVersion
    /\ IF position[b] # to /\ Taken(to) THEN Rejected(h)
       ELSE /\ position' = [position EXCEPT ![b] = to]
            /\ version' = [version EXCEPT ![b] = @ + 1]
            /\ Answer(h)
            /\ UNCHANGED <<rows, used>>

DeleteBlock(h, b) ==
    /\ "delete" \in Environment
    /\ request[h].pc = "idle"
    /\ b \in Page
    /\ rows' = RemoveAt(rows, Index(rows, b))
    /\ position' = [c \in Page \ {b} |-> position[c]]
    /\ version' = [c \in Page \ {b} |-> version[c]]
    /\ Answer(h)
    /\ UNCHANGED used

(* What a client may have loaded: the page as it is, or one block older.   *)
Views == {version} \union
             {[version EXCEPT ![b] = @ - 1] : b \in {c \in Page : version[c] > 1}}

Next ==
    \E h \in Handlers :
        \/ \E index \in 0..Len(rows) : Create(h, index)
        \/ \E b \in Blocks : AppendBlock(h, b) \/ InsertBlock(h, b)
        \/ \E order \in SetToSeqs(Page), seen \in Views : Reorder(h, order, seen)
        \/ Measure(h) \/ ReorderBlocks(h)
        \/ \E b \in Page :
              \/ EditBlock(h, b) \/ DeleteBlock(h, b)
              \/ \E to \in 0..MaxPosition : MoveBlock(h, b, to)

Spec == Init /\ [][Next]_vars

-----------------------------------------------------------------------------
(* Properties                                                              *)

Answers(h) == request[h].pc # "idle" /\ request'[h].pc = "idle"
Inserts(h) == Answers(h) /\ request[h].pc = "create" /\ used' # used
Reorders(h) == Answers(h) /\ request[h].pc = "measured" /\ version' # version

(* The blocks a request read still have the positions, or versions, that   *)
(* it read.                                                                *)
PositionsHold(h) == request[h].seen = position
VersionsHold(h) == request[h].seen = version /\ request[h].size = Len(rows)

(* BlockRepository.create shifts every block out of the way and back: a    *)
(* block inserted into a page that kept its positions since it was read    *)
(* leaves the other blocks in the order they had, gaps or none, and ends up*)
(* where the client asked for it, behind `index' others or behind them all.*)
InsertPlacesBlock ==
    [][\A h \in Handlers :
          Inserts(h) /\ PositionsHold(h) =>
              /\ \A a, b \in Page : position[a] < position[b] => position'[a] < position'[b]
              /\ \A b \in used' \ used :
                    Cardinality({a \in Page : position'[a] < position'[b]}) =
                        (IF request[h].index < Len(rows) THEN request[h].index
                         ELSE Len(rows))]_vars

(* BlockRepository.reorder_for_page: whatever happened since its reads, a  *)
(* successful reorder leaves the blocks it names that still exist in the   *)
(* order asked for.  The blocks it does not name, created meanwhile, come  *)
(* behind them if no block was deleted before it counted the rows.         *)
ReorderApplied ==
    [][\A h \in Handlers :
          Reorders(h) =>
              LET order == request[h].order
                  named == ToSet(order) \cap Page
              IN  /\ \A i, j \in 1..Len(order) :
                         i < j /\ order[i] \in Page /\ order[j] \in Page
                             => position'[order[i]] < position'[order[j]]
                  /\ Len(order) <= request[h].size =>
                         \A a \in named, b \in Page \ named :
                            position'[a] < position'[b]]_vars

(* Positions are the numbers 0 to n - 1.                                   *)
Dense == {position[b] : b \in Page} = 0..(Len(rows) - 1)

(* create and reorder_for_page: on a page without gaps that did not change *)
(* since the request read it, moving the rows aside never meets the UNIQUE *)
(* constraint, so that nobody is told of a conflict where there is none.   *)
(* (On a page with gaps a request alone may be refused.)                   *)
NoFalseConflict ==
    [][\A h \in Handlers :
          Answers(h) /\ Dense =>
              /\ request[h].pc = "create" /\ PositionsHold(h) => Inserts(h)
              /\ request[h].pc = "measured" /\ VersionsHold(h) /\ rows # <<>>
                     => Reorders(h)]_vars
=============================================================================

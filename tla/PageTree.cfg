SPECIFICATION FairSpec
CONSTANTS
    h1 = h1
    h2 = h2
    p1 = p1
    p2 = p2
    p3 = p3
    q1 = q1
    w1 = w1
    w2 = w2
    Root = Root
    Unused = Unused
    Deleted = Deleted
    Handlers <- TwoHandlers
    Movers <- OneMover
    Pages <- FourPages
    Workspaces <- TwoWorkspaces
    WorkspaceOf <- Placement
    MaxVersion = 1
INVARIANTS
    Acyclic
    ParentInWorkspace
    EveryPageIsShown
PROPERTIES
    MoveEnds
CHECK_DEADLOCK FALSE

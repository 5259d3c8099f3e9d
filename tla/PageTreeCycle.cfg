SPECIFICATION Spec
CONSTANTS
    h1 = h1
    h2 = h2
    p1 = p1
    p2 = p2
    p3 = p3
    q1 = q1
    w1 = w1
    w2 = w2
    Root = Root
    Unused = Unused
    Deleted = Deleted
    Handlers <- TwoHandlers
    Movers <- TwoHandlers
    Pages <- ThreePages
    Workspaces <- OneWorkspace
    WorkspaceOf <- Placement
    MaxVersion = 1
INVARIANTS
    Acyclic
CHECK_DEADLOCK FALSE

SPECIFICATION Spec
CONSTANTS
    t1 = t1
    t2 = t2
    b1 = b1
    Title = Title
    Tasks <- TwoTasks
    m1 = m1
    m2 = m2
    NoModel = NoModel
    Blocks <- OneBlock
    Models <- OneModel
    MaxRevision = 2
    MaxGeneration = 2
    Environment <- Edits
SYMMETRY Symmetry
CHECK_DEADLOCK FALSE
INVARIANTS
    ReadyIsCurrent
    VectorMatchesText
    WaitingHasTask

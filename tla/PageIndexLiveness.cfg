SPECIFICATION FairSpec
CONSTANTS
    t1 = t1
    t2 = t2
    b1 = b1
    Title = Title
    Tasks <- TwoTasks
    m1 = m1
    m2 = m2
    NoModel = NoModel
    Blocks <- OneBlock
    Models <- TwoModels
    MaxRevision = 1
    MaxGeneration = 1
    Environment <- Failures
CHECK_DEADLOCK FALSE
PROPERTIES
    IndexingEnds
INVARIANTS
    VectorsOfOneModel
    ReadyIsCurrent

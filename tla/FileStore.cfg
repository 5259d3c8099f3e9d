SPECIFICATION FairSpec
CONSTANTS
    h1 = h1
    h2 = h2
    h3 = h3
    f1 = f1
    NoFile = NoFile
    Handlers <- ThreeHandlers
    Files <- OneFile
    MaxGeneration = 3
    Environment <- Everything
INVARIANTS
    RowHasContent
    ContentIsOwned
    UnlinkFindsContent
PROPERTIES
    OldTaskWritesNothing
    FileIndexingEnds
CHECK_DEADLOCK FALSE

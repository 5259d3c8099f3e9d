SPECIFICATION Spec
CONSTANTS
    h1 = h1
    h2 = h2
    m1 = m1
    m2 = m2
    NoModel = NoModel
    Handlers <- TwoHandlers
    Models <- TwoModels
    Rank <- CatalogOrder
    Recommended = m2
    Environment <- EnvironmentKinds
INVARIANTS
    JobsMatchStreams
    SelectionIsInstalled
SYMMETRY Symmetry
CHECK_DEADLOCK FALSE

SPECIFICATION Spec
CONSTANTS
    h1 = h1
    h2 = h2
    b1 = b1
    b2 = b2
    b3 = b3
    Handlers <- TwoHandlers
    Blocks <- ThreeBlocks
    MaxVersion = 1
    MaxPosition = 3
    Environment <- Everything
SYMMETRY Symmetry
INVARIANTS
    TypeOK
PROPERTIES
    InsertPlacesBlock
    ReorderApplied
    NoFalseConflict
CHECK_DEADLOCK FALSE

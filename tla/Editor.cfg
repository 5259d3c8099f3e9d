SPECIFICATION Spec
CONSTANTS
    e1 = e1
    e2 = e2
    c1 = c1
    c2 = c2
    NoContent = NoContent
    MaxVersion = 4
    Editors <- TwoEditors
    Contents <- TwoContents
    Environment <- EnvironmentKinds
INVARIANTS
    OwnSavesNeverConflict
    SavedOrTold
PROPERTIES
    NoSilentOverwrite
SYMMETRY Symmetry
CHECK_DEADLOCK FALSE

SPECIFICATION HistorySpec
CONSTANTS
    h1 = h1
    h2 = h2
    c1 = c1
    c2 = c2
    NoHandler = NoHandler
    NoCall = NoCall
    Handlers <- TwoHandlers
    Calls <- TwoCalls
    MaxToolCalls = 2
    MaxReads = 1
    Environment <- Everything
SYMMETRY Symmetry
INVARIANTS
    AuditMatchesWorkspace
    SingleSegment
    WaitingHasOnePending
    TranscriptCompleteAtFirst
PROPERTY
    ImplementsGate
    EndedRunIsClosed
CHECK_DEADLOCK FALSE

SPECIFICATION HistorySpec
CONSTANTS
    h1 = h1
    h2 = h2
    c1 = c1
    c2 = c2
    NoHandler = NoHandler
    NoCall = NoCall
    Handlers <- TwoHandlers
    Calls <- TwoCalls
    MaxToolCalls = 2
    MaxReads = 1
    Environment <- Everything
PROPERTY
    CancelledCannotResume
CHECK_DEADLOCK FALSE

SPECIFICATION PanelHistorySpec
CONSTANTS
    h1 = h1
    h2 = h2
    c1 = c1
    c2 = c2
    NoHandler = NoHandler
    NoCall = NoCall
    Elsewhere = Elsewhere
    Handlers <- TwoHandlers
    Calls <- TwoCalls
    MaxToolCalls = 1
    MaxReads = 1
    MaxQuestions = 2
    Environment <- Clients
INVARIANTS
    ToolCallLimit
    AnswersStayApartAtFirst
    ProposalsAreShown
PROPERTIES
    PanelSettles
    FirstApprovedChangeEnds
    SegmentEnds
CHECK_DEADLOCK FALSE

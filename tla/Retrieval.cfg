SPECIFICATION Spec
CONSTANTS
    NoPage = NoPage
    Pages <- ThreePages
    Blocks <- TwoBlocks
    Files <- OneFile
    PageOf <- Placement
    KeyOrder <- Order
    IdOrder <- PageIds
    Words <- TwoWords
    Coverage <- Sevenths
    Titles <- SomeTitles
    Bodies <- SomeBodies
    Similarities <- SomeSimilarities
    Outcomes <- SomeOutcomes
    Limits = {0, 1, 2}
    MaxPassages = 2
INVARIANTS
    NothingBetterIsLeftOut
    AnswersAreGrounded
    RelatedShowsTheBest
CHECK_DEADLOCK FALSE

\* Two hosts with two answers each, no try or two.
SPECIFICATION FairSpec
CONSTANTS
    a = a
    b = b
    Hosts = {a, b}
    Quad <- MCQuad
    V6Texts <- MCV6Texts
    Number <- MCNumber
    Answers <- MCAnswers
    Retries = {0, 2}
    Indexes <- MCIndexes
INVARIANTS
    AnswersAreOwn
    
PROPERTIES
    AnswersStay
    HostIsResolved
    StopReturns
CHECK_DEADLOCK FALSE

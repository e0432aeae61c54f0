SPECIFICATION FairSpec
CONSTANTS
    Requests <- ThreeRequests
    AnswerLen = 2
    BufLen = 3
INVARIANTS
    OutIsInOrder
    ReadsAfterFlush
    InIsInOrder
PROPERTIES
    NextReturns

SPECIFICATION Spec
CONSTANTS
    Messages <- TwoMessages
    MaxUid = 3
    Uids <- BothVariants
    ReportsInCopy = TRUE
    MaxCalls = 2
INVARIANTS
    NothingLost
    OkMeansMoved
    OnlyWhatWasAsked
CHECK_DEADLOCK FALSE

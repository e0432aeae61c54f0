SPECIFICATION Spec
CONSTANTS
    Mailbox <- TwoMessages
    MaxUid = 8
INVARIANTS
    FoundIsMine
    FoundIsNew
    PanicsOnlyIfEmptied
    MissingOnlyIfUntold
CHECK_DEADLOCK FALSE

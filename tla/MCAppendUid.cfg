SPECIFICATION Spec
CONSTANTS
    Mailbox <- TwoMessages
    MaxUid = 5
INVARIANTS
    ReturnsTheUid
CHECK_DEADLOCK FALSE

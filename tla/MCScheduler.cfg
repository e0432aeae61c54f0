SPECIFICATION FairSpec
CONSTANTS
    MaxCommands = 2
    Kinds <- ShapeKinds
    Volunteered <- ShapeVolunteers
    MaxExtra = 1
    MaxGiven = 1
    Reorders = FALSE
    RejectsLiterals = FALSE
INVARIANTS
    TypeOK
    EveryCommandHasItsTask
    WaitingIsUnsent
    UnwrapsHold
PROPERTIES
    TasksFinish
    ImplementsFairService

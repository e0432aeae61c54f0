SPECIFICATION SessionSpec
CONSTANTS
    MaxCommands = 3
    Kinds <- DropKinds
    Volunteered <- DropVolunteers
    MaxExtra = 1
    MaxGiven = 0
    Reorders = TRUE
    RejectsLiterals = FALSE
    Drops = TRUE
    UsesIdle = FALSE
INVARIANTS
    ActiveHoldsInProgress
    AwaitedTaskIsPending
    NoUnexpectedTagged

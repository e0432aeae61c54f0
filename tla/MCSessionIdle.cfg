SPECIFICATION SessionFairSpec
CONSTANTS
    MaxCommands = 2
    Kinds <- MixedKinds
    Volunteered <- MixedVolunteers
    MaxExtra = 1
    MaxGiven = 0
    Reorders = FALSE
    RejectsLiterals = TRUE
    Drops = TRUE
    UsesIdle = TRUE
INVARIANTS
    VerdictIsTheServers
    IdleIsOver
    IdleKeepsUnwraps
PROPERTIES
    FinishedIsFinal
    CallsReturn
CHECK_DEADLOCK FALSE

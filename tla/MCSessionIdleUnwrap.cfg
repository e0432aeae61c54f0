SPECIFICATION SessionSpec
CONSTANTS
    MaxCommands = 2
    Kinds <- OneKind
    Volunteered <- Close
    MaxExtra = 1
    MaxGiven = 0
    Reorders = FALSE
    RejectsLiterals = FALSE
    Drops = FALSE
    UsesIdle = TRUE
INVARIANTS
    UnwrapsHold

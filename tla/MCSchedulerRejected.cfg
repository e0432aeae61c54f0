SPECIFICATION Spec
CONSTANTS
    MaxCommands = 2
    Kinds <- LiteralKinds
    Volunteered <- NoVolunteers
    MaxExtra = 0
    MaxGiven = 0
    Reorders = FALSE
    RejectsLiterals = TRUE
INVARIANTS
    UnwrapsHold

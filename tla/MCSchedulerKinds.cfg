SPECIFICATION Spec
CONSTANTS
    MaxCommands = 2
    Kinds <- RivalKinds
    Volunteered <- RivalVolunteers
    MaxExtra = 1
    MaxGiven = 2
    Reorders = FALSE
    RejectsLiterals = FALSE
INVARIANTS
    AnswersReachTheirTask
    LatestAnswerWins
CHECK_DEADLOCK FALSE

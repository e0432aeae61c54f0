SPECIFICATION Spec
CONSTANTS
    Messages <- ThreeMessages
    Asked = {"flags"}
    MaxExpunged = 1
    MaxVolunteered = 1
    Criteria <- MCCriteria
    Varying = {"size", "date", "from"}
    Attributes <- MCAttributes
    ChunkLen = 2
INVARIANTS
    EntriesAreTheirs
    NothingForgotten
    NothingInvented
    AgreesWithSort
    FetchFirstMatches
CHECK_DEADLOCK FALSE

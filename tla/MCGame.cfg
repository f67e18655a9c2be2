SPECIFICATION Spec
CONSTANTS
    Seats = {1, 2, 3}
    MaxChips = 2
    MaxRounds = 2
    MaxVersion = 14
    Levels <- MCLevels
    InitialChips <- MCInitialChips
    Submissions <- MCSubmissions
INVARIANTS
    TypeOK
    StacksMatchSnapshot
    PotIsCommitments
    PositionsSeated
    HandsCountedOnce
PROPERTIES
    ImplementsChipBank
    BlindsAsAnnounced
CHECK_DEADLOCK FALSE

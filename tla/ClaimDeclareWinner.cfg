SPECIFICATION BettingSpec
CONSTANTS
    Seats = {1, 2, 3}
    MaxChips = 4
    MaxRounds = 1
    MaxVersion = 14
    Levels <- MCLevels
    InitialChips <- MCInitialChips
    Submissions <- MCSubmissions
INVARIANT LastPlayerCanBeDeclaredWinner
CHECK_DEADLOCK FALSE

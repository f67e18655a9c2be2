SPECIFICATION FairBettingSpec
CONSTANTS
    Seats = {1, 2, 3}
    MaxChips = 5
    MaxRounds = 1
    MaxVersion = 16
    Levels <- MCLevels
    InitialChips <- MCInitialChips
    Submissions <- MCSubmissions
INVARIANTS
    ClosedMeansMatched
    PotHasContender
    SidePotsAreFair
    MinRaiseAtLeastBigBlind
    OffersAreExact
    ScenarioPlaysTheGame
PROPERTIES
    TurnPassesToPlayer
    BettingCloses
CHECK_DEADLOCK FALSE

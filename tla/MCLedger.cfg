CONSTANTS
    Seats = {1, 2}
    FirstChips <- MCChips
    BlindLevel <- MCLevel
    Submissions <- MCSubmissions
    Adjustments <- MCAdjustments
    PayoutAmounts = {1}
    MaxEntries = 6
    MaxVersion = 3
SPECIFICATION Spec
INVARIANTS
    LedgerExplainsStacks
    LedgerExplainsPot
    HistoriesAgree
    PayoutsAreExplained
    ReopenedHandCountedOnce
CHECK_DEADLOCK FALSE

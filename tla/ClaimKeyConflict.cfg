SPECIFICATION BetSpec
CONSTANTS
    Seats = {1, 2, 3}
    Requests = {r1, r2}
    Commands <- MCCommands
    Settlements <- MCSettlements
    FirstHands <- MCHands
    MaxVersion = 6
INVARIANT ConflictMeansDifferentPayload

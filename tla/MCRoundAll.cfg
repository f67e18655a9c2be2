SPECIFICATION Spec
CONSTANTS
    Seats = {1, 2, 3}
    Requests = {r1, r2}
    Commands <- RetriedCommands
    Settlements <- MCSettlements
    FirstHands <- MCHands
    MaxVersion = 5
INVARIANTS
    TypeOK
    KeyAppliedOnce

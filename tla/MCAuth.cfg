SPECIFICATION Spec
CONSTANTS
    Requests = {r1, r2}
    MaxUsers = 2
    MaxSessions = 3
    MaxLinks = 2
SYMMETRY Symmetry
INVARIANTS
    RefreshKeepsAccount
    SessionsHaveAccounts
    ResetEndsSessions
CHECK_DEADLOCK FALSE

SPECIFICATION Spec
CONSTANTS
    Requests = {r1, r2}
    MaxLevel = 2
    MaxRounds = 2
SYMMETRY Symmetry
INVARIANTS
    RoundsNumbered
    HandsNeverOvercounted
    LevelConfigured

CONSTANTS
    Sockets = {s1, s2}
    Handlers = {h1}
    MaxVersion = 2
    MaxErrors = 1
SPECIFICATION PushFairSpec
INVARIANTS OpenStaysSubscribed
PROPERTIES ClosedIsForgotten ClientsCatchUp

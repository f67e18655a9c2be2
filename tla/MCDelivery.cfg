CONSTANTS
    Events = {1, 2}
    RoutingKey <- BetThenRoom
    BoundKeys = {"bet.placed"}
    Workers = {w1, w2}
    BatchSize = 2
    MaxAttempts = 2
    MaxRetries = 1
    MaxFaults = 1
SPECIFICATION FairSpec
INVARIANTS SentMeansDelivered CopiesAreExcused
PROPERTIES FinishedStaysFinished RowsFinish 
CHECK_DEADLOCK FALSE

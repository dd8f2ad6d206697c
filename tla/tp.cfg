CONSTANTS
    Shards = {1, 2}
    Requests = {1, 2, 3}
    Passes = 2
    MaxFaults = 2
    EarlyStops = FALSE
    Lingers = FALSE
SPECIFICATION FairSpec
CHECK_DEADLOCK FALSE
INVARIANTS
    TypeOK
    RanksTogether
PROPERTIES
    RestartsForCause
    NoRankWaitsForever

\* Two requests on a group of two, a pool of one.
CONSTANTS
    Runners = {1, 2, 3}
    Requests = {1, 2}
    Size = 1
    Peers = 2
    MaxFailures = 1
    MaxStops = 1
    EarlyStops = FALSE
    ProbeLingers = FALSE
    MaxDeaths = 1
    DiesEarly = FALSE
SPECIFICATION FairSpec
CHECK_DEADLOCK FALSE
INVARIANTS
    TypeOK
    OwnRunner
    PoolBound
PROPERTIES
    RunnersDieWithActor

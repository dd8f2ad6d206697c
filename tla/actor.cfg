\* Two requests one after the other, a kill and two moves to CPU.
SPECIFICATION FairSpec
CONSTANTS
    Calls = {c1, c2}
    MaxKills = 1
    MaxParks = 2
    None = None
INVARIANTS TypeOK StopHitsItsTarget OneAnswer
PROPERTY EveryRunEnds
CHECK_DEADLOCK FALSE

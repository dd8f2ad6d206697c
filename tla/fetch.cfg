\* Two callers at a time, each calling again and again.
SPECIFICATION FairSpec
CONSTANTS
    Callers = {c1, c2}
    MaxFaults = 2
INVARIANTS
    FetchTypeOK
    OneRefresh
    NobodyWaitsInVain
PROPERTIES
    WaitersAreWoken

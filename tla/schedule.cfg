\* Two events, two models, a background pass beside cron's.
SPECIFICATION FairSpec
CONSTANTS
    None = None
    Models = {m1, m2}
    Events = {e1, e2}
    Cron = cron
    Web = {web}
    MaxReplicas = 2
    MaxWrites = 2
    MaxFaults = 1
    MaxCrashes = 1
    WebHangs = FALSE
INVARIANT TypeOK
PROPERTIES
    WritesStand
    NoStacking
    Converges

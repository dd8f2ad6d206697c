CONSTANTS
    Workers = {1, 2}
    Forward <- MCForward
    Controls = {"SOURCE", "CACHE"}
    Sizes = {2}
    MaxTraces = 2
    StopTraces = {2}
    CatchTraces = {1}
    MaxParks <- MCMaxParks
    MaxStep = 1
    MaxKills = 1
SPECIFICATION Spec
CHECK_DEADLOCK FALSE
INVARIANTS
    TypeOK
    InStep
    EndsAreTold
PROPERTIES
    VisitsComplete

SPECIFICATION Spec
CONSTANTS
    n1 = n1 half = half whole = whole double = double None = None
    Nodes = {n1}
    Gpus = {0, 1}
    GpuMem = 2
    CpuMem = 2
    Models = {half, whole, double}
    MaxTp <- Ways
    Rids = {1, 2, 3, 4}
    DefaultSize <- Sizes
    Deploys <- Operators
    Mons = {1, 2, 3, 4}
    Budgets <- PlaceBudgets
INVARIANTS
    TypeOK Ledger NoOvercommit RecordsAndActorsAgree
PROPERTY PlacementSpares
CHECK_DEADLOCK FALSE

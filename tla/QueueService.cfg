SPECIFICATION Spec
CONSTANTS
    Requests = {p1, p2, n1, n2}
    Priority = {p1, p2}
    MaxPuts = 6
INVARIANTS
    TypeOK
    RequeuedIsOldest
    ReportsAgree
PROPERTY ServesInGroupOrder
CHECK_DEADLOCK FALSE

SPECIFICATION Spec
CONSTANTS
    r1 = r1 r2 = r2 r3 = r3 a = a b = b s1 = s1 s2 = s2
    None = None Disp = Disp Ops = Ops Scaler = Scaler
    Requests = {r1, r2}
    Priority = {r1}
    Trusted = {}
    TrustRemoteCode = FALSE
    Rids = {a, b}
    Gens = {1, 2}
    Tasks = {1, 2, 3}
    Starts = {s1, s2}
    MaxReplicas = 1
    Budgets <- ServeBudgets
INVARIANTS
    TypeOK PoolSound Attended
SYMMETRY RidSymmetry
CHECK_DEADLOCK FALSE

CONSTANTS
    Conn = {1, 2}
    Task = {11, 12}
    t1 = t1  t2 = t2
    a1 = a1  a2 = a2
    Tab = {t1}
    Addr = {a1, a2}
    Home = a1
    NoOne = NoOne
    Budgets <- MCRepair
    Overlap = FALSE
SPECIFICATION PeeringSpec
INVARIANTS ClientHasPairing
CHECK_DEADLOCK FALSE

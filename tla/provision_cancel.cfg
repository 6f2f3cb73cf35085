CONSTANTS
    j1 = j1  j2 = j2  j3 = j3
    s1 = s1  s2 = s2
    NoServer = NoServer
    Job = {j1}
    Server = {s1}
    PairedOrder <- MCOrder1
    MaxDrops = 0
    MaxLoss = 1
    Matching = {s1}
    Toggles = {}
    MaxToggles = 0
    Exact = FALSE
    Start <- MCPrivate
SPECIFICATION Spec
INVARIANTS RunningCanBeCancelled
CHECK_DEADLOCK FALSE

CONSTANTS
    j1 = j1  j2 = j2  j3 = j3
    s1 = s1  s2 = s2
    NoServer = NoServer
    Job = {j1, j2}
    Server = {s1, s2}
    PairedOrder <- MCOrder2
    MaxDrops = 1
    MaxLoss = 1
    Matching = {s1, s2}
    Toggles = {"share", "enabled"}
    MaxToggles = 1
    Exact = FALSE
    Start <- MCEither
SPECIFICATION Spec
SYMMETRY MCSymmetry
INVARIANTS OnePlace NoStrand
PROPERTIES CancelWins ImplementsDispatch
CHECK_DEADLOCK FALSE

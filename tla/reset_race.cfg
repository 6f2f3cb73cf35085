CONSTANTS
    a = a  b = b  x = x
    c1 = c1  c2 = c2
    wc = wc  wu = wu  wu2 = wu2  wt = wt
    NoConfig = NoConfig
    NoOne = NoOne
    LaneOf <- MCLaneOf
    MaxJob = 2
    MaxRestart = 0
    Config = {a}
    InitFiles = {a}
    ThreadConfig = {}
    Client = {c1}
    Worker = {wc, wu}
    Ops = {"upload", "reset"}
    ClearStatuses = {"finished"}
    PrimaryCap = 2
    AuxCap = 1
    TornWrites = FALSE
SPECIFICATION Spec
INVARIANTS ResetRunsAlone
CHECK_DEADLOCK FALSE

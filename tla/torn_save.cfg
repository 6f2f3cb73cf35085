CONSTANTS
    a = a  b = b  x = x
    c1 = c1  c2 = c2
    wc = wc  wu = wu  wu2 = wu2  wt = wt
    NoConfig = NoConfig
    NoOne = NoOne
    LaneOf <- MCLaneOf
    MaxJob = 2
    MaxRestart = 1
    Config = {a}
    InitFiles = {a}
    ThreadConfig = {}
    Client = {c1}
    Worker = {wc, wu}
    Ops = {"install"}
    ClearStatuses = {"finished"}
    PrimaryCap = 2
    AuxCap = 1
    TornWrites = TRUE
SPECIFICATION Spec
INVARIANTS FlashAfterBuild
CHECK_DEADLOCK FALSE

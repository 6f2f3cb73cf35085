CONSTANTS
    a = a  b = b  x = x
    c1 = c1  c2 = c2
    wc = wc  wu = wu  wu2 = wu2  wt = wt
    NoConfig = NoConfig
    NoOne = NoOne
    LaneOf <- MCLaneOf
    MaxJob = 4
    MaxRestart = 0
    Config = {a, x}
    InitFiles = {a}
    ThreadConfig = {x}
    Client = {c1, c2}
    Worker = {wc, wu, wt}
    Ops = {"install", "compile", "analyze", "upload", "clean", "reset", "rename", "cancel", "clear"}
    ClearStatuses = {"finished"}
    PrimaryCap = 2
    AuxCap = 1
    TornWrites = FALSE
    Menus <- MCSafety
SPECIFICATION MenuSpec
SYMMETRY MCCallers
INVARIANTS TypeOK OnePlace OneChainPerDevice EndsOnce AckedIsDurable WipeSparesFlash RenameKeepsYaml FailedRenameUndone
PROPERTIES TerminalStays
CHECK_DEADLOCK FALSE

CONSTANTS
    Slot = {1, 2, 3, 4}
    Image = {"app"}
    Early = FALSE
    Loose = FALSE
    Allowed <- MCAllowed
    u1 = u1  u2 = u2  f1 = f1  f2 = f2  p1 = p1  p2 = p2
    Timed = {u1, u2}
    Caller = {f1, f2}
    MaxVersion = 4
    Confirmed = TRUE
    NoTask = NoTask
    Peer = {p1, p2}
    MaxBundle = 2
    MaxFault = 1
SPECIFICATION UpkeepSpec
INVARIANTS UpkeepTypeOK OwedIsArmed SaveIsPending 
PROPERTIES UpdateLands ImplementsWriteBehind
CHECK_DEADLOCK FALSE

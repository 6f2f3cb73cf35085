CONSTANTS
    Slot = {1, 2, 3, 4}
    Image = {"app"}
    Early = TRUE
    Loose = FALSE
    Allowed <- MCAllowed
SPECIFICATION DeferSpec
INVARIANTS JobsSurviveRestart
CHECK_DEADLOCK FALSE

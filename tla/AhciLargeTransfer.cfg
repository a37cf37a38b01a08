SPECIFICATION Spec
CONSTANTS
    Careful = TRUE
    KeepOpen = TRUE
    LargeTransfers = TRUE
CHECK_DEADLOCK FALSE
INVARIANT TransfersWhole

SPECIFICATION Spec
CONSTANTS
    Careful = TRUE
    KeepOpen = TRUE
    LargeTransfers = FALSE
CHECK_DEADLOCK FALSE
INVARIANTS  DiskAsWritten FilesTree

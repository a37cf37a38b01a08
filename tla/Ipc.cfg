CONSTANTS
    Pid = {1, 2, 3}
    None = None
    NObject = 3
    NSlot = 3
    MaxAddr = 2
    MaxMessages = 1
    MaxMappings = 2
    MaxRetired = 1
    MaxPending = 1
    MaxRequest = 2
    ForkWhileMapped = FALSE
    Programs <- IpcPrograms
SPECIFICATION Spec
INVARIANTS HandleRefs NothingFreedMapped IdleMeansUndrawn FocusOne NoSleepForNothing
CHECK_DEADLOCK FALSE

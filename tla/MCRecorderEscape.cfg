\* A sync failure that leaves run() as an exception, without a status.
SPECIFICATION Spec
CONSTANTS
    Settings <- HookedSettings
    MaxFrames = 4
    Faults <- SyncFault
INVARIANTS
    EveryFaultHasAStatus
CHECK_DEADLOCK FALSE

\* The supervisor, its promise and its end: every fault, every small setting.
SPECIFICATION PatientSpec
CONSTANTS
    Settings <- AllSettings
    MaxFrames = 4
    Faults <- AllFaults
INVARIANTS
    CaptureOrder
    NoSilentDrop
    LossWindow
    CompleteIsDurable
    OutcomeIsTruthful
PROPERTIES
    NoPullAfterStop
    KeepsPromise
    HooklessRunReturns
    PatientRunEnds
CHECK_DEADLOCK FALSE

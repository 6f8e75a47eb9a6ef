\* A writer failure that does not end the run, although every hook returns.
SPECIFICATION PatientSpec
CONSTANTS
    Settings <- HookedSettings
    MaxFrames = 4
    Faults <- AppendFault
PROPERTIES
    WriterFailureEndsRun
CHECK_DEADLOCK FALSE

\* A reopened log counts bytes as durable that were never fsynced.
SPECIFICATION Spec
CONSTANTS
    s1 = s1
    s2 = s2
    Segments <- TwoSegments
    MaxFrames = 2
    FsyncLinksFile = TRUE
    Tools <- AllTools
INVARIANTS
    DurableLengthIsSynced

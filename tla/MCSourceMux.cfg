\* The merged stream under failing sources, stops and cancellations.
SPECIFICATION FairSpec
CONSTANTS
    a = a
    b = b
    Sources <- TwoSources
    queue_capacity = 2
    MaxFrames = 2
    Muxes <- BothMuxes
    SourceFaults <- AllFaults
INVARIANTS
    SourceOrder
    NoFrameLost
    EndingIsComplete
    NeverStarves
PROPERTIES
    TeardownEnds
    FailureSurfaces
CHECK_DEADLOCK FALSE

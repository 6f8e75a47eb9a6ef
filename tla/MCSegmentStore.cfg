\* Kills and power losses between any two steps of capture, seal and commit.
SPECIFICATION Spec
CONSTANTS
    s1 = s1
    s2 = s2
    Segments <- TwoSegments
    MaxFrames = 2
    FsyncLinksFile = TRUE
    Tools <- AllTools
SYMMETRY Symmetry
INVARIANTS
    ClaimedFramesSurvive
    ManifestIsSound
    FinalIsWhole
    PublishedStayValid
    CleanAuditMissesNothing

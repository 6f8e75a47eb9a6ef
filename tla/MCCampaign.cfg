\* Two services killed at any step, but never between the creation and the
\* writing of a file.
SPECIFICATION FairSpec
CONSTANTS
    MaxRuns = 2
    MaxTime = 3
    MaxKills = 2
    Duration = 2
    Disturbances <- Kills
INVARIANTS
    StartIsFirstAccepted
    AcceptedInWindow
    MembershipRestsOnEvidence
PROPERTIES
    NoCaptureAfterComplete
    AcceptedIsSettled
    CampaignCompletes

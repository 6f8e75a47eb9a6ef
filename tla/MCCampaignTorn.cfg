\* A kill that leaves an empty file stops the processing for ever.
SPECIFICATION FairSpec
CONSTANTS
    MaxRuns = 2
    MaxTime = 2
    MaxKills = 2
    Duration = 2
    Disturbances <- Torn
PROPERTIES
    AcceptedIsSettled

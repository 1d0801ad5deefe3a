SPECIFICATION FairSpec
CONSTANTS
    MaxInflight = 1
    QueueMax = 2
    LatestOnly = TRUE
    MaxFrames = 2
    MaxStreams = 2
PROPERTIES WaitingIsTaken
CHECK_DEADLOCK FALSE

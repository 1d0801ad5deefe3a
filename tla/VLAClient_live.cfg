SPECIFICATION FairSpec
CONSTANTS
    MaxInflight = 1
    QueueMax = 2
    LatestOnly = TRUE
    MaxFrames = 3
    MaxStreams = 2
INVARIANTS TypeOK InflightBound QueueCoalesced ReplyInOrder
PROPERTIES ImplementsChannel StopTerminates AcceptedAnswered
CHECK_DEADLOCK FALSE

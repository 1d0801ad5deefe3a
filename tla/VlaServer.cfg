SPECIFICATION FairSpec
CONSTANTS
    Workers = 2
    Ctx = 1
    Texts = {"", "left"}
    MaxStreams = 3
    MaxFrames = 3
    None = None
INVARIANTS TypeOK RingBounded OwnUnlessOverlap WindowInOrder
PROPERTIES ObservationAnswered
CHECK_DEADLOCK FALSE

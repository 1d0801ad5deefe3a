SPECIFICATION FairSpec
CONSTANTS
    MaxChunks = 5
INVARIANTS TypeOK OneEmptyPath
PROPERTIES ChunkPublished ArmedWatchdogFires

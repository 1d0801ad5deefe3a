SPECIFICATION FairSpec
CONSTANTS
    MaxChunks = 2
PROPERTIES WatchdogFires

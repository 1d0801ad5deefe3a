SPECIFICATION FairSpec
CONSTANTS
    Moving = {Ahead, Left}
    Stop = Stop
    NoCmd = NoCmd
    HoldTicks = 3
PROPERTIES SilenceStops

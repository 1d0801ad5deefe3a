SPECIFICATION Spec
CONSTANTS
    Moving = {Ahead, Left}
    Stop = Stop
    NoCmd = NoCmd
    HoldTicks = 3
INVARIANTS TypeOK
PROPERTIES LatestHonoured MismatchStops

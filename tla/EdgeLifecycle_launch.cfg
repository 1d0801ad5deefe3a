SPECIFICATION FairSpec
CONSTANTS
    Kinds = {"cloud", "local"}
    Devices = {TRUE, FALSE}
    MaxFrames = 1
    MaxGoals = 2
    MaxConfigures = 2
    MaxLoops = 2
    Faults = 2
    Attempts = 2
    LongKinds = {"cloud"}
    LongDevices = {FALSE}
    LongFaults = 0
INVARIANTS TypeOK OneCaptureLoop TickCrashStraddles StaleOnlyFromFormer
PROPERTIES LaunchActivates ShutdownQuiets
CHECK_DEADLOCK FALSE

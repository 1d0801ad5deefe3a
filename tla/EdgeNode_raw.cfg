SPECIFICATION Spec
CONSTANTS
    MaxFrames = 2
    MaxGoals = 2
    SentMax = 2
INVARIANTS RawIsChecked
CHECK_DEADLOCK FALSE

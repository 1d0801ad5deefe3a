SPECIFICATION FairSpec
CONSTANTS
    MaxFrames = 4
    MaxGoals = 2
    SentMax = 2
INVARIANTS TypeOK CachedGoalCurrent LatePathAtMostOnce PendingKeepsImage
PROPERTIES GoalServed
CHECK_DEADLOCK FALSE

SPECIFICATION Spec
CONSTANTS
    Poses <- MCPoses
    Turns <- MCTurns
    Texts = {"turn left"}
    Jpegs = {photo, garbage}
    Decodable = {photo}
    None = None
    Steps <- MCSteps
    MaxLen = 2
    MaxV = 400
    MaxW = 500
    Select = 1
INVARIANTS AttendsGoal PoseOnBearing PathInMetres CommandLimited ArcKept
CHECK_DEADLOCK FALSE

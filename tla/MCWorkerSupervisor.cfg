CONSTANTS
    MaxKids = 2
    NoScan = NoScan
    NoReport = NoReport
    NoTarget = NoTarget
    Streams = {out}
    Capacity = 1
SPECIFICATION Spec
CHECK_DEADLOCK FALSE
PROPERTIES ImplementsContract
INVARIANTS
    GroupGone
    OutputComplete
    CleanResultReported
    LaunchIsSafe

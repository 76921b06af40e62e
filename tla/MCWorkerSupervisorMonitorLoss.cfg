CONSTANTS
    MaxKids = 1
    NoScan = NoScan
    NoReport = NoReport
    NoTarget = NoTarget
    Streams = {out}
    Capacity = 1
SPECIFICATION Spec
CHECK_DEADLOCK FALSE
INVARIANT MonitorLossFailsClosed

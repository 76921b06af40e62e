SPECIFICATION Spec
CONSTANTS
    Procs = {p1, p2}
    Runs = {r1, r2}
    Revs = {v1}
    MaxRepo = 2
    MaxIno = 2
    MaxMeddle = 1
    MaxDeaths = 1
    Nobody = Nobody
SYMMETRY Symmetry
INVARIANTS RemovalProven RecordedIsWhole
PROPERTIES ForeignTreesKept PruneReportsAll OnlyDroppedLeave

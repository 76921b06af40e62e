SPECIFICATION Spec
CONSTANTS
    Calls = {c1, c2}
    Absent = Absent
    MaxKills = 1
INVARIANTS RunDirIsOneCall 
PROPERTIES KillEndsCall
CHECK_DEADLOCK FALSE

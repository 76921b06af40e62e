SPECIFICATION Spec
CONSTANTS
    Commands <- MCCommands
    Contents = {good, other}
    Codes = {0, 1}
    Torn = Torn
    Absent = Absent
    MaxSwaps = 1
    MaxTrust = 1
    MaxChanges = 1
    MaxEdits = 1
PROPERTIES NeverRunsUntrusted AcceptedIsEarned VerifyEnds
CHECK_DEADLOCK FALSE

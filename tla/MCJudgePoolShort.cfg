SPECIFICATION JudgeSpec
CONSTANTS
    None = None
    w1 = w1
    w2 = w2
    Workers <- MCWorkers
    Inputs <- MCInputs
    Only <- MCOnly
    MaxFiles <- MCMaxFiles
    Retries = 1
    Raws <- MCRaws
    MaxVerdicts = 2
    Stamps = {1, 2}
INVARIANTS
    CleanRunIsComplete
CHECK_DEADLOCK FALSE

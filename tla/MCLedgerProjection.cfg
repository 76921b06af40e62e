CONSTANTS
  r1 = r1
  p1 = p1
  p2 = p2
  NoRun = NoRun
  Missing = Missing
  Runs <- MCRuns
  Projectors <- MCProjectors
  Targets <- MCTargets
  Last = 2
  MaxCalls = 1
SPECIFICATION Spec
INVARIANTS LedgerAgrees NotesAgree CaughtUp
SYMMETRY ProjectorSymmetry

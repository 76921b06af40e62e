SPECIFICATION FairSpec
CONSTANTS
  Commands = {k1}
  NoCommand = NoCommand
  Runs = {root, r1, r2}
  NoRun = NoRun
  Root = root
  Requests = {q1, q2}
  RunDirs = {r1}
  MaxFaults = 1
PROPERTY EventuallySettled

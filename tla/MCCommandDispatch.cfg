SPECIFICATION Spec
CONSTANTS
  Commands = {k1, k2}
  NoCommand = NoCommand
  Runs = {root, r1, r2, r3}
  NoRun = NoRun
  Root = root
  Requests = {q1, q2}
  RunDirs = {r1, r2, r3}
  MaxFaults = 1
SYMMETRY Permuted
INVARIANTS
  AtMostOneInvocation
  DispatchedStaysBound
  ExclusiveContinuation
  TerminalMeansSealed
  CompletedMeansSealed
PROPERTIES ImplementsCommandContract

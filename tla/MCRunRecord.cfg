SPECIFICATION RecordSpec
CONSTANTS
  Gates = {"g1", "g2"}
  Policies = {"p1", "p2"}
  Contracts <- MCContracts
  Modes = {"live", "continue", "posthoc"}
  Manifests <- MCManifests
INVARIANTS
  PassMeansDischarged
  BlockedHidesNothing
  ProtectedOnlyUnderAllowed
  RecordLeads
  NeverRedrivenOnceInvoked
  DeadBeforeDispatchIsRedrivable
  PassMeansStepsRan
\* A fold may stop after any event, and does after one that is refused; a writer
\* ends, or is stopped.
CHECK_DEADLOCK FALSE

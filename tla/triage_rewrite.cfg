\* One run at a time over two watched refs: pushes, a force-push or a prune and
\* a fault between any two git calls.
SPECIFICATION Spec
CONSTANTS
  None = None
  Commit = {c0, c1, c2}
  Root = c0
  NRefs = 2
  Run = {p1}
  Other = {}
  Noise = {c1}
  Old = {c0}
  Ambiguous = {c2}
  MaxIterations = 1
  MaxFaults = 1
  MaxCrashes = 0
  MaxRewrites = 1
INVARIANTS TypeOK NoCommitLost
PROPERTIES CoveredNotReported FailedRunKeepsCursors

\* Two overlapping runs of one loop over one ref, one of which may be killed.
SPECIFICATION Spec
CONSTANTS
  None = None
  Commit = {c0, c1, c2}
  Root = c0
  NRefs = 1
  Run = {p1, p2}
  Other = {o1}
  Noise = {c1}
  Old = {c0}
  Ambiguous = {}
  MaxIterations = 1
  MaxFaults = 0
  MaxCrashes = 1
  MaxRewrites = 0
INVARIANTS NoCommitLost
PROPERTIES ImplementsFeed

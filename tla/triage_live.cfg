\* Does every pushed commit get reported?
SPECIFICATION FairSpec
CONSTANTS
  None = None
  Commit = {c0, c1, c2}
  Root = c0
  NRefs = 1
  Run = {p1}
  Other = {}
  Noise = {c1}
  Old = {c0}
  Ambiguous = {}
  MaxIterations = 1
  MaxFaults = 1
  MaxCrashes = 1
  MaxRewrites = 0
PROPERTIES CursorsNeverRetreat 

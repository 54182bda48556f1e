\* Two overlapping runs of one loop, at L3, whose proposals people review.
SPECIFICATION Spec
CONSTANTS
  c0 = c0  c1 = c1  c2 = c2  c3 = c3  p1 = p1  p2 = p2  None = None
  Commit <- ThreeCommits
  Root = c0
  Run <- TwoRuns
  Phases <- L3Only
  MaxAttempts = 2
  MakerCommits = FALSE
  GuardMayDie = FALSE
  PeoplePush = FALSE
  MaxCrashes = 0
  MaxWriteFaults = 1
INVARIANTS OnlyScannedMerges NoLitter
PROPERTIES EveryStepCounts
SYMMETRY PairSymmetry

\* One tick at a time: cadences, failures, exceptions, a kill and the kill switch.
SPECIFICATION FairSpec
CONSTANTS
  fix = fix  fix2 = fix2  repo = repo  t1 = t1  t2 = t2  None = None
  Loop <- TwoFix
  Priority <- SamePriority
  Position <- ByName
  Cadence <- SecondSlow
  Target <- SharedTarget
  Writers <- TwoFix
  Outcome <- FixerFails
  Raising <- OneFix
  Pausable <- OneFix
  Tick <- OneTick
  HaltOnAnomaly = TRUE
  AnomalyHistory = 4
  MaxTickAge = 1
  MaxCrashes = 1
  AgeCap = 3
INVARIANTS TypeOK StallBound OneWriterPerTarget
PROPERTIES OnlyAPersonResumes CadenceSpacing EveryDueLoopRuns

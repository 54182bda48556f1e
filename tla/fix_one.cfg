\* One run at a time, any maker and a guard that may die: people push to the
\* base meanwhile and the process is killed.
SPECIFICATION FairSpec
CONSTANTS
  c0 = c0  c1 = c1  c2 = c2  c3 = c3  p1 = p1  p2 = p2  None = None
  Commit <- ThreeCommits
  Root = c0
  Run <- OneRun
  Phases <- AllPhases
  MaxAttempts = 2
  MakerCommits = TRUE
  GuardMayDie = TRUE
  PeoplePush = TRUE
  MaxCrashes = 1
  MaxWriteFaults = 0
INVARIANTS TypeOK
PROPERTIES LossOnlyWhenOvertaken EveryRunEnds

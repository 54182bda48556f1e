\* The daily job with failing steps, dead reports, a lost cursor and re-runs.
SPECIFICATION FairSpec
CONSTANTS
  MaxCommits = 3
  Noise = {2}
  CloseAfter = 2
  MaxReruns = 1
  MaxFaults = 1
  MaxDeadReports = 1
  MaxRestoreFaults = 1
INVARIANTS TypeOK NothingSkippedUnpublished InboxReflectsState
PROPERTIES EveryCommitPublished

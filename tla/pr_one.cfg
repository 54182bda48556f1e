\* One run at a time over a page of two pull requests.
SPECIFICATION Spec
CONSTANTS
  None = None
  PR = {1, 2, 3}
  Run = {p1}
  PageSize = 2
  Draft = {2}
  Hostile = {3}
  MaxIterations = 1
  MaxTime = 2
  MaxFaults = 1
  MaxCrashes = 1
INVARIANTS TypeOK NoUpdateMissed
PROPERTIES NeverReReports CursorNeverRetreats

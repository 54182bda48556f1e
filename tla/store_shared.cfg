\* Two processes share the file; one is killed or the disk fills.
SPECIFICATION Spec
CONSTANTS
  None = None
  Key = {loop, sched}
  Process = {p1, p2}
  Note = {n1}
  MaxRuns = 2
  MaxFaults = 1
INVARIANTS TypeOK SectionsAreWhole OrderlyUse RowsSurvive

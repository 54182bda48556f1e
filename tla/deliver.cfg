\* Two processes that may overlap and a scheduled one, failing pushes, API calls
\* and state accesses.
SPECIFICATION FairSpec
CONSTANTS
  None = None
  Run = {p1, p2, s1}
  Scheduled = {s1}
  MaxBases = 2
  MaxFixes = 2
  MaxFaults = 1
INVARIANTS RowsTellTheTruth EvidenceMatchesBranch
PROPERTIES ImplementsHandoff EveryDeliveryEnds

CONSTANTS
  Requests <- MCRequests
  Probes <- MCProbes
  Capacity = 20000000
  MaxWidth = 7680
  MaxHeight = 4320
  MaxStreams = 3
  MaxDuration = 16
  StderrLimit = 2
  Writes = {1, 3}
  MaxWritten = 3
  MaxRestarts = 1
SPECIFICATION Spec
INVARIANTS
  TypeOK AcceptedIsBuildable AsRequested FallsBack SamePlan AutoBudget AutoFrame
  CopyGivesRequested StderrHonest
CHECK_DEADLOCK FALSE

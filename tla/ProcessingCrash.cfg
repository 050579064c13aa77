SPECIFICATION Spec
CONSTANTS
  a = a
  b = b
  c = c
  Jobs = {a, b}
  NoJob = NoJob
  CreatedRank <- AB
  Active = 1
  MaxEncoders = 2
  UsesCgroup = TRUE
  MaxIncidents = 2
  MaxFaults = 1
INVARIANTS TypeOK ActiveBound Deliverable InputKept
PROPERTIES OverIsOver
CHECK_DEADLOCK FALSE

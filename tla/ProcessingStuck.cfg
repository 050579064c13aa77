SPECIFICATION EndingSpec
CONSTANTS
  a = a
  b = b
  c = c
  Jobs = {a, b}
  NoJob = NoJob
  CreatedRank <- AB
  Active = 1
  MaxEncoders = 1
  UsesCgroup = FALSE
  MaxIncidents = 1
  MaxFaults = 0
PROPERTIES Settles
CHECK_DEADLOCK FALSE

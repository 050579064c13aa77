SPECIFICATION FairSpec
CONSTANTS
  a = a
  b = b
  c = c
  Jobs = {a, b, c}
  NoJob = NoJob
  CreatedRank <- ABC
  Active = 2
  MaxEncoders = 1
  UsesCgroup = FALSE
  MaxIncidents = 0
  MaxFaults = 0
PROPERTIES SlotsUsed SettlesUninterrupted OneGoroutine
CHECK_DEADLOCK FALSE

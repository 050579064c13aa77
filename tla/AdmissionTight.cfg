SPECIFICATION FairSpec
CONSTANTS
  a = a
  b = b
  Jobs = {a, b}
  NoJob = NoJob
  MaxSize = 2
  Size <- SmallLarge
  Capacities = {2}
  Disk = 2
  Stamps = {50, 72}
  SortKey <- AsText
  MaxScans = 2
  MaxCrashes = 0
  MaxFaults = 0
PROPERTIES NoStarvation
CHECK_DEADLOCK FALSE

SPECIFICATION Spec
CONSTANTS
  a = a
  b = b
  Jobs = {a, b}
  NoJob = NoJob
  MaxSize = 2
  Size <- SmallLarge
  Capacities = {2}
  Disk = 4
  Stamps = {50, 72}
  SortKey <- AsText
  MaxScans = 2
  MaxCrashes = 1
  MaxFaults = 0
INVARIANTS NoLeak
CHECK_DEADLOCK FALSE

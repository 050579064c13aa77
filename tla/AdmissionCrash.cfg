SPECIFICATION Spec
CONSTANTS
  a = a
  b = b
  Jobs = {a, b}
  NoJob = NoJob
  MaxSize = 2
  Size <- SmallLarge
  Capacities = {1, 2}
  Disk = 2
  Stamps = {50, 72}
  SortKey <- AsText
  MaxScans = 2
  MaxCrashes = 1
  MaxFaults = 1
INVARIANTS TypeOK CapacityCovers NoOvercommit UploadNeedsSpool NoOrphanSpool
           ExactCapacity
PROPERTIES FifoAdmission ImplementsLifecycle
CHECK_DEADLOCK FALSE

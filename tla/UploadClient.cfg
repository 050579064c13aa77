SPECIFICATION FairSpec
CONSTANTS
  r1 = r1
  r2 = r2
  x = x
  y = y
  None = None
  Original = x
  Runs = {r1, r2}
  Contents = {x, y}
  Chunks = {0, 1, 2}
  Parallelism = 2
  Keys = {1, 2, 3, 4}
  MaxFaults = 2
  MaxLate = 1
  Overlap = FALSE
INVARIANTS TypeOK Rediscovered CompleteWhenVerified
PROPERTIES DoneMeansDone NotResent Delivered

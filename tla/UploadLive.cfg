SPECIFICATION FairSpec
CONSTANTS
  a = a
  x = x
  y = y
  z = z
  p = p
  q = q
  s1 = s1
  s2 = s2
  None = None
  Jobs = {a}
  Contents = {x, y, z}
  Good = x
  Puts = {p, q}
  LifeStripe <- LifeOfA
  ChunkStripe <- ChunksOfA
  Expected <- OneChunk
  Declared = {}
  Requests <- Retries
  MaxCrashes = 0
PROPERTIES Answered

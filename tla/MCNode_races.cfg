CONSTANTS
  c1 = c1  c2 = c2
  d1 = d1  d2 = d2  d3 = d3  d4 = d4
  kA = kA  kB = kB
  w1 = w1  w2 = w2
  Hole = Hole  NoFile = NoFile  None = None
  KeyOf <- TwoKeys
  Keys = {kA, kB}
  Collections = {c1}
  Docs = {d1, d2, d3}
  BulkDocs = {d2}
  Workers = {w1, w2}
  FlushThreshold = 2
  Recreate = FALSE
  MaxRequests = 5
  MaxCrashes = 1
SPECIFICATION Spec
CHECK_DEADLOCK FALSE
INVARIANTS NodeTypeOK MemoryMatchesReplies DroppedStaysDropped CreatedStays

CONSTANTS
  d1 = d1  d2 = d2  d3 = d3  d4 = d4
  kA = kA  kB = kB
  w1 = w1  w2 = w2
  KeyOf <- TwoKeys
  Docs = {d1, d2, d3, d4}
  Keys = {kA, kB}
  Indexable = {d1, d2, d3}
  Workers = {w1}
  MaxBatch = 2
  FlushThreshold = 1
  MinMergeSegments = 3
  MergeFactor = 2
  MaxSegmentId = 8
  MaxCrashes = 2
  MaxIoErrors = 1
SPECIFICATION Spec
INVARIANTS HeldIntact DurableIsServed OneSegmentPerDocument NoLeftovers SegmentCountBounded

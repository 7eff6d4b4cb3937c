CONSTANTS
  d1 = d1  d2 = d2  d3 = d3  d4 = d4
  kA = kA  kB = kB
  w1 = w1  w2 = w2
  KeyOf <- TwoKeys
  Docs = {d1, d2, d3}
  Keys = {kA, kB}
  Indexable = {d1, d2, d3}
  Workers = {w1, w2}
  MaxBatch = 1
  FlushThreshold = 1
  MinMergeSegments = 2
  MergeFactor = 2
  MaxSegmentId = 6
  MaxCrashes = 0
  MaxIoErrors = 0
SPECIFICATION Spec
SYMMETRY Symmetry
INVARIANTS ReplacesOldSegments

CONSTANTS
  Parts = {"segments"}
  Letters = {"a", "b"}
  MaxWord = 3
  MaxPattern = 4
  MaxText = 5
  MaxNumbers = 2
  MaxHits = 4
  HitIds = {1, 2, 3, 4}
  Width = 6
  Group = 2
  IndexModulus = 16
  FragmentSize = 3
  Lead = 1
  Space = " "
  Signs = {"."}
  StopWords <- StopWord
  WalEntries <- SmallEntries
  SumReadsAs = 7
  MaxWalUnits = 21
  MaxWalFaults = 2
  Callers = {c1, c2}
  Tasks = {t1, t2, t3}
  NoTask = NoTask
  Searches = {s1, s2}
  Latencies = {0, 3, 8}
  Paths = {p1, p2}
  Data = {x, y}
  Absent = Absent
  Torn = Torn
  MaxKills = 2
  Threads = {r1, r2, r3}
  MaxOperations = 3
  Half = 4
  File <- SmallFile
  NotHeld = NotHeld
  d1 = d1  d2 = d2  d3 = d3
  a = a  b = b
  NoDoc = NoDoc
  Docs = {d1, d2, d3}
  Terms = {a, b}
  TermsOf <- MCTermsOf
  Queries <- MCQueries
  Limit = 2
  MaxBatch = 2
  MaxFlushes = 4
  MinMergeSegments = 3
  MergeFactor = 2
  Handlers = {h1, h2}
  Keys = {k1}
  NoAnswer = NoAnswer
  MaxItems = 2
  MaxVersion = 5
  MaxWrites = 3
SPECIFICATION Spec
INVARIANTS HitsMatch
CHECK_DEADLOCK FALSE

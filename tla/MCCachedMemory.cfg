CONSTANTS
  t0 = t0
  t1 = t1
  t2 = t2
  i0 = i0
  i1 = i1
  x = x
  y = y
  Tags <- MCTags
  Indices = {i0, i1}
  Lines <- MCLines
  Words = {x, y}
  BURST_LEN = 2
  Tag0 = t0
  Word0 = x
  NoData = NoData
  CpuRequests <- MCRequests
  Contents <- MCContents
  Garbage <- MCGarbage
SPECIFICATION FairHistorySpec
INVARIANTS OneWayPerLine CleanLineIsMemory DirtyIsValid RecentlyUsedStay
PROPERTIES VictimSavedBeforeRefill RefillThenHit ImplementsAtomicMemory

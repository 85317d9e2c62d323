CONSTANTS
  t0 = t0
  t1 = t1
  t2 = t2
  p0 = p0
  p1 = p1
  p2 = p2
  i0 = i0
  x = x
  y = y
  Tags <- MCTags
  Indices = {i0}
  Lines <- MCLines
  z = z
  Words = {x, y, z}
  BURST_LEN = 2
  Delays = {1}
  Tag0 = t0
  Word0 = x
  NoData = NoData
  Fetches <- MCFetches
  Accesses <- MCAccesses
  Contents <- MCContents
SPECIFICATION FairSpec
INVARIANTS ResponseToOwner FetchIntact FetchBypassedTwice
PROPERTIES RequestHeld PipelineMovesOn DataPortIsAtomic

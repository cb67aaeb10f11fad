SPECIFICATION MCSpec
CONSTANTS
  o1 = o1
  o2 = o2
  t1 = t1
  t2 = t2
  p = p
  b1 = b1
  b2 = b2
  m0 = m0
  m1 = m1
  m2 = m2
  m3 = m3
  m4 = m4
  Roots = {1, 2}
  Fanout = 2
  Depth = 1
  Blocks = {b1, b2}
  Clients = {t1, t2}
  Pma = p
  Setups <- PmmParts
  PtThread = {t1, t2}
  PtMem = {m0, m1, m2, m3, m4}
  PtRoot = m0
  PtNone = PtNone
  PtWant <- PtWants
  PtMaxGets = 2
  PtSetups <- PtParts
  BpMaxOps = 3
  BpMaxQueue = 0
  BpMasks <- BpAsked
  BpSetups <- BpParts
  TqSize = 4
  TqThresholds = {1, 2, 3}
  TqMaxEvents = 6
  TqTracker = {o1, o2}
  TqMig = {m1, m2}
  TqChannel = {b1, b2}
  TqThread = {t1, t2}
  TqNone = TqNone
  TqSetups <- TqParts
  TkTracker = {o1, o2}
  TkChannel = {m1, m2}
  TkGpuOf <- TkGpus
  TkFirst = 2
  TkMaxValue <- TkValues
  TkInto <- TkMerges
  TkNone = TkNone
  TkSetups <- TkParts
  LoThread = {t1, t2, p}
  LoBh = p
  LoRm = m0
  LoBlock = {m1, m2}
  LoSetups <- LoParts
SYMMETRY BlockSymmetry
INVARIANT ChunksOwned
INVARIANT ChunksBooked
INVARIANT PmaToldTheTruth
INVARIANT PageTablesExact
INVARIANT ToolsInformed
INVARIANT TrackersAnswer
INVARIANT LocksExact

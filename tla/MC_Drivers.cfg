SPECIFICATION MCSpec
CONSTANTS
  o1 = o1
  o2 = o2
  o3 = o3
  t1 = t1
  t2 = t2
  g1 = g1
  g2 = g2
  g3 = g3
  m1 = m1
  m2 = m2
  LitePages = 2
  LiteStream = {o1}
  StreamAll = StreamAll
  StreamNone = StreamNone
  LiteNoStream = LiteNoStream
  LiteMaxRunning = 2
  LiteSpan <- LiteSpans
  LiteSetups <- LiteParts
  LpFile = {o1, o2, o3}
  LpQueue = {m1}
  LpThread = {t1, t2}
  LpNone = LpNone
  LpMaxStop = 1
  LpSetups <- LpParts
  DevGpu = {g1, g2}
  DevThread = {t1, t2}
  DevLoader = DevLoader
  DevNone = DevNone
  DevMaxOpens = 2
  DevSetups <- DevParts
  MemPages = 4
  MemLow = {3}
  MemAlloc = {m1, m2}
  MemProc = {o1, o2}
  MemSubmap = 1
  MemMaxEvents = 2
  MemNone = MemNone
  MemSetups <- MemParts
  KmsTimer = {t1, t2}
  KmsOpen = {o1, o2}
  KmsNone = KmsNone
  KmsMaxGpu = 2
  KmsSetups <- KmsParts
  P2PTable = {o1, o2}
  P2PEntries = 2
  P2PSetups <- P2PParts
  DrmTask = {t1, t2}
  DrmDisplay = {o1, o2}
  DrmNone = DrmNone
  DrmMaxEdid = 3
  DrmSetups <- DrmParts
  GemObj = {o1, o2}
  GemNone = GemNone
  GemMaxRefs = 2
  GemSetups <- GemParts
  GsGpu = {g1, g2, g3}
  GsChannels = 3
  GsSlots = 2
  GsPeerIds = {0, 1}
  GsMaxRefs = 3
  GsNone = GsNone
  GsSetups <- GsParts
  DmMem = {m1, m2}
  DmGpu = {g1}
  DmSpace = 8
  DmSizes = {3, 4}
  DmBig = 2
  DmBiggest = 4
  DmPde = 1
  DmPush = 2
  DmClear = 2
  DmNone = DmNone
  DmSetups <- DmParts
  MlOps = {m1, m2}
  MlFlags = {1, 2}
  MlSetups <- MlParts
  LcChan = {g1, g2}
  LcPb = {o1, o2, o3}
  LcThread = {t1, t2}
  LcPool = {o1, o2, o3}
  LcRingSize = 5
  LcRes = 3
  LcFifo = 3
  LcWrap = 4
  LcMaxSeq = 3
  LcMaxPools = 4
  LcMaxMem = 2
  LcNone = LcNone
  LcSetups <- LcParts
  ThCpu = ThCpu
  ThGpu = {g1, g2}
  ThPages = {0, 1}
  ThLapse = 1
  ThEpoch = 2
  ThMaxEvents = 3
  ThPinThreshold = 1
  ThMaxResets = 1
  ThNone = ThNone
  ThSetups <- ThParts
  PfProc = {1, 2}
  PfBlockPages = 8
  PfBig = 2
  PfBiggest = 4
  PfThreshold = 51
  PfMinFaults = 2
  PfMaxBatches = 2
  PfSetups <- PfParts
  ExPages = 9
  ExBuffer = 3
  ExCopy = 2
  ExPde = 4
  ExSetups <- ExParts
INVARIANT LiteDriverExact
INVARIANT DevicesExact
INVARIANT FilesExact
INVARIANT P2PExact
INVARIANT ModesetExact
INVARIANT DisplaysExact
INVARIANT GemExact
INVARIANT UvmSetupExact
INVARIANT HeuristicsExact
CHECK_DEADLOCK FALSE

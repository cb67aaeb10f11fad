SPECIFICATION MCSpec
CONSTANTS
  g1 = g1
  g2 = g2
  c1 = c1
  t1 = t1
  t2 = t2
  o1 = o1
  o2 = o2
  u1 = u1
  group = group
  VsThread = {t1, t2}
  VsGpu = {g1, g2}
  VsChannel = {c1}
  ChannelGpu <- OnG1
  GpuVaSpace = {o1, o2}
  UserChannel = {u1}
  Faultable = {g1}
  BigPageSize <- Sizes
  PeerCopies = TRUE
  PeerNvlink = FALSE
  PeerAtomics = TRUE
  NoObject = NoObject
  UVM_CPU_ID = UVM_CPU_ID
  SYSMEM = SYSMEM
  RgThread = {t1, t2}
  RgGpu = {g1}
  RgFaultable = {}
  RgAccess <- Access
  RangeGroup = {group}
  RgPages = 4
  RgBlockPages = 2
  RgSetups <- RangeSetups
  RgCpu = RgCpu
  RgNone = RgNone
SYMMETRY Symmetric
INVARIANT AddressSpacesExact
PROPERTY PolicyWithinSpan
CHECK_DEADLOCK FALSE

SPECIFICATION MCSpec
CONSTANTS
  g1 = g1
  g2 = g2
  GPUs = {1, 2}
  Setups <- AllSetups
  SwGpu <- SwInOrder
  SwCpu = SwCpu
  SwNone = SwNone
  SwMasks <- SwAsked
  SwMaxOps = 3
  SwMaxPushes = 1
  SwSetups <- SwParts
INVARIANT DataCoherent
INVARIANT PoliciesKept
INVARIANT SwizzleExact

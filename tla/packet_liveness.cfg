\* Blocks are bounded, so every behaviour ends: no deadlock check.
SPECIFICATION FairSpec
CONSTANTS
  ChainA = A
  ChainB = B
  None = None
  TrustingPeriod = 10
  MaxClockDrift = 2
  RevisionLength = 100
  MaxHeight = 3
  MaxTime = 3
  DelayPeriod = 0
  MaxExpectedTimePerBlock = 1
  Ordering = "Unordered"
  Senders <- OnlyA
  MaxSeq = 1
  Data = {d1}
  Timeouts <- EarlyTimeouts
  Acks = {"success"}
  ModuleMayClose = FALSE
  OneProofOpensManyPaths = TRUE
PROPERTIES
  EverySentPacketSettles
CHECK_DEADLOCK FALSE

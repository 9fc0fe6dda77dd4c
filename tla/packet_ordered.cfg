\* Blocks are bounded, so every behaviour ends: no deadlock check.
SPECIFICATION FairSpec
CONSTANTS
  ChainA = A
  ChainB = B
  None = None
  TrustingPeriod = 10
  MaxClockDrift = 2
  RevisionLength = 100
  MaxHeight = 3
  MaxTime = 3
  DelayPeriod = 0
  MaxExpectedTimePerBlock = 1
  Ordering = "Ordered"
  Senders <- OnlyA
  MaxSeq = 2
  Data = {d1}
  Timeouts <- EarlyTimeouts
  Acks = {"success"}
  ModuleMayClose = FALSE
  OneProofOpensManyPaths = TRUE
INVARIANTS
  OrderedDelivery
  OrderedTimeoutIsFinal
  TimeoutSafety
PROPERTIES
  ImplementsDelivery
  NoPacketStuck
CHECK_DEADLOCK FALSE

\* Blocks are bounded, so every behaviour ends: no deadlock check.
SPECIFICATION Spec
CONSTANTS
  ChainA = A
  ChainB = B
  None = None
  TrustingPeriod = 2
  MaxClockDrift = 2
  RevisionLength = 100
  MaxHeight = 3
  MaxTime = 4
  DelayPeriod = 1
  MaxExpectedTimePerBlock = 1
  Ordering = "Unordered"
  Senders <- OnlyA
  MaxSeq = 1
  Data = {d1}
  Timeouts <- BothTimeouts
  Acks = {"success", "error"}
  ModuleMayClose = TRUE
  OneProofOpensManyPaths = TRUE
INVARIANTS
  TypeOK
  DeliveredAtMostOnce
  NeverReceivedAndTimedOut
  SettledAtMostOnce
PROPERTIES
  ClosedEndIsDead
  ImplementsDelivery
CHECK_DEADLOCK FALSE

\* Blocks are bounded, so every behaviour ends: no deadlock check.
SPECIFICATION Spec
CONSTANTS
  ChainA = A
  ChainB = B
  None = None
  TrustingPeriod = 2
  MaxClockDrift = 2
  RevisionLength = 100
  MaxHeight = 3
  MaxTime = 4
  DelayPeriod = 0
  MaxExpectedTimePerBlock = 1
  Ordering = "Unordered"
  Senders <- OnlyA
  MaxSeq = 1
  Data = {d1}
  Timeouts <- BothTimeouts
  Acks = {"success"}
  ModuleMayClose = TRUE
  OneProofOpensManyPaths = FALSE
INVARIANTS
  ClosedIsTimedOut
CHECK_DEADLOCK FALSE

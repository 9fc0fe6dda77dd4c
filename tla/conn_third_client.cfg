\* Blocks are bounded, so every behaviour ends: no deadlock check.
SPECIFICATION Spec
CONSTANTS
  ChainA = A
  ChainB = B
  None = None
  TrustingPeriod = 10
  MaxClockDrift = 3
  RevisionLength = 100
  MaxHeight = 3
  MaxTime = 4
  LastHeight <- Even
  DelayPeriod = 0
  MaxExpectedTimePerBlock = 1
  ClientIds = {"peer", "third"}
  Initiators <- OnlyA
  MaxConnections = 1
  Compatible <- OneVersion
  Identifiers = {1}
  Features = {"o"}
  Proposed = {}
  Delays = {0, 1}
INVARIANTS
  OpenEndsAgree
CHECK_DEADLOCK FALSE

\* Blocks are bounded, so every behaviour ends: no deadlock check.
SPECIFICATION Spec
CONSTANTS
  ChainA = A
  ChainB = B
  None = None
  TrustingPeriod = 10
  MaxClockDrift = 3
  RevisionLength = 100
  MaxHeight = 5
  MaxTime = 5
  LastHeight <- Uneven
  DelayPeriod = 0
  MaxExpectedTimePerBlock = 1
  ClientIds = {"peer"}
  Initiators <- OnlyA
  MaxConnections = 2
  Compatible <- MCCompatible
  Identifiers = {1, 2}
  Features = {"o", "u"}
  Proposed <- MCProposed
  Delays = {0}
INVARIANTS
  TypeOK
  OpenEndsAgree
  SpokenByBoth
CHECK_DEADLOCK FALSE

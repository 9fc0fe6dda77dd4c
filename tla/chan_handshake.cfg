\* Blocks are bounded, so every behaviour ends: no deadlock check.
SPECIFICATION Spec
CONSTANTS
  ChainA = A
  ChainB = B
  None = None
  TrustingPeriod = 10
  MaxClockDrift = 3
  RevisionLength = 100
  MaxHeight = 3
  MaxTime = 4
  DelayPeriod = 0
  MaxExpectedTimePerBlock = 1
  MaxChannels = 2
  LastHeight <- Even
  Initiators <- OnlyA
  Closers <- OnlyA
  Conns = {1, 2}
  Ports = {"p"}
  Orders = {"Ordered", "Unordered"}
  ConnOrders <- FewerOrders
  Versions = {"a", "b", "c"}
  AcceptsInit <- AcceptAB
  TryVersion <- AnswerNext
  AcceptsAck = {"a", "b"}
INVARIANTS
  TypeOK
  OpenEndsAgree
  VersionNegotiated
  ClosedWithPartner
PROPERTIES
  EndsOnlyProgress
CHECK_DEADLOCK FALSE

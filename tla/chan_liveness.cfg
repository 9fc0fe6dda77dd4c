\* Blocks are bounded, so every behaviour ends: no deadlock check.
SPECIFICATION FairSpec
CONSTANTS
  ChainA = A
  ChainB = B
  None = None
  TrustingPeriod = 10
  MaxClockDrift = 3
  RevisionLength = 100
  MaxHeight = 4
  MaxTime = 4
  DelayPeriod = 0
  MaxExpectedTimePerBlock = 1
  MaxChannels = 1
  LastHeight <- Uneven
  Initiators <- OnlyA
  Closers <- Both
  Conns = {1}
  Ports = {"p"}
  Orders = {"Unordered"}
  ConnOrders <- AllOrders
  Versions = {"a", "b"}
  AcceptsInit <- AcceptA
  TryVersion <- AnswerB
  AcceptsAck = {"a", "b"}
PROPERTIES
  OpeningCompletes
  ClosingSpreads
CHECK_DEADLOCK FALSE

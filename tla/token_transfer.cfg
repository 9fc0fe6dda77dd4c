\* Transfers are bounded, so every behaviour ends: no deadlock check.
SPECIFICATION FairSpec
CONSTANTS
  PortIds = {"transfer"}
  ChannelIds = {"c0", "c1"}
  Blank = ""
  End <- MCEnd
  Peer <- MCPeer
  Names = {"u", "v"}
  Receivers = {"u", "?"}
  Bases <- MCBases
  Amounts = {1}
  InitBank <- MCBank
  MaxHops = 2
  MaxSends = 3
INVARIANTS
  CoinsConserved
  FailureLeavesNoTrace
PROPERTIES
  TransferEnds
CHECK_DEADLOCK FALSE

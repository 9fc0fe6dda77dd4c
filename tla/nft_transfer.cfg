\* Transfers are bounded, so every behaviour ends: no deadlock check.
SPECIFICATION Spec
CONSTANTS
  None = None
  PortIds = {"nft"}
  ChannelIds = {"c0", "c1"}
  Blank = ""
  End <- MCEnd
  Peer <- MCPeer
  Names = {"u"}
  Receivers = {"u"}
  BaseClass <- MCBase
  Home = "A"
  Tokens = {1, 2}
  Metadata <- MCMetadata
  FindsBurnt = TRUE
  MaxHops = 2
  MaxSends = 3
INVARIANTS
  OneOwner
  VoucherMetadata
CHECK_DEADLOCK FALSE

\* Store operations and blocks are bounded, but a query can always be asked.
SPECIFICATION Spec
CONSTANTS
  Missing = Missing
  Malformed = {"a/b"}
  Numbers <- MCNumbers
  Clients = {"consensusStates"}
  Heights <- MCHeights
  ConnectionIds = {"connection-1", "connections"}
  PortIds = {"transfer"}
  ChannelIds = {"channel-1", "channels"}
  Sequences = {1}
  ClientStates <- MCClientStates
  ConnectionEnds <- MCConnectionEnds
  ChannelEnds <- MCChannelEnds
  Commitments <- MCCommitments
  Acks <- MCAcks
  IbcPrefix = "ibc"
  UpgradePrefix = "upgrade"
  InitStore <- MCInitStore
  ChainText <- MCChainText
  MaxWrites = 2
  MaxBlocks = 2
  OwnPrefix = "own"
  OwnConnections <- MCOwnConnections
  OwnChannels <- MCOwnChannels
  OwnRouter <- MCOwnRouter
  UpgradeStore = "upgrade"
  Drafts <- MCDrafts
  BadPackets <- MCBadPackets
INVARIANTS
  RecordsReadBack
  IterationFindsNeighbours
  AnswerVerifiesIffCurrent
  AcceptedIsTrue
  HonestIsAccepted
  ReceivedAsSent

--------------------------- MODULE MCRelayedProofs ---------------------------
(***************************************************************************)
(* RelayedProofs for TLC.  The host's identifiers are words of the paths   *)
(* where the length rules allow it, and the two heights have the same      *)
(* digits.  A light client of this chain, a connection to it and an open   *)
(* channel are in the store from the start.                                *)
(***************************************************************************)
EXTENDS RelayedProofs

MCHeights == {<<2, 561>>, <<256, 1>>}
MCNumbers == {0, 1, 2, 256, 561}
MCChainText == <<"chain", "1">>
MCClientStates == {<<"ClientState", 1>>, <<"ClientState", 2>>}

Version == [identifier |-> "1", features |-> {"ORDER_ORDERED", "ORDER_UNORDERED"}]

-----------------------------------------------------------------------------
(* Connections and channels of the host, and this chain's ends of them *)

HostEnd(state, id) ==
  [state |-> state, client_id |-> "consensusStates", versions |-> <<Version>>,
   delay_period |-> 5,
   counterparty |-> [client_id |-> "07-tendermint-0", connection_id |-> id, prefix |-> "own"]]

MCConnectionEnds ==
  ("connection-1" :> {HostEnd("Init", NoId), HostEnd("TryOpen", "connection-7")})
    @@ ("connections" :> {HostEnd("Open", "connection-0")})

OwnConnEnd(state, id) ==
  [state |-> state, client_id |-> "07-tendermint-0", versions |-> <<Version>>,
   delay_period |-> 5,
   counterparty |-> [client_id |-> "consensusStates", connection_id |-> id, prefix |-> "ibc"]]

MCOwnConnections ==
  ("connection-0" :> OwnConnEnd("TryOpen", "connections")) @@ ("connection-7" :> OwnConnEnd("Init", NoId))

Channel(state, ordering, port, ch, hop) ==
  [state |-> state, ordering |-> ordering, remote |-> [port_id |-> port, channel_id |-> ch],
   connection_hops |-> <<hop>>, version |-> "v"]

MCChannelEnds ==
  ("channel-1" :> {Channel("Init", "Unordered", "nft", NoId, "connections"),
                   Channel("TryOpen", "Unordered", "nft", "channel-5", "connections"),
                   Channel("Open", "Unordered", "nft", "channel-0", "connections"),
                   Channel("Closed", "Unordered", "nft", "channel-0", "connections")})
    @@ ("channels" :> {Channel("Open", "Ordered", "nft", "channel-9", "connections"),
                       Channel("Closed", "Ordered", "nft", "channel-9", "connections")})

MCOwnChannels ==
  (<<"nft", "channel-0">> :> Channel("Open", "Unordered", "transfer", "channel-1", "connection-0"))
    @@ (<<"nft", "channel-9">> :> Channel("Open", "Ordered", "transfer", "channels", "connection-0"))
    @@ (<<"nft", "channel-5">> :> Channel("Init", "Unordered", "transfer", NoId, "connection-0"))

MCOwnRouter == "nft" :> "nfttransfer"

MCInitStore ==
  (<<"ClientState", "consensusStates">> :> <<"ClientState", 1>>)
    @@ (<<"ClientConsensusState", "consensusStates", <<2, 561>>>> :> HostConsensusState(<<2, 561>>))
    @@ (<<"Connection", "connections">> :> HostEnd("Open", "connection-0"))
    @@ (<<"ChannelEnd", "transfer", "channel-1">> :>
          Channel("Open", "Unordered", "nft", "channel-0", "connections"))

-----------------------------------------------------------------------------
(* Packets to this chain, and packets of this chain *)

PacketTo(seq, data, timestamp) ==
  [sequence |-> seq, source_port |-> "transfer", source_channel |-> "channel-1",
   destination_port |-> "nft", destination_channel |-> "channel-0", data |-> data,
   timeout_height |-> Never, timeout_timestamp |-> timestamp]

PacketOf(ch, far) ==
  [sequence |-> 1, source_port |-> "nft", source_channel |-> ch,
   destination_port |-> "transfer", destination_channel |-> far, data |-> <<"data">>,
   timeout_height |-> <<1, 9>>, timeout_timestamp |-> 0]

MCCommitments == {CommitmentOf(PacketTo(1, <<"data">>, 7)), CommitmentOf(PacketTo(1, <<"data">>, 0))}
MCAcks == {AckCommitment(<<"ok">>)}
MCBadPackets == {PacketTo(1, <<"data">>, 0), PacketTo(0, <<"data">>, 7), PacketTo(1, <<>>, 7)}

Unordered == PacketOf("channel-0", "channel-1")
Ordered   == PacketOf("channel-9", "channels")

-----------------------------------------------------------------------------

HostClient == [client_id |-> "consensusStates", connection_id |-> "connection-1", prefix |-> "ibc"]
NewClient  == [HostClient EXCEPT !.connection_id = NoId]

MCDrafts ==
  [CreateClient |-> {[client_state |-> <<"ClientState", 1>>, consensus_state |-> <<"ConsensusState">>]},
   UpdateClient |-> {[client_id |-> "07-tendermint-0", client_message |-> <<"Header">>]},
   SubmitMisbehaviour |-> {[client_id |-> "07-tendermint-0", misbehaviour |-> <<"Headers">>]},
   UpgradeClient |->
     {[client_id |-> "07-tendermint-0", client_state |-> <<"ClientState", 2>>,
       consensus_state |-> <<"ClientState", 1>>]},
   ConnectionOpenInit |->
     {[client_id |-> "07-tendermint-0", counterparty |-> NewClient, version |-> v,
       delay_period |-> 5] : v \in {Missing, Version}},
   ConnectionOpenTry |->
     {[client_id |-> "07-tendermint-0", previous_connection_id |-> "",
       client_state |-> <<"ClientState", 1>>, counterparty |-> HostClient, delay_period |-> 5,
       counterparty_versions |-> <<Version>>, consensus_height |-> h,
       host_consensus_state_proof |-> <<>>] : h \in MCHeights},
   ConnectionOpenAck |->
     {[connection_id |-> "connection-7", counterparty_connection_id |-> "connection-1",
       client_state |-> <<"ClientState", 1>>, version |-> Version,
       consensus_height |-> <<2, 561>>, host_consensus_state_proof |-> <<>>]},
   ConnectionOpenConfirm |-> {[connection_id |-> "connection-0"]},
   ChannelOpenInit |->
     {[port_id |-> "nft", channel |-> Channel("Init", o, "transfer", NoId, "connection-0")] :
        o \in {"Ordered", "Unordered"}},
   ChannelOpenTry |->
     {[port_id |-> "nft", previous_channel_id |-> "", counterparty_version |-> "v",
       channel |-> Channel("TryOpen", "Unordered", "transfer", "channel-1", "connection-0")]},
   ChannelOpenAck |->
     {[port_id |-> "nft", channel_id |-> "channel-5", counterparty_channel_id |-> "channel-1",
       counterparty_version |-> "v"]},
   ChannelOpenConfirm |-> {[port_id |-> "nft", channel_id |-> "channel-0"]},
   ChannelCloseInit |-> {[port_id |-> "nft", channel_id |-> "channel-0"]},
   ChannelCloseConfirm |->
     {[port_id |-> "nft", channel_id |-> ch, counterparty_upgrade_sequence |-> 0] :
        ch \in {"channel-0", "channel-9"}},
   RecvPacket |-> {[packet |-> PacketTo(1, <<"data">>, 7)]},
   Acknowledgement |-> {[packet |-> Unordered, acknowledgement |-> <<"ok">>]},
   Timeout |-> {[packet |-> p, next_sequence_recv |-> 1] : p \in {Unordered, Ordered}},
   TimeoutOnClose |->
     {[packet |-> p, next_sequence_recv |-> 1, counterparty_upgrade_sequence |-> 0] :
        p \in {Unordered, Ordered}}]
=============================================================================

------------------------------- MODULE Messages -------------------------------
(***************************************************************************)
(* The messages of ICS-02, ICS-03 and ICS-04 on the wire, the envelope     *)
(* they arrive in (ICS-25), the module they are routed to (ICS-26), and    *)
(* what each asks the light client to verify of the counterparty's store.  *)
(*                                                                         *)
(* A message type is the function from its protobuf fields to the kind of  *)
(* conversion each goes through; a decoded message keeps the field names   *)
(* of the wire.  The signer, which every message carries as free text, is  *)
(* left out.                                                               *)
(***************************************************************************)
EXTENDS WireTypes

CONSTANTS
  OwnPrefix,        \* this chain's commitment prefix
  OwnConnections,   \* this chain's connection ends by identifier
  OwnChannels,      \* this chain's channel ends by <<port, channel>>
  OwnRouter,        \* the module each port of this chain is bound to
  UpgradeStore      \* upgrade_path[0] of the client this chain runs

-----------------------------------------------------------------------------
(* ics02-client/types/src/msgs *)

MsgCreateClient == [client_state |-> "any", consensus_state |-> "any"]

MsgUpdateClient == [client_id |-> "client", client_message |-> "any"]

MsgSubmitMisbehaviour == [client_id |-> "client", misbehaviour |-> "any"]

MsgUpgradeClient ==
  [client_id |-> "client", client_state |-> "any", consensus_state |-> "any",
   proof_upgrade_client |-> "proof", proof_upgrade_consensus_state |-> "proof"]

(* ics03-connection/types/src/msgs *)

MsgConnectionOpenInit ==
  [client_id |-> "client", counterparty |-> "new_counterparty",
   version |-> "optional_version", delay_period |-> "plain"]

MsgConnectionOpenTry ==
  [client_id |-> "client", previous_connection_id |-> "plain", client_state |-> "any",
   counterparty |-> "counterparty", delay_period |-> "plain",
   counterparty_versions |-> "versions", proof_height |-> "height",
   proof_init |-> "proof", proof_client |-> "proof", proof_consensus |-> "proof",
   consensus_height |-> "height", host_consensus_state_proof |-> "plain"]

MsgConnectionOpenAck ==
  [connection_id |-> "connection", counterparty_connection_id |-> "connection",
   client_state |-> "any", version |-> "version", proof_height |-> "height",
   proof_try |-> "proof", proof_client |-> "proof", proof_consensus |-> "proof",
   consensus_height |-> "height", host_consensus_state_proof |-> "plain"]

MsgConnectionOpenConfirm ==
  [connection_id |-> "connection", proof_ack |-> "proof", proof_height |-> "height"]

(* ics04-channel/types/src/msgs *)

MsgChannelOpenInit == [port_id |-> "port", channel |-> "init_channel"]

MsgChannelOpenTry ==
  [port_id |-> "port", previous_channel_id |-> "empty", channel |-> "try_channel",
   counterparty_version |-> "plain", proof_init |-> "proof", proof_height |-> "height"]

MsgChannelOpenAck ==
  [port_id |-> "port", channel_id |-> "channel", counterparty_channel_id |-> "channel",
   counterparty_version |-> "plain", proof_try |-> "proof", proof_height |-> "height"]

MsgChannelOpenConfirm ==
  [port_id |-> "port", channel_id |-> "channel", proof_ack |-> "proof",
   proof_height |-> "height"]

MsgChannelCloseInit == [port_id |-> "port", channel_id |-> "channel"]

MsgChannelCloseConfirm ==
  [port_id |-> "port", channel_id |-> "channel", proof_init |-> "proof",
   proof_height |-> "height", counterparty_upgrade_sequence |-> "zero"]

MsgRecvPacket ==
  [packet |-> "packet", proof_commitment |-> "proof", proof_height |-> "height"]

MsgAcknowledgement ==
  [packet |-> "packet", acknowledgement |-> "bytes", proof_acked |-> "proof",
   proof_height |-> "height"]

MsgTimeout ==
  [packet |-> "packet", proof_unreceived |-> "proof", proof_height |-> "height",
   next_sequence_recv |-> "sequence"]

MsgTimeoutOnClose ==
  [packet |-> "packet", proof_unreceived |-> "proof", proof_close |-> "proof",
   proof_height |-> "height", next_sequence_recv |-> "sequence",
   counterparty_upgrade_sequence |-> "zero"]

\* The type URLs MsgEnvelope::try_from(Any) knows
Envelope ==
  [CreateClient |-> MsgCreateClient, UpdateClient |-> MsgUpdateClient,
   SubmitMisbehaviour |-> MsgSubmitMisbehaviour, UpgradeClient |-> MsgUpgradeClient,
   ConnectionOpenInit |-> MsgConnectionOpenInit, ConnectionOpenTry |-> MsgConnectionOpenTry,
   ConnectionOpenAck |-> MsgConnectionOpenAck,
   ConnectionOpenConfirm |-> MsgConnectionOpenConfirm,
   ChannelOpenInit |-> MsgChannelOpenInit, ChannelOpenTry |-> MsgChannelOpenTry,
   ChannelOpenAck |-> MsgChannelOpenAck, ChannelOpenConfirm |-> MsgChannelOpenConfirm,
   ChannelCloseInit |-> MsgChannelCloseInit,
   ChannelCloseConfirm |-> MsgChannelCloseConfirm,
   RecvPacket |-> MsgRecvPacket, Acknowledgement |-> MsgAcknowledgement,
   Timeout |-> MsgTimeout, TimeoutOnClose |-> MsgTimeoutOnClose]

-----------------------------------------------------------------------------
(* The conversions *)

AllOf(raw, parse(_)) ==
  When(\A i \in DOMAIN raw : parse(raw[i]) # {}, raw)

\* Option<Version>: absent is no proposal.
ParseOptionalVersion(raw) == IF raw = Missing THEN {Missing} ELSE VersionFromRaw(raw)

\* A new connection's counterparty has no identifier yet.
ParseNewCounterparty(raw) ==
  {c \in ConnCounterpartyFromRaw(raw) : c.connection_id = NoId}

\* The channel end inside an open message must be in the state that the
\* message is about, and its counterparty without an identifier in Init and
\* with one in TryOpen.
ParseChannel(raw, state) ==
  IF raw = Missing THEN {}
  ELSE {end \in ChannelEndFromRaw(raw) :
          end.state = state /\ (end.remote.channel_id = NoId) = (state = "Init")}

ParseField(kind, raw) ==
  CASE kind = "client"           -> When(validate_client_identifier(raw), raw)
    [] kind = "connection"       -> When(validate_connection_identifier(raw), raw)
    [] kind = "port"             -> When(validate_port_identifier(raw), raw)
    [] kind = "channel"          -> When(validate_channel_identifier(raw), raw)
    [] kind = "any"              -> When(raw # Missing, raw)
    [] kind \in {"proof", "bytes"} -> When(raw # <<>>, raw)
    [] kind = "height"           -> HeightFromRaw(raw)
    [] kind = "sequence"         -> When(raw # 0, raw)
    [] kind = "zero"             -> When(raw = 0, raw)
    [] kind = "empty"            -> When(raw = "", raw)
    [] kind = "packet"           -> PacketFromRaw(raw)
    [] kind = "version"          -> VersionFromRaw(raw)
    [] kind = "optional_version" -> ParseOptionalVersion(raw)
    [] kind = "versions"         -> IF raw = <<>> THEN {} ELSE AllOf(raw, VersionFromRaw)
    [] kind = "counterparty"     -> ConnCounterpartyFromRaw(raw)
    [] kind = "new_counterparty" -> ParseNewCounterparty(raw)
    [] kind = "init_channel"     -> ParseChannel(raw, "Init")
    [] kind = "try_channel"      -> ParseChannel(raw, "TryOpen")
    [] kind = "plain"            -> {raw}

\* MsgChannelOpenTry writes an empty version in the channel it carries.
UnparseField(kind, value) ==
  CASE kind = "packet"       -> PacketToRaw(value)
    [] kind \in {"counterparty", "new_counterparty"} -> ConnCounterpartyToRaw(value)
    [] kind = "init_channel" -> ChannelEndToRaw(value)
    [] kind = "try_channel"  -> ChannelEndToRaw([value EXCEPT !.version = ""])
    [] OTHER                 -> value

\* TryFrom<RawMsg> for Msg, behind MsgEnvelope::try_from
Decode(type, raw) ==
  LET kinds == Envelope[type]
  IN  When(\A f \in DOMAIN kinds : ParseField(kinds[f], raw[f]) # {},
           [f \in DOMAIN kinds |-> CHOOSE v \in ParseField(kinds[f], raw[f]) : TRUE])

\* From<Msg> for RawMsg
Encode(type, msg) ==
  [f \in DOMAIN Envelope[type] |-> UnparseField(Envelope[type][f], msg[f])]

-----------------------------------------------------------------------------
(* Routing *)

ChannelMsgs == {"ChannelOpenInit", "ChannelOpenTry", "ChannelOpenAck",
                "ChannelOpenConfirm", "ChannelCloseInit", "ChannelCloseConfirm"}

PacketMsgs  == {"RecvPacket", "Acknowledgement", "Timeout", "TimeoutOnClose"}

channel_msg_to_port_id(msg) == msg.port_id

\* Mutant of packet_msg_to_port_id: the sender's port whatever the message.
SourcePortAlways(type, msg) == msg.packet.source_port

\* The packet's source port is this chain's, unless the packet is received.
packet_msg_to_port_id(type, msg) ==
  IF type = "RecvPacket" THEN msg.packet.destination_port ELSE msg.packet.source_port

\* lookup_module and get_route: UnknownPort where no module is bound
Routed(type, msg) ==
  /\ type \in ChannelMsgs => channel_msg_to_port_id(msg) \in DOMAIN OwnRouter
  /\ type \in PacketMsgs  => packet_msg_to_port_id(type, msg) \in DOMAIN OwnRouter

-----------------------------------------------------------------------------
(* What the handlers have the light client verify.  A claim names the field *)
(* of the message its proof is in, the counterparty's store prefix, the     *)
(* path and the value there, Missing for a proof of non-membership.  A      *)
(* handler makes a sequence of claims, verified in that order: its operator *)
(* returns {} when it gives up before it verifies anything.  The checks of  *)
(* this chain's own state are in ConnHandshake, ChanHandshake, IbcPacket.   *)

Claim(proof, prefix, path, value) ==
  [proof |-> proof, prefix |-> prefix, path |-> path, value |-> value]

\* compute_packet_commitment: timeout height, timestamp and data, hashed
CommitmentOf(p) == <<"Commitment", p.timeout_height, p.timeout_timestamp, p.data>>

\* compute_ack_commitment
AckCommitment(ack) == <<"Ack", ack>>

ConnectionOpenTryClaims(m) ==
  LET c        == m.counterparty
      expected == [state |-> "Init", client_id |-> c.client_id,
                   counterparty |-> [client_id |-> m.client_id, connection_id |-> NoId,
                                     prefix |-> OwnPrefix],
                   versions |-> m.counterparty_versions, delay_period |-> m.delay_period]
  IN  When(c.connection_id # NoId,
           <<Claim("proof_init", c.prefix, <<"Connection", c.connection_id>>,
                  expected),
            Claim("proof_client", c.prefix, <<"ClientState", c.client_id>>,
                  m.client_state),
            Claim("proof_consensus", c.prefix,
                  <<"ClientConsensusState", c.client_id, m.consensus_height>>,
                  HostConsensusState(m.consensus_height))>>)

ConnectionOpenAckClaims(m) ==
  IF m.connection_id \notin DOMAIN OwnConnections THEN {}
  ELSE LET own      == OwnConnections[m.connection_id]
           c        == own.counterparty
           expected == [state |-> "TryOpen", client_id |-> c.client_id,
                        counterparty |-> [client_id |-> own.client_id,
                                          connection_id |-> m.connection_id,
                                          prefix |-> OwnPrefix],
                        versions |-> <<m.version>>, delay_period |-> own.delay_period]
       IN  {<<Claim("proof_try", c.prefix, <<"Connection", m.counterparty_connection_id>>,
                   expected),
             Claim("proof_client", c.prefix, <<"ClientState", c.client_id>>,
                   m.client_state),
             Claim("proof_consensus", c.prefix,
                   <<"ClientConsensusState", c.client_id, m.consensus_height>>,
                   HostConsensusState(m.consensus_height))>>}

ConnectionOpenConfirmClaims(m) ==
  IF m.connection_id \notin DOMAIN OwnConnections THEN {}
  ELSE LET own      == OwnConnections[m.connection_id]
           c        == own.counterparty
           expected == [state |-> "Open", client_id |-> c.client_id,
                        counterparty |-> [client_id |-> own.client_id,
                                          connection_id |-> m.connection_id,
                                          prefix |-> OwnPrefix],
                        versions |-> own.versions, delay_period |-> own.delay_period]
       IN  When(c.connection_id # NoId,
                <<Claim("proof_ack", c.prefix, <<"Connection", c.connection_id>>,
                        expected)>>)

\* The counterparty's channel end that the message relies on, over the
\* connection below this chain's end
ChannelClaim(proof, hops, state, ordering, remote, version, port, channel) ==
  IF hops = <<>> \/ Head(hops) \notin DOMAIN OwnConnections THEN {}
  ELSE LET c == OwnConnections[Head(hops)].counterparty
       IN  When(c.connection_id # NoId /\ channel # NoId,
                <<Claim(proof, c.prefix, <<"ChannelEnd", port, channel>>,
                        [state |-> state, ordering |-> ordering, remote |-> remote,
                         connection_hops |-> <<c.connection_id>>, version |-> version])>>)

ChannelOpenTryClaims(m) ==
  ChannelClaim("proof_init", m.channel.connection_hops, "Init", m.channel.ordering,
               [port_id |-> m.port_id, channel_id |-> NoId], m.counterparty_version,
               m.channel.remote.port_id, m.channel.remote.channel_id)

\* This chain's end, and where its counterparty keeps what is verified
OwnEnd(port, channel) ==
  When(<<port, channel>> \in DOMAIN OwnChannels, OwnChannels[<<port, channel>>])

PrefixOf(own) == OwnConnections[Head(own.connection_hops)].counterparty.prefix

\* Acknowledgement, confirmation and closing, which find this chain's end first
OwnEndClaim(proof, own, state, port, channel, version, cpChannel) ==
  ChannelClaim(proof, own.connection_hops, state, own.ordering,
               [port_id |-> port, channel_id |-> channel],
               version, own.remote.port_id, cpChannel)

ChannelOpenAckClaims(m) ==
  UNION {OwnEndClaim("proof_try", own, "TryOpen", m.port_id, m.channel_id,
                     m.counterparty_version, m.counterparty_channel_id) :
           own \in OwnEnd(m.port_id, m.channel_id)}

ChannelOpenConfirmClaims(m) ==
  UNION {OwnEndClaim("proof_ack", own, "Open", m.port_id, m.channel_id,
                     own.version, own.remote.channel_id) :
           own \in OwnEnd(m.port_id, m.channel_id)}

ChannelCloseConfirmClaims(m) ==
  UNION {OwnEndClaim("proof_init", own, "Closed", m.port_id, m.channel_id,
                     own.version, own.remote.channel_id) :
           own \in OwnEnd(m.port_id, m.channel_id)}

RecvPacketClaims(m) ==
  LET p == m.packet
  IN  {<<Claim("proof_commitment", PrefixOf(own),
               <<"Commitment", p.source_port, p.source_channel, p.sequence>>,
               CommitmentOf(p))>> : own \in OwnEnd(p.destination_port, p.destination_channel)}

AcknowledgementClaims(m) ==
  LET p == m.packet
  IN  {<<Claim("proof_acked", PrefixOf(own),
               <<"Ack", p.destination_port, p.destination_channel, p.sequence>>,
               AckCommitment(m.acknowledgement))>> :
         own \in OwnEnd(p.source_port, p.source_channel)}

\* On an ordered channel the next sequence to be received, on an unordered
\* one the absence of a receipt
UnreceivedClaim(p, own) ==
  IF own.ordering = "Ordered"
  THEN Claim("proof_unreceived", PrefixOf(own),
             <<"SeqRecv", p.destination_port, p.destination_channel>>, p.sequence)
  ELSE Claim("proof_unreceived", PrefixOf(own),
             <<"Receipt", p.destination_port, p.destination_channel, p.sequence>>, Missing)

TimeoutClaims(m) ==
  {<<UnreceivedClaim(m.packet, own)>> :
     own \in OwnEnd(m.packet.source_port, m.packet.source_channel)}

\* The closed channel end too is verified with proof_unreceived.
TimeoutOnCloseClaims(m) ==
  LET p == m.packet
      Both(own) ==
        {Append(closed, UnreceivedClaim(p, own)) :
           closed \in OwnEndClaim("proof_unreceived", own, "Closed", p.source_port,
                                  p.source_channel, own.version, own.remote.channel_id)}
  IN  UNION {Both(own) : own \in OwnEnd(p.source_port, p.source_channel)}

\* latest is the latest height of the client, where the old chain stopped.
UpgradeClientClaims(m, latest) ==
  {<<Claim("proof_upgrade_client", UpgradeStore, <<"UpgradedClientState", latest[2]>>,
          m.client_state),
    Claim("proof_upgrade_consensus_state", UpgradeStore,
          <<"UpgradedClientConsensusState", latest[2]>>, m.consensus_state)>>}

Claims(type, m, latest) ==
  CASE type = "ConnectionOpenTry"     -> ConnectionOpenTryClaims(m)
    [] type = "ConnectionOpenAck"     -> ConnectionOpenAckClaims(m)
    [] type = "ConnectionOpenConfirm" -> ConnectionOpenConfirmClaims(m)
    [] type = "ChannelOpenTry"        -> ChannelOpenTryClaims(m)
    [] type = "ChannelOpenAck"        -> ChannelOpenAckClaims(m)
    [] type = "ChannelOpenConfirm"    -> ChannelOpenConfirmClaims(m)
    [] type = "ChannelCloseConfirm"   -> ChannelCloseConfirmClaims(m)
    [] type = "RecvPacket"            -> RecvPacketClaims(m)
    [] type = "Acknowledgement"       -> AcknowledgementClaims(m)
    [] type = "Timeout"               -> TimeoutClaims(m)
    [] type = "TimeoutOnClose"        -> TimeoutOnCloseClaims(m)
    [] type = "UpgradeClient"         -> UpgradeClientClaims(m, latest)
    [] OTHER                          -> {<<>>}
=============================================================================

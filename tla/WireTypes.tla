------------------------------ MODULE WireTypes ------------------------------
(***************************************************************************)
(* The protobuf form of the records that chains prove to each other and of *)
(* the parts of messages: connection ends, channel ends, packets, heights, *)
(* versions.  XToRaw is the code's From<X> for RawX, XFromRaw its          *)
(* TryFrom<RawX> for X: the set of its results, {} an error.               *)
(*                                                                         *)
(* An absent protobuf message is Missing, absent bytes and text are <<>>   *)
(* and "".  Option<Id>::None is NoId.  A Duration is its nanoseconds,      *)
(* which fit the wire's u64.                                               *)
(***************************************************************************)
EXTENDS HostPaths

CONSTANT Missing   \* a model value: a protobuf message field that is not there

ASSUME MissingAssumption == Missing \notin Nat \X Nat

NoId  == "<none>"
Never == <<0, 0>>

\* Option<ConnectionId> and Option<ChannelId>: the empty text is None.
OptionToText(id) == IF id = NoId THEN "" ELSE id

OptionFromText(text, valid) == IF text = "" THEN {NoId} ELSE When(valid, text)

-----------------------------------------------------------------------------
(* Heights and timeouts *)

\* Height::new refuses a zero revision_height.
HeightFromRaw(raw) == IF raw = Missing THEN {} ELSE When(raw[2] # 0, raw)

\* 0-0 and an absent height are "no timeout"; it is always written as 0-0.
TimeoutHeightFromRaw(raw) ==
  IF raw = Missing \/ raw = <<0, 0>> THEN {Never} ELSE HeightFromRaw(raw)

TimeoutHeightToRaw(timeout) == timeout

-----------------------------------------------------------------------------
(* ICS-03 *)

VersionFromRaw(raw) ==
  IF raw = Missing THEN {}
  ELSE When(raw.identifier # "" /\ "" \notin raw.features, raw)

ConnStates == <<"Uninitialized", "Init", "TryOpen", "Open">>

ConnStateToI32(state) == (CHOOSE i \in 1 .. 4 : ConnStates[i] = state) - 1

ConnStateFromI32(i) == IF i \in 0 .. 3 THEN {ConnStates[i + 1]} ELSE {}

ConnCounterpartyToRaw(c) == [c EXCEPT !.connection_id = OptionToText(@)]

ConnCounterpartyFromRaw(raw) ==
  IF raw = Missing THEN {}
  ELSE {[client_id |-> raw.client_id, connection_id |-> id, prefix |-> raw.prefix] :
          id \in IF validate_client_identifier(raw.client_id) /\ raw.prefix \notin {Missing, ""}
                 THEN OptionFromText(raw.connection_id,
                                     validate_connection_identifier(raw.connection_id))
                 ELSE {}}

\* What every value of the type ConnectionEnd is like: its fields, and what
\* ConnectionEnd::new and the types of its fields see to
ConnectionEndShape(end) ==
  /\ end = [state |-> end.state, client_id |-> end.client_id, versions |-> end.versions,
            delay_period |-> end.delay_period,
            counterparty |-> [client_id     |-> end.counterparty.client_id,
                              connection_id |-> end.counterparty.connection_id,
                              prefix        |-> end.counterparty.prefix]]
  /\ end.state \in {"Uninitialized", "Init", "TryOpen", "Open"}
  /\ end.counterparty.connection_id # ""

IsConnectionEnd(end) ==
  /\ ConnectionEndShape(end)
  /\ validate_client_identifier(end.client_id)
  /\ end.versions # <<>>
  /\ \A i \in DOMAIN end.versions : VersionFromRaw(end.versions[i]) # {}
  /\ end.state # "Init" => Len(end.versions) = 1
  /\ validate_client_identifier(end.counterparty.client_id)
  /\ \/ end.counterparty.connection_id = NoId
     \/ validate_connection_identifier(end.counterparty.connection_id)
  /\ end.counterparty.prefix \notin {Missing, ""}
  /\ ConnCounterpartyToRaw(end.counterparty) # Missing

ConnectionEndToRaw(end) ==
  [end EXCEPT !.state = ConnStateToI32(@), !.counterparty = ConnCounterpartyToRaw(@)]

\* ConnectionEnd::new: past Init, exactly the one version that was agreed on
ConnectionEndFromRaw(raw) ==
  {[raw EXCEPT !.state = s, !.counterparty = c] :
     s \in {x \in ConnStateFromI32(raw.state) :
              /\ validate_client_identifier(raw.client_id)
              /\ raw.versions # <<>>
              /\ \A i \in DOMAIN raw.versions : VersionFromRaw(raw.versions[i]) # {}
              /\ x # "Init" => Len(raw.versions) = 1},
     c \in ConnCounterpartyFromRaw(raw.counterparty)}

-----------------------------------------------------------------------------
(* ICS-04 *)

ChanStates == <<"Uninitialized", "Init", "TryOpen", "Open", "Closed">>

ChanStateToI32(state) == (CHOOSE i \in 1 .. 5 : ChanStates[i] = state) - 1

ChanStateFromI32(i) == IF i \in 0 .. 4 THEN {ChanStates[i + 1]} ELSE {}

Orders == <<"None", "Unordered", "Ordered">>

OrderToI32(order) == (CHOOSE i \in 1 .. 3 : Orders[i] = order) - 1

\* Mutant of OrderFromI32: the two orders are taken for each other.
OrderSwapped(i) == CASE i = 1 -> {"Ordered"} [] i = 2 -> {"Unordered"} [] OTHER -> {}

OrderFromI32(i) == IF i \in 0 .. 2 THEN {Orders[i + 1]} ELSE {}

ChanCounterpartyToRaw(c) == [c EXCEPT !.channel_id = OptionToText(@)]

ChanCounterpartyFromRaw(raw) ==
  IF raw = Missing THEN {}
  ELSE {[port_id |-> raw.port_id, channel_id |-> id] :
          id \in IF validate_port_identifier(raw.port_id)
                 THEN OptionFromText(raw.channel_id,
                                     validate_channel_identifier(raw.channel_id))
                 ELSE {}}

\* What every value of the type ChannelEnd is like
ChannelEndShape(end) ==
  /\ end = [state |-> end.state, ordering |-> end.ordering,
            remote |-> [port_id |-> end.remote.port_id, channel_id |-> end.remote.channel_id],
            connection_hops |-> end.connection_hops, version |-> end.version]
  /\ end.state \in {"Init", "TryOpen", "Open", "Closed"}
  /\ end.ordering \in {"Unordered", "Ordered"}
  /\ end.remote.channel_id # ""

IsChannelEnd(end) ==
  /\ ChannelEndShape(end)
  /\ \A i \in DOMAIN end.connection_hops :
       validate_connection_identifier(end.connection_hops[i])
  /\ validate_port_identifier(end.remote.port_id)
  /\ end.remote.channel_id = NoId \/ validate_channel_identifier(end.remote.channel_id)
  /\ ChanCounterpartyToRaw(end.remote) # Missing

ChannelEndToRaw(end) ==
  [state |-> ChanStateToI32(end.state), ordering |-> OrderToI32(end.ordering),
   counterparty |-> ChanCounterpartyToRaw(end.remote),
   connection_hops |-> end.connection_hops, version |-> end.version, upgrade_sequence |-> 0]

\* validate_basic: neither an Uninitialized channel nor one without an order
ChannelEndFromRaw(raw) ==
  {[state |-> s, ordering |-> o, remote |-> r,
    connection_hops |-> raw.connection_hops, version |-> raw.version] :
     s \in {x \in ChanStateFromI32(raw.state) :
              /\ x # "Uninitialized"
              /\ \A i \in DOMAIN raw.connection_hops :
                   validate_connection_identifier(raw.connection_hops[i])},
     o \in OrderFromI32(raw.ordering) \ {"None"},
     r \in ChanCounterpartyFromRaw(raw.counterparty)}

PacketShape(p) ==
  /\ p = [sequence |-> p.sequence, source_port |-> p.source_port,
          source_channel |-> p.source_channel, destination_port |-> p.destination_port,
          destination_channel |-> p.destination_channel, data |-> p.data,
          timeout_height |-> p.timeout_height, timeout_timestamp |-> p.timeout_timestamp]
  /\ p.sequence \in Numbers
  /\ p.timeout_height \in Nat \X Nat

PacketToRaw(packet) ==
  [packet EXCEPT !.timeout_height = TimeoutHeightToRaw(@)]

PacketFromRaw(raw) ==
  IF raw = Missing THEN {}
  ELSE {[raw EXCEPT !.timeout_height = t] :
          t \in {x \in TimeoutHeightFromRaw(raw.timeout_height) :
                   /\ raw.sequence # 0
                   /\ raw.data # <<>>
                   /\ x # Never \/ raw.timeout_timestamp # 0
                   /\ validate_port_identifier(raw.source_port)
                   /\ validate_channel_identifier(raw.source_channel)
                   /\ validate_port_identifier(raw.destination_port)
                   /\ validate_channel_identifier(raw.destination_channel)}}

\* Sequence::to_vec
SequenceToVec(seq) == ToBeBytes(seq)

-----------------------------------------------------------------------------

\* host_consensus_state: what this chain was at that height
HostConsensusState(height) == <<"ConsensusState", height>>

\* The bytes committed for a record, and verified: encode_vec, to_vec or
\* into_vec of the value.  Client states, consensus states, commitments and
\* acknowledgements stand for their bytes.
ValueBytes(path, value) ==
  CASE path[1] = "Connection"                       -> ConnectionEndToRaw(value)
    [] path[1] = "ChannelEnd"                       -> ChannelEndToRaw(value)
    [] path[1] \in {"SeqSend", "SeqRecv", "SeqAck"} -> SequenceToVec(value)
    [] OTHER                                        -> value

\* TryFrom<RawConnectionEnd>, TryFrom<RawChannel>: whoever is answered with an
\* end reads it back.
EndFromBytes(path, bytes) ==
  CASE path[1] = "Connection" -> ConnectionEndFromRaw(bytes)
    [] path[1] = "ChannelEnd" -> ChannelEndFromRaw(bytes)
=============================================================================

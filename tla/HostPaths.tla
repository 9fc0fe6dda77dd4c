------------------------------ MODULE HostPaths ------------------------------
(***************************************************************************)
(* ICS-24: identifiers, chain identifiers and the paths under which a host *)
(* commits its records (ibc-core/ics24-host/types).                        *)
(*                                                                         *)
(* An identifier is a TLA+ string.  The text of a path is the sequence of  *)
(* its components, the strings between the slashes.  A typed path is a     *)
(* tuple <<kind, arguments...>>.  A parser returns the set of its results: *)
(* {} is an error (None or Err in the code).                               *)
(***************************************************************************)
EXTENDS Naturals, Sequences, TLC

CONSTANTS
  Malformed,   \* texts that hold a character identifiers may not have
  Numbers      \* the numbers a numeral of the model may denote

ASSUME NumbersAssumption == \A n \in Numbers : n \in Nat /\ n < 65536

\* Two texts side by side
Prefixed(text, rest) == text \o rest

When(condition, result) == IF condition THEN {result} ELSE {}

-----------------------------------------------------------------------------
(* Numerals.  u64::from_str also reads a leading "+" and leading zeros, of *)
(* which one of each is enough to make two texts of one number.            *)

Numeral(n) == ToString(n)

NumeralsOf(n) == {Numeral(n), Prefixed("0", Numeral(n)), Prefixed("+", Numeral(n))}

ParseU64(text) == {n \in Numbers : text \in NumeralsOf(n)}

Dashed(r, h) == r \o "-" \o h

\* Mutant of HeightText: no dash.
HeightUndashed(height) == Numeral(height[1]) \o Numeral(height[2])

\* "{revision_number}-{revision_height}"
HeightText(height) == Dashed(Numeral(height[1]), Numeral(height[2]))

\* parse_client_paths splits it at the dash; a height of zero is not refused.
ParseHeight(text) ==
  {height \in Numbers \X Numbers :
     \E r \in NumeralsOf(height[1]), h \in NumeralsOf(height[2]) : text = Dashed(r, h)}

(* What of texts the provers do not know: a numeral is read as the number  *)
(* it was written for, and a dash parts two of them.                       *)

ASSUME EmptyTextAssumption == Len("") = 0

ASSUME NumeralAssumption ==
  \A m, n \in Numbers : Numeral(n) \in NumeralsOf(m) => m = n

ASSUME DashAssumption ==
  \A m, n \in Numbers, i, j \in Numbers :
    \A r \in NumeralsOf(i), h \in NumeralsOf(j) :
      Dashed(Numeral(m), Numeral(n)) = Dashed(r, h) => m = i /\ n = j

\* Mutant of ToBeBytes: low byte first.
ToLeBytes(n) == <<n % 256, n \div 256, 0, 0, 0, 0, 0, 0>>

\* The eight bytes of u64::to_be_bytes; the numbers of the model need two.
ToBeBytes(n) == <<0, 0, 0, 0, 0, 0, n \div 256, n % 256>>

-----------------------------------------------------------------------------
(* Identifiers *)

\* Letters, digits and ._+-#[]<> only: no slash, so a component is a component.
validate_identifier_chars(id) == id \notin Malformed

validate_identifier_length(id, min, max) ==
  Len(id) \in (IF min = 0 THEN 1 ELSE min) .. max

\* Room for "-0" at least and "-18446744073709551615" at most.
validate_prefix_length(prefix, min, max) ==
  validate_identifier_length(prefix, IF min < 2 THEN 0 ELSE min - 2,
                                     IF max < 21 THEN 0 ELSE max - 21)

validate_client_type(id) ==
  validate_identifier_chars(id) /\ validate_prefix_length(id, 9, 64)

validate_client_identifier(id) ==
  validate_identifier_chars(id) /\ validate_identifier_length(id, 9, 64)

validate_connection_identifier(id) ==
  validate_identifier_chars(id) /\ validate_identifier_length(id, 10, 64)

validate_port_identifier(id) ==
  validate_identifier_chars(id) /\ validate_identifier_length(id, 2, 128)

validate_channel_identifier(id) ==
  validate_identifier_chars(id) /\ validate_identifier_length(id, 8, 64)

\* ClientType::build_client_id / ClientId::new, ConnectionId::new, ChannelId::new.
ClientIdNew(client_type, counter) ==
  When(validate_client_type(client_type), Prefixed(client_type, Prefixed("-", Numeral(counter))))

ConnectionIdNew(counter) == Prefixed("connection-", Numeral(counter))

ChannelIdNew(counter) == Prefixed("channel-", Numeral(counter))

-----------------------------------------------------------------------------
(* Chain identifiers: a name and, for a chain that counts its revisions, the *)
(* numeral after the last dash.  The text of a chain id is <<name>> or       *)
(* <<name, numeral>>; revision_number is kept beside it.                     *)

\* Without leading zeros, so that a revision has one spelling ("+1" aside).
parse_chain_id_string(text) ==
  {<<text[1], n>> : n \in {k \in IF Len(text) = 2 THEN ParseU64(text[2]) ELSE {} :
                             text[2] # Prefixed("0", Numeral(k))}}

ChainIdText(text) == IF Len(text) = 2 THEN Dashed(text[1], text[2]) ELSE text[1]

ChainIdFromStr(text) ==
  LET split == parse_chain_id_string(text)
  IN  IF ~validate_identifier_chars(ChainIdText(text)) THEN {}
      ELSE IF split # {}
           THEN {[id |-> text, revision_number |-> s[2]] :
                   s \in {x \in split : validate_prefix_length(x[1], 1, 64)}}
           ELSE When(validate_identifier_length(ChainIdText(text), 1, 64),
                     [id |-> text, revision_number |-> 0])

-----------------------------------------------------------------------------
(* The text of each path (derive Display) *)

NextSequenceText(p) ==
  <<CASE p[1] = "NextClientSequence"     -> "nextClientSequence"
      [] p[1] = "NextConnectionSequence" -> "nextConnectionSequence"
      [] p[1] = "NextChannelSequence"    -> "nextChannelSequence">>

ClientStateText(p)          == <<"clients", p[2], "clientState">>
ClientConsensusStateText(p) == <<"clients", p[2], "consensusStates", HeightText(p[3])>>
ClientUpdateTimeText(p)     == ClientConsensusStateText(p) \o <<"processedTime">>
ClientUpdateHeightText(p)   == ClientConsensusStateText(p) \o <<"processedHeight">>
ClientConnectionText(p)     == <<"clients", p[2], "connections">>
ConnectionText(p)           == <<"connections", p[2]>>
PortText(port)              == <<"ports", port>>

\* The middle of every path of a channel
ChannelText(p) == PortText(p[2]) \o <<"channels", p[3]>>

ChannelEndText(p) == <<"channelEnds">> \o ChannelText(p)
SeqSendText(p)    == <<"nextSequenceSend">> \o ChannelText(p)
SeqRecvText(p)    == <<"nextSequenceRecv">> \o ChannelText(p)
SeqAckText(p)     == <<"nextSequenceAck">> \o ChannelText(p)

\* The end of every path of a packet
PacketText(p)     == ChannelText(p) \o <<"sequences", Numeral(p[4])>>

CommitmentText(p) == <<"commitments">> \o PacketText(p)
AckText(p)        == <<"acks">> \o PacketText(p)
ReceiptText(p)    == <<"receipts">> \o PacketText(p)

UpgradeClientText(p) ==
  <<"upgradedIBCState", Numeral(p[2]),
    IF p[1] = "UpgradedClientState" THEN "upgradedClient" ELSE "upgradedConsState">>

PathText(p) ==
  CASE p[1] = "ClientState"          -> ClientStateText(p)
    [] p[1] = "ClientConsensusState" -> ClientConsensusStateText(p)
    [] p[1] = "ClientUpdateTime"     -> ClientUpdateTimeText(p)
    [] p[1] = "ClientUpdateHeight"   -> ClientUpdateHeightText(p)
    [] p[1] = "ClientConnection"     -> ClientConnectionText(p)
    [] p[1] = "Connection"           -> ConnectionText(p)
    [] p[1] = "Ports"                -> PortText(p[2])
    [] p[1] = "ChannelEnd"           -> ChannelEndText(p)
    [] p[1] = "SeqSend"              -> SeqSendText(p)
    [] p[1] = "SeqRecv"              -> SeqRecvText(p)
    [] p[1] = "SeqAck"               -> SeqAckText(p)
    [] p[1] = "Commitment"           -> CommitmentText(p)
    [] p[1] = "Ack"                  -> AckText(p)
    [] p[1] = "Receipt"              -> ReceiptText(p)
    [] p[1] \in {"UpgradedClientState", "UpgradedClientConsensusState"}
                                     -> UpgradeClientText(p)
    [] OTHER                         -> NextSequenceText(p)

\* What the values of the type Path are like, their kinds and their arguments,
\* but for a port's, under which nothing is kept
PathShape(p) ==
  \/ p \in {<<"NextClientSequence">>, <<"NextConnectionSequence">>, <<"NextChannelSequence">>}
  \/ /\ p[1] \in {"ClientState", "ClientConnection", "Connection"}
     /\ p = <<p[1], p[2]>>
  \/ /\ p[1] \in {"ClientConsensusState", "ClientUpdateTime", "ClientUpdateHeight"}
     /\ p = <<p[1], p[2], p[3]>> /\ p[3] \in Numbers \X Numbers
  \/ /\ p[1] \in {"ChannelEnd", "SeqSend", "SeqRecv", "SeqAck"}
     /\ p = <<p[1], p[2], p[3]>>
  \/ /\ p[1] \in {"Commitment", "Ack", "Receipt"}
     /\ p = <<p[1], p[2], p[3], p[4]>> /\ p[4] \in Numbers
  \/ /\ p[1] \in {"UpgradedClientState", "UpgradedClientConsensusState"}
     /\ p = <<p[1], p[2]>> /\ p[2] \in Numbers

\* The arguments are identifiers of their types.
IsPath(p) ==
  /\ PathShape(p)
  /\ p[1] \in {"ClientState", "ClientConnection", "ClientConsensusState", "ClientUpdateTime",
                "ClientUpdateHeight"} => validate_client_identifier(p[2])
  /\ p[1] = "Connection" => validate_connection_identifier(p[2])
  /\ p[1] \in {"ChannelEnd", "SeqSend", "SeqRecv", "SeqAck", "Commitment", "Ack", "Receipt"} =>
       validate_port_identifier(p[2]) /\ validate_channel_identifier(p[3])

is_provable(p) == p[1] \notin {"ClientConnection", "Ports"}

\* The key ibc-go iterates consensus states by
iteration_key(height) ==
  <<"iterateConsensusStates">> \o ToBeBytes(height[1]) \o ToBeBytes(height[2])

-----------------------------------------------------------------------------
(* Reading a text back (FromStr) *)

parse_next_sequence(c) ==
  {p \in {<<"NextClientSequence">>, <<"NextConnectionSequence">>, <<"NextChannelSequence">>} :
     c = NextSequenceText(p)}

\* The text "clients" alone indexes past its end in the code.
parse_client_paths(c) ==
  IF c[1] # "clients" \/ Len(c) \notin 3 .. 5 \/ ~validate_client_identifier(c[2]) THEN {}
  ELSE IF Len(c) = 3
       THEN When(c[3] = "clientState", <<"ClientState", c[2]>>)
              \cup When(c[3] = "connections", <<"ClientConnection", c[2]>>)
       ELSE {<<kind, c[2], height>> :
               kind \in When(Len(c) = 4, "ClientConsensusState")
                          \cup When(Len(c) = 5 /\ c[5] = "processedTime", "ClientUpdateTime")
                          \cup When(Len(c) = 5 /\ c[5] = "processedHeight", "ClientUpdateHeight"),
               height \in IF c[3] = "consensusStates" THEN ParseHeight(c[4]) ELSE {}}

parse_connections(c) ==
  When(Len(c) = 2 /\ c[1] = "connections" /\ validate_connection_identifier(c[2]),
       <<"Connection", c[2]>>)

parse_ports(c) ==
  When(Len(c) = 2 /\ c[1] = "ports" /\ validate_port_identifier(c[2]), <<"Ports", c[2]>>)

parse_channels(c) ==
  When(Len(c) = 2 /\ c[1] = "channels" /\ validate_channel_identifier(c[2]), c[2])

parse_sequences(c) ==
  IF Len(c) = 2 /\ c[1] = "sequences" THEN ParseU64(c[2]) ELSE {}

parse_channel_ends(c) ==
  IF Len(c) # 5 \/ c[1] # "channelEnds" THEN {}
  ELSE {<<"ChannelEnd", p[2], ch>> : p \in parse_ports(SubSeq(c, 2, 3)),
                                     ch \in parse_channels(SubSeq(c, 4, 5))}

parse_seqs(c) ==
  IF Len(c) # 5 THEN {}
  ELSE {<<kind, p[2], ch>> : p \in parse_ports(SubSeq(c, 2, 3)),
                             ch \in parse_channels(SubSeq(c, 4, 5)),
                             kind \in When(c[1] = "nextSequenceSend", "SeqSend")
                                        \cup When(c[1] = "nextSequenceRecv", "SeqRecv")
                                        \cup When(c[1] = "nextSequenceAck", "SeqAck")}

\* What parse_commitments, parse_acks and parse_receipts share
ParsePacketPath(c, prefix, kind) ==
  IF Len(c) # 7 \/ c[1] # prefix THEN {}
  ELSE {<<kind, p[2], ch, s>> : p \in parse_ports(SubSeq(c, 2, 3)),
                                ch \in parse_channels(SubSeq(c, 4, 5)),
                                s \in parse_sequences(SubSeq(c, 6, 7))}

parse_commitments(c) == ParsePacketPath(c, "commitments", "Commitment")
parse_acks(c)        == ParsePacketPath(c, "acks", "Ack")
parse_receipts(c)    == ParsePacketPath(c, "receipts", "Receipt")

parse_upgrades(c) ==
  IF Len(c) # 3 \/ c[1] # "upgradedIBCState" THEN {}
  ELSE {<<kind, n>> : n \in ParseU64(c[2]),
                      kind \in When(c[3] = "upgradedClient", "UpgradedClientState")
                        \cup When(c[3] = "upgradedConsState", "UpgradedClientConsensusState")}

\* The first parser that knows the text decides.
PathFromStr(c) ==
  LET tried == <<parse_next_sequence(c), parse_client_paths(c), parse_connections(c),
                 parse_ports(c), parse_channel_ends(c), parse_seqs(c), parse_commitments(c),
                 parse_acks(c), parse_receipts(c), parse_upgrades(c)>>
  IN  UNION {tried[i] : i \in {k \in 1 .. 10 : \A j \in 1 .. k - 1 : tried[j] = {}}}
=============================================================================

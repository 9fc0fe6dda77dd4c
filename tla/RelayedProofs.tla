---------------------------- MODULE RelayedProofs ----------------------------
(***************************************************************************)
(* A host whose store is proved (HostStore) and the chain that messages    *)
(* about it are relayed to (Messages): a message is written to the wire,   *)
(* read back, routed to a module, and what its handler relies on is        *)
(* verified against a block of the host with the Merkle proofs that came   *)
(* with it.                                                                *)
(*                                                                         *)
(* A relayer is free: it may take its proofs from another block or from    *)
(* another record, make up the tree below the multistore, or spoil one     *)
(* field of the message.  The blocks that the client knows are the host's: *)
(* that is TmClient's matter.                                              *)
(***************************************************************************)
EXTENDS HostStore, Messages

CONSTANTS
  Drafts,       \* message type -> the messages sent, proofs and height left out
  BadPackets    \* packets that no message may carry

VARIABLE delivered   \* what became of the last message

vars == <<store, blocks, writes, query, delivered>>

Nothing == [outcome |-> "none"]

\* What a message type's fields may hold, besides what decoding sees to: the
\* counterparty keeps its records in its ibc store.
FieldShape(kind, v) ==
  /\ kind = "packet" => PacketShape(v)
  /\ kind = "height" => v \in Numbers \X Numbers
  /\ kind \in {"counterparty", "new_counterparty"} =>
       /\ v = [client_id |-> v.client_id, connection_id |-> v.connection_id, prefix |-> v.prefix]
       /\ v.connection_id # "" /\ v.prefix = IbcPrefix
  /\ kind \in {"init_channel", "try_channel"} => ChannelEndShape(v)

\* The fields of a draft: all but the proofs and their height
DraftFields(type) ==
  {f \in DOMAIN Envelope[type] : Envelope[type][f] # "proof" /\ f # "proof_height"}

ASSUME DraftsAssumption ==
  \A type \in DOMAIN Drafts :
    /\ type \in DOMAIN Envelope
    /\ \A draft \in Drafts[type] : \A f \in DraftFields(type) :
         LET kind == Envelope[type][f]
         IN  FieldShape(kind, draft[f]) /\ ParseField(kind, UnparseField(kind, draft[f])) # {}

\* They are for ports that modules are bound to.
ASSUME RoutesAssumption ==
  \A type \in DOMAIN Drafts : \A draft \in Drafts[type] :
    /\ type \in ChannelMsgs => draft.port_id \in DOMAIN OwnRouter
    /\ type = "RecvPacket" => draft.packet.destination_port \in DOMAIN OwnRouter
    /\ type \in PacketMsgs \ {"RecvPacket"} => draft.packet.source_port \in DOMAIN OwnRouter

ASSUME BadPacketsAssumption ==
  \A p \in BadPackets :
    /\ p.timeout_height \in Nat \X Nat
    /\ p.sequence = 0 \/ p.data = <<>> \/ (p.timeout_height = Never /\ p.timeout_timestamp = 0)

\* This chain's ends are ends of the host, and its client knows the host's stores.
ASSUME OwnAssumption ==
  /\ UpgradeStore = UpgradePrefix
  /\ \A id \in DOMAIN OwnConnections :
       id # "" /\ OwnConnections[id].counterparty.prefix = IbcPrefix
  /\ \A key \in DOMAIN OwnChannels :
       /\ key[2] # ""
       /\ OwnChannels[key].ordering \in {"Unordered", "Ordered"}
       /\ OwnChannels[key].connection_hops # <<>>
       /\ Head(OwnChannels[key].connection_hops) \in DOMAIN OwnConnections

-----------------------------------------------------------------------------
(* The message as its sender means it *)

IsProof(type, f) == Envelope[type][f] = "proof"

\* A draft with a height and, for now, some proofs
Filled(type, draft, height) ==
  [f \in DOMAIN Envelope[type] |->
     IF IsProof(type, f) THEN <<"proof">>
     ELSE IF f = "proof_height" THEN height ELSE draft[f]]

\* Field values that a conversion of that kind must refuse
Unusable(kind) ==
  CASE kind \in {"client", "connection", "port", "channel"} -> {""} \cup Malformed
    [] kind \in {"proof", "bytes", "versions"}              -> {<<>>}
    [] kind = "height"                                      -> {Missing, <<1, 0>>}
    [] kind = "packet"                                      -> BadPackets \cup {Missing}
    [] kind = "sequence"                                    -> {0}
    [] kind = "zero"                                        -> {1}
    [] kind = "empty"                                       -> {"x"}
    [] kind \in {"plain", "optional_version"}               -> {}
    [] OTHER                                                -> {Missing}

\* What the chain really had committed
IsTrue(claim, records) ==
  IF claim.value = Missing THEN claim.path \notin DOMAIN records
  ELSE claim.path \in DOMAIN records /\ records[claim.path] = claim.value

AllTrue(claims, records) == \A i \in DOMAIN claims : IsTrue(claims[i], records)

-----------------------------------------------------------------------------
(* Verification *)

\* ProofSpecs::cosmos: an IAVL store in a Tendermint multistore
Specs == <<"iavl", "tendermint">>

\* verify_membership and verify_non_membership of the Tendermint client
Verified(claim, proof, root) ==
  LET keys == apply_prefix(claim.prefix, <<PathText(claim.path)>>)
  IN  IF claim.value = Missing
      THEN verify_non_membership(proof, Specs, root, keys)
      ELSE verify_membership(proof, Specs, root, keys, ValueBytes(claim.path, claim.value), 0)

\* A field holds one proof: of the last of the claims that are verified with it.
ShownBy(claims, i) ==
  CHOOSE j \in i .. Len(claims) :
    /\ claims[j].proof = claims[i].proof
    /\ \A k \in j + 1 .. Len(claims) : claims[k].proof # claims[i].proof

-----------------------------------------------------------------------------
(* The proofs a relayer supplies: of the records as they are in some block, *)
(* of a tree of its own, or of another record than the one claimed.         *)

Genuine(records, claim) == CHOOSE p \in get_proof(records, claim.path) : TRUE

\* A tree of the relayer's own that shows the claim, below the real multistore
Forged(records, claim) ==
  LET text == PathText(claim.path)
      leaf == IF claim.value = Missing
              THEN NonExistProof([key \in {<<"forged">>} |-> <<>>], text)
              ELSE ExistProof([key \in {text} |-> ValueBytes(claim.path, claim.value)], text)
  IN  <<leaf, ExistProof(Multistore(records), claim.prefix)>>

ProofFrom(source, claim) ==
  CASE source.kind = "genuine" -> Genuine(source.records, claim)
    [] source.kind = "forged"  -> Forged(source.records, claim)
    [] source.kind = "other"   -> Genuine(source.records, [claim EXCEPT !.path = source.path])

-----------------------------------------------------------------------------
(* Receiving *)

\* MsgEnvelope::try_from, dispatch and the handler's verifications
Process(type, raw, block, source) ==
  {m \in Decode(type, raw) :
     /\ Routed(type, m)
     /\ \E claims \in Claims(type, m, block.height) :
          \A i \in DOMAIN claims :
            Verified(claims[i], ProofFrom(source, claims[ShownBy(claims, i)]),
                     Multistore(block.records))}

\* A message about a block arrives.  Only what the properties look at is kept.
Deliver(type, draft, block, honest, raw, source) ==
  LET sent     == Filled(type, draft, block.height)
      accepted == Process(type, raw, block, source)
      truthful == \E claims \in Claims(type, sent, block.height) :
                    AllTrue(claims, block.records)
  IN  delivered' = IF accepted = {}
                   THEN IF honest /\ truthful THEN [outcome |-> "refused", type |-> type]
                                              ELSE Nothing
                   ELSE [outcome |-> "accepted", type |-> type, sent |-> sent,
                         got |-> CHOOSE m \in accepted : TRUE,
                         spoiled |-> raw # Encode(type, sent), records |-> block.records,
                         height |-> block.height]

-----------------------------------------------------------------------------
(* Relayers *)

Sent(type, draft, block) == Encode(type, Filled(type, draft, block.height))

GenuineOf(block) == [kind |-> "genuine", records |-> block.records]

\* The records as they were at this block, or at another one
Relay(type, draft, block) ==
  \E i \in DOMAIN blocks :
    Deliver(type, draft, block, blocks[i].height = block.height,
            Sent(type, draft, block), GenuineOf(blocks[i]))

RelayForged(type, draft, block) ==
  Deliver(type, draft, block, FALSE, Sent(type, draft, block),
          [kind |-> "forged", records |-> block.records])

RelayOtherRecord(type, draft, block) ==
  \E path \in {p \in DOMAIN block.records : is_provable(p)} :
    Deliver(type, draft, block, FALSE, Sent(type, draft, block),
            [kind |-> "other", records |-> block.records, path |-> path])

RelaySpoiled(type, draft, block) ==
  \E f \in DOMAIN Envelope[type] : \E bad \in Unusable(Envelope[type][f]) :
    Deliver(type, draft, block, FALSE, [Sent(type, draft, block) EXCEPT ![f] = bad],
            GenuineOf(block))

\* Messages are about blocks: that they come right after a commit leaves no
\* case out.
Receive ==
  /\ delivered = Nothing
  /\ query = NoQuery
  /\ store = blocks[Len(blocks)].records
  /\ \E type \in DOMAIN Drafts : \E draft \in Drafts[type], i \in DOMAIN blocks :
       \/ Relay(type, draft, blocks[i])
       \/ RelayForged(type, draft, blocks[i])
       \/ RelayOtherRecord(type, draft, blocks[i])
       \/ RelaySpoiled(type, draft, blocks[i])
  /\ UNCHANGED hostVars

\* Nothing about the message is looked at any more.
NextMessage ==
  /\ delivered # Nothing
  /\ delivered' = Nothing
  /\ UNCHANGED hostVars

-----------------------------------------------------------------------------

Init == HostInit /\ delivered = Nothing

HostStep == delivered = Nothing /\ HostNext /\ UNCHANGED delivered

Next == HostStep \/ Receive \/ NextMessage

Spec == Init /\ [][Next]_vars

-----------------------------------------------------------------------------
(* Properties *)

\* The paths of the records a host makes next, by its counters
NextPaths ==
  {<<"ClientState", id>> :
     id \in ClientIdNew("07-tendermint", Counter(store, <<"NextClientSequence">>))}
    \cup {<<"Connection", ConnectionIdNew(Counter(store, <<"NextConnectionSequence">>))>>}
    \cup {<<"ChannelEnd", port, ChannelIdNew(Counter(store, <<"NextChannelSequence">>))>> :
            port \in PortIds}

\* No two records share a text, and the text of every record in the store or
\* about to be made is read back as its path (Path's Display and FromStr):
\* identifiers that look like the path's own words, or digits that run into
\* each other, lead to no other record.  The bytes of an end are read back as
\* the end, in whatever state it is.
RecordsReadBack ==
  /\ \A p \in DOMAIN store \cup NextPaths : PathFromStr(PathText(p)) = {p}
  /\ \A p \in DOMAIN store :
       p[1] \in {"Connection", "ChannelEnd"} =>
         EndFromBytes(p, ValueBytes(p, store[p])) = {store[p]}

BytesLess(a, b) ==
  \E i \in DOMAIN a : a[i] < b[i] /\ \A j \in 1 .. i - 1 : a[j] = b[j]

KeyLess(h, g) == BytesLess(Tail(iteration_key(h)), Tail(iteration_key(g)))

\* Going through a client's consensus states by iteration_key, as ibc-go does,
\* finds the same neighbours as next_consensus_state and prev_consensus_state
\* do by height: the two implementations prune and judge alike.
IterationFindsNeighbours ==
  \A c \in Clients, h \in Heights :
    LET all == consensus_state_heights(c)
    IN  /\ next_consensus_state(c, h) = Least({g \in all : KeyLess(h, g)}, KeyLess)
        /\ prev_consensus_state(c, h)
             = Least({g \in all : KeyLess(g, h)}, LAMBDA a, b : KeyLess(b, a))

\* An answer can be verified with its proof exactly when the block at the
\* proof's height holds the value that was read: a commit between the reading
\* and the proving makes the answer stale, never wrong, and a fresh answer
\* always comes with a proof of the record it is about (ibc-query).
AnswerVerifiesIffCurrent ==
  query.step = "answered" =>
    LET block == blocks[CHOOSE i \in DOMAIN blocks : blocks[i].height = query.height]
        claim == Claim("proof", StoreOf(query.path), query.path, query.value)
    IN  IsTrue(claim, block.records)
          <=> \E proof \in get_proof(block.records, query.proved) :
                Verified(claim, proof, Multistore(block.records))

\* What a handler relies on is what the counterparty had committed at the
\* proof's height, record for record, whatever proofs the relayer made: the
\* paths, the encodings and the two levels of the Merkle proof leave no room
\* for another record, another value or another tree.
AcceptedIsTrue ==
  delivered.outcome = "accepted" =>
    \E claims \in Claims(delivered.type, delivered.got, delivered.height) :
      AllTrue(claims, delivered.records)

\* A message that says the truth and comes with the counterparty's own proofs
\* is accepted.  MsgTimeoutOnClose is left out: its handler verifies the
\* closed channel with the proof of the packet.
HonestIsAccepted ==
  delivered.outcome = "refused" => delivered.type = "TimeoutOnClose"

\* A message reaches a handler's end as it was sent (From<Msg> for RawMsg, then
\* TryFrom and MsgEnvelope::try_from), but for the version MsgChannelOpenTry
\* proposes, which is not written to the wire.  With an unusable field it does
\* not, even if all it claims is true: the counterparty may have committed a
\* packet that can never time out (TryFrom<RawPacket>).
ReceivedAsSent ==
  delivered.outcome = "accepted" =>
    /\ ~delivered.spoiled
    /\ delivered.got = IF delivered.type = "ChannelOpenTry"
                       THEN [delivered.sent EXCEPT !.channel.version = ""]
                       ELSE delivered.sent
=============================================================================

# ibc-rs in TLA+

TLA+ specifications of the core of `ibc-rs`, the Rust implementation of the
Inter-Blockchain Communication protocol, with the TLC models that check them and
the TLAPS proofs about them. `PROJECT.json` lists the runs, the mapping from
definitions to source lines, the findings, the hazards and the theorems.

## The system

Two chains run `ibc-rs` as a library inside their state machine. Each keeps a
light client of the other (ICS-02, ICS-07), connection ends (ICS-03) and channel
ends (ICS-04); applications such as token transfer (ICS-20, ICS-721) send packets
over channels. Nothing is sent between chains: *relayers* read one chain and
submit messages to the other, with Merkle proofs against a header the client has
accepted. Every message is handled by `validate` (reads only, may refuse) followed
by `execute` (writes), inside one transaction of one block.

| Component | State | Operations | Interacts with |
| --- | --- | --- | --- |
| ICS-07 client (`ibc-clients/ics07-tendermint`) | client state (latest height, frozen height, periods), consensus states by height, processed time and height of each | initialise, update, misbehaviour, upgrade, prune, status, verify (non-)membership | called by ICS-02 handlers and by every handler that checks a proof |
| ICS-02 handlers (`ibc-core/ics02-client`) | client counter | create, update / submit misbehaviour, upgrade | ICS-07 |
| ICS-03 connection (`ibc-core/ics03-connection`) | connection ends | open init / try / ack / confirm; delay check | clients; the delay check is called by packet handlers |
| ICS-04 channel (`ibc-core/ics04-channel`) | channel ends, three sequence counters, commitments, receipts, acknowledgements | open and close handshakes; send, receive, acknowledge, time out, time out on close | clients, connections, application callbacks |
| ICS-20 / ICS-721 (`ibc-apps`) | balances, escrow, vouchers / owners | send transfer; callbacks on receive, acknowledge, timeout | ICS-04 through the `Module` trait |
| ICS-23 (`ics23-commitment`) | none | verification of (non-)membership over chained trees | ICS-07; paths of ICS-24 |
| ICS-24 (`ics24-host`) | the provable store, by path; the chain identifier | store operations of the host contexts; texts of paths | everything |
| ICS-25, 26 (`ics25-handler`, `ics26-routing`) | the router | decoding of messages, dispatch to a handler and a module | handlers, applications |
| `ibc-query` | none | gRPC queries that read a record and have it proved | the store, while it is written |
| `ibc-testkit` | a host context with mock and Tendermint chains | block production, store access | used as the reference host |

What is hard here: the chains do not share a clock and see each other late;
messages are lost, repeated, reordered and forged up to the proofs; receipt and
timeout of a packet are decided on different chains from different views of
time; channels close and clients expire while packets are in flight; headers
arrive in any order and old ones are pruned. An application fails after core has
recorded a receipt, sometimes half-way through a packet; coins and tokens come back
on other channels than they left on. What one chain proves is a text and some bytes
the other has to reconstruct exactly.

What makes each component correct:

- *client*: it is frozen exactly when what it was shown contradicts itself; the
  consensus state of a height never changes; times increase with height; the
  latest consensus state is never pruned; an inactive client never changes.
- *packets*: delivered at most once, as sent; settled at most once; never both
  delivered and timed out; acknowledged with what the receiver answered; in order
  on an ordered channel; settled in the end if relayers work.
- *handshakes*: open ends come in pairs that name each other and agree on clients,
  version, delay and order; ends only move forward; what one side opened or closed
  the other opens or closes too.
- *transfer*: an escrow is worth exactly the vouchers it backs and the coins under
  way; a token has one owner; failures leave no trace; transfers end.
- *store, proofs and messages*: a path has one text and the text one path; what a
  handler accepts was committed by the other chain at that height; what was committed
  and is honestly relayed is accepted; a message is received as it was sent.

## Modules

| Module | Models | |
| --- | --- | --- |
| `TmClientState` | one ICS-07 client as a record, and the functions that check and change it | operators only |
| `TmClient` | one client on a host, driven by the ICS-02 handlers with headers of a chain that may fork | state machine |
| `IbcHost` | two chains: blocks, headers, clients of each other, the connection delay | state and actions shared by compositions |
| `IbcPacket` | the five packet handlers, and the channel handlers that run while packets are in flight, on top of `IbcHost` | state machine |
| `ConnHandshake` | the four ICS-03 handlers for several connections at once, version negotiation, the checks of the counterparty's client, on top of `IbcHost` | state machine |
| `ChanHandshake` | the six ICS-04 handlers that open and close channels, for several channels at once, on top of `IbcHost` | state machine |
| `PacketDelivery` | what a channel promises to the applications | abstract specification |
| `TokenTrace` | denominations, their traces and texts (ICS-20, and ICS-721 classes alike) | operators only |
| `TokenTransfer` | ICS-20 on several channels, composed with `PacketDelivery` | state machine |
| `NftTransfer` | ICS-721 on several channels, composed with `PacketDelivery` | state machine |
| `HostPaths` | the text of every ICS-24 path and its parser, identifiers, chain identifiers, iteration keys | operators only |
| `WireTypes` | ends, packets, heights and sequences as they are written to the wire and read back | operators only |
| `MerkleProofs` | ICS-23 verification over symbolic trees | operators only |
| `HostStore` | the store operations of a host, its blocks and the queries | actions |
| `Messages` | the fields of every message, its decoding, its module, and what its handler has proved | operators only |
| `RelayedProofs` | a host, its relayers and the chain that receives messages about it: `HostStore` and `Messages` composed | state machine |
| `MCTmClient`, `MCIbcPacket`, `MCConnHandshake`, `MCChanHandshake`, `MCTokenTransfer`, `MCNftTransfer`, `MCRelayedProofs` | constants for TLC | |
| `TmClientStateProofs`, `TmClientProofs`, `IbcPacketProofs`, `ConnHandshakeProofs`, `ChanHandshakeProofs`, `TokenTransferProofs`, `NftTransferProofs`, `RelayedProofsProofs` | theorems | |

`IbcPacket`, `ConnHandshake` and `ChanHandshake` extend `IbcHost`, which extends `TmClientState`; `TmClient` extends
`TmClientState`. So the client that proofs go through is the one checked alone in
`TmClient`. `TokenTransfer` and `NftTransfer` take their channels from
`PacketDelivery`, which `IbcPacket` is proved to implement: what they show of an
application rests on what is proved of the handlers. `RelayedProofs`
looks below the handler modules: there a proof *is* what it establishes, here it is
a chain of Merkle proofs for a text, relayed in a message.

### How state and actions correspond to the code

*Client.* `client` is the stored `ClientState` (its latest height and whether it
is frozen) together with all consensus states; a consensus state carries its
processed time and height because the code stores and deletes them with it.
Heights are naturals in the order of `(revision_number, revision_height)`;
`Revision` recovers the revision. `UpdateClient` is `validate` and `execute` of
MsgUpdateClient: `verify_header`, then `check_for_misbehaviour` on the stored
neighbours, then freezing or `update_state` with its pruning. The checks
`verify_header` delegates to the light-client crate are modelled by what they ask
of times and heights; signatures and validator sets are not modelled, which in
`TmClient` means that *any* header may be validly signed, and in `IbcHost` that
only the other chain's real headers are. Root and time stand for the whole
header: headers that differ only in other fields are the same here.

*Chains.* `header[c]` is the sequence of headers of chain `c`, the last one being
the block under execution. The root of header `h` is the store at the *start* of
block `h`, as in Tendermint; this convention is why a timeout by height is safe,
and the models keep it explicit. Block time strictly increases.

*Packets.* `store[c]` is the provable store of one channel end: state, sequences,
commitments, receipts, acknowledgements. `sent`, `received`, `settled` record what
the application did or was told (`send_packet`, `on_recv_packet_execute`,
`on_acknowledgement_packet_execute`, `on_timeout_packet_execute`). Each handler
has its `..._validate` as a state predicate and its `..._execute` as the
assignments, no-op cases included; a message that `validate` refuses is no step.
A relayer is not a process: the existential quantifiers over packets, proof
heights and acknowledgements are every relayer there could be. A proof is what it
establishes about `client[c].cons[ph].root`.

`OneProofOpensManyPaths` is `FALSE` for ICS-07. It is `TRUE` in the passing runs,
so that `timeout_on_close` has the effect it is meant to have (as with the mock
client of the test suite); the safety results therefore also cover a repaired
handler, and they hold all the more when the handler refuses everything.

*Handshakes.* In `ConnHandshake` `store[c]` is the table of connection ends and a
header also commits to what `c`'s clients know of the other chain, because the
handlers prove that. A handler builds the end it expects on the other chain and
`ProvesConnection` compares it with the one at the proof's height; `ProvesSelf` is
`validate_self_client` and the two proofs about the counterparty's client. A chain
may have a second client, of a chain about which nothing is assumed: proofs through
it always succeed. Version identifiers are numbers in the order of the strings.
`ChanHandshake` has the table of channel ends over connections that are open; the
application's callbacks are constants (which proposals it accepts, what it answers,
whether it closes channels), given in `MCChanHandshake` for a permissive application.
A `chan_close_init` on an end without counterparty channel fails in
`execute`; the host rolls it back and it is no step. Channels on connections that
are not open yet (`chan_open_init` allows them) are not modelled.

*Transfers.* `bank` is the host's accounts, with an account per channel end for its
escrow; the host's `mint`, `burn`, `escrow` and `unescrow` are modelled from
`TokenTransferExecutionContext`, and so is their refusal of what an account does not
have. `SendTransfer` is validate and execute of `send_transfer` and the packet it
sends. `RecvPacket` always answers: with success, with an error (the receiver is no
account, the escrow cannot pay, the host refuses), or with an error whose text holds
a quote and cannot be parsed, since the code does not escape it. `AcknowledgePacket`
refuses what it cannot parse and refunds on an error; `TimeoutPacket` refunds.
Denominations travel as texts, sequences of the parts between slashes, and are parsed
again at every step. `NftTransfer` has the same shape over `nfts`, the record of each
token; its `RecvPacket` goes token by token and may stop half-way, and `leaked`
records what it had handed out by then. `FindsBurnt` says whether the host's `get_nft`
still finds a token that `execute` has just burnt; on a host where it does not,
`send_nft_transfer_execute` fails for every voucher and nothing returns.

*Store, proofs, messages.* `HostStore.store` maps typed paths to values, one action
per store operation of the host contexts, in any order. `Commit` makes a block of the
records, of the next height in the revision that the chain identifier names. A query is two steps, reading and proving,
with writes and commits between. A tree is a function from texts to bytes and is its
own root: two trees have the same root exactly if they are the same tree. A relayer
may make proofs of any tree. `Messages` gives for each message its fields and their
conversions, and for each handler the *claims* it verifies: which path, which value,
with which of the message's proofs. `Deliver` decodes, routes and verifies; the other
conditions of a handler and what it does are in the handler modules.

## Runs

| Run | Shows | Distinct states |
| --- | --- | --- |
| `packet_unordered` | safety of one packet on an unordered channel with a connection delay of one block, refinement of `PacketDelivery`, closed ends stay dead | 81 885 |
| `packet_ordered` | two packets on an ordered channel, timing out in either order: order of delivery, finality of a timeout, the inductive invariant of the timeout proof, refinement; none waits for ever behind another | 57 911 |
| `packet_liveness` | every sent packet is settled | 11 619 |
| `tm_client` | a client under forks, pruning, expiry, misbehaviour and upgrade, to a new revision or within one | 126 813 |
| `conn_handshake` | two connections at once, versions to choose from: open ends agree and speak a common version | 164 600 |
| `conn_third_client` | a client of another chain cannot spoil a connection between the peers; two delays to choose from | 57 620 |
| `chan_handshake` | two channels over two connections, closed from one side: open ends agree and only progress, only partners of closed ends are closed, the version was negotiated | 250 761 |
| `chan_liveness` | half-open channels are finished, closing spreads, both sides close | 14 384 |
| `token_transfer` | coins over two channels with crossed names: conservation, refunds, transfers end | 49 469 |
| `nft_transfer` | two tokens, refused in part: one owner, never lost, metadata | 132 288 |
| `relayed_proofs` | every store operation, query and message: what is accepted was committed, what was committed is accepted | 78 022 |
| `timeout_on_close_proof` | the code disagrees with a test, see below (violation) | |

*Bounds.* `MaxHeight` and `MaxTime` bound blocks and time, `MaxSeq` the packets.
Three blocks per chain are enough for: a packet sent, proven and received; its
acknowledgement proven and returned; its timeout height 2 passed at height 3 with
the proof at 2 or 3 against it; headers 1 and 3 installed before 2. Time runs to 4
with a trusting period of 2, so clients expire and consensus states are pruned in
mid-flight, in `packet_unordered`; `packet_ordered` has neither expiry nor closing by a
module, which the theorems cover. One sender is enough where the two directions of a channel share only
the channel state and the clients, which both chains drive in all runs. In
`tm_client` heights 1 to 3 are one revision and 4, 5 the next, times run to 5 with
a trusting period of 2, and two roots give forks; one plan is for height 3 at a time
that headers below it may have passed.
`MaxConnections` and `MaxChannels` are two where ends could be confused with each
other; the chain that starts a handshake gets as many blocks as the last proof
needs (`LastHeight`: for connections three after the start, because the other
chain's client must lag behind the host), and in the handshake models time is one
unit per block and relayers submit the newest header, so proofs are against any of
the headers relayed so far. `conn_handshake` has one delay, since with two it outgrows
its time; the delays of open ends are compared in `conn_third_client`, and for any
delays in the theorem. The application of `chan_handshake` accepts two of three
versions and answers with another than it was proposed. In the transfer runs three packets are enough for a coin to
leave, come back over the same or the other channel and leave again, or for one
escrow to serve a refund and a return; two hops are the longest trace three packets
can need, and a third would repeat the same test on the last hop. The two channels
are crossed: each has at one end the name of the other's far end, so that a look at
the wrong end's name shows. In `nft_transfer` the two tokens have a URI only, or both
a URI and data, in all combinations. In `relayed_proofs` two writes and two blocks
are enough for every record to change between a reading and its proof or between two
blocks; what a message needs besides (client, connection, open channel) is in the
store from the start. The client is called `consensusStates` and the connection and
channel `connections` and `channels`, words of the paths themselves, and the heights
2-561 and 256-1 have the same digits and pass a byte. All runs but `relayed_proofs`
end at their bounds, so deadlock is not checked there: the bound, not the system,
stops them.

*Fairness* (`packet_liveness`, `packet_ordered`, `chan_liveness`,
`token_transfer`). In these packet runs blocks keep coming, and a client update,
receive, acknowledgement, timeout or open-confirm message that stays acceptable is
eventually submitted: weak fairness of each. This is the assumption that IBC makes
of relayers, at least one of which must be live; nothing in the code can supply
it. Sending and closing are not fair. The runs have no connection delay, because a
delay needs more blocks than the bound leaves after the last update, and a
trusting period longer than the run, because a packet whose client expires is
indeed never settled. On an ordered channel not every packet is settled: a timeout
closes the sender's end, and those behind it stay. `NoPacketStuck` says that this is the
only reason; it rests on the next packet always being one that can be received or timed
out, because only that one can (see below).
In `chan_liveness` blocks, header updates and the two confirm messages are fair;
starting, answering and closing a channel are not, since nobody has to do them. Its
properties are stated for what happens before the last block of the bound, which no
header would show. In `token_transfer` receiving and acknowledging are fair at every
end, the same assumption about relayers; sending and timing out are not. A transfer
whose answer cannot be read never ends, and `TransferEnds` says so.

*Finding.* `timeout_on_close_proof`: the closed end and the packet's absence are
checked with the same proof; `proof_close_on_b` is not used. A Merkle proof belongs to
one path, so with an ICS-07 client no packet can be timed out on close. The same shows
in `relayed_proofs`, whose `HonestIsAccepted` has to leave `MsgTimeoutOnClose` out.

Observed while modelling, and built into the models as the code has it. In behaviour:

- On an unordered channel a packet that is relayed again is refused by `validate`
  (`recv_packet.rs:262`), although `execute` has an early return to accept it
  (`recv_packet.rs:44`: "We don't want to fail the transaction in this case").
- On an ordered channel only the next packet to be received can be timed out: the
  value proven is the packet's sequence instead of `next_seq_recv_on_b`
  (`timeout.rs:224`).
- `chan_open_init` stores the proposed version and not the one the application returned
  (`chan_open_init.rs:65`), so an ICS-20 channel started without a version cannot be
  answered: the other side has to name the stored, empty version and refuses it.
  `VersionNegotiated` shows that no open end keeps the raw proposal.
- ICS-721 hands tokens out one by one; when a later one is refused the earlier ones
  stay with the receiver and are refunded to the sender as well, unless the host rolls
  the callback back (`on_recv_packet.rs:49`). This is the exception in `OneOwner`, which
  therefore says of such tokens only that they are not lost.
- ICS-721 sends a URI and data only for tokens that have both (`send_transfer.rs:96`);
  with one token of either kind in a packet `validate_basic` refuses it.
- `send_nft_transfer_execute` reads a token after burning it (`send_transfer.rs:197`);
  whether that works is up to the host, and both kinds of host are modelled.
- An error acknowledgement's text is not escaped (`acknowledgement.rs:129`); one that
  cannot be read leaves the coins in escrow, the exception in `TransferEnds`.
- An upgrade is checked to be higher than what the client has, and not later
  (`common.rs:147`, `execution.rs:216`). A plan within the revision with an older time
  than that of a header below it is taken, and the client is not frozen.
- `MsgChannelOpenTry` does not write its `version_proposal` to the wire.
- `query_client_connections` asks for a proof of a path that `Path::is_provable` says
  has none.
- `Path::from_str("clients")` indexes past its one component and panics
  (`path.rs:753`); `verify_upgrade_client` does so with an upgrade path of one element
  (`common.rs:163`).
- Numbers in paths are parsed with a leading `+` or zeros, so several texts are read
  as one path; only one of them is written.
- In the test host a client keeps only the last connection stored for it.

In what comments say:

- `upgrade_client_proposal_handler` is said to clear "both IBC client and consensus states
  if a previous plan was set" (`handler.rs:12`); it calls `clear_upgrade_plan` with the
  height of the new plan (`handler.rs:26`), so what stands under the old one remains.
- `ibc-testkit/tests/core/ics04_channel/timeout.rs:226` says both timeouts must be
  reached; `Packet::timed_out` (`packet.rs:147`) needs one.
- `execution.rs:258` says an upgrade does not set the processed time; line 285 does.
- The doc comment of the connection `pick_version` (`version.rs:111`) describes a
  descending search; the least common identifier is taken, as its test expects.
- The doc comment of `prune_oldest_consensus_state` leaves out the trusting period;
  at the instant a trusting period ends a consensus state counts as fresh for
  `status`, is refused as a trusted state and is pruned.

*Mutants.* For every property of a passing run `PROJECT.json` names a mutant (marked
"Mutant of" in the modules) that makes it fail.

## Proofs

Every theorem holds for every value of the constants that satisfies the named
assumptions of its module: any number of blocks, packets, channels, connections,
ends, accounts, coins, tokens and hops, any timeouts, periods and delays, any
identifiers, records and messages. Every safety property of every passing run is a
theorem, and so is the refinement. That balances are never overdrawn, `TypeOK` of
`TokenTransfer`, is a theorem only.

| Module | Theorems | Inductive invariant |
| --- | --- | --- |
| `IbcPacketProofs` | `TypeCorrect` | `TypeOK` |
| | `TimeoutSafetyHolds`, `ReceiptExcludesTimeout` | `TimeoutSafety` |
| | `PacketBooksHold`, `DeliveryAtMostOnce`, `SettlementAtMostOnce`, `OrderedDeliveryHolds`, `OrderedTimeoutFinal`, `ClosedEndStaysDead`, `DeliveryImplemented` | `PacketInv` |
| `TmClientProofs` | `ClientTypeCorrect`, `LatestNeverLost`, `TimesAlwaysIncrease`, `FrozenExactlyOnFork`, `ConsensusStatesFixed`, `InactiveClientStaysSo` | `ClientInv` |
| `ConnHandshakeProofs` | `ConnectionTypeCorrect`, `OpenConnectionsAgree`, `VersionSpokenByBoth` | `ConnInv` |
| `ChanHandshakeProofs` | `ChannelTypeCorrect`, `OpenChannelsAgree`, `ClosedByPartner`, `ChannelEndsProgress` | `ChanInv` |
| | `VersionsNegotiated` | `VersionInv`, with `ChanInv` |
| `TokenTransferProofs` | `TransferInvHolds`, `TransferTypeCorrect`, `CoinsAlwaysConserved`, `FailureNeverLeavesTrace` | `TransferInv` |
| `NftTransferProofs` | `NftInvHolds`, `OneOwnerHolds`, `VoucherMetadataHolds` | `NftInv` |
| `RelayedProofsProofs` | `HostInvHolds`, `AnswerVerifiesIffCurrentHolds` | `HostInv` |
| | `CountersInvHolds`, `RecordsReadBackHolds` | `CountersInv`, with `HostInv` |
| | `AcceptedIsTrueHolds`, `HonestIsAcceptedHolds`, `ReceivedAsSentHolds` | `DeliveredOK`, with `HostInv` |
| | `IterationFindsNeighboursHolds` | none: true of every state |
| `TmClientStateProofs` | lemmas on what an update does to a client, used by the proofs about clients, packets and handshakes | |

*Timeout and receipt* (`TimeoutSafety`). That a packet is never both received and
timed out is not inductive, because the two decisions are taken on different chains.
The strengthening says: block times do not decrease (`HeadersInv`); a stored consensus
state is the other chain's header of that height (`ClientsInv`); an end that a header
shows closed is closed (`ClosedInv`); for every received packet, a header that does
not show the receipt yet belongs to a height and time at which the packet had not
expired and the end was not closed (`ReceivedInv`); a packet that timed out can no
longer be received and was not (`TimedOutInv`). A timeout with a proof at height
`p` contradicts `ReceivedInv` at `p` if the packet was received, and establishes
`TimedOutInv` because heights and times only grow; a receipt contradicts
`TimedOutInv`; a new block preserves `ReceivedInv` because it commits to a store
that shows everything received so far.

*Packets* (`PacketInv`, that is `TypeOK`, `TimeoutSafety` and `PacketBooks`). The books
say that the applications' logs agree with the stores: commitments, now and in every
header, are of sent packets; what was received was sent, once, and is what the receipts
or the counter say; an acknowledgement that a header shows is the one stored; a sent
packet has its commitment until it is settled. Headers have to be in the invariant
because a handler believes a header, not the store. From the books each property
follows, and so does the refinement: every step of `IbcPacket` is a step of
`PacketDelivery` or leaves its variables alone, with `reply` mapped to the stored
acknowledgements. `TokenTransfer` builds on `PacketDelivery`, so this theorem links what
is proved of the application to the handlers.

*Client* (`ClientInv`). Pruning never removes the latest consensus state: a header is
accepted on a trusted state still inside its trusting period, pruning stops at the first
such state from below, and the latest height is above it. That the client is frozen
exactly on a fork needs two more parts: what is stored was seen (`StoredWasSeen`), and
what was seen is stored or lies below everything stored (`SeenIsStoredOrPruned`). Then
comparing a header with its stored neighbours compares it with everything seen, since
times increase. An upgrade is not compared with anything. So times increase, and frozen
means forked, up to the first upgrade that contradicts what was seen, which `backdated`
records; an upgrade to a new revision never does. The other properties
hold whatever the upgrades.

*Handshakes* (`ConnInv`, `ChanInv`). A handler is shown an end as it was in some earlier
header. `EarlierEnd` says what may have changed since: an end past `Init` keeps its
partner and version, and a closed one stays closed. The invariant has this for every
header and every consensus state (`ShownIsEarlier`, `ProvenIsEarlier`). A partner that
was shown is then the partner of today. For connections it also remembers that an `Init`
end carries versions its chain supports, and that a client of a third chain holds no
consensus state of the peer: the proof of the self consensus state fails through it.
For channels `VersionInv` says where versions come from: an `Init` end, now and in every
header, holds a proposal that its application let pass, and an end past `Init` an answer
to such a proposal, which the initiator accepted before its end was open.

*Transfers* (`TransferInv`). The accounts are typed; the books of the channels are in
order (`Books`); the coins are conserved; and every balance is the first one plus what
the packets that stand as sent or credited did to it (`Posted`). Every step sends,
credits or refunds one packet or moves no coins (`StepKinds`). Four lemmas
(`EscrowBalance`, `BurnBalance`, `HomeBalance`, `AwayBalance`) show that each way of
moving coins changes escrow, vouchers and what is under way by the same amount; that no
other denomination or channel is touched rests on traces being told apart by their last
hop, and on texts being read back as they were written (`ReadBack`), which is proved for
every trace. The sums of `CoinsConserved` are over sets of any finite size: `TotalStep`,
`TotalRemove` and the lemmas after them show by a smallest counterexample that a sum
takes its elements in any order.

*Tokens* (`NftInv`). `OneOwner` counts the places of a token: its owners on all chains
and the packets under way with it. To know that a step changes the count by nothing,
the invariant has the types and books of the channels, that a packet names no token
twice and that its class can be read back (`WellMade`), and that the places are
finitely many (`FewPlaces`). A send takes a token from an account and puts it into a
packet; a receipt, a refund or a return takes it out again and gives it to one account;
a receipt that is refused half-way does both for the tokens it had handed out, and
records them in `leaked`. Each action is shown to be one of these kinds for every
token, whatever the number of tokens in the packet: the receipt is described by what it
leaves of each token, not as a loop. `VoucherMetadata` follows from two parts about
where metadata comes from: the native tokens keep theirs (`NativeKept`), and every
packet, wherever it was sent from, carries what the native token has (`PacketMetadata`).

*Store, proofs and messages.* `HostInv` says that the records of the store and of every
block are values of their types under well-formed paths, with a client among them
(`Kept`); that blocks are numbered one by one (`BlocksInv`), so that a height names one
block; and what a query may be about (`QueryInv`). What a proof shows rests on three facts about data:

- *Texts.* A path is read back from its text, and from no other path's text
  (`PathsReadBack`, `TextsDiffer`): the parsers are tried in the code's order, each knows
  its texts by their first word and length, and identifiers stand between the words
  whatever they are. `CountersInv` bounds the counters that the next identifiers are
  made from.
- *Bytes.* The bytes of an end, sequence or commitment are those of no other value
  (`BytesDiffer`), and an end is read back from them (`EndsReadBack`).
- *Trees.* A chain of two Merkle proofs that verifies against a block's root, made by
  anyone, is about a record of that block (`Sound`); and `get_proof` gives one that
  verifies, of presence or of absence (`Complete`).

From these, `AnswerVerifiesIffCurrent` follows for an answer read before and proved
after any number of writes and commits. For messages, every field survives its
conversions (`RoundTrip`, `SentArrives`) and an unusable one is refused
(`UnusableRefused`); the claims of each of the eighteen messages are about well-formed
paths, each with a proof of its own but for `MsgTimeoutOnClose` (`ClaimsAreOK`); so what
a handler accepts is true (`ProcessedIsTrue`), and what is true and honestly relayed is
accepted (`HonestIsProcessed`). `DeliveredOK` says this of the last message.
That keys of bytes are in the order of heights (`KeyOrder`) is arithmetic of base 256.

*Assumptions.* On the parameters of the protocol: positive trusting period, chains that
differ, `None` different from every value stored, no packet without a timeout (which
the code refuses), "timeout" not an acknowledgement; plans of upgrades within the
heights and times of the model, in any revision (`PlansAssumption`). For `TokenTransfer`: ends are
records of a chain and valid identifiers and come in pairs; a base denomination is one
part and not blank, as `PrefixedDenom::from_str` leaves it; and at the start every
voucher is backed (`BankAssumption`), as on channels that carried nothing. For
`NftTransfer` the same of ends and classes; finitely many tokens, numbered; `None`
neither a token nor a record. The bounds on
blocks, sequences and hops are any natural number. For `RelayedProofs`: identifiers are
valid, the chain's own identifier names a revision, and ends are values of their types; what is stored has bytes; the store holds a
client from the start; drafts of messages are what the types of their fields allow, for
ports that modules are bound to; the ends of this chain name the host's `ibc` store.
The provers know nothing of characters, so what these texts have to be is assumed, and
evaluated by TLC: a numeral is read as its number, a dash parts two numerals, the empty
text has no characters, and an identifier made from a counter is no longer than
identifiers may be. Numbers are below 65536, for which two bytes are enough.

*Only model-checked.* Liveness (`EverySentPacketSettles`, `NoPacketStuck`,
`OpeningCompletes`, `ClosingSpreads`, `TransferEnds`), which under fairness is out of the
prover's reach; and the violation of `timeout_on_close_proof`, which is a
counterexample.

## Not modelled

- Signatures, validator sets and hashing: libraries, symbolic here.
- Events, errors, logs, gas and signers: output that no handler reads.
- Protobuf and JSON bytes: a message is its fields, a text its parts. Amounts are
  naturals, without the 256-bit limit.
- Queries that list records, and unreceived packets and acknowledgements: they hand
  over to the host's `QueryContext`, of which the repository has no implementation.
- The mock client and mock chain of the test host; the wasm client types, which are
  data only; `ibc-derive`.
- ICS-721 class URIs and data.
- `ChainId::increment_revision_number`, which only tests call, and the borsh and serde
  forms of a chain identifier. A chain keeps its revision in `RelayedProofs`.
- The upgrade plan of a host (`clear_upgrade_plan`, `schedule_upgrade`), of which the
  repository has only the trait. The states stored for a plan are records of the store.

Hosts are assumed to roll back a message whose `execute` fails. They are not assumed to
roll back a failed `on_recv_packet`, which is not a failed message.

## Plan

The model covers every component that changes state, and every safety property is
proved. Further models that would add something: forked headers in the two-chain
modules, to state what a frozen client prevents; channels on connections still being
opened; ICS-721 class URIs and data.

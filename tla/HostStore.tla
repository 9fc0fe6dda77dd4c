------------------------------ MODULE HostStore ------------------------------
(***************************************************************************)
(* The provable store of a host: the operations that the handlers call on  *)
(* it (ValidationContext, ExecutionContext and their client counterparts,  *)
(* as ibc-testkit implements them), the blocks that commit it, and the     *)
(* queries that read the store and have what they read proved (ibc-query). *)
(*                                                                         *)
(* store maps typed paths to values.  A block commits the records of the   *)
(* store, as bytes under the texts of their paths.  The operations come in *)
(* any order: what the store promises does not depend on who calls it.     *)
(***************************************************************************)
EXTENDS WireTypes, MerkleProofs

CONSTANTS
  Clients, Heights, ConnectionIds, PortIds, ChannelIds, Sequences,
  ClientStates,     \* the client states stored
  ConnectionEnds,   \* connection identifier -> the ends stored under it
  ChannelEnds,      \* channel identifier -> the ends stored under it
  Commitments, Acks,   \* the packet and acknowledgement commitments stored
  IbcPrefix, UpgradePrefix,   \* the stores of the multistore
  InitStore,
  ChainText,            \* the chain's identifier, as configured
  MaxWrites, MaxBlocks  \* bounds

\* What is kept under a path: values of its type, and none without bytes.
IsValue(p, v) ==
  /\ p[1] = "Connection" => IsConnectionEnd(v)
  /\ p[1] = "ChannelEnd" => IsChannelEnd(v)
  /\ p[1] \in {"SeqSend", "SeqRecv", "SeqAck"} => v \in Numbers
  /\ p[1] \in {"NextClientSequence", "NextConnectionSequence", "NextChannelSequence"} => v \in Nat
  /\ p[1] \in {"ClientState", "ClientConsensusState", "Commitment", "Ack", "Receipt",
                "UpgradedClientState", "UpgradedClientConsensusState"} => v # <<>>

IsStore(records) == \A p \in DOMAIN records : IsPath(p) /\ IsValue(p, records[p])

\* There is a client from the start: a store is never empty.
HasClient(records) == \E p \in DOMAIN records : p[1] = "ClientState"

ASSUME HeightsAssumption   == Heights \subseteq Numbers \X Numbers
ASSUME SequencesAssumption == Sequences \subseteq Numbers
ASSUME BlocksAssumption    == MaxBlocks \in Nat \ {0} /\ 1 .. MaxBlocks \subseteq Numbers
ASSUME IdentifiersAssumption ==
  /\ \A c \in Clients : validate_client_identifier(c)
  /\ \A id \in ConnectionIds : validate_connection_identifier(id)
  /\ \A port \in PortIds : validate_port_identifier(port)
  /\ \A ch \in ChannelIds : validate_channel_identifier(ch)
ASSUME EndsAssumption ==
  /\ \A id \in ConnectionIds : \A end \in ConnectionEnds[id] : IsConnectionEnd(end)
  /\ \A ch \in ChannelIds : \A end \in ChannelEnds[ch] : IsChannelEnd(end)
ASSUME BytesAssumption     == <<>> \notin ClientStates \cup Commitments \cup Acks
ASSUME InitStoreAssumption == IsStore(InitStore) /\ HasClient(InitStore)
ASSUME WritesAssumption    == MaxWrites \in Nat
ASSUME ChainIdAssumption   == ChainIdFromStr(ChainText) # {}

CounterPaths == {<<"NextClientSequence">>, <<"NextConnectionSequence">>, <<"NextChannelSequence">>}

\* client_counter, connection_counter, channel_counter: 0 before the first
Counter(records, path) == IF path \in DOMAIN records THEN records[path] ELSE 0

\* What a counter can come to, and that the identifiers made from it are no
\* longer than identifiers may be: the provers do not know the texts.
Counts == UNION {0 .. Counter(InitStore, path) + MaxWrites : path \in CounterPaths}

ASSUME GeneratedAssumption ==
  \A n \in Counts :
    /\ \A id \in ClientIdNew("07-tendermint", n) : validate_client_identifier(id)
    /\ validate_connection_identifier(ConnectionIdNew(n))
    /\ validate_channel_identifier(ChannelIdNew(n))

VARIABLES
  store,      \* path -> value, as the transactions so far left it
  blocks,     \* the committed blocks: [height, records]
  writes,     \* the number of store operations
  query       \* the query being answered, or NoQuery, or the last answer

hostVars == <<store, blocks, writes, query>>

NoQuery == [step |-> "none"]

-----------------------------------------------------------------------------
(* Reading *)

\* client_state, connection_end, channel_end, get_packet_commitment, ...:
\* not finding the record is an error.
Get(records, path) == When(path \in DOMAIN records, records[path])

HeightLess(a, b) == a[1] < b[1] \/ (a[1] = b[1] /\ a[2] < b[2])

consensus_state_heights(c) == {h \in Heights : <<"ClientConsensusState", c, h>> \in DOMAIN store}

Least(heights, less(_, _)) ==
  {h \in heights : \A g \in heights \ {h} : less(h, g)}

next_consensus_state(c, h) ==
  Least({g \in consensus_state_heights(c) : HeightLess(h, g)}, HeightLess)

prev_consensus_state(c, h) ==
  Least({g \in consensus_state_heights(c) : HeightLess(g, h)}, LAMBDA a, b : HeightLess(b, a))

host_chain_id == CHOOSE id \in ChainIdFromStr(ChainText) : TRUE

host_height == blocks[Len(blocks)].height

-----------------------------------------------------------------------------
(* Writing *)

Write(records) ==
  /\ query.step # "answered"
  /\ writes < MaxWrites
  /\ writes' = writes + 1
  /\ store' = records
  /\ UNCHANGED <<blocks, query>>

\* insert: a new record, or another value in its place
Insert(records, path, value) ==
  [p \in DOMAIN records \cup {path} |-> IF p = path THEN value ELSE records[p]]

Put(path, value) == Write(Insert(store, path, value))

\* Removing what is not there is no error.
Remove(paths) == Write([p \in DOMAIN store \ paths |-> store[p]])

store_client_state(c, cs) == Put(<<"ClientState", c>>, cs)

\* A sound client stores what the chain it follows was at that height.
store_consensus_state(c, h) == Put(<<"ClientConsensusState", c, h>>, HostConsensusState(h))

delete_consensus_state(c, h) == Remove({<<"ClientConsensusState", c, h>>})

store_update_meta(c, h) ==
  Write(Insert(Insert(store, <<"ClientUpdateTime", c, h>>, Len(blocks)),
               <<"ClientUpdateHeight", c, h>>, host_height))

delete_update_meta(c, h) ==
  Remove({<<"ClientUpdateTime", c, h>>, <<"ClientUpdateHeight", c, h>>})

store_connection(id, end) == Put(<<"Connection", id>>, end)

\* One connection per client: the last one stored
store_connection_to_client(c, id) == Put(<<"ClientConnection", c>>, id)

store_channel(port, ch, end) == Put(<<"ChannelEnd", port, ch>>, end)

store_next_sequence_send(port, ch, s) == Put(<<"SeqSend", port, ch>>, s)
store_next_sequence_recv(port, ch, s) == Put(<<"SeqRecv", port, ch>>, s)
store_next_sequence_ack(port, ch, s)  == Put(<<"SeqAck", port, ch>>, s)

store_packet_commitment(port, ch, s, commitment) ==
  Put(<<"Commitment", port, ch, s>>, commitment)

delete_packet_commitment(port, ch, s) == Remove({<<"Commitment", port, ch, s>>})

store_packet_receipt(port, ch, s) == Put(<<"Receipt", port, ch, s>>, <<"Receipt">>)

store_packet_acknowledgement(port, ch, s, ack) == Put(<<"Ack", port, ch, s>>, ack)

delete_packet_acknowledgement(port, ch, s) == Remove({<<"Ack", port, ch, s>>})

Increase(path) == Put(path, Counter(store, path) + 1)

increase_client_counter     == Increase(<<"NextClientSequence">>)
increase_connection_counter == Increase(<<"NextConnectionSequence">>)
increase_channel_counter    == Increase(<<"NextChannelSequence">>)

\* What a plan keeps for height n.
store_upgraded_client_state(n, cs) == Put(<<"UpgradedClientState", n>>, cs)

store_upgraded_consensus_state(n, cs) ==
  Put(<<"UpgradedClientConsensusState", n>>, cs)

-----------------------------------------------------------------------------
(* Committing *)

StoreOf(path) ==
  IF path[1] \in {"UpgradedClientState", "UpgradedClientConsensusState"}
  THEN UpgradePrefix ELSE IbcPrefix

\* The tree of one store: the provable records under the texts of their paths
TreeOf(records, prefix) ==
  LET kept == {p \in DOMAIN records : is_provable(p) /\ StoreOf(p) = prefix}
  IN  [text \in {PathText(p) : p \in kept} |->
         LET p == CHOOSE x \in kept : PathText(x) = text IN ValueBytes(p, records[p])]

Multistore(records) ==
  [prefix \in {IbcPrefix, UpgradePrefix} |-> TreeOf(records, prefix)]

\* advance_host_chain_height.  Every block stays in the history.
Commit ==
  /\ query.step # "answered"
  /\ Len(blocks) < MaxBlocks
  /\ blocks' = Append(blocks, [height  |-> <<host_chain_id.revision_number, host_height[2] + 1>>,
                               records |-> store])
  /\ UNCHANGED <<store, writes, query>>

-----------------------------------------------------------------------------
(* Queries.  Each reads the store, then asks for the host's height and for *)
(* a proof at that height: calls of their own on a store that is shared    *)
(* with the threads that write and commit.                                 *)

Answer(read, proved) ==
  {[step |-> "read", path |-> read, value |-> v, proved |-> proved] : v \in Get(store, read)}

Lookup(path) == Answer(path, path)

query_client_state(c) == Lookup(<<"ClientState", c>>)

query_consensus_state(c, h) == Lookup(<<"ClientConsensusState", c, h>>)

\* request.latest_height
query_latest_consensus_state(c) ==
  UNION {query_consensus_state(c, h) :
           h \in Least(consensus_state_heights(c), LAMBDA a, b : HeightLess(b, a))}

query_connection(id) == Lookup(<<"Connection", id>>)

query_client_connections(c) == Lookup(<<"ClientConnection", c>>)

query_connection_client_state(id) ==
  UNION {query_client_state(end.client_id) : end \in Get(store, <<"Connection", id>>)}

query_connection_consensus_state(id, h) ==
  UNION {query_consensus_state(end.client_id, h) : end \in Get(store, <<"Connection", id>>)}

query_channel(port, ch) == Lookup(<<"ChannelEnd", port, ch>>)

\* The connection below a channel: its first hop
FirstHop(port, ch) ==
  {Head(end.connection_hops) :
     end \in {e \in Get(store, <<"ChannelEnd", port, ch>>) : e.connection_hops # <<>>}}

query_channel_client_state(port, ch) ==
  UNION {query_connection_client_state(id) : id \in FirstHop(port, ch)}

query_channel_consensus_state(port, ch, h) ==
  UNION {query_connection_consensus_state(id, h) : id \in FirstHop(port, ch)}

query_packet_commitment(port, ch, s) == Lookup(<<"Commitment", port, ch, s>>)

\* That there is no receipt is an answer too.
query_packet_receipt(port, ch, s) ==
  LET path == <<"Receipt", port, ch, s>>
  IN  IF path \in DOMAIN store THEN Lookup(path)
      ELSE {[step |-> "read", path |-> path, value |-> Missing, proved |-> path]}

\* Mutant of query_packet_acknowledgement: the proof is the commitment's.
ProvedByCommitment(port, ch, s) ==
  Answer(<<"Ack", port, ch, s>>, <<"Commitment", port, ch, s>>)

query_packet_acknowledgement(port, ch, s) == Lookup(<<"Ack", port, ch, s>>)

query_next_sequence_send(port, ch) == Lookup(<<"SeqSend", port, ch>>)

query_next_sequence_receive(port, ch) == Lookup(<<"SeqRecv", port, ch>>)

QueryRead ==
  /\ query = NoQuery
  /\ \/ \E c \in Clients :
          \/ query' \in query_client_state(c)
          \/ query' \in query_latest_consensus_state(c)
          \/ query' \in query_client_connections(c)
          \/ \E h \in Heights : query' \in query_consensus_state(c, h)
     \/ \E id \in ConnectionIds :
          \/ query' \in query_connection(id)
          \/ query' \in query_connection_client_state(id)
          \/ \E h \in Heights : query' \in query_connection_consensus_state(id, h)
     \/ \E port \in PortIds, ch \in ChannelIds :
          \/ query' \in query_channel(port, ch)
          \/ query' \in query_channel_client_state(port, ch)
          \/ \E h \in Heights : query' \in query_channel_consensus_state(port, ch, h)
          \/ query' \in query_next_sequence_send(port, ch)
          \/ query' \in query_next_sequence_receive(port, ch)
          \/ \E s \in Sequences :
               \/ query' \in query_packet_commitment(port, ch, s)
               \/ query' \in query_packet_receipt(port, ch, s)
               \/ query' \in query_packet_acknowledgement(port, ch, s)
  /\ UNCHANGED <<store, blocks, writes>>

\* ProvableContext::get_proof: of the value, or of its absence.  There is none
\* for a path that is not provable.
get_proof(records, path) ==
  LET ms   == Multistore(records)
      tree == ms[StoreOf(path)]
      text == PathText(path)
  IN  When(is_provable(path),
           <<IF text \in DOMAIN tree THEN ExistProof(tree, text) ELSE NonExistProof(tree, text),
             ExistProof(ms, StoreOf(path))>>)

\* host_height and get_proof.  Without a proof the query is an error.
QueryProve ==
  /\ query.step = "read"
  /\ LET block == blocks[Len(blocks)]
     IN  query' = IF get_proof(block.records, query.proved) = {} THEN NoQuery
                  ELSE [step |-> "answered", path |-> query.path, value |-> query.value,
                        proved |-> query.proved, height |-> block.height]
  /\ UNCHANGED <<store, blocks, writes>>

\* The answer is sent, and another query may come.
QueryDone ==
  /\ query.step = "answered"
  /\ query' = NoQuery
  /\ UNCHANGED <<store, blocks, writes>>

-----------------------------------------------------------------------------

HostInit ==
  /\ store = InitStore
  /\ blocks = <<[height |-> <<host_chain_id.revision_number, 1>>, records |-> InitStore]>>
  /\ writes = 0
  /\ query = NoQuery

StoreClients ==
  \E c \in Clients :
    \/ \E cs \in ClientStates : store_client_state(c, cs)
    \/ \E h \in Heights :
         \/ store_consensus_state(c, h)
         \/ delete_consensus_state(c, h)
         \/ store_update_meta(c, h)
         \/ delete_update_meta(c, h)
    \/ \E id \in ConnectionIds : store_connection_to_client(c, id)

StoreConnections ==
  \E id \in ConnectionIds : \E end \in ConnectionEnds[id] : store_connection(id, end)

StoreChannels ==
  \E port \in PortIds, ch \in ChannelIds :
    \/ \E end \in ChannelEnds[ch] : store_channel(port, ch, end)
    \/ \E s \in Sequences :
         \/ store_next_sequence_send(port, ch, s)
         \/ store_next_sequence_recv(port, ch, s)
         \/ store_next_sequence_ack(port, ch, s)

StorePackets ==
  \E port \in PortIds, ch \in ChannelIds, s \in Sequences :
    \/ \E commitment \in Commitments : store_packet_commitment(port, ch, s, commitment)
    \/ delete_packet_commitment(port, ch, s)
    \/ store_packet_receipt(port, ch, s)
    \/ \E ack \in Acks : store_packet_acknowledgement(port, ch, s, ack)
    \/ delete_packet_acknowledgement(port, ch, s)

StoreUpgrades ==
  \E n \in 1 .. MaxBlocks, cs \in ClientStates :
    \/ store_upgraded_client_state(n, cs)
    \/ store_upgraded_consensus_state(n, cs)

HostNext ==
  \/ StoreClients
  \/ StoreConnections
  \/ StoreChannels
  \/ StorePackets
  \/ StoreUpgrades
  \/ increase_client_counter
  \/ increase_connection_counter
  \/ increase_channel_counter
  \/ Commit
  \/ QueryRead
  \/ QueryProve
  \/ QueryDone
=============================================================================

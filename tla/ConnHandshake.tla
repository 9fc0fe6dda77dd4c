--------------------------- MODULE ConnHandshake ---------------------------
(***************************************************************************)
(* The ICS-03 connection handshake between two chains, each of which runs  *)
(* the four handlers (conn_open_init, _try, _ack, _confirm) for any number *)
(* of connections at once, in both directions.                             *)
(*                                                                         *)
(* Besides its client of the peer each chain may have a client of some     *)
(* third chain.  Nothing can be said of what proofs through that one       *)
(* establish, so they always succeed; the handshake has to keep            *)
(* connections through the client of the peer clear of it.                 *)
(*                                                                         *)
(* Provable are the connection ends and, of each client, its latest height,*)
(* whether it is frozen and the heights at which it holds the peer's own   *)
(* consensus state.  The commitment prefix is the same everywhere.         *)
(***************************************************************************)
EXTENDS IbcHost, FiniteSets

CONSTANTS
  ClientIds,        \* the clients a chain has: "peer" and maybe "third"
  Initiators,       \* the chains that start handshakes
  MaxConnections,   \* bound: connections of one chain
  LastHeight,       \* bound: LastHeight[c] is the height c gets to
  Compatible,       \* Compatible[c]: get_compatible_versions, in c's order
  Identifiers,      \* version identifiers, numbers in the order of the strings
  Features,         \* version features
  Proposed,         \* the versions a relayer may ask for by name
  Delays            \* delay periods a message may ask for

Version == [identifier : Identifiers, features : SUBSET Features]

ASSUME ClientIdsAssumption ==
  "peer" \in ClientIds /\ ClientIds \subseteq {"peer", "third"}
ASSUME InitiatorsAssumption == Initiators \subseteq Chains
ASSUME ConnectionsAssumption == MaxConnections \in Nat
ASSUME LastHeightAssumption == LastHeight \in [Chains -> 2..MaxHeight]
ASSUME CompatibleAssumption ==
  /\ Compatible \in [Chains -> Seq(Version)]
  /\ \A c \in Chains : \A i, j \in DOMAIN Compatible[c] :
       Compatible[c][i].identifier = Compatible[c][j].identifier => i = j
ASSUME ProposedAssumption == Proposed \subseteq Version
ASSUME IdentifiersAssumption == Identifiers \subseteq Nat
ASSUME DelaysAssumption == Delays \subseteq Nat

vars == <<header, client, store>>

ConnIds == 1..MaxConnections

\* counterparty.connection_id is None in Init, written 0.
ConnectionEnd ==
  [state : {"Init", "TryOpen", "Open"}, client : ClientIds,
   cpClient : ClientIds, cpConn : ConnIds \union {0},
   versions : Seq(Version), delay : Delays]

\* An absent entry of the store is no connection end.
ASSUME NoneAssumption == None \notin ConnectionEnd

----------------------------------------------------------------------------
\* Version negotiation.

\* find_supported_version: the first of the list with v's identifier.
FindsSupported(v, list, i) ==
  /\ i \in DOMAIN list
  /\ list[i].identifier = v.identifier
  /\ \A j \in DOMAIN list : list[j].identifier = v.identifier => i <= j

verify_is_supported(v, list) ==
  \E i \in DOMAIN list :
    /\ FindsSupported(v, list, i)
    /\ v.features # {}
    /\ v.features \subseteq list[i].features

\* Mutant of CommonVersions: the counterparty's features are taken as they are.
CounterpartyVersions(supported, counterparty) ==
  {v \in Version :
     \E i \in DOMAIN supported, j \in DOMAIN counterparty :
       supported[i].identifier = counterparty[j].identifier /\ v = counterparty[j]}

\* The versions both sides could speak, as pick_version collects them.
CommonVersions(supported, counterparty) ==
  {v \in Version :
     /\ v.features # {}
     /\ \E i \in DOMAIN supported, j \in DOMAIN counterparty :
          /\ v.identifier = supported[i].identifier
          /\ FindsSupported(v, counterparty, j)
          /\ v.features = supported[i].features \intersect counterparty[j].features}

\* pick_version: of those the one with the least identifier.
pick_version(supported, counterparty, v) ==
  /\ v \in CommonVersions(supported, counterparty)
  /\ \A w \in CommonVersions(supported, counterparty) : v.identifier <= w.identifier

----------------------------------------------------------------------------
\* Proofs.

\* A client that holds no consensus state of the peer.
NoClient == [latest |-> 1, frozen |-> FALSE, heights |-> {}]

Root ==
  [conns   : [ConnIds -> ConnectionEnd \union {None}],
   clients : [ClientIds ->
     [latest : Heights, frozen : BOOLEAN, heights : SUBSET Heights]]]

\* What a block of chain c commits to.
Committed(c) ==
  [conns   |-> store[c],
   clients |-> [cid \in ClientIds |->
     IF cid = "peer"
     THEN [latest |-> client[c].latest, frozen |-> client[c].frozen,
           heights |-> StoredHeights(client[c])]
     ELSE NoClient]]

StatusActive(c, cid) == cid = "third" \/ ClientActive(c)

\* The client is active and a proof at height ph shows connection end conn.
ProvesConnection(c, cid, ph, id, conn) ==
  \/ cid = "third"
  \/ /\ CanVerifyAt(c, ph)
     /\ id \in ConnIds
     /\ ProvenStore(c, ph).conns[id] = conn

\* validate_self_client, of the client of c that the peer shows.
validate_self_client(c, cs) == ~ cs.frozen /\ cs.latest < host_height(c)

\* Mutant of ProvesSelf: no proof of the consensus state.
ProvesSelfClientOnly(c, cid, ph, cpClient) ==
  \/ cid = "third"
  \/ /\ CanVerifyAt(c, ph)
     /\ validate_self_client(c, ProvenStore(c, ph).clients[cpClient])

\* The proofs of client and consensus state: the peer's client cpClient passes
\* for a client of c and holds c's consensus state of the height ch that the
\* message names.
ProvesSelf(c, cid, ph, cpClient) ==
  \/ cid = "third"
  \/ /\ CanVerifyAt(c, ph)
     /\ LET cs == ProvenStore(c, ph).clients[cpClient] IN
        /\ validate_self_client(c, cs)
        /\ \E ch \in 1..host_height(c) : ch \in cs.heights

----------------------------------------------------------------------------
\* The handlers.  connection_counter names a new connection.
NextConnId(c) == Cardinality({i \in ConnIds : store[c][i] # None}) + 1

AddConnection(c, conn) ==
  /\ NextConnId(c) \in ConnIds
  /\ store' = [store EXCEPT ![c][NextConnId(c)] = conn]
  /\ UNCHANGED hostVars

ConnOpenInit(c, cid, cpClient, versions, delay) ==
  /\ StatusActive(c, cid)
  /\ \/ versions = Compatible[c]
     \/ Len(versions) = 1 /\ verify_is_supported(versions[1], Compatible[c])
  /\ AddConnection(c, [state |-> "Init", client |-> cid, cpClient |-> cpClient,
                       cpConn |-> 0, versions |-> versions, delay |-> delay])

ConnOpenTry(c, cid, cpClient, cpConn, versionsOnA, delay, ph) ==
  /\ ProvesConnection(c, cid, ph, cpConn,
       [state |-> "Init", client |-> cpClient, cpClient |-> cid,
        cpConn |-> 0, versions |-> versionsOnA, delay |-> delay])
  /\ ProvesSelf(c, cid, ph, cpClient)
  /\ \E v \in Version :
       /\ pick_version(Compatible[c], versionsOnA, v)
       /\ AddConnection(c, [state |-> "TryOpen", client |-> cid, cpClient |-> cpClient,
                            cpConn |-> cpConn, versions |-> <<v>>, delay |-> delay])

\* Mutant of ConnOpenAck: the negotiated version is not stored.
AckKeepsVersions(c, id, cpConn, ph, v) ==
  LET conn == store[c][id] IN
  /\ conn # None
  /\ conn.state = "Init"
  /\ ProvesConnection(c, conn.client, ph, cpConn,
       [state |-> "TryOpen", client |-> conn.cpClient, cpClient |-> conn.client,
        cpConn |-> id, versions |-> <<v>>, delay |-> conn.delay])
  /\ ProvesSelf(c, conn.client, ph, conn.cpClient)
  /\ verify_is_supported(v, conn.versions)
  /\ store' = [store EXCEPT ![c][id] = [@ EXCEPT !.state = "Open", !.cpConn = cpConn]]
  /\ UNCHANGED hostVars

ConnOpenAck(c, id, cpConn, ph, v) ==
  LET conn == store[c][id] IN
  /\ conn # None
  /\ conn.state = "Init"
  /\ ProvesConnection(c, conn.client, ph, cpConn,
       [state |-> "TryOpen", client |-> conn.cpClient, cpClient |-> conn.client,
        cpConn |-> id, versions |-> <<v>>, delay |-> conn.delay])
  /\ ProvesSelf(c, conn.client, ph, conn.cpClient)
  /\ verify_is_supported(v, conn.versions)
  /\ store' = [store EXCEPT ![c][id] =
       [@ EXCEPT !.state = "Open", !.versions = <<v>>, !.cpConn = cpConn]]
  /\ UNCHANGED hostVars

\* Mutant of ConnOpenConfirm: the peer's end may name any connection.
ConfirmAnyPartner(c, id, ph) ==
  LET conn == store[c][id] IN
  /\ conn # None
  /\ conn.state = "TryOpen"
  /\ \E any \in ConnIds :
       ProvesConnection(c, conn.client, ph, conn.cpConn,
         [state |-> "Open", client |-> conn.cpClient, cpClient |-> conn.client,
          cpConn |-> any, versions |-> conn.versions, delay |-> conn.delay])
  /\ store' = [store EXCEPT ![c][id].state = "Open"]
  /\ UNCHANGED hostVars

ConnOpenConfirm(c, id, ph) ==
  LET conn == store[c][id] IN
  /\ conn # None
  /\ conn.state = "TryOpen"
  /\ ProvesConnection(c, conn.client, ph, conn.cpConn,
       [state |-> "Open", client |-> conn.cpClient, cpClient |-> conn.client,
        cpConn |-> id, versions |-> conn.versions, delay |-> conn.delay])
  /\ store' = [store EXCEPT ![c][id].state = "Open"]
  /\ UNCHANGED hostVars

----------------------------------------------------------------------------
\* In their first blocks the chains created clients of each other, from their
\* first headers; the second block, whose header shows it, is under execution.
Init ==
  LET root(clientView) == [conns   |-> [i \in ConnIds |-> None],
                           clients |-> [cid \in ClientIds |->
                             IF cid = "peer" THEN clientView ELSE NoClient]]
      genesis == [time |-> 1, root |-> root(NoClient)]
      created == [NoClient EXCEPT !.heights = {1}]
  IN /\ store  = [c \in Chains |-> [i \in ConnIds |-> None]]
     /\ header = [c \in Chains |-> <<genesis, [time |-> 2, root |-> root(created)]>>]
     /\ client = [c \in Chains |->
                   initialise([height |-> 1, time |-> 1, root |-> genesis.root], 1, 1)]

\* Bound: one unit of time per block.
Produce(c) ==
  /\ host_height(c) < LastHeight[c]
  /\ header' = [header EXCEPT ![c] =
       Append(@, [time |-> host_timestamp(c) + 1, root |-> Committed(c)])]
  /\ UNCHANGED <<client, store>>

\* Bound: relayers submit the newest header, on the latest trusted one.
Update(c) == UpdateClient(c, host_height(Other(c)), client[c].latest)
OpenInit(c) ==
  /\ c \in Initiators
  /\ \E cid, cpClient \in ClientIds, delay \in Delays,
        versions \in {Compatible[c]} \union {<<v>> : v \in Proposed} :
          ConnOpenInit(c, cid, cpClient, versions, delay)
\* What a relayer submits: the peer's end as it stands, or through the other
\* client anything at all.
OpenTry(c) ==
  \E cid, cpClient \in ClientIds, cpConn \in ConnIds, delay \in Delays,
     ph \in Heights, versions \in {Compatible[Other(c)]} \union {<<w>> : w \in Proposed} :
       ConnOpenTry(c, cid, cpClient, cpConn, versions, delay, ph)
OpenAck(c) ==
  \E id, cpConn \in ConnIds, ph \in Heights, v \in Version :
    ConnOpenAck(c, id, cpConn, ph, v)
OpenConfirm(c) ==
  \E id \in ConnIds, ph \in Heights : ConnOpenConfirm(c, id, ph)

Next ==
  \E c \in Chains :
    \/ Produce(c)
    \/ Update(c)
    \/ OpenInit(c)
    \/ OpenTry(c)
    \/ OpenAck(c)
    \/ OpenConfirm(c)

Spec == Init /\ [][Next]_vars

----------------------------------------------------------------------------
Ends(c) == {i \in ConnIds : store[c][i] # None}

\* The store holds well-formed ends: what ConnectionEnd::new asks of versions,
\* and a counterparty connection as soon as the end is past Init.
TypeOK ==
  /\ client \in [Chains -> ClientState(Root)]
  /\ \A c \in Chains : \A i \in ConnIds :
       \/ store[c][i] = None
       \/ /\ store[c][i] \in ConnectionEnd
          /\ store[c][i].state = "Init" <=> store[c][i].cpConn = 0
          /\ store[c][i].state # "Init" => Len(store[c][i].versions) = 1

\* When an end opened through the client of the peer, the peer has an end that
\* names this one and no other, through its client of this chain, with the
\* same version and delay, open or about to be.  So the handlers never open
\* two ends with one partner, nor an end whose partner trusts another chain.
OpenEndsAgree ==
  \A c \in Chains : \A i \in Ends(c) :
    LET end == store[c][i] IN
    end.state = "Open" /\ end.client = "peer" =>
      /\ end.cpConn \in Ends(Other(c))
      /\ LET partner == store[Other(c)][end.cpConn] IN
         /\ partner.state \in {"TryOpen", "Open"}
         /\ partner.cpConn = i
         /\ partner.client = "peer"
         /\ partner.cpClient = end.client /\ end.cpClient = partner.client
         /\ partner.versions = end.versions
         /\ partner.delay = end.delay

\* The version settled between the peers is one that both support.
SpokenByBoth ==
  \A c \in Chains : \A i \in Ends(c) :
    LET end == store[c][i] IN
    end.state # "Init" /\ end.client = "peer" =>
      \A d \in Chains : verify_is_supported(end.versions[1], Compatible[d])

============================================================================

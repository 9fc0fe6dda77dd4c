------------------------ MODULE ConnHandshakeProofs ------------------------
(***************************************************************************)
(* Proofs about ConnHandshake, for every number of connections and blocks, *)
(* every list of versions a chain may support, and whether or not there is *)
(* a client of a third chain.                                              *)
(*                                                                         *)
(* As with channels, a handler sees the peer's ends as an earlier header   *)
(* showed them (EarlierEnd).  Two things more have to be remembered of     *)
(* what a header shows: an Init end carries versions its chain supports,   *)
(* which is what version negotiation starts from, and the client of a      *)
(* third chain holds no consensus state of the peer, which is what the     *)
(* proof of the self consensus state finds out.                            *)
(***************************************************************************)
EXTENDS ConnHandshake, TmClientStateProofs, SequenceTheorems, FiniteSetTheorems

LEMMA OtherIsChain ==
  \A c \in Chains : /\ Other(c) \in Chains /\ Other(c) # c /\ Other(Other(c)) = c
                    /\ \A d \in Chains : d = c \/ d = Other(c)
  BY ChainsAssumption DEF Chains, Other

Stores == [ConnIds -> ConnectionEnd \union {None}]

HostTypes ==
  /\ store \in [Chains -> Stores]
  /\ header \in [Chains -> Seq([time : Nat, root : Root])]
  /\ \A c \in Chains : Len(header[c]) \in Heights
  /\ client \in [Chains -> ClientState(Root)]
  /\ \A c \in Chains : client[c].latest \in Heights

\* What conn_open_init accepts as the versions of chain c.
Proposal(c, versions) ==
  \/ versions = Compatible[c]
  \/ Len(versions) = 1 /\ verify_is_supported(versions[1], Compatible[c])

\* An end of chain c is as some handler left it.
EndOK(c, end) ==
  /\ end.state = "Init" <=> end.cpConn = 0
  /\ end.state = "Init" => Proposal(c, end.versions)
  /\ end.state # "Init" => Len(end.versions) = 1
  /\ end.state # "Init" /\ end.client = "peer" =>
       /\ end.cpClient = "peer"
       /\ \A d \in Chains : verify_is_supported(end.versions[1], Compatible[d])

EndsOK == \A c \in Chains : \A i \in ConnIds : store[c][i] # None => EndOK(c, store[c][i])

\* connection_counter has given out the first identifiers.
IdsInOrder == \A c \in Chains : \E n \in 0..MaxConnections : Ends(c) = 1..n

\* A connection end was once old and is new today.
EarlierEnd(old, new) ==
  old # None =>
    /\ new # None
    /\ new.client = old.client /\ new.cpClient = old.cpClient /\ new.delay = old.delay
    /\ old.state # "Init" =>
         new.state # "Init" /\ new.cpConn = old.cpConn /\ new.versions = old.versions

\* What a root of chain c shows.
ShownBy(c, root) ==
  /\ \A i \in ConnIds : EarlierEnd(root.conns[i], store[c][i])
  /\ \A i \in ConnIds : root.conns[i] # None => EndOK(c, root.conns[i])
  /\ \A cid \in ClientIds : cid # "peer" => root.clients[cid].heights = {}

ShownIsEarlier ==
  /\ \A c \in Chains : \A h \in 1..Len(header[c]) : ShownBy(c, header[c][h].root)
  /\ \A c \in Chains : \A h \in Heights :
       client[c].cons[h] # None => ShownBy(Other(c), client[c].cons[h].root)

\* Other is the end that names end, stored under i, as its counterparty.
Matches(end, i, other) ==
  /\ other # None /\ other.state \in {"TryOpen", "Open"}
  /\ other.cpConn = i /\ other.client = "peer"
  /\ other.cpClient = end.client /\ end.cpClient = other.client
  /\ other.versions = end.versions /\ other.delay = end.delay

\* OpenEndsAgree, end by end.
OpenMatched ==
  \A c \in Chains : \A i \in ConnIds :
    store[c][i] # None /\ store[c][i].state = "Open" /\ store[c][i].client = "peer" =>
      /\ store[c][i].cpConn \in ConnIds
      /\ Matches(store[c][i], i, store[Other(c)][store[c][i].cpConn])

ConnInv ==
  /\ HostTypes
  /\ EndsOK
  /\ IdsInOrder
  /\ ShownIsEarlier
  /\ OpenMatched

----------------------------------------------------------------------------
\* The kinds of steps: one end is created or opened, or none.
Created(c, id, end) ==
  /\ store[c][id] = None
  /\ Ends(c) = 1..(id - 1)
  /\ end.state \in {"Init", "TryOpen"}

Opened(c, id, end) ==
  LET old == store[c][id] IN
  /\ old # None /\ old.state \in {"Init", "TryOpen"}
  /\ end.state = "Open"
  /\ end.client = old.client /\ end.cpClient = old.cpClient /\ end.delay = old.delay
  /\ old.state = "TryOpen" => end.cpConn = old.cpConn /\ end.versions = old.versions
  /\ end.client = "peer" =>
       end.cpConn \in ConnIds /\ Matches(end, id, store[Other(c)][end.cpConn])

Writes(c, id, end) == store' = [store EXCEPT ![c][id] = end]

EndStep ==
  /\ UNCHANGED hostVars
  /\ \E c \in Chains, id \in ConnIds, end \in ConnectionEnd :
       /\ Writes(c, id, end)
       /\ EndOK(c, end)
       /\ Created(c, id, end) \/ Opened(c, id, end)

LEMMA EndFacts ==
  ASSUME NEW end \in ConnectionEnd
  PROVE  end # None /\ end.cpConn \in ConnIds \union {0} /\ end.versions \in Seq(Version)
         /\ end.state \in {"Init", "TryOpen", "Open"} /\ end.client \in ClientIds
         /\ end.cpClient \in ClientIds
  BY NoneAssumption DEF ConnectionEnd

LEMMA StoredEnd ==
  ASSUME HostTypes, NEW c \in Chains, NEW i \in ConnIds, store[c][i] # None
  PROVE  store[c][i] \in ConnectionEnd
  BY DEF HostTypes, Stores

LEMMA HostNow ==
  ASSUME HostTypes, NEW c \in Chains
  PROVE  host_timestamp(c) \in Nat /\ host_height(c) \in Nat /\ host_height(c) \in Heights
         /\ header[c][Len(header[c])] \in [time : Nat, root : Root]
  <1>1. Len(header[c]) \in 1..Len(header[c]) /\ Len(header[c]) \in Nat
    BY DEF HostTypes, Heights
  <1>2. header[c] \in Seq([time : Nat, root : Root])
    BY DEF HostTypes
  <1>3. header[c][Len(header[c])] \in [time : Nat, root : Root]
    BY <1>1, <1>2, ElementOfSeq
  <1> QED BY <1>1, <1>3 DEF host_timestamp, host_height, HostTypes

----------------------------------------------------------------------------
\* Negotiation: what pick_version finds in the chain's own list and in a
\* proposal of the other chain is supported by both.
LEMMA PickedIsSupported ==
  ASSUME NEW c \in Chains, NEW d \in Chains, NEW list \in Seq(Version), Proposal(d, list),
         NEW v \in Version, pick_version(Compatible[c], list, v)
  PROVE  verify_is_supported(v, Compatible[c]) /\ verify_is_supported(v, Compatible[d])
  <1>1. PICK i \in DOMAIN Compatible[c], j \in DOMAIN list :
          /\ v.features # {}
          /\ v.identifier = Compatible[c][i].identifier
          /\ FindsSupported(v, list, j)
          /\ v.features = Compatible[c][i].features \intersect list[j].features
    BY DEF pick_version, CommonVersions
  <1>2. verify_is_supported(v, Compatible[c])
    <2>1. i \in Nat
      <3>1. Compatible[c] \in Seq(Version)
        BY CompatibleAssumption
      <3> QED BY <3>1
    <2>2. FindsSupported(v, Compatible[c], i)
      BY <1>1, <2>1, CompatibleAssumption DEF FindsSupported
    <2> QED BY <1>1, <2>2 DEF verify_is_supported
  <1>3. CASE list = Compatible[d]
    BY <1>1, <1>2, <1>3 DEF verify_is_supported
  <1>4. CASE Len(list) = 1 /\ verify_is_supported(list[1], Compatible[d])
    <2>1. j = 1
      BY <1>4
    <2>2. PICK k \in DOMAIN Compatible[d] :
            FindsSupported(list[1], Compatible[d], k) /\ list[1].features \subseteq Compatible[d][k].features
      BY <1>4 DEF verify_is_supported
    <2>3. v.identifier = list[1].identifier /\ v.features \subseteq Compatible[d][k].features
      BY <1>1, <2>1, <2>2 DEF FindsSupported
    <2>4. FindsSupported(v, Compatible[d], k)
      BY <2>2, <2>3 DEF FindsSupported
    <2> QED BY <1>1, <1>2, <2>3, <2>4 DEF verify_is_supported
  <1> QED BY <1>3, <1>4 DEF Proposal

----------------------------------------------------------------------------
\* What proofs through the client of the peer show.
LEMMA ProofShows ==
  ASSUME HostTypes, ShownIsEarlier, NEW c \in Chains, NEW ph \in Heights,
         NEW id \in ConnIds, NEW conn \in ConnectionEnd,
         ProvesConnection(c, "peer", ph, id, conn)
  PROVE  /\ EndOK(Other(c), conn)
         /\ store[Other(c)][id] # None
         /\ EarlierEnd(conn, store[Other(c)][id])
  <1>1. client[c].cons[ph] # None /\ client[c].cons[ph].root.conns[id] = conn
    BY DEF ProvesConnection, CanVerifyAt, HasProofHeight, StoredHeights, ProvenStore
  <1>2. ShownBy(Other(c), client[c].cons[ph].root)
    BY <1>1 DEF ShownIsEarlier
  <1>3. conn # None
    BY EndFacts
  <1> QED BY <1>1, <1>2, <1>3 DEF ShownBy, EarlierEnd

\* Only the client of this chain can hold this chain's consensus states.
LEMMA SelfClientIsPeer ==
  ASSUME HostTypes, ShownIsEarlier, NEW c \in Chains, NEW ph \in Heights,
         NEW cpClient \in ClientIds, ProvesSelf(c, "peer", ph, cpClient)
  PROVE  cpClient = "peer"
  <1>1. client[c].cons[ph] # None /\ client[c].cons[ph].root.clients[cpClient].heights # {}
    BY DEF ProvesSelf, CanVerifyAt, HasProofHeight, StoredHeights, ProvenStore
  <1>2. ShownBy(Other(c), client[c].cons[ph].root)
    BY <1>1 DEF ShownIsEarlier
  <1> QED BY <1>1, <1>2 DEF ShownBy

LEMMA CreateKind ==
  ASSUME HostTypes, IdsInOrder, NEW c \in Chains, NEW end \in ConnectionEnd,
         AddConnection(c, end), end.state \in {"Init", "TryOpen"}, EndOK(c, end)
  PROVE  EndStep
  <1>1. PICK n \in 0..MaxConnections : Ends(c) = 1..n
    BY DEF IdsInOrder
  <1>2. n \in Nat /\ NextConnId(c) = n + 1
    <2>1. n \in Nat
      BY ConnectionsAssumption
    <2>2. Cardinality(1..n) = n
      BY <2>1, FS_Interval
    <2> QED BY <1>1, <2>1, <2>2 DEF NextConnId, Ends
  <1>3. n + 1 \in ConnIds /\ n + 1 \notin Ends(c) /\ Ends(c) = 1..((n + 1) - 1)
    BY <1>1, <1>2 DEF AddConnection
  <1>4. Created(c, n + 1, end)
    BY <1>3 DEF Created, Ends
  <1>5. Writes(c, n + 1, end) /\ UNCHANGED hostVars
    BY <1>2 DEF AddConnection, Writes
  <1> QED BY <1>3, <1>4, <1>5 DEF EndStep

LEMMA VersionsType ==
  ASSUME NEW c \in Chains, NEW versions \in {Compatible[c]} \union {<<v>> : v \in Proposed}
  PROVE  versions \in Seq(Version)
  <1>1. CASE versions = Compatible[c]
    BY <1>1, CompatibleAssumption
  <1>2. CASE \E v \in Proposed : versions = <<v>>
    <2>1. PICK v \in Proposed : versions = <<v>>
      BY <1>2
    <2>2. v \in Version
      BY ProposedAssumption
    <2> HIDE DEF Version
    <2> QED BY <2>1, <2>2
  <1> QED BY <1>1, <1>2

LEMMA OpenInitKind ==
  ASSUME HostTypes, IdsInOrder, NEW c \in Chains, OpenInit(c)
  PROVE  EndStep
  <1>1. PICK cid \in ClientIds, cpClient \in ClientIds, delay \in Delays,
             versions \in {Compatible[c]} \union {<<v>> : v \in Proposed} :
          ConnOpenInit(c, cid, cpClient, versions, delay)
    BY DEF OpenInit
  <1> DEFINE end == [state |-> "Init", client |-> cid, cpClient |-> cpClient,
                     cpConn |-> 0, versions |-> versions, delay |-> delay]
  <1>2. versions \in Seq(Version)
    BY VersionsType
  <1>3. end \in ConnectionEnd
    BY <1>2 DEF ConnectionEnd
  <1>4. Proposal(c, versions) /\ AddConnection(c, end)
    BY <1>1 DEF ConnOpenInit, Proposal
  <1>5. EndOK(c, end) /\ end.state = "Init"
    BY <1>4 DEF EndOK
  <1> HIDE DEF end
  <1> QED BY <1>3, <1>4, <1>5, CreateKind

LEMMA OpenTryKind ==
  ASSUME HostTypes, IdsInOrder, ShownIsEarlier, NEW c \in Chains, OpenTry(c)
  PROVE  EndStep
  <1>1. PICK cid \in ClientIds, cpClient \in ClientIds, cpConn \in ConnIds, delay \in Delays,
             ph \in Heights,
             versions \in {Compatible[Other(c)]} \union {<<w>> : w \in Proposed} :
          ConnOpenTry(c, cid, cpClient, cpConn, versions, delay, ph)
    BY DEF OpenTry
  <1>2. versions \in Seq(Version)
    BY VersionsType, OtherIsChain
  <1> DEFINE theirs == [state |-> "Init", client |-> cpClient, cpClient |-> cid,
                        cpConn |-> 0, versions |-> versions, delay |-> delay]
             mine(v) == [state |-> "TryOpen", client |-> cid, cpClient |-> cpClient,
                         cpConn |-> cpConn, versions |-> <<v>>, delay |-> delay]
  <1>3. PICK v \in Version :
          pick_version(Compatible[c], versions, v) /\ AddConnection(c, mine(v))
    BY <1>1 DEF ConnOpenTry
  <1>4. mine(v) \in ConnectionEnd
    BY DEF ConnectionEnd
  <1>5. theirs \in ConnectionEnd
    BY <1>2 DEF ConnectionEnd
  <1>6. ASSUME cid = "peer"
        PROVE  cpClient = "peer" /\ \A d \in Chains : verify_is_supported(v, Compatible[d])
    <2>1. ProvesConnection(c, cid, ph, cpConn, theirs) /\ ProvesSelf(c, cid, ph, cpClient)
      BY <1>1 DEF ConnOpenTry
    <2>2. theirs.versions = versions /\ theirs.state = "Init"
      OBVIOUS
    <2> HIDE DEF theirs
    <2>3. cpClient = "peer"
      BY <1>6, <2>1, SelfClientIsPeer
    <2>4. EndOK(Other(c), theirs)
      BY <1>5, <1>6, <2>1, ProofShows
    <2>5. Proposal(Other(c), versions)
      BY <2>2, <2>4 DEF EndOK
    <2>6. verify_is_supported(v, Compatible[c]) /\ verify_is_supported(v, Compatible[Other(c)])
      BY <1>2, <1>3, <2>5, OtherIsChain, PickedIsSupported
    <2> QED BY <2>3, <2>6, OtherIsChain
  <1>7. EndOK(c, mine(v))
    <2>1. cpConn # 0
      BY DEF ConnIds
    <2>2. Len(<<v>>) = 1 /\ <<v>>[1] = v
      OBVIOUS
    <2> QED BY <1>6, <2>1, <2>2 DEF EndOK
  <1>8. mine(v).state = "TryOpen"
    OBVIOUS
  <1> HIDE DEF mine
  <1> QED BY <1>3, <1>4, <1>7, <1>8, CreateKind

LEMMA OpenAckKind ==
  ASSUME HostTypes, EndsOK, ShownIsEarlier, NEW c \in Chains, OpenAck(c)
  PROVE  EndStep
  <1>1. PICK id \in ConnIds, cpConn \in ConnIds, ph \in Heights, v \in Version :
          ConnOpenAck(c, id, cpConn, ph, v)
    BY DEF OpenAck
  <1>2. PICK old : old = store[c][id]
    OBVIOUS
  <1> DEFINE end == [old EXCEPT !.state = "Open", !.versions = <<v>>, !.cpConn = cpConn]
             theirs == [state |-> "TryOpen", client |-> old.cpClient, cpClient |-> old.client,
                        cpConn |-> id, versions |-> <<v>>, delay |-> old.delay]
  <1>3. /\ old # None /\ old.state = "Init" /\ UNCHANGED hostVars
        /\ ProvesConnection(c, old.client, ph, cpConn, theirs)
        /\ ProvesSelf(c, old.client, ph, old.cpClient)
        /\ Writes(c, id, end)
    BY <1>1, <1>2 DEF ConnOpenAck, Writes
  <1>4. old \in ConnectionEnd
    BY <1>2, <1>3, StoredEnd
  <1>5. /\ end \in ConnectionEnd /\ end.state = "Open" /\ end.versions = <<v>>
        /\ end.cpConn = cpConn /\ end.client = old.client /\ end.cpClient = old.cpClient
        /\ end.delay = old.delay
    <2>0. <<v>> \in Seq(Version)
      OBVIOUS
    <2>1. PICK vs \in Seq(Version) : vs = <<v>>
      BY <2>0, Zenon
    <2>2. end = [old EXCEPT !.state = "Open", !.versions = vs, !.cpConn = cpConn]
      BY <2>1
    <2> HIDE DEF end
    <2> QED BY <1>4, <2>1, <2>2 DEF ConnectionEnd
  <1>6. /\ theirs \in ConnectionEnd /\ theirs.state = "TryOpen" /\ theirs.versions = <<v>>
        /\ theirs.cpConn = id /\ theirs.client = old.cpClient
        /\ theirs.cpClient = old.client /\ theirs.delay = old.delay
    BY <1>4 DEF ConnectionEnd
  <1> HIDE DEF end, theirs
  <1>7. ASSUME old.client = "peer"
        PROVE  /\ old.cpClient = "peer"
               /\ Matches(end, id, store[Other(c)][cpConn])
               /\ \A d \in Chains : verify_is_supported(v, Compatible[d])
    <2>1. old.cpClient = "peer"
      BY <1>3, <1>4, <1>7, EndFacts, SelfClientIsPeer
    <2>2. /\ store[Other(c)][cpConn] # None
          /\ EarlierEnd(theirs, store[Other(c)][cpConn]) /\ EndOK(Other(c), theirs)
      BY <1>3, <1>6, <1>7, ProofShows
    <2>3. store[Other(c)][cpConn].state \in {"TryOpen", "Open"}
      <3>1. store[Other(c)][cpConn].state \in {"Init", "TryOpen", "Open"}
        BY <2>2, OtherIsChain, StoredEnd, EndFacts
      <3>2. store[Other(c)][cpConn].state # "Init"
        BY <1>6, <2>2, EndFacts DEF EarlierEnd
      <3> QED BY <3>1, <3>2
    <2>4. Matches(end, id, store[Other(c)][cpConn])
      BY <1>5, <1>6, <1>7, <2>1, <2>2, <2>3, EndFacts DEF EarlierEnd, Matches
    <2>5. <<v>>[1] = v
      OBVIOUS
    <2>6. \A d \in Chains : verify_is_supported(v, Compatible[d])
      BY <1>6, <2>1, <2>2, <2>5 DEF EndOK
    <2> QED BY <2>1, <2>4, <2>6
  <1>8. EndOK(c, end)
    <2>1. cpConn # 0
      BY DEF ConnIds
    <2>2. Len(<<v>>) = 1 /\ <<v>>[1] = v
      OBVIOUS
    <2> QED BY <1>5, <1>7, <2>1, <2>2 DEF EndOK
  <1>9. Opened(c, id, end)
    BY <1>2, <1>3, <1>5, <1>7 DEF Opened
  <1> QED BY <1>3, <1>5, <1>8, <1>9 DEF EndStep

LEMMA OpenConfirmKind ==
  ASSUME HostTypes, EndsOK, ShownIsEarlier, NEW c \in Chains, OpenConfirm(c)
  PROVE  EndStep
  <1>1. PICK id \in ConnIds, ph \in Heights : ConnOpenConfirm(c, id, ph)
    BY DEF OpenConfirm
  <1>2. PICK old : old = store[c][id]
    OBVIOUS
  <1> DEFINE end == [old EXCEPT !.state = "Open"]
             theirs == [state |-> "Open", client |-> old.cpClient, cpClient |-> old.client,
                        cpConn |-> id, versions |-> old.versions, delay |-> old.delay]
  <1>3. /\ old # None /\ old.state = "TryOpen" /\ UNCHANGED hostVars
        /\ ProvesConnection(c, old.client, ph, old.cpConn, theirs)
        /\ store' = [store EXCEPT ![c][id].state = "Open"]
    BY <1>1, <1>2 DEF ConnOpenConfirm
  <1>4. old \in ConnectionEnd /\ EndOK(c, old)
    BY <1>2, <1>3, StoredEnd DEF EndsOK
  <1>5. Writes(c, id, end)
    BY <1>2, <1>3 DEF HostTypes, Stores, Writes
  <1>6. /\ end \in ConnectionEnd /\ end.state = "Open" /\ end.versions = old.versions
        /\ end.cpConn = old.cpConn /\ end.client = old.client /\ end.cpClient = old.cpClient
        /\ end.delay = old.delay
    BY <1>4 DEF ConnectionEnd
  <1>7. /\ theirs \in ConnectionEnd /\ theirs.state = "Open" /\ theirs.versions = old.versions
        /\ theirs.cpConn = id /\ theirs.client = old.cpClient
        /\ theirs.cpClient = old.client /\ theirs.delay = old.delay
    BY <1>4 DEF ConnectionEnd
  <1> HIDE DEF end, theirs
  <1>8. ASSUME old.client = "peer"
        PROVE  old.cpConn \in ConnIds /\ Matches(end, id, store[Other(c)][old.cpConn])
    <2>1. old.cpClient = "peer" /\ old.cpConn \in ConnIds
      BY <1>3, <1>4, <1>8 DEF EndOK, ProvesConnection
    <2>2. /\ store[Other(c)][old.cpConn] # None
          /\ EarlierEnd(theirs, store[Other(c)][old.cpConn])
      BY <1>3, <1>7, <1>8, <2>1, ProofShows
    <2>3. store[Other(c)][old.cpConn].state \in {"TryOpen", "Open"}
      <3>1. store[Other(c)][old.cpConn].state \in {"Init", "TryOpen", "Open"}
        BY <2>1, <2>2, OtherIsChain, StoredEnd, EndFacts
      <3>2. store[Other(c)][old.cpConn].state # "Init"
        BY <1>7, <2>2, EndFacts DEF EarlierEnd
      <3> QED BY <3>1, <3>2
    <2> QED BY <1>6, <1>7, <1>8, <2>1, <2>2, <2>3, EndFacts DEF EarlierEnd, Matches
  <1>9. EndOK(c, end)
    BY <1>3, <1>4, <1>6 DEF EndOK
  <1>10. Opened(c, id, end)
    BY <1>2, <1>3, <1>6, <1>8 DEF Opened
  <1> QED BY <1>3, <1>5, <1>6, <1>9, <1>10 DEF EndStep

\* Blocks and client updates leave the ends alone; every handler is one of
\* the two kinds.
LEMMA StepKinds ==
  ASSUME HostTypes, EndsOK, IdsInOrder, ShownIsEarlier, Next
  PROVE  EndStep \/ (\E c \in Chains : Produce(c) \/ Update(c))
  BY OpenInitKind, OpenTryKind, OpenAckKind, OpenConfirmKind DEF Next

----------------------------------------------------------------------------
LEMMA EarlierSame == \A end : EarlierEnd(end, end)
  BY DEF EarlierEnd

LEMMA EndWrite ==
  ASSUME HostTypes, NEW c \in Chains, NEW id \in ConnIds, NEW end \in ConnectionEnd,
         Writes(c, id, end)
  PROVE  /\ store' \in [Chains -> Stores]
         /\ store'[c][id] = end
         /\ \A d \in Chains : \A i \in ConnIds :
              d # c \/ i # id => store'[d][i] = store[d][i]
  BY DEF HostTypes, Stores, Writes

\* The written end, or an end that is as it was.
LEMMA EndOrSame ==
  ASSUME HostTypes, EndStep, NEW c \in Chains, NEW i \in ConnIds
  PROVE  \/ store'[c][i] = store[c][i]
         \/ /\ Created(c, i, store'[c][i]) \/ Opened(c, i, store'[c][i])
            /\ EndOK(c, store'[c][i]) /\ store'[c][i] \in ConnectionEnd
  <1>1. PICK d \in Chains, id \in ConnIds, end \in ConnectionEnd :
          /\ Writes(d, id, end) /\ EndOK(d, end)
          /\ Created(d, id, end) \/ Opened(d, id, end)
    BY DEF EndStep
  <1>2. /\ store'[d][id] = end
        /\ d # c \/ i # id => store'[c][i] = store[c][i]
    BY <1>1, EndWrite
  <1> QED BY <1>1, <1>2

\* A step moves every end to a later form of it.
LEMMA EndsMoveOn ==
  ASSUME HostTypes, EndStep, NEW c \in Chains, NEW i \in ConnIds
  PROVE  EarlierEnd(store[c][i], store'[c][i])
  <1>1. PICK new : new = store'[c][i]
    OBVIOUS
  <1>2. CASE new = store[c][i]
    BY <1>1, <1>2, EarlierSame
  <1>3. CASE new # None /\ (Created(c, i, new) \/ Opened(c, i, new))
    BY <1>1, <1>3 DEF EarlierEnd, Created, Opened
  <1> QED BY <1>1, <1>2, <1>3, EndOrSame, EndFacts

LEMMA EndStepTypes ==
  ASSUME HostTypes, EndsOK, IdsInOrder, EndStep
  PROVE  HostTypes' /\ EndsOK' /\ IdsInOrder'
  <1>1. PICK d \in Chains, id \in ConnIds, end \in ConnectionEnd :
          /\ Writes(d, id, end)
          /\ Created(d, id, end) \/ Opened(d, id, end)
    BY DEF EndStep
  <1>2. /\ store' \in [Chains -> Stores]
        /\ store'[d][id] = end
        /\ \A c \in Chains : \A i \in ConnIds :
             d # c \/ i # id => store'[c][i] = store[c][i]
    BY <1>1, EndWrite
  <1>3. HostTypes'
    BY <1>2 DEF HostTypes, EndStep, hostVars
  <1>4. EndsOK'
    <2> SUFFICES ASSUME NEW c \in Chains, NEW i \in ConnIds, store'[c][i] # None
                 PROVE  EndOK(c, store'[c][i])
      BY DEF EndsOK, EndOK, Proposal
    <2> QED BY EndOrSame DEF EndsOK
  <1>5. ASSUME NEW c \in Chains PROVE \E n \in 0..MaxConnections : Ends(c)' = 1..n
    <2>1. PICK n \in 0..MaxConnections : Ends(c) = 1..n
      BY DEF IdsInOrder
    <2>2. end # None
      BY EndFacts
    <2>3. CASE c # d \/ store[d][id] # None
      <3>1. Ends(c)' = Ends(c)
        BY <1>2, <2>2, <2>3 DEF Ends
      <3> QED BY <2>1, <3>1
    <2>4. CASE c = d /\ store[d][id] = None
      <3>1. Ends(c) = 1..(id - 1)
        BY <1>1, <2>4 DEF Created, Opened
      <3>2. Ends(c)' = Ends(c) \union {id}
        BY <1>2, <2>2, <2>4 DEF Ends
      <3>3. id \in 0..MaxConnections /\ id \in Nat
        BY ConnectionsAssumption DEF ConnIds
      <3>4. (1..(id - 1)) \union {id} = 1..id
        BY ConnectionsAssumption DEF ConnIds
      <3> QED BY <3>1, <3>2, <3>3, <3>4
    <2> QED BY <2>3, <2>4
  <1> QED BY <1>3, <1>4, <1>5 DEF IdsInOrder

\* What a root showed is still an earlier form after a step.
LEMMA StillShown ==
  ASSUME HostTypes, EndStep, NEW c \in Chains, NEW root, ShownBy(c, root)
  PROVE  ShownBy(c, root)'
  <1>1. ASSUME NEW i \in ConnIds PROVE EarlierEnd(root.conns[i], store'[c][i])
    <2>1. EarlierEnd(root.conns[i], store[c][i])
      BY DEF ShownBy
    <2>2. EarlierEnd(store[c][i], store'[c][i])
      BY EndsMoveOn
    <2> QED BY <2>1, <2>2 DEF EarlierEnd
  <1> QED BY <1>1 DEF ShownBy

LEMMA EndStepShown ==
  ASSUME HostTypes, ShownIsEarlier, EndStep
  PROVE  ShownIsEarlier'
  <1>1. header' = header /\ client' = client
    BY DEF EndStep, hostVars
  <1>2. ASSUME NEW c \in Chains, NEW h \in 1..Len(header[c])
        PROVE  ShownBy(c, header[c][h].root)'
    <2>1. PICK root : root = header[c][h].root
      OBVIOUS
    <2>2. ShownBy(c, root)
      BY <2>1 DEF ShownIsEarlier
    <2>3. ShownBy(c, root)'
      BY <2>2, StillShown
    <2> QED BY <1>1, <2>1, <2>3
  <1>3. ASSUME NEW c \in Chains, NEW h \in Heights, client[c].cons[h] # None
        PROVE  ShownBy(Other(c), client[c].cons[h].root)'
    <2>1. PICK root : root = client[c].cons[h].root
      OBVIOUS
    <2>2. ShownBy(Other(c), root)
      BY <1>3, <2>1 DEF ShownIsEarlier
    <2>3. ShownBy(Other(c), root)'
      BY <2>2, OtherIsChain, StillShown
    <2> QED BY <1>1, <2>1, <2>3
  <1> QED BY <1>1, <1>2, <1>3 DEF ShownIsEarlier

\* A partner past Init stays one: no handler gives it another counterparty.
LEMMA MatchLasts ==
  ASSUME HostTypes, EndStep, NEW c \in Chains, NEW i \in ConnIds, NEW j \in ConnIds,
         NEW end, Matches(end, i, store[c][j])
  PROVE  Matches(end, i, store'[c][j])
  <1>1. PICK new : new = store'[c][j]
    OBVIOUS
  <1>2. EarlierEnd(store[c][j], new)
    BY <1>1, EndsMoveOn
  <1>3. new \in ConnectionEnd
    BY <1>1, EndOrSame, StoredEnd DEF Matches
  <1>4. Matches(end, i, new)
    BY <1>2, <1>3, EndFacts DEF EarlierEnd, Matches
  <1> QED BY <1>1, <1>4

LEMMA EndStepOpen ==
  ASSUME HostTypes, OpenMatched, EndStep
  PROVE  OpenMatched'
  <1> SUFFICES ASSUME NEW c \in Chains, NEW i \in ConnIds, NEW e, e = store'[c][i],
                      e # None, e.state = "Open", e.client = "peer"
               PROVE  e.cpConn \in ConnIds /\ Matches(e, i, store'[Other(c)][e.cpConn])
    BY DEF OpenMatched
  <1>1. e.cpConn \in ConnIds /\ Matches(e, i, store[Other(c)][e.cpConn])
    <2>1. CASE e = store[c][i]
      BY <2>1 DEF OpenMatched
    <2>2. CASE Opened(c, i, e)
      BY <2>2 DEF Opened
    <2> QED BY <2>1, <2>2, EndOrSame DEF Created
  <1> QED BY <1>1, OtherIsChain, MatchLasts

----------------------------------------------------------------------------
\* What a new block commits to.
LEMMA CommittedShown ==
  ASSUME HostTypes, EndsOK, NEW c \in Chains
  PROVE  Committed(c) \in Root /\ ShownBy(c, Committed(c))
  <1>1. client[c].latest \in Heights /\ client[c].frozen \in BOOLEAN
        /\ StoredHeights(client[c]) \in SUBSET Heights
    BY DEF HostTypes, ClientState, StoredHeights
  <1>2. NoClient \in [latest : Heights, frozen : BOOLEAN, heights : SUBSET Heights]
    BY MaxHeightAssumption DEF NoClient, Heights
  <1>3. PICK now : now = [latest |-> client[c].latest, frozen |-> client[c].frozen,
                          heights |-> StoredHeights(client[c])]
    OBVIOUS
  <1>4. now \in [latest : Heights, frozen : BOOLEAN, heights : SUBSET Heights]
    BY <1>1, <1>3
  <1>5. Committed(c) = [conns |-> store[c],
                        clients |-> [cid \in ClientIds |-> IF cid = "peer" THEN now ELSE NoClient]]
    BY <1>3 DEF Committed
  <1>6. store[c] \in [ConnIds -> ConnectionEnd \union {None}]
    BY DEF HostTypes, Stores
  <1>7. Committed(c) \in Root
    <2>1. [cid \in ClientIds |-> IF cid = "peer" THEN now ELSE NoClient]
            \in [ClientIds -> [latest : Heights, frozen : BOOLEAN, heights : SUBSET Heights]]
      BY <1>2, <1>4
    <2> QED BY <1>5, <1>6, <2>1 DEF Root
  <1>8. /\ Committed(c).conns = store[c]
        /\ \A cid \in ClientIds : cid # "peer" => Committed(c).clients[cid] = NoClient
    BY <1>5
  <1>9. NoClient.heights = {}
    BY DEF NoClient
  <1> QED BY <1>7, <1>8, <1>9, EarlierSame DEF ShownBy, EndsOK

LEMMA ProduceStep ==
  ASSUME HostTypes, EndsOK, ShownIsEarlier, NEW c \in Chains, Produce(c)
  PROVE  HostTypes' /\ ShownIsEarlier'
  <1>1. PICK new : new = [time |-> host_timestamp(c) + 1, root |-> Committed(c)]
    OBVIOUS
  <1>2. /\ client' = client /\ store' = store
        /\ header' = [header EXCEPT ![c] = Append(@, new)]
        /\ host_height(c) < LastHeight[c]
    BY <1>1 DEF Produce
  <1>3. new \in [time : Nat, root : Root] /\ ShownBy(c, new.root)
    <2>1. host_timestamp(c) \in Nat
      BY HostNow
    <2>2. Committed(c) \in Root /\ ShownBy(c, Committed(c))
      BY CommittedShown
    <2> QED BY <1>1, <2>1, <2>2
  <1>4. header[c] \in Seq([time : Nat, root : Root])
        /\ Len(header[c]) \in Nat /\ Len(header[c]) >= 1
    <2>1. header[c] \in Seq([time : Nat, root : Root])
      BY DEF HostTypes
    <2>2. Len(header[c]) \in Heights
      BY DEF HostTypes
    <2> QED BY <2>1, <2>2, MaxHeightAssumption DEF Heights
  <1>5. /\ header'[c] = Append(header[c], new)
        /\ \A d \in Chains : d # c => header'[d] = header[d]
        /\ header' \in [Chains -> Seq([time : Nat, root : Root])]
    <2>1. PICK H : H = [time : Nat, root : Root]
      OBVIOUS
    <2>2. header \in [Chains -> Seq(H)] /\ new \in H /\ header[c] \in Seq(H)
      BY <1>3, <1>4, <2>1 DEF HostTypes
    <2>3. Append(header[c], new) \in Seq(H)
      BY <2>2
    <2>4. header' = [header EXCEPT ![c] = Append(header[c], new)]
      BY <1>2
    <2> QED BY <2>1, <2>2, <2>3, <2>4
  <1>6. /\ Len(header'[c]) = Len(header[c]) + 1
        /\ \A h \in 1..Len(header[c]) : header'[c][h] = header[c][h]
        /\ header'[c][Len(header[c]) + 1] = new
    BY <1>3, <1>4, <1>5
  <1>7. \A d \in Chains : Len(header'[d]) \in Heights
    <2>1. LastHeight[c] \in 2..MaxHeight
      BY LastHeightAssumption
    <2>2. Len(header[c]) + 1 \in Heights
      BY <1>2, <1>4, <2>1, MaxHeightAssumption DEF Heights, host_height
    <2> QED BY <1>5, <1>6, <2>2 DEF HostTypes
  <1>8. HostTypes'
    BY <1>2, <1>5, <1>7 DEF HostTypes
  <1>9. \A d \in Chains : \A root : ShownBy(d, root) => ShownBy(d, root)'
    BY <1>2 DEF ShownBy
  <1>10. ASSUME NEW d \in Chains, NEW h \in 1..Len(header'[d])
         PROVE  ShownBy(d, header[d][h].root)' 
    <2>1. PICK root : root = header'[d][h].root
      OBVIOUS
    <2>2. ShownBy(d, root)
      <3>1. CASE d = c /\ h = Len(header[c]) + 1
        BY <1>3, <1>6, <2>1, <3>1
      <3>2. CASE d # c
        BY <1>5, <2>1, <3>2 DEF ShownIsEarlier
      <3>3. CASE d = c /\ h # Len(header[c]) + 1
        <4>1. h \in 1..Len(header[c])
          BY <1>4, <1>6, <3>3
        <4> QED BY <1>6, <2>1, <3>3, <4>1 DEF ShownIsEarlier
      <3> QED BY <3>1, <3>2, <3>3
    <2>3. ShownBy(d, root)'
      BY <1>9, <2>2
    <2> QED BY <2>1, <2>3
  <1>11. ASSUME NEW d \in Chains, NEW h \in Heights, client'[d].cons[h] # None
         PROVE  ShownBy(Other(d), client[d].cons[h].root)'
    <2>1. PICK root : root = client[d].cons[h].root
      OBVIOUS
    <2>2. ShownBy(Other(d), root)
      BY <1>2, <1>11, <2>1 DEF ShownIsEarlier
    <2>3. ShownBy(Other(d), root)'
      BY <1>9, <2>2, OtherIsChain
    <2> QED BY <1>2, <2>1, <2>3
  <1>12. ShownIsEarlier'
    BY <1>10, <1>11 DEF ShownIsEarlier
  <1> QED BY <1>8, <1>12

\* What an update stores it had, or it is the newest header's.
LEMMA UpdateStores ==
  ASSUME HostTypes, NEW c \in Chains, Update(c)
  PROVE  /\ client' \in [Chains -> ClientState(Root)]
         /\ \A d \in Chains : client'[d].latest \in Heights
         /\ \A d \in Chains : d # c => client'[d] = client[d]
         /\ \A h \in Heights : client'[c].cons[h] # None =>
              \/ client'[c].cons[h] = client[c].cons[h]
              \/ client'[c].cons[h].root = header[Other(c)][Len(header[Other(c)])].root
  <1>1. PICK hdr : hdr = HeaderAt(Other(c), host_height(Other(c)))
    OBVIOUS
  <1>2. PICK now : now = host_timestamp(c)
    OBVIOUS
  <1>3. PICK height : height = host_height(c)
    OBVIOUS
  <1>4. now \in Nat /\ height \in Nat
    BY <1>2, <1>3, HostNow
  <1>5. /\ hdr \in Header(Root) /\ hdr.height \in Heights
        /\ hdr.root = header[Other(c)][Len(header[Other(c)])].root
    <2>1. host_height(Other(c)) \in Heights
          /\ header[Other(c)][Len(header[Other(c)])] \in [time : Nat, root : Root]
      BY OtherIsChain, HostNow
    <2> QED BY <1>1, <2>1 DEF HeaderAt, Header, host_height
  <1>6. PICK cl \in ClientState(Root) : cl = client[c]
    BY DEF HostTypes
  <1>7. client' = [client EXCEPT ![c] = ExecuteUpdate(cl, hdr, height, now)]
    BY <1>1, <1>2, <1>3, <1>6 DEF Update, UpdateClient
  <1>8. PICK u : u = ExecuteUpdate(cl, hdr, height, now)
    OBVIOUS
  <1>9. u \in ClientState(Root)
        /\ \A h \in Heights : u.cons[h] # None =>
             u.cons[h] = cl.cons[h] \/ u.cons[h].root = hdr.root
    <2>1. CASE u = update_on_misbehaviour(cl)
      BY <2>1 DEF update_on_misbehaviour, ClientState
    <2>2. CASE u = update_state(cl, hdr, height, now)
      <3>1. u \in ClientState(Root) /\ OldOrNew(cl, hdr, height, now, u)
        BY <1>4, <1>5, <2>2, UpdateStateFacts
      <3> QED BY <3>1 DEF OldOrNew, NewConsensusState
    <2> QED BY <1>8, <2>1, <2>2 DEF ExecuteUpdate
  <1>10. u.latest \in Heights
    <2>1. u.latest \in {cl.latest, hdr.height}
      BY <1>4, <1>5, <1>8, UpdateLatest
    <2> QED BY <1>5, <1>6, <2>1 DEF HostTypes
  <1> QED BY <1>5, <1>6, <1>7, <1>8, <1>9, <1>10 DEF HostTypes

LEMMA UpdateStep ==
  ASSUME HostTypes, ShownIsEarlier, NEW c \in Chains, Update(c)
  PROVE  HostTypes' /\ ShownIsEarlier'
  <1>1. header' = header /\ store' = store
    BY DEF Update, UpdateClient
  <1>2. /\ client' \in [Chains -> ClientState(Root)]
        /\ \A d \in Chains : client'[d].latest \in Heights
        /\ \A d \in Chains : d # c => client'[d] = client[d]
        /\ \A h \in Heights : client'[c].cons[h] # None =>
             \/ client'[c].cons[h] = client[c].cons[h]
             \/ client'[c].cons[h].root = header[Other(c)][Len(header[Other(c)])].root
    BY UpdateStores
  <1>3. HostTypes'
    BY <1>1, <1>2 DEF HostTypes
  <1>4. \A d \in Chains : \A root : ShownBy(d, root) => ShownBy(d, root)'
    BY <1>1 DEF ShownBy
  <1>5. ASSUME NEW d \in Chains, NEW h \in Heights, client'[d].cons[h] # None
        PROVE  ShownBy(Other(d), client[d].cons[h].root)'
    <2>1. PICK root : root = client'[d].cons[h].root
      OBVIOUS
    <2>2. ShownBy(Other(d), root)
      <3>1. CASE client'[d].cons[h] = client[d].cons[h]
        BY <1>5, <2>1, <3>1 DEF ShownIsEarlier
      <3>2. CASE d = c /\ root = header[Other(c)][Len(header[Other(c)])].root
        <4>1. Len(header[Other(c)]) \in 1..Len(header[Other(c)])
          BY OtherIsChain DEF HostTypes, Heights
        <4> QED BY <3>2, <4>1, OtherIsChain DEF ShownIsEarlier
      <3> QED BY <1>2, <1>5, <2>1, <3>1, <3>2
    <2>3. ShownBy(Other(d), root)'
      BY <1>4, <2>2, OtherIsChain
    <2> QED BY <2>1, <2>3
  <1>6. ASSUME NEW d \in Chains, NEW h \in 1..Len(header[d])
        PROVE  ShownBy(d, header[d][h].root)'
    <2>1. PICK root : root = header[d][h].root
      OBVIOUS
    <2>2. ShownBy(d, root)'
      BY <1>4, <2>1 DEF ShownIsEarlier
    <2> QED BY <1>1, <2>1, <2>2
  <1>7. ShownIsEarlier'
    BY <1>1, <1>5, <1>6 DEF ShownIsEarlier
  <1> QED BY <1>3, <1>7

----------------------------------------------------------------------------
\* The roots of the first two headers, by what they show of the client.
FirstRoot(view) ==
  [conns |-> [i \in ConnIds |-> None],
   clients |-> [cid \in ClientIds |-> IF cid = "peer" THEN view ELSE NoClient]]

LEMMA FirstRootShown ==
  ASSUME Init, NEW c \in Chains,
         NEW view \in [latest : Heights, frozen : BOOLEAN, heights : SUBSET Heights]
  PROVE  FirstRoot(view) \in Root /\ ShownBy(c, FirstRoot(view))
  <1>1. NoClient \in [latest : Heights, frozen : BOOLEAN, heights : SUBSET Heights]
        /\ NoClient.heights = {}
    BY MaxHeightAssumption DEF NoClient, Heights
  <1>2. [cid \in ClientIds |-> IF cid = "peer" THEN view ELSE NoClient]
          \in [ClientIds -> [latest : Heights, frozen : BOOLEAN, heights : SUBSET Heights]]
    BY <1>1
  <1>3. FirstRoot(view) \in Root
    BY <1>2 DEF FirstRoot, Root
  <1>4. /\ \A i \in ConnIds : FirstRoot(view).conns[i] = None
        /\ \A cid \in ClientIds : cid # "peer" => FirstRoot(view).clients[cid] = NoClient
    BY DEF FirstRoot
  <1> QED BY <1>1, <1>3, <1>4 DEF ShownBy, EarlierEnd

LEMMA InitHost ==
  ASSUME Init
  PROVE  HostTypes /\ ShownIsEarlier
  <1> DEFINE View == [latest : Heights, frozen : BOOLEAN, heights : SUBSET Heights]
             H == [time : Nat, root : Root]
  <1>1. 1 \in Heights /\ 2 \in Heights
    <2>1. ChainA \in Chains
      BY DEF Chains
    <2>2. LastHeight[ChainA] \in 2..MaxHeight
      BY <2>1, LastHeightAssumption
    <2> QED BY <2>2, MaxHeightAssumption DEF Heights
  <1>2. PICK created : created = [NoClient EXCEPT !.heights = {1}]
    OBVIOUS
  <1>3. NoClient \in View /\ created \in View
    BY <1>1, <1>2 DEF NoClient
  <1>4. PICK b1 : b1 = [time |-> 1, root |-> FirstRoot(NoClient)]
    OBVIOUS
  <1>5. PICK b2 : b2 = [time |-> 2, root |-> FirstRoot(created)]
    OBVIOUS
  <1>6. header = [c \in Chains |-> <<b1, b2>>]
    BY <1>2, <1>4, <1>5 DEF Init, FirstRoot
  <1>7. b1 \in H /\ b2 \in H /\ \A c \in Chains : ShownBy(c, b1.root) /\ ShownBy(c, b2.root)
    <2>1. ASSUME NEW c \in Chains
          PROVE  /\ FirstRoot(NoClient) \in Root /\ ShownBy(c, FirstRoot(NoClient))
                 /\ FirstRoot(created) \in Root /\ ShownBy(c, FirstRoot(created))
      BY <1>3, FirstRootShown
    <2>2. FirstRoot(NoClient) \in Root /\ FirstRoot(created) \in Root
      BY <2>1 DEF Chains
    <2> QED BY <1>4, <1>5, <2>1, <2>2
  <1> HIDE DEF H
  <1>8. /\ \A c \in Chains : Len(header[c]) = 2 /\ header[c][1] = b1 /\ header[c][2] = b2
        /\ header \in [Chains -> Seq(H)]
    BY <1>6, <1>7
  <1>9. store \in [Chains -> Stores]
    BY DEF Init, Stores
  <1>10. ASSUME NEW c \in Chains
         PROVE  /\ client[c] \in ClientState(Root) /\ client[c].latest = 1
                /\ \A h \in Heights : client[c].cons[h] # None =>
                     client[c].cons[h].root = b1.root
    <2>1. PICK first : first = [height |-> 1, time |-> 1, root |-> b1.root]
      OBVIOUS
    <2>2. client[c] = initialise(first, 1, 1)
      BY <1>4, <2>1 DEF Init, FirstRoot
    <2>3. first.root \in Root /\ first.time \in Nat /\ first.height = 1 /\ first.root = b1.root
      BY <1>7, <2>1 DEF H
    <2>4. PICK cs : cs = NewConsensusState(first, 1, 1)
      OBVIOUS
    <2>5. cs \in ConsensusState(Root) /\ cs.root = b1.root
      BY <2>3, <2>4 DEF NewConsensusState, ConsensusState
    <2>6. client[c] = [latest |-> 1, frozen |-> FALSE,
                       cons |-> [h \in Heights |-> IF h = 1 THEN cs ELSE None]]
      BY <2>2, <2>3, <2>4 DEF initialise
    <2> QED BY <2>5, <2>6 DEF ClientState
  <1>11. client \in [Chains -> ClientState(Root)]
    <2>1. client = [c \in Chains |-> client[c]]
      BY DEF Init
    <2> QED BY <1>10, <2>1
  <1>12. HostTypes
    BY <1>1, <1>8, <1>9, <1>10, <1>11 DEF HostTypes, H
  <1>13. ASSUME NEW c \in Chains, NEW h \in 1..Len(header[c])
         PROVE  ShownBy(c, header[c][h].root)
    <2>1. h = 1 \/ h = 2
      <3>1. PICK n : n = Len(header[c])
        OBVIOUS
      <3>2. n = 2 /\ h \in 1..n
        BY <1>8, <3>1
      <3> QED BY <3>2
    <2> QED BY <1>7, <1>8, <2>1
  <1>14. ASSUME NEW c \in Chains, NEW h \in Heights, client[c].cons[h] # None
         PROVE  ShownBy(Other(c), client[c].cons[h].root)
    BY <1>7, <1>10, <1>14, OtherIsChain
  <1> QED BY <1>12, <1>13, <1>14 DEF ShownIsEarlier

LEMMA InitConn == Init => ConnInv
  <1> SUFFICES ASSUME Init PROVE ConnInv
    OBVIOUS
  <1>1. \A c \in Chains : \A i \in ConnIds : store[c][i] = None
    BY DEF Init
  <1>2. IdsInOrder
    <2>1. \A c \in Chains : Ends(c) = 1..0
      BY <1>1 DEF Ends
    <2>2. 0 \in 0..MaxConnections
      BY ConnectionsAssumption
    <2> QED BY <2>1, <2>2 DEF IdsInOrder
  <1>3. EndsOK /\ OpenMatched
    BY <1>1 DEF EndsOK, OpenMatched
  <1> QED BY <1>2, <1>3, InitHost DEF ConnInv

LEMMA NextConn ==
  ASSUME ConnInv, [Next]_vars
  PROVE  ConnInv'
  <1>1. CASE EndStep
    BY <1>1, EndStepTypes, EndStepShown, EndStepOpen DEF ConnInv
  <1>2. ASSUME store' = store
        PROVE  EndsOK' /\ IdsInOrder' /\ OpenMatched'
    <2>1. EndsOK'
      BY <1>2 DEF ConnInv, EndsOK, EndOK, Proposal
    <2>2. IdsInOrder' /\ OpenMatched'
      BY <1>2 DEF ConnInv, IdsInOrder, Ends, OpenMatched
    <2> QED BY <2>1, <2>2
  <1>3. ASSUME NEW c \in Chains, Produce(c) PROVE ConnInv'
    <2>1. store' = store
      BY <1>3 DEF Produce
    <2> QED BY <1>2, <1>3, <2>1, ProduceStep DEF ConnInv
  <1>4. ASSUME NEW c \in Chains, Update(c) PROVE ConnInv'
    <2>1. store' = store
      BY <1>4 DEF Update, UpdateClient
    <2> QED BY <1>2, <1>4, <2>1, UpdateStep DEF ConnInv
  <1>5. CASE UNCHANGED vars
    <2>1. store' = store /\ header' = header /\ client' = client
      BY <1>5 DEF vars
    <2>2. HostTypes' /\ ShownIsEarlier'
      BY <2>1 DEF ConnInv, HostTypes, ShownIsEarlier, ShownBy
    <2> QED BY <1>2, <2>1, <2>2 DEF ConnInv
  <1> QED BY <1>1, <1>3, <1>4, <1>5, StepKinds DEF ConnInv

LEMMA ConnInvariant == Spec => []ConnInv
  BY InitConn, NextConn, PTL DEF Spec

----------------------------------------------------------------------------
\* Every end in a store is well formed: it knows its counterparty connection
\* exactly when it is past Init, and has one version from then on.
THEOREM ConnectionTypeCorrect == Spec => []TypeOK
  <1>1. ConnInv => TypeOK
    BY StoredEnd DEF ConnInv, HostTypes, EndsOK, EndOK, TypeOK
  <1> QED BY <1>1, ConnInvariant, PTL

\* An end that conn_open_ack or conn_open_confirm opened through the client of
\* the peer has a partner that names it back through its client of this chain,
\* with the same version and delay: a client of a third chain never gets in.
THEOREM OpenConnectionsAgree == Spec => []OpenEndsAgree
  <1>1. ConnInv => OpenEndsAgree
    BY DEF ConnInv, OpenMatched, Matches, OpenEndsAgree, Ends
  <1> QED BY <1>1, ConnInvariant, PTL

\* The version that pick_version settled is supported by both chains.
THEOREM VersionSpokenByBoth == Spec => []SpokenByBoth
  <1>1. ConnInv => SpokenByBoth
    BY DEF ConnInv, EndsOK, EndOK, SpokenByBoth, Ends
  <1> QED BY <1>1, ConnInvariant, PTL

============================================================================

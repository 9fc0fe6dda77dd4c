------------------------ MODULE ChanHandshakeProofs ------------------------
(***************************************************************************)
(* Proofs about ChanHandshake, for every number of channels, connections,  *)
(* ports and blocks, and every application.                                *)
(*                                                                         *)
(* A handler sees the other chain's ends as some earlier header showed     *)
(* them.  What makes that enough is EarlierEnd: between the header and     *)
(* today an end may have moved on, but it keeps its ports, order and       *)
(* connection, keeps its partner and version once it is past Init, and     *)
(* stays closed once it is.  The inductive invariant ChanInv says this of  *)
(* every header and of every consensus state.                              *)
(***************************************************************************)
EXTENDS ChanHandshake, TmClientStateProofs, SequenceTheorems, FiniteSetTheorems

LEMMA OtherIsChain ==
  \A c \in Chains : Other(c) \in Chains /\ Other(c) # c /\ Other(Other(c)) = c
  BY ChainsAssumption DEF Chains, Other

Stores == [ChanIds -> ChannelEnd \union {None}]

HostTypes ==
  /\ store \in [Chains -> Stores]
  /\ header \in [Chains -> Seq([time : Nat, root : Stores])]
  /\ \A c \in Chains : Len(header[c]) \in Heights
  /\ client \in [Chains -> ClientState(Stores)]

KnowsPartner ==
  \A c \in Chains : \A i \in ChanIds :
    store[c][i] # None => (store[c][i].state = "Init" <=> store[c][i].cpChan = 0)

\* channel_counter has given out the first identifiers.
IdsInOrder == \A c \in Chains : \E n \in 0..MaxChannels : Ends(c) = 1..n

\* A channel end was once old and is new today.
EarlierEnd(old, new) ==
  old # None =>
    /\ new # None
    /\ new.port = old.port /\ new.cpPort = old.cpPort
    /\ new.ordering = old.ordering /\ new.conn = old.conn
    /\ old.state # "Init" =>
         new.state # "Init" /\ new.cpChan = old.cpChan /\ new.version = old.version
    /\ old.state = "Closed" => new.state = "Closed"

ProvenIsEarlier ==
  /\ \A c \in Chains : \A h \in 1..Len(header[c]) : \A i \in ChanIds :
       EarlierEnd(header[c][h].root[i], store[c][i])
  /\ \A c \in Chains : \A h \in Heights : \A i \in ChanIds :
       client[c].cons[h] # None =>
         EarlierEnd(client[c].cons[h].root[i], store[Other(c)][i])

\* Other is the end that names end, stored under i, as its counterparty.
Matches(end, i, other) ==
  /\ other # None /\ other.cpChan = i
  /\ end.port = other.cpPort /\ end.cpPort = other.port
  /\ end.ordering = other.ordering /\ end.conn = other.conn
  /\ end.version = other.version

HasPartner(c, i) ==
  LET j == store[c][i].cpChan IN
  j \in ChanIds /\ Matches(store[c][i], i, store[Other(c)][j])

\* OpenEndsAgree and ClosedWithPartner, end by end.
OpenMatched ==
  \A c \in Chains : \A i \in ChanIds :
    store[c][i] # None /\ store[c][i].state = "Open" => HasPartner(c, i)

ClosedMatched ==
  \A c \in Chains : \A i \in ChanIds :
    store[c][i] # None /\ store[c][i].state = "Closed" /\ c \notin Closers =>
      HasPartner(c, i) /\ store[Other(c)][store[c][i].cpChan].state = "Closed"

ChanInv ==
  /\ HostTypes
  /\ KnowsPartner
  /\ IdsInOrder
  /\ ProvenIsEarlier
  /\ OpenMatched
  /\ ClosedMatched

----------------------------------------------------------------------------
\* The kinds of steps: one end is created, opened or closed, or none.

Created(c, id, end) ==
  /\ store[c][id] = None
  /\ Ends(c) = 1..(id - 1)
  /\ end.state \in {"Init", "TryOpen"}
  /\ end.state = "Init" <=> end.cpChan = 0

SameChannel(old, end) ==
  /\ end.port = old.port /\ end.cpPort = old.cpPort
  /\ end.ordering = old.ordering /\ end.conn = old.conn

Opened(c, id, end) ==
  LET old == store[c][id] IN
  /\ old # None /\ old.state \in {"Init", "TryOpen"}
  /\ end.state = "Open" /\ SameChannel(old, end)
  /\ old.state = "TryOpen" => end.cpChan = old.cpChan /\ end.version = old.version
  /\ end.cpChan \in ChanIds /\ Matches(end, id, store[Other(c)][end.cpChan])

Closed(c, id, end) ==
  LET old == store[c][id] IN
  /\ old # None /\ old.state \in {"TryOpen", "Open"}
  /\ end.state = "Closed" /\ SameChannel(old, end)
  /\ end.cpChan = old.cpChan /\ end.version = old.version /\ end.cpChan # 0
  /\ c \notin Closers =>
       /\ end.cpChan \in ChanIds /\ Matches(end, id, store[Other(c)][end.cpChan])
       /\ store[Other(c)][end.cpChan].state = "Closed"

Writes(c, id, end) == store' = [store EXCEPT ![c][id] = end]

EndStep ==
  /\ UNCHANGED hostVars
  /\ \E c \in Chains, id \in ChanIds, end \in ChannelEnd :
       /\ Writes(c, id, end)
       /\ Created(c, id, end) \/ Opened(c, id, end) \/ Closed(c, id, end)

LEMMA EndFacts ==
  ASSUME NEW end \in ChannelEnd
  PROVE  end # None /\ end.cpChan \in ChanIds \union {0}
         /\ end.state \in {"Init", "TryOpen", "Open", "Closed"}
  BY NoneAssumption DEF ChannelEnd

LEMMA StoredEnd ==
  ASSUME HostTypes, NEW c \in Chains, NEW i \in ChanIds, store[c][i] # None
  PROVE  store[c][i] \in ChannelEnd
  BY DEF HostTypes, Stores

LEMMA HostNow ==
  ASSUME HostTypes, NEW c \in Chains
  PROVE  host_timestamp(c) \in Nat /\ host_height(c) \in Nat /\ host_height(c) \in Heights
         /\ header[c][Len(header[c])] \in [time : Nat, root : Stores]
  <1>1. Len(header[c]) \in 1..Len(header[c]) /\ Len(header[c]) \in Nat
    BY DEF HostTypes, Heights
  <1>2. header[c] \in Seq([time : Nat, root : Stores])
    BY DEF HostTypes
  <1>3. header[c][Len(header[c])] \in [time : Nat, root : Stores]
    BY <1>1, <1>2, ElementOfSeq
  <1> QED BY <1>1, <1>3 DEF host_timestamp, host_height, HostTypes

\* What a proof shows is an end the other chain had, and its later form now.
LEMMA ProofShows ==
  ASSUME HostTypes, ProvenIsEarlier, NEW c \in Chains, NEW ph \in Heights,
         NEW id \in ChanIds, NEW chan, ProvesChannel(c, ph, id, chan)
  PROVE  EarlierEnd(chan, store[Other(c)][id]) /\ chan \in ChannelEnd \union {None}
  <1>1. client[c].cons[ph] # None /\ client[c].cons[ph].root[id] = chan
    BY DEF ProvesChannel, CanVerifyAt, HasProofHeight, StoredHeights, ProvenStore
  <1>2. client[c].cons[ph].root \in Stores
    BY <1>1 DEF HostTypes, ClientState, ConsensusState
  <1> QED BY <1>1, <1>2 DEF ProvenIsEarlier, Stores

\* So the counterparty a handler had proven matches today.
LEMMA ProvenMatches ==
  ASSUME HostTypes, ProvenIsEarlier, NEW c \in Chains, NEW ph \in Heights,
         NEW id \in ChanIds, NEW cpChan \in ChanIds, NEW end \in ChannelEnd,
         NEW state \in {"TryOpen", "Open", "Closed"},
         ProvesChannel(c, ph, cpChan, Expected(end, state, id, end.version))
  PROVE  /\ Matches(end, id, store[Other(c)][cpChan])
         /\ state = "Closed" => store[Other(c)][cpChan].state = "Closed"
  <1> DEFINE chan == Expected(end, state, id, end.version)
  <1>1. EarlierEnd(chan, store[Other(c)][cpChan])
    BY ProofShows
  <1>2. chan \in ChannelEnd
    BY DEF Expected, ChannelEnd
  <1>3. chan # None
    BY <1>2, NoneAssumption
  <1> QED BY <1>1, <1>3 DEF EarlierEnd, Expected, Matches

LEMMA CreateKind ==
  ASSUME HostTypes, IdsInOrder, NEW c \in Chains, NEW end \in ChannelEnd,
         AddChannel(c, end), end.state \in {"Init", "TryOpen"},
         end.state = "Init" <=> end.cpChan = 0
  PROVE  EndStep
  <1>1. PICK n \in 0..MaxChannels : Ends(c) = 1..n
    BY DEF IdsInOrder
  <1>2. n \in Nat /\ NextChanId(c) = n + 1
    <2>1. n \in Nat
      BY ChannelsAssumption
    <2>2. Cardinality(1..n) = n
      BY <2>1, FS_Interval
    <2> QED BY <1>1, <2>1, <2>2 DEF NextChanId, Ends
  <1>3. n + 1 \in ChanIds /\ n + 1 \notin Ends(c) /\ Ends(c) = 1..((n + 1) - 1)
    BY <1>1, <1>2 DEF AddChannel
  <1>4. Created(c, n + 1, end)
    BY <1>3 DEF Created, Ends
  <1> QED BY <1>2, <1>3, <1>4 DEF AddChannel, EndStep, Writes

LEMMA OpenInitKind ==
  ASSUME HostTypes, IdsInOrder, NEW c \in Chains, OpenInit(c)
  PROVE  EndStep
  <1>1. PICK conn \in Conns, port \in Ports, cpPort \in Ports, order \in Orders, v \in Versions :
          ChanOpenInit(c, conn, port, cpPort, order, v)
    BY DEF OpenInit
  <1> DEFINE end == [state |-> "Init", ordering |-> order, port |-> port,
                     cpPort |-> cpPort, cpChan |-> 0, conn |-> conn, version |-> v]
  <1>2. end \in ChannelEnd /\ end.state = "Init" /\ end.cpChan = 0
    BY DEF ChannelEnd
  <1>3. AddChannel(c, end)
    BY <1>1 DEF ChanOpenInit
  <1> HIDE DEF end
  <1> QED BY <1>2, <1>3, CreateKind

LEMMA OpenTryKind ==
  ASSUME HostTypes, IdsInOrder, NEW c \in Chains, OpenTry(c)
  PROVE  EndStep
  <1>1. PICK conn \in Conns, port \in Ports, cpPort \in Ports, cpChan \in ChanIds,
             order \in Orders, v \in Versions, ph \in Heights :
          ChanOpenTry(c, conn, port, cpPort, cpChan, order, v, ph)
    BY DEF OpenTry
  <1> DEFINE end == [state |-> "TryOpen", ordering |-> order, port |-> port,
                     cpPort |-> cpPort, cpChan |-> cpChan, conn |-> conn,
                     version |-> TryVersion[<<order, v>>]]
  <1>2. AddChannel(c, end) /\ TryVersion[<<order, v>>] # None
    BY <1>1 DEF ChanOpenTry
  <1>3. TryVersion[<<order, v>>] \in Versions
    BY <1>2, CallbacksAssumption
  <1>4. end \in ChannelEnd /\ end.state = "TryOpen" /\ end.cpChan # 0
    BY <1>3 DEF ChannelEnd, ChanIds
  <1> HIDE DEF end
  <1> QED BY <1>2, <1>4, CreateKind

LEMMA OpenAckKind ==
  ASSUME HostTypes, ProvenIsEarlier, NEW c \in Chains, OpenAck(c)
  PROVE  EndStep
  <1>1. PICK id \in ChanIds, cpChan \in ChanIds, v \in Versions, ph \in Heights :
          ChanOpenAck(c, id, cpChan, v, ph)
    BY DEF OpenAck
  <1> DEFINE old == store[c][id]
             end == [old EXCEPT !.state = "Open", !.version = v, !.cpChan = cpChan]
  <1>2. /\ old # None /\ old.state = "Init" /\ UNCHANGED hostVars
        /\ ProvesChannel(c, ph, cpChan, Expected(old, "TryOpen", id, v))
        /\ Writes(c, id, end)
    BY <1>1 DEF ChanOpenAck, Writes
  <1>3. old \in ChannelEnd
    BY <1>2, StoredEnd
  <1>4. end \in ChannelEnd /\ end.state = "Open" /\ end.version = v /\ end.cpChan = cpChan
        /\ SameChannel(old, end)
    BY <1>3 DEF ChannelEnd, SameChannel
  <1>5. Expected(old, "TryOpen", id, v) = Expected(end, "TryOpen", id, v)
    BY <1>4 DEF Expected, SameChannel
  <1> HIDE DEF end
  <1>6. Matches(end, id, store[Other(c)][cpChan])
    BY <1>2, <1>4, <1>5, ProvenMatches
  <1>7. Opened(c, id, end)
    BY <1>2, <1>4, <1>6 DEF Opened
  <1> QED BY <1>2, <1>4, <1>7 DEF EndStep

\* Setting the state of an end changes nothing else.
LEMMA StateChange ==
  ASSUME HostTypes, NEW c \in Chains, NEW id \in ChanIds, store[c][id] # None,
         NEW s \in {"Open", "Closed"}, store' = [store EXCEPT ![c][id].state = s]
  PROVE  \E end \in ChannelEnd :
           /\ Writes(c, id, end)
           /\ end.state = s /\ SameChannel(store[c][id], end)
           /\ end.cpChan = store[c][id].cpChan /\ end.version = store[c][id].version
  <1> DEFINE end == [store[c][id] EXCEPT !.state = s]
  <1>1. store[c][id] \in ChannelEnd
    BY StoredEnd
  <1>2. end \in ChannelEnd /\ end.state = s /\ SameChannel(store[c][id], end)
        /\ end.cpChan = store[c][id].cpChan /\ end.version = store[c][id].version
    BY <1>1 DEF ChannelEnd, SameChannel
  <1>3. Writes(c, id, end)
    BY DEF HostTypes, Stores, Writes
  <1> QED BY <1>2, <1>3

LEMMA OpenConfirmKind ==
  ASSUME HostTypes, KnowsPartner, ProvenIsEarlier, NEW c \in Chains, OpenConfirm(c)
  PROVE  EndStep
  <1>1. PICK id \in ChanIds, ph \in Heights : ChanOpenConfirm(c, id, ph)
    BY DEF OpenConfirm
  <1> DEFINE old == store[c][id]
  <1>2. /\ old # None /\ old.state = "TryOpen" /\ UNCHANGED hostVars
        /\ ProvesChannel(c, ph, old.cpChan, Expected(old, "Open", id, old.version))
        /\ store' = [store EXCEPT ![c][id].state = "Open"]
    BY <1>1 DEF ChanOpenConfirm
  <1>3. old \in ChannelEnd
    BY <1>2, StoredEnd
  <1>4. old.cpChan \in ChanIds
    BY <1>2 DEF ProvesChannel
  <1>5. PICK end \in ChannelEnd :
           /\ Writes(c, id, end)
           /\ end.state = "Open" /\ SameChannel(old, end)
           /\ end.cpChan = old.cpChan /\ end.version = old.version
    BY <1>2, StateChange
  <1>6. Matches(old, id, store[Other(c)][old.cpChan])
    BY <1>2, <1>3, <1>4, ProvenMatches
  <1>7. Matches(end, id, store[Other(c)][end.cpChan])
    BY <1>5, <1>6 DEF Matches, SameChannel
  <1>8. Opened(c, id, end)
    BY <1>2, <1>4, <1>5, <1>7 DEF Opened
  <1> QED BY <1>2, <1>5, <1>8 DEF EndStep

LEMMA CloseInitKind ==
  ASSUME HostTypes, KnowsPartner, NEW c \in Chains, CloseInit(c)
  PROVE  EndStep
  <1>1. PICK id \in ChanIds : ChanCloseInit(c, id)
    BY DEF CloseInit
  <1> DEFINE old == store[c][id]
  <1>2. /\ old # None /\ old.state # "Closed" /\ UNCHANGED hostVars /\ c \in Closers
        /\ old.cpChan # 0 /\ store' = [store EXCEPT ![c][id].state = "Closed"]
    BY <1>1 DEF ChanCloseInit
  <1>3. old.state \in {"TryOpen", "Open"}
    BY <1>2, StoredEnd, EndFacts DEF KnowsPartner
  <1>4. PICK end \in ChannelEnd :
           /\ Writes(c, id, end)
           /\ end.state = "Closed" /\ SameChannel(old, end)
           /\ end.cpChan = old.cpChan /\ end.version = old.version
    BY <1>2, StateChange
  <1>5. Closed(c, id, end)
    BY <1>2, <1>3, <1>4 DEF Closed
  <1> QED BY <1>2, <1>4, <1>5 DEF EndStep

LEMMA CloseConfirmKind ==
  ASSUME HostTypes, KnowsPartner, ProvenIsEarlier, NEW c \in Chains, CloseConfirm(c)
  PROVE  EndStep
  <1>1. PICK id \in ChanIds, ph \in Heights : ChanCloseConfirm(c, id, ph)
    BY DEF CloseConfirm
  <1> DEFINE old == store[c][id]
  <1>2. /\ old # None /\ old.state # "Closed" /\ UNCHANGED hostVars /\ old.cpChan # 0
        /\ ProvesChannel(c, ph, old.cpChan, Expected(old, "Closed", id, old.version))
        /\ store' = [store EXCEPT ![c][id].state = "Closed"]
    BY <1>1 DEF ChanCloseConfirm
  <1>3. old \in ChannelEnd /\ old.state \in {"TryOpen", "Open"}
    BY <1>2, StoredEnd, EndFacts DEF KnowsPartner
  <1>4. old.cpChan \in ChanIds
    BY <1>2 DEF ProvesChannel
  <1>5. PICK end \in ChannelEnd :
           /\ Writes(c, id, end)
           /\ end.state = "Closed" /\ SameChannel(old, end)
           /\ end.cpChan = old.cpChan /\ end.version = old.version
    BY <1>2, StateChange
  <1>6. Matches(old, id, store[Other(c)][old.cpChan])
        /\ store[Other(c)][old.cpChan].state = "Closed"
    BY <1>2, <1>3, <1>4, ProvenMatches
  <1>7. Matches(end, id, store[Other(c)][end.cpChan])
        /\ store[Other(c)][end.cpChan].state = "Closed"
    BY <1>5, <1>6 DEF Matches, SameChannel
  <1>8. Closed(c, id, end)
    BY <1>2, <1>3, <1>4, <1>5, <1>7 DEF Closed
  <1> QED BY <1>2, <1>5, <1>8 DEF EndStep

\* Blocks and client updates leave the ends alone; every handler is one of
\* the three kinds.
LEMMA StepKinds ==
  ASSUME HostTypes, KnowsPartner, IdsInOrder, ProvenIsEarlier, Next
  PROVE  EndStep \/ (\E c \in Chains : Produce(c) \/ Update(c))
  BY OpenInitKind, OpenTryKind, OpenAckKind, OpenConfirmKind, CloseInitKind,
     CloseConfirmKind DEF Next

----------------------------------------------------------------------------
LEMMA EarlierSame == \A end : EarlierEnd(end, end)
  BY DEF EarlierEnd

LEMMA EarlierTransitive ==
  ASSUME NEW a, NEW b, NEW d, EarlierEnd(a, b), EarlierEnd(b, d)
  PROVE  EarlierEnd(a, d)
  BY DEF EarlierEnd

LEMMA EndWrite ==
  ASSUME HostTypes, NEW c \in Chains, NEW id \in ChanIds, NEW end \in ChannelEnd,
         Writes(c, id, end)
  PROVE  /\ store' \in [Chains -> Stores]
         /\ store'[c][id] = end
         /\ \A d \in Chains : \A i \in ChanIds :
              d # c \/ i # id => store'[d][i] = store[d][i]
  BY DEF HostTypes, Stores, Writes

\* A step moves every end to a later form of it.
LEMMA EndsMoveOn ==
  ASSUME HostTypes, EndStep, NEW c \in Chains, NEW i \in ChanIds
  PROVE  EarlierEnd(store[c][i], store'[c][i])
  <1>1. PICK d \in Chains, id \in ChanIds, end \in ChannelEnd :
          /\ Writes(d, id, end)
          /\ Created(d, id, end) \/ Opened(d, id, end) \/ Closed(d, id, end)
    BY DEF EndStep
  <1>2. /\ store'[d][id] = end
        /\ d # c \/ i # id => store'[c][i] = store[c][i]
    BY <1>1, EndWrite
  <1>3. end # None
    BY EndFacts
  <1>4. EarlierEnd(store[d][id], end)
    BY <1>1, <1>3 DEF EarlierEnd, Created, Opened, Closed, SameChannel
  <1> QED BY <1>2, <1>4, EarlierSame

LEMMA EndStepTypes ==
  ASSUME HostTypes, KnowsPartner, IdsInOrder, EndStep
  PROVE  HostTypes' /\ KnowsPartner' /\ IdsInOrder'
  <1>1. PICK d \in Chains, id \in ChanIds, end \in ChannelEnd :
          /\ Writes(d, id, end)
          /\ Created(d, id, end) \/ Opened(d, id, end) \/ Closed(d, id, end)
    BY DEF EndStep
  <1>2. /\ store' \in [Chains -> Stores]
        /\ store'[d][id] = end
        /\ \A c \in Chains : \A i \in ChanIds :
             d # c \/ i # id => store'[c][i] = store[c][i]
    BY <1>1, EndWrite
  <1>3. HostTypes'
    BY <1>2 DEF HostTypes, EndStep, hostVars
  <1>4. end.state = "Init" <=> end.cpChan = 0
    <2>1. 0 \notin ChanIds
      BY DEF ChanIds
    <2> QED BY <1>1, <2>1 DEF Created, Opened, Closed
  <1>5. KnowsPartner'
    BY <1>2, <1>4 DEF KnowsPartner
  <1>6. ASSUME NEW c \in Chains PROVE \E n \in 0..MaxChannels : Ends(c)' = 1..n
    <2>1. PICK n \in 0..MaxChannels : Ends(c) = 1..n
      BY DEF IdsInOrder
    <2>2. end # None
      BY EndFacts
    <2>3. CASE c # d \/ store[d][id] # None
      <3>1. Ends(c)' = Ends(c)
        BY <1>2, <2>2, <2>3 DEF Ends
      <3> QED BY <2>1, <3>1
    <2>4. CASE c = d /\ store[d][id] = None
      <3>1. Ends(c) = 1..(id - 1)
        BY <1>1, <2>4 DEF Created, Opened, Closed
      <3>2. Ends(c)' = Ends(c) \union {id}
        BY <1>2, <2>2, <2>4 DEF Ends
      <3>3. id \in 0..MaxChannels /\ id \in Nat
        BY ChannelsAssumption DEF ChanIds
      <3>4. (1..(id - 1)) \union {id} = 1..id
        BY ChannelsAssumption DEF ChanIds
      <3> QED BY <3>1, <3>2, <3>3, <3>4
    <2> QED BY <2>3, <2>4
  <1> QED BY <1>3, <1>5, <1>6 DEF IdsInOrder

LEMMA EndStepProven ==
  ASSUME HostTypes, ProvenIsEarlier, EndStep
  PROVE  ProvenIsEarlier'
  <1>1. header' = header /\ client' = client
    BY DEF EndStep, hostVars
  <1>2. ASSUME NEW c \in Chains, NEW h \in 1..Len(header[c]), NEW i \in ChanIds
        PROVE  EarlierEnd(header[c][h].root[i], store'[c][i])
    <2>1. EarlierEnd(header[c][h].root[i], store[c][i])
      BY DEF ProvenIsEarlier
    <2>2. EarlierEnd(store[c][i], store'[c][i])
      BY EndsMoveOn
    <2> QED BY <2>1, <2>2 DEF EarlierEnd
  <1>3. ASSUME NEW c \in Chains, NEW h \in Heights, NEW i \in ChanIds,
               client[c].cons[h] # None
        PROVE  EarlierEnd(client[c].cons[h].root[i], store'[Other(c)][i])
    <2>1. EarlierEnd(client[c].cons[h].root[i], store[Other(c)][i])
      BY <1>3 DEF ProvenIsEarlier
    <2>2. EarlierEnd(store[Other(c)][i], store'[Other(c)][i])
      BY OtherIsChain, EndsMoveOn
    <2> QED BY <2>1, <2>2 DEF EarlierEnd
  <1> QED BY <1>1, <1>2, <1>3 DEF ProvenIsEarlier

\* The two forms of what is said of partners.
LEMMA MatchedMeansAgree ==
  /\ OpenMatched <=> OpenEndsAgree
  /\ ClosedMatched <=> ClosedWithPartner
  <1>1. ASSUME NEW c \in Chains, NEW i \in ChanIds
        PROVE  HasPartner(c, i) <=> /\ store[c][i].cpChan \in Ends(Other(c))
                                    /\ Partners(c, i, store[c][i].cpChan)
    BY DEF HasPartner, Matches, Ends, Partners
  <1>2. OpenMatched <=> OpenEndsAgree
    BY <1>1 DEF OpenMatched, OpenEndsAgree, Ends
  <1>3. ClosedMatched <=> ClosedWithPartner
    BY <1>1 DEF ClosedMatched, ClosedWithPartner, Ends
  <1> QED BY <1>2, <1>3

\* An end with a matching partner past Init keeps it: the partner knows its
\* counterparty, so no handler gives it another.
LEMMA MatchLasts ==
  ASSUME HostTypes, KnowsPartner, EndStep, NEW c \in Chains, NEW i \in ChanIds,
         NEW j \in ChanIds, NEW end, Matches(end, i, store[c][j])
  PROVE  Matches(end, i, store'[c][j])
  <1>1. EarlierEnd(store[c][j], store'[c][j])
    BY EndsMoveOn
  <1>2. store[c][j] # None /\ store[c][j].cpChan = i /\ i # 0
    BY DEF Matches, ChanIds
  <1>3. store[c][j].state # "Init"
    BY <1>2 DEF KnowsPartner
  <1> QED BY <1>1, <1>2, <1>3 DEF EarlierEnd, Matches

\* The written end, or an end that is as it was.
LEMMA EndOrSame ==
  ASSUME HostTypes, EndStep, NEW c \in Chains, NEW i \in ChanIds
  PROVE  \/ store'[c][i] = store[c][i]
         \/ Created(c, i, store'[c][i])
         \/ Opened(c, i, store'[c][i])
         \/ Closed(c, i, store'[c][i])
  <1>1. PICK d \in Chains, id \in ChanIds, end \in ChannelEnd :
          /\ Writes(d, id, end)
          /\ Created(d, id, end) \/ Opened(d, id, end) \/ Closed(d, id, end)
    BY DEF EndStep
  <1>2. /\ store'[d][id] = end
        /\ d # c \/ i # id => store'[c][i] = store[c][i]
    BY <1>1, EndWrite
  <1> QED BY <1>1, <1>2

LEMMA EndStepOpen ==
  ASSUME HostTypes, KnowsPartner, OpenMatched, EndStep
  PROVE  OpenMatched'
  <1> SUFFICES ASSUME NEW c \in Chains, NEW i \in ChanIds, NEW e, e = store'[c][i],
                      e # None, e.state = "Open"
               PROVE  e.cpChan \in ChanIds /\ Matches(e, i, store'[Other(c)][e.cpChan])
    BY DEF OpenMatched, HasPartner
  <1>1. e.cpChan \in ChanIds /\ Matches(e, i, store[Other(c)][e.cpChan])
    <2>1. CASE e = store[c][i]
      BY <2>1 DEF OpenMatched, HasPartner
    <2>2. CASE Opened(c, i, e)
      BY <2>2 DEF Opened
    <2> QED BY <2>1, <2>2, EndOrSame DEF Created, Closed
  <1> QED BY <1>1, OtherIsChain, MatchLasts

LEMMA EndStepClosed ==
  ASSUME HostTypes, KnowsPartner, ClosedMatched, EndStep
  PROVE  ClosedMatched'
  <1> SUFFICES ASSUME NEW c \in Chains, NEW i \in ChanIds, NEW e, e = store'[c][i],
                      e # None, e.state = "Closed", c \notin Closers
               PROVE  /\ e.cpChan \in ChanIds /\ Matches(e, i, store'[Other(c)][e.cpChan])
                      /\ store'[Other(c)][e.cpChan].state = "Closed"
    BY DEF ClosedMatched, HasPartner
  <1>1. /\ e.cpChan \in ChanIds /\ Matches(e, i, store[Other(c)][e.cpChan])
        /\ store[Other(c)][e.cpChan].state = "Closed"
    <2>1. CASE e = store[c][i]
      BY <2>1 DEF ClosedMatched, HasPartner
    <2>2. CASE Closed(c, i, e)
      BY <2>2 DEF Closed
    <2> QED BY <2>1, <2>2, EndOrSame DEF Created, Opened
  <1>2. Matches(e, i, store'[Other(c)][e.cpChan])
    BY <1>1, OtherIsChain, MatchLasts
  <1>3. EarlierEnd(store[Other(c)][e.cpChan], store'[Other(c)][e.cpChan])
    BY <1>1, OtherIsChain, EndsMoveOn
  <1> QED BY <1>1, <1>2, <1>3 DEF EarlierEnd, Matches

----------------------------------------------------------------------------
LEMMA ProduceStep ==
  ASSUME HostTypes, ProvenIsEarlier, NEW c \in Chains, Produce(c)
  PROVE  HostTypes' /\ ProvenIsEarlier'
  <1>1. PICK new : new = [time |-> host_timestamp(c) + 1, root |-> store[c]]
    OBVIOUS
  <1>2. /\ client' = client /\ store' = store
        /\ header' = [header EXCEPT ![c] = Append(@, new)]
        /\ host_height(c) < MaxHeight
    BY <1>1 DEF Produce, NewBlock
  <1>3. new \in [time : Nat, root : Stores] /\ new.root = store[c]
    <2>1. host_timestamp(c) \in Nat
      BY HostNow
    <2>2. store[c] \in Stores
      BY DEF HostTypes
    <2> QED BY <1>1, <2>1, <2>2
  <1>4. header[c] \in Seq([time : Nat, root : Stores])
        /\ Len(header[c]) \in Nat /\ Len(header[c]) >= 1
    <2>1. header[c] \in Seq([time : Nat, root : Stores])
      BY DEF HostTypes
    <2>2. Len(header[c]) \in Heights
      BY DEF HostTypes
    <2> QED BY <2>1, <2>2, MaxHeightAssumption DEF Heights
  <1>5. /\ header'[c] = Append(header[c], new)
        /\ \A d \in Chains : d # c => header'[d] = header[d]
        /\ header' \in [Chains -> Seq([time : Nat, root : Stores])]
    <2>1. PICK H : H = [time : Nat, root : Stores]
      OBVIOUS
    <2>2. header \in [Chains -> Seq(H)] /\ new \in H /\ header[c] \in Seq(H)
      BY <1>3, <1>4, <2>1 DEF HostTypes
    <2>3. Append(header[c], new) \in Seq(H)
      BY <2>2
    <2>4. header' = [header EXCEPT ![c] = Append(header[c], new)]
      BY <1>2
    <2> QED BY <2>1, <2>2, <2>3, <2>4
  <1>6. /\ Len(header'[c]) = Len(header[c]) + 1
        /\ \A h \in 1..Len(header[c]) : header'[c][h] = header[c][h]
        /\ header'[c][Len(header[c]) + 1] = new
    BY <1>3, <1>4, <1>5
  <1>7. \A d \in Chains : Len(header'[d]) \in Heights
    BY <1>2, <1>4, <1>5, <1>6, MaxHeightAssumption DEF HostTypes, Heights, host_height
  <1>8. HostTypes'
    BY <1>2, <1>5, <1>7 DEF HostTypes
  <1>9. ASSUME NEW d \in Chains, NEW h \in 1..Len(header'[d]), NEW i \in ChanIds
        PROVE  EarlierEnd(header'[d][h].root[i], store'[d][i])
    <2>1. CASE d = c /\ h = Len(header[c]) + 1
      BY <1>2, <1>3, <1>6, <2>1, EarlierSame
    <2>2. CASE d # c
      BY <1>2, <1>5, <2>2 DEF ProvenIsEarlier
    <2>3. CASE d = c /\ h # Len(header[c]) + 1
      <3>1. h \in 1..Len(header[c])
        BY <1>4, <1>6, <2>3
      <3> QED BY <1>2, <1>6, <2>3, <3>1 DEF ProvenIsEarlier
    <2> QED BY <2>1, <2>2, <2>3
  <1>10. ProvenIsEarlier'
    <2>1. \A d \in Chains : \A h \in Heights : \A i \in ChanIds :
            client'[d].cons[h] # None =>
              EarlierEnd(client'[d].cons[h].root[i], store'[Other(d)][i])
      BY <1>2 DEF ProvenIsEarlier
    <2> QED BY <1>9, <2>1 DEF ProvenIsEarlier
  <1> QED BY <1>8, <1>10

\* What an update stores it had, or it is the newest header's.
LEMMA UpdateStores ==
  ASSUME HostTypes, NEW c \in Chains, Update(c)
  PROVE  /\ client' \in [Chains -> ClientState(Stores)]
         /\ \A d \in Chains : d # c => client'[d] = client[d]
         /\ \A h \in Heights : client'[c].cons[h] # None =>
              \/ client'[c].cons[h] = client[c].cons[h]
              \/ client'[c].cons[h].root = header[Other(c)][Len(header[Other(c)])].root
  <1>1. PICK hdr : hdr = HeaderAt(Other(c), host_height(Other(c)))
    OBVIOUS
  <1>2. PICK now : now = host_timestamp(c)
    OBVIOUS
  <1>3. PICK height : height = host_height(c)
    OBVIOUS
  <1>4. now \in Nat /\ height \in Nat
    BY <1>2, <1>3, HostNow
  <1>5. hdr \in Header(Stores) /\ hdr.root = header[Other(c)][Len(header[Other(c)])].root
    <2>1. host_height(Other(c)) \in Heights
          /\ header[Other(c)][Len(header[Other(c)])] \in [time : Nat, root : Stores]
      BY OtherIsChain, HostNow
    <2> QED BY <1>1, <2>1 DEF HeaderAt, Header, host_height
  <1>6. PICK cl \in ClientState(Stores) : cl = client[c]
    BY DEF HostTypes
  <1>7. client' = [client EXCEPT ![c] = ExecuteUpdate(cl, hdr, height, now)]
    BY <1>1, <1>2, <1>3, <1>6 DEF Update, UpdateClient
  <1>8. PICK u : u = ExecuteUpdate(cl, hdr, height, now)
    OBVIOUS
  <1>9. u \in ClientState(Stores)
        /\ \A h \in Heights : u.cons[h] # None =>
             u.cons[h] = cl.cons[h] \/ u.cons[h].root = hdr.root
    <2>1. CASE u = update_on_misbehaviour(cl)
      BY <2>1 DEF update_on_misbehaviour, ClientState
    <2>2. CASE u = update_state(cl, hdr, height, now)
      <3>1. u \in ClientState(Stores) /\ OldOrNew(cl, hdr, height, now, u)
        BY <1>4, <1>5, <2>2, UpdateStateFacts
      <3> QED BY <3>1 DEF OldOrNew, NewConsensusState
    <2> QED BY <1>8, <2>1, <2>2 DEF ExecuteUpdate
  <1> QED BY <1>5, <1>6, <1>7, <1>8, <1>9 DEF HostTypes

LEMMA UpdateStep ==
  ASSUME HostTypes, ProvenIsEarlier, NEW c \in Chains, Update(c)
  PROVE  HostTypes' /\ ProvenIsEarlier'
  <1>1. header' = header /\ store' = store
    BY DEF Update, UpdateClient
  <1>2. /\ client' \in [Chains -> ClientState(Stores)]
        /\ \A d \in Chains : d # c => client'[d] = client[d]
        /\ \A h \in Heights : client'[c].cons[h] # None =>
             \/ client'[c].cons[h] = client[c].cons[h]
             \/ client'[c].cons[h].root = header[Other(c)][Len(header[Other(c)])].root
    BY UpdateStores
  <1>3. HostTypes'
    BY <1>1, <1>2 DEF HostTypes
  <1>4. ASSUME NEW d \in Chains, NEW h \in Heights, NEW i \in ChanIds,
               client'[d].cons[h] # None
        PROVE  EarlierEnd(client'[d].cons[h].root[i], store[Other(d)][i])
    <2>1. CASE client'[d].cons[h] = client[d].cons[h]
      BY <1>4, <2>1 DEF ProvenIsEarlier
    <2>2. CASE d = c /\ client'[c].cons[h].root = header[Other(c)][Len(header[Other(c)])].root
      <3>1. Len(header[Other(c)]) \in 1..Len(header[Other(c)])
        BY OtherIsChain DEF HostTypes, Heights
      <3> QED BY <2>2, <3>1, OtherIsChain DEF ProvenIsEarlier
    <2> QED BY <1>2, <1>4, <2>1, <2>2
  <1>5. ProvenIsEarlier'
    BY <1>1, <1>4 DEF ProvenIsEarlier
  <1> QED BY <1>3, <1>5

----------------------------------------------------------------------------
LEMMA InitHost ==
  ASSUME Init
  PROVE  /\ store \in [Chains -> Stores]
         /\ \A c \in Chains : \A i \in ChanIds : store[c][i] = None
         /\ HostTypes
         /\ ProvenIsEarlier
  <1>1. store \in [Chains -> Stores] /\ \A c \in Chains : \A i \in ChanIds : store[c][i] = None
    BY DEF Init, Stores
  <1>2. /\ header \in [Chains -> Seq([time : Nat, root : Stores])]
        /\ \A c \in Chains : Len(header[c]) = 1 /\ header[c][1].root = store[c]
    <2>1. header = [c \in Chains |-> <<[time |-> 1, root |-> store[c]]>>]
      BY DEF Init, HostInit
    <2>2. ASSUME NEW c \in Chains
          PROVE  /\ header[c] \in Seq([time : Nat, root : Stores])
                 /\ Len(header[c]) = 1 /\ header[c][1].root = store[c]
      <3>1. PICK b : b = [time |-> 1, root |-> store[c]]
        OBVIOUS
      <3>2. b \in [time : Nat, root : Stores] /\ b.root = store[c]
        BY <1>1, <3>1
      <3>3. header[c] = <<b>>
        BY <2>1, <3>1
      <3> QED BY <3>2, <3>3
    <2> QED BY <2>1, <2>2
  <1>3. \A c \in Chains : Len(header[c]) \in Heights
    <2>1. 1 \in Heights
      BY MaxHeightAssumption DEF Heights
    <2> QED BY <1>2, <2>1
  <1>4. ASSUME NEW c \in Chains
        PROVE  /\ client[c] \in ClientState(Stores)
               /\ \A h \in Heights : client[c].cons[h] # None =>
                    client[c].cons[h].root = store[Other(c)]
    <2>1. PICK first : first = [height |-> 1, time |-> 1, root |-> store[Other(c)]]
      OBVIOUS
    <2>2. client[c] = initialise(first, 1, 1)
      BY <2>1 DEF Init, HostInit
    <2>3. first.root \in Stores /\ first.time \in Nat /\ first.height \in Nat
          /\ first.root = store[Other(c)]
      BY <1>1, <2>1, OtherIsChain
    <2>4. PICK cs : cs = NewConsensusState(first, 1, 1)
      OBVIOUS
    <2>5. cs \in ConsensusState(Stores) /\ cs.root = store[Other(c)]
      BY <2>3, <2>4 DEF NewConsensusState, ConsensusState
    <2>6. client[c] = [latest |-> first.height, frozen |-> FALSE,
                       cons |-> [h \in Heights |-> IF h = first.height THEN cs ELSE None]]
      BY <2>2, <2>4 DEF initialise
    <2> QED BY <2>3, <2>5, <2>6 DEF ClientState
  <1>5. client \in [Chains -> ClientState(Stores)]
    BY <1>4 DEF Init, HostInit
  <1>6. ProvenIsEarlier
    BY <1>2, <1>4, EarlierSame DEF ProvenIsEarlier
  <1> QED BY <1>1, <1>2, <1>3, <1>5, <1>6 DEF HostTypes

LEMMA InitChan == Init => ChanInv
  <1> SUFFICES ASSUME Init PROVE ChanInv
    OBVIOUS
  <1>1. /\ \A c \in Chains : \A i \in ChanIds : store[c][i] = None
        /\ HostTypes /\ ProvenIsEarlier
    BY InitHost
  <1>2. IdsInOrder
    <2>1. \A c \in Chains : Ends(c) = 1..0
      BY <1>1 DEF Ends
    <2>2. 0 \in 0..MaxChannels
      BY ChannelsAssumption
    <2> QED BY <2>1, <2>2 DEF IdsInOrder
  <1> QED BY <1>1, <1>2 DEF ChanInv, KnowsPartner, OpenMatched, ClosedMatched

LEMMA NextChan ==
  ASSUME ChanInv, [Next]_vars
  PROVE  ChanInv'
  <1>1. CASE EndStep
    BY <1>1, EndStepTypes, EndStepProven, EndStepOpen, EndStepClosed DEF ChanInv
  <1>2. ASSUME store' = store
        PROVE  KnowsPartner' /\ IdsInOrder' /\ OpenMatched' /\ ClosedMatched'
    BY <1>2 DEF ChanInv, KnowsPartner, IdsInOrder, Ends, OpenMatched, ClosedMatched, HasPartner
  <1>3. ASSUME NEW c \in Chains, Produce(c) PROVE ChanInv'
    <2>1. store' = store
      BY <1>3 DEF Produce, NewBlock
    <2> QED BY <1>2, <1>3, <2>1, ProduceStep DEF ChanInv
  <1>4. ASSUME NEW c \in Chains, Update(c) PROVE ChanInv'
    <2>1. store' = store
      BY <1>4 DEF Update, UpdateClient
    <2> QED BY <1>2, <1>4, <2>1, UpdateStep DEF ChanInv
  <1>5. CASE UNCHANGED vars
    <2>1. store' = store /\ header' = header /\ client' = client
      BY <1>5 DEF vars
    <2> QED BY <1>2, <2>1 DEF ChanInv, HostTypes, ProvenIsEarlier
  <1> QED BY <1>1, <1>3, <1>4, <1>5, StepKinds DEF ChanInv

LEMMA ChanInvariant == Spec => []ChanInv
  BY InitChan, NextChan, PTL DEF Spec

----------------------------------------------------------------------------
\* Every end in a store is a channel end that knows its counterparty channel
\* exactly when it is past Init.
THEOREM ChannelTypeCorrect == Spec => []TypeOK
  <1>1. ChanInv => TypeOK
    BY DEF ChanInv, HostTypes, KnowsPartner, TypeOK, Stores
  <1> QED BY <1>1, ChanInvariant, PTL

\* An end that chan_open_ack or chan_open_confirm opened has the partner it
\* names, with the same ports, order, connection and version, although the
\* handler saw only an old header of the other chain.
THEOREM OpenChannelsAgree == Spec => []OpenEndsAgree
  <1>1. ChanInv => OpenEndsAgree
    BY MatchedMeansAgree DEF ChanInv
  <1> QED BY <1>1, ChanInvariant, PTL

\* An end that only chan_close_confirm can have closed has a closed partner.
THEOREM ClosedByPartner == Spec => []ClosedWithPartner
  <1>1. ChanInv => ClosedWithPartner
    BY MatchedMeansAgree DEF ChanInv
  <1> QED BY <1>1, ChanInvariant, PTL

----------------------------------------------------------------------------
(***************************************************************************)
(* Versions.  What a handler answers or accepts it read in a proof, so the *)
(* invariant is about every store that can be proven as well: each end in  *)
(* it carries an allowed proposal (in Init) or the answer to one.          *)
(***************************************************************************)

Negotiated(end) ==
  /\ end.state = "Init" => <<end.ordering, end.version>> \in AcceptsInit
  /\ end.state # "Init" =>
       \E v \in Versions : /\ <<end.ordering, v>> \in AcceptsInit
                           /\ end.version = TryVersion[<<end.ordering, v>>]
  /\ end.state = "Open" => end.version \in AcceptsAck

NegotiatedIn(ends) == \A i \in ChanIds : ends[i] # None => Negotiated(ends[i])

VersionInv ==
  \A c \in Chains :
    /\ NegotiatedIn(store[c])
    /\ \A h \in 1..Len(header[c]) : NegotiatedIn(header[c][h].root)
    /\ \A h \in Heights : client[c].cons[h] # None => NegotiatedIn(client[c].cons[h].root)

LEMMA ProvenNegotiated ==
  ASSUME VersionInv, NEW c \in Chains, NEW ph \in Heights, NEW id, NEW chan \in ChannelEnd,
         ProvesChannel(c, ph, id, chan)
  PROVE  Negotiated(chan)
  <1>1. client[c].cons[ph] # None /\ client[c].cons[ph].root[id] = chan /\ id \in ChanIds
    BY DEF ProvesChannel, CanVerifyAt, HasProofHeight, StoredHeights, ProvenStore
  <1>2. chan # None
    BY EndFacts
  <1> QED BY <1>1, <1>2 DEF VersionInv, NegotiatedIn

LEMMA StoredNegotiated ==
  ASSUME VersionInv, NEW c \in Chains, NEW i \in ChanIds, store[c][i] # None
  PROVE  Negotiated(store[c][i])
  BY DEF VersionInv, NegotiatedIn

\* Storing a negotiated end keeps the invariant.
LEMMA NegotiatedWrite ==
  ASSUME HostTypes, VersionInv, UNCHANGED hostVars, NEW c \in Chains, NEW id \in ChanIds,
         NEW end \in ChannelEnd, Writes(c, id, end), Negotiated(end)
  PROVE  VersionInv'
  <1>1. header' = header /\ client' = client
    BY DEF hostVars
  <1>2. /\ store'[c][id] = end
        /\ \A d \in Chains : \A i \in ChanIds :
             d # c \/ i # id => store'[d][i] = store[d][i]
    BY EndWrite
  <1>3. \A d \in Chains : NegotiatedIn(store'[d])
    BY <1>2 DEF VersionInv, NegotiatedIn
  <1> QED BY <1>1, <1>3 DEF VersionInv

LEMMA OpenInitNegotiates ==
  ASSUME HostTypes, VersionInv, NEW c \in Chains, OpenInit(c)
  PROVE  VersionInv'
  <1>1. PICK conn \in Conns, port \in Ports, cpPort \in Ports, order \in Orders, v \in Versions :
          ChanOpenInit(c, conn, port, cpPort, order, v)
    BY DEF OpenInit
  <1> DEFINE end == [state |-> "Init", ordering |-> order, port |-> port,
                     cpPort |-> cpPort, cpChan |-> 0, conn |-> conn, version |-> v]
  <1>2. end \in ChannelEnd /\ end.state = "Init" /\ end.ordering = order /\ end.version = v
    BY DEF ChannelEnd
  <1>3. /\ NextChanId(c) \in ChanIds /\ Writes(c, NextChanId(c), end) /\ UNCHANGED hostVars
        /\ <<order, v>> \in AcceptsInit
    BY <1>1 DEF ChanOpenInit, AddChannel, Writes
  <1> HIDE DEF end
  <1>4. Negotiated(end)
    BY <1>2, <1>3 DEF Negotiated
  <1> QED BY <1>2, <1>3, <1>4, NegotiatedWrite

LEMMA OpenTryNegotiates ==
  ASSUME HostTypes, VersionInv, NEW c \in Chains, OpenTry(c)
  PROVE  VersionInv'
  <1>1. PICK conn \in Conns, port \in Ports, cpPort \in Ports, cpChan \in ChanIds,
             order \in Orders, v \in Versions, ph \in Heights :
          ChanOpenTry(c, conn, port, cpPort, cpChan, order, v, ph)
    BY DEF OpenTry
  <1> DEFINE end == [state |-> "TryOpen", ordering |-> order, port |-> port,
                     cpPort |-> cpPort, cpChan |-> cpChan, conn |-> conn,
                     version |-> TryVersion[<<order, v>>]]
             proposal == Expected(end, "Init", 0, v)
  <1>2. /\ NextChanId(c) \in ChanIds /\ Writes(c, NextChanId(c), end) /\ UNCHANGED hostVars
        /\ TryVersion[<<order, v>>] # None
        /\ ProvesChannel(c, ph, cpChan, proposal)
    BY <1>1 DEF ChanOpenTry, AddChannel, Writes
  <1>3. TryVersion[<<order, v>>] \in Versions
    BY <1>2, CallbacksAssumption
  <1>4. /\ end \in ChannelEnd /\ end.state = "TryOpen" /\ end.ordering = order
        /\ end.version = TryVersion[<<order, v>>]
    BY <1>3 DEF ChannelEnd, ChanIds
  <1>5. /\ proposal \in ChannelEnd /\ proposal.state = "Init"
        /\ proposal.ordering = order /\ proposal.version = v
    BY <1>4 DEF Expected, ChannelEnd
  <1> HIDE DEF end, proposal
  <1>6. <<order, v>> \in AcceptsInit
    <2>1. Negotiated(proposal)
      BY <1>2, <1>5, ProvenNegotiated
    <2> QED BY <1>5, <2>1 DEF Negotiated
  <1>7. Negotiated(end)
    BY <1>4, <1>6 DEF Negotiated
  <1> QED BY <1>2, <1>4, <1>7, NegotiatedWrite

LEMMA OpenAckNegotiates ==
  ASSUME HostTypes, VersionInv, NEW c \in Chains, OpenAck(c)
  PROVE  VersionInv'
  <1>1. PICK id \in ChanIds, cpChan \in ChanIds, v \in Versions, ph \in Heights :
          ChanOpenAck(c, id, cpChan, v, ph)
    BY DEF OpenAck
  <1> DEFINE old == store[c][id]
             end == [old EXCEPT !.state = "Open", !.version = v, !.cpChan = cpChan]
             answer == Expected(old, "TryOpen", id, v)
  <1>2. /\ old # None /\ UNCHANGED hostVars /\ v \in AcceptsAck
        /\ ProvesChannel(c, ph, cpChan, answer)
        /\ Writes(c, id, end)
    BY <1>1 DEF ChanOpenAck, Writes
  <1>3. old \in ChannelEnd
    BY <1>2, StoredEnd
  <1>4. /\ end \in ChannelEnd /\ end.state = "Open" /\ end.version = v
        /\ end.ordering = old.ordering
    BY <1>3 DEF ChannelEnd
  <1>5. /\ answer \in ChannelEnd /\ answer.state = "TryOpen"
        /\ answer.ordering = old.ordering /\ answer.version = v
    BY <1>3 DEF Expected, ChannelEnd
  <1> HIDE DEF end, answer
  <1>6. Negotiated(answer)
    BY <1>2, <1>5, ProvenNegotiated
  <1>7. Negotiated(end)
    BY <1>2, <1>4, <1>5, <1>6 DEF Negotiated
  <1> QED BY <1>2, <1>4, <1>7, NegotiatedWrite

LEMMA OpenConfirmNegotiates ==
  ASSUME HostTypes, VersionInv, NEW c \in Chains, OpenConfirm(c)
  PROVE  VersionInv'
  <1>1. PICK id \in ChanIds, ph \in Heights : ChanOpenConfirm(c, id, ph)
    BY DEF OpenConfirm
  <1> DEFINE old == store[c][id]
             partner == Expected(old, "Open", id, old.version)
  <1>2. /\ old # None /\ old.state = "TryOpen" /\ UNCHANGED hostVars
        /\ ProvesChannel(c, ph, old.cpChan, partner)
        /\ store' = [store EXCEPT ![c][id].state = "Open"]
    BY <1>1 DEF ChanOpenConfirm
  <1>3. old \in ChannelEnd /\ Negotiated(old)
    BY <1>2, StoredEnd, StoredNegotiated
  <1>4. PICK end \in ChannelEnd :
           /\ Writes(c, id, end)
           /\ end.state = "Open" /\ SameChannel(old, end)
           /\ end.version = old.version
    BY <1>2, StateChange
  <1>5. partner \in ChannelEnd /\ partner.state = "Open" /\ partner.version = old.version
    BY <1>3 DEF Expected, ChannelEnd
  <1> HIDE DEF partner
  <1>6. old.version \in AcceptsAck
    <2>1. Negotiated(partner)
      BY <1>2, <1>5, ProvenNegotiated
    <2> QED BY <1>5, <2>1 DEF Negotiated
  <1>7. Negotiated(end)
    BY <1>2, <1>3, <1>4, <1>6 DEF Negotiated, SameChannel
  <1> QED BY <1>2, <1>4, <1>7, NegotiatedWrite

\* Closing leaves the version alone, and only an end past Init is closed.
LEMMA CloseNegotiates ==
  ASSUME HostTypes, KnowsPartner, VersionInv, NEW c \in Chains,
         CloseInit(c) \/ CloseConfirm(c)
  PROVE  VersionInv'
  <1>1. PICK id \in ChanIds :
          /\ store[c][id] # None /\ store[c][id].cpChan # 0 /\ UNCHANGED hostVars
          /\ store' = [store EXCEPT ![c][id].state = "Closed"]
    BY DEF CloseInit, CloseConfirm, ChanCloseInit, ChanCloseConfirm
  <1>2. store[c][id].state # "Init" /\ Negotiated(store[c][id])
    BY <1>1, StoredNegotiated DEF KnowsPartner
  <1>3. PICK end \in ChannelEnd :
           /\ Writes(c, id, end)
           /\ end.state = "Closed" /\ SameChannel(store[c][id], end)
           /\ end.version = store[c][id].version
    BY <1>1, StateChange
  <1>4. Negotiated(end)
    BY <1>2, <1>3 DEF Negotiated, SameChannel
  <1> QED BY <1>1, <1>3, <1>4, NegotiatedWrite

LEMMA ProduceNegotiates ==
  ASSUME HostTypes, VersionInv, NEW c \in Chains, Produce(c)
  PROVE  VersionInv'
  <1>1. PICK new : new = [time |-> host_timestamp(c) + 1, root |-> store[c]]
    OBVIOUS
  <1>2. /\ client' = client /\ store' = store
        /\ header' = [header EXCEPT ![c] = Append(header[c], new)]
    BY <1>1 DEF Produce, NewBlock
  <1>3. PICK S : S = [time : Nat, root : Stores]
    OBVIOUS
  <1>4. header \in [Chains -> Seq(S)] /\ header[c] \in Seq(S)
    BY <1>3 DEF HostTypes
  <1>5. new \in S /\ new.root = store[c]
    <2>1. host_timestamp(c) \in Nat /\ store[c] \in Stores
      BY HostNow DEF HostTypes
    <2> QED BY <1>1, <1>3, <2>1
  <1>6. /\ header'[c] = Append(header[c], new)
        /\ \A d \in Chains : d # c => header'[d] = header[d]
    BY <1>2, <1>4
  <1>7. \A h \in 1..Len(header'[c]) :
          header'[c][h] = new \/ (h \in 1..Len(header[c]) /\ header'[c][h] = header[c][h])
    BY <1>4, <1>5, <1>6
  <1>8. \A h \in 1..Len(header'[c]) : NegotiatedIn(header'[c][h].root)
    BY <1>5, <1>7 DEF VersionInv
  <1>9. \A d \in Chains : \A h \in 1..Len(header'[d]) : NegotiatedIn(header'[d][h].root)
    BY <1>6, <1>8 DEF VersionInv
  <1> QED BY <1>2, <1>9 DEF VersionInv

LEMMA UpdateNegotiates ==
  ASSUME HostTypes, VersionInv, NEW c \in Chains, Update(c)
  PROVE  VersionInv'
  <1>1. header' = header /\ store' = store
    BY DEF Update, UpdateClient
  <1>2. /\ \A d \in Chains : d # c => client'[d] = client[d]
        /\ \A h \in Heights : client'[c].cons[h] # None =>
             \/ client'[c].cons[h] = client[c].cons[h]
             \/ client'[c].cons[h].root = header[Other(c)][Len(header[Other(c)])].root
    BY UpdateStores
  <1>3. NegotiatedIn(header[Other(c)][Len(header[Other(c)])].root)
    <2>1. Len(header[Other(c)]) \in 1..Len(header[Other(c)])
      BY OtherIsChain DEF HostTypes, Heights
    <2> QED BY <2>1, OtherIsChain DEF VersionInv
  <1>4. ASSUME NEW d \in Chains, NEW h \in Heights, client'[d].cons[h] # None
        PROVE  NegotiatedIn(client'[d].cons[h].root)
    <2>1. CASE client'[d].cons[h] = client[d].cons[h]
      BY <1>4, <2>1 DEF VersionInv
    <2>2. CASE d = c /\ client'[c].cons[h].root = header[Other(c)][Len(header[Other(c)])].root
      BY <1>3, <2>2
    <2> QED BY <1>2, <1>4, <2>1, <2>2
  <1> QED BY <1>1, <1>4 DEF VersionInv

LEMMA InitNegotiated == Init => VersionInv
  <1> SUFFICES ASSUME Init PROVE VersionInv
    OBVIOUS
  <1>1. /\ \A c \in Chains : \A i \in ChanIds : store[c][i] = None
        /\ HostTypes /\ ProvenIsEarlier
    BY InitHost
  <1>2. \A old : EarlierEnd(old, None) => old = None
    BY DEF EarlierEnd
  <1>3. \A c \in Chains : \A h \in 1..Len(header[c]) : NegotiatedIn(header[c][h].root)
    BY <1>1, <1>2 DEF ProvenIsEarlier, NegotiatedIn
  <1>4. \A c \in Chains : \A h \in Heights :
          client[c].cons[h] # None => NegotiatedIn(client[c].cons[h].root)
    BY <1>1, <1>2, OtherIsChain DEF ProvenIsEarlier, NegotiatedIn
  <1> QED BY <1>1, <1>3, <1>4 DEF VersionInv, NegotiatedIn

LEMMA NextNegotiated ==
  ASSUME ChanInv, VersionInv, [Next]_vars
  PROVE  VersionInv'
  <1>1. HostTypes /\ KnowsPartner
    BY DEF ChanInv
  <1>2. CASE UNCHANGED vars
    BY <1>2 DEF vars, VersionInv
  <1>3. CASE Next
    BY <1>1, <1>3, OpenInitNegotiates, OpenTryNegotiates, OpenAckNegotiates,
       OpenConfirmNegotiates, CloseNegotiates, ProduceNegotiates, UpdateNegotiates DEF Next
  <1> QED BY <1>2, <1>3

\* The version of an end past Init is the answer of chan_open_try's callback to
\* a proposal that chan_open_init's let pass, and chan_open_ack's has accepted
\* it before either end is open, although each handler saw only an old header.
THEOREM VersionsNegotiated == Spec => []VersionNegotiated
  <1>1. VersionInv => VersionNegotiated
    BY DEF VersionInv, NegotiatedIn, Negotiated, VersionNegotiated, Ends
  <1> QED BY <1>1, InitNegotiated, NextNegotiated, ChanInvariant, PTL DEF Spec

----------------------------------------------------------------------------
\* What a step may do to an end.
Progress(old, new) ==
  /\ new # None
  /\ <<old.state, new.state>> \in
       {<<s, s>> : s \in {"Init", "TryOpen", "Open", "Closed"}}
       \union {<<"Init", "Open">>, <<"TryOpen", "Open">>,
               <<"TryOpen", "Closed">>, <<"Open", "Closed">>}
  /\ [new EXCEPT !.state = old.state, !.version = old.version,
                 !.cpChan = old.cpChan] = old
  /\ old.cpChan # 0 => new.cpChan = old.cpChan /\ new.version = old.version

LEMMA NoProgress ==
  ASSUME NEW end \in ChannelEnd
  PROVE  Progress(end, end)
  BY EndFacts DEF Progress, ChannelEnd

LEMMA EndProgress ==
  ASSUME HostTypes, KnowsPartner, EndStep, NEW c \in Chains, NEW i \in ChanIds,
         store[c][i] # None
  PROVE  Progress(store[c][i], store'[c][i])
  <1>1. PICK old : old = store[c][i]
    OBVIOUS
  <1>2. PICK new : new = store'[c][i]
    OBVIOUS
  <1>3. old \in ChannelEnd /\ old # None /\ (old.state = "Init" <=> old.cpChan = 0)
    BY <1>1, StoredEnd DEF KnowsPartner
  <1>4. EarlierEnd(old, new)
    BY <1>1, <1>2, EndsMoveOn
  <1>5. new \in ChannelEnd
    <2>1. PICK d \in Chains, id \in ChanIds, end \in ChannelEnd : Writes(d, id, end)
      BY DEF EndStep
    <2>2. store' \in [Chains -> Stores]
      BY <2>1, EndWrite
    <2> QED BY <1>2, <1>3, <1>4, <2>2 DEF EarlierEnd, Stores
  <1>6. new = old \/ Opened(c, i, new) \/ Closed(c, i, new)
    BY <1>1, <1>2, EndOrSame DEF Created
  <1>7. SameChannel(old, new)
    BY <1>3, <1>4 DEF EarlierEnd, SameChannel
  <1>8. [new EXCEPT !.state = old.state, !.version = old.version,
                    !.cpChan = old.cpChan] = old
    BY <1>3, <1>5, <1>7 DEF ChannelEnd, SameChannel
  <1>9. \/ old.state = new.state /\ old.state \in {"Init", "TryOpen", "Open", "Closed"}
        \/ old.state \in {"Init", "TryOpen"} /\ new.state = "Open"
        \/ old.state \in {"TryOpen", "Open"} /\ new.state = "Closed"
    <2>1. CASE new = old
      BY <1>3, <2>1, EndFacts
    <2>2. CASE Opened(c, i, new)
      BY <1>1, <2>2 DEF Opened
    <2>3. CASE Closed(c, i, new)
      BY <1>1, <2>3 DEF Closed
    <2> QED BY <1>6, <2>1, <2>2, <2>3
  <1>10. old.cpChan # 0 => new.cpChan = old.cpChan /\ new.version = old.version
    BY <1>3, <1>4 DEF EarlierEnd
  <1>11. Progress(old, new)
    BY <1>5, <1>8, <1>9, <1>10, EndFacts DEF Progress
  <1> QED BY <1>1, <1>2, <1>11

\* Ends only progress: the handlers take an end from one state to the next
\* and keep everything that was agreed.
THEOREM ChannelEndsProgress == Spec => EndsOnlyProgress
  <1> DEFINE Allowed == \A c \in Chains : \A i \in Ends(c) : Progress(store[c][i], store'[c][i])
  <1>1. ASSUME ChanInv, EndStep PROVE Allowed
    BY <1>1, EndProgress DEF ChanInv, Ends
  <1>2. ASSUME ChanInv, store' = store PROVE Allowed
    BY <1>2, StoredEnd, NoProgress DEF ChanInv, Ends
  <1>3. ChanInv /\ [Next]_vars => [Allowed]_vars
    <2> SUFFICES ASSUME ChanInv, Next PROVE Allowed
      OBVIOUS
    <2>1. EndStep \/ (\E c \in Chains : Produce(c) \/ Update(c))
      BY StepKinds DEF ChanInv
    <2> QED BY <1>1, <1>2, <2>1 DEF Produce, NewBlock, Update, UpdateClient
  <1> QED BY <1>3, ChanInvariant, PTL DEF Spec, EndsOnlyProgress, Progress

============================================================================

--------------------------- MODULE ChanHandshake ---------------------------
(***************************************************************************)
(* The ICS-04 channel handshake and its closing, between two chains with   *)
(* open connections, each of which runs the six handlers (chan_open_init,  *)
(* _try, _ack, _confirm, chan_close_init, _confirm) for any number of      *)
(* channels at once.  Connection k of one chain is the counterparty of     *)
(* connection k of the other.                                              *)
(*                                                                         *)
(* The application's callbacks are constants: what it accepts, the version *)
(* it answers with, and whether it lets a channel be closed.  A message    *)
(* that validate or the callback refuses is no step.                       *)
(***************************************************************************)
EXTENDS IbcHost, FiniteSets

CONSTANTS
  MaxChannels,      \* bound: channels of one chain
  LastHeight,       \* bound: LastHeight[c] is the height c gets to
  Initiators,       \* the chains that start handshakes
  Closers,          \* the chains whose application lets a channel be closed
  Conns,            \* the connections between the chains
  Ports,            \* the ports that are bound, on either chain
  Orders,           \* the orderings a message may ask for
  ConnOrders,       \* ConnOrders[k]: the orderings connection k supports
  Versions,         \* channel versions, opaque to the handlers
  AcceptsInit,      \* <<order, version>> that on_chan_open_init_validate accepts
  TryVersion,       \* what on_chan_open_try answers to <<order, version>>, or None
  AcceptsAck        \* the versions on_chan_open_ack_validate accepts

ASSUME ChannelsAssumption == MaxChannels \in Nat
ASSUME LastHeightAssumption == LastHeight \in [Chains -> 1..MaxHeight]
ASSUME ActorsAssumption == Initiators \subseteq Chains /\ Closers \subseteq Chains
ASSUME ConnOrdersAssumption == ConnOrders \in [Conns -> SUBSET Orders]
ASSUME CallbacksAssumption ==
  /\ AcceptsInit \subseteq Orders \X Versions
  /\ TryVersion \in [Orders \X Versions -> Versions \union {None}]
  /\ AcceptsAck \subseteq Versions

vars == <<header, client, store>>

ChanIds == 1..MaxChannels

\* A channel end with the port it is stored under.  cpChan = 0 is None.
ChannelEnd ==
  [state : {"Init", "TryOpen", "Open", "Closed"}, ordering : Orders,
   port : Ports, cpPort : Ports, cpChan : ChanIds \union {0},
   conn : Conns, version : Versions]

\* An absent entry of the store is no channel end.
ASSUME NoneAssumption == None \notin ChannelEnd

\* The client is active and a proof at height ph shows channel end chan under
\* identifier id (and the port that chan has).
ProvesChannel(c, ph, id, chan) ==
  /\ CanVerifyAt(c, ph)
  /\ id \in ChanIds
  /\ ProvenStore(c, ph)[id] = chan

\* The end of the other chain that chan is to be the counterparty of.
Expected(chan, state, cpChan, version) ==
  [state |-> state, ordering |-> chan.ordering, port |-> chan.cpPort,
   cpPort |-> chan.port, cpChan |-> cpChan, conn |-> chan.conn,
   version |-> version]

----------------------------------------------------------------------------
\* channel_counter names a new channel.
NextChanId(c) == Cardinality({i \in ChanIds : store[c][i] # None}) + 1

AddChannel(c, chan) ==
  /\ NextChanId(c) \in ChanIds
  /\ store' = [store EXCEPT ![c][NextChanId(c)] = chan]
  /\ UNCHANGED hostVars

\* The proposed version is stored, whatever the callback returned.
ChanOpenInit(c, conn, port, cpPort, order, version) ==
  /\ ClientActive(c)
  /\ order \in ConnOrders[conn]
  /\ <<order, version>> \in AcceptsInit
  /\ AddChannel(c, [state |-> "Init", ordering |-> order, port |-> port,
                    cpPort |-> cpPort, cpChan |-> 0, conn |-> conn,
                    version |-> version])

\* Mutant of ChanOpenTry: the proposal is stored, not the callback's answer.
TryStoresProposal(c, conn, port, cpPort, cpChan, order, version, ph) ==
  LET chan == [state |-> "TryOpen", ordering |-> order, port |-> port,
               cpPort |-> cpPort, cpChan |-> cpChan, conn |-> conn,
               version |-> version]
  IN /\ order \in ConnOrders[conn]
     /\ ProvesChannel(c, ph, cpChan, Expected(chan, "Init", 0, version))
     /\ TryVersion[<<order, version>>] # None
     /\ AddChannel(c, chan)

ChanOpenTry(c, conn, port, cpPort, cpChan, order, version, ph) ==
  LET chan == [state |-> "TryOpen", ordering |-> order, port |-> port,
               cpPort |-> cpPort, cpChan |-> cpChan, conn |-> conn,
               version |-> TryVersion[<<order, version>>]]
  IN /\ order \in ConnOrders[conn]
     /\ ProvesChannel(c, ph, cpChan, Expected(chan, "Init", 0, version))
     /\ chan.version # None
     /\ AddChannel(c, chan)

\* Mutant of ChanOpenAck: the counterparty channel is not stored.
AckForgetsChannel(c, id, cpChan, version, ph) ==
  LET chan == store[c][id] IN
  /\ chan # None
  /\ chan.state = "Init"
  /\ ProvesChannel(c, ph, cpChan, Expected(chan, "TryOpen", id, version))
  /\ version \in AcceptsAck
  /\ store' = [store EXCEPT ![c][id] = [@ EXCEPT !.state = "Open", !.version = version]]
  /\ UNCHANGED hostVars

\* Mutant of ChanOpenAck: the proven end may be the counterparty of any channel.
AckAnyPartner(c, id, cpChan, version, ph) ==
  LET chan == store[c][id] IN
  /\ chan # None
  /\ chan.state = "Init"
  /\ \E any \in ChanIds :
       ProvesChannel(c, ph, cpChan, Expected(chan, "TryOpen", any, version))
  /\ version \in AcceptsAck
  /\ store' = [store EXCEPT ![c][id] =
       [@ EXCEPT !.state = "Open", !.version = version, !.cpChan = cpChan]]
  /\ UNCHANGED hostVars

\* Mutant of ChanOpenAck: an end in any state is opened.
AckInAnyState(c, id, cpChan, version, ph) ==
  LET chan == store[c][id] IN
  /\ chan # None
  /\ ProvesChannel(c, ph, cpChan, Expected(chan, "TryOpen", id, version))
  /\ version \in AcceptsAck
  /\ store' = [store EXCEPT ![c][id] =
       [@ EXCEPT !.state = "Open", !.version = version, !.cpChan = cpChan]]
  /\ UNCHANGED hostVars

\* Mutant of ChanOpenAck: the proposed version is kept.
AckKeepsVersion(c, id, cpChan, version, ph) ==
  LET chan == store[c][id] IN
  /\ chan # None
  /\ chan.state = "Init"
  /\ ProvesChannel(c, ph, cpChan, Expected(chan, "TryOpen", id, version))
  /\ version \in AcceptsAck
  /\ store' = [store EXCEPT ![c][id] = [@ EXCEPT !.state = "Open", !.cpChan = cpChan]]
  /\ UNCHANGED hostVars

ChanOpenAck(c, id, cpChan, version, ph) ==
  LET chan == store[c][id] IN
  /\ chan # None
  /\ chan.state = "Init"
  /\ ProvesChannel(c, ph, cpChan, Expected(chan, "TryOpen", id, version))
  /\ version \in AcceptsAck
  /\ store' = [store EXCEPT ![c][id] =
       [@ EXCEPT !.state = "Open", !.version = version, !.cpChan = cpChan]]
  /\ UNCHANGED hostVars

ChanOpenConfirm(c, id, ph) ==
  LET chan == store[c][id] IN
  /\ chan # None
  /\ chan.state = "TryOpen"
  /\ ProvesChannel(c, ph, chan.cpChan, Expected(chan, "Open", id, chan.version))
  /\ store' = [store EXCEPT ![c][id].state = "Open"]
  /\ UNCHANGED hostVars

\* execute fails on an end without a counterparty channel, after storing it: the
\* host rolls that back, so an Init end cannot be closed.
ChanCloseInit(c, id) ==
  LET chan == store[c][id] IN
  /\ chan # None
  /\ chan.state # "Closed"
  /\ ClientActive(c)
  /\ c \in Closers
  /\ chan.cpChan # 0
  /\ store' = [store EXCEPT ![c][id].state = "Closed"]
  /\ UNCHANGED hostVars

\* Mutant of ChanCloseConfirm: the closed end may be any channel's counterparty.
CloseWithAnyPartner(c, id, ph) ==
  LET chan == store[c][id] IN
  /\ chan # None
  /\ chan.state # "Closed"
  /\ chan.cpChan # 0
  /\ \E any \in ChanIds :
       ProvesChannel(c, ph, chan.cpChan, Expected(chan, "Closed", any, chan.version))
  /\ store' = [store EXCEPT ![c][id].state = "Closed"]
  /\ UNCHANGED hostVars

\* Mutant of ChanCloseConfirm: only an open end is closed.
CloseOpenOnly(c, id, ph) ==
  LET chan == store[c][id] IN
  /\ chan # None
  /\ chan.state = "Open"
  /\ ProvesChannel(c, ph, chan.cpChan, Expected(chan, "Closed", id, chan.version))
  /\ store' = [store EXCEPT ![c][id].state = "Closed"]
  /\ UNCHANGED hostVars

ChanCloseConfirm(c, id, ph) ==
  LET chan == store[c][id] IN
  /\ chan # None
  /\ chan.state # "Closed"
  /\ chan.cpChan # 0
  /\ ProvesChannel(c, ph, chan.cpChan, Expected(chan, "Closed", id, chan.version))
  /\ store' = [store EXCEPT ![c][id].state = "Closed"]
  /\ UNCHANGED hostVars

----------------------------------------------------------------------------
Init ==
  /\ store = [c \in Chains |-> [i \in ChanIds |-> None]]
  /\ HostInit

\* Bound: one unit of time per block.
Produce(c) ==
  /\ host_height(c) < LastHeight[c]
  /\ NewBlock(c, host_timestamp(c) + 1)
\* Bound: relayers submit the newest header, on the latest trusted one.
Update(c) == UpdateClient(c, host_height(Other(c)), client[c].latest)
OpenInit(c) ==
  /\ c \in Initiators
  /\ \E conn \in Conns, port, cpPort \in Ports, order \in Orders, v \in Versions :
       ChanOpenInit(c, conn, port, cpPort, order, v)
OpenTry(c) ==
  \E conn \in Conns, port, cpPort \in Ports, cpChan \in ChanIds,
     order \in Orders, v \in Versions, ph \in Heights :
       ChanOpenTry(c, conn, port, cpPort, cpChan, order, v, ph)
OpenAck(c) ==
  \E id, cpChan \in ChanIds, v \in Versions, ph \in Heights :
    ChanOpenAck(c, id, cpChan, v, ph)
OpenConfirm(c) == \E id \in ChanIds, ph \in Heights : ChanOpenConfirm(c, id, ph)
CloseInit(c) == \E id \in ChanIds : ChanCloseInit(c, id)
CloseConfirm(c) == \E id \in ChanIds, ph \in Heights : ChanCloseConfirm(c, id, ph)

Next ==
  \E c \in Chains :
    \/ Produce(c)
    \/ Update(c)
    \/ OpenInit(c)
    \/ OpenTry(c)
    \/ OpenAck(c)
    \/ OpenConfirm(c)
    \/ CloseInit(c)
    \/ CloseConfirm(c)

Spec == Init /\ [][Next]_vars

\* Blocks keep coming, headers are relayed, and a relayer finishes what it can:
\* a confirmation that stays acceptable is submitted.  Starting, answering and
\* closing a channel are nobody's duty.
FairSpec ==
  /\ Spec
  /\ \A c \in Chains :
       /\ WF_vars(Produce(c))
       /\ WF_vars(Update(c))
       /\ WF_vars(OpenConfirm(c))
       /\ WF_vars(CloseConfirm(c))

----------------------------------------------------------------------------
Ends(c) == {i \in ChanIds : store[c][i] # None}

\* The store holds channel ends, which know their counterparty channel exactly
\* when they are past Init.
TypeOK ==
  /\ client \in [Chains -> ClientState([ChanIds -> ChannelEnd \union {None}])]
  /\ \A c \in Chains : \A i \in ChanIds :
       \/ store[c][i] = None
       \/ /\ store[c][i] \in ChannelEnd
          /\ store[c][i].state = "Init" <=> store[c][i].cpChan = 0

\* Ends i of c and j of the other chain are the two ends of one channel.
Partners(c, i, j) ==
  LET end == store[c][i]  other == store[Other(c)][j] IN
  /\ end.cpChan = j /\ other.cpChan = i
  /\ end.port = other.cpPort /\ end.cpPort = other.port
  /\ end.ordering = other.ordering
  /\ end.conn = other.conn
  /\ end.version = other.version

\* When the handlers have opened an end, the other chain has the end it names;
\* that one names it back, on the same connection, with the same ports, order
\* and version, and is past Init.  So no two channels share an end.
OpenEndsAgree ==
  \A c \in Chains : \A i \in Ends(c) :
    LET j == store[c][i].cpChan IN
    store[c][i].state = "Open" =>
      j \in Ends(Other(c)) /\ Partners(c, i, j)

\* The version of an end past Init is what the application answered in
\* chan_open_try to a proposal that the initiator's application let pass, and
\* the initiator's application has accepted that answer before either end is
\* open: the proposal that chan_open_init stores, whatever the callback made of
\* it, survives in no end that carries packets unless it was the answer too.
VersionNegotiated ==
  \A c \in Chains : \A i \in Ends(c) :
    LET end == store[c][i] IN
    /\ end.state # "Init" =>
         \E v \in Versions : /\ <<end.ordering, v>> \in AcceptsInit
                             /\ end.version = TryVersion[<<end.ordering, v>>]
    /\ end.state = "Open" => end.version \in AcceptsAck

\* An end never disappears or changes its port, order or connection; it opens
\* from Init or TryOpen, closes for good, and keeps its partner and version
\* once it has a partner.
EndsOnlyProgress ==
  [][\A c \in Chains : \A i \in Ends(c) :
       LET old == store[c][i]  new == store'[c][i] IN
       /\ new # None
       /\ <<old.state, new.state>> \in
            {<<s, s>> : s \in {"Init", "TryOpen", "Open", "Closed"}}
            \union {<<"Init", "Open">>, <<"TryOpen", "Open">>,
                    <<"TryOpen", "Closed">>, <<"Open", "Closed">>}
       /\ [new EXCEPT !.state = old.state, !.version = old.version,
                      !.cpChan = old.cpChan] = old
       /\ old.cpChan # 0 => new.cpChan = old.cpChan /\ new.version = old.version]_vars

\* A chain whose application closes nothing closes an end only when the other
\* chain has closed the partner of that very end.
ClosedWithPartner ==
  \A c \in Chains \ Closers : \A i \in Ends(c) :
    LET j == store[c][i].cpChan IN
    store[c][i].state = "Closed" =>
      /\ j \in Ends(Other(c)) /\ Partners(c, i, j)
      /\ store[Other(c)][j].state = "Closed"

\* Another header of chain c is to come.
MoreBlocks(c) == host_height(c) < LastHeight[c]

\* A TryOpen end whose partner has opened does not stay TryOpen: chan_open_confirm
\* accepts it, or chan_close_confirm if the partner was closed meanwhile.
OpeningCompletes ==
  \A c \in Chains : \A i, j \in ChanIds :
    /\ i \in Ends(c) /\ j \in Ends(Other(c))
    /\ store[c][i].state = "Open" /\ store[c][i].cpChan = j /\ MoreBlocks(c)
    ~> j \in Ends(Other(c)) /\ store[Other(c)][j].state # "TryOpen"

\* When one end of a channel is closed the other end is closed too in the end,
\* whatever it was doing, if it is (or becomes) the partner of the closed one.
ClosingSpreads ==
  \A c \in Chains : \A i, j \in ChanIds :
    /\ i \in Ends(c) /\ j \in Ends(Other(c))
    /\ store[c][i].state = "Closed" /\ store[c][i].cpChan = j /\ MoreBlocks(c)
    ~> /\ j \in Ends(Other(c))
       /\ store[Other(c)][j].state = "Closed" \/ store[Other(c)][j].cpChan # i
============================================================================

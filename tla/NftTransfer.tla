---------------------------- MODULE NftTransfer ----------------------------
(***************************************************************************)
(* The ICS-721 application on several channels between chains: sending     *)
(* tokens of a class, several in one packet, and the callbacks that        *)
(* receive, acknowledge and time out such a packet.  Channels are          *)
(* PacketDelivery, as in TokenTransfer.                                    *)
(*                                                                         *)
(* The host keeps one record per class and token: its owner, an account or *)
(* the channel end that holds it in escrow, its URI and its data.  Class   *)
(* identifiers carry a trace of the channels passed, like denominations.   *)
(* A host refuses what its own rules forbid (a mint of a token that        *)
(* exists, an unescrow of one that is not there) and may refuse any token  *)
(* it receives for reasons of its own.                                     *)
(***************************************************************************)
EXTENDS TokenTrace, FiniteSets

CONSTANTS
  End, Peer(_),     \* channel ends [chain, port, chan], and the other end
  Names,            \* the account names, the same on every chain
  Receivers,        \* receivers put in a transfer, which need not be names
  BaseClass,        \* the class that Home has at the start
  Home,
  Tokens,           \* token identifiers, integers so that they have an order
  Metadata,         \* what a token may have at the start: a URI, data
  FindsBurnt,       \* whether the host's get_nft still finds a burnt token
  None,
  MaxHops,          \* bound: hops of a trace
  MaxSends          \* bound: packets sent on all channels together

VARIABLES
  nfts,      \* nfts[c][k][t]: the record of token t of class k on chain c
  classes,   \* classes[c]: the classes known on c
  leaked,    \* tokens that a receive handed out before it failed
  sent, received, settled, reply

vars == <<nfts, classes, leaked, sent, received, settled, reply>>

Channel == INSTANCE PacketDelivery WITH
  Packets <- {}, Replies <- {"success", "error", "unreadable"},
  Ordered <- FALSE, NoReplies <- [s \in 1..MaxSends |-> "none"]

Chains == {e.chain : e \in End}
Account(c, n) == [chain |-> c, name |-> n]
Hops == {TracePrefix(e.port, e.chan) : e \in End}
Classes == [trace : UNION {[1..n -> Hops] : n \in 0..MaxHops}, base : {BaseClass}]
Native == [trace |-> <<>>, base |-> BaseClass]

\* An absent URI or data is None; a present one is told apart by its token.
Nft(holder, uri, data) == [owner |-> holder, uri |-> uri, data |-> data]

Holders == {Account(c, n) : c \in Chains, n \in Names} \cup End
Records == [owner : Holders, uri : Tokens \cup {None}, data : Tokens \cup {None}]

ASSUME HomeAssumption == Home \in Chains
ASSUME TokensAssumption == IsFiniteSet(Tokens) /\ Tokens \subseteq Nat
ASSUME NoneAssumption == None \notin Tokens /\ None \notin Records
ASSUME FlagAssumption == FindsBurnt \in BOOLEAN
\* A chain names its ends by identifiers that can be read back.
ASSUME EndAssumption == End \subseteq [chain : Chains, port : PortIds, chan : ChannelIds]
ASSUME PeerAssumption ==
  \A e \in End : Peer(e) \in End /\ Peer(Peer(e)) = e /\ Peer(e) # e
\* PrefixedClassId::from_str leaves no slash in the base and no blank base.
ASSUME BaseAssumption == BaseClass = <<BaseClass[1]>> /\ BaseClass[1] # Blank
ASSUME BoundsAssumption == MaxHops \in Nat /\ MaxSends \in Nat

----------------------------------------------------------------------------
\* Classes: class.rs has traces of its own, which work as denominations do.

ClassToText(class) == DenomToText(class)
ClassFromStr(text) == DenomFromStr(text)
class_receiver_is_source(end, class) ==
  is_receiver_chain_source(end.port, end.chan, class)
class_sender_is_source(end, class) == ~ class_receiver_is_source(end, class)
class_remove_prefix(class, end) ==
  remove_trace_prefix(class, TracePrefix(end.port, end.chan))
class_add_prefix(class, end) ==
  add_trace_prefix(class, TracePrefix(end.port, end.chan))

----------------------------------------------------------------------------
\* NftTransferExecutionContext, the host's side, on the records of a chain.
\* The handlers call it in loops over tokens that are all different: no turn
\* touches the token of another, so the operators take the set of them.

Holds(ns, class, t, holder) == ns[class][t] # None /\ ns[class][t].owner = holder

burn_nft(ns, class, set) ==
  [ns EXCEPT ![class] = [t \in Tokens |-> IF t \in set THEN None ELSE ns[class][t]]]

give_nft(ns, class, set, holder) ==
  [ns EXCEPT ![class] = [t \in Tokens |->
     IF t \in set THEN [ns[class][t] EXCEPT !.owner = holder] ELSE ns[class][t]]]

\* A token is minted with the URI and the data at its place in the packet.
At(seq, i) == IF i \in DOMAIN seq THEN seq[i] ELSE None
PlaceOf(data, t) == CHOOSE i \in DOMAIN data.tokens : data.tokens[i] = t

mint_nft(ns, class, set, holder, data) ==
  [ns EXCEPT ![class] = [t \in Tokens |->
     IF t \in set THEN Nft(holder, At(data.uris, PlaceOf(data, t)),
                                   At(data.datas, PlaceOf(data, t)))
     ELSE ns[class][t]]]

----------------------------------------------------------------------------
\* Sending.

\* TokenIds: without duplicates, sorted; the i-th has i - 1 smaller ones.
TokenIds(set) ==
  [i \in 1..Cardinality(set) |->
     CHOOSE t \in set : Cardinality({u \in set : u < t}) = i - 1]

\* validate_basic: a URI (and data) for every token or for none.
validate_basic(data) ==
  /\ data.tokens # <<>>
  /\ Len(data.uris) \in {0, Len(data.tokens)}
  /\ Len(data.datas) \in {0, Len(data.tokens)}

\* Mutant of PacketDataOf: what is there is sent, in order.
PacketDataAsFound(ns, class, set, sender, receiver) ==
  LET ids == TokenIds(set)
      WithUri == TokenIds({t \in set : ns[class][t].uri # None})
  IN [class  |-> ClassToText(class), tokens |-> ids,
      uris   |-> [i \in DOMAIN WithUri |-> ns[class][WithUri[i]].uri],
      datas  |-> [i \in DOMAIN WithUri |-> ns[class][WithUri[i]].data],
      sender |-> sender, receiver |-> receiver]

\* The packet data of a message: URIs and data of the tokens that have both.
PacketDataOf(ns, class, set, sender, receiver) ==
  LET ids == TokenIds(set)
      full == TokenIds({t \in set : ns[class][t].uri # None /\ ns[class][t].data # None})
  IN [class  |-> ClassToText(class), tokens |-> ids,
      uris   |-> [i \in DOMAIN full |-> ns[class][full[i]].uri],
      datas  |-> [i \in DOMAIN full |-> ns[class][full[i]].data],
      sender |-> sender, receiver |-> receiver]

\* send_nft_transfer: validate and execute.  execute reads the token after it
\* burnt it, and fails on a host that no longer finds it.
SendNftTransfer(e, sender, receiver, class, set) ==
  LET ns   == nfts[e.chain]
      data == PacketDataOf(ns, class, set, sender, receiver)
      source == class_sender_is_source(e, class)
  IN
  /\ sender \in Names
  /\ set # {}
  /\ \A t \in set : Holds(ns, class, t, Account(e.chain, sender))
  /\ validate_basic(data)
  /\ class \in classes[e.chain]
  /\ source \/ FindsBurnt
  /\ nfts' = [nfts EXCEPT ![e.chain] =
       IF source THEN give_nft(ns, class, set, e) ELSE burn_nft(ns, class, set)]
  /\ UNCHANGED <<classes, leaked>>
  /\ Channel!DSend(e, [seq |-> Len(sent[e]) + 1, data |-> data])

----------------------------------------------------------------------------
\* Receiving.

\* The turns of the loop over the tokens of set, on the records of the chain.
RecvTokens(e, class, data, set, ns) ==
  LET to == Account(e.chain, data.receiver)
  IN IF class_receiver_is_source(Peer(e), class)
     THEN give_nft(ns, class_remove_prefix(class, Peer(e)), set, to)
     ELSE mint_nft(ns, class_add_prefix(class, e), set, to, data)

\* unescrow_nft_validate or mint_nft_validate by the host's own rules.
TokenAccepted(e, class, t) ==
  IF class_receiver_is_source(Peer(e), class)
  THEN Holds(nfts[e.chain], class_remove_prefix(class, Peer(e)), t, e)
  ELSE nfts[e.chain][class_add_prefix(class, e)][t] = None

\* The tokens of the first turns of the loop.
Given(data, turns) == {data.tokens[i] : i \in 1..turns}

\* process_recv_packet_execute validates and executes token by token: the
\* first refused token ends the loop, after done turns, and leaves what was
\* done before it.  A class is made (create_or_update_class) before its first
\* token; a host that refuses the class is one with receiving not enabled.
process_recv_packet_execute(e, p, class, refuses, enabled, text, done) ==
  LET data  == p.data
      n     == Len(data.tokens)
      Fine(i) == TokenAccepted(e, class, data.tokens[i]) /\ data.tokens[i] \notin refuses
      start == enabled /\ data.receiver \in Names
      given == Given(data, done)
      ok    == start /\ done = n
      minted == start /\ ~ class_receiver_is_source(Peer(e), class)
  IN
  /\ refuses \subseteq Given(data, n)
  /\ IF start THEN (\A i \in 1..done : Fine(i)) /\ (done < n => ~ Fine(done + 1))
     ELSE done = 0
  /\ ok => text = "error"   \* only one choice when there is no error
  /\ nfts' = [nfts EXCEPT ![e.chain] = RecvTokens(e, class, data, given, nfts[e.chain])]
  /\ classes' = [classes EXCEPT ![e.chain] =
       IF minted THEN @ \cup {class_add_prefix(class, e)} ELSE @]
  /\ leaked' = IF ok THEN leaked ELSE leaked \cup given
  /\ Channel!DDeliver(e, p, IF ok THEN "success" ELSE text)

RecvPacket(e, p) ==
  \E class \in ClassFromStr(p.data.class),
     refuses \in SUBSET Tokens, enabled \in BOOLEAN,
     text \in {"error", "unreadable"}, done \in 0..Len(p.data.tokens) :
    process_recv_packet_execute(e, p, class, refuses, enabled, text, done)

----------------------------------------------------------------------------
\* Settling.

\* refund_packet_nft: every token is validated, then every one is given back.
RefundedAll(e, class, data) ==
  LET to  == Account(e.chain, data.sender)
      all == Channel!Elements(data.tokens)
  IN IF class_sender_is_source(e, class) THEN give_nft(nfts[e.chain], class, all, to)
     ELSE mint_nft(nfts[e.chain], class, all, to, data)

refund_packet_nft(e, class, data) ==
  /\ \A i \in DOMAIN data.tokens :
       IF class_sender_is_source(e, class)
       THEN Holds(nfts[e.chain], class, data.tokens[i], e)
       ELSE nfts[e.chain][class][data.tokens[i]] = None
  /\ nfts' = [nfts EXCEPT ![e.chain] = RefundedAll(e, class, data)]
  /\ UNCHANGED <<classes, leaked>>

\* Mutant of AcknowledgePacket: the test of the answer is left out.
AcknowledgeRefundsAll(e, p) ==
  \E class \in ClassFromStr(p.data.class) :
    /\ reply[Peer(e)][p.seq] # "unreadable"
    /\ refund_packet_nft(e, class, p.data)
    /\ Channel!DAcknowledge(e, p)

\* on_acknowledgement_packet: refused unless data and answer can be read.
AcknowledgePacket(e, p) ==
  \E class \in ClassFromStr(p.data.class) :
    /\ reply[Peer(e)][p.seq] # "unreadable"
    /\ IF reply[Peer(e)][p.seq] = "success" THEN UNCHANGED <<nfts, classes, leaked>>
       ELSE refund_packet_nft(e, class, p.data)
    /\ Channel!DAcknowledge(e, p)

\* on_timeout_packet, for MsgTimeout and MsgTimeoutOnClose alike.
TimeoutPacket(e, p) ==
  \E class \in ClassFromStr(p.data.class) :
    /\ refund_packet_nft(e, class, p.data)
    /\ Channel!DTimeout(e, p)

----------------------------------------------------------------------------
Packets(e) == Channel!Elements(sent[e])
SentSoFar == UNION {{e} \X DOMAIN sent[e] : e \in End}

\* All tokens are with one account of Home.
Init ==
  /\ \E who \in Names, meta \in [Tokens -> Metadata] :
       nfts = [c \in Chains |-> [k \in Classes |-> [t \in Tokens |->
                 IF c # Home \/ k # Native THEN None
                 ELSE Nft(Account(Home, who), IF "uri" \in meta[t] THEN t ELSE None,
                                             IF "data" \in meta[t] THEN t ELSE None)]]]
  /\ classes = [c \in Chains |-> IF c = Home THEN {Native} ELSE {}]
  /\ leaked = {}
  /\ Channel!DInit

Send(e) ==
  \E sender \in Names, receiver \in Receivers, class \in Classes, set \in SUBSET Tokens :
    /\ Cardinality(SentSoFar) < MaxSends
    /\ class_sender_is_source(e, class) => Len(class.trace) < MaxHops
    /\ SendNftTransfer(e, sender, receiver, class, set)

Next ==
  \E e \in End :
    \/ Send(e)
    \/ \E p \in Packets(Peer(e)) : RecvPacket(e, p)
    \/ \E p \in Packets(e) : AcknowledgePacket(e, p)
    \/ \E p \in Packets(e) : TimeoutPacket(e, p)

Spec == Init /\ [][Next]_vars

----------------------------------------------------------------------------
\* The records of t that an account owns, on any chain and of any class.
Owned(t) == {x \in Chains \X Classes :
               LET n == nfts[x[1]][x[2]][t] IN n # None /\ n.owner \notin End}
\* The packets that carry t and neither delivered it nor gave it back.
UnderWay(t) ==
  UNION {{<<e, p>> : p \in
    {q \in Packets(e) :
       /\ \E i \in DOMAIN q.data.tokens : q.data.tokens[i] = t
       /\ ~ ( /\ q \in Channel!Elements(received[Peer(e)])
              /\ reply[Peer(e)][q.seq] = "success")
       /\ \A s \in Channel!Elements(settled[e]) :
            s.packet = q => s.outcome = "success"}} : e \in End}

\* A token is with one account on one chain or under way in one packet, never
\* both and never twice.  Only a token that a receive handed out before it
\* failed may be in more places, but even that is never lost.
OneOwner ==
  \A t \in Tokens :
    LET places == Cardinality(Owned(t)) + Cardinality(UnderWay(t))
    IN  IF t \in leaked THEN places >= 1 ELSE places = 1

\* A voucher has the URI and the data of the token it stands for if that had
\* both, and neither otherwise, after any number of hops, returns and refunds.
VoucherMetadata ==
  \A c \in Chains, k \in Classes, t \in Tokens :
    (k.trace # <<>> /\ nfts[c][k][t] # None) =>
      LET n == nfts[c][k][t]
          o == nfts[Home][Native][t]
      IN IF o.uri # None /\ o.data # None THEN n.uri = t /\ n.data = t
         ELSE n.uri = None /\ n.data = None
============================================================================

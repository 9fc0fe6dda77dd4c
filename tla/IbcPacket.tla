----------------------------- MODULE IbcPacket -----------------------------
(***************************************************************************)
(* The life of packets on one channel between two chains: the ICS-04       *)
(* packet handlers (send, receive, acknowledge, time out, time out on      *)
(* close), the handlers that move the channel end while packets are in     *)
(* flight, and the client updates and blocks they depend on.               *)
(*                                                                         *)
(* A relayer may submit any message at any time, any number of times, with *)
(* a packet it made up and any proof height: a message is lost if nobody   *)
(* submits it and duplicated if two relayers do.  A message the handler    *)
(* rejects changes nothing and is therefore no step.  A Merkle proof is    *)
(* modelled by what it establishes: the value (or its absence) in the      *)
(* store that the consensus state at the proof height commits to.          *)
(*                                                                         *)
(* Ports, channel identifiers, connection hops and version are those of    *)
(* the one channel, which both ends agree on, and its connection is open.  *)
(***************************************************************************)
EXTENDS IbcHost

CONSTANTS
  Ordering,             \* "Ordered" or "Unordered"
  Senders,              \* the chains whose application sends packets
  MaxSeq,               \* bound: packets sent by one chain
  Data,                 \* packet data
  Timeouts,             \* <<height, timestamp>> pairs a packet may carry, 0 = unset
  Acks,                 \* acknowledgements an application may return
  ModuleMayClose,       \* whether the application accepts chan_close_init
  OneProofOpensManyPaths
    \* whether the client type accepts one proof for several paths: FALSE
    \* for ICS-07, whose proofs are checked against the key they are for

ASSUME OrderingAssumption == Ordering \in {"Ordered", "Unordered"}
ASSUME MaxSeqAssumption   == MaxSeq \in Nat
\* Packet::try_from rejects a packet without any timeout.
ASSUME TimeoutsAssumption == Timeouts \subseteq ((Nat \X Nat) \ {<<0, 0>>})
ASSUME SendersAssumption  == Senders \subseteq Chains
ASSUME FlagsAssumption    ==
  ModuleMayClose \in BOOLEAN /\ OneProofOpensManyPaths \in BOOLEAN
ASSUME AcksAssumption     == "timeout" \notin Acks /\ None \notin Acks

VARIABLES
  sent,       \* sent[c]: packets the application of c sent, in order
  received,   \* received[c]: packets on_recv_packet_execute got, in order
  settled     \* settled[c]: packets of c whose acknowledgement or timeout
              \* reached the application, in order, with the outcome

appVars == <<sent, received, settled>>
vars == <<header, client, store, sent, received, settled>>

Seqs == 1..MaxSeq
Packet == {[seq |-> s, data |-> d, timeoutHeight |-> o[1], timeoutTime |-> o[2]] :
             s \in Seqs, d \in Data, o \in Timeouts}
Commitments == [data : Data, timeoutHeight : Nat, timeoutTime : Nat]
ChannelState == {"TryOpen", "Open", "Closed"}

\* An absent entry of the store is no commitment.
ASSUME CommitmentsAssumption == None \notin Commitments

----------------------------------------------------------------------------
\* Timeouts.

\* TimeoutHeight::has_expired: strictly past the height; Never does not expire.
has_expired(timeoutHeight, h) == timeoutHeight # 0 /\ h > timeoutHeight

\* Timestamp::check_expiry = Expired: strictly past, and both are set.
TimestampExpired(now, timeoutTime) == timeoutTime # 0 /\ now > timeoutTime

\* Packet::timed_out, and the two early returns of recv_packet and send_packet.
timed_out(pkt, now, h) ==
  \/ has_expired(pkt.timeoutHeight, h)
  \/ TimestampExpired(now, pkt.timeoutTime)

\* Mutant of compute_packet_commitment: the timeouts are not hashed.
CommitmentWithoutTimeouts(pkt) ==
  [data |-> pkt.data, timeoutHeight |-> 0, timeoutTime |-> 0]

\* compute_packet_commitment binds the data and both timeouts.
compute_packet_commitment(pkt) ==
  [data |-> pkt.data, timeoutHeight |-> pkt.timeoutHeight,
   timeoutTime |-> pkt.timeoutTime]

HasCommitment(st, seq) == st.commit[seq] # None
HasAck(st, seq) == st.ack[seq] # None

\* The commitment in st is the one of pkt.
CommitmentIs(st, pkt) == st.commit[pkt.seq] = compute_packet_commitment(pkt)

----------------------------------------------------------------------------
\* Sending: called by the application, not by a relayer.

\* Mutant of send_packet_validate: the sequence is not compared.
SendAnySequence(c, pkt) ==
  LET cl == client[c] IN
  /\ store[c].chan # "Closed"
  /\ ClientActive(c)
  /\ ~ timed_out(pkt, cl.cons[cl.latest].time, cl.latest)

send_packet_validate(c, pkt) ==
  LET cl == client[c] IN
  /\ store[c].chan # "Closed"
  /\ ClientActive(c)
  /\ ~ timed_out(pkt, cl.cons[cl.latest].time, cl.latest)
  /\ pkt.seq = store[c].nextSeqSend

SentIn(st, pkt) ==
  [st EXCEPT !.nextSeqSend = @ + 1,
             !.commit[pkt.seq] = compute_packet_commitment(pkt)]

send_packet_execute(c, pkt) ==
  /\ store' = [store EXCEPT ![c] = SentIn(@, pkt)]
  /\ sent' = [sent EXCEPT ![c] = Append(@, pkt)]

SendPacket(c, pkt) ==
  /\ send_packet_validate(c, pkt)
  /\ send_packet_execute(c, pkt)
  /\ UNCHANGED <<hostVars, received, settled>>

----------------------------------------------------------------------------
\* Receiving.

\* Mutant of RecvSequenceValid: a sequence above the next one is let through.
RecvAnySequence(st, seq) == ~ HasAck(st, seq)

\* The last match of validate: on an ordered channel a sequence above the
\* next one is an error and one below it a no-op; on an unordered channel the
\* receipt that is looked up decides nothing and an existing acknowledgement
\* is an error.
RecvSequenceValid(st, seq) ==
  IF Ordering = "Ordered"
  THEN /\ seq <= st.nextSeqRecv
       /\ seq = st.nextSeqRecv => ~ HasAck(st, seq)
  ELSE ~ HasAck(st, seq)

\* Mutant of recv_packet_validate: the packet's timeouts are not checked.
RecvExpired(c, pkt, ph) ==
  /\ store[c].chan = "Open"
  /\ CanVerifyAt(c, ph)
  /\ ConnDelayPassed(c, ph)
  /\ CommitmentIs(ProvenStore(c, ph), pkt)
  /\ RecvSequenceValid(store[c], pkt.seq)

recv_packet_validate(c, pkt, ph) ==
  /\ store[c].chan = "Open"
  /\ ~ timed_out(pkt, host_timestamp(c), host_height(c))
  /\ CanVerifyAt(c, ph)
  /\ ConnDelayPassed(c, ph)
  /\ CommitmentIs(ProvenStore(c, ph), pkt)
  /\ RecvSequenceValid(store[c], pkt.seq)

AlreadyReceived(st, seq) ==
  IF Ordering = "Ordered" THEN seq < st.nextSeqRecv ELSE seq \in st.receipt

ReceivedIn(st, seq, ack) ==
  IF Ordering = "Ordered"
  THEN [st EXCEPT !.nextSeqRecv = @ + 1, !.ack[seq] = ack]
  ELSE [st EXCEPT !.receipt = @ \union {seq}, !.ack[seq] = ack]

\* The application is called and its acknowledgement stored, unless another
\* relayer already relayed the packet.
recv_packet_execute(c, pkt, ack) ==
  IF AlreadyReceived(store[c], pkt.seq)
  THEN UNCHANGED <<store, received>>
  ELSE /\ store' = [store EXCEPT ![c] = ReceivedIn(@, pkt.seq, ack)]
       /\ received' = [received EXCEPT ![c] = Append(@, pkt)]

RecvPacket(c, pkt, ph, ack) ==
  /\ recv_packet_validate(c, pkt, ph)
  /\ recv_packet_execute(c, pkt, ack)
  /\ UNCHANGED <<hostVars, sent, settled>>

----------------------------------------------------------------------------
\* Acknowledging.

\* Mutant of acknowledgement_packet_validate: an ordered channel is
\* acknowledged in any order.
AcknowledgeInAnyOrder(c, pkt, ph, ack) ==
  /\ store[c].chan = "Open"
  /\ HasCommitment(store[c], pkt.seq) =>
       /\ CommitmentIs(store[c], pkt)
       /\ CanVerifyAt(c, ph)
       /\ ConnDelayPassed(c, ph)
       /\ ProvenStore(c, ph).ack[pkt.seq] = ack

\* A packet without a commitment was settled already (or never sent): the
\* message is accepted and does nothing.
acknowledgement_packet_validate(c, pkt, ph, ack) ==
  /\ store[c].chan = "Open"
  /\ HasCommitment(store[c], pkt.seq) =>
       /\ CommitmentIs(store[c], pkt)
       /\ Ordering = "Ordered" => pkt.seq = store[c].nextSeqAck
       /\ CanVerifyAt(c, ph)
       /\ ConnDelayPassed(c, ph)
       /\ ProvenStore(c, ph).ack[pkt.seq] = ack

Settle(c, pkt, outcome) ==
  settled' = [settled EXCEPT ![c] = Append(@, [packet |-> pkt, outcome |-> outcome])]

AcknowledgedIn(st, seq) ==
  [st EXCEPT !.commit[seq] = None,
             !.nextSeqAck = IF Ordering = "Ordered" THEN seq + 1 ELSE @]

acknowledgement_packet_execute(c, pkt, ack) ==
  IF ~ HasCommitment(store[c], pkt.seq)
  THEN UNCHANGED <<store, settled>>
  ELSE /\ Settle(c, pkt, ack)
       /\ store' = [store EXCEPT ![c] = AcknowledgedIn(@, pkt.seq)]

AcknowledgePacket(c, pkt, ph, ack) ==
  /\ acknowledgement_packet_validate(c, pkt, ph, ack)
  /\ acknowledgement_packet_execute(c, pkt, ack)
  /\ UNCHANGED <<hostVars, sent, received>>

----------------------------------------------------------------------------
\* Timing out.

\* What proof_unreceived_on_b has to establish.  On an ordered channel the
\* proof is of the packet's own sequence at the next-receive path; the
\* sequence the message names is only compared with it.
UnreceivedIn(st, pkt, nextSeqRecvOnB) ==
  IF Ordering = "Ordered"
  THEN /\ pkt.seq >= nextSeqRecvOnB
       /\ st.nextSeqRecv = pkt.seq
  ELSE pkt.seq \notin st.receipt

\* Mutants of timeout_validate: the timeout is judged at the client's latest
\* height instead of the proof's; only the timeout height is looked at.
TimeoutAtLatest(c, pkt, ph, nextSeqRecvOnB) ==
  LET cl == client[c] IN
  /\ store[c].chan = "Open"
  /\ HasCommitment(store[c], pkt.seq) =>
       /\ CommitmentIs(store[c], pkt)
       /\ CanVerifyAt(c, ph)
       /\ timed_out(pkt, cl.cons[cl.latest].time, cl.latest)
       /\ ConnDelayPassed(c, ph)
       /\ UnreceivedIn(ProvenStore(c, ph), pkt, nextSeqRecvOnB)

TimeoutByHeightOnly(c, pkt, ph, nextSeqRecvOnB) ==
  /\ store[c].chan = "Open"
  /\ HasCommitment(store[c], pkt.seq) =>
       /\ CommitmentIs(store[c], pkt)
       /\ CanVerifyAt(c, ph)
       /\ has_expired(pkt.timeoutHeight, ph)
       /\ ConnDelayPassed(c, ph)
       /\ UnreceivedIn(ProvenStore(c, ph), pkt, nextSeqRecvOnB)

timeout_validate(c, pkt, ph, nextSeqRecvOnB) ==
  /\ store[c].chan = "Open"
  /\ HasCommitment(store[c], pkt.seq) =>
       /\ CommitmentIs(store[c], pkt)
       /\ CanVerifyAt(c, ph)
       /\ timed_out(pkt, client[c].cons[ph].time, ph)
       /\ ConnDelayPassed(c, ph)
       /\ UnreceivedIn(ProvenStore(c, ph), pkt, nextSeqRecvOnB)

\* Mutant of timeout_on_close_validate: the counterparty's end is not proven.
TimeoutOnOpen(c, pkt, ph, nextSeqRecvOnB) ==
  HasCommitment(store[c], pkt.seq) =>
    /\ CommitmentIs(store[c], pkt)
    /\ CanVerifyAt(c, ph)
    /\ ConnDelayPassed(c, ph)
    /\ UnreceivedIn(ProvenStore(c, ph), pkt, nextSeqRecvOnB)

\* The channel state is not looked at; the counterparty's end must be closed,
\* shown by the same proof bytes as the packet's absence.
timeout_on_close_validate(c, pkt, ph, nextSeqRecvOnB) ==
  HasCommitment(store[c], pkt.seq) =>
    /\ CommitmentIs(store[c], pkt)
    /\ CanVerifyAt(c, ph)
    /\ ProvenStore(c, ph).chan = "Closed"
    /\ ConnDelayPassed(c, ph)
    /\ UnreceivedIn(ProvenStore(c, ph), pkt, nextSeqRecvOnB)
    /\ OneProofOpensManyPaths

\* Mutants of TimedOutIn: the commitment stays; an ordered channel stays open.
TimedOutKeepsCommitment(st, seq) ==
  [st EXCEPT !.chan = IF Ordering = "Ordered" THEN "Closed" ELSE @]

TimedOutStaysOpen(st, seq) == [st EXCEPT !.commit[seq] = None]

TimedOutIn(st, seq) ==
  [st EXCEPT !.commit[seq] = None,
             !.chan = IF Ordering = "Ordered" THEN "Closed" ELSE @]

timeout_packet_execute(c, pkt) ==
  IF ~ HasCommitment(store[c], pkt.seq)
  THEN UNCHANGED <<store, settled>>
  ELSE /\ Settle(c, pkt, "timeout")
       /\ store' = [store EXCEPT ![c] = TimedOutIn(@, pkt.seq)]

TimeoutPacket(c, pkt, ph, nextSeqRecvOnB) ==
  /\ timeout_validate(c, pkt, ph, nextSeqRecvOnB)
  /\ timeout_packet_execute(c, pkt)
  /\ UNCHANGED <<hostVars, sent, received>>

TimeoutOnClose(c, pkt, ph, nextSeqRecvOnB) ==
  /\ timeout_on_close_validate(c, pkt, ph, nextSeqRecvOnB)
  /\ timeout_packet_execute(c, pkt)
  /\ UNCHANGED <<hostVars, sent, received>>

----------------------------------------------------------------------------
\* Channel handlers that run while packets are in flight.

WithState(st, state) == [st EXCEPT !.chan = state]
SetChannel(c, state) == store' = [store EXCEPT ![c] = WithState(@, state)]

\* Mutant of ChanOpenConfirm: the state of the own end is not verified.
OpenConfirmInAnyState(c, ph) ==
  /\ CanVerifyAt(c, ph)
  /\ ProvenStore(c, ph).chan = "Open"
  /\ SetChannel(c, "Open")
  /\ UNCHANGED <<hostVars, appVars>>

ChanOpenConfirm(c, ph) ==
  /\ store[c].chan = "TryOpen"
  /\ CanVerifyAt(c, ph)
  /\ ProvenStore(c, ph).chan = "Open"
  /\ SetChannel(c, "Open")
  /\ UNCHANGED <<hostVars, appVars>>

ChanCloseInit(c) ==
  /\ store[c].chan # "Closed"
  /\ ClientActive(c)
  /\ ModuleMayClose
  /\ SetChannel(c, "Closed")
  /\ UNCHANGED <<hostVars, appVars>>

ChanCloseConfirm(c, ph) ==
  /\ store[c].chan # "Closed"
  /\ CanVerifyAt(c, ph)
  /\ ProvenStore(c, ph).chan = "Closed"
  /\ SetChannel(c, "Closed")
  /\ UNCHANGED <<hostVars, appVars>>

----------------------------------------------------------------------------
\* The channel has been opened by ChanOpenAck on ChainA; ChainB may not have
\* processed ChanOpenConfirm yet.  New channels start all sequences at 1.
EmptyStore(chan) ==
  [chan |-> chan, nextSeqSend |-> 1, nextSeqRecv |-> 1, nextSeqAck |-> 1,
   commit |-> [s \in Seqs |-> None], receipt |-> {}, ack |-> [s \in Seqs |-> None]]

Init ==
  /\ \E b \in {"TryOpen", "Open"} :
       store = [c \in Chains |-> EmptyStore(IF c = ChainA THEN "Open" ELSE b)]
  /\ HostInit
  /\ sent = [c \in Chains |-> <<>>]
  /\ received = [c \in Chains |-> <<>>]
  /\ settled = [c \in Chains |-> <<>>]

Produce(c) == \E t \in 1..MaxTime : NewBlock(c, t) /\ UNCHANGED appVars
Update(c) == \E h \in 1..host_height(Other(c)), trusted \in Heights :
               UpdateClient(c, h, trusted) /\ UNCHANGED appVars
Send(c) == c \in Senders /\ \E pkt \in Packet : SendPacket(c, pkt)
Recv(c) == \E pkt \in Packet, ph \in Heights, ack \in Acks :
             RecvPacket(c, pkt, ph, ack)
Acknowledge(c) == \E pkt \in Packet, ph \in Heights, ack \in Acks :
                    AcknowledgePacket(c, pkt, ph, ack)
Timeout(c) == \E pkt \in Packet, ph \in Heights, n \in Seqs :
                TimeoutPacket(c, pkt, ph, n)
TimeoutClosed(c) == \E pkt \in Packet, ph \in Heights, n \in Seqs :
                      TimeoutOnClose(c, pkt, ph, n)
OpenConfirm(c)  == \E ph \in Heights : ChanOpenConfirm(c, ph)
CloseConfirm(c) == \E ph \in Heights : ChanCloseConfirm(c, ph)

Next ==
  \E c \in Chains :
    \/ Produce(c)
    \/ Update(c)
    \/ Send(c)
    \/ Recv(c)
    \/ Acknowledge(c)
    \/ Timeout(c)
    \/ TimeoutClosed(c)
    \/ OpenConfirm(c)
    \/ ChanCloseInit(c)
    \/ CloseConfirm(c)

Spec == Init /\ [][Next]_vars

----------------------------------------------------------------------------
(***************************************************************************)
(*                               PROPERTIES                                *)
(***************************************************************************)
Store ==
  [chan : ChannelState, nextSeqSend : 1..(MaxSeq + 1),
   nextSeqRecv : 1..(MaxSeq + 1), nextSeqAck : 1..(MaxSeq + 1),
   commit : [Seqs -> Commitments \union {None}],
   receipt : SUBSET Seqs, ack : [Seqs -> Acks \union {None}]]

\* Every variable keeps its type; in particular the sequence counters stay
\* within one of the last packet and no commitment, receipt or acknowledgement
\* appears for a sequence nobody can have sent.
TypeOK ==
  /\ store \in [Chains -> Store]
  /\ header \in [Chains -> Seq([time : Nat, root : Store])]
  /\ \A c \in Chains : Len(header[c]) \in Heights
  /\ client \in [Chains -> ClientState(Store)]
  /\ sent \in [Chains -> Seq(Packet)]
  /\ received \in [Chains -> Seq(Packet)]
  /\ settled \in [Chains -> Seq([packet : Packet, outcome : Acks \union {"timeout"}])]

SettledSeqs(c) == {settled[c][i].packet.seq : i \in DOMAIN settled[c]}
WasReceived(c, pkt) == \E i \in DOMAIN received[c] : received[c][i] = pkt
WasSent(c, pkt)     == \E i \in DOMAIN sent[c] : sent[c][i] = pkt
TimedOut(c, pkt) ==
  \E i \in DOMAIN settled[c] :
     settled[c][i].packet = pkt /\ settled[c][i].outcome = "timeout"

\* on_recv_packet_execute sees a packet at most once however often it is
\* relayed, and only a packet the other chain's application sent, with the
\* data and timeouts it was sent with.
DeliveredAtMostOnce ==
  \A c \in Chains :
    /\ \A i \in DOMAIN received[c] : WasSent(Other(c), received[c][i])
    /\ \A i, j \in DOMAIN received[c] :
         received[c][i].seq = received[c][j].seq => i = j

\* A packet that timed out on its source was not, and never will be, delivered
\* on its destination: timeouts judged by the client's view of the destination
\* (proof height, consensus time) and receipts judged by the destination's own
\* clock never disagree, whatever the lag between the chains.
NeverReceivedAndTimedOut ==
  \A c \in Chains : \A i \in DOMAIN received[c] :
    ~ TimedOut(Other(c), received[c][i])

\* A packet is settled (acknowledged or timed out) at most once, and exactly
\* the packets sent and not yet settled have a commitment: neither handler can
\* run its application callback twice or lose a packet.
SettledAtMostOnce ==
  \A c \in Chains :
    /\ \A i, j \in DOMAIN settled[c] :
         settled[c][i].packet.seq = settled[c][j].packet.seq => i = j
    /\ \A i \in DOMAIN settled[c] : WasSent(c, settled[c][i].packet)
    /\ {s \in Seqs : HasCommitment(store[c], s)} =
         {sent[c][i].seq : i \in DOMAIN sent[c]} \ SettledSeqs(c)

\* On an ordered channel packets are delivered in the order they were sent,
\* without gaps, and acknowledged in that order.
OrderedDelivery ==
  Ordering = "Ordered" =>
    \A c \in Chains :
      /\ Len(received[c]) <= Len(sent[Other(c)])
      /\ \A i \in DOMAIN received[c] : received[c][i] = sent[Other(c)][i]
      /\ \A i \in DOMAIN settled[c] :
           settled[c][i].outcome # "timeout" => settled[c][i].packet.seq = i

\* On an ordered channel a timeout is the end: the end that timed the packet
\* out is closed and the other never delivers that packet or a later one.
OrderedTimeoutIsFinal ==
  Ordering = "Ordered" =>
    \A c \in Chains : \A i \in DOMAIN settled[c] :
      settled[c][i].outcome = "timeout" =>
        /\ store[c].chan = "Closed"
        /\ \A j \in DOMAIN received[Other(c)] :
             received[Other(c)][j].seq < settled[c][i].packet.seq

\* A closed channel end stays closed, sends nothing and delivers nothing.
ClosedEndIsDead ==
  [][\A c \in Chains :
       store[c].chan = "Closed" =>
         /\ store'[c].chan = "Closed"
         /\ sent'[c] = sent[c]
         /\ received'[c] = received[c]]_vars

----------------------------------------------------------------------------
(***************************************************************************)
(* Why a timeout and a receipt exclude each other, as an invariant that    *)
(* every step preserves.                                                   *)
(***************************************************************************)

\* Block times do not decrease.
HeadersInv ==
  \A c \in Chains : \A p \in 1..Len(header[c]) :
    header[c][p].time <= host_timestamp(c)

\* What a client stores is what the other chain's headers say.
ClientsInv ==
  \A c \in Chains : \A h \in Heights :
    client[c].cons[h] # None =>
      /\ h <= Len(header[Other(c)])
      /\ client[c].cons[h].time = header[Other(c)][h].time
      /\ client[c].cons[h].root = header[Other(c)][h].root

\* An end that some header shows closed is closed.
ClosedInv ==
  \A c \in Chains : \A p \in 1..Len(header[c]) :
    header[c][p].root.chan = "Closed" => store[c].chan = "Closed"

\* A delivered packet counts as received, and a header that does not show it
\* yet is one at which it had not timed out and the end was not closed.
ReceivedInv ==
  \A c \in Chains : \A i \in DOMAIN received[c] :
    /\ AlreadyReceived(store[c], received[c][i].seq)
    /\ \A p \in 1..Len(header[c]) :
         \/ AlreadyReceived(header[c][p].root, received[c][i].seq)
         \/ /\ ~ timed_out(received[c][i], header[c][p].time, p)
            /\ header[c][p].root.chan # "Closed"

\* A packet that timed out can no longer be delivered, and was not.
Undeliverable(c, pkt) ==
  timed_out(pkt, host_timestamp(c), host_height(c)) \/ store[c].chan = "Closed"

TimedOutInv ==
  \A c \in Chains : \A i \in DOMAIN settled[c] :
    settled[c][i].outcome = "timeout" =>
      /\ Undeliverable(Other(c), settled[c][i].packet)
      /\ ~ WasReceived(Other(c), settled[c][i].packet)

\* What the chains and clients know of each other is consistent with what the
\* handlers did: the strengthening of NeverReceivedAndTimedOut.
TimeoutSafety ==
  HeadersInv /\ ClientsInv /\ ClosedInv /\ ReceivedInv /\ TimedOutInv

----------------------------------------------------------------------------
\* The chains implement the channel the applications are promised: hiding
\* blocks, clients, proofs and stores, every step of the handlers is a step of
\* PacketDelivery or changes nothing the applications can see.
Delivery == INSTANCE PacketDelivery WITH
  End <- Chains, Peer <- Other, Packets <- Packet, Replies <- Acks,
  Ordered <- (Ordering = "Ordered"), NoReplies <- [s \in Seqs |-> None],
  reply <- [c \in Chains |-> store[c].ack]

ImplementsDelivery == Delivery!DSpec

----------------------------------------------------------------------------
\* Chains keep producing blocks and at least one relayer keeps working: a
\* client update, packet message or handshake message that stays acceptable is
\* eventually submitted.  Nothing obliges an application to send.
Relaying(c) ==
  /\ WF_vars(Produce(c))
  /\ WF_vars(Update(c))
  /\ WF_vars(Recv(c))
  /\ WF_vars(Acknowledge(c))
  /\ WF_vars(Timeout(c))
  /\ WF_vars(OpenConfirm(c))

FairSpec == Spec /\ \A c \in Chains : Relaying(c)

\* Every packet sent on a channel that nobody closes is eventually settled at
\* its source, by the acknowledgement or by the timeout: a timeout that races a
\* late receipt cannot leave both handlers refusing the packet for ever.
EverySentPacketSettles ==
  \A c \in Chains : \A s \in Seqs :
    Len(sent[c]) >= s ~> s \in SettledSeqs(c)

\* On an ordered channel no packet waits for ever behind one that was not
\* received: each is eventually settled, or the timeout of an earlier one has
\* closed the end it was sent from.
NoPacketStuck ==
  \A c \in Senders : \A s \in Seqs :
    Len(sent[c]) >= s ~> s \in SettledSeqs(c) \/ store[c].chan = "Closed"

----------------------------------------------------------------------------
(***************************************************************************)
(* A statement a test of the repository makes of a handler that the        *)
(* handler, as modelled above, does not meet.                              *)
(***************************************************************************)

\* The timeout_on_close tests: "Happy path: validation should succeed."  With
\* the counterparty's end proven closed and the packet proven unreceived,
\* MsgTimeoutOnClose should be accepted.
ClosedIsTimedOut ==
  \A c \in Chains : \A i \in DOMAIN sent[c] : \A ph \in Heights :
    LET pkt == sent[c][i] IN
    /\ CommitmentIs(store[c], pkt)
    /\ CanVerifyAt(c, ph)
    /\ ConnDelayPassed(c, ph)
    /\ ProvenStore(c, ph).chan = "Closed"
    /\ UnreceivedIn(ProvenStore(c, ph), pkt, ProvenStore(c, ph).nextSeqRecv)
    => timeout_on_close_validate(c, pkt, ph, ProvenStore(c, ph).nextSeqRecv)

============================================================================

-------------------------- MODULE IbcPacketProofs --------------------------
(***************************************************************************)
(* Proofs about IbcPacket, for every number of blocks and packets, every   *)
(* set of timeouts, both orderings, any delay and trusting period: types,  *)
(* then that no packet is both received and timed out, then the books of a *)
(* channel and what follows from them.                                     *)
(***************************************************************************)
EXTENDS IbcPacket, TmClientStateProofs, SequenceTheorems

LEMMA OtherIsChain ==
  \A c \in Chains : Other(c) \in Chains /\ Other(c) # c /\ Other(Other(c)) = c
  BY ChainsAssumption DEF Chains, Other

LEMMA PacketType ==
  ASSUME NEW pkt \in Packet
  PROVE  /\ pkt.seq \in Seqs
         /\ pkt.timeoutHeight \in Nat
         /\ pkt.timeoutTime \in Nat
         /\ compute_packet_commitment(pkt) \in Commitments
  BY TimeoutsAssumption DEF Packet, compute_packet_commitment, Commitments

\* Appending to the log of one chain.
LEMMA AppendType ==
  ASSUME NEW E, NEW log \in [Chains -> Seq(E)], NEW c \in Chains, NEW e \in E
  PROVE  [log EXCEPT ![c] = Append(@, e)] \in [Chains -> Seq(E)]
  OBVIOUS

\* The packets the applications have seen.
LogsOK ==
  /\ sent \in [Chains -> Seq(Packet)]
  /\ received \in [Chains -> Seq(Packet)]
  /\ settled \in [Chains -> Seq([packet : Packet, outcome : Acks \union {"timeout"}])]

LEMMA EmptyStoreType ==
  ASSUME NEW chan \in ChannelState
  PROVE  EmptyStore(chan) \in Store
  BY MaxSeqAssumption DEF EmptyStore, Store, Seqs

LEMMA InitTypeOK == Init => TypeOK
  <1> SUFFICES ASSUME Init PROVE TypeOK
    OBVIOUS
  <1>1. store \in [Chains -> Store]
    <2>1. PICK b \in {"TryOpen", "Open"} :
            store = [c \in Chains |-> EmptyStore(IF c = ChainA THEN "Open" ELSE b)]
      BY DEF Init
    <2> QED BY <2>1, EmptyStoreType DEF ChannelState
  <1>2. /\ header \in [Chains -> Seq([time : Nat, root : Store])]
        /\ \A c \in Chains : Len(header[c]) \in Heights
    BY <1>1, MaxHeightAssumption DEF Init, HostInit, Heights
  <1>3. client \in [Chains -> ClientState(Store)]
    <2>1. SUFFICES ASSUME NEW c \in Chains
                   PROVE initialise([height |-> 1, time |-> 1, root |-> store[Other(c)]], 1, 1)
                           \in ClientState(Store)
      BY DEF Init, HostInit
    <2>2. store[Other(c)] \in Store
      BY <1>1, OtherIsChain
    <2> QED BY <2>2 DEF initialise, ClientState, ConsensusState, NewConsensusState
  <1>4. LogsOK
    BY DEF Init, LogsOK
  <1> QED BY <1>1, <1>2, <1>3, <1>4 DEF TypeOK, LogsOK

----------------------------------------------------------------------------
\* What the handlers write keeps the type of a store.
LEMMA SentInType ==
  ASSUME NEW st \in Store, NEW pkt \in Packet, pkt.seq = st.nextSeqSend
  PROVE  SentIn(st, pkt) \in Store
  <1> DEFINE C == [st.commit EXCEPT ![pkt.seq] = compute_packet_commitment(pkt)]
             n == st.nextSeqSend + 1
  <1>1. pkt.seq \in Seqs /\ compute_packet_commitment(pkt) \in Commitments
    BY PacketType
  <1>2. C \in [Seqs -> Commitments \union {None}]
    BY <1>1 DEF Store
  <1>3. n \in 1..(MaxSeq + 1)
    BY <1>1, MaxSeqAssumption DEF Seqs
  <1>4. SentIn(st, pkt) = [st EXCEPT !.nextSeqSend = n, !.commit = C]
    BY DEF SentIn, Store
  <1> HIDE DEF C, n
  <1> QED BY <1>2, <1>3, <1>4 DEF Store

LEMMA ReceivedInType ==
  ASSUME NEW st \in Store, NEW seq \in Seqs, NEW ack \in Acks,
         RecvSequenceValid(st, seq), ~ AlreadyReceived(st, seq)
  PROVE  ReceivedIn(st, seq, ack) \in Store
  <1>1. CASE Ordering = "Ordered"
    <2>1. st.nextSeqRecv = seq
      BY <1>1, MaxSeqAssumption DEF RecvSequenceValid, AlreadyReceived, Store, Seqs
    <2> DEFINE A == [st.ack EXCEPT ![seq] = ack]
               n == st.nextSeqRecv + 1
    <2>2. A \in [Seqs -> Acks \union {None}]
      BY DEF Store
    <2>3. n \in 1..(MaxSeq + 1)
      BY <2>1, MaxSeqAssumption DEF Seqs
    <2>4. ReceivedIn(st, seq, ack) = [st EXCEPT !.nextSeqRecv = n, !.ack = A]
      BY <1>1 DEF ReceivedIn, Store
    <2> HIDE DEF A, n
    <2> QED BY <2>2, <2>3, <2>4 DEF Store
  <1>2. CASE Ordering # "Ordered"
    BY <1>2 DEF ReceivedIn, Store
  <1> QED BY <1>1, <1>2

LEMMA AcknowledgedInType ==
  ASSUME NEW st \in Store, NEW seq \in Seqs
  PROVE  AcknowledgedIn(st, seq) \in Store
  <1> DEFINE C == [st.commit EXCEPT ![seq] = None]
             n == IF Ordering = "Ordered" THEN seq + 1 ELSE st.nextSeqAck
  <1>1. C \in [Seqs -> Commitments \union {None}]
    BY DEF Store
  <1>2. n \in 1..(MaxSeq + 1)
    BY MaxSeqAssumption DEF Seqs, Store
  <1>3. AcknowledgedIn(st, seq) = [st EXCEPT !.commit = C, !.nextSeqAck = n]
    BY DEF AcknowledgedIn, Store
  <1> HIDE DEF C, n
  <1> QED BY <1>1, <1>2, <1>3 DEF Store

LEMMA TimedOutInType ==
  ASSUME NEW st \in Store, NEW seq \in Seqs
  PROVE  TimedOutIn(st, seq) \in Store
  BY DEF TimedOutIn, Store, ChannelState

LEMMA WithStateType ==
  ASSUME NEW st \in Store, NEW s \in ChannelState
  PROVE  WithState(st, s) \in Store
  BY DEF WithState, Store

----------------------------------------------------------------------------
\* Each handler keeps TypeOK.
LEMMA SendTypeOK ==
  ASSUME TypeOK, NEW c \in Chains, NEW pkt \in Packet, SendPacket(c, pkt)
  PROVE  TypeOK'
  <1>1. SentIn(store[c], pkt) \in Store
    BY SentInType DEF SendPacket, send_packet_validate, TypeOK
  <1>2. sent' \in [Chains -> Seq(Packet)]
    BY AppendType DEF SendPacket, send_packet_execute, TypeOK
  <1> QED BY <1>1, <1>2 DEF SendPacket, send_packet_execute, TypeOK, hostVars

LEMMA RecvTypeOK ==
  ASSUME TypeOK, NEW c \in Chains, NEW pkt \in Packet, NEW ph \in Heights,
         NEW ack \in Acks, RecvPacket(c, pkt, ph, ack)
  PROVE  TypeOK'
  <1>1. CASE AlreadyReceived(store[c], pkt.seq)
    BY <1>1 DEF RecvPacket, recv_packet_execute, TypeOK, hostVars
  <1>2. CASE ~ AlreadyReceived(store[c], pkt.seq)
    <2>1. ReceivedIn(store[c], pkt.seq, ack) \in Store
      BY <1>2, PacketType, ReceivedInType DEF RecvPacket, recv_packet_validate, TypeOK
    <2>2. received' = [received EXCEPT ![c] = Append(@, pkt)]
      BY <1>2 DEF RecvPacket, recv_packet_execute
    <2>3. received' \in [Chains -> Seq(Packet)]
      BY <2>2, AppendType DEF TypeOK
    <2> QED BY <1>2, <2>1, <2>3 DEF RecvPacket, recv_packet_execute, TypeOK, hostVars
  <1> QED BY <1>1, <1>2

LEMMA SettleType ==
  ASSUME TypeOK, NEW c \in Chains, NEW pkt \in Packet,
         NEW outcome \in Acks \union {"timeout"}, Settle(c, pkt, outcome)
  PROVE  settled' \in [Chains -> Seq([packet : Packet, outcome : Acks \union {"timeout"}])]
  <1>1. [packet |-> pkt, outcome |-> outcome]
          \in [packet : Packet, outcome : Acks \union {"timeout"}]
    OBVIOUS
  <1> QED BY <1>1, AppendType DEF TypeOK, Settle

LEMMA AckTypeOK ==
  ASSUME TypeOK, NEW c \in Chains, NEW pkt \in Packet, NEW ph \in Heights,
         NEW ack \in Acks, AcknowledgePacket(c, pkt, ph, ack)
  PROVE  TypeOK'
  <1>1. CASE ~ HasCommitment(store[c], pkt.seq)
    BY <1>1 DEF AcknowledgePacket, acknowledgement_packet_execute, TypeOK, hostVars
  <1>2. CASE HasCommitment(store[c], pkt.seq)
    <2>1. AcknowledgedIn(store[c], pkt.seq) \in Store
      BY PacketType, AcknowledgedInType DEF TypeOK
    <2>2. settled' \in [Chains -> Seq([packet : Packet, outcome : Acks \union {"timeout"}])]
      BY <1>2, SettleType DEF AcknowledgePacket, acknowledgement_packet_execute
    <2> QED BY <1>2, <2>1, <2>2
            DEF AcknowledgePacket, acknowledgement_packet_execute, TypeOK, hostVars
  <1> QED BY <1>1, <1>2

\* Both timeout messages run the same execute step.
LEMMA TimeoutTypeOK ==
  ASSUME TypeOK, NEW c \in Chains, NEW pkt \in Packet,
         timeout_packet_execute(c, pkt),
         UNCHANGED <<hostVars, sent, received>>
  PROVE  TypeOK'
  <1>1. CASE ~ HasCommitment(store[c], pkt.seq)
    BY <1>1 DEF timeout_packet_execute, TypeOK, hostVars
  <1>2. CASE HasCommitment(store[c], pkt.seq)
    <2>1. TimedOutIn(store[c], pkt.seq) \in Store
      BY PacketType, TimedOutInType DEF TypeOK
    <2>2. settled' \in [Chains -> Seq([packet : Packet, outcome : Acks \union {"timeout"}])]
      BY <1>2, SettleType DEF timeout_packet_execute
    <2> QED BY <1>2, <2>1, <2>2 DEF timeout_packet_execute, TypeOK, hostVars
  <1> QED BY <1>1, <1>2

LEMMA SetChannelTypeOK ==
  ASSUME TypeOK, NEW c \in Chains, NEW s \in ChannelState, SetChannel(c, s),
         UNCHANGED <<hostVars, appVars>>
  PROVE  TypeOK'
  <1>1. WithState(store[c], s) \in Store
    BY WithStateType DEF TypeOK
  <1> QED BY <1>1 DEF SetChannel, TypeOK, hostVars, appVars

\* The headers of a chain are well formed.
LEMMA HeaderType ==
  ASSUME TypeOK, NEW c \in Chains, NEW p \in 1..Len(header[c])
  PROVE  header[c][p] \in [time : Nat, root : Store]
  <1>1. header[c] \in Seq([time : Nat, root : Store])
    BY DEF TypeOK
  <1> QED BY <1>1, ElementOfSeq

LEMMA NewBlockTypeOK ==
  ASSUME TypeOK, NEW c \in Chains, NEW t \in 1..MaxTime,
         NewBlock(c, t), UNCHANGED appVars
  PROVE  TypeOK'
  <1>1. /\ header' \in [Chains -> Seq([time : Nat, root : Store])]
        /\ \A d \in Chains : Len(header'[d]) \in Heights
    <2> DEFINE H == [time : Nat, root : Store]
               b == [time |-> t, root |-> store[c]]
    <2>1. b \in H
      BY MaxTimeAssumption DEF TypeOK
    <2>2. header \in [Chains -> Seq(H)] /\ header' = [header EXCEPT ![c] = Append(@, b)]
      BY DEF TypeOK, NewBlock
    <2>3. \A d \in Chains : Len(header[d]) \in Heights
      BY DEF TypeOK
    <2>4. Len(header[c]) < MaxHeight
      BY DEF NewBlock, host_height
    <2> HIDE DEF H, b
    <2>5. header' \in [Chains -> Seq(H)]
      BY <2>1, <2>2
    <2>6. \A d \in Chains : Len(header'[d]) \in Heights
      BY <2>1, <2>2, <2>3, <2>4, MaxHeightAssumption DEF Heights
    <2> QED BY <2>5, <2>6 DEF H
  <1> QED BY <1>1 DEF NewBlock, TypeOK, appVars

LEMMA HeaderAtType ==
  ASSUME TypeOK, NEW c \in Chains, NEW h \in 1..host_height(c)
  PROVE  h \in Heights /\ HeaderAt(c, h) \in Header(Store)
  <1>1. h \in Heights
    BY MaxHeightAssumption DEF TypeOK, host_height, Heights
  <1>2. header[c][h] \in [time : Nat, root : Store]
    BY HeaderType DEF host_height
  <1> QED BY <1>1, <1>2 DEF HeaderAt, Header

LEMMA HostClock ==
  ASSUME TypeOK, NEW c \in Chains
  PROVE  /\ host_height(c) \in Heights
         /\ host_height(c) \in Nat
         /\ host_timestamp(c) \in Nat
  <1>1. Len(header[c]) \in Heights
    BY DEF TypeOK
  <1>2. Len(header[c]) \in Nat /\ Len(header[c]) \in 1..Len(header[c])
    BY <1>1, MaxHeightAssumption DEF Heights
  <1> QED BY <1>1, <1>2, HeaderType DEF host_height, host_timestamp

LEMMA UpdateTypeOK ==
  ASSUME TypeOK, NEW c \in Chains, NEW h \in 1..host_height(Other(c)),
         NEW trusted \in Heights, UpdateClient(c, h, trusted), UNCHANGED appVars
  PROVE  TypeOK'
  <1> DEFINE hdr == HeaderAt(Other(c), h)
  <1>1. hdr \in Header(Store)
    BY HeaderAtType, OtherIsChain
  <1>2. update_state(client[c], hdr, host_height(c), host_timestamp(c)) \in ClientState(Store)
    BY <1>1, HostClock, UpdateStateFacts DEF TypeOK
  <1>3. update_on_misbehaviour(client[c]) \in ClientState(Store)
    BY DEF TypeOK, update_on_misbehaviour, ClientState
  <1>4. client' \in [Chains -> ClientState(Store)]
    BY <1>2, <1>3 DEF UpdateClient, ExecuteUpdate, TypeOK
  <1> QED BY <1>4 DEF UpdateClient, TypeOK, appVars

LEMMA NextTypeOK ==
  ASSUME TypeOK, [Next]_vars
  PROVE  TypeOK'
  <1>1. CASE UNCHANGED vars
    BY <1>1 DEF TypeOK, vars
  <1>2. ASSUME NEW c \in Chains, Produce(c) PROVE TypeOK'
    BY <1>2, NewBlockTypeOK DEF Produce
  <1>3. ASSUME NEW c \in Chains, Update(c) PROVE TypeOK'
    BY <1>3, UpdateTypeOK DEF Update
  <1>4. ASSUME NEW c \in Chains, Send(c) PROVE TypeOK'
    BY <1>4, SendTypeOK DEF Send
  <1>5. ASSUME NEW c \in Chains, Recv(c) PROVE TypeOK'
    BY <1>5, RecvTypeOK DEF Recv
  <1>6. ASSUME NEW c \in Chains, Acknowledge(c) PROVE TypeOK'
    BY <1>6, AckTypeOK DEF Acknowledge
  <1>7. ASSUME NEW c \in Chains, Timeout(c) PROVE TypeOK'
    BY <1>7, TimeoutTypeOK DEF Timeout, TimeoutPacket
  <1>8. ASSUME NEW c \in Chains, TimeoutClosed(c) PROVE TypeOK'
    BY <1>8, TimeoutTypeOK DEF TimeoutClosed, TimeoutOnClose
  <1>9. ASSUME NEW c \in Chains, OpenConfirm(c) PROVE TypeOK'
    BY <1>9, SetChannelTypeOK DEF OpenConfirm, ChanOpenConfirm, ChannelState
  <1>10. ASSUME NEW c \in Chains, ChanCloseInit(c) PROVE TypeOK'
    BY <1>10, SetChannelTypeOK DEF ChanCloseInit, ChannelState
  <1>11. ASSUME NEW c \in Chains, CloseConfirm(c) PROVE TypeOK'
    BY <1>11, SetChannelTypeOK DEF CloseConfirm, ChanCloseConfirm, ChannelState
  <1> QED BY <1>1, <1>2, <1>3, <1>4, <1>5, <1>6, <1>7, <1>8, <1>9, <1>10, <1>11 DEF Next

\* Type correctness of the packet handlers on every instance.
THEOREM TypeCorrect == Spec => []TypeOK
  BY InitTypeOK, NextTypeOK, PTL DEF Spec

----------------------------------------------------------------------------
(***************************************************************************)
(* A packet is never both received and timed out.                          *)
(*                                                                         *)
(* A timeout is judged on the source by a consensus state, a receipt on    *)
(* the destination by its current block.  The proof first says what a step *)
(* can do to each part of the state (stores only progress, headers are     *)
(* only appended, deliveries and timeouts happen only when justified) and  *)
(* then shows each part of TimeoutSafety preserved from those facts alone. *)
(***************************************************************************)

\* What no step undoes in the store of a chain: a closed end and a receipt.
Progress(st, st2) ==
  /\ st.chan = "Closed" => st2.chan = "Closed"
  /\ \A s \in Seqs : AlreadyReceived(st, s) => AlreadyReceived(st2, s)

LEMMA SentInProgress ==
  ASSUME NEW st \in Store, NEW pkt \in Packet
  PROVE  Progress(st, SentIn(st, pkt))
  BY DEF Progress, SentIn, AlreadyReceived, Store

LEMMA ReceivedInProgress ==
  ASSUME NEW st \in Store, NEW seq \in Seqs, NEW ack \in Acks,
         RecvSequenceValid(st, seq), ~ AlreadyReceived(st, seq)
  PROVE  /\ Progress(st, ReceivedIn(st, seq, ack))
         /\ AlreadyReceived(ReceivedIn(st, seq, ack), seq)
  <1>1. CASE Ordering = "Ordered"
    <2>1. ReceivedIn(st, seq, ack).nextSeqRecv = st.nextSeqRecv + 1
          /\ ReceivedIn(st, seq, ack).chan = st.chan
      BY <1>1 DEF ReceivedIn, Store
    <2>2. st.nextSeqRecv \in Nat /\ Seqs \subseteq Nat
      BY MaxSeqAssumption DEF Store, Seqs
    <2>3. seq <= st.nextSeqRecv
      BY <1>1 DEF RecvSequenceValid
    <2> HIDE DEF ReceivedIn
    <2> QED BY <1>1, <2>1, <2>2, <2>3 DEF Progress, AlreadyReceived
  <1>2. CASE Ordering # "Ordered"
    <2>1. ReceivedIn(st, seq, ack).receipt = st.receipt \union {seq}
          /\ ReceivedIn(st, seq, ack).chan = st.chan
      BY <1>2 DEF ReceivedIn, Store
    <2> QED BY <1>2, <2>1 DEF Progress, AlreadyReceived
  <1> QED BY <1>1, <1>2

LEMMA AcknowledgedInProgress ==
  ASSUME NEW st \in Store, NEW seq \in Seqs
  PROVE  Progress(st, AcknowledgedIn(st, seq))
  BY DEF Progress, AcknowledgedIn, AlreadyReceived, Store

LEMMA TimedOutInProgress ==
  ASSUME NEW st \in Store, NEW seq \in Seqs
  PROVE  Progress(st, TimedOutIn(st, seq))
  BY DEF Progress, TimedOutIn, AlreadyReceived, Store

LEMMA WithStateProgress ==
  ASSUME NEW st \in Store, NEW s \in ChannelState, st.chan = "Closed" => s = "Closed"
  PROVE  Progress(st, WithState(st, s))
  BY DEF Progress, WithState, AlreadyReceived, Store

LEMMA ProgressReflexive ==
  ASSUME NEW st PROVE Progress(st, st)
  BY DEF Progress

\* A handler that replaces the store of c by one that progresses.
LEMMA StoreUpdateProgress ==
  ASSUME TypeOK, NEW c \in Chains, NEW st, Progress(store[c], st),
         store' = [store EXCEPT ![c] = st]
  PROVE  \A d \in Chains : Progress(store[d], store'[d])
  <1>1. \A d \in Chains : store'[d] = IF d = c THEN st ELSE store[d]
    BY DEF TypeOK
  <1> QED BY <1>1, ProgressReflexive

LEMMA StoreProgress ==
  ASSUME TypeOK, [Next]_vars
  PROVE  \A d \in Chains : Progress(store[d], store'[d])
  <1> DEFINE Goal == \A d \in Chains : Progress(store[d], store'[d])
  <1>1. ASSUME UNCHANGED store PROVE Goal
    BY <1>1, ProgressReflexive
  <1>2. ASSUME NEW c \in Chains, Send(c) PROVE Goal
    BY <1>2, SentInProgress, StoreUpdateProgress
       DEF Send, SendPacket, send_packet_execute, TypeOK
  <1>3. ASSUME NEW c \in Chains, Recv(c) PROVE Goal
    <2>1. PICK pkt \in Packet, ph \in Heights, ack \in Acks : RecvPacket(c, pkt, ph, ack)
      BY <1>3 DEF Recv
    <2>2. CASE AlreadyReceived(store[c], pkt.seq)
      BY <2>1, <2>2, <1>1 DEF RecvPacket, recv_packet_execute
    <2>3. CASE ~ AlreadyReceived(store[c], pkt.seq)
      <3>1. Progress(store[c], ReceivedIn(store[c], pkt.seq, ack))
        BY <2>1, <2>3, ReceivedInProgress, PacketType
           DEF RecvPacket, recv_packet_validate, TypeOK
      <3> QED BY <2>1, <2>3, <3>1, StoreUpdateProgress DEF RecvPacket, recv_packet_execute
    <2> QED BY <2>2, <2>3
  <1>4. ASSUME NEW c \in Chains, Acknowledge(c) PROVE Goal
    <2>1. PICK pkt \in Packet, ph \in Heights, ack \in Acks :
            AcknowledgePacket(c, pkt, ph, ack)
      BY <1>4 DEF Acknowledge
    <2>2. Progress(store[c], AcknowledgedIn(store[c], pkt.seq))
      BY AcknowledgedInProgress, PacketType DEF TypeOK
    <2> QED BY <1>1, <2>1, <2>2, StoreUpdateProgress
            DEF AcknowledgePacket, acknowledgement_packet_execute
  <1>5. ASSUME NEW c \in Chains, NEW pkt \in Packet, timeout_packet_execute(c, pkt)
        PROVE Goal
    <2>1. Progress(store[c], TimedOutIn(store[c], pkt.seq))
      BY TimedOutInProgress, PacketType DEF TypeOK
    <2> QED BY <1>1, <1>5, <2>1, StoreUpdateProgress DEF timeout_packet_execute
  <1>6. ASSUME NEW c \in Chains, NEW s \in ChannelState, SetChannel(c, s),
               store[c].chan = "Closed" => s = "Closed"
        PROVE Goal
    BY <1>6, WithStateProgress, StoreUpdateProgress DEF SetChannel, TypeOK
  <1>7. CASE UNCHANGED vars
    BY <1>1, <1>7 DEF vars
  <1>8. ASSUME NEW c \in Chains, Produce(c) \/ Update(c) PROVE Goal
    BY <1>1, <1>8 DEF Produce, Update, NewBlock, UpdateClient
  <1>9. ASSUME NEW c \in Chains, Timeout(c) \/ TimeoutClosed(c) PROVE Goal
    BY <1>5, <1>9 DEF Timeout, TimeoutClosed, TimeoutPacket, TimeoutOnClose
  <1>10. ASSUME NEW c \in Chains, OpenConfirm(c) PROVE Goal
    BY <1>6, <1>10 DEF OpenConfirm, ChanOpenConfirm, ChannelState
  <1>11. ASSUME NEW c \in Chains, ChanCloseInit(c) \/ CloseConfirm(c) PROVE Goal
    <2>1. SetChannel(c, "Closed")
      BY <1>11 DEF CloseConfirm, ChanCloseInit, ChanCloseConfirm
    <2> QED BY <1>6, <2>1 DEF ChannelState
  <1> QED BY <1>2, <1>3, <1>4, <1>7, <1>8, <1>9, <1>10, <1>11 DEF Next

----------------------------------------------------------------------------
\* Headers are only appended; a new one is later than the last and carries
\* the store, which the step that appends it does not change.
HeaderAdded(c) ==
  /\ header' # header
  /\ Len(header'[c]) = Len(header[c]) + 1
  /\ header'[c][Len(header[c]) + 1].root = store[c]
  /\ header'[c][Len(header[c]) + 1].time > host_timestamp(c)
  /\ \A p \in 1..Len(header[c]) : header'[c][p] = header[c][p]
  /\ \A d \in Chains : d # c => header'[d] = header[d]
  /\ UNCHANGED <<client, store, sent, received, settled>>

LEMMA NewBlockAdds ==
  ASSUME TypeOK, NEW c \in Chains, NEW t \in 1..MaxTime,
         NewBlock(c, t), UNCHANGED appVars
  PROVE  HeaderAdded(c)
  <1> DEFINE H == [time : Nat, root : Store]
             b == [time |-> t, root |-> store[c]]
  <1>1. b \in H /\ b.time = t /\ b.root = store[c]
    BY MaxTimeAssumption DEF TypeOK
  <1>2. header \in [Chains -> Seq(H)] /\ header' = [header EXCEPT ![c] = Append(@, b)]
    BY DEF TypeOK, NewBlock
  <1>3. t > host_timestamp(c) /\ UNCHANGED <<client, store, sent, received, settled>>
    BY DEF NewBlock, appVars
  <1> HIDE DEF H, b
  <1>4. header[c] \in Seq(H) /\ header'[c] = Append(header[c], b)
        /\ \A d \in Chains : d # c => header'[d] = header[d]
    BY <1>2
  <1>5. /\ Len(header'[c]) = Len(header[c]) + 1
        /\ header'[c][Len(header[c]) + 1] = b
        /\ \A p \in 1..Len(header[c]) : header'[c][p] = header[c][p]
    BY <1>1, <1>4, AppendProperties
  <1>6. header' # header
    BY <1>4, <1>5
  <1> QED BY <1>1, <1>3, <1>4, <1>5, <1>6 DEF HeaderAdded

LEMMA HeaderProgress ==
  ASSUME TypeOK, [Next]_vars
  PROVE  header' = header \/ \E c \in Chains : HeaderAdded(c)
  <1>1. ASSUME NEW c \in Chains, Produce(c) PROVE HeaderAdded(c)
    BY <1>1, NewBlockAdds DEF Produce
  <1>2. ASSUME NEW c \in Chains, ~ Produce(c),
               \/ Update(c) \/ Send(c) \/ Recv(c) \/ Acknowledge(c) \/ Timeout(c)
               \/ TimeoutClosed(c) \/ OpenConfirm(c) \/ ChanCloseInit(c) \/ CloseConfirm(c)
        PROVE header' = header
    BY <1>2 DEF Update, UpdateClient, Send, SendPacket, Recv, RecvPacket, Acknowledge,
                AcknowledgePacket, Timeout, TimeoutPacket, TimeoutClosed, TimeoutOnClose,
                OpenConfirm, ChanOpenConfirm, ChanCloseInit, CloseConfirm,
                ChanCloseConfirm, hostVars
  <1> QED BY <1>1, <1>2 DEF Next, vars

\* A delivery happens to a packet that has not timed out, on an open end, and
\* leaves it marked as received.
Delivered(c, pkt) ==
  /\ pkt \in Packet
  /\ received' = [received EXCEPT ![c] = Append(@, pkt)]
  /\ store[c].chan = "Open"
  /\ ~ timed_out(pkt, host_timestamp(c), host_height(c))
  /\ AlreadyReceived(store'[c], pkt.seq)
  /\ UNCHANGED <<hostVars, sent, settled>>

LEMMA RecvDelivers ==
  ASSUME TypeOK, NEW c \in Chains, Recv(c)
  PROVE  received' = received \/ \E pkt \in Packet : Delivered(c, pkt)
  <1>1. PICK pkt \in Packet, ph \in Heights, ack \in Acks : RecvPacket(c, pkt, ph, ack)
    BY DEF Recv
  <1>2. CASE AlreadyReceived(store[c], pkt.seq)
    BY <1>1, <1>2 DEF RecvPacket, recv_packet_execute
  <1>3. CASE ~ AlreadyReceived(store[c], pkt.seq)
    <2>1. AlreadyReceived(ReceivedIn(store[c], pkt.seq, ack), pkt.seq)
      BY <1>1, <1>3, ReceivedInProgress, PacketType
         DEF RecvPacket, recv_packet_validate, TypeOK
    <2>2. store'[c] = ReceivedIn(store[c], pkt.seq, ack)
      BY <1>1, <1>3 DEF RecvPacket, recv_packet_execute, TypeOK
    <2> QED BY <1>1, <1>3, <2>1, <2>2
            DEF RecvPacket, recv_packet_validate, recv_packet_execute, Delivered
  <1> QED BY <1>2, <1>3

LEMMA ReceivedProgress ==
  ASSUME TypeOK, [Next]_vars
  PROVE  received' = received \/ \E c \in Chains, pkt \in Packet : Delivered(c, pkt)
  <1>1. ASSUME NEW c \in Chains, ~ Recv(c),
               \/ Produce(c) \/ Update(c) \/ Send(c) \/ Acknowledge(c) \/ Timeout(c)
               \/ TimeoutClosed(c) \/ OpenConfirm(c) \/ ChanCloseInit(c) \/ CloseConfirm(c)
        PROVE received' = received
    BY <1>1 DEF Produce, Update, Send, SendPacket, Acknowledge,
                AcknowledgePacket, Timeout, TimeoutPacket, TimeoutClosed, TimeoutOnClose,
                OpenConfirm, ChanOpenConfirm, ChanCloseInit, CloseConfirm,
                ChanCloseConfirm, appVars
  <1> QED BY <1>1, RecvDelivers DEF Next, vars

----------------------------------------------------------------------------
\* A timeout happens on the evidence of a stored consensus state that shows
\* the packet unreceived and either timed out or the other end closed.
Justified(c, pkt, ph) ==
  /\ client[c].cons[ph] # None
  /\ \/ timed_out(pkt, client[c].cons[ph].time, ph)
     \/ ProvenStore(c, ph).chan = "Closed"
  /\ ~ AlreadyReceived(ProvenStore(c, ph), pkt.seq)

Settles(c, pkt, outcome) ==
  /\ pkt \in Packet
  /\ Settle(c, pkt, outcome)
  /\ outcome = "timeout" => \E ph \in Heights : Justified(c, pkt, ph)
  /\ UNCHANGED <<hostVars, sent, received>>

LEMMA UnreceivedNotReceived ==
  ASSUME NEW st \in Store, NEW pkt \in Packet, NEW n, UnreceivedIn(st, pkt, n)
  PROVE  ~ AlreadyReceived(st, pkt.seq)
  <1>1. pkt.seq \in Nat
    BY PacketType, MaxSeqAssumption DEF Seqs
  <1> QED BY <1>1 DEF UnreceivedIn, AlreadyReceived

LEMMA ProvenStoreType ==
  ASSUME TypeOK, NEW c \in Chains, NEW ph \in Heights, CanVerifyAt(c, ph)
  PROVE  client[c].cons[ph] # None /\ ProvenStore(c, ph) \in Store
  BY DEF TypeOK, CanVerifyAt, HasProofHeight, StoredHeights, ProvenStore,
         ClientState, ConsensusState

LEMMA TimeoutSettles ==
  ASSUME TypeOK, NEW c \in Chains, Timeout(c) \/ TimeoutClosed(c)
  PROVE  settled' = settled \/ \E pkt \in Packet : Settles(c, pkt, "timeout")
  <1>1. ASSUME Timeout(c)
        PROVE settled' = settled \/ \E pkt \in Packet : Settles(c, pkt, "timeout")
    <2>1. PICK pkt \in Packet, ph \in Heights, n \in Seqs : TimeoutPacket(c, pkt, ph, n)
      BY <1>1 DEF Timeout
    <2>2. CASE ~ HasCommitment(store[c], pkt.seq)
      BY <2>1, <2>2 DEF TimeoutPacket, timeout_packet_execute
    <2>3. CASE HasCommitment(store[c], pkt.seq)
      <3>1. /\ CanVerifyAt(c, ph)
            /\ timed_out(pkt, client[c].cons[ph].time, ph)
            /\ UnreceivedIn(ProvenStore(c, ph), pkt, n)
        BY <2>1, <2>3 DEF TimeoutPacket, timeout_validate
      <3>2. Justified(c, pkt, ph)
        BY <3>1, ProvenStoreType, UnreceivedNotReceived DEF Justified
      <3> QED BY <2>1, <2>3, <3>2 DEF TimeoutPacket, timeout_packet_execute, Settles
    <2> QED BY <2>2, <2>3
  <1>2. ASSUME TimeoutClosed(c)
        PROVE settled' = settled \/ \E pkt \in Packet : Settles(c, pkt, "timeout")
    <2>1. PICK pkt \in Packet, ph \in Heights, n \in Seqs : TimeoutOnClose(c, pkt, ph, n)
      BY <1>2 DEF TimeoutClosed
    <2>2. CASE ~ HasCommitment(store[c], pkt.seq)
      BY <2>1, <2>2 DEF TimeoutOnClose, timeout_packet_execute
    <2>3. CASE HasCommitment(store[c], pkt.seq)
      <3>1. /\ CanVerifyAt(c, ph)
            /\ ProvenStore(c, ph).chan = "Closed"
            /\ UnreceivedIn(ProvenStore(c, ph), pkt, n)
        BY <2>1, <2>3 DEF TimeoutOnClose, timeout_on_close_validate
      <3>2. Justified(c, pkt, ph)
        BY <3>1, ProvenStoreType, UnreceivedNotReceived DEF Justified
      <3> QED BY <2>1, <2>3, <3>2 DEF TimeoutOnClose, timeout_packet_execute, Settles
    <2> QED BY <2>2, <2>3
  <1> QED BY <1>1, <1>2

LEMMA AckSettles ==
  ASSUME TypeOK, NEW c \in Chains, Acknowledge(c)
  PROVE  settled' = settled \/ \E pkt \in Packet, ack \in Acks : Settles(c, pkt, ack)
  <1>1. PICK pkt \in Packet, ph \in Heights, ack \in Acks : AcknowledgePacket(c, pkt, ph, ack)
    BY DEF Acknowledge
  <1>2. ack # "timeout"
    BY AcksAssumption
  <1> QED BY <1>1, <1>2 DEF AcknowledgePacket, acknowledgement_packet_execute, Settles

LEMMA SettledProgress ==
  ASSUME TypeOK, [Next]_vars
  PROVE  \/ settled' = settled
         \/ \E c \in Chains, pkt \in Packet, o \in Acks \union {"timeout"} : Settles(c, pkt, o)
  <1>1. ASSUME NEW c \in Chains,
               \/ Produce(c) \/ Update(c) \/ Send(c) \/ Recv(c)
               \/ OpenConfirm(c) \/ ChanCloseInit(c) \/ CloseConfirm(c)
        PROVE settled' = settled
    BY <1>1 DEF Produce, Update, Send, SendPacket, Recv, RecvPacket, OpenConfirm,
                ChanOpenConfirm, ChanCloseInit, CloseConfirm, ChanCloseConfirm, appVars
  <1>2. ASSUME NEW c \in Chains, Acknowledge(c)
        PROVE \/ settled' = settled
              \/ \E pkt \in Packet, o \in Acks \union {"timeout"} : Settles(c, pkt, o)
    BY <1>2, AckSettles
  <1>3. ASSUME NEW c \in Chains, Timeout(c) \/ TimeoutClosed(c)
        PROVE \/ settled' = settled
              \/ \E pkt \in Packet, o \in Acks \union {"timeout"} : Settles(c, pkt, o)
    BY <1>3, TimeoutSettles
  <1> QED BY <1>1, <1>2, <1>3 DEF Next, vars

----------------------------------------------------------------------------
\* Once timed out, always timed out: later times and heights do not revive it.
LEMMA TimedOutMonotone ==
  ASSUME NEW pkt \in Packet, NEW t1 \in Nat, NEW t2 \in Nat, NEW h1 \in Nat, NEW h2 \in Nat,
         t1 <= t2, h1 <= h2, timed_out(pkt, t1, h1)
  PROVE  timed_out(pkt, t2, h2)
  BY PacketType DEF timed_out, has_expired, TimestampExpired

LEMMA ReceivedType ==
  ASSUME TypeOK, NEW c \in Chains, NEW i \in DOMAIN received[c]
  PROVE  received[c][i] \in Packet /\ received[c][i].seq \in Seqs
  <1>1. received[c] \in Seq(Packet)
    BY DEF TypeOK
  <1> QED BY <1>1, PacketType

LEMMA SettledType ==
  ASSUME TypeOK, NEW c \in Chains, NEW i \in DOMAIN settled[c]
  PROVE  settled[c][i].packet \in Packet
  <1> DEFINE E == [packet : Packet, outcome : Acks \union {"timeout"}]
  <1>1. settled[c] \in Seq(E)
    BY DEF TypeOK
  <1>2. settled[c][i] \in E
    <2> HIDE DEF E
    <2> QED BY <1>1
  <1> QED BY <1>2

\* What an Append to one chain's log leaves behind.
LEMMA AppendFacts ==
  ASSUME NEW E, NEW log \in [Chains -> Seq(E)], NEW c \in Chains, NEW e \in E,
         NEW log2, log2 = [log EXCEPT ![c] = Append(@, e)]
  PROVE  \A d \in Chains : \A i \in DOMAIN log2[d] :
           \/ i \in DOMAIN log[d] /\ log2[d][i] = log[d][i]
           \/ d = c /\ log2[d][i] = e
  <1> SUFFICES ASSUME NEW d \in Chains, NEW i \in DOMAIN log2[d]
               PROVE \/ i \in DOMAIN log[d] /\ log2[d][i] = log[d][i]
                     \/ d = c /\ log2[d][i] = e
    OBVIOUS
  <1>1. CASE d # c
    BY <1>1
  <1>2. CASE d = c
    <2>1. log2[c] = Append(log[c], e) /\ log[c] \in Seq(E)
      OBVIOUS
    <2> QED BY <1>2, <2>1, AppendProperties
  <1> QED BY <1>1, <1>2

LEMMA NewHeaderType ==
  ASSUME TypeOK, TypeOK', NEW c \in Chains, HeaderAdded(c)
  PROVE  header'[c][Len(header[c]) + 1].time \in Nat
  <1> DEFINE H == [time : Nat, root : Store]
  <1>1. header'[c] \in Seq(H)
    BY DEF TypeOK
  <1>2. Len(header[c]) \in Nat /\ Len(header'[c]) = Len(header[c]) + 1
    BY HostClock DEF HeaderAdded, host_height
  <1>3. header'[c][Len(header[c]) + 1] \in H
    <2> HIDE DEF H
    <2> QED BY <1>1, <1>2, ElementOfSeq
  <1> QED BY <1>3

LEMMA NewHostClock ==
  ASSUME TypeOK', NEW c \in Chains
  PROVE  host_height(c)' \in Nat /\ host_timestamp(c)' \in Nat
  <1> DEFINE H == [time : Nat, root : Store]
  <1>1. header'[c] \in Seq(H) /\ Len(header'[c]) \in Heights
    BY DEF TypeOK
  <1>2. Len(header'[c]) \in Nat /\ Len(header'[c]) \in 1..Len(header'[c])
    BY <1>1, MaxHeightAssumption DEF Heights
  <1>3. header'[c][Len(header'[c])] \in H
    <2> HIDE DEF H
    <2> QED BY <1>1, <1>2, ElementOfSeq
  <1> QED BY <1>2, <1>3 DEF host_height, host_timestamp

\* The clock of a chain and the headers it has, before and after a step.
LEMMA ClockProgress ==
  ASSUME TypeOK, TypeOK', [Next]_vars, NEW d \in Chains
  PROVE  /\ host_height(d) <= host_height(d)'
         /\ host_timestamp(d) <= host_timestamp(d)'
         /\ \A p \in 1..Len(header[d]) : header'[d][p] = header[d][p]
  <1>1. host_height(d) \in Nat /\ host_timestamp(d) \in Nat
    BY HostClock
  <1>2. CASE header' = header
    BY <1>1, <1>2 DEF host_height, host_timestamp
  <1>3. ASSUME NEW c \in Chains, HeaderAdded(c)
        PROVE  /\ host_height(d) <= host_height(d)'
               /\ host_timestamp(d) <= host_timestamp(d)'
               /\ \A p \in 1..Len(header[d]) : header'[d][p] = header[d][p]
    <2>1. CASE d # c
      BY <1>1, <1>3, <2>1 DEF HeaderAdded, host_height, host_timestamp
    <2>2. CASE d = c
      <3>1. host_timestamp(d)' \in Nat
        BY NewHeaderType, <1>3, <2>2 DEF HeaderAdded, host_timestamp
      <3> QED BY <1>1, <1>3, <2>2, <3>1 DEF HeaderAdded, host_height, host_timestamp
    <2> QED BY <2>1, <2>2
  <1> QED BY <1>2, <1>3, HeaderProgress

LEMMA HeadersInvStep ==
  ASSUME TypeOK, TypeOK', HeadersInv, [Next]_vars
  PROVE  HeadersInv'
  <1>1. CASE header' = header
    BY <1>1 DEF HeadersInv, host_timestamp
  <1>2. ASSUME NEW c \in Chains, HeaderAdded(c) PROVE HeadersInv'
    <2> SUFFICES ASSUME NEW d \in Chains, NEW p \in 1..Len(header'[d])
                 PROVE header'[d][p].time <= host_timestamp(d)'
      BY DEF HeadersInv
    <2>1. CASE d # c
      BY <1>2, <2>1 DEF HeaderAdded, HeadersInv, host_timestamp
    <2>2. CASE d = c
      <3>1. Len(header[c]) \in Nat /\ host_timestamp(c) \in Nat
        BY HostClock DEF host_height
      <3>2. host_timestamp(c)' = header'[c][Len(header[c]) + 1].time
        BY <1>2 DEF HeaderAdded, host_timestamp
      <3>3. Len(header'[c]) = Len(header[c]) + 1
        BY <1>2 DEF HeaderAdded
      <3>4. header'[c][Len(header[c]) + 1].time \in Nat
        BY <1>2, NewHeaderType
      <3>5. CASE p = Len(header[c]) + 1
        BY <2>2, <3>2, <3>4, <3>5
      <3>6. CASE p \in 1..Len(header[c])
        <4>1. header'[c][p] = header[c][p] /\ header[c][p].time <= host_timestamp(c)
          BY <1>2, <3>6 DEF HeaderAdded, HeadersInv
        <4>2. header[c][p].time \in Nat
          BY <3>6, HeaderType
        <4>3. host_timestamp(c) < header'[c][Len(header[c]) + 1].time
          BY <1>2 DEF HeaderAdded
        <4> QED BY <2>2, <3>1, <3>2, <3>4, <4>1, <4>2, <4>3
      <3> QED BY <2>2, <3>1, <3>3, <3>5, <3>6
    <2> QED BY <2>1, <2>2
  <1> QED BY <1>1, <1>2, HeaderProgress


\* An update stores nothing but what the submitted header says.
LEMMA UpdateKeepsClientsInv ==
  ASSUME TypeOK, ClientsInv, NEW c \in Chains, NEW h \in 1..host_height(Other(c)),
         NEW trusted \in Heights, UpdateClient(c, h, trusted)
  PROVE  ClientsInv'
  <1> DEFINE hdr == HeaderAt(Other(c), h)
             u == update_state(client[c], hdr, host_height(c), host_timestamp(c))
             m == update_on_misbehaviour(client[c])
  <1>1. hdr \in Header(Store) /\ h \in Nat /\ Len(header[Other(c)]) \in Nat
    BY HeaderAtType, HostClock, OtherIsChain DEF host_height
  <1>2. OldOrNew(client[c], hdr, host_height(c), host_timestamp(c), u)
    <2>1. /\ client[c] \in ClientState(Store)
          /\ host_height(c) \in Nat
          /\ host_timestamp(c) \in Nat
      BY HostClock DEF TypeOK
    <2> HIDE DEF hdr
    <2> QED BY <1>1, <2>1, UpdateStateFacts
  <1>3. m.cons = client[c].cons
    BY DEF TypeOK, update_on_misbehaviour, ClientState
  <1>4. client'[c] \in {u, m} /\ \A d \in Chains : d # c => client'[d] = client[d]
    BY DEF UpdateClient, ExecuteUpdate, TypeOK
  <1>5. header' = header
    BY DEF UpdateClient
  <1>6. hdr.height = h /\ hdr.time = header[Other(c)][h].time
        /\ hdr.root = header[Other(c)][h].root /\ h <= Len(header[Other(c)])
    BY <1>1 DEF HeaderAt, host_height
  <1> HIDE DEF hdr, u, m
  <1> SUFFICES ASSUME NEW d \in Chains, NEW g \in Heights, client'[d].cons[g] # None
               PROVE  /\ g <= Len(header'[Other(d)])
                      /\ client'[d].cons[g].time = header'[Other(d)][g].time
                      /\ client'[d].cons[g].root = header'[Other(d)][g].root
    BY DEF ClientsInv
  <1>7. CASE client'[d].cons[g] = client[d].cons[g]
    BY <1>5, <1>7 DEF ClientsInv
  <1>8. CASE client'[d].cons[g] # client[d].cons[g]
    <2>1. d = c /\ client'[d] = u
      BY <1>3, <1>4, <1>8
    <2>2. g = h /\ u.cons[g] = NewConsensusState(hdr, host_height(c), host_timestamp(c))
      BY <1>2, <1>6, <1>8, <2>1 DEF OldOrNew
    <2>3. u.cons[g].time = hdr.time /\ u.cons[g].root = hdr.root
      BY <2>2 DEF NewConsensusState
    <2> QED BY <1>5, <1>6, <2>1, <2>2, <2>3
  <1> QED BY <1>7, <1>8

LEMMA ClientsInvStep ==
  ASSUME TypeOK, TypeOK', ClientsInv, [Next]_vars
  PROVE  ClientsInv'
  <1>1. ASSUME UNCHANGED client PROVE ClientsInv'
    <2> SUFFICES ASSUME NEW c \in Chains, NEW h \in Heights, client[c].cons[h] # None
                 PROVE  /\ h <= Len(header'[Other(c)])
                        /\ client[c].cons[h].time = header'[Other(c)][h].time
                        /\ client[c].cons[h].root = header'[Other(c)][h].root
      BY <1>1 DEF ClientsInv
    <2>1. /\ h <= Len(header[Other(c)])
          /\ client[c].cons[h].time = header[Other(c)][h].time
          /\ client[c].cons[h].root = header[Other(c)][h].root
      BY DEF ClientsInv
    <2>2. h \in Nat /\ h >= 1 /\ Len(header[Other(c)]) \in Nat /\ Len(header'[Other(c)]) \in Nat
      <3>1. Len(header[Other(c)]) \in Heights /\ Len(header'[Other(c)]) \in Heights
        BY OtherIsChain DEF TypeOK
      <3> QED BY <3>1, MaxHeightAssumption DEF Heights
    <2>3. h \in 1..Len(header[Other(c)])
      BY <2>1, <2>2
    <2>4. Len(header[Other(c)]) <= Len(header'[Other(c)]) /\ header'[Other(c)][h] = header[Other(c)][h]
      BY <2>3, ClockProgress, OtherIsChain DEF host_height
    <2> QED BY <2>1, <2>2, <2>4
  <1>2. ASSUME NEW c \in Chains, Update(c) PROVE ClientsInv'
    BY <1>2, UpdateKeepsClientsInv DEF Update
  <1>3. ASSUME NEW c \in Chains,
               \/ Produce(c) \/ Send(c) \/ Recv(c) \/ Acknowledge(c) \/ Timeout(c)
               \/ TimeoutClosed(c) \/ OpenConfirm(c) \/ ChanCloseInit(c) \/ CloseConfirm(c)
        PROVE UNCHANGED client
    BY <1>3 DEF Produce, NewBlock, Send, SendPacket, Recv, RecvPacket, Acknowledge,
                AcknowledgePacket, Timeout, TimeoutPacket, TimeoutClosed, TimeoutOnClose,
                OpenConfirm, ChanOpenConfirm, ChanCloseInit, CloseConfirm,
                ChanCloseConfirm, hostVars
  <1> QED BY <1>1, <1>2, <1>3 DEF Next, vars

LEMMA ClosedInvStep ==
  ASSUME TypeOK, TypeOK', ClosedInv, [Next]_vars
  PROVE  ClosedInv'
  <1> SUFFICES ASSUME NEW d \in Chains, NEW p \in 1..Len(header'[d]),
                      header'[d][p].root.chan = "Closed"
               PROVE  store'[d].chan = "Closed"
    BY DEF ClosedInv
  <1>1. CASE p \in 1..Len(header[d])
    BY <1>1, ClockProgress, StoreProgress DEF ClosedInv, Progress
  <1>2. CASE p \notin 1..Len(header[d])
    <2>1. PICK c \in Chains : HeaderAdded(c)
      BY <1>2, HeaderProgress
    <2>2. Len(header[d]) \in Nat
      BY HostClock DEF host_height
    <2>3. c = d /\ p = Len(header[d]) + 1
      BY <1>2, <2>1, <2>2 DEF HeaderAdded
    <2> QED BY <2>1, <2>3 DEF HeaderAdded
  <1> QED BY <1>1, <1>2


\* A header that is new carries the store.
LEMMA OldHeaderOrStore ==
  ASSUME TypeOK, [Next]_vars, NEW d \in Chains, NEW p \in 1..Len(header'[d])
  PROVE  \/ p \in 1..Len(header[d]) /\ header'[d][p] = header[d][p]
         \/ header'[d][p].root = store[d] /\ store' = store /\ received' = received
  <1>1. CASE header' = header
    BY <1>1
  <1>2. ASSUME NEW c \in Chains, HeaderAdded(c)
        PROVE  \/ p \in 1..Len(header[d]) /\ header'[d][p] = header[d][p]
               \/ header'[d][p].root = store[d] /\ store' = store /\ received' = received
    <2>1. Len(header[d]) \in Nat
      BY HostClock DEF host_height
    <2>2. CASE c # d
      BY <1>2, <2>2 DEF HeaderAdded
    <2>3. CASE c = d
      <3>1. p \in 1..Len(header[d]) \/ p = Len(header[d]) + 1
        BY <1>2, <2>1, <2>3 DEF HeaderAdded
      <3> QED BY <1>2, <2>3, <3>1 DEF HeaderAdded
    <2> QED BY <2>2, <2>3
  <1> QED BY <1>1, <1>2, HeaderProgress

\* What ReceivedInv says of one packet, for the store st and headers hs of
\* its destination.
ReceivedOK(st, hs, pkt) ==
  /\ AlreadyReceived(st, pkt.seq)
  /\ \A p \in 1..Len(hs) :
       \/ AlreadyReceived(hs[p].root, pkt.seq)
       \/ ~ timed_out(pkt, hs[p].time, p) /\ hs[p].root.chan # "Closed"

\* A packet that is received stays so.
LEMMA ReceivedOKStep ==
  ASSUME TypeOK, [Next]_vars, NEW c \in Chains, NEW pkt \in Packet,
         ReceivedOK(store[c], header[c], pkt)
  PROVE  ReceivedOK(store'[c], header'[c], pkt)
  <1>1. pkt.seq \in Seqs
    BY PacketType
  <1>2. AlreadyReceived(store'[c], pkt.seq)
    BY <1>1, StoreProgress DEF ReceivedOK, Progress
  <1>3. ASSUME NEW p \in 1..Len(header'[c])
        PROVE  \/ AlreadyReceived(header'[c][p].root, pkt.seq)
               \/ ~ timed_out(pkt, header'[c][p].time, p) /\ header'[c][p].root.chan # "Closed"
    <2>1. CASE p \in 1..Len(header[c]) /\ header'[c][p] = header[c][p]
      BY <2>1 DEF ReceivedOK
    <2>2. CASE header'[c][p].root = store[c]
      BY <2>2 DEF ReceivedOK
    <2> QED BY <2>1, <2>2, OldHeaderOrStore
  <1> QED BY <1>2, <1>3 DEF ReceivedOK

\* A delivery establishes it: the packet has not timed out now, so it had not
\* at any header so far, and no header shows the end closed.
LEMMA DeliveredOK ==
  ASSUME TypeOK, HeadersInv, ClosedInv, NEW c \in Chains, NEW pkt \in Packet,
         Delivered(c, pkt)
  PROVE  ReceivedOK(store'[c], header'[c], pkt)
  <1>1. header' = header
    BY DEF Delivered, hostVars
  <1>2. ASSUME NEW p \in 1..Len(header[c])
        PROVE  ~ timed_out(pkt, header[c][p].time, p) /\ header[c][p].root.chan # "Closed"
    <2>1. header[c][p].time \in Nat /\ header[c][p].time <= host_timestamp(c)
      BY HeaderType DEF HeadersInv
    <2>2. host_timestamp(c) \in Nat /\ host_height(c) \in Nat /\ p \in Nat /\ p <= host_height(c)
      BY HostClock DEF host_height
    <2>3. ~ timed_out(pkt, header[c][p].time, p)
      BY <2>1, <2>2, TimedOutMonotone DEF Delivered
    <2> QED BY <2>3 DEF Delivered, ClosedInv
  <1> QED BY <1>1, <1>2 DEF ReceivedOK, Delivered

LEMMA ReceivedInvStep ==
  ASSUME TypeOK, HeadersInv, ClosedInv, ReceivedInv, [Next]_vars
  PROVE  ReceivedInv'
  <1>1. \A c \in Chains : \A i \in DOMAIN received[c] :
          received[c][i] \in Packet /\ ReceivedOK(store[c], header[c], received[c][i])
    BY ReceivedType DEF ReceivedInv, ReceivedOK
  <1> SUFFICES ASSUME NEW d \in Chains, NEW i \in DOMAIN received'[d]
               PROVE  ReceivedOK(store'[d], header'[d], received'[d][i])
    BY DEF ReceivedInv, ReceivedOK
  <1>2. CASE i \in DOMAIN received[d] /\ received'[d][i] = received[d][i]
    BY <1>1, <1>2, ReceivedOKStep
  <1>3. ASSUME NEW pkt \in Packet, Delivered(d, pkt), received'[d][i] = pkt
        PROVE  ReceivedOK(store'[d], header'[d], received'[d][i])
    BY <1>3, DeliveredOK
  <1>4. CASE received' = received
    BY <1>2, <1>4
  <1>5. ASSUME NEW c \in Chains, NEW pkt \in Packet, Delivered(c, pkt)
        PROVE  ReceivedOK(store'[d], header'[d], received'[d][i])
    <2>1. \/ i \in DOMAIN received[d] /\ received'[d][i] = received[d][i]
          \/ d = c /\ received'[d][i] = pkt
      <3>1. received \in [Chains -> Seq(Packet)]
            /\ received' = [received EXCEPT ![c] = Append(@, pkt)]
        BY <1>5 DEF Delivered, TypeOK
      <3> QED BY <3>1, AppendFacts
    <2> QED BY <1>2, <1>3, <1>5, <2>1
  <1> QED BY <1>4, <1>5, ReceivedProgress

----------------------------------------------------------------------------
\* A packet that cannot be delivered any more stays undeliverable.
LEMMA UndeliverableStep ==
  ASSUME TypeOK, TypeOK', [Next]_vars, NEW d \in Chains, NEW pkt \in Packet,
         Undeliverable(d, pkt)
  PROVE  Undeliverable(d, pkt)'
  <1>1. CASE store[d].chan = "Closed"
    BY <1>1, StoreProgress DEF Progress, Undeliverable
  <1>2. CASE timed_out(pkt, host_timestamp(d), host_height(d))
    <2>1. /\ host_height(d) \in Nat /\ host_timestamp(d) \in Nat
          /\ host_height(d) <= host_height(d)'
          /\ host_timestamp(d) <= host_timestamp(d)'
      BY HostClock, ClockProgress
    <2>2. host_height(d)' \in Nat /\ host_timestamp(d)' \in Nat
      BY NewHostClock
    <2>3. timed_out(pkt, host_timestamp(d)', host_height(d)')
      BY <1>2, <2>1, <2>2, TimedOutMonotone
    <2> QED BY <2>3 DEF Undeliverable
  <1> QED BY <1>1, <1>2 DEF Undeliverable

\* A packet that is undeliverable is not delivered.
LEMMA NotReceivedStep ==
  ASSUME TypeOK, [Next]_vars, NEW d \in Chains, NEW pkt \in Packet,
         Undeliverable(d, pkt), ~ WasReceived(d, pkt)
  PROVE  ~ WasReceived(d, pkt)'
  <1>1. CASE received' = received
    BY <1>1 DEF WasReceived
  <1>2. ASSUME NEW c \in Chains, NEW q \in Packet, Delivered(c, q)
        PROVE  ~ WasReceived(d, pkt)'
    <2>1. received \in [Chains -> Seq(Packet)]
          /\ received' = [received EXCEPT ![c] = Append(@, q)]
      BY <1>2 DEF Delivered, TypeOK
    <2>2. ASSUME NEW i \in DOMAIN received'[d], received'[d][i] = pkt PROVE FALSE
      <3>1. \/ i \in DOMAIN received[d] /\ received'[d][i] = received[d][i]
            \/ d = c /\ received'[d][i] = q
        BY <2>1, AppendFacts
      <3> QED BY <1>2, <2>2, <3>1 DEF WasReceived, Delivered, Undeliverable
    <2> QED BY <2>2 DEF WasReceived
  <1> QED BY <1>1, <1>2, ReceivedProgress

\* The evidence of a timeout shows the packet undeliverable and unreceived.
LEMMA JustifiedMeansDead ==
  ASSUME TypeOK, TimeoutSafety, NEW c \in Chains, NEW pkt \in Packet, NEW ph \in Heights,
         Justified(c, pkt, ph)
  PROVE  Undeliverable(Other(c), pkt) /\ ~ WasReceived(Other(c), pkt)
  <1> DEFINE d == Other(c)
             hd == header[d][ph]
  <1>1. d \in Chains
    BY OtherIsChain
  <1>2. /\ ph <= Len(header[d])
        /\ client[c].cons[ph].time = hd.time
        /\ client[c].cons[ph].root = hd.root
    BY DEF TimeoutSafety, ClientsInv, Justified
  <1>3. Len(header[d]) \in Nat /\ host_timestamp(d) \in Nat /\ host_height(d) = Len(header[d])
    BY <1>1, HostClock DEF host_height
  <1>4. ph \in 1..Len(header[d]) /\ ph \in Nat
    BY <1>2, <1>3, MaxHeightAssumption DEF Heights
  <1>5. hd.time \in Nat /\ hd.time <= host_timestamp(d)
    BY <1>1, <1>4, HeaderType DEF TimeoutSafety, HeadersInv
  <1>6. \/ timed_out(pkt, hd.time, ph)
        \/ hd.root.chan = "Closed"
    BY <1>2 DEF Justified, ProvenStore
  <1>7. ~ AlreadyReceived(hd.root, pkt.seq)
    BY <1>2 DEF Justified, ProvenStore
  <1>8. Undeliverable(d, pkt)
    <2>1. CASE timed_out(pkt, hd.time, ph)
      BY <1>2, <1>3, <1>4, <1>5, <2>1, TimedOutMonotone DEF Undeliverable
    <2>2. CASE hd.root.chan = "Closed"
      BY <1>1, <1>4, <2>2 DEF TimeoutSafety, ClosedInv, Undeliverable
    <2> QED BY <1>6, <2>1, <2>2
  <1>9. ASSUME NEW i \in DOMAIN received[d], received[d][i] = pkt PROVE FALSE
    BY <1>1, <1>4, <1>6, <1>7, <1>9 DEF TimeoutSafety, ReceivedInv
  <1> QED BY <1>8, <1>9 DEF WasReceived

LEMMA TimedOutInvStep ==
  ASSUME TypeOK, TypeOK', TimeoutSafety, [Next]_vars
  PROVE  TimedOutInv'
  <1> SUFFICES ASSUME NEW c \in Chains, NEW i \in DOMAIN settled'[c],
                      settled'[c][i].outcome = "timeout"
               PROVE  (/\ Undeliverable(Other(c), settled[c][i].packet)
                       /\ ~ WasReceived(Other(c), settled[c][i].packet))'
    BY DEF TimedOutInv
  <1>1. ASSUME NEW pkt \in Packet, Undeliverable(Other(c), pkt), ~ WasReceived(Other(c), pkt)
        PROVE  Undeliverable(Other(c), pkt)' /\ ~ WasReceived(Other(c), pkt)'
    BY <1>1, OtherIsChain, UndeliverableStep, NotReceivedStep
  <1>2. settled'[c][i].packet \in Packet
        /\ Undeliverable(Other(c), settled'[c][i].packet)
        /\ ~ WasReceived(Other(c), settled'[c][i].packet)
    <2>1. CASE i \in DOMAIN settled[c] /\ settled'[c][i] = settled[c][i]
      BY <2>1, SettledType DEF TimeoutSafety, TimedOutInv
    <2>2. CASE settled' = settled
      BY <2>1, <2>2
    <2>3. ASSUME NEW b \in Chains, NEW pkt \in Packet, NEW o \in Acks \union {"timeout"},
                 Settles(b, pkt, o)
          PROVE  settled'[c][i].packet \in Packet
                 /\ Undeliverable(Other(c), settled'[c][i].packet)
                 /\ ~ WasReceived(Other(c), settled'[c][i].packet)
      <3> DEFINE e == [packet |-> pkt, outcome |-> o]
                 E == [packet : Packet, outcome : Acks \union {"timeout"}]
      <3>1. e \in E /\ e.packet = pkt /\ e.outcome = o
        OBVIOUS
      <3>2. settled \in [Chains -> Seq(E)] /\ settled' = [settled EXCEPT ![b] = Append(@, e)]
        BY <2>3 DEF TypeOK, Settles, Settle
      <3> HIDE DEF e, E
      <3>3. \/ i \in DOMAIN settled[c] /\ settled'[c][i] = settled[c][i]
            \/ c = b /\ settled'[c][i] = e
        BY <3>1, <3>2, AppendFacts
      <3>4. CASE c = b /\ settled'[c][i] = e
        <4>1. o = "timeout"
          BY <3>1, <3>4
        <4>2. PICK ph \in Heights : Justified(c, pkt, ph)
          BY <2>3, <3>4, <4>1 DEF Settles
        <4> QED BY <3>1, <3>4, <4>2, JustifiedMeansDead
      <3> QED BY <2>1, <3>3, <3>4
    <2> QED BY <2>2, <2>3, SettledProgress
  <1> QED BY <1>1, <1>2 DEF Undeliverable, WasReceived

LEMMA InitTimeoutSafety == Init => TimeoutSafety
  <1> SUFFICES ASSUME Init PROVE TimeoutSafety
    OBVIOUS
  <1>1. /\ \A c \in Chains : received[c] = <<>> /\ settled[c] = <<>>
        /\ ReceivedInv /\ TimedOutInv
    BY DEF Init, ReceivedInv, TimedOutInv
  <1>2. /\ header = [c \in Chains |-> <<[time |-> 1, root |-> store[c]]>>]
        /\ \A c \in Chains : Len(header[c]) = 1 /\ header[c][1].time = 1
                             /\ header[c][1].root = store[c]
    BY DEF Init, HostInit
  <1>3. HeadersInv /\ ClosedInv
    BY <1>2 DEF HeadersInv, ClosedInv, host_timestamp
  <1>4. \A c \in Chains, h \in Heights :
          client[c].cons[h] =
            IF h = 1 THEN NewConsensusState([height |-> 1, time |-> 1, root |-> store[Other(c)]], 1, 1)
            ELSE None
    BY DEF Init, HostInit, initialise
  <1>5. ClientsInv
    <2> SUFFICES ASSUME NEW c \in Chains, NEW h \in Heights, client[c].cons[h] # None
                 PROVE  /\ h <= Len(header[Other(c)])
                        /\ client[c].cons[h].time = header[Other(c)][h].time
                        /\ client[c].cons[h].root = header[Other(c)][h].root
      BY DEF ClientsInv
    <2>1. /\ h = 1
          /\ client[c].cons[h].time = 1
          /\ client[c].cons[h].root = store[Other(c)]
      <3>1. h = 1 /\ client[c].cons[h] =
                       NewConsensusState([height |-> 1, time |-> 1, root |-> store[Other(c)]], 1, 1)
        BY <1>4
      <3> QED BY <3>1 DEF NewConsensusState
    <2> QED BY <1>2, <2>1, OtherIsChain
  <1> QED BY <1>1, <1>3, <1>5 DEF TimeoutSafety

\* The strengthening is preserved by every step of both chains.
LEMMA NextTimeoutSafety ==
  ASSUME TypeOK, TimeoutSafety, [Next]_vars
  PROVE  TypeOK' /\ TimeoutSafety'
  <1>1. TypeOK'
    BY NextTypeOK
  <1>2. HeadersInv' /\ ClientsInv' /\ ClosedInv' /\ ReceivedInv'
    BY <1>1, HeadersInvStep, ClientsInvStep, ClosedInvStep, ReceivedInvStep DEF TimeoutSafety
  <1>3. TimedOutInv'
    BY <1>1, TimedOutInvStep
  <1> QED BY <1>1, <1>2, <1>3 DEF TimeoutSafety

\* TimeoutSafety holds in every reachable state of every instance.
THEOREM TimeoutSafetyHolds == Spec => []TimeoutSafety
  <1>1. Init => TypeOK /\ TimeoutSafety
    BY InitTypeOK, InitTimeoutSafety
  <1>2. TypeOK /\ TimeoutSafety /\ [Next]_vars => (TypeOK /\ TimeoutSafety)'
    BY NextTimeoutSafety
  <1> QED BY <1>1, <1>2, PTL DEF Spec

\* No packet is both delivered on its destination and timed out on its source,
\* for every number of blocks and packets, every timeout, trusting period and
\* delay, both orderings, and whatever the relayers do.
THEOREM ReceiptExcludesTimeout == Spec => []NeverReceivedAndTimedOut
  <1>1. TimeoutSafety => NeverReceivedAndTimedOut
    <2> SUFFICES ASSUME TimeoutSafety, NEW c \in Chains, NEW i \in DOMAIN received[c],
                        TimedOut(Other(c), received[c][i])
                 PROVE  FALSE
      BY DEF NeverReceivedAndTimedOut
    <2>1. PICK j \in DOMAIN settled[Other(c)] :
            /\ settled[Other(c)][j].packet = received[c][i]
            /\ settled[Other(c)][j].outcome = "timeout"
      BY DEF TimedOut
    <2>2. ~ WasReceived(c, received[c][i])
      BY <2>1, OtherIsChain DEF TimeoutSafety, TimedOutInv
    <2> QED BY <2>2 DEF WasReceived
  <1> QED BY <1>1, TimeoutSafetyHolds, PTL

----------------------------------------------------------------------------
(***************************************************************************)
(* A channel keeps its books: what was sent, delivered and settled agrees  *)
(* with the commitments, receipts, acknowledgements and counters in the    *)
(* stores, now and in every header another chain may have seen.  From the  *)
(* books follow delivery and settlement at most once, the order of an      *)
(* ordered channel, and the refinement of PacketDelivery.                  *)
(***************************************************************************)

\* Every commitment in st is the one of the packet sent with that sequence.
CommitsSent(st, log) ==
  \A s \in Seqs : st.commit[s] # None =>
    s \in DOMAIN log /\ st.commit[s] = compute_packet_commitment(log[s])

\* Sequences are given out in order, and commitments, today's and those a
\* header shows, are of packets that were sent.
SentBooks ==
  \A c \in Chains :
    /\ store[c].nextSeqSend = Len(sent[c]) + 1
    /\ \A i \in DOMAIN sent[c] : sent[c][i].seq = i
    /\ CommitsSent(store[c], sent[c])
    /\ \A p \in 1..Len(header[c]) : CommitsSent(header[c][p].root, sent[c])

\* Only sent packets were delivered, each once and on an ordered channel in
\* the order of their sequences.
ReceivedBooks ==
  \A c \in Chains :
    /\ \A i \in DOMAIN received[c] :
         /\ received[c][i].seq \in DOMAIN sent[Other(c)]
         /\ received[c][i] = sent[Other(c)][received[c][i].seq]
    /\ \A i, j \in DOMAIN received[c] :
         received[c][i].seq = received[c][j].seq => i = j
    /\ Ordering = "Ordered" =>
         /\ store[c].nextSeqRecv = Len(received[c]) + 1
         /\ \A i \in DOMAIN received[c] : received[c][i].seq = i

\* An acknowledgement is of a delivered packet, and one that a header shows is
\* the one still stored.
AckBooks ==
  \A c \in Chains : \A s \in Seqs :
    /\ store[c].ack[s] # None => \E i \in DOMAIN received[c] : received[c][i].seq = s
    /\ \A p \in 1..Len(header[c]) :
         header[c][p].root.ack[s] # None => header[c][p].root.ack[s] = store[c].ack[s]

\* A sent packet has its commitment until it is settled, once; an
\* acknowledgement that settled it is the one its delivery wrote.
SettledBooks ==
  \A c \in Chains :
    /\ \A i \in DOMAIN settled[c] :
         /\ settled[c][i].packet.seq \in DOMAIN sent[c]
         /\ settled[c][i].packet = sent[c][settled[c][i].packet.seq]
         /\ store[c].commit[settled[c][i].packet.seq] = None
         /\ settled[c][i].outcome # "timeout" => WasReceived(Other(c), settled[c][i].packet)
    /\ \A i, j \in DOMAIN settled[c] :
         settled[c][i].packet.seq = settled[c][j].packet.seq => i = j
    /\ \A s \in DOMAIN sent[c] : store[c].commit[s] = None => s \in SettledSeqs(c)

\* On an ordered channel packets are acknowledged in order, up to the timeout
\* that closes it.
AckOrder ==
  Ordering = "Ordered" =>
    \A c \in Chains :
      /\ \A i \in DOMAIN settled[c] :
           settled[c][i].outcome # "timeout" => settled[c][i].packet.seq = i
      /\ store[c].chan # "Closed" =>
           /\ store[c].nextSeqAck = Len(settled[c]) + 1
           /\ \A i \in DOMAIN settled[c] : settled[c][i].outcome # "timeout"

PacketBooks == SentBooks /\ ReceivedBooks /\ AckBooks /\ SettledBooks /\ AckOrder

----------------------------------------------------------------------------
(***************************************************************************)
(* What a step can do to the books.  A step of Next sends, delivers,       *)
(* acknowledges or times out one packet, or leaves the books alone.        *)
(***************************************************************************)

\* The part of a chain's store that sending and settling do not touch, and
\* the part that receiving does not touch.
SameInbound(st, st2)  == st2.nextSeqRecv = st.nextSeqRecv /\ st2.ack = st.ack
SameOutbound(st, st2) ==
  /\ st2.nextSeqSend = st.nextSeqSend
  /\ st2.nextSeqAck = st.nextSeqAck
  /\ st2.commit = st.commit

Quiet ==
  /\ UNCHANGED appVars
  /\ \A d \in Chains : /\ SameInbound(store[d], store'[d])
                       /\ SameOutbound(store[d], store'[d])

SendStep(c, pkt) ==
  /\ pkt.seq = store[c].nextSeqSend
  /\ store[c].chan # "Closed"
  /\ sent' = [sent EXCEPT ![c] = Append(@, pkt)]
  /\ UNCHANGED <<hostVars, received, settled>>
  /\ store'[c].nextSeqSend = store[c].nextSeqSend + 1
  /\ store'[c].nextSeqAck = store[c].nextSeqAck
  /\ store'[c].commit = [store[c].commit EXCEPT ![pkt.seq] = compute_packet_commitment(pkt)]
  /\ store'[c].chan = store[c].chan
  /\ SameInbound(store[c], store'[c])
  /\ \A d \in Chains : d # c => store'[d] = store[d]

DeliverStep(c, pkt, ack) ==
  /\ Delivered(c, pkt)
  /\ ~ AlreadyReceived(store[c], pkt.seq)
  /\ \E ph \in Heights : /\ client[c].cons[ph] # None
                         /\ CommitmentIs(ProvenStore(c, ph), pkt)
  /\ store[c].ack[pkt.seq] = None
  /\ store'[c].ack = [store[c].ack EXCEPT ![pkt.seq] = ack]
  /\ Ordering = "Ordered" => /\ pkt.seq = store[c].nextSeqRecv
                             /\ store'[c].nextSeqRecv = store[c].nextSeqRecv + 1
  /\ store'[c].chan = store[c].chan
  /\ SameOutbound(store[c], store'[c])
  /\ \A d \in Chains : d # c => store'[d] = store[d]

\* Common to acknowledgement and timeout: the packet's commitment goes.
SettleStep(c, pkt, outcome) ==
  /\ HasCommitment(store[c], pkt.seq)
  /\ CommitmentIs(store[c], pkt)
  /\ Settle(c, pkt, outcome)
  /\ UNCHANGED <<hostVars, sent, received>>
  /\ store'[c].commit = [store[c].commit EXCEPT ![pkt.seq] = None]
  /\ store'[c].nextSeqSend = store[c].nextSeqSend
  /\ SameInbound(store[c], store'[c])
  /\ \A d \in Chains : d # c => store'[d] = store[d]

AckStep(c, pkt, ack) ==
  /\ SettleStep(c, pkt, ack)
  /\ store[c].chan = "Open"
  /\ \E ph \in Heights : /\ client[c].cons[ph] # None
                         /\ ProvenStore(c, ph).ack[pkt.seq] = ack
  /\ Ordering = "Ordered" => /\ pkt.seq = store[c].nextSeqAck
                             /\ store'[c].nextSeqAck = pkt.seq + 1

TimeoutStep(c, pkt) ==
  /\ SettleStep(c, pkt, "timeout")
  /\ \E ph \in Heights : Justified(c, pkt, ph)
  /\ Ordering = "Ordered" => store'[c].chan = "Closed"

LEMMA SendIsStep ==
  ASSUME TypeOK, NEW c \in Chains, NEW pkt \in Packet, SendPacket(c, pkt)
  PROVE  SendStep(c, pkt)
  <1>1. store[c] \in Store /\ store' = [store EXCEPT ![c] = SentIn(store[c], pkt)]
        /\ store \in [Chains -> Store]
    BY DEF TypeOK, SendPacket, send_packet_execute
  <1>2. store'[c] = SentIn(store[c], pkt) /\ \A d \in Chains : d # c => store'[d] = store[d]
    BY <1>1
  <1>3. LET st == SentIn(store[c], pkt) IN
        /\ st.nextSeqSend = store[c].nextSeqSend + 1
        /\ st.nextSeqAck = store[c].nextSeqAck
        /\ st.commit = [store[c].commit EXCEPT ![pkt.seq] = compute_packet_commitment(pkt)]
        /\ st.chan = store[c].chan
        /\ SameInbound(store[c], st)
    BY <1>1 DEF SentIn, Store, SameInbound
  <1> HIDE DEF SentIn
  <1> QED BY <1>2, <1>3 DEF SendStep, SendPacket, send_packet_validate, send_packet_execute

LEMMA RecvIsStep ==
  ASSUME TypeOK, NEW c \in Chains, NEW pkt \in Packet, NEW ph \in Heights, NEW ack \in Acks,
         RecvPacket(c, pkt, ph, ack)
  PROVE  Quiet \/ DeliverStep(c, pkt, ack)
  <1>1. CASE AlreadyReceived(store[c], pkt.seq)
    BY <1>1 DEF RecvPacket, recv_packet_execute, Quiet, SameInbound, SameOutbound, appVars
  <1>2. CASE ~ AlreadyReceived(store[c], pkt.seq)
    <2> DEFINE st == ReceivedIn(store[c], pkt.seq, ack)
    <2>1. store[c] \in Store /\ store' = [store EXCEPT ![c] = st]
          /\ store \in [Chains -> Store]
      BY <1>2 DEF TypeOK, RecvPacket, recv_packet_execute
    <2>2. RecvSequenceValid(store[c], pkt.seq) /\ pkt.seq \in Seqs
      BY PacketType DEF RecvPacket, recv_packet_validate
    <2>3. /\ st.ack = [store[c].ack EXCEPT ![pkt.seq] = ack]
          /\ Ordering = "Ordered" => st.nextSeqRecv = store[c].nextSeqRecv + 1
          /\ st.chan = store[c].chan
          /\ SameOutbound(store[c], st)
      BY <2>1 DEF ReceivedIn, Store, SameOutbound
    <2>4. AlreadyReceived(st, pkt.seq)
      BY <1>2, <2>1, <2>2, ReceivedInProgress
    <2>5. Ordering = "Ordered" => pkt.seq = store[c].nextSeqRecv
      BY <1>2, <2>1, <2>2, MaxSeqAssumption DEF RecvSequenceValid, AlreadyReceived, Store, Seqs
    <2>6. store[c].ack[pkt.seq] = None
      BY <2>2, <2>5 DEF RecvSequenceValid, HasAck
    <2>7. client[c].cons[ph] # None /\ CommitmentIs(ProvenStore(c, ph), pkt)
      BY ProvenStoreType DEF RecvPacket, recv_packet_validate
    <2> HIDE DEF st
    <2>8. store'[c] = st /\ \A d \in Chains : d # c => store'[d] = store[d]
      BY <2>1
    <2>9. Delivered(c, pkt)
      BY <1>2, <2>4, <2>8 DEF RecvPacket, recv_packet_validate, recv_packet_execute, Delivered
    <2> QED BY <1>2, <2>3, <2>5, <2>6, <2>7, <2>8, <2>9 DEF DeliverStep
  <1> QED BY <1>1, <1>2

LEMMA AckIsStep ==
  ASSUME TypeOK, NEW c \in Chains, NEW pkt \in Packet, NEW ph \in Heights, NEW ack \in Acks,
         AcknowledgePacket(c, pkt, ph, ack)
  PROVE  Quiet \/ AckStep(c, pkt, ack)
  <1>1. CASE ~ HasCommitment(store[c], pkt.seq)
    BY <1>1 DEF AcknowledgePacket, acknowledgement_packet_execute, Quiet, SameInbound,
                SameOutbound, appVars
  <1>2. CASE HasCommitment(store[c], pkt.seq)
    <2> DEFINE st == AcknowledgedIn(store[c], pkt.seq)
    <2>1. store[c] \in Store /\ store' = [store EXCEPT ![c] = st]
          /\ store \in [Chains -> Store]
      BY <1>2 DEF TypeOK, AcknowledgePacket, acknowledgement_packet_execute
    <2>2. /\ st.commit = [store[c].commit EXCEPT ![pkt.seq] = None]
          /\ st.nextSeqSend = store[c].nextSeqSend
          /\ Ordering = "Ordered" => st.nextSeqAck = pkt.seq + 1
          /\ SameInbound(store[c], st)
      BY <2>1 DEF AcknowledgedIn, Store, SameInbound
    <2> HIDE DEF st
    <2>3. store'[c] = st /\ \A d \in Chains : d # c => store'[d] = store[d]
      BY <2>1
    <2>4. client[c].cons[ph] # None /\ ProvenStore(c, ph).ack[pkt.seq] = ack
      BY <1>2, ProvenStoreType DEF AcknowledgePacket, acknowledgement_packet_validate
    <2>5. SettleStep(c, pkt, ack)
      BY <1>2, <2>2, <2>3 DEF SettleStep, AcknowledgePacket, acknowledgement_packet_validate,
                              acknowledgement_packet_execute
    <2> QED BY <1>2, <2>2, <2>3, <2>4, <2>5
            DEF AckStep, AcknowledgePacket, acknowledgement_packet_validate
  <1> QED BY <1>1, <1>2

LEMMA TimeoutIsStep ==
  ASSUME TypeOK, NEW c \in Chains, NEW pkt \in Packet, NEW ph \in Heights, NEW n \in Seqs,
         TimeoutPacket(c, pkt, ph, n) \/ TimeoutOnClose(c, pkt, ph, n)
  PROVE  Quiet \/ TimeoutStep(c, pkt)
  <1>1. timeout_packet_execute(c, pkt) /\ UNCHANGED <<hostVars, sent, received>>
    BY DEF TimeoutPacket, TimeoutOnClose
  <1>2. CASE ~ HasCommitment(store[c], pkt.seq)
    BY <1>1, <1>2 DEF timeout_packet_execute, Quiet, SameInbound, SameOutbound, appVars
  <1>3. CASE HasCommitment(store[c], pkt.seq)
    <2> DEFINE st == TimedOutIn(store[c], pkt.seq)
    <2>1. store[c] \in Store /\ store' = [store EXCEPT ![c] = st]
          /\ store \in [Chains -> Store]
      BY <1>1, <1>3 DEF TypeOK, timeout_packet_execute
    <2>2. /\ st.commit = [store[c].commit EXCEPT ![pkt.seq] = None]
          /\ st.nextSeqSend = store[c].nextSeqSend
          /\ Ordering = "Ordered" => st.chan = "Closed"
          /\ SameInbound(store[c], st)
      BY <2>1 DEF TimedOutIn, Store, SameInbound
    <2> HIDE DEF st
    <2>3. store'[c] = st /\ \A d \in Chains : d # c => store'[d] = store[d]
      BY <2>1
    <2>4. /\ CommitmentIs(store[c], pkt)
          /\ CanVerifyAt(c, ph)
          /\ \/ timed_out(pkt, client[c].cons[ph].time, ph)
             \/ ProvenStore(c, ph).chan = "Closed"
          /\ UnreceivedIn(ProvenStore(c, ph), pkt, n)
      BY <1>3 DEF TimeoutPacket, timeout_validate, TimeoutOnClose, timeout_on_close_validate
    <2>5. Justified(c, pkt, ph)
      BY <2>4, ProvenStoreType, UnreceivedNotReceived DEF Justified
    <2>6. SettleStep(c, pkt, "timeout")
      BY <1>1, <1>3, <2>2, <2>3, <2>4 DEF SettleStep, timeout_packet_execute
    <2> QED BY <2>2, <2>3, <2>5, <2>6 DEF TimeoutStep
  <1> QED BY <1>2, <1>3

LEMMA SetChannelIsQuiet ==
  ASSUME TypeOK, NEW c \in Chains, NEW s \in ChannelState, SetChannel(c, s),
         UNCHANGED appVars
  PROVE  Quiet
  <1> DEFINE st == WithState(store[c], s)
  <1>1. store[c] \in Store /\ store' = [store EXCEPT ![c] = st]
        /\ store \in [Chains -> Store]
    BY DEF TypeOK, SetChannel
  <1>2. SameInbound(store[c], st) /\ SameOutbound(store[c], st)
    BY <1>1 DEF WithState, Store, SameInbound, SameOutbound
  <1> HIDE DEF st
  <1>3. store'[c] = st /\ \A d \in Chains : d # c => store'[d] = store[d]
    BY <1>1
  <1> QED BY <1>2, <1>3 DEF Quiet, SameInbound, SameOutbound

\* The kinds of step.
LEMMA StepKinds ==
  ASSUME TypeOK, [Next]_vars
  PROVE  \/ Quiet
         \/ \E c \in Chains, pkt \in Packet :
              \/ SendStep(c, pkt)
              \/ \E ack \in Acks : DeliverStep(c, pkt, ack) \/ AckStep(c, pkt, ack)
              \/ TimeoutStep(c, pkt)
  <1>1. CASE UNCHANGED vars
    BY <1>1 DEF vars, Quiet, appVars, SameInbound, SameOutbound
  <1>2. ASSUME NEW c \in Chains, Produce(c) \/ Update(c) PROVE Quiet
    BY <1>2 DEF Produce, NewBlock, Update, UpdateClient, Quiet, SameInbound, SameOutbound
  <1>3. ASSUME NEW c \in Chains, Send(c) PROVE \E pkt \in Packet : SendStep(c, pkt)
    BY <1>3, SendIsStep DEF Send
  <1>4. ASSUME NEW c \in Chains, Recv(c)
        PROVE  Quiet \/ \E pkt \in Packet, ack \in Acks : DeliverStep(c, pkt, ack)
    BY <1>4, RecvIsStep DEF Recv
  <1>5. ASSUME NEW c \in Chains, Acknowledge(c)
        PROVE  Quiet \/ \E pkt \in Packet, ack \in Acks : AckStep(c, pkt, ack)
    BY <1>5, AckIsStep DEF Acknowledge
  <1>6. ASSUME NEW c \in Chains, Timeout(c) \/ TimeoutClosed(c)
        PROVE  Quiet \/ \E pkt \in Packet : TimeoutStep(c, pkt)
    BY <1>6, TimeoutIsStep DEF Timeout, TimeoutClosed
  <1>7. ASSUME NEW c \in Chains, OpenConfirm(c) \/ ChanCloseInit(c) \/ CloseConfirm(c)
        PROVE  Quiet
    <2>1. \E s \in ChannelState : SetChannel(c, s) /\ UNCHANGED appVars
      BY <1>7 DEF OpenConfirm, ChanOpenConfirm, ChanCloseInit, CloseConfirm,
                  ChanCloseConfirm, ChannelState
    <2> QED BY <2>1, SetChannelIsQuiet
  <1> QED BY <1>1, <1>2, <1>3, <1>4, <1>5, <1>6, <1>7 DEF Next

----------------------------------------------------------------------------
\* Appending an entry to the log of one chain, in detail.
LEMMA AppendDetail ==
  ASSUME NEW E, NEW log \in [Chains -> Seq(E)], NEW c \in Chains, NEW e \in E,
         NEW log2, log2 = [log EXCEPT ![c] = Append(@, e)]
  PROVE  /\ \A d \in Chains : d # c => log2[d] = log[d]
         /\ Len(log[c]) \in Nat
         /\ DOMAIN log[c] = 1..Len(log[c])
         /\ Len(log2[c]) = Len(log[c]) + 1
         /\ DOMAIN log2[c] = 1..(Len(log[c]) + 1)
         /\ \A i \in DOMAIN log[c] : log2[c][i] = log[c][i]
         /\ log2[c][Len(log[c]) + 1] = e
  <1>1. log2[c] = Append(log[c], e) /\ log[c] \in Seq(E)
    OBVIOUS
  <1>2. \A d \in Chains : d # c => log2[d] = log[d]
    OBVIOUS
  <1> QED BY <1>1, <1>2, AppendProperties

\* A packet is determined by its sequence and its commitment.
LEMMA CommitmentBinds ==
  ASSUME NEW p \in Packet, NEW q \in Packet, p.seq = q.seq,
         compute_packet_commitment(p) = compute_packet_commitment(q)
  PROVE  p = q
  <1>1. /\ p = [seq |-> p.seq, data |-> p.data, timeoutHeight |-> p.timeoutHeight,
                timeoutTime |-> p.timeoutTime]
        /\ q = [seq |-> q.seq, data |-> q.data, timeoutHeight |-> q.timeoutHeight,
                timeoutTime |-> q.timeoutTime]
    BY DEF Packet
  <1>2. /\ p.data = q.data
        /\ p.timeoutHeight = q.timeoutHeight
        /\ p.timeoutTime = q.timeoutTime
    BY DEF compute_packet_commitment
  <1> QED BY <1>1, <1>2

LEMMA SentType ==
  ASSUME TypeOK, NEW c \in Chains, NEW i \in DOMAIN sent[c]
  PROVE  sent[c][i] \in Packet
  <1>1. sent[c] \in Seq(Packet)
    BY DEF TypeOK
  <1> QED BY <1>1

LEMMA SendAppends ==
  ASSUME TypeOK, NEW c \in Chains, NEW pkt \in Packet, SendStep(c, pkt)
  PROVE  /\ \A d \in Chains : d # c => sent'[d] = sent[d]
         /\ Len(sent[c]) \in Nat
         /\ DOMAIN sent[c] = 1..Len(sent[c])
         /\ Len(sent'[c]) = Len(sent[c]) + 1
         /\ DOMAIN sent'[c] = 1..(Len(sent[c]) + 1)
         /\ \A i \in DOMAIN sent[c] : sent'[c][i] = sent[c][i]
         /\ sent'[c][Len(sent[c]) + 1] = pkt
  <1>1. sent \in [Chains -> Seq(Packet)] /\ sent' = [sent EXCEPT ![c] = Append(@, pkt)]
    BY DEF TypeOK, SendStep
  <1> QED BY <1>1, AppendDetail

LEMMA DeliverAppends ==
  ASSUME TypeOK, NEW c \in Chains, NEW pkt \in Packet, NEW ack \in Acks,
         DeliverStep(c, pkt, ack)
  PROVE  /\ \A d \in Chains : d # c => received'[d] = received[d]
         /\ Len(received[c]) \in Nat
         /\ DOMAIN received[c] = 1..Len(received[c])
         /\ Len(received'[c]) = Len(received[c]) + 1
         /\ DOMAIN received'[c] = 1..(Len(received[c]) + 1)
         /\ \A i \in DOMAIN received[c] : received'[c][i] = received[c][i]
         /\ received'[c][Len(received[c]) + 1] = pkt
  <1>1. received \in [Chains -> Seq(Packet)]
        /\ received' = [received EXCEPT ![c] = Append(@, pkt)]
    BY DEF TypeOK, DeliverStep, Delivered
  <1> QED BY <1>1, AppendDetail

LEMMA SettleAppends ==
  ASSUME TypeOK, NEW c \in Chains, NEW pkt \in Packet, NEW o \in Acks \union {"timeout"},
         SettleStep(c, pkt, o)
  PROVE  /\ \A d \in Chains : d # c => settled'[d] = settled[d]
         /\ Len(settled[c]) \in Nat
         /\ DOMAIN settled[c] = 1..Len(settled[c])
         /\ Len(settled'[c]) = Len(settled[c]) + 1
         /\ DOMAIN settled'[c] = 1..(Len(settled[c]) + 1)
         /\ \A i \in DOMAIN settled[c] : settled'[c][i] = settled[c][i]
         /\ settled'[c][Len(settled[c]) + 1].packet = pkt
         /\ settled'[c][Len(settled[c]) + 1].outcome = o
  <1> DEFINE e == [packet |-> pkt, outcome |-> o]
             E == [packet : Packet, outcome : Acks \union {"timeout"}]
  <1>1. e \in E /\ e.packet = pkt /\ e.outcome = o
    OBVIOUS
  <1>2. settled \in [Chains -> Seq(E)] /\ settled' = [settled EXCEPT ![c] = Append(@, e)]
    BY DEF TypeOK, SettleStep, Settle
  <1> HIDE DEF e, E
  <1>3. /\ \A d \in Chains : d # c => settled'[d] = settled[d]
        /\ Len(settled[c]) \in Nat
        /\ DOMAIN settled[c] = 1..Len(settled[c])
        /\ Len(settled'[c]) = Len(settled[c]) + 1
        /\ DOMAIN settled'[c] = 1..(Len(settled[c]) + 1)
        /\ \A i \in DOMAIN settled[c] : settled'[c][i] = settled[c][i]
        /\ settled'[c][Len(settled[c]) + 1] = e
    BY <1>1, <1>2, AppendDetail
  <1> QED BY <1>1, <1>3

\* No step takes back what an application sent, received or settled.
LEMMA SentGrows ==
  ASSUME TypeOK, [Next]_vars, NEW d \in Chains, NEW i \in DOMAIN sent[d]
  PROVE  i \in DOMAIN sent'[d] /\ sent'[d][i] = sent[d][i]
  <1>1. ASSUME NEW c \in Chains, NEW pkt \in Packet, SendStep(c, pkt)
        PROVE  i \in DOMAIN sent'[d] /\ sent'[d][i] = sent[d][i]
    BY <1>1, SendAppends
  <1>2. CASE sent' = sent
    BY <1>2
  <1>3. ASSUME NEW c \in Chains, NEW pkt \in Packet, NEW ack \in Acks,
               DeliverStep(c, pkt, ack) \/ AckStep(c, pkt, ack)
        PROVE  sent' = sent
    BY <1>3 DEF DeliverStep, Delivered, AckStep, SettleStep
  <1>4. ASSUME NEW c \in Chains, NEW pkt \in Packet, TimeoutStep(c, pkt)
        PROVE  sent' = sent
    BY <1>4 DEF TimeoutStep, SettleStep
  <1> QED BY <1>1, <1>2, <1>3, <1>4, StepKinds DEF Quiet, appVars

LEMMA ReceivedGrows ==
  ASSUME TypeOK, [Next]_vars, NEW d \in Chains, NEW i \in DOMAIN received[d]
  PROVE  i \in DOMAIN received'[d] /\ received'[d][i] = received[d][i]
  <1>1. ASSUME NEW c \in Chains, NEW pkt \in Packet, NEW ack \in Acks, DeliverStep(c, pkt, ack)
        PROVE  i \in DOMAIN received'[d] /\ received'[d][i] = received[d][i]
    BY <1>1, DeliverAppends
  <1>2. CASE received' = received
    BY <1>2
  <1>3. ASSUME NEW c \in Chains, NEW pkt \in Packet, SendStep(c, pkt) \/ TimeoutStep(c, pkt)
        PROVE  received' = received
    BY <1>3 DEF SendStep, TimeoutStep, SettleStep
  <1>4. ASSUME NEW c \in Chains, NEW pkt \in Packet, NEW ack \in Acks, AckStep(c, pkt, ack)
        PROVE  received' = received
    BY <1>4 DEF AckStep, SettleStep
  <1> QED BY <1>1, <1>2, <1>3, <1>4, StepKinds DEF Quiet, appVars

----------------------------------------------------------------------------
\* Sending.
LEMMA CommitsSentGrows ==
  ASSUME TypeOK, [Next]_vars, NEW d \in Chains, NEW st, CommitsSent(st, sent[d])
  PROVE  CommitsSent(st, sent'[d])
  BY SentGrows DEF CommitsSent

\* Headers only commit to packets that were sent.
LEMMA HeaderCommitsStep ==
  ASSUME TypeOK, SentBooks, [Next]_vars, NEW d \in Chains, NEW p \in 1..Len(header'[d])
  PROVE  CommitsSent(header'[d][p].root, sent'[d])
  <1>1. CASE p \in 1..Len(header[d]) /\ header'[d][p] = header[d][p]
    BY <1>1, CommitsSentGrows DEF SentBooks
  <1>2. CASE header'[d][p].root = store[d]
    BY <1>2, CommitsSentGrows DEF SentBooks
  <1> QED BY <1>1, <1>2, OldHeaderOrStore

\* What SentBooks says of a store.
SentOK(st, log) ==
  /\ st.nextSeqSend = Len(log) + 1
  /\ \A i \in DOMAIN log : log[i].seq = i
  /\ CommitsSent(st, log)

LEMMA SendKeepsSentOK ==
  ASSUME TypeOK, SentBooks, NEW c \in Chains, NEW pkt \in Packet, SendStep(c, pkt)
  PROVE  SentOK(store'[c], sent'[c])
  <1> DEFINE n == Len(sent[c]) + 1
  <1>1. /\ Len(sent[c]) \in Nat
        /\ DOMAIN sent[c] = 1..Len(sent[c])
        /\ Len(sent'[c]) = n
        /\ DOMAIN sent'[c] = 1..n
        /\ \A i \in DOMAIN sent[c] : sent'[c][i] = sent[c][i]
        /\ sent'[c][n] = pkt
    BY SendAppends
  <1>2. pkt.seq = n /\ store'[c].nextSeqSend = n + 1
    BY DEF SendStep, SentBooks
  <1>3. \A i \in DOMAIN sent[c] : sent[c][i].seq = i
    BY DEF SentBooks
  <1>4. ASSUME NEW s \in Seqs, store'[c].commit[s] # None
        PROVE  s \in DOMAIN sent'[c]
               /\ store'[c].commit[s] = compute_packet_commitment(sent'[c][s])
    <2>0. store[c].commit \in [Seqs -> Commitments \union {None}]
      BY DEF TypeOK, Store
    <2>1. CASE s = n
      BY <1>1, <1>2, <2>0, <2>1 DEF SendStep
    <2>2. CASE s # n
      <3>1. store'[c].commit[s] = store[c].commit[s]
        BY <1>2, <2>0, <2>2 DEF SendStep
      <3>2. s \in DOMAIN sent[c] /\ store[c].commit[s] = compute_packet_commitment(sent[c][s])
        BY <1>4, <3>1 DEF SentBooks, CommitsSent
      <3> QED BY <1>1, <3>1, <3>2
    <2> QED BY <2>1, <2>2
  <1> QED BY <1>1, <1>2, <1>3, <1>4 DEF SentOK, CommitsSent

LEMMA SettleKeepsSentOK ==
  ASSUME TypeOK, SentBooks, NEW c \in Chains, NEW pkt \in Packet, NEW o,
         SettleStep(c, pkt, o)
  PROVE  SentOK(store'[c], sent'[c])
  <1>1. store[c].commit \in [Seqs -> Commitments \union {None}]
    BY DEF TypeOK, Store
  <1>2. \A s \in Seqs : store'[c].commit[s] # None => store'[c].commit[s] = store[c].commit[s]
    BY <1>1 DEF SettleStep
  <1> QED BY <1>2 DEF SentOK, SentBooks, CommitsSent, SettleStep

LEMMA SentBooksStep ==
  ASSUME TypeOK, SentBooks, [Next]_vars
  PROVE  SentBooks'
  <1>1. \A d \in Chains : SentOK(store[d], sent[d])
    BY DEF SentBooks, SentOK
  <1> SUFFICES ASSUME NEW d \in Chains PROVE SentOK(store'[d], sent'[d])
    BY HeaderCommitsStep DEF SentBooks, SentOK
  <1>2. CASE Quiet
    BY <1>1, <1>2 DEF Quiet, appVars, SameOutbound, SentOK, CommitsSent
  <1>3. ASSUME NEW c \in Chains, NEW pkt \in Packet, SendStep(c, pkt)
        PROVE  SentOK(store'[d], sent'[d])
    <2>1. CASE d = c
      BY <1>3, <2>1, SendKeepsSentOK
    <2>2. CASE d # c
      BY <1>1, <1>3, <2>2, SendAppends DEF SendStep
    <2> QED BY <2>1, <2>2
  <1>4. ASSUME NEW c \in Chains, NEW pkt \in Packet, NEW ack \in Acks, DeliverStep(c, pkt, ack)
        PROVE  SentOK(store'[d], sent'[d])
    BY <1>1, <1>4 DEF DeliverStep, Delivered, SameOutbound, SentOK, CommitsSent
  <1>5. ASSUME NEW c \in Chains, NEW pkt \in Packet, NEW o, SettleStep(c, pkt, o)
        PROVE  SentOK(store'[d], sent'[d])
    <2>1. CASE d = c
      BY <1>5, <2>1, SettleKeepsSentOK
    <2>2. CASE d # c
      BY <1>1, <1>5, <2>2 DEF SettleStep
    <2> QED BY <2>1, <2>2
  <1> QED BY <1>2, <1>3, <1>4, <1>5, StepKinds DEF AckStep, TimeoutStep

----------------------------------------------------------------------------
\* Receiving.

\* A commitment proven at a stored height is the one of a sent packet.
LEMMA ProvenWasSent ==
  ASSUME TypeOK, ClientsInv, SentBooks, NEW c \in Chains, NEW pkt \in Packet,
         NEW ph \in Heights, client[c].cons[ph] # None,
         CommitmentIs(ProvenStore(c, ph), pkt)
  PROVE  /\ pkt.seq \in DOMAIN sent[Other(c)]
         /\ pkt = sent[Other(c)][pkt.seq]
  <1> DEFINE d == Other(c)
  <1>1. d \in Chains /\ pkt.seq \in Seqs
    BY OtherIsChain, PacketType
  <1>2. ph \in 1..Len(header[d]) /\ ProvenStore(c, ph) = header[d][ph].root
    <2>1. ph <= Len(header[d]) /\ client[c].cons[ph].root = header[d][ph].root
      BY DEF ClientsInv
    <2>2. Len(header[d]) \in Nat
      BY <1>1, HostClock DEF host_height
    <2> QED BY <2>1, <2>2, MaxHeightAssumption DEF Heights, ProvenStore
  <1>3. CommitsSent(header[d][ph].root, sent[d])
    BY <1>1, <1>2 DEF SentBooks
  <1>4. header[d][ph].root.commit[pkt.seq] = compute_packet_commitment(pkt)
    BY <1>2 DEF CommitmentIs
  <1>5. compute_packet_commitment(pkt) # None
    BY PacketType, CommitmentsAssumption
  <1>6. /\ pkt.seq \in DOMAIN sent[d]
        /\ compute_packet_commitment(sent[d][pkt.seq]) = compute_packet_commitment(pkt)
    BY <1>1, <1>3, <1>4, <1>5 DEF CommitsSent
  <1>7. sent[d][pkt.seq] \in Packet /\ sent[d][pkt.seq].seq = pkt.seq
    BY <1>1, <1>6, SentType DEF SentBooks
  <1> QED BY <1>6, <1>7, CommitmentBinds

\* What ReceivedBooks says of one chain: its store, what it received and what
\* the other chain sent.
ReceivedLogOK(st, log, out) ==
  /\ \A i \in DOMAIN log : log[i].seq \in DOMAIN out /\ log[i] = out[log[i].seq]
  /\ \A i, j \in DOMAIN log : log[i].seq = log[j].seq => i = j
  /\ Ordering = "Ordered" =>
       /\ st.nextSeqRecv = Len(log) + 1
       /\ \A i \in DOMAIN log : log[i].seq = i

LEMMA DeliverKeepsReceived ==
  ASSUME TypeOK, ClientsInv, ReceivedInv, SentBooks, ReceivedBooks, NEW c \in Chains,
         NEW pkt \in Packet, NEW ack \in Acks, DeliverStep(c, pkt, ack)
  PROVE  ReceivedLogOK(store'[c], received'[c], sent[Other(c)])
  <1> DEFINE n == Len(received[c]) + 1
             out == sent[Other(c)]
  <1>1. /\ Len(received[c]) \in Nat
        /\ DOMAIN received[c] = 1..Len(received[c])
        /\ Len(received'[c]) = n
        /\ DOMAIN received'[c] = 1..n
        /\ \A i \in DOMAIN received[c] : received'[c][i] = received[c][i]
        /\ received'[c][n] = pkt
    BY DeliverAppends
  <1>2. pkt.seq \in DOMAIN out /\ pkt = out[pkt.seq]
    <2>1. PICK ph \in Heights : client[c].cons[ph] # None
                                /\ CommitmentIs(ProvenStore(c, ph), pkt)
      BY DEF DeliverStep
    <2> QED BY <2>1, ProvenWasSent
  <1>3. \A i \in DOMAIN received[c] : received[c][i].seq # pkt.seq
    BY DEF DeliverStep, ReceivedInv
  <1>4. ReceivedLogOK(store[c], received[c], out)
    BY DEF ReceivedBooks, ReceivedLogOK
  <1>5. \A i \in DOMAIN received'[c] : i \in DOMAIN received[c] \/ i = n
    BY <1>1
  <1>6. \A i \in DOMAIN received'[c] :
          received'[c][i].seq \in DOMAIN out /\ received'[c][i] = out[received'[c][i].seq]
    BY <1>1, <1>2, <1>4, <1>5 DEF ReceivedLogOK
  <1>7. ASSUME NEW i \in DOMAIN received'[c], NEW j \in DOMAIN received'[c],
               received'[c][i].seq = received'[c][j].seq
        PROVE  i = j
    <2>1. CASE i = n \/ j = n
      BY <1>1, <1>3, <1>5, <1>7, <2>1
    <2>2. CASE i \in DOMAIN received[c] /\ j \in DOMAIN received[c]
      <3>1. received[c][i].seq = received[c][j].seq
        BY <1>1, <1>7, <2>2
      <3> QED BY <1>4, <2>2, <3>1 DEF ReceivedLogOK
    <2> QED BY <1>5, <2>1, <2>2
  <1>8. ASSUME Ordering = "Ordered"
        PROVE  /\ store'[c].nextSeqRecv = n + 1
               /\ \A i \in DOMAIN received'[c] : received'[c][i].seq = i
    <2>1. store[c].nextSeqRecv = n /\ pkt.seq = n /\ store'[c].nextSeqRecv = n + 1
      BY <1>4, <1>8 DEF ReceivedLogOK, DeliverStep
    <2> QED BY <1>1, <1>4, <1>5, <1>8, <2>1 DEF ReceivedLogOK
  <1> QED BY <1>1, <1>6, <1>7, <1>8 DEF ReceivedLogOK

LEMMA ReceivedBooksStep ==
  ASSUME TypeOK, ClientsInv, ReceivedInv, SentBooks, ReceivedBooks, [Next]_vars
  PROVE  ReceivedBooks'
  <1>1. \A d \in Chains : ReceivedLogOK(store[d], received[d], sent[Other(d)])
    BY DEF ReceivedBooks, ReceivedLogOK
  <1> SUFFICES ASSUME NEW d \in Chains
               PROVE  ReceivedLogOK(store'[d], received'[d], sent'[Other(d)])
    BY DEF ReceivedBooks, ReceivedLogOK
  <1>2. ASSUME ReceivedLogOK(store'[d], received'[d], sent[Other(d)])
        PROVE  ReceivedLogOK(store'[d], received'[d], sent'[Other(d)])
    <2>1. \A i \in DOMAIN sent[Other(d)] :
            i \in DOMAIN sent'[Other(d)] /\ sent'[Other(d)][i] = sent[Other(d)][i]
      BY SentGrows, OtherIsChain
    <2> QED BY <1>2, <2>1 DEF ReceivedLogOK
  <1>3. ASSUME received' = received, store'[d].nextSeqRecv = store[d].nextSeqRecv
        PROVE  ReceivedLogOK(store'[d], received'[d], sent'[Other(d)])
    BY <1>1, <1>2, <1>3 DEF ReceivedLogOK
  <1>4. CASE Quiet
    BY <1>3, <1>4 DEF Quiet, appVars, SameInbound
  <1>5. ASSUME NEW c \in Chains, NEW pkt \in Packet, SendStep(c, pkt)
        PROVE  ReceivedLogOK(store'[d], received'[d], sent'[Other(d)])
    BY <1>3, <1>5 DEF SendStep, SameInbound
  <1>6. ASSUME NEW c \in Chains, NEW pkt \in Packet, NEW ack \in Acks, DeliverStep(c, pkt, ack)
        PROVE  ReceivedLogOK(store'[d], received'[d], sent'[Other(d)])
    <2>1. CASE d = c
      BY <1>2, <1>6, <2>1, DeliverKeepsReceived
    <2>2. CASE d # c
      BY <1>1, <1>2, <1>6, <2>2, DeliverAppends DEF DeliverStep
    <2> QED BY <2>1, <2>2
  <1>7. ASSUME NEW c \in Chains, NEW pkt \in Packet, NEW o, SettleStep(c, pkt, o)
        PROVE  ReceivedLogOK(store'[d], received'[d], sent'[Other(d)])
    BY <1>3, <1>7 DEF SettleStep, SameInbound
  <1> QED BY <1>4, <1>5, <1>6, <1>7, StepKinds DEF AckStep, TimeoutStep

\* Some packet with sequence s was delivered on c.
SeqReceived(c, s) == \E i \in DOMAIN received[c] : received[c][i].seq = s

LEMMA SeqReceivedGrows ==
  ASSUME TypeOK, [Next]_vars, NEW d \in Chains, NEW s, SeqReceived(d, s)
  PROVE  SeqReceived(d, s)'
  BY ReceivedGrows DEF SeqReceived

\* An acknowledgement stays what it is once it is there, and appears with a
\* delivery.
LEMMA AckWritten ==
  ASSUME TypeOK, [Next]_vars, NEW d \in Chains, NEW s \in Seqs
  PROVE  /\ store[d].ack[s] # None => store'[d].ack[s] = store[d].ack[s]
         /\ store'[d].ack[s] # None => \/ store[d].ack[s] # None
                                       \/ SeqReceived(d, s)'
  <1> DEFINE Goal == /\ store[d].ack[s] # None => store'[d].ack[s] = store[d].ack[s]
                     /\ store'[d].ack[s] # None => \/ store[d].ack[s] # None
                                                   \/ SeqReceived(d, s)'
  <1>1. ASSUME store'[d].ack = store[d].ack PROVE Goal
    BY <1>1
  <1>2. CASE Quiet
    BY <1>1, <1>2 DEF Quiet, SameInbound
  <1>3. ASSUME NEW c \in Chains, NEW pkt \in Packet, SendStep(c, pkt) PROVE Goal
    BY <1>1, <1>3 DEF SendStep, SameInbound
  <1>4. ASSUME NEW c \in Chains, NEW pkt \in Packet, NEW ack \in Acks, DeliverStep(c, pkt, ack)
        PROVE  Goal
    <2>1. CASE d # c
      BY <1>1, <1>4, <2>1 DEF DeliverStep
    <2>2. CASE d = c
      <3>1. store[c].ack \in [Seqs -> Acks \union {None}]
        BY DEF TypeOK, Store
      <3>2. /\ store[c].ack[pkt.seq] = None
            /\ store'[c].ack = [store[c].ack EXCEPT ![pkt.seq] = ack]
        BY <1>4 DEF DeliverStep
      <3>3. CASE s # pkt.seq
        BY <2>2, <3>1, <3>2, <3>3
      <3>4. CASE s = pkt.seq
        <4>1. SeqReceived(c, s)'
          BY <1>4, <3>4, DeliverAppends DEF SeqReceived
        <4> QED BY <2>2, <3>2, <3>4, <4>1
      <3> QED BY <3>3, <3>4
    <2> QED BY <2>1, <2>2
  <1>5. ASSUME NEW c \in Chains, NEW pkt \in Packet, NEW o, SettleStep(c, pkt, o) PROVE Goal
    BY <1>1, <1>5 DEF SettleStep, SameInbound
  <1> QED BY <1>2, <1>3, <1>4, <1>5, StepKinds DEF AckStep, TimeoutStep

LEMMA AckBooksStep ==
  ASSUME TypeOK, AckBooks, [Next]_vars
  PROVE  AckBooks'
  <1> SUFFICES ASSUME NEW d \in Chains, NEW s \in Seqs
               PROVE  /\ store'[d].ack[s] # None => SeqReceived(d, s)'
                      /\ \A p \in 1..Len(header'[d]) : header'[d][p].root.ack[s] # None =>
                            header'[d][p].root.ack[s] = store'[d].ack[s]
    BY DEF AckBooks, SeqReceived
  <1>1. store'[d].ack[s] # None => SeqReceived(d, s)'
    <2>1. store[d].ack[s] # None => SeqReceived(d, s)
      BY DEF AckBooks, SeqReceived
    <2> QED BY <2>1, AckWritten, SeqReceivedGrows
  <1>2. ASSUME NEW p \in 1..Len(header'[d]), header'[d][p].root.ack[s] # None
        PROVE  header'[d][p].root.ack[s] = store'[d].ack[s]
    <2>1. CASE p \in 1..Len(header[d]) /\ header'[d][p] = header[d][p]
      <3>1. header[d][p].root.ack[s] = store[d].ack[s] /\ store[d].ack[s] # None
        BY <1>2, <2>1 DEF AckBooks
      <3> QED BY <2>1, <3>1, AckWritten
    <2>2. CASE header'[d][p].root = store[d]
      BY <1>2, <2>2, AckWritten
    <2> QED BY <2>1, <2>2, OldHeaderOrStore
  <1> QED BY <1>1, <1>2

----------------------------------------------------------------------------
\* Settling.

\* The packet of a matching commitment is the one that was sent.
LEMMA CommittedWasSent ==
  ASSUME TypeOK, SentBooks, NEW c \in Chains, NEW pkt \in Packet, NEW o,
         SettleStep(c, pkt, o)
  PROVE  /\ pkt.seq \in DOMAIN sent[c]
         /\ pkt = sent[c][pkt.seq]
         /\ store[c].commit[pkt.seq] # None
  <1>1. pkt.seq \in Seqs
    BY PacketType
  <1>2. /\ store[c].commit[pkt.seq] # None
        /\ store[c].commit[pkt.seq] = compute_packet_commitment(pkt)
    BY DEF SettleStep, HasCommitment, CommitmentIs
  <1>3. /\ pkt.seq \in DOMAIN sent[c]
        /\ compute_packet_commitment(sent[c][pkt.seq]) = compute_packet_commitment(pkt)
    BY <1>1, <1>2 DEF SentBooks, CommitsSent
  <1>4. sent[c][pkt.seq] \in Packet /\ sent[c][pkt.seq].seq = pkt.seq
    BY <1>3, SentType DEF SentBooks
  <1> QED BY <1>2, <1>3, <1>4, CommitmentBinds

\* An acknowledgement proven at a stored height is that of a delivery.
LEMMA ProvenAckIsStored ==
  ASSUME TypeOK, ClientsInv, AckBooks, NEW c \in Chains, NEW s \in Seqs, NEW ack \in Acks,
         NEW ph \in Heights, client[c].cons[ph] # None, ProvenStore(c, ph).ack[s] = ack
  PROVE  store[Other(c)].ack[s] = ack /\ SeqReceived(Other(c), s)
  <1> DEFINE d == Other(c)
  <1>1. d \in Chains
    BY OtherIsChain
  <1>2. ph \in 1..Len(header[d]) /\ ProvenStore(c, ph) = header[d][ph].root
    <2>1. ph <= Len(header[d]) /\ client[c].cons[ph].root = header[d][ph].root
      BY DEF ClientsInv
    <2>2. Len(header[d]) \in Nat
      BY <1>1, HostClock DEF host_height
    <2> QED BY <2>1, <2>2, MaxHeightAssumption DEF Heights, ProvenStore
  <1>3. header[d][ph].root.ack[s] = ack /\ ack # None
    BY <1>2, AcksAssumption
  <1>4. store[d].ack[s] = ack
    BY <1>1, <1>2, <1>3 DEF AckBooks
  <1>5. SeqReceived(d, s)
    BY <1>1, <1>3, <1>4 DEF AckBooks, SeqReceived
  <1> QED BY <1>4, <1>5

\* The packet that an acknowledgement settles was delivered.
LEMMA AckedWasReceived ==
  ASSUME TypeOK, ClientsInv, SentBooks, ReceivedBooks, AckBooks, NEW c \in Chains,
         NEW pkt \in Packet, NEW ack \in Acks, AckStep(c, pkt, ack)
  PROVE  WasReceived(Other(c), pkt) /\ store[Other(c)].ack[pkt.seq] = ack
  <1>1. PICK ph \in Heights : client[c].cons[ph] # None
                              /\ ProvenStore(c, ph).ack[pkt.seq] = ack
    BY DEF AckStep
  <1>2. store[Other(c)].ack[pkt.seq] = ack /\ SeqReceived(Other(c), pkt.seq)
    BY <1>1, PacketType, ProvenAckIsStored
  <1>3. PICK i \in DOMAIN received[Other(c)] : received[Other(c)][i].seq = pkt.seq
    BY <1>2 DEF SeqReceived
  <1>4. received[Other(c)][i] = sent[c][pkt.seq]
    BY <1>3, OtherIsChain DEF ReceivedBooks
  <1>5. pkt = sent[c][pkt.seq]
    BY CommittedWasSent DEF AckStep
  <1> QED BY <1>2, <1>4, <1>5 DEF WasReceived

\* What SettledBooks says of one entry of the settlements of c, of them all,
\* and of the commitments that are gone.
SettledEntryOK(c, e) ==
  /\ e.packet.seq \in DOMAIN sent[c]
  /\ e.packet = sent[c][e.packet.seq]
  /\ store[c].commit[e.packet.seq] = None
  /\ e.outcome # "timeout" => WasReceived(Other(c), e.packet)
SettledOnce(log) ==
  \A i, j \in DOMAIN log : log[i].packet.seq = log[j].packet.seq => i = j
GoneIsSettled(c) ==
  \A s \in DOMAIN sent[c] : store[c].commit[s] = None => s \in SettledSeqs(c)

LEMMA SettledBooksParts ==
  SettledBooks <=>
    \A c \in Chains : /\ \A i \in DOMAIN settled[c] : SettledEntryOK(c, settled[c][i])
                      /\ SettledOnce(settled[c])
                      /\ GoneIsSettled(c)
  BY DEF SettledBooks, SettledEntryOK, SettledOnce, GoneIsSettled

LEMMA WasReceivedGrows ==
  ASSUME TypeOK, [Next]_vars, NEW d \in Chains, NEW pkt, WasReceived(d, pkt)
  PROVE  WasReceived(d, pkt)'
  BY ReceivedGrows DEF WasReceived

\* A commitment that is gone does not come back: sequences are not reused.
LEMMA GoneStaysGone ==
  ASSUME TypeOK, SentBooks, [Next]_vars, NEW d \in Chains, NEW s \in DOMAIN sent[d],
         store[d].commit[s] = None
  PROVE  store'[d].commit[s] = None
  <1>1. ASSUME store'[d].commit = store[d].commit PROVE store'[d].commit[s] = None
    BY <1>1
  <1>2. CASE Quiet
    BY <1>1, <1>2 DEF Quiet, SameOutbound
  <1>3. ASSUME NEW c \in Chains, NEW pkt \in Packet, SendStep(c, pkt)
        PROVE  store'[d].commit[s] = None
    <2>1. CASE d # c
      BY <1>1, <1>3, <2>1 DEF SendStep
    <2>2. CASE d = c
      <3>1. s # pkt.seq
        <4>1. pkt.seq = Len(sent[c]) + 1
          BY <1>3 DEF SendStep, SentBooks
        <4>2. Len(sent[c]) \in Nat /\ s \in 1..Len(sent[c])
          BY <1>3, <2>2, SendAppends
        <4> QED BY <4>1, <4>2
      <3>2. store'[c].commit = [store[c].commit EXCEPT ![pkt.seq] = compute_packet_commitment(pkt)]
        BY <1>3 DEF SendStep
      <3>3. sent[c][s] \in Packet /\ sent[c][s].seq = s
        BY <2>2, SentType DEF SentBooks
      <3>4. s \in Seqs /\ store[c].commit \in [Seqs -> Commitments \union {None}]
        BY <3>3, PacketType DEF TypeOK, Store
      <3> QED BY <2>2, <3>1, <3>2, <3>4
    <2> QED BY <2>1, <2>2
  <1>4. ASSUME NEW c \in Chains, NEW pkt \in Packet, NEW ack \in Acks, DeliverStep(c, pkt, ack)
        PROVE  store'[d].commit[s] = None
    BY <1>1, <1>4 DEF DeliverStep, SameOutbound
  <1>5. ASSUME NEW c \in Chains, NEW pkt \in Packet, NEW o, SettleStep(c, pkt, o)
        PROVE  store'[d].commit[s] = None
    <2>1. CASE d # c
      BY <1>1, <1>5, <2>1 DEF SettleStep
    <2>2. CASE d = c
      <3>1. store'[c].commit = [store[c].commit EXCEPT ![pkt.seq] = None]
        BY <1>5 DEF SettleStep
      <3>2. sent[c][s] \in Packet /\ sent[c][s].seq = s
        BY <2>2, SentType DEF SentBooks
      <3>3. s \in Seqs /\ store[c].commit \in [Seqs -> Commitments \union {None}]
        BY <3>2, PacketType DEF TypeOK, Store
      <3> QED BY <2>2, <3>1, <3>3
    <2> QED BY <2>1, <2>2
  <1> QED BY <1>2, <1>3, <1>4, <1>5, StepKinds DEF AckStep, TimeoutStep

LEMMA SettledEntryStep ==
  ASSUME TypeOK, SentBooks, [Next]_vars, NEW d \in Chains, NEW e, SettledEntryOK(d, e)
  PROVE  SettledEntryOK(d, e)'
  <1>1. e.packet.seq \in DOMAIN sent'[d] /\ e.packet = sent'[d][e.packet.seq]
    BY SentGrows DEF SettledEntryOK
  <1>2. store'[d].commit[e.packet.seq] = None
    BY GoneStaysGone DEF SettledEntryOK
  <1>3. e.outcome # "timeout" => WasReceived(Other(d), e.packet)'
    BY WasReceivedGrows, OtherIsChain DEF SettledEntryOK
  <1> QED BY <1>1, <1>2, <1>3 DEF SettledEntryOK

\* A settled packet is recorded, its commitment goes, and the acknowledgement
\* is that of a delivery.
LEMMA SettleKeepsSettled ==
  ASSUME TypeOK, SentBooks, SettledBooks, [Next]_vars, NEW c \in Chains, NEW pkt \in Packet,
         NEW o \in Acks \union {"timeout"}, SettleStep(c, pkt, o),
         o # "timeout" => WasReceived(Other(c), pkt)
  PROVE  /\ \A i \in DOMAIN settled'[c] : SettledEntryOK(c, settled[c][i])'
         /\ SettledOnce(settled'[c])
         /\ GoneIsSettled(c)'
  <1> DEFINE n == Len(settled[c]) + 1
  <1>1. /\ Len(settled[c]) \in Nat
        /\ DOMAIN settled[c] = 1..Len(settled[c])
        /\ DOMAIN settled'[c] = 1..n
        /\ \A i \in DOMAIN settled[c] : settled'[c][i] = settled[c][i]
        /\ settled'[c][n].packet = pkt
        /\ settled'[c][n].outcome = o
    BY SettleAppends
  <1>2. \A i \in DOMAIN settled'[c] : i \in DOMAIN settled[c] \/ i = n
    BY <1>1
  <1>3. /\ pkt.seq \in DOMAIN sent[c]
        /\ pkt = sent[c][pkt.seq]
        /\ store[c].commit[pkt.seq] # None
    BY CommittedWasSent
  <1>4. /\ \A i \in DOMAIN settled[c] : SettledEntryOK(c, settled[c][i])
        /\ SettledOnce(settled[c])
        /\ GoneIsSettled(c)
    BY SettledBooksParts
  <1>5. \A i \in DOMAIN settled[c] : settled[c][i].packet.seq # pkt.seq
    BY <1>3, <1>4 DEF SettledEntryOK
  <1>6. pkt.seq \in Seqs /\ store[c].commit \in [Seqs -> Commitments \union {None}]
        /\ store'[c].commit = [store[c].commit EXCEPT ![pkt.seq] = None]
        /\ sent' = sent /\ received' = received
    BY PacketType DEF TypeOK, Store, SettleStep
  <1>7. ASSUME NEW i \in DOMAIN settled'[c] PROVE SettledEntryOK(c, settled[c][i])'
    <2>1. CASE i \in DOMAIN settled[c]
      <3>1. SettledEntryOK(c, settled[c][i])
        BY <1>4, <2>1
      <3>2. /\ settled'[c][i] = settled[c][i]
            /\ settled[c][i].packet.seq \in DOMAIN sent'[c]
            /\ settled[c][i].packet = sent'[c][settled[c][i].packet.seq]
            /\ settled[c][i].outcome # "timeout" => WasReceived(Other(c), settled[c][i].packet)
        BY <1>1, <1>6, <2>1, <3>1 DEF SettledEntryOK
      <3>3. store'[c].commit[settled[c][i].packet.seq] = None
        BY <3>1, GoneStaysGone DEF SettledEntryOK
      <3> QED BY <1>6, <3>2, <3>3 DEF SettledEntryOK, WasReceived
    <2>2. CASE i = n
      <3>1. store'[c].commit[pkt.seq] = None
        BY <1>6
      <3> QED BY <1>1, <1>3, <1>6, <2>2, <3>1 DEF SettledEntryOK, WasReceived
    <2> QED BY <1>2, <2>1, <2>2
  <1>8. ASSUME NEW i \in DOMAIN settled'[c], NEW j \in DOMAIN settled'[c],
               settled'[c][i].packet.seq = settled'[c][j].packet.seq
        PROVE  i = j
    <2>1. CASE i = n \/ j = n
      BY <1>1, <1>2, <1>5, <1>8, <2>1
    <2>2. CASE i \in DOMAIN settled[c] /\ j \in DOMAIN settled[c]
      <3>1. settled[c][i].packet.seq = settled[c][j].packet.seq
        BY <1>1, <1>8, <2>2
      <3> QED BY <1>4, <2>2, <3>1 DEF SettledOnce
    <2> QED BY <1>2, <2>1, <2>2
  <1>9. ASSUME NEW s \in DOMAIN sent[c], store'[c].commit[s] = None
        PROVE  \E i \in DOMAIN settled'[c] : s = settled'[c][i].packet.seq
    <2>1. CASE s = pkt.seq
      BY <1>1, <2>1
    <2>2. CASE s # pkt.seq
      <3>1. sent[c][s] \in Packet /\ sent[c][s].seq = s
        BY SentType DEF SentBooks
      <3>2. store[c].commit[s] = None
        BY <1>6, <1>9, <2>2, <3>1, PacketType
      <3>3. PICK i \in DOMAIN settled[c] : s = settled[c][i].packet.seq
        BY <1>4, <3>2 DEF GoneIsSettled, SettledSeqs
      <3> QED BY <1>1, <3>3
    <2> QED BY <2>1, <2>2
  <1>10. GoneIsSettled(c)'
    BY <1>6, <1>9 DEF GoneIsSettled, SettledSeqs
  <1> QED BY <1>7, <1>8, <1>10 DEF SettledOnce

LEMMA SendKeepsGone ==
  ASSUME TypeOK, SentBooks, SettledBooks, NEW c \in Chains, NEW pkt \in Packet,
         SendStep(c, pkt)
  PROVE  GoneIsSettled(c)'
  <1> SUFFICES ASSUME NEW s \in DOMAIN sent'[c], store'[c].commit[s] = None
               PROVE  s \in SettledSeqs(c)
    BY DEF GoneIsSettled, SettledSeqs, SendStep
  <1>1. pkt.seq = Len(sent[c]) + 1 /\ pkt.seq \in Seqs
    BY PacketType DEF SendStep, SentBooks
  <1>2. /\ store[c].commit \in [Seqs -> Commitments \union {None}]
        /\ store'[c].commit = [store[c].commit EXCEPT ![pkt.seq] = compute_packet_commitment(pkt)]
        /\ compute_packet_commitment(pkt) # None
    BY PacketType, CommitmentsAssumption DEF TypeOK, Store, SendStep
  <1>3. s # pkt.seq
    BY <1>1, <1>2
  <1>4. s \in DOMAIN sent[c]
    BY <1>1, <1>3, SendAppends
  <1>5. s \in Seqs
    <2>1. sent[c][s] \in Packet /\ sent[c][s].seq = s
      BY <1>4, SentType DEF SentBooks
    <2> QED BY <2>1, PacketType
  <1>6. store[c].commit[s] = None
    BY <1>2, <1>3, <1>5
  <1> QED BY <1>4, <1>6 DEF SettledBooks

LEMMA SettledBooksStep ==
  ASSUME TypeOK, ClientsInv, SentBooks, ReceivedBooks, AckBooks, SettledBooks, [Next]_vars
  PROVE  SettledBooks'
  <1> DEFINE Goal(d) == /\ \A i \in DOMAIN settled'[d] : SettledEntryOK(d, settled[d][i])'
                        /\ SettledOnce(settled'[d])
                        /\ GoneIsSettled(d)'
  <1> SUFFICES ASSUME NEW d \in Chains PROVE Goal(d)
    BY DEF SettledBooks, SettledEntryOK, SettledOnce, GoneIsSettled
  <1>1. /\ \A i \in DOMAIN settled[d] : SettledEntryOK(d, settled[d][i])
        /\ SettledOnce(settled[d])
        /\ GoneIsSettled(d)
    BY SettledBooksParts
  <1>2. ASSUME settled'[d] = settled[d]
        PROVE  /\ \A i \in DOMAIN settled'[d] : SettledEntryOK(d, settled[d][i])'
               /\ SettledOnce(settled'[d])
    <2>1. ASSUME NEW i \in DOMAIN settled[d] PROVE SettledEntryOK(d, settled[d][i])'
      <3>1. SettledEntryOK(d, settled[d][i])
        BY <1>1, <2>1
      <3> PICK e : e = settled[d][i]
        OBVIOUS
      <3>2. /\ e.packet.seq \in DOMAIN sent'[d] /\ e.packet = sent'[d][e.packet.seq]
            /\ store'[d].commit[e.packet.seq] = None
            /\ e.outcome # "timeout" => WasReceived(Other(d), e.packet)'
        <4>1. SettledEntryOK(d, e)
          BY <3>1
        <4> QED BY <4>1, SettledEntryStep DEF SettledEntryOK
      <3>3. settled'[d][i] = e /\ settled[d][i] = e
        BY <1>2
      <3> QED BY <3>2, <3>3 DEF SettledEntryOK, WasReceived
    <2> QED BY <1>1, <1>2, <2>1
  <1>3. ASSUME settled'[d] = settled[d], sent'[d] = sent[d], store'[d].commit = store[d].commit
        PROVE  Goal(d)
    BY <1>1, <1>2, <1>3 DEF GoneIsSettled, SettledSeqs
  <1>4. CASE Quiet
    BY <1>3, <1>4 DEF Quiet, appVars, SameOutbound
  <1>5. ASSUME NEW c \in Chains, NEW pkt \in Packet, SendStep(c, pkt) PROVE Goal(d)
    <2>1. CASE d # c
      BY <1>3, <1>5, <2>1, SendAppends DEF SendStep
    <2>2. CASE d = c
      BY <1>2, <1>5, <2>2, SendKeepsGone DEF SendStep
    <2> QED BY <2>1, <2>2
  <1>6. ASSUME NEW c \in Chains, NEW pkt \in Packet, NEW ack \in Acks, DeliverStep(c, pkt, ack)
        PROVE  Goal(d)
    BY <1>3, <1>6 DEF DeliverStep, Delivered, SameOutbound
  <1>7. ASSUME NEW c \in Chains, NEW pkt \in Packet, NEW o \in Acks \union {"timeout"},
               SettleStep(c, pkt, o), o # "timeout" => WasReceived(Other(c), pkt)
        PROVE  Goal(d)
    <2>1. CASE d # c
      BY <1>3, <1>7, <2>1, SettleAppends DEF SettleStep
    <2>2. CASE d = c
      BY <1>7, <2>2, SettleKeepsSettled
    <2> QED BY <2>1, <2>2
  <1>8. ASSUME NEW c \in Chains, NEW pkt \in Packet, NEW ack \in Acks, AckStep(c, pkt, ack)
        PROVE  Goal(d)
    BY <1>7, <1>8, AckedWasReceived DEF AckStep
  <1>9. ASSUME NEW c \in Chains, NEW pkt \in Packet, TimeoutStep(c, pkt) PROVE Goal(d)
    BY <1>7, <1>9 DEF TimeoutStep
  <1> HIDE DEF Goal
  <1> QED BY <1>4, <1>5, <1>6, <1>8, <1>9, StepKinds

----------------------------------------------------------------------------
\* The order of acknowledgements on an ordered channel: what AckOrder says of
\* one chain's store and settlements.
AckOrderOK(st, log) ==
  /\ \A i \in DOMAIN log : log[i].outcome # "timeout" => log[i].packet.seq = i
  /\ st.chan # "Closed" =>
       /\ st.nextSeqAck = Len(log) + 1
       /\ \A i \in DOMAIN log : log[i].outcome # "timeout"

LEMMA SettleKeepsAckOrder ==
  ASSUME TypeOK, Ordering = "Ordered", NEW c \in Chains, NEW pkt \in Packet,
         AckOrderOK(store[c], settled[c]),
         (\E ack \in Acks : AckStep(c, pkt, ack)) \/ TimeoutStep(c, pkt)
  PROVE  AckOrderOK(store'[c], settled'[c])
  <1> DEFINE n == Len(settled[c]) + 1
  <1>1. ASSUME NEW ack \in Acks, AckStep(c, pkt, ack)
        PROVE  AckOrderOK(store'[c], settled'[c])
    <2>1. /\ Len(settled'[c]) = n
          /\ DOMAIN settled'[c] = 1..n
          /\ DOMAIN settled[c] = 1..Len(settled[c]) /\ Len(settled[c]) \in Nat
          /\ \A i \in DOMAIN settled[c] : settled'[c][i] = settled[c][i]
          /\ settled'[c][n].packet = pkt
          /\ settled'[c][n].outcome = ack
      BY <1>1, SettleAppends DEF AckStep
    <2>2. \A i \in DOMAIN settled'[c] : i \in DOMAIN settled[c] \/ i = n
      BY <2>1
    <2>3. ack # "timeout"
      BY AcksAssumption
    <2>4. store[c].chan = "Open" /\ pkt.seq = store[c].nextSeqAck
          /\ store'[c].nextSeqAck = pkt.seq + 1
      BY <1>1 DEF AckStep
    <2>5. pkt.seq = n /\ \A i \in DOMAIN settled[c] : settled[c][i].outcome # "timeout"
      BY <2>4 DEF AckOrderOK
    <2> QED BY <2>1, <2>2, <2>3, <2>4, <2>5 DEF AckOrderOK
  <1>2. ASSUME TimeoutStep(c, pkt)
        PROVE  AckOrderOK(store'[c], settled'[c])
    <2>1. /\ DOMAIN settled'[c] = 1..n
          /\ DOMAIN settled[c] = 1..Len(settled[c]) /\ Len(settled[c]) \in Nat
          /\ \A i \in DOMAIN settled[c] : settled'[c][i] = settled[c][i]
          /\ settled'[c][n].outcome = "timeout"
      BY <1>2, SettleAppends DEF TimeoutStep
    <2>2. \A i \in DOMAIN settled'[c] : i \in DOMAIN settled[c] \/ i = n
      BY <2>1
    <2>3. store'[c].chan = "Closed"
      BY <1>2 DEF TimeoutStep
    <2> QED BY <2>1, <2>2, <2>3 DEF AckOrderOK
  <1> QED BY <1>1, <1>2

LEMMA AckOrderStep ==
  ASSUME TypeOK, AckOrder, [Next]_vars
  PROVE  AckOrder'
  <1> SUFFICES ASSUME Ordering = "Ordered", NEW d \in Chains
               PROVE  AckOrderOK(store'[d], settled'[d])
    BY DEF AckOrder, AckOrderOK
  <1>1. AckOrderOK(store[d], settled[d])
    BY DEF AckOrder, AckOrderOK
  <1>2. ASSUME settled'[d] = settled[d], store'[d].nextSeqAck = store[d].nextSeqAck
        PROVE  AckOrderOK(store'[d], settled'[d])
    BY <1>1, <1>2, StoreProgress DEF AckOrderOK, Progress
  <1>3. CASE Quiet
    BY <1>2, <1>3 DEF Quiet, appVars, SameOutbound
  <1>4. ASSUME NEW c \in Chains, NEW pkt \in Packet, SendStep(c, pkt)
        PROVE  AckOrderOK(store'[d], settled'[d])
    BY <1>2, <1>4 DEF SendStep
  <1>5. ASSUME NEW c \in Chains, NEW pkt \in Packet, NEW ack \in Acks, DeliverStep(c, pkt, ack)
        PROVE  AckOrderOK(store'[d], settled'[d])
    BY <1>2, <1>5 DEF DeliverStep, Delivered, SameOutbound
  <1>6. ASSUME NEW c \in Chains, NEW pkt \in Packet,
               (\E ack \in Acks : AckStep(c, pkt, ack)) \/ TimeoutStep(c, pkt)
        PROVE  AckOrderOK(store'[d], settled'[d])
    <2>1. CASE d = c
      BY <1>1, <1>6, <2>1, SettleKeepsAckOrder
    <2>2. CASE d # c
      <3>1. PICK o \in Acks \union {"timeout"} : SettleStep(c, pkt, o)
        BY <1>6 DEF AckStep, TimeoutStep
      <3> QED BY <1>2, <2>2, <3>1, SettleAppends DEF SettleStep
    <2> QED BY <2>1, <2>2
  <1> QED BY <1>3, <1>4, <1>5, <1>6, StepKinds

----------------------------------------------------------------------------
\* Everything together.
PacketInv == TypeOK /\ TimeoutSafety /\ PacketBooks

LEMMA InitPacketBooks == Init => PacketBooks
  <1> SUFFICES ASSUME Init PROVE PacketBooks
    OBVIOUS
  <1>1. PICK b \in {"TryOpen", "Open"} :
          store = [c \in Chains |-> EmptyStore(IF c = ChainA THEN "Open" ELSE b)]
    BY DEF Init
  <1>2. \A c \in Chains : /\ store[c].nextSeqSend = 1
                          /\ store[c].nextSeqRecv = 1
                          /\ store[c].nextSeqAck = 1
                          /\ \A s \in Seqs : store[c].commit[s] = None /\ store[c].ack[s] = None
    BY <1>1 DEF EmptyStore
  <1>3. \A c \in Chains : sent[c] = <<>> /\ received[c] = <<>> /\ settled[c] = <<>>
    BY DEF Init
  <1>4. \A c \in Chains : Len(header[c]) = 1 /\ header[c][1].root = store[c]
    BY DEF Init, HostInit
  <1>5. SentBooks
    BY <1>2, <1>3, <1>4 DEF SentBooks, CommitsSent
  <1>6. ReceivedBooks
    BY <1>2, <1>3 DEF ReceivedBooks
  <1>7. AckBooks
    BY <1>2, <1>4 DEF AckBooks
  <1>8. SettledBooks
    BY <1>3 DEF SettledBooks
  <1>9. AckOrder
    BY <1>2, <1>3 DEF AckOrder
  <1> QED BY <1>5, <1>6, <1>7, <1>8, <1>9 DEF PacketBooks

LEMMA NextPacketInv ==
  ASSUME PacketInv, [Next]_vars
  PROVE  PacketInv'
  <1> USE DEF PacketInv
  <1>1. TypeOK' /\ TimeoutSafety'
    BY NextTimeoutSafety
  <1>2. SentBooks' /\ AckBooks' /\ AckOrder'
    BY SentBooksStep, AckBooksStep, AckOrderStep DEF PacketBooks
  <1>3. ReceivedBooks'
    BY ReceivedBooksStep DEF PacketBooks, TimeoutSafety
  <1>4. SettledBooks'
    BY SettledBooksStep DEF PacketBooks, TimeoutSafety
  <1> QED BY <1>1, <1>2, <1>3, <1>4 DEF PacketBooks

\* The books are in order in every reachable state of every instance.
THEOREM PacketBooksHold == Spec => []PacketInv
  <1>1. Init => PacketInv
    BY InitTypeOK, InitTimeoutSafety, InitPacketBooks DEF PacketInv
  <1>2. PacketInv /\ [Next]_vars => PacketInv'
    BY NextPacketInv
  <1> QED BY <1>1, <1>2, PTL DEF Spec

\* A packet reaches on_recv_packet_execute at most once, and only as it was
\* sent, however often and at whatever proof height recv_packet is called.
THEOREM DeliveryAtMostOnce == Spec => []DeliveredAtMostOnce
  <1>1. PacketInv => DeliveredAtMostOnce
    BY DEF PacketInv, PacketBooks, ReceivedBooks, DeliveredAtMostOnce, WasSent
  <1> QED BY <1>1, PacketBooksHold, PTL

\* A packet is acknowledged or timed out at most once, and its commitment is
\* there exactly until then.
THEOREM SettlementAtMostOnce == Spec => []SettledAtMostOnce
  <1>1. ASSUME PacketInv PROVE SettledAtMostOnce
    <2> SUFFICES ASSUME NEW c \in Chains
                 PROVE  {s \in Seqs : HasCommitment(store[c], s)} =
                          {sent[c][i].seq : i \in DOMAIN sent[c]} \ SettledSeqs(c)
      BY <1>1 DEF PacketInv, PacketBooks, SettledBooks, SettledAtMostOnce, WasSent
    <2>1. TypeOK /\ SentBooks /\ SettledBooks
      BY <1>1 DEF PacketInv, PacketBooks
    <2>2. \A i \in DOMAIN sent[c] : sent[c][i].seq = i /\ i \in Seqs
      BY <2>1, SentType, PacketType DEF SentBooks
    <2>3. \A s \in Seqs : HasCommitment(store[c], s) => s \in DOMAIN sent[c]
      BY <2>1 DEF SentBooks, CommitsSent, HasCommitment
    <2>4. \A s \in SettledSeqs(c) : ~ HasCommitment(store[c], s)
      BY <2>1 DEF SettledBooks, SettledSeqs, HasCommitment
    <2>5. \A s \in DOMAIN sent[c] : ~ HasCommitment(store[c], s) => s \in SettledSeqs(c)
      BY <2>1 DEF SettledBooks, HasCommitment
    <2> QED BY <2>2, <2>3, <2>4, <2>5
  <1> QED BY <1>1, PacketBooksHold, PTL

\* The packets delivered on an ordered channel are a prefix of the packets
\* sent, and acknowledgements come in that order.
LEMMA ReceivedIsPrefix ==
  ASSUME PacketInv, Ordering = "Ordered", NEW c \in Chains
  PROVE  /\ Len(received[c]) <= Len(sent[Other(c)])
         /\ \A i \in DOMAIN received[c] :
              received[c][i] = sent[Other(c)][i] /\ received[c][i].seq = i
  <1> DEFINE n == Len(received[c])
             d == Other(c)
  <1>1. d \in Chains /\ received[c] \in Seq(Packet) /\ sent[d] \in Seq(Packet)
    BY OtherIsChain DEF PacketInv, TypeOK
  <1>2. \A i \in DOMAIN received[c] :
          /\ received[c][i].seq = i
          /\ i \in DOMAIN sent[d]
          /\ received[c][i] = sent[d][i]
    BY DEF PacketInv, PacketBooks, ReceivedBooks
  <1>3. n \in Nat /\ DOMAIN received[c] = 1..n
        /\ Len(sent[d]) \in Nat /\ DOMAIN sent[d] = 1..Len(sent[d])
    BY <1>1
  <1>4. n <= Len(sent[d])
    <2>1. CASE n = 0
      BY <1>3, <2>1
    <2>2. CASE n # 0
      <3>1. n \in DOMAIN received[c]
        BY <1>3, <2>2
      <3>2. n \in 1..Len(sent[d])
        BY <1>2, <1>3, <3>1
      <3> QED BY <1>3, <3>2
    <2> QED BY <2>1, <2>2
  <1> QED BY <1>2, <1>4

\* An ordered channel delivers what was sent, in that order and without gaps,
\* and acknowledges in that order.
THEOREM OrderedDeliveryHolds == Spec => []OrderedDelivery
  <1>1. ASSUME PacketInv PROVE OrderedDelivery
    BY <1>1, ReceivedIsPrefix DEF OrderedDelivery, PacketInv, PacketBooks, AckOrder
  <1> QED BY <1>1, PacketBooksHold, PTL

\* Nothing at or above a timed out sequence was or will be delivered.
LEMMA NothingPastTimeout ==
  ASSUME PacketInv, Ordering = "Ordered", NEW c \in Chains, NEW i \in DOMAIN settled[c],
         settled[c][i].outcome = "timeout", NEW j \in DOMAIN received[Other(c)]
  PROVE  received[Other(c)][j].seq < settled[c][i].packet.seq
  <1> DEFINE q == settled[c][i].packet
             d == Other(c)
  <1>1. d \in Chains /\ Other(d) = c
    BY OtherIsChain
  <1>2. q.seq \in DOMAIN sent[c] /\ q = sent[c][q.seq]
    BY DEF PacketInv, PacketBooks, SettledBooks
  <1>3. ~ WasReceived(d, q)
    BY DEF PacketInv, TimeoutSafety, TimedOutInv
  <1>4. \A k \in DOMAIN received[d] : received[d][k] = sent[c][k] /\ received[d][k].seq = k
    BY <1>1, ReceivedIsPrefix
  <1>5. received[d] \in Seq(Packet) /\ sent[c] \in Seq(Packet)
    BY <1>1 DEF PacketInv, TypeOK
  <1>6. q.seq \notin DOMAIN received[d]
    BY <1>2, <1>3, <1>4 DEF WasReceived
  <1>7. received[d][j].seq = j
    BY <1>4
  <1> HIDE DEF q, d
  <1>8. j < q.seq
    <2>1. DOMAIN received[d] = 1..Len(received[d]) /\ Len(received[d]) \in Nat
          /\ DOMAIN sent[c] = 1..Len(sent[c]) /\ Len(sent[c]) \in Nat
      BY <1>5
    <2>2. j \in DOMAIN received[d]
      BY DEF d
    <2> QED BY <1>2, <1>6, <2>1, <2>2
  <1> QED BY <1>7, <1>8 DEF d, q

\* An ordered channel ends with the first timeout, on both sides.
THEOREM OrderedTimeoutFinal == Spec => []OrderedTimeoutIsFinal
  <1>1. ASSUME PacketInv PROVE OrderedTimeoutIsFinal
    BY <1>1, NothingPastTimeout
       DEF OrderedTimeoutIsFinal, PacketInv, PacketBooks, AckOrder
  <1> QED BY <1>1, PacketBooksHold, PTL

\* A closed end stays closed and is used no more: no step sends or delivers on
\* it, whatever was in flight when it closed.
THEOREM ClosedEndStaysDead == Spec => ClosedEndIsDead
  <1>1. ASSUME TypeOK, [Next]_vars, NEW d \in Chains, store[d].chan = "Closed"
        PROVE  store'[d].chan = "Closed" /\ sent'[d] = sent[d] /\ received'[d] = received[d]
    <2>1. store'[d].chan = "Closed"
      BY <1>1, StoreProgress DEF Progress
    <2>2. CASE Quiet
      BY <2>1, <2>2 DEF Quiet, appVars
    <2>3. ASSUME NEW c \in Chains, NEW pkt \in Packet, SendStep(c, pkt)
          PROVE  sent'[d] = sent[d] /\ received'[d] = received[d]
      BY <1>1, <2>3, SendAppends DEF SendStep
    <2>4. ASSUME NEW c \in Chains, NEW pkt \in Packet, NEW ack \in Acks, DeliverStep(c, pkt, ack)
          PROVE  sent'[d] = sent[d] /\ received'[d] = received[d]
      BY <1>1, <2>4, DeliverAppends DEF DeliverStep, Delivered
    <2>5. ASSUME NEW c \in Chains, NEW pkt \in Packet, NEW o, SettleStep(c, pkt, o)
          PROVE  sent'[d] = sent[d] /\ received'[d] = received[d]
      BY <2>5 DEF SettleStep
    <2> QED BY <1>1, <2>1, <2>2, <2>3, <2>4, <2>5, StepKinds DEF AckStep, TimeoutStep
  <1>2. TypeOK /\ [Next]_vars =>
          [\A c \in Chains :
             store[c].chan = "Closed" =>
               /\ store'[c].chan = "Closed"
               /\ sent'[c] = sent[c]
               /\ received'[c] = received[c]]_vars
    BY <1>1
  <1> QED BY <1>2, TypeCorrect, PTL DEF Spec, ClosedEndIsDead

----------------------------------------------------------------------------
(***************************************************************************)
(* The refinement of PacketDelivery.                                       *)
(***************************************************************************)
LEMMA InitDelivery == Init => Delivery!DInit
  <1> SUFFICES ASSUME Init PROVE Delivery!DInit
    OBVIOUS
  <1>1. \A c \in Chains : store[c].ack = [s \in Seqs |-> None]
    BY DEF Init, EmptyStore
  <1> QED BY <1>1 DEF Init, Delivery!DInit

LEMMA QuietStutters ==
  ASSUME Quiet PROVE UNCHANGED Delivery!dvars
  BY DEF Quiet, appVars, SameInbound, Delivery!dvars

LEMMA SendRefines ==
  ASSUME PacketInv, NEW c \in Chains, NEW pkt \in Packet, SendStep(c, pkt)
  PROVE  Delivery!DSend(c, pkt)
  <1>1. pkt.seq = Len(sent[c]) + 1
    BY DEF PacketInv, PacketBooks, SentBooks, SendStep
  <1>2. \A d \in Chains : store'[d].ack = store[d].ack
    BY DEF SendStep, SameInbound
  <1> QED BY <1>1, <1>2 DEF SendStep, Delivery!DSend

\* A delivery: the packet was sent, is delivered for the first time, was not
\* given up by its source, and on an ordered channel is the next one.
LEMMA DeliverRefines ==
  ASSUME PacketInv, NEW c \in Chains, NEW pkt \in Packet, NEW ack \in Acks,
         DeliverStep(c, pkt, ack)
  PROVE  Delivery!DDeliver(c, pkt, ack)
  <1> DEFINE d == Other(c)
  <1>0. d \in Chains /\ Other(d) = c /\ TypeOK /\ TimeoutSafety /\ PacketBooks
    BY OtherIsChain DEF PacketInv
  <1>1. pkt.seq \in DOMAIN sent[d] /\ pkt = sent[d][pkt.seq]
    <2>1. PICK ph \in Heights : client[c].cons[ph] # None
                                /\ CommitmentIs(ProvenStore(c, ph), pkt)
      BY DEF DeliverStep
    <2> QED BY <1>0, <2>1, ProvenWasSent DEF TimeoutSafety, PacketBooks
  <1>2. \A i \in DOMAIN received[c] : received[c][i] # pkt
    BY <1>0 DEF DeliverStep, TimeoutSafety, ReceivedInv
  <1>3. ~ Undeliverable(c, pkt)
    BY DEF DeliverStep, Delivered, Undeliverable
  <1>4. \A i \in DOMAIN settled[d] : settled[d][i].packet # pkt
    <2> SUFFICES ASSUME NEW i \in DOMAIN settled[d], settled[d][i].packet = pkt
                 PROVE  FALSE
      OBVIOUS
    <2>1. CASE settled[d][i].outcome = "timeout"
      BY <1>0, <1>3, <2>1 DEF TimeoutSafety, TimedOutInv
    <2>2. CASE settled[d][i].outcome # "timeout"
      BY <1>0, <1>2, <2>2 DEF PacketBooks, SettledBooks, WasReceived
    <2> QED BY <2>1, <2>2
  <1>5. ASSUME Ordering = "Ordered"
        PROVE  /\ pkt.seq = Len(received[c]) + 1
               /\ \A i \in DOMAIN settled[d] :
                    settled[d][i].outcome = "timeout" => pkt.seq < settled[d][i].packet.seq
    <2>1. pkt.seq = Len(received[c]) + 1
      BY <1>0, <1>5 DEF DeliverStep, PacketBooks, ReceivedBooks
    <2>2. ASSUME NEW i \in DOMAIN settled[d], settled[d][i].outcome = "timeout"
          PROVE  pkt.seq < settled[d][i].packet.seq
      <3> DEFINE q == settled[d][i].packet
      <3>1. q.seq \in DOMAIN sent[d] /\ q = sent[d][q.seq]
        BY <1>0 DEF PacketBooks, SettledBooks
      <3>2. q.seq # pkt.seq
        BY <1>1, <1>4, <3>1
      <3>3. ~ WasReceived(c, q)
        BY <1>0, <2>2 DEF TimeoutSafety, TimedOutInv
      <3>4. \A k \in DOMAIN received[c] : received[c][k] = sent[d][k]
        BY <1>5, ReceivedIsPrefix
      <3>5. q.seq \notin DOMAIN received[c]
        BY <3>1, <3>3, <3>4 DEF WasReceived
      <3>6. DOMAIN received[c] = 1..Len(received[c]) /\ Len(received[c]) \in Nat
            /\ DOMAIN sent[d] = 1..Len(sent[d]) /\ Len(sent[d]) \in Nat
        <4>1. received[c] \in Seq(Packet) /\ sent[d] \in Seq(Packet)
          BY <1>0 DEF TypeOK
        <4> QED BY <4>1
      <3> HIDE DEF q, d
      <3>7. pkt.seq < q.seq
        BY <2>1, <3>1, <3>2, <3>5, <3>6
      <3> QED BY <3>7 DEF q
    <2> QED BY <2>1, <2>2
  <1>6. /\ received' = [received EXCEPT ![c] = Append(@, pkt)]
        /\ UNCHANGED <<sent, settled>>
    BY DEF DeliverStep, Delivered
  <1>7. [e \in Chains |-> store[e].ack]' =
          [[e \in Chains |-> store[e].ack] EXCEPT ![c][pkt.seq] = ack]
    <2>1. \A e \in Chains : store'[e].ack =
            IF e = c THEN [store[c].ack EXCEPT ![pkt.seq] = ack] ELSE store[e].ack
      BY DEF DeliverStep
    <2> QED BY <2>1
  <1> QED BY <1>1, <1>2, <1>4, <1>5, <1>6, <1>7 DEF Delivery!DDeliver, Delivery!Elements

\* A packet with a matching commitment is in flight.
LEMMA CommittedInFlight ==
  ASSUME PacketInv, NEW c \in Chains, NEW pkt \in Packet, NEW o,
         SettleStep(c, pkt, o)
  PROVE  Delivery!InFlight(c, pkt)
  <1>1. /\ pkt.seq \in DOMAIN sent[c]
        /\ pkt = sent[c][pkt.seq]
        /\ store[c].commit[pkt.seq] # None
    BY CommittedWasSent DEF PacketInv, PacketBooks
  <1>2. \A i \in DOMAIN settled[c] : settled[c][i].packet # pkt
    BY <1>1 DEF PacketInv, PacketBooks, SettledBooks
  <1> QED BY <1>1, <1>2 DEF Delivery!InFlight, Delivery!Elements

LEMMA SettleRefines ==
  ASSUME PacketInv, NEW c \in Chains, NEW pkt \in Packet, NEW o,
         SettleStep(c, pkt, o)
  PROVE  Delivery!DSettle(c, pkt, o)
  <1>1. \A d \in Chains : store'[d].ack = store[d].ack
    BY DEF SettleStep, SameInbound
  <1> QED BY <1>1, CommittedInFlight DEF Delivery!DSettle, SettleStep, Settle

\* An acknowledgement: the packet was delivered and its source learns the
\* reply that the delivery wrote.
LEMMA AckRefines ==
  ASSUME PacketInv, NEW c \in Chains, NEW pkt \in Packet, NEW ack \in Acks,
         AckStep(c, pkt, ack)
  PROVE  Delivery!DAcknowledge(c, pkt)
  <1>1. WasReceived(Other(c), pkt) /\ store[Other(c)].ack[pkt.seq] = ack
    BY AckedWasReceived DEF PacketInv, PacketBooks, TimeoutSafety
  <1>2. Delivery!DSettle(c, pkt, ack)
    BY SettleRefines DEF AckStep
  <1>3. [e \in Chains |-> store[e].ack][Other(c)][pkt.seq] = ack
    BY <1>1, OtherIsChain
  <1>4. pkt \in Delivery!Elements(received[Other(c)])
    BY <1>1 DEF WasReceived, Delivery!Elements
  <1>5. Ordering = "Ordered" =>
          /\ pkt.seq = Len(settled[c]) + 1
          /\ \A i \in DOMAIN settled[c] : settled[c][i].outcome # "timeout"
    BY DEF AckStep, PacketInv, PacketBooks, AckOrder
  <1> QED BY <1>2, <1>3, <1>4, <1>5 DEF Delivery!DAcknowledge, Delivery!TimeoutSeen

\* A timeout: the packet was not delivered.
LEMMA TimeoutRefines ==
  ASSUME PacketInv, NEW c \in Chains, NEW pkt \in Packet, TimeoutStep(c, pkt)
  PROVE  Delivery!DTimeout(c, pkt)
  <1>1. PICK ph \in Heights : Justified(c, pkt, ph)
    BY DEF TimeoutStep
  <1>2. ~ WasReceived(Other(c), pkt)
    BY <1>1, JustifiedMeansDead DEF PacketInv
  <1>3. pkt \notin Delivery!Elements(received[Other(c)])
    BY <1>2 DEF WasReceived, Delivery!Elements
  <1>4. Delivery!DSettle(c, pkt, "timeout")
    BY SettleRefines DEF TimeoutStep
  <1> QED BY <1>3, <1>4 DEF Delivery!DTimeout

\* Every step of the two chains is a step of PacketDelivery or changes nothing
\* the applications can see.
LEMMA StepRefines ==
  ASSUME PacketInv, [Next]_vars
  PROVE  [Delivery!DNext]_(Delivery!dvars)
  <1>1. CASE Quiet
    BY <1>1, QuietStutters
  <1>2. ASSUME NEW c \in Chains, NEW pkt \in Packet,
               \/ SendStep(c, pkt)
               \/ \E ack \in Acks : DeliverStep(c, pkt, ack) \/ AckStep(c, pkt, ack)
               \/ TimeoutStep(c, pkt)
        PROVE  Delivery!DNext
    <2>1. \/ Delivery!DSend(c, pkt)
          \/ \E a \in Acks : Delivery!DDeliver(c, pkt, a)
          \/ Delivery!DAcknowledge(c, pkt)
          \/ Delivery!DTimeout(c, pkt)
      BY <1>2, SendRefines, DeliverRefines, AckRefines, TimeoutRefines
    <2> QED BY <2>1 DEF Delivery!DNext
  <1> QED BY <1>1, <1>2, StepKinds DEF PacketInv

\* The packet handlers, the clients and the blocks of two chains implement the
\* channel that PacketDelivery promises to the applications, on every instance.
THEOREM DeliveryImplemented == Spec => ImplementsDelivery
  BY InitDelivery, StepRefines, PacketBooksHold, PTL DEF Spec, ImplementsDelivery, Delivery!DSpec

============================================================================

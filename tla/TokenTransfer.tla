--------------------------- MODULE TokenTransfer ---------------------------
(***************************************************************************)
(* The ICS-20 application on several channels between chains: sending a    *)
(* coin, and the callbacks that receive it, acknowledge it and time it     *)
(* out.  Channels are PacketDelivery, which the packet handlers of         *)
(* IbcPacket implement: a packet arrives at most once, and is settled at   *)
(* most once, by the acknowledgement of its delivery or by a timeout.      *)
(*                                                                         *)
(* The host's accounts are the state.  The coins that a channel end holds  *)
(* in escrow are an account of their own, named by the end.  The host may  *)
(* refuse to receive for a reason of its own, with any error text.         *)
(***************************************************************************)
EXTENDS TokenTrace, FiniteSets, FiniteSetsExt

CONSTANTS
  End, Peer(_),     \* channel ends [chain, port, chan], and the other end
  Names,            \* the account names, the same on every chain
  Receivers,        \* receivers put in a transfer, which need not be names
  Bases, Amounts,   \* base denominations, and amounts of one transfer
  InitBank,         \* accounts at the start, see Holders and Denoms
  MaxHops,          \* bound: hops of a trace
  MaxSends          \* bound: packets sent on all channels together

VARIABLES bank, sent, received, settled, reply

delivery == <<sent, received, settled, reply>>
vars == <<bank, sent, received, settled, reply>>

Replies == {"success", "error", "unreadable"}
Channel == INSTANCE PacketDelivery WITH
  Packets <- {}, Ordered <- FALSE,
  NoReplies <- [s \in 1..MaxSends |-> "none"]

Chains == {e.chain : e \in End}
Account(c, n) == [chain |-> c, name |-> n]
Holders == {Account(c, n) : c \in Chains, n \in Names} \cup End
Hops == {TracePrefix(e.port, e.chan) : e \in End}
Denoms == [trace : UNION {[1..n -> Hops] : n \in 0..MaxHops}, base : Bases]

\* A chain names its ends by identifiers that can be read back.
ASSUME EndAssumption ==
  /\ IsFiniteSet(End) /\ IsFiniteSet(Names)
  /\ End \subseteq [chain : Chains, port : PortIds, chan : ChannelIds]
ASSUME PeerAssumption ==
  \A e \in End : Peer(e) \in End /\ Peer(Peer(e)) = e /\ Peer(e) # e
\* PrefixedDenom::from_str leaves no slash in the base and no blank base.
ASSUME BasesAssumption == \A b \in Bases : b = <<b[1]>> /\ b[1] # Blank
ASSUME BoundsAssumption == MaxHops \in Nat /\ MaxSends \in Nat /\ Amounts \subseteq Nat

\* The sum of w[x] over the x in S.
Total(w, S) == MapThenSumSet(LAMBDA x : w[x], S)

----------------------------------------------------------------------------
\* TokenTransferExecutionContext, the host's side.

mint_coins(b, holder, coin) == [b EXCEPT ![holder][coin.denom] = @ + coin.amount]
burn_coins(b, holder, coin) == [b EXCEPT ![holder][coin.denom] = @ - coin.amount]
CanPay(b, holder, coin) == b[holder][coin.denom] >= coin.amount
escrow_coins(b, from, end, coin) ==
  mint_coins(burn_coins(b, from, coin), end, coin)
unescrow_coins(b, to, end, coin) ==
  mint_coins(burn_coins(b, end, coin), to, coin)

----------------------------------------------------------------------------
\* Packets.

\* PacketData and back through RawPacketData: the denomination is a text.
PacketDataToRaw(sender, receiver, coin) ==
  [denom |-> DenomToText(coin.denom), amount |-> coin.amount,
   sender |-> sender, receiver |-> receiver]
PacketDataFromRaw(raw) ==
  {[coin |-> [denom |-> d, amount |-> raw.amount],
    sender |-> raw.sender, receiver |-> raw.receiver] :
     d \in DenomFromStr(raw.denom)}

Packets(e) == Channel!Elements(sent[e])

\* send_transfer: validate, then execute, then send_packet.
SendTransfer(e, sender, receiver, coin) ==
  LET from   == Account(e.chain, sender)
      source == is_sender_chain_source(e.port, e.chan, coin.denom)
  IN
  /\ sender \in Names
  /\ CanPay(bank, from, coin)
  /\ bank' = IF source THEN escrow_coins(bank, from, e, coin)
             ELSE burn_coins(bank, from, coin)
  /\ Channel!DSend(e, [seq  |-> Len(sent[e]) + 1,
                       data |-> PacketDataToRaw(sender, receiver, coin)])

----------------------------------------------------------------------------
\* Receiving.

\* Mutant of process_recv_packet: the prefix is taken off on the wrong end's name.
RecvOtherPrefix(e, data) ==
  LET src  == Peer(e)
      to   == Account(e.chain, data.receiver)
      Home == [data.coin EXCEPT !.denom =
                 remove_trace_prefix(@, TracePrefix(e.port, e.chan))]
      Away == [data.coin EXCEPT !.denom =
                 add_trace_prefix(@, TracePrefix(e.port, e.chan))]
  IN
  IF data.receiver \notin Names THEN {}
  ELSE IF is_receiver_chain_source(e.port, e.chan, data.coin.denom)
  THEN IF CanPay(bank, e, Home) THEN {unescrow_coins(bank, to, e, Home)} ELSE {}
  ELSE {mint_coins(bank, to, Away)}

\* process_recv_packet_execute: the accounts after it, none when it fails.
process_recv_packet(e, data) ==
  LET src  == Peer(e)
      to   == Account(e.chain, data.receiver)
      Home == [data.coin EXCEPT !.denom =
                 remove_trace_prefix(@, TracePrefix(src.port, src.chan))]
      Away == [data.coin EXCEPT !.denom =
                 add_trace_prefix(@, TracePrefix(e.port, e.chan))]
  IN
  IF data.receiver \notin Names THEN {}
  ELSE IF is_receiver_chain_source(src.port, src.chan, data.coin.denom)
  THEN IF CanPay(bank, e, Home) THEN {unescrow_coins(bank, to, e, Home)} ELSE {}
  ELSE {mint_coins(bank, to, Away)}

\* on_recv_packet_execute always answers.  An error's text is put between
\* quotes as it is: one that holds a quote makes an answer nobody can read.
RecvPacket(e, p) ==
  \E refusal \in {"none", "error", "unreadable"} :
    LET after == UNION {process_recv_packet(e, data) :
                          data \in PacketDataFromRaw(p.data)}
    IN
    IF refusal = "none" /\ after # {}
    THEN /\ bank' \in after
         /\ Channel!DDeliver(e, p, "success")
    ELSE /\ UNCHANGED bank
         /\ Channel!DDeliver(e, p, IF refusal = "none" THEN "error" ELSE refusal)

----------------------------------------------------------------------------
\* Settling.

\* Mutant of refund_packet_token: the receiver is refunded.
RefundReceiver(e, data) ==
  LET to == Account(e.chain, IF data.receiver \in Names THEN data.receiver
                             ELSE data.sender) IN
  IF is_sender_chain_source(e.port, e.chan, data.coin.denom)
  THEN unescrow_coins(bank, to, e, data.coin)
  ELSE mint_coins(bank, to, data.coin)

refund_packet_token(e, data) ==
  LET to == Account(e.chain, data.sender) IN
  IF is_sender_chain_source(e.port, e.chan, data.coin.denom)
  THEN unescrow_coins(bank, to, e, data.coin)
  ELSE mint_coins(bank, to, data.coin)

\* The refund is validated first; when the escrow cannot pay it the message
\* is refused.
Refund(e, data) ==
  /\ is_sender_chain_source(e.port, e.chan, data.coin.denom) =>
       CanPay(bank, e, data.coin)
  /\ bank' = refund_packet_token(e, data)

\* Mutant of AcknowledgePacket: an error is not taken for an answer.
AcknowledgeSuccessOnly(e, p) ==
  \E data \in PacketDataFromRaw(p.data) :
    /\ reply[Peer(e)][p.seq] = "success"
    /\ UNCHANGED bank
    /\ Channel!DAcknowledge(e, p)

\* on_acknowledgement_packet: refused unless data and answer can be read.
AcknowledgePacket(e, p) ==
  \E data \in PacketDataFromRaw(p.data) :
    /\ reply[Peer(e)][p.seq] # "unreadable"
    /\ IF reply[Peer(e)][p.seq] = "success" THEN UNCHANGED bank
       ELSE Refund(e, data)
    /\ Channel!DAcknowledge(e, p)

\* on_timeout_packet, for MsgTimeout and MsgTimeoutOnClose alike.
TimeoutPacket(e, p) ==
  \E data \in PacketDataFromRaw(p.data) :
    /\ Refund(e, data)
    /\ Channel!DTimeout(e, p)

----------------------------------------------------------------------------
Init == bank = InitBank /\ Channel!DInit

Send(e) ==
  \E sender \in Names, receiver \in Receivers,
     d \in Denoms, n \in Amounts :
    /\ Total([x \in End |-> Len(sent[x])], End) < MaxSends
    /\ is_sender_chain_source(e.port, e.chan, d) => Len(d.trace) < MaxHops
    /\ SendTransfer(e, sender, receiver, [denom |-> d, amount |-> n])

Next ==
  \E e \in End :
    \/ Send(e)
    \/ \E p \in Packets(Peer(e)) : RecvPacket(e, p)
    \/ \E p \in Packets(e) : AcknowledgePacket(e, p)
    \/ \E p \in Packets(e) : TimeoutPacket(e, p)

\* A relayer delivers what was sent, or its timeout, and carries answers back.
Relaying ==
  \A e \in End :
    /\ WF_vars(\E p \in Packets(Peer(e)) : RecvPacket(e, p))
    /\ WF_vars(\E p \in Packets(e) : AcknowledgePacket(e, p))

Spec == Init /\ [][Next]_vars
FairSpec == Spec /\ Relaying

----------------------------------------------------------------------------
\* The accounts hold whole, non-negative numbers of coins.
TypeOK ==
  /\ bank \in [Holders -> [Denoms -> Nat]]
  /\ \A e \in End : \A s \in 1..MaxSends : reply[e][s] \in Replies \cup {"none"}

Credited(e, p) ==
  /\ p \in Channel!Elements(received[Peer(e)])
  /\ reply[Peer(e)][p.seq] = "success"
Refunded(e, p) ==
  \E s \in Channel!Elements(settled[e]) : s.packet = p /\ s.outcome # "success"

\* The packets that left e with d and have neither arrived nor come back, and
\* the coins in them.
OpenPackets(e, d) ==
  {p \in Packets(e) : /\ p.data.denom = DenomToText(d)
                      /\ ~ Credited(e, p) /\ ~ Refunded(e, p)}
Carried(ps) == Total([p \in ps |-> p.data.amount], ps)
InTransit(e, d) == Carried(OpenPackets(e, d))

\* All coins of d on chain c in the accounts b, those in escrow included.
Supply(b, c, d) ==
  Total([h \in Holders |-> b[h][d]], {h \in Holders : h.chain = c})

\* e is where d comes from: it holds d in escrow, and the other chain has it
\* as the voucher.
IsOrigin(e, d) ==
  /\ Len(d.trace) < MaxHops
  /\ d.trace # <<>> => Last(d.trace) # <<e.port, e.chan>>
Voucher(e, d) == [d EXCEPT !.trace = Append(@, <<Peer(e).port, Peer(e).chan>>)]

\* At the start every voucher is backed, as on channels that carried nothing.
ASSUME BankAssumption ==
  /\ InitBank \in [Holders -> [Denoms -> Nat]]
  /\ \A e \in End, d \in Denoms :
       IsOrigin(e, d) =>
         InitBank[e][d] = Supply(InitBank, Peer(e).chain, Voucher(e, d))

\* What an end keeps in escrow is what the other chain has as vouchers,
\* wherever it went there, and what is under way in either direction.
EscrowBacksVouchers ==
  \A e \in End, d \in Denoms :
    IsOrigin(e, d) =>
      bank[e][d] = Supply(bank, Peer(e).chain, Voucher(e, d))
                   + InTransit(e, d) + InTransit(Peer(e), Voucher(e, d))

\* Coins without a trace are never made or destroyed by the application.
NativeSupplyConstant ==
  \A c \in Chains, d \in Denoms :
    d.trace = <<>> => Supply(bank, c, d) = Supply(InitBank, c, d)

\* Coins are conserved over both chains, whatever fails: vouchers can always be
\* redeemed, nothing is stranded in an escrow, and nothing native is made.
CoinsConserved == EscrowBacksVouchers /\ NativeSupplyConstant

\* When every transfer was refunded, every account is as it was at first.
FailureLeavesNoTrace ==
  (\A e \in End : \A p \in Packets(e) : Refunded(e, p)) => bank = InitBank

\* A transfer ends: the coins arrive or come back, unless the answer to it
\* cannot be read.  Transfers are bounded, so in the end all have.
TransferEnds ==
  <>[](\A e \in End : \A p \in Packets(e) :
         \/ \E t \in Channel!Elements(settled[e]) : t.packet = p
         \/ reply[Peer(e)][p.seq] = "unreadable")
=============================================================================

--------------------------- MODULE PacketDelivery ---------------------------
(***************************************************************************)
(* What a channel promises to the two applications at its ends, with no    *)
(* chains, clients, proofs or stores: a packet is delivered at most once   *)
(* and settled at most once, by the acknowledgement of its delivery or by  *)
(* a timeout, and a packet that timed out is never delivered.  An ordered  *)
(* channel also delivers and acknowledges in the order of sending and      *)
(* settles nothing after a timeout.                                        *)
(***************************************************************************)
EXTENDS Naturals, Sequences

CONSTANTS
  End, Peer(_),  \* the two ends, and the other of an end
  Packets, Replies, Ordered,
  NoReplies      \* the replies of an end that has delivered nothing

VARIABLES
  sent, received, settled,  \* as in IbcPacket
  reply                     \* reply[e][s]: what e answered to packet s

dvars == <<sent, received, settled, reply>>

Elements(s) == {s[i] : i \in DOMAIN s}
InFlight(e, p) ==
  /\ p \in Elements(sent[e])
  /\ \A i \in DOMAIN settled[e] : settled[e][i].packet # p

TimeoutSeen(e) == \E i \in DOMAIN settled[e] : settled[e][i].outcome = "timeout"

DInit ==
  /\ sent     = [e \in End |-> <<>>]
  /\ received = [e \in End |-> <<>>]
  /\ settled  = [e \in End |-> <<>>]
  /\ reply    = [e \in End |-> NoReplies]

DSend(e, p) ==
  /\ p.seq = Len(sent[e]) + 1
  /\ sent' = [sent EXCEPT ![e] = Append(@, p)]
  /\ UNCHANGED <<received, settled, reply>>

\* e delivers p, which its peer sent and did not give up.
DDeliver(e, p, a) ==
  /\ p \in Elements(sent[Peer(e)])
  /\ p \notin Elements(received[e])
  /\ \A i \in DOMAIN settled[Peer(e)] : settled[Peer(e)][i].packet # p
  /\ Ordered => /\ p.seq = Len(received[e]) + 1
                /\ \A i \in DOMAIN settled[Peer(e)] :
                     settled[Peer(e)][i].outcome = "timeout" =>
                       p.seq < settled[Peer(e)][i].packet.seq
  /\ received' = [received EXCEPT ![e] = Append(@, p)]
  /\ reply' = [reply EXCEPT ![e][p.seq] = a]
  /\ UNCHANGED <<sent, settled>>

DSettle(e, p, outcome) ==
  /\ InFlight(e, p)
  /\ settled' = [settled EXCEPT ![e] =
                   Append(@, [packet |-> p, outcome |-> outcome])]
  /\ UNCHANGED <<sent, received, reply>>

DAcknowledge(e, p) ==
  /\ p \in Elements(received[Peer(e)])
  /\ Ordered => p.seq = Len(settled[e]) + 1 /\ ~ TimeoutSeen(e)
  /\ DSettle(e, p, reply[Peer(e)][p.seq])

DTimeout(e, p) ==
  /\ p \notin Elements(received[Peer(e)])
  /\ DSettle(e, p, "timeout")

DNext ==
  \E e \in End, p \in Packets :
    \/ DSend(e, p)
    \/ \E a \in Replies : DDeliver(e, p, a)
    \/ DAcknowledge(e, p)
    \/ DTimeout(e, p)

DSpec == DInit /\ [][DNext]_dvars
=============================================================================

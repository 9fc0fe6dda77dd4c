------------------------------ MODULE IbcHost ------------------------------
(***************************************************************************)
(* Two chains that run ibc-rs and hold a Tendermint client of each other.  *)
(*                                                                         *)
(* A chain executes transactions in blocks.  header[c] is the sequence of  *)
(* the headers of c; its last element belongs to the block being executed, *)
(* so its length is host_height and its time host_timestamp.  A Tendermint *)
(* header commits to the store as the PREVIOUS block left it: the root of  *)
(* header h is the store at the start of block h.  This is the convention  *)
(* the client gives to a proof height, and what the comparison of a proof  *)
(* height with a timeout height rests on.                                  *)
(*                                                                         *)
(* store[c] is the provable IBC store of c; what it holds is up to the     *)
(* modules that extend this one.                                           *)
(***************************************************************************)
EXTENDS TmClientState, Sequences

CONSTANTS
  ChainA, ChainB,           \* the chain that opened the channel, and the other
  MaxTime,                  \* bound: block time of a chain
  DelayPeriod,              \* delay_period of the connection, in seconds
  MaxExpectedTimePerBlock   \* the host's estimate, in seconds

ASSUME ChainsAssumption == ChainA # ChainB
ASSUME MaxTimeAssumption == MaxTime \in Nat
ASSUME DelayAssumption  ==
  DelayPeriod \in Nat /\ MaxExpectedTimePerBlock \in Nat

VARIABLES
  header,   \* header[c]: the headers of chain c, the current block last
  client,   \* client[c]: the client on c of the other chain
  store     \* store[c]: the IBC store of c

hostVars == <<header, client>>

Chains == {ChainA, ChainB}
Other(c) == IF c = ChainA THEN ChainB ELSE ChainA

host_height(c)    == Len(header[c])
host_timestamp(c) == header[c][Len(header[c])].time

\* The header of chain c at height h in the form a client gets it.
HeaderAt(c, h) == [height |-> h, time |-> header[c][h].time,
                   root |-> header[c][h].root]

\* calculate_block_delay: the delay period in blocks, rounded up.
BlockDelay ==
  IF MaxExpectedTimePerBlock = 0 THEN 0
  ELSE IF DelayPeriod % MaxExpectedTimePerBlock = 0
       THEN DelayPeriod \div MaxExpectedTimePerBlock
       ELSE (DelayPeriod \div MaxExpectedTimePerBlock) + 1

\* verify_conn_delay_passed: the consensus state used was installed long
\* enough ago, in time and in blocks of the host.
ConnDelayPassed(c, ph) ==
  LET cs == client[c].cons[ph] IN
  /\ host_timestamp(c) >= cs.procTime + DelayPeriod
  /\ host_height(c)    >= cs.procHeight + BlockDelay

ClientActive(c) == IsActive(client[c], host_timestamp(c))

\* The client on c is active and can check proofs at height ph.
CanVerifyAt(c, ph) == ClientActive(c) /\ HasProofHeight(client[c], ph)

\* The store of the other chain that a proof at height ph is checked against.
ProvenStore(c, ph) == client[c].cons[ph].root

----------------------------------------------------------------------------
\* A channel of this pair of chains exists, so each side has a client of the
\* other; here it was created from the first header.
HostInit ==
  /\ header = [c \in Chains |-> <<[time |-> 1, root |-> store[c]]>>]
  /\ client = [c \in Chains |->
       initialise([height |-> 1, time |-> 1, root |-> store[Other(c)]], 1, 1)]

\* The chain ends its block; the next one has a later time (BFT time) and its
\* header carries the store as it is now.
NewBlock(c, t) ==
  /\ host_height(c) < MaxHeight
  /\ t > host_timestamp(c)
  /\ header' = [header EXCEPT ![c] =
                  Append(@, [time |-> t, root |-> store[c]])]
  /\ UNCHANGED <<client, store>>

\* MsgUpdateClient on chain c with the other chain's header at height h.
UpdateClient(c, h, trusted) ==
  LET hdr == HeaderAt(Other(c), h) IN
  /\ ClientActive(c)
  /\ verify_header(client[c], hdr, trusted, host_timestamp(c))
  /\ client' = [client EXCEPT ![c] =
                  ExecuteUpdate(@, hdr, host_height(c), host_timestamp(c))]
  /\ UNCHANGED <<header, store>>
============================================================================

----------------------------- MODULE TmClient -----------------------------
(***************************************************************************)
(* One ICS-07 client on a host chain, driven by the ICS-02 handlers        *)
(* (MsgUpdateClient, MsgSubmitMisbehaviour, MsgUpgradeClient) while the    *)
(* chain it follows may fork.                                              *)
(*                                                                         *)
(* Any header whose signatures the light-client crate would accept may be  *)
(* submitted by any relayer at any time and in any order: enough           *)
(* validators may have signed two different headers, or headers whose      *)
(* times run backwards.  A message the handler rejects is no step.         *)
(***************************************************************************)
EXTENDS TmClientState

CONSTANTS
  MaxTime,        \* bound: host time
  Times,          \* times a header may carry
  Roots,          \* commitment roots a header may carry
  SentinelRoot,   \* the stand-in root of an upgraded consensus state
  UpgradeRoots,   \* the roots that commit to an upgrade plan
  UpgradePlans    \* [height, time] of the upgraded client and consensus state

ASSUME TimesAssumption == MaxTime \in Nat /\ Times \subseteq Nat
ASSUME RootsAssumption == SentinelRoot \notin Roots /\ UpgradeRoots \subseteq Roots
ASSUME NoneAssumption  == None \notin ConsensusState(Roots \union {SentinelRoot})
\* A plan may start a new revision or go on within one; its heights and times
\* are those of headers.
ASSUME PlansAssumption ==
  \A plan \in UpgradePlans : plan.height \in Heights /\ plan.time \in Times

VARIABLES
  now,          \* host_timestamp
  hostHeight,   \* host_height
  client,       \* the client
  seen,         \* history: every header (or first or upgraded consensus
                \* state, as a header) the client took into account
  backdated     \* history: whether an upgrade contradicted what was seen

vars == <<now, hostHeight, client, seen, backdated>>

Headers == [height : Heights, time : Times, root : Roots]

\* Two headers of one revision that cannot belong to one chain.
Contradict(a, b) ==
  /\ Revision(a.height) = Revision(b.height)
  /\ \/ a.height = b.height /\ a # b
     \/ a.height > b.height /\ a.time <= b.time

----------------------------------------------------------------------------
\* Mutant of UpdateClient: verify_is_active is not called.
UpdateInactiveClient(hdr, trusted) ==
  /\ verify_header(client, hdr, trusted, now)
  /\ client' = ExecuteUpdate(client, hdr, hostHeight, now)
  /\ seen' = seen \union {hdr}
  /\ UNCHANGED <<now, hostHeight, backdated>>

\* MsgUpdateClient.
UpdateClient(hdr, trusted) ==
  /\ IsActive(client, now)
  /\ verify_header(client, hdr, trusted, now)
  /\ client' = ExecuteUpdate(client, hdr, hostHeight, now)
  /\ seen' = seen \union {hdr}
  /\ UNCHANGED <<now, hostHeight, backdated>>

\* verify_misbehaviour_header, with some stored trusted height: unlike an
\* update, a header from the future is fine and a trusted state from the
\* future is not.
verify_misbehaviour_header(hdr) ==
  \E trusted \in StoredHeights(client) :
    /\ trusted < hdr.height
    /\ Revision(hdr.height) = Revision(trusted)
    /\ Revision(hdr.height) = Revision(client.latest)
    /\ client.cons[trusted].time <= now
    /\ now < client.cons[trusted].time + TrustingPeriod
    /\ client.cons[trusted].time < hdr.time

\* Mutant of IsEvidence: the times are compared the wrong way round.
EvidenceSwapped(hdr1, hdr2) ==
  IF hdr1.height = hdr2.height
  THEN hdr1 # hdr2
  ELSE hdr1.time >= hdr2.time

\* check_for_misbehaviour_misbehavior: one height with two blocks, or a
\* higher header that is not later.
IsEvidence(hdr1, hdr2) ==
  IF hdr1.height = hdr2.height
  THEN hdr1 # hdr2
  ELSE hdr1.time <= hdr2.time

\* MsgSubmitMisbehaviour; a pair of headers that is no evidence is an error.
SubmitMisbehaviour(hdr1, hdr2) ==
  /\ IsActive(client, now)
  /\ hdr1.height >= hdr2.height
  /\ IsEvidence(hdr1, hdr2)
  /\ verify_misbehaviour_header(hdr1)
  /\ verify_misbehaviour_header(hdr2)
  /\ client' = update_on_misbehaviour(client)
  /\ seen' = seen \union {hdr1, hdr2}
  /\ UNCHANGED <<now, hostHeight, backdated>>

----------------------------------------------------------------------------
\* verify_upgrade_client: the plan is above the latest height and proven by
\* the latest root.
verify_upgrade_client(plan) ==
  /\ client.latest \in StoredHeights(client)
  /\ client.latest < plan.height
  /\ client.cons[client.latest].root \in UpgradeRoots

\* update_on_upgrade: nothing is pruned and no time is compared.
update_on_upgrade(cl, plan) ==
  [latest |-> plan.height, frozen |-> FALSE,
   cons   |-> [cl.cons EXCEPT ![plan.height] =
                 [time |-> plan.time, root |-> SentinelRoot,
                  procTime |-> now, procHeight |-> hostHeight]]]

\* MsgUpgradeClient.
UpgradeClient(plan) ==
  /\ IsActive(client, now)
  /\ verify_upgrade_client(plan)
  /\ client' = update_on_upgrade(client, plan)
  /\ LET upgraded == [height |-> plan.height, time |-> plan.time, root |-> SentinelRoot] IN
       /\ seen' = seen \union {upgraded}
       /\ backdated' = (backdated \/ \E a \in seen : Contradict(upgraded, a))
  /\ UNCHANGED <<now, hostHeight>>

\* The host chain makes a block.
HostBlock(t) ==
  /\ t > now
  /\ now' = t
  /\ hostHeight' = hostHeight + 1
  /\ UNCHANGED <<client, seen, backdated>>

----------------------------------------------------------------------------
\* MsgCreateClient checks neither the height nor the time of the first
\* consensus state: it may be in the future or have expired.
Init ==
  /\ now = 1
  /\ hostHeight = 1
  /\ backdated = FALSE
  /\ \E hdr \in Headers :
       client = initialise(hdr, hostHeight, now) /\ seen = {hdr}

Update == \E hdr \in Headers, trusted \in Heights : UpdateClient(hdr, trusted)
Misbehave == \E hdr1, hdr2 \in Headers : SubmitMisbehaviour(hdr1, hdr2)
Upgrade == \E plan \in UpgradePlans : UpgradeClient(plan)
Wait == \E t \in 1..MaxTime : HostBlock(t)

Next == Update \/ Misbehave \/ Upgrade \/ Wait

Spec == Init /\ [][Next]_vars

----------------------------------------------------------------------------
\* Every variable keeps its type.
TypeOK ==
  /\ now \in Nat
  /\ hostHeight \in Nat
  /\ client \in ClientState(Roots \union {SentinelRoot})
  /\ seen \subseteq Header(Roots \union {SentinelRoot})
  /\ backdated \in BOOLEAN

\* Pruning at an update never takes the consensus state of the latest height,
\* even when the update fills in an old height at the very moment a trusting
\* period ends or an upgrade put an older time above a younger one, and
\* nothing is stored above it: status, upgrade and proofs always find it.
LatestIsStored ==
  /\ client.latest \in StoredHeights(client)
  /\ \A h \in StoredHeights(client) : h <= client.latest

\* Within a revision consensus times increase with height, in whatever order
\* the headers came and whatever was pruned between them, until an upgrade
\* within the revision, whose time is not compared, brings an older one.
TimesIncrease ==
  ~ backdated =>
  \A g, h \in StoredHeights(client) :
    g < h /\ Revision(g) = Revision(h) => client.cons[g].time < client.cons[h].time

\* The client is frozen exactly when the headers it was ever shown contradict
\* each other: no fork slips in through a height that was skipped or pruned,
\* and nothing but a fork freezes it.  An upgrade is the one way to hold
\* contradicting states unfrozen.
FrozenIffForked ==
  ~ backdated => (client.frozen <=> \E a, b \in seen : Contradict(a, b))

\* A consensus state and the time and height at which it was processed are
\* never rewritten, and one that was pruned never comes back: the root a proof
\* height stands for, and the connection delay counted from it, are fixed once
\* and for all.
NeverRewritten ==
  [][\A h \in Heights :
       \/ client.cons[h] # None /\ client'.cons[h] \in {client.cons[h], None}
       \/ client.cons[h] = None /\ client'.cons[h] = None
       \/ client.cons[h] = None /\ \E g \in StoredHeights(client) : g < h]_vars

\* A client that is frozen or expired stays so and is never changed again.
InactiveForever ==
  [][~ IsActive(client, now) => client' = client /\ ~ IsActive(client', now')]_vars

============================================================================

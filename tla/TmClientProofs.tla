--------------------------- MODULE TmClientProofs ---------------------------
(***************************************************************************)
(* Proofs about TmClient for every trusting period, drift, set of headers  *)
(* and upgrade plans: type correctness, that the consensus state of the    *)
(* latest height is never lost, and, from the invariant ClientInv, that    *)
(* times increase, that the client is frozen exactly on a fork, that no    *)
(* consensus state is rewritten and that an inactive client stays so.      *)
(***************************************************************************)
EXTENDS TmClient, TmClientStateProofs

AllRoots == Roots \union {SentinelRoot}

LEMMA HeaderFacts ==
  ASSUME NEW hdr \in Headers
  PROVE  hdr \in Header(AllRoots) /\ hdr.height \in Heights
  BY TimesAssumption DEF Headers, Header, AllRoots

LEMMA HeightsAreNat == Heights \subseteq Nat
  BY DEF Heights

LEMMA InitType == Init => TypeOK
  <1> SUFFICES ASSUME Init PROVE TypeOK
    OBVIOUS
  <1>1. PICK hdr \in Headers : client = initialise(hdr, hostHeight, now) /\ seen = {hdr}
    BY DEF Init
  <1>2. now \in Nat /\ hostHeight \in Nat /\ backdated \in BOOLEAN
    BY DEF Init
  <1>3. NewConsensusState(hdr, hostHeight, now) \in ConsensusState(AllRoots)
    BY <1>2, HeaderFacts DEF NewConsensusState, ConsensusState, Header
  <1>4. client \in ClientState(AllRoots)
    BY <1>1, <1>3, HeaderFacts, HeightsAreNat DEF initialise, ClientState
  <1> QED BY <1>1, <1>2, <1>4, HeaderFacts DEF TypeOK, AllRoots

LEMMA UpgradeType ==
  ASSUME NEW cl \in ClientState(AllRoots), NEW plan \in UpgradePlans,
         now \in Nat, hostHeight \in Nat
  PROVE  /\ update_on_upgrade(cl, plan) \in ClientState(AllRoots)
         /\ update_on_upgrade(cl, plan).latest = plan.height
         /\ \A h \in Heights : update_on_upgrade(cl, plan).cons[h] # None
                                 <=> h = plan.height \/ cl.cons[h] # None
  <1> DEFINE cs == [time |-> plan.time, root |-> SentinelRoot,
                    procTime |-> now, procHeight |-> hostHeight]
             cons == [cl.cons EXCEPT ![plan.height] = cs]
  <1>1. plan.height \in Heights /\ plan.time \in Nat
    BY PlansAssumption, TimesAssumption
  <1>2. cs \in ConsensusState(AllRoots) /\ cs # None
    BY <1>1, NoneAssumption DEF ConsensusState, AllRoots
  <1>3. cl.cons \in [Heights -> ConsensusState(AllRoots) \union {None}]
    BY DEF ClientState
  <1> HIDE DEF cs
  <1>4. /\ cons \in [Heights -> ConsensusState(AllRoots) \union {None}]
        /\ \A h \in Heights : cons[h] = IF h = plan.height THEN cs ELSE cl.cons[h]
    BY <1>1, <1>2, <1>3
  <1>5. update_on_upgrade(cl, plan) = [latest |-> plan.height, frozen |-> FALSE, cons |-> cons]
    BY DEF update_on_upgrade, cs
  <1> HIDE DEF cons
  <1>6. plan.height \in Nat
    BY <1>1, HeightsAreNat
  <1>7. update_on_upgrade(cl, plan) \in ClientState(AllRoots)
    BY <1>4, <1>5, <1>6 DEF ClientState
  <1>8. update_on_upgrade(cl, plan).latest = plan.height
        /\ update_on_upgrade(cl, plan).cons = cons
    BY <1>5
  <1> QED BY <1>2, <1>4, <1>7, <1>8

LEMMA NextType ==
  ASSUME TypeOK, [Next]_vars
  PROVE  TypeOK'
  <1>0. /\ client \in ClientState(AllRoots) /\ now \in Nat /\ hostHeight \in Nat
        /\ seen \subseteq Header(AllRoots)
    BY DEF TypeOK, AllRoots
  <1>1. CASE UNCHANGED vars
    BY <1>1 DEF TypeOK, vars
  <1>2. update_on_misbehaviour(client) \in ClientState(AllRoots)
    BY <1>0 DEF update_on_misbehaviour, ClientState
  <1>3. ASSUME NEW hdr \in Headers, NEW trusted \in Heights, UpdateClient(hdr, trusted)
        PROVE TypeOK'
    <2>1. update_state(client, hdr, hostHeight, now) \in ClientState(AllRoots)
      BY <1>0, HeaderFacts, UpdateStateFacts
    <2>2. client' \in ClientState(AllRoots)
      BY <1>2, <1>3, <2>1 DEF UpdateClient, ExecuteUpdate
    <2> QED BY <1>0, <1>3, <2>2, HeaderFacts DEF UpdateClient, TypeOK, AllRoots
  <1>4. ASSUME NEW hdr1 \in Headers, NEW hdr2 \in Headers, SubmitMisbehaviour(hdr1, hdr2)
        PROVE TypeOK'
    BY <1>0, <1>2, <1>4, HeaderFacts DEF SubmitMisbehaviour, TypeOK, AllRoots
  <1>5. ASSUME NEW plan \in UpgradePlans, UpgradeClient(plan) PROVE TypeOK'
    <2>1. client' \in ClientState(AllRoots)
      BY <1>0, <1>5, UpgradeType DEF UpgradeClient
    <2>2. [height |-> plan.height, time |-> plan.time, root |-> SentinelRoot] \in Header(AllRoots)
      BY PlansAssumption, TimesAssumption DEF Header, AllRoots
    <2> QED BY <1>0, <1>5, <2>1, <2>2 DEF UpgradeClient, TypeOK, AllRoots
  <1>6. ASSUME NEW t \in 1..MaxTime, HostBlock(t) PROVE TypeOK'
    BY <1>6, TimesAssumption DEF HostBlock, TypeOK
  <1> QED BY <1>1, <1>3, <1>4, <1>5, <1>6 DEF Next, Update, Misbehave, Upgrade, Wait

\* Type correctness of the client on every instance.
THEOREM ClientTypeCorrect == Spec => []TypeOK
  BY InitType, NextType, PTL DEF Spec

----------------------------------------------------------------------------
\* An update verified from a trusted height prunes no height above it: the
\* trusted consensus state has not expired, and pruning stops there.
LEMMA PruneStopsAtTrusted ==
  ASSUME NEW cl \in ClientState(AllRoots), NEW t \in Nat, NEW trusted \in Heights,
         trusted \in StoredHeights(cl), t < cl.cons[trusted].time + TrustingPeriod,
         NEW h \in StoredHeights(cl), trusted <= h
  PROVE  prune_oldest_consensus_state(cl, t).cons[h] = cl.cons[h]
  <1>1. cl.cons[trusted].time \in Nat
    BY DEF StoredHeights, ClientState, ConsensusState
  <1>2. h \notin PrunedHeights(cl, t)
    BY <1>1, TrustingPeriodAssumption DEF PrunedHeights
  <1>3. h \in Heights
    BY DEF StoredHeights
  <1> QED BY <1>2, <1>3 DEF prune_oldest_consensus_state, ClientState

LEMMA UpdateKeepsLatest ==
  ASSUME TypeOK, LatestIsStored, NEW hdr \in Headers, NEW trusted \in Heights,
         verify_header(client, hdr, trusted, now)
  PROVE  LET u == update_state(client, hdr, hostHeight, now) IN
         /\ u.latest \in StoredHeights(u)
         /\ \A h \in StoredHeights(u) : h <= u.latest
  <1> DEFINE p == prune_oldest_consensus_state(client, now)
             n == NewConsensusState(hdr, hostHeight, now)
             s == StoreConsensusState(p, hdr.height, n)
             w == with_header(s, hdr)
  <1>0. client \in ClientState(AllRoots) /\ now \in Nat /\ hostHeight \in Nat
        /\ client.latest \in Nat /\ client.latest \in Heights
    BY HeightsAreNat DEF TypeOK, AllRoots, ClientState, LatestIsStored, StoredHeights
  <1>1. trusted \in StoredHeights(client) /\ trusted <= client.latest
        /\ now < client.cons[trusted].time + TrustingPeriod
    BY DEF verify_header, LatestIsStored
  <1>2. /\ p \in ClientState(AllRoots) /\ p.latest = client.latest
        /\ \A h \in Heights : p.cons[h] # None => p.cons[h] = client.cons[h]
    BY <1>0, PruneFacts
  <1>3. client.latest \in StoredHeights(p)
    BY <1>0, <1>1, PruneStopsAtTrusted DEF LatestIsStored, StoredHeights
  <1>4. \A h \in StoredHeights(p) : h <= client.latest
    BY <1>2 DEF LatestIsStored, StoredHeights
  <1>5. n \in ConsensusState(AllRoots) /\ n # None
    BY <1>0, HeaderFacts, NoneAssumption DEF NewConsensusState, ConsensusState, Header, AllRoots
  <1>6. /\ s.latest = client.latest /\ s \in ClientState(AllRoots)
        /\ \A h \in Heights : s.cons[h] = IF h = hdr.height THEN n ELSE p.cons[h]
    <2> HIDE DEF p, n
    <2> QED BY <1>2, <1>5, HeaderFacts DEF StoreConsensusState, ClientState
  <1>7. /\ w.cons = s.cons
        /\ w.latest = IF hdr.height > client.latest THEN hdr.height ELSE client.latest
    <2> HIDE DEF s
    <2> QED BY <1>6 DEF with_header, ClientState
  <1>8. update_state(client, hdr, hostHeight, now) =
          IF hdr.height \in StoredHeights(p) THEN p ELSE w
    BY DEF update_state
  <1>9. hdr.height \in Heights /\ hdr.height \in Nat
    BY HeaderFacts, HeightsAreNat
  <1> HIDE DEF p, n, s, w
  <1>10. StoredHeights(w) = StoredHeights(p) \union {hdr.height}
    BY <1>5, <1>6, <1>7, <1>9 DEF StoredHeights
  <1>11. w.latest \in StoredHeights(w) /\ \A h \in StoredHeights(w) : h <= w.latest
    <2>1. \A h \in StoredHeights(p) : h \in Nat
      BY HeightsAreNat DEF StoredHeights
    <2> QED BY <1>0, <1>3, <1>4, <1>7, <1>9, <1>10, <2>1
  <1> QED BY <1>2, <1>3, <1>4, <1>8, <1>11

LEMMA InitLatest == Init => LatestIsStored
  <1> SUFFICES ASSUME Init PROVE LatestIsStored
    OBVIOUS
  <1>1. PICK hdr \in Headers : client = initialise(hdr, hostHeight, now)
    BY DEF Init
  <1>2. NewConsensusState(hdr, hostHeight, now) \in ConsensusState(AllRoots)
    BY HeaderFacts DEF Init, NewConsensusState, ConsensusState, Header
  <1>3. NewConsensusState(hdr, hostHeight, now) # None
    BY <1>2, NoneAssumption DEF AllRoots
  <1>4. hdr.height \in Heights /\ hdr.height \in Nat
    BY HeaderFacts, HeightsAreNat
  <1> QED BY <1>1, <1>3, <1>4 DEF initialise, LatestIsStored, StoredHeights

LEMMA NextLatest ==
  ASSUME TypeOK, LatestIsStored, [Next]_vars
  PROVE  LatestIsStored'
  <1>0. client \in ClientState(AllRoots) /\ now \in Nat /\ hostHeight \in Nat
    BY DEF TypeOK, AllRoots
  <1>1. CASE UNCHANGED client
    BY <1>1 DEF LatestIsStored, StoredHeights
  <1>2. ASSUME client' = update_on_misbehaviour(client) PROVE LatestIsStored'
    BY <1>0, <1>2 DEF update_on_misbehaviour, LatestIsStored, StoredHeights, ClientState
  <1>3. ASSUME NEW hdr \in Headers, NEW trusted \in Heights, UpdateClient(hdr, trusted)
        PROVE LatestIsStored'
    <2>1. CASE client' = update_on_misbehaviour(client)
      BY <1>2, <2>1
    <2>2. CASE client' = update_state(client, hdr, hostHeight, now)
      BY <1>3, <2>2, UpdateKeepsLatest DEF UpdateClient, LatestIsStored, StoredHeights
    <2> QED BY <1>3, <2>1, <2>2 DEF UpdateClient, ExecuteUpdate
  <1>4. ASSUME NEW plan \in UpgradePlans, UpgradeClient(plan) PROVE LatestIsStored'
    <2>1. client' = update_on_upgrade(client, plan) /\ client.latest < plan.height
      BY <1>4 DEF UpgradeClient, verify_upgrade_client
    <2>2. plan.height \in Heights /\ plan.height \in Nat /\ client.latest \in Nat
      BY <1>0, PlansAssumption, HeightsAreNat DEF ClientState
    <2>3. client'.latest = plan.height
          /\ \A h \in Heights : client'.cons[h] # None
                                  <=> h = plan.height \/ client.cons[h] # None
      BY <1>0, <2>1, UpgradeType
    <2>4. client'.latest \in StoredHeights(client')
      BY <2>2, <2>3 DEF StoredHeights
    <2>5. ASSUME NEW h \in StoredHeights(client') PROVE h <= client'.latest
      <3>1. h \in Nat /\ (h = plan.height \/ h \in StoredHeights(client))
        BY <2>3, <2>5, HeightsAreNat DEF StoredHeights
      <3>2. h = plan.height \/ h <= client.latest
        BY <3>1 DEF LatestIsStored
      <3> QED BY <2>1, <2>2, <2>3, <3>1, <3>2
    <2> QED BY <2>4, <2>5 DEF LatestIsStored
  <1>5. ASSUME Misbehave PROVE LatestIsStored'
    BY <1>2, <1>5 DEF Misbehave, SubmitMisbehaviour
  <1>6. ASSUME Wait PROVE UNCHANGED client
    BY <1>6 DEF Wait, HostBlock
  <1> QED BY <1>1, <1>3, <1>4, <1>5, <1>6 DEF Next, Update, Upgrade, vars

\* The latest height always has its consensus state, and it is the highest.
THEOREM LatestNeverLost == Spec => []LatestIsStored
  BY InitLatest, NextLatest, ClientTypeCorrect, PTL DEF Spec

----------------------------------------------------------------------------
(***************************************************************************)
(* The client and the headers it was shown.  That it freezes exactly on a  *)
(* fork is not inductive by itself: an update compares a header only with  *)
(* the stored neighbours of its height.  The missing part is where the     *)
(* other headers are: every stored consensus state comes from a header     *)
(* that was seen, and a header that was seen and is not stored any more    *)
(* lies below everything that is, since pruning takes the lowest first and *)
(* an update builds on a stored height.                                    *)
(***************************************************************************)

\* cs is the consensus state of header a.
ComesFrom(cs, a) == a.time = cs.time /\ a.root = cs.root

StoredWasSeen ==
  \A h \in StoredHeights(client) :
    \E a \in seen : a.height = h /\ ComesFrom(client.cons[h], a)

SeenIsStoredOrPruned ==
  ~ client.frozen =>
    \A a \in seen : \/ a.height \in StoredHeights(client)
                    \/ \A h \in StoredHeights(client) : a.height < h

ClientInv ==
  /\ TypeOK
  /\ LatestIsStored
  /\ TimesIncrease
  /\ FrozenIffForked
  /\ StoredWasSeen
  /\ SeenIsStoredOrPruned

\* What an accepted update leaves stored: what pruning spared and the header.
LEMMA UpdateEffect ==
  ASSUME TypeOK, LatestIsStored, NEW hdr \in Headers, NEW trusted \in Heights,
         verify_header(client, hdr, trusted, now),
         NEW u, u = update_state(client, hdr, hostHeight, now)
  PROVE  /\ u.frozen = client.frozen
         /\ StoredHeights(u) =
              (StoredHeights(client) \ PrunedHeights(client, now)) \union {hdr.height}
         /\ \A h \in StoredHeights(client) \ PrunedHeights(client, now) :
              u.cons[h] = client.cons[h]
         /\ hdr.height \notin StoredHeights(client) =>
              u.cons[hdr.height] = NewConsensusState(hdr, hostHeight, now)
         /\ \A h \in StoredHeights(client) :
              trusted <= h => h \notin PrunedHeights(client, now)
  <1> DEFINE p == prune_oldest_consensus_state(client, now)
             n == NewConsensusState(hdr, hostHeight, now)
             s == StoreConsensusState(p, hdr.height, n)
             w == with_header(s, hdr)
             K == StoredHeights(client) \ PrunedHeights(client, now)
  <1>0. client \in ClientState(AllRoots) /\ now \in Nat /\ hostHeight \in Nat
    BY DEF TypeOK, AllRoots
  <1>1. hdr.height \in Heights /\ hdr.height \in Nat /\ trusted < hdr.height /\ trusted \in Nat
        /\ trusted \in StoredHeights(client)
        /\ now < client.cons[trusted].time + TrustingPeriod
    BY HeaderFacts, HeightsAreNat DEF verify_header
  <1>2. ASSUME NEW h \in StoredHeights(client), trusted <= h
        PROVE  h \notin PrunedHeights(client, now)
    <2>1. client.cons[trusted].time \in Nat
      BY <1>0, <1>1 DEF StoredHeights, ClientState, ConsensusState
    <2> QED BY <1>0, <1>1, <1>2, <2>1, TrustingPeriodAssumption DEF PrunedHeights
  <1>3. /\ p \in ClientState(AllRoots) /\ p.frozen = client.frozen
        /\ \A h \in Heights : p.cons[h] = IF h \in PrunedHeights(client, now) THEN None
                                          ELSE client.cons[h]
    <2>1. p \in ClientState(AllRoots) /\ p.frozen = client.frozen
      BY <1>0, PruneFacts
    <2> QED BY <1>0, <2>1 DEF prune_oldest_consensus_state, ClientState
  <1>4. n \in ConsensusState(AllRoots) /\ n # None
    BY <1>0, HeaderFacts, NoneAssumption DEF NewConsensusState, ConsensusState, Header, AllRoots
  <1>5. /\ s.frozen = client.frozen /\ s \in ClientState(AllRoots)
        /\ \A h \in Heights : s.cons[h] = IF h = hdr.height THEN n ELSE p.cons[h]
    <2> HIDE DEF p, n
    <2> QED BY <1>1, <1>3, <1>4 DEF StoreConsensusState, ClientState
  <1>6. w.cons = s.cons /\ w.frozen = client.frozen
    <2> HIDE DEF s
    <2> QED BY <1>5 DEF with_header, ClientState
  <1>7. u = IF hdr.height \in StoredHeights(p) THEN p ELSE w
    BY DEF update_state
  <1> HIDE DEF p, n, s, w
  <1>8. StoredHeights(p) = K
    BY <1>3 DEF StoredHeights
  <1>9. hdr.height \in StoredHeights(client) => hdr.height \in K
    BY <1>1, <1>2
  <1>10. CASE hdr.height \in K
    <2>1. u = p
      BY <1>7, <1>8, <1>10
    <2> QED BY <1>2, <1>3, <1>8, <1>10, <2>1 DEF StoredHeights
  <1>11. CASE hdr.height \notin K
    <2>1. u = w /\ hdr.height \notin StoredHeights(client)
      BY <1>7, <1>8, <1>9, <1>11
    <2>2. StoredHeights(w) = K \union {hdr.height}
      <3>1. \A h \in Heights : w.cons[h] # None <=> h = hdr.height \/ p.cons[h] # None
        BY <1>4, <1>5, <1>6
      <3>2. \A h : h \in K <=> h \in Heights /\ p.cons[h] # None
        BY <1>8 DEF StoredHeights
      <3>3. \A h : h \in StoredHeights(w) <=> h \in Heights /\ w.cons[h] # None
        BY DEF StoredHeights
      <3> QED BY <1>1, <3>1, <3>2, <3>3
    <2>3. \A h \in K : w.cons[h] = client.cons[h]
      BY <1>3, <1>5, <1>6, <1>11 DEF StoredHeights
    <2>4. w.cons[hdr.height] = n
      BY <1>1, <1>5, <1>6
    <2> QED BY <1>2, <1>6, <2>1, <2>2, <2>3, <2>4 DEF n
  <1> QED BY <1>10, <1>11

\* Heights, times and roots of what is stored and of what was seen.
LEMMA StoredTypes ==
  ASSUME TypeOK, NEW h \in StoredHeights(client)
  PROVE  h \in Heights /\ h \in Nat /\ client.cons[h].time \in Nat
  BY HeightsAreNat DEF TypeOK, StoredHeights, ClientState, ConsensusState

LEMMA SeenTypes ==
  ASSUME TypeOK, NEW a \in seen
  PROVE  a.height \in Heights /\ a.height \in Nat /\ a.time \in Nat
         /\ a = [height |-> a.height, time |-> a.time, root |-> a.root]
  BY HeightsAreNat DEF TypeOK, Header

\* While the client is not frozen, one header was seen per stored height.
LEMMA SeenMatchesStored ==
  ASSUME ClientInv, ~ client.frozen, ~ backdated, NEW a \in seen, a.height \in StoredHeights(client)
  PROVE  ComesFrom(client.cons[a.height], a)
  <1>1. PICK b \in seen : b.height = a.height /\ ComesFrom(client.cons[a.height], b)
    BY DEF ClientInv, StoredWasSeen
  <1>2. ~ Contradict(a, b)
    BY DEF ClientInv, FrozenIffForked
  <1>3. a = b
    BY <1>1, <1>2 DEF Contradict
  <1> QED BY <1>1, <1>3

\* Heights between two of one revision are of that revision.
LEMMA SameRevisionBetween ==
  ASSUME NEW g \in Nat, NEW m \in Nat, NEW h \in Nat, g <= m, m <= h,
         Revision(g) = Revision(h)
  PROVE  Revision(m) = Revision(h)
  <1>1. Revision(g) \in Nat /\ Revision(m) \in Nat /\ Revision(h) \in Nat
        /\ Revision(g) <= Revision(m) /\ Revision(m) <= Revision(h)
    BY RevisionMonotone
  <1> QED BY <1>1

\* The stored neighbours of a height between stored heights exist.
LEMMA PrevExists ==
  ASSUME TypeOK, NEW h \in Nat, NEW g \in StoredHeights(client), g < h
  PROVE  \E p \in StoredHeights(client) : IsPrevHeight(client, h, p) /\ g <= p
  <1> DEFINE S == {q \in StoredHeights(client) : q < h}
  <1>1. S \in SUBSET Nat /\ S # {} /\ \A q \in S : q <= h
    BY StoredTypes
  <1>2. PICK p \in S : \A q \in S : q <= p
    <2> HIDE DEF S
    <2> QED BY <1>1, GreatestExists
  <1> QED BY <1>2 DEF IsPrevHeight

LEMMA NextExists ==
  ASSUME TypeOK, NEW h \in Nat, NEW g \in StoredHeights(client), h < g
  PROVE  \E n \in StoredHeights(client) : IsNextHeight(client, h, n) /\ n <= g
  <1> DEFINE S == {q \in StoredHeights(client) : h < q}
  <1>1. S \in SUBSET Nat /\ S # {}
    BY StoredTypes
  <1>2. PICK n \in S : \A q \in S : n <= q
    <2> HIDE DEF S
    <2> QED BY <1>1, LeastExists
  <1> QED BY <1>2 DEF IsNextHeight

LEMMA TimesNotDecrease ==
  ASSUME TypeOK, TimesIncrease, ~ backdated, NEW g \in StoredHeights(client),
         NEW h \in StoredHeights(client), g <= h, Revision(g) = Revision(h)
  PROVE  client.cons[g].time <= client.cons[h].time
  BY StoredTypes DEF TimesIncrease

----------------------------------------------------------------------------
\* What check_for_misbehaviour_update_client lets through agrees with
\* everything seen, stored or pruned.
LEMMA NoConflictNoFork ==
  ASSUME ClientInv, ~ client.frozen, ~ backdated,
         NEW hdr \in Headers, NEW trusted \in Heights,
         verify_header(client, hdr, trusted, now), ~ ConflictsWithStored(client, hdr),
         NEW a \in seen
  PROVE  ~ Contradict(a, hdr) /\ ~ Contradict(hdr, a)
  <1> DEFINE H == hdr.height
  <1>0. /\ TypeOK /\ LatestIsStored /\ TimesIncrease
        /\ H \in Nat /\ H \in Heights /\ hdr.time \in Nat
        /\ hdr = [height |-> hdr.height, time |-> hdr.time, root |-> hdr.root]
    BY HeaderFacts, HeightsAreNat, TimesAssumption DEF ClientInv, Headers
  <1>1. /\ a.height \in Nat /\ a.time \in Nat
        /\ a = [height |-> a.height, time |-> a.time, root |-> a.root]
    BY <1>0, SeenTypes
  <1>2. /\ trusted \in StoredHeights(client) /\ trusted < H /\ trusted \in Nat
        /\ Revision(H) = Revision(trusted) /\ Revision(H) = Revision(client.latest)
        /\ client.cons[trusted].time < hdr.time
    BY HeightsAreNat DEF verify_header
  <1>3. SUFFICES ASSUME Revision(a.height) = Revision(H)
                 PROVE  /\ a.height = H => a = hdr
                        /\ a.height < H => a.time < hdr.time
                        /\ a.height > H => hdr.time < a.time
    BY <1>0, <1>1 DEF Contradict
  <1> DEFINE A == a.height
  <1>4. CASE A \notin StoredHeights(client)
    <2>1. A < trusted
      BY <1>2, <1>4 DEF ClientInv, SeenIsStoredOrPruned
    <2>2. PICK b \in seen : b.height = trusted /\ ComesFrom(client.cons[trusted], b)
      BY <1>2 DEF ClientInv, StoredWasSeen
    <2>3. ~ Contradict(b, a)
      BY DEF ClientInv, FrozenIffForked
    <2>4. b.time \in Nat
      BY <1>0, SeenTypes
    <2>5. a.time < b.time
      <3>1. a.height \in Nat /\ a.time \in Nat
        BY <1>1
      <3>2. b.height > a.height /\ Revision(b.height) = Revision(a.height)
        BY <1>2, <1>3, <2>1, <2>2, <3>1
      <3> QED BY <2>3, <2>4, <3>1, <3>2 DEF Contradict
    <2>6. b.time < hdr.time
      BY <1>2, <2>2 DEF ComesFrom
    <2> QED BY <1>0, <1>1, <1>2, <2>1, <2>4, <2>5, <2>6
  <1>5. CASE A \in StoredHeights(client)
    <2>0. client.cons[A].time = a.time /\ client.cons[A].root = a.root
      BY <1>5, SeenMatchesStored DEF ComesFrom
    <2>1. CASE A = H
      <3>1. client.cons[H].time = hdr.time /\ client.cons[H].root = hdr.root
        BY <1>5, <2>1 DEF ConflictsWithStored
      <3> QED BY <1>0, <1>1, <2>0, <2>1, <3>1
    <2>2. CASE H \in StoredHeights(client) /\ A # H
      <3>1. client.cons[H].time = hdr.time
        BY <2>2 DEF ConflictsWithStored
      <3>2. A < H => client.cons[A].time < client.cons[H].time
        BY <1>0, <1>3, <1>5, <2>2 DEF TimesIncrease
      <3>3. H < A => client.cons[H].time < client.cons[A].time
        BY <1>0, <1>3, <1>5, <2>2 DEF TimesIncrease
      <3> QED BY <1>0, <1>1, <2>0, <2>2, <3>1, <3>2, <3>3
    <2>3. CASE H \notin StoredHeights(client) /\ A < H
      <3>1. PICK p \in StoredHeights(client) : IsPrevHeight(client, H, p) /\ A <= p
        BY <1>0, <1>1, <1>5, <2>3, PrevExists
      <3>2. client.cons[p].time \in Nat /\ p \in Nat /\ p < H
        BY <1>0, <3>1, StoredTypes DEF IsPrevHeight
      <3>3. client.cons[p].time < hdr.time
        BY <1>0, <2>3, <3>1, <3>2 DEF ConflictsWithStored
      <3>4. Revision(p) = Revision(H) /\ Revision(A) = Revision(p)
        BY <1>0, <1>1, <1>3, <3>1, <3>2, SameRevisionBetween
      <3>5. client.cons[A].time <= client.cons[p].time
        BY <1>0, <1>5, <3>1, <3>4, TimesNotDecrease
      <3> QED BY <1>0, <1>1, <2>0, <2>3, <3>2, <3>3, <3>5
    <2>4. CASE H \notin StoredHeights(client) /\ H < A
      <3>1. PICK n \in StoredHeights(client) : IsNextHeight(client, H, n) /\ n <= A
        BY <1>0, <1>1, <1>5, <2>4, NextExists
      <3>2. client.cons[n].time \in Nat /\ n \in Nat /\ H < n
        BY <1>0, <3>1, StoredTypes DEF IsNextHeight
      <3>3. H < client.latest
        <4>1. A <= client.latest /\ client.latest \in Nat
          BY <1>0, <1>5, StoredTypes DEF LatestIsStored
        <4> QED BY <1>0, <1>1, <2>4, <4>1
      <3>4. hdr.time < client.cons[n].time
        BY <1>0, <2>4, <3>1, <3>2, <3>3 DEF ConflictsWithStored
      <3>5. Revision(n) = Revision(A)
        BY <1>0, <1>1, <1>3, <3>1, <3>2, SameRevisionBetween
      <3>6. client.cons[n].time <= client.cons[A].time
        BY <1>0, <1>5, <3>1, <3>5, TimesNotDecrease
      <3> QED BY <1>0, <1>1, <2>0, <2>4, <3>2, <3>4, <3>6
    <2> QED BY <1>0, <1>1, <2>1, <2>2, <2>3, <2>4
  <1> QED BY <1>4, <1>5

\* What it reports is a fork: the header contradicts one that was seen.
LEMMA ConflictIsFork ==
  ASSUME ClientInv, NEW hdr \in Headers, NEW trusted \in Heights,
         verify_header(client, hdr, trusted, now), ConflictsWithStored(client, hdr)
  PROVE  \E a \in seen : Contradict(a, hdr) \/ Contradict(hdr, a)
  <1> DEFINE H == hdr.height
  <1>0. /\ TypeOK /\ LatestIsStored
        /\ H \in Nat /\ H \in Heights /\ hdr.time \in Nat
    BY HeaderFacts, HeightsAreNat, TimesAssumption DEF ClientInv, Headers
  <1>1. /\ trusted \in StoredHeights(client) /\ trusted < H /\ trusted \in Nat
        /\ Revision(H) = Revision(trusted) /\ Revision(H) = Revision(client.latest)
    BY HeightsAreNat DEF verify_header
  <1>2. CASE H \in StoredHeights(client)
    <2>1. PICK b \in seen : b.height = H /\ ComesFrom(client.cons[H], b)
      BY <1>2 DEF ClientInv, StoredWasSeen
    <2>2. b # hdr
      BY <1>2, <2>1 DEF ConflictsWithStored, ComesFrom
    <2> QED BY <2>1, <2>2 DEF Contradict
  <1>3. ASSUME NEW p \in StoredHeights(client), IsPrevHeight(client, H, p),
               hdr.time <= client.cons[p].time
        PROVE  \E a \in seen : Contradict(a, hdr) \/ Contradict(hdr, a)
    <2>0. p \in Nat
      BY <1>0, StoredTypes
    <2>1. p \in Nat /\ p <= H /\ trusted <= p /\ p < H
      <3>1. p < H /\ trusted <= p
        BY <1>1, <1>3 DEF IsPrevHeight
      <3> QED BY <1>0, <2>0, <3>1
    <2>2. Revision(p) = Revision(H)
      <3>1. trusted \in Nat /\ Revision(trusted) = Revision(H) /\ H \in Nat
        BY <1>0, <1>1
      <3> HIDE DEF H
      <3> QED BY <2>1, <3>1, SameRevisionBetween
    <2>3. PICK b \in seen : b.height = p /\ ComesFrom(client.cons[p], b)
      BY <1>3 DEF ClientInv, StoredWasSeen
    <2> QED BY <1>0, <1>3, <2>1, <2>2, <2>3 DEF Contradict, ComesFrom
  <1>4. ASSUME NEW n \in StoredHeights(client), IsNextHeight(client, H, n),
               hdr.time >= client.cons[n].time
        PROVE  \E a \in seen : Contradict(a, hdr) \/ Contradict(hdr, a)
    <2>1. n \in Nat /\ H < n /\ n <= client.latest /\ client.latest \in Nat
          /\ client.cons[n].time \in Nat
      BY <1>0, <1>4, StoredTypes DEF IsNextHeight, LatestIsStored
    <2>2. Revision(n) = Revision(H)
      BY <1>0, <1>1, <2>1, SameRevisionBetween
    <2>3. PICK b \in seen : b.height = n /\ ComesFrom(client.cons[n], b)
      BY <1>4 DEF ClientInv, StoredWasSeen
    <2> QED BY <1>0, <1>4, <2>1, <2>2, <2>3 DEF Contradict, ComesFrom
  <1> QED BY <1>2, <1>3, <1>4 DEF ConflictsWithStored

----------------------------------------------------------------------------
LEMMA InitClient == Init => ClientInv
  <1> SUFFICES ASSUME Init PROVE ClientInv
    OBVIOUS
  <1>1. PICK hdr \in Headers : client = initialise(hdr, hostHeight, now) /\ seen = {hdr}
    BY DEF Init
  <1>2. hdr.height \in Heights /\ hdr.height \in Nat
    BY HeaderFacts, HeightsAreNat
  <1>3. /\ client.frozen = FALSE
        /\ \A h \in Heights : h # hdr.height => client.cons[h] = None
        /\ client.cons[hdr.height] = NewConsensusState(hdr, hostHeight, now)
    BY <1>1, <1>2 DEF initialise
  <1>4. StoredHeights(client) \subseteq {hdr.height}
    BY <1>3 DEF StoredHeights
  <1>5. TypeOK /\ LatestIsStored
    BY InitType, InitLatest
  <1>6. hdr.height \in StoredHeights(client)
    BY <1>4, <1>5 DEF LatestIsStored
  <1>7. TimesIncrease
    BY <1>2, <1>4 DEF TimesIncrease
  <1>8. FrozenIffForked
    BY <1>1, <1>2, <1>3 DEF FrozenIffForked, Contradict
  <1>9. StoredWasSeen
    BY <1>1, <1>3, <1>4 DEF StoredWasSeen, ComesFrom, NewConsensusState
  <1>10. SeenIsStoredOrPruned
    BY <1>1, <1>6 DEF SeenIsStoredOrPruned
  <1> QED BY <1>5, <1>7, <1>8, <1>9, <1>10 DEF ClientInv

\* A step that freezes the client leaves its consensus states alone.
LEMMA FreezeStep ==
  ASSUME ClientInv, TypeOK', LatestIsStored', client' = update_on_misbehaviour(client),
         UNCHANGED backdated,
         seen \subseteq seen', \E a, b \in seen' : Contradict(a, b)
  PROVE  ClientInv'
  <1>1. client'.cons = client.cons /\ client'.frozen = TRUE
    BY DEF update_on_misbehaviour, ClientInv, TypeOK, ClientState
  <1>2. StoredHeights(client') = StoredHeights(client)
    BY <1>1 DEF StoredHeights
  <1>3. TimesIncrease'
    BY <1>1, <1>2 DEF ClientInv, TimesIncrease
  <1>4. FrozenIffForked'
    BY <1>1 DEF FrozenIffForked
  <1>5. StoredWasSeen'
    <2> SUFFICES ASSUME NEW h \in StoredHeights(client')
                 PROVE  \E a \in seen' : a.height = h /\ ComesFrom(client'.cons[h], a)
      BY DEF StoredWasSeen
    <2>1. PICK a \in seen : a.height = h /\ ComesFrom(client.cons[h], a)
      BY <1>2 DEF ClientInv, StoredWasSeen
    <2> QED BY <1>1, <2>1
  <1>6. SeenIsStoredOrPruned'
    BY <1>1 DEF SeenIsStoredOrPruned
  <1> QED BY <1>3, <1>4, <1>5, <1>6 DEF ClientInv

\* Stored states that come from headers without a contradiction are in order.
LEMMA OrderFromSeen ==
  ASSUME TypeOK', StoredWasSeen', ~ \E a, b \in seen' : Contradict(a, b)
  PROVE  TimesIncrease'
  <1> SUFFICES ASSUME NEW g \in StoredHeights(client'), NEW h \in StoredHeights(client'),
                      g < h, Revision(g) = Revision(h)
               PROVE  client'.cons[g].time < client'.cons[h].time
    BY DEF TimesIncrease
  <1>1. PICK a \in seen' : a.height = g /\ ComesFrom(client'.cons[g], a)
    BY DEF StoredWasSeen
  <1>2. PICK b \in seen' : b.height = h /\ ComesFrom(client'.cons[h], b)
    BY DEF StoredWasSeen
  <1>3. a.time \in Nat /\ b.time \in Nat /\ a.height \in Nat /\ b.height \in Nat
    BY HeightsAreNat DEF TypeOK, Header
  <1>4. ~ Contradict(b, a)
    OBVIOUS
  <1>5. a.time < b.time
    BY <1>1, <1>2, <1>3, <1>4 DEF Contradict
  <1> QED BY <1>1, <1>2, <1>5 DEF ComesFrom

LEMMA UpdateStep ==
  ASSUME ClientInv, TypeOK', LatestIsStored', NEW hdr \in Headers, NEW trusted \in Heights,
         UpdateClient(hdr, trusted)
  PROVE  ClientInv'
  <1>0. /\ verify_header(client, hdr, trusted, now) /\ ~ client.frozen
        /\ client' = ExecuteUpdate(client, hdr, hostHeight, now)
        /\ seen' = seen \union {hdr} /\ TypeOK /\ LatestIsStored
        /\ UNCHANGED backdated
    BY DEF UpdateClient, IsActive, Status, ClientInv
  <1>1. CASE ConflictsWithStored(client, hdr)
    <2>1. \E a \in seen : Contradict(a, hdr) \/ Contradict(hdr, a)
      BY <1>0, <1>1, ConflictIsFork
    <2>2. client' = update_on_misbehaviour(client)
      BY <1>0, <1>1 DEF ExecuteUpdate
    <2> QED BY <1>0, <2>1, <2>2, FreezeStep
  <1>2. CASE ~ ConflictsWithStored(client, hdr)
    <2>1. PICK u : u = update_state(client, hdr, hostHeight, now)
      OBVIOUS
    <2>2. client' = u
      BY <1>0, <1>2, <2>1 DEF ExecuteUpdate
    <2> DEFINE K == StoredHeights(client) \ PrunedHeights(client, now)
    <2>3. /\ u.frozen = client.frozen
          /\ StoredHeights(u) = K \union {hdr.height}
          /\ \A h \in K : u.cons[h] = client.cons[h]
          /\ hdr.height \notin StoredHeights(client) =>
               u.cons[hdr.height] = NewConsensusState(hdr, hostHeight, now)
          /\ \A h \in StoredHeights(client) :
               trusted <= h => h \notin PrunedHeights(client, now)
      BY <1>0, <2>1, UpdateEffect
    <2>4. /\ trusted \in StoredHeights(client) /\ trusted < hdr.height
          /\ trusted \in Nat /\ hdr.height \in Nat
      BY <1>0, HeaderFacts, HeightsAreNat DEF verify_header
    <2>5. ASSUME ~ backdated PROVE ~ \E a, b \in seen' : Contradict(a, b)
      <3> SUFFICES ASSUME NEW a \in seen \union {hdr}, NEW b \in seen \union {hdr},
                          Contradict(a, b)
                   PROVE  FALSE
        BY <1>0
      <3>1. CASE a \in seen /\ b \in seen
        BY <1>0, <2>5, <3>1 DEF ClientInv, FrozenIffForked
      <3>2. CASE a = hdr /\ b = hdr
        BY <2>4, <3>2 DEF Contradict
      <3>3. CASE a \in seen /\ b = hdr
        BY <1>0, <1>2, <2>5, <3>3, NoConflictNoFork
      <3>4. CASE a = hdr /\ b \in seen
        BY <1>0, <1>2, <2>5, <3>4, NoConflictNoFork
      <3> QED BY <3>1, <3>2, <3>3, <3>4
    <2>6. StoredWasSeen'
      <3> SUFFICES ASSUME NEW h \in StoredHeights(u)
                   PROVE  \E a \in seen' : a.height = h /\ ComesFrom(client'.cons[h], a)
        BY <2>2 DEF StoredWasSeen
      <3>1. CASE h \in K
        <4>1. PICK a \in seen : a.height = h /\ ComesFrom(client.cons[h], a)
          BY <3>1 DEF ClientInv, StoredWasSeen
        <4> QED BY <1>0, <2>2, <2>3, <3>1, <4>1
      <3>2. CASE h = hdr.height /\ h \notin K
        <4>1. hdr.height \notin StoredHeights(client)
          BY <2>3, <2>4, <3>2
        <4>2. ComesFrom(client'.cons[h], hdr)
          BY <2>2, <2>3, <3>2, <4>1 DEF NewConsensusState, ComesFrom
        <4> QED BY <1>0, <3>2, <4>2
      <3> QED BY <2>3, <3>1, <3>2
    <2>7. SeenIsStoredOrPruned'
      <3> SUFFICES ASSUME NEW a \in seen', a.height \notin StoredHeights(u),
                          NEW h \in StoredHeights(u)
                   PROVE  a.height < h
        BY <2>2 DEF SeenIsStoredOrPruned
      <3>1. a \in seen /\ a.height \notin K
        BY <1>0, <2>3
      <3>2. a.height \in Nat
        BY <1>0, <3>1, SeenTypes
      <3>3. CASE a.height \in StoredHeights(client)
        <4>1. a.height \in PrunedHeights(client, now)
          BY <3>1, <3>3
        <4>2. a.height < trusted
          BY <2>3, <2>4, <3>2, <3>3, <4>1
        <4>3. CASE h = hdr.height
          BY <2>4, <3>2, <4>2, <4>3
        <4>4. CASE h \in K
          <5>1. h \in Nat
            BY <1>0, <4>4, StoredTypes
          <5>2. ASSUME h <= a.height PROVE h \in PrunedHeights(client, now)
            <6>1. \A g \in StoredHeights(client) : g \in Nat
              BY <1>0, StoredTypes
            <6>2. \A g \in StoredHeights(client) : g <= h => g <= a.height
              BY <3>2, <5>1, <5>2, <6>1
            <6> QED BY <4>1, <4>4, <6>2 DEF PrunedHeights
          <5> QED BY <3>2, <4>4, <5>1, <5>2
        <4> QED BY <2>3, <4>3, <4>4
      <3>4. CASE a.height \notin StoredHeights(client)
        <4>1. \A g \in StoredHeights(client) : a.height < g
          BY <1>0, <3>1, <3>4 DEF ClientInv, SeenIsStoredOrPruned
        <4>2. h = hdr.height => a.height < h
          BY <2>4, <3>2, <4>1
        <4> QED BY <2>3, <4>1, <4>2
      <3> QED BY <3>3, <3>4
    <2>8. FrozenIffForked'
      BY <1>0, <2>2, <2>3, <2>5 DEF FrozenIffForked
    <2>9. TimesIncrease'
      <3>1. CASE backdated
        BY <1>0, <3>1 DEF TimesIncrease
      <3>2. CASE ~ backdated
        BY <2>5, <2>6, <3>2, OrderFromSeen
      <3> QED BY <3>1, <3>2
    <2> QED BY <2>6, <2>7, <2>8, <2>9 DEF ClientInv
  <1> QED BY <1>1, <1>2

\* What an upgrade stores, and nothing else.
LEMMA UpgradeEffect ==
  ASSUME TypeOK, NEW plan \in UpgradePlans, UpgradeClient(plan)
  PROVE  /\ client'.frozen = FALSE
         /\ StoredHeights(client') = StoredHeights(client) \union {plan.height}
         /\ \A h \in Heights : h # plan.height => client'.cons[h] = client.cons[h]
         /\ client'.cons[plan.height].time = plan.time
         /\ client'.cons[plan.height].root = SentinelRoot
         /\ plan.height \in Heights /\ plan.height \in Nat
         /\ client.latest \in Nat /\ client.latest < plan.height
  <1>0. client \in ClientState(AllRoots) /\ now \in Nat /\ hostHeight \in Nat
    BY DEF TypeOK, AllRoots
  <1>1. plan.height \in Heights /\ plan.height \in Nat
    BY PlansAssumption, HeightsAreNat
  <1>2. client' = update_on_upgrade(client, plan) /\ client.latest < plan.height
    BY DEF UpgradeClient, verify_upgrade_client
  <1>3. \A h \in Heights : client'.cons[h] # None <=> h = plan.height \/ client.cons[h] # None
    BY <1>0, <1>2, UpgradeType
  <1>4. StoredHeights(client') = StoredHeights(client) \union {plan.height}
    BY <1>1, <1>3 DEF StoredHeights
  <1>5. client.cons \in [Heights -> ConsensusState(AllRoots) \union {None}]
        /\ client.latest \in Nat
    BY <1>0 DEF ClientState
  <1> QED BY <1>1, <1>2, <1>4, <1>5 DEF update_on_upgrade

LEMMA UpgradeStep ==
  ASSUME ClientInv, TypeOK', LatestIsStored', NEW plan \in UpgradePlans, UpgradeClient(plan)
  PROVE  ClientInv'
  <1> DEFINE new == [height |-> plan.height, time |-> plan.time, root |-> SentinelRoot]
  <1>0. /\ ~ client.frozen /\ seen' = seen \union {new} /\ TypeOK /\ LatestIsStored
        /\ backdated' = (backdated \/ \E a \in seen : Contradict(new, a))
    BY DEF UpgradeClient, IsActive, Status, ClientInv
  <1>1. /\ client'.frozen = FALSE
        /\ StoredHeights(client') = StoredHeights(client) \union {plan.height}
        /\ \A h \in Heights : h # plan.height => client'.cons[h] = client.cons[h]
        /\ client'.cons[plan.height].time = plan.time
        /\ client'.cons[plan.height].root = SentinelRoot
        /\ plan.height \in Heights /\ plan.height \in Nat
        /\ client.latest \in Nat /\ client.latest < plan.height
    BY <1>0, UpgradeEffect
  <1>2. \A a \in seen : a.height <= client.latest
    <2> SUFFICES ASSUME NEW a \in seen PROVE a.height <= client.latest
      OBVIOUS
    <2>1. a.height \in Nat
      BY <1>0, SeenTypes
    <2>2. a.height \in StoredHeights(client) \/ a.height < client.latest
      BY <1>0 DEF ClientInv, SeenIsStoredOrPruned, LatestIsStored
    <2> QED BY <1>0, <1>1, <2>1, <2>2 DEF LatestIsStored
  <1>3. \A a \in seen : a.height < plan.height /\ a.height \in Heights /\ a.height \in Nat
    BY <1>0, <1>1, <1>2, SeenTypes
  <1>4. ASSUME ~ backdated' PROVE ~ \E a, b \in seen' : Contradict(a, b)
    <2> SUFFICES ASSUME NEW a \in seen \union {new}, NEW b \in seen \union {new},
                        Contradict(a, b)
                 PROVE  FALSE
      BY <1>0
    <2>0. ~ backdated /\ \A c \in seen : ~ Contradict(new, c)
      BY <1>0, <1>4
    <2>1. CASE a \in seen /\ b \in seen
      BY <1>0, <2>0, <2>1 DEF ClientInv, FrozenIffForked
    <2>2. CASE a = new /\ b = new
      BY <1>1, <2>2 DEF Contradict
    <2>3. CASE a \in seen /\ b = new
      BY <1>1, <1>3, <2>3 DEF Contradict
    <2>4. CASE a = new /\ b \in seen
      BY <2>0, <2>4
    <2> QED BY <2>1, <2>2, <2>3, <2>4
  <1>6. StoredWasSeen'
    <2> SUFFICES ASSUME NEW h \in StoredHeights(client')
                 PROVE  \E a \in seen' : a.height = h /\ ComesFrom(client'.cons[h], a)
      BY DEF StoredWasSeen
    <2>1. CASE h = plan.height
      <3>1. new.height = h /\ new.time = client'.cons[h].time /\ new.root = client'.cons[h].root
        BY <1>1, <2>1
      <3>2. new \in seen'
        BY <1>0
      <3> HIDE DEF new
      <3> QED BY <3>1, <3>2 DEF ComesFrom
    <2>2. CASE h # plan.height
      <3>1. PICK a \in seen : a.height = h /\ ComesFrom(client.cons[h], a)
        BY <1>1, <2>2 DEF ClientInv, StoredWasSeen
      <3>2. client'.cons[h] = client.cons[h]
        BY <1>1, <2>2 DEF StoredHeights
      <3> QED BY <1>0, <3>1, <3>2
    <2> QED BY <2>1, <2>2
  <1>7. SeenIsStoredOrPruned'
    <2> SUFFICES ASSUME NEW a \in seen', a.height \notin StoredHeights(client'),
                        NEW h \in StoredHeights(client')
                 PROVE  a.height < h
      BY DEF SeenIsStoredOrPruned
    <2>1. a \in seen /\ a.height \notin StoredHeights(client)
      BY <1>0, <1>1
    <2> QED BY <1>0, <1>1, <1>3, <2>1 DEF ClientInv, SeenIsStoredOrPruned
  <1>8. FrozenIffForked'
    BY <1>1, <1>4 DEF FrozenIffForked
  <1>9. TimesIncrease'
    <2>1. CASE backdated'
      BY <2>1 DEF TimesIncrease
    <2>2. CASE ~ backdated'
      BY <1>4, <1>6, <2>2, OrderFromSeen
    <2> QED BY <2>1, <2>2
  <1> QED BY <1>6, <1>7, <1>8, <1>9 DEF ClientInv

\* Evidence is a contradiction between the two headers.
LEMMA MisbehaveStep ==
  ASSUME ClientInv, TypeOK', LatestIsStored', NEW hdr1 \in Headers, NEW hdr2 \in Headers,
         SubmitMisbehaviour(hdr1, hdr2)
  PROVE  ClientInv'
  <1>1. /\ seen' = seen \union {hdr1, hdr2} /\ client' = update_on_misbehaviour(client)
        /\ IsEvidence(hdr1, hdr2) /\ hdr1.height >= hdr2.height
        /\ Revision(hdr1.height) = Revision(hdr2.height) /\ UNCHANGED backdated
    BY DEF SubmitMisbehaviour, verify_misbehaviour_header
  <1>2. hdr1.height \in Nat /\ hdr2.height \in Nat
    BY HeaderFacts, HeightsAreNat
  <1>3. Contradict(hdr1, hdr2)
    BY <1>1, <1>2 DEF IsEvidence, Contradict
  <1> QED BY <1>1, <1>3, FreezeStep

LEMMA NextClient ==
  ASSUME ClientInv, [Next]_vars
  PROVE  ClientInv'
  <1>1. TypeOK' /\ LatestIsStored'
    BY NextType, NextLatest DEF ClientInv
  <1>2. CASE UNCHANGED <<client, seen, backdated>>
    BY <1>1, <1>2 DEF ClientInv, TimesIncrease, FrozenIffForked, StoredWasSeen,
         SeenIsStoredOrPruned, StoredHeights
  <1>3. CASE Update
    BY <1>1, <1>3, UpdateStep DEF Update
  <1>4. CASE Misbehave
    BY <1>1, <1>4, MisbehaveStep DEF Misbehave
  <1>5. CASE Upgrade
    BY <1>1, <1>5, UpgradeStep DEF Upgrade
  <1>6. CASE Wait
    BY <1>2, <1>6 DEF Wait, HostBlock
  <1> QED BY <1>2, <1>3, <1>4, <1>5, <1>6 DEF Next, vars

LEMMA ClientInvariant == Spec => []ClientInv
  BY InitClient, NextClient, PTL DEF Spec

\* Consensus times increase with height in every revision, in whatever order
\* update_client fills the heights in and whatever it prunes.
THEOREM TimesAlwaysIncrease == Spec => []TimesIncrease
  BY ClientInvariant, PTL DEF ClientInv

\* The client is frozen exactly when the headers it was shown fork: what
\* check_for_misbehaviour_update_client compares with the neighbours of a
\* height is enough to find every fork, and finds no other.
THEOREM FrozenExactlyOnFork == Spec => []FrozenIffForked
  BY ClientInvariant, PTL DEF ClientInv

----------------------------------------------------------------------------
LEMMA StepNeverRewrites ==
  ASSUME ClientInv, [Next]_vars, NEW h \in Heights
  PROVE  \/ client.cons[h] # None /\ client'.cons[h] \in {client.cons[h], None}
         \/ client.cons[h] = None /\ client'.cons[h] = None
         \/ client.cons[h] = None /\ \E g \in StoredHeights(client) : g < h
  <1>0. TypeOK /\ LatestIsStored /\ h \in Nat
    BY HeightsAreNat DEF ClientInv
  <1>1. CASE client'.cons = client.cons
    BY <1>1
  <1>2. client' = update_on_misbehaviour(client) => client'.cons = client.cons
    BY <1>0 DEF update_on_misbehaviour, TypeOK, ClientState
  <1>3. ASSUME NEW hdr \in Headers, NEW trusted \in Heights, UpdateClient(hdr, trusted),
               ~ ConflictsWithStored(client, hdr)
        PROVE  \/ client.cons[h] # None /\ client'.cons[h] \in {client.cons[h], None}
               \/ client.cons[h] = None /\ client'.cons[h] = None
               \/ client.cons[h] = None /\ \E g \in StoredHeights(client) : g < h
    <2>1. PICK u : u = update_state(client, hdr, hostHeight, now)
      OBVIOUS
    <2>2. client' = u /\ verify_header(client, hdr, trusted, now)
      BY <1>3, <2>1 DEF UpdateClient, ExecuteUpdate
    <2> DEFINE K == StoredHeights(client) \ PrunedHeights(client, now)
    <2>3. /\ StoredHeights(u) = K \union {hdr.height}
          /\ \A g \in K : u.cons[g] = client.cons[g]
          /\ \A g \in StoredHeights(client) :
               trusted <= g => g \notin PrunedHeights(client, now)
      BY <1>0, <2>1, <2>2, UpdateEffect
    <2>4. /\ trusted \in StoredHeights(client) /\ trusted < hdr.height
          /\ trusted \in Nat /\ hdr.height \in Nat
      BY <2>2, HeaderFacts, HeightsAreNat DEF verify_header
    <2>5. CASE h \in K
      BY <2>2, <2>3, <2>5 DEF StoredHeights
    <2>6. CASE h \notin K /\ h # hdr.height
      BY <2>2, <2>3, <2>6 DEF StoredHeights
    <2>7. CASE h \notin K /\ h = hdr.height
      BY <2>3, <2>4, <2>7 DEF StoredHeights
    <2> QED BY <2>5, <2>6, <2>7
  <1>4. ASSUME NEW plan \in UpgradePlans, UpgradeClient(plan)
        PROVE  \/ client'.cons[h] = client.cons[h]
               \/ client.cons[h] = None /\ \E g \in StoredHeights(client) : g < h
    <2>1. /\ \A g \in Heights : g # plan.height => client'.cons[g] = client.cons[g]
          /\ plan.height \in Nat /\ client.latest \in Nat /\ client.latest < plan.height
      BY <1>0, <1>4, UpgradeEffect
    <2>2. h = plan.height => client.cons[h] = None
      BY <1>0, <2>1 DEF LatestIsStored, StoredHeights
    <2> QED BY <1>0, <2>1, <2>2 DEF LatestIsStored
  <1>5. CASE Update
    BY <1>1, <1>2, <1>3, <1>5 DEF Update, UpdateClient, ExecuteUpdate
  <1>6. CASE Misbehave
    BY <1>1, <1>2, <1>6 DEF Misbehave, SubmitMisbehaviour
  <1>7. CASE Upgrade
    BY <1>4, <1>7 DEF Upgrade
  <1>8. CASE Wait \/ UNCHANGED vars
    BY <1>1, <1>8 DEF Wait, HostBlock, vars
  <1> QED BY <1>5, <1>6, <1>7, <1>8 DEF Next

\* A stored consensus state and its processed time and height never change
\* until update_client prunes them, and nothing is stored again below what
\* was kept.
THEOREM ConsensusStatesFixed == Spec => NeverRewritten
  <1>1. ClientInv /\ [Next]_vars =>
          [\A h \in Heights :
             \/ client.cons[h] # None /\ client'.cons[h] \in {client.cons[h], None}
             \/ client.cons[h] = None /\ client'.cons[h] = None
             \/ client.cons[h] = None /\ \E g \in StoredHeights(client) : g < h]_vars
    BY StepNeverRewrites
  <1> QED BY <1>1, ClientInvariant, PTL DEF Spec, NeverRewritten

\* A frozen or expired client is never changed again and never becomes active.
THEOREM InactiveClientStaysSo == Spec => InactiveForever
  <1>1. ASSUME TypeOK, LatestIsStored, Next, ~ IsActive(client, now)
        PROVE  client' = client /\ ~ IsActive(client', now')
    <2>1. PICK t \in 1..MaxTime : HostBlock(t)
      BY <1>1 DEF Next, Update, Misbehave, Upgrade, UpdateClient, SubmitMisbehaviour,
           UpgradeClient, Wait
    <2>2. client' = client /\ now' > now
      BY <2>1 DEF HostBlock
    <2>3. now \in Nat /\ now' \in Nat /\ client.cons[client.latest].time \in Nat
      <3>1. client.latest \in StoredHeights(client) /\ now \in Nat
        BY <1>1 DEF TypeOK, LatestIsStored
      <3>2. client.cons[client.latest].time \in Nat
        BY <1>1, <3>1, StoredTypes
      <3>3. now' \in Nat
        BY <2>1, TimesAssumption DEF HostBlock
      <3> QED BY <3>1, <3>2, <3>3
    <2>4. client.frozen \/ now > client.cons[client.latest].time + TrustingPeriod
      BY <1>1 DEF IsActive, Status, LatestIsStored
    <2>5. client.frozen \/ now' > client.cons[client.latest].time + TrustingPeriod
      BY <2>2, <2>3, <2>4, TrustingPeriodAssumption
    <2> QED BY <2>2, <2>5 DEF IsActive, Status
  <1>2. TypeOK /\ LatestIsStored /\ [Next]_vars =>
          [~ IsActive(client, now) => client' = client /\ ~ IsActive(client', now')]_vars
    BY <1>1
  <1> QED BY <1>2, ClientTypeCorrect, LatestNeverLost, PTL DEF Spec, InactiveForever

============================================================================

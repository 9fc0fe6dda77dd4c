------------------------ MODULE TmClientStateProofs ------------------------
(***************************************************************************)
(* Facts about the operators of TmClientState: they keep the type of a     *)
(* client, and an update leaves behind only consensus states that were     *)
(* there before, unchanged, or the one of the header.                      *)
(***************************************************************************)
EXTENDS TmClientState, WellFoundedInduction, TLAPS

\* prune_oldest_consensus_state only forgets consensus states.
LEMMA PruneFacts ==
  ASSUME NEW Roots, NEW cl \in ClientState(Roots), NEW now \in Nat
  PROVE  LET p == prune_oldest_consensus_state(cl, now) IN
         /\ p \in ClientState(Roots)
         /\ p.latest = cl.latest
         /\ p.frozen = cl.frozen
         /\ \A h \in Heights : p.cons[h] # None => p.cons[h] = cl.cons[h]
  BY DEF prune_oldest_consensus_state, ClientState

\* What the client u stores was in cl or comes from the header.
OldOrNew(cl, hdr, hostHeight, now, u) ==
  \A h \in Heights : u.cons[h] # None =>
    \/ u.cons[h] = cl.cons[h]
    \/ h = hdr.height /\ u.cons[h] = NewConsensusState(hdr, hostHeight, now)

\* update_state keeps the type of the client, and what it stores is either
\* old or the consensus state of the header.
LEMMA UpdateStateFacts ==
  ASSUME NEW Roots, NEW cl \in ClientState(Roots), NEW hdr \in Header(Roots),
         NEW hostHeight \in Nat, NEW now \in Nat
  PROVE  /\ update_state(cl, hdr, hostHeight, now) \in ClientState(Roots)
         /\ OldOrNew(cl, hdr, hostHeight, now, update_state(cl, hdr, hostHeight, now))
  <1> DEFINE p == prune_oldest_consensus_state(cl, now)
             n == NewConsensusState(hdr, hostHeight, now)
             s == StoreConsensusState(p, hdr.height, n)
             w == with_header(s, hdr)
  <1>1. /\ p \in ClientState(Roots)
        /\ \A h \in Heights : p.cons[h] # None => p.cons[h] = cl.cons[h]
    BY PruneFacts
  <1>2. n \in ConsensusState(Roots)
    BY DEF NewConsensusState, ConsensusState, Header
  <1>3. /\ s \in ClientState(Roots)
        /\ \A h \in Heights : s.cons[h] = IF h = hdr.height THEN n ELSE p.cons[h]
    <2> HIDE DEF p, n
    <2> QED BY <1>1, <1>2 DEF StoreConsensusState, ClientState, Header
  <1>4. w \in ClientState(Roots) /\ w.cons = s.cons
    <2> HIDE DEF s
    <2>1. Heights \subseteq Nat
      BY DEF Heights
    <2> QED BY <1>3, <2>1 DEF with_header, ClientState, Header
  <1>5. update_state(cl, hdr, hostHeight, now) =
          IF hdr.height \in StoredHeights(p) THEN p ELSE w
    BY DEF update_state
  <1> HIDE DEF p, s, w, n
  <1>6. QED
    BY <1>1, <1>3, <1>4, <1>5 DEF n, OldOrNew

----------------------------------------------------------------------------
\* A set of natural numbers that is not empty has a least element, and if it
\* is bounded a greatest one.
LEMMA LeastExists ==
  ASSUME NEW S \in SUBSET Nat, S # {}
  PROVE  \E x \in S : \A y \in S : x <= y
  <1> DEFINE R == {ss \in Nat \X Nat : ss[1] < ss[2]}
  <1>1. R = OpToRel(<, Nat)
    BY DEF OpToRel
  <1>2. IsWellFoundedOn(R, Nat)
    BY <1>1, NatLessThanWellFounded
  <1>3. PICK x \in S : \A y \in S : ~ (<<y, x>> \in R)
    <2> HIDE DEF R
    <2> QED BY <1>2, WFMin
  <1>4. ASSUME NEW y \in S PROVE x <= y
    <2>1. y < x => <<y, x>> \in R
      OBVIOUS
    <2>2. ~ (y < x)
      BY <1>3, <2>1
    <2> QED BY <2>2
  <1> QED BY <1>4

LEMMA GreatestExists ==
  ASSUME NEW S \in SUBSET Nat, S # {}, NEW b \in Nat, \A x \in S : x <= b
  PROVE  \E x \in S : \A y \in S : y <= x
  <1> DEFINE T == {k \in Nat : b - k \in S}
  <1>1. T \in SUBSET Nat /\ T # {}
    <2>1. PICK x \in S : TRUE
      OBVIOUS
    <2>2. b - x \in Nat /\ b - (b - x) = x
      BY <2>1
    <2> QED BY <2>1, <2>2
  <1>2. PICK k \in T : \A j \in T : k <= j
    BY <1>1, LeastExists
  <1>3. ASSUME NEW y \in S PROVE y <= b - k
    <2>1. y \in Nat /\ y <= b /\ b - y \in Nat /\ b - (b - y) = y
      OBVIOUS
    <2>2. b - y \in T
      BY <2>1
    <2> QED BY <1>2, <2>1, <2>2
  <1> QED BY <1>2, <1>3

\* Revisions grow with heights.
LEMMA RevisionMonotone ==
  ASSUME NEW g \in Nat, NEW h \in Nat, g <= h
  PROVE  Revision(g) \in Nat /\ Revision(h) \in Nat /\ Revision(g) <= Revision(h)
  BY RevisionLengthAssumption DEF Revision

\* The latest height is the old one or the header's.
LEMMA UpdateLatest ==
  ASSUME NEW Roots, NEW cl \in ClientState(Roots), NEW hdr \in Header(Roots),
         NEW hostHeight \in Nat, NEW now \in Nat
  PROVE  ExecuteUpdate(cl, hdr, hostHeight, now).latest \in {cl.latest, hdr.height}
  <1> DEFINE p == prune_oldest_consensus_state(cl, now)
             s == StoreConsensusState(p, hdr.height, NewConsensusState(hdr, hostHeight, now))
             w == with_header(s, hdr)
  <1>1. p.latest = cl.latest /\ p \in ClientState(Roots)
    BY PruneFacts
  <1>2. s.latest = cl.latest /\ DOMAIN s = {"latest", "frozen", "cons"}
    BY <1>1 DEF StoreConsensusState, ClientState
  <1>3. w.latest \in {cl.latest, hdr.height}
    <2> HIDE DEF s
    <2> QED BY <1>2 DEF with_header
  <1>4. update_on_misbehaviour(cl).latest = cl.latest
    BY DEF update_on_misbehaviour, ClientState
  <1> QED BY <1>1, <1>3, <1>4 DEF ExecuteUpdate, update_state

============================================================================

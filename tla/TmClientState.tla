--------------------------- MODULE TmClientState ---------------------------
(***************************************************************************)
(* The ICS-07 Tendermint light client as operators over one client record. *)
(*                                                                         *)
(* A client is the record                                                  *)
(*   latest : the latest_height of the client state                        *)
(*   frozen : whether frozen_height is set                                 *)
(*   cons   : the consensus states, None at a height that has none; each   *)
(*            carries the header time and root together with the update    *)
(*            metadata (host time and height at which it was stored),      *)
(*            which the code always writes and deletes with it             *)
(* A header is [height, time, root].  Heights are natural numbers that     *)
(* order like the pair (revision_number, revision_height): revision r      *)
(* holds the heights with h \div RevisionLength = r.  Validator sets and   *)
(* signatures are the light-client crate's business and are left out.      *)
(***************************************************************************)
EXTENDS Naturals

CONSTANTS
  TrustingPeriod,   \* how long a consensus state can be built upon
  MaxClockDrift,    \* how far in the future a header may be
  RevisionLength,   \* heights per revision (a bound of the encoding)
  MaxHeight,        \* bound: the greatest height of a chain
  None              \* an absent entry of a store

ASSUME TrustingPeriodAssumption == TrustingPeriod \in Nat \ {0}
ASSUME MaxClockDriftAssumption  == MaxClockDrift \in Nat
ASSUME RevisionLengthAssumption == RevisionLength \in Nat \ {0}

ASSUME MaxHeightAssumption      == MaxHeight \in Nat \ {0}

Heights == 1..MaxHeight
Revision(h) == h \div RevisionLength

\* The types, for stores (what a root commits to) in Roots.
ConsensusState(Roots) ==
  [time : Nat, root : Roots, procTime : Nat, procHeight : Nat]
ClientState(Roots) ==
  [latest : Nat, frozen : BOOLEAN,
   cons : [Heights -> ConsensusState(Roots) \union {None}]]
Header(Roots) == [height : Heights, time : Nat, root : Roots]

\* consensus_state_heights
StoredHeights(cl) == {h \in Heights : cl.cons[h] # None}

\* The consensus state made from a header, with its update metadata.
NewConsensusState(hdr, hostHeight, now) ==
  [time |-> hdr.time, root |-> hdr.root,
   procTime |-> now, procHeight |-> hostHeight]

\* Client and first consensus state, as `initialise` stores them.
initialise(hdr, hostHeight, now) ==
  [latest |-> hdr.height, frozen |-> FALSE,
   cons   |-> [h \in Heights |->
                 IF h = hdr.height THEN NewConsensusState(hdr, hostHeight, now)
                 ELSE None]]

\* status: frozen first, then expired, a latest consensus state in the
\* future counting as fresh.
Status(cl, now) ==
  IF cl.frozen THEN "Frozen"
  ELSE IF \/ cl.latest \notin StoredHeights(cl)
          \/ now > cl.cons[cl.latest].time + TrustingPeriod
       THEN "Expired" ELSE "Active"

IsActive(cl, now) == Status(cl, now) = "Active"

(***************************************************************************)
(* What verify_header asks of a header: a stored trusted height of the     *)
(* same revision below it and, from the light-client crate, a trusted      *)
(* state strictly inside its trusting period, a time after the trusted one *)
(* and a time before now plus the allowed drift.                           *)
(***************************************************************************)
verify_header(cl, hdr, trusted, now) ==
  /\ Revision(hdr.height) = Revision(trusted)
  /\ Revision(hdr.height) = Revision(cl.latest)
  /\ trusted < hdr.height
  /\ trusted \in StoredHeights(cl)
  /\ now < cl.cons[trusted].time + TrustingPeriod
  /\ cl.cons[trusted].time < hdr.time
  /\ hdr.time < now + MaxClockDrift

\* p is the stored height just below (above) h, if there is one.
IsPrevHeight(cl, h, p) ==
  p < h /\ \A q \in StoredHeights(cl) : q < h => q <= p

IsNextHeight(cl, h, n) ==
  h < n /\ \A q \in StoredHeights(cl) : h < q => n <= q

\* Mutant of ConflictsWithStored: the neighbour above is not looked at.
ConflictsPrevOnly(cl, hdr) ==
  IF hdr.height \in StoredHeights(cl)
  THEN \/ cl.cons[hdr.height].time # hdr.time
       \/ cl.cons[hdr.height].root # hdr.root
  ELSE \E p \in StoredHeights(cl) :
         IsPrevHeight(cl, hdr.height, p) /\ hdr.time <= cl.cons[p].time

\* check_for_misbehaviour_update_client: a different consensus state at the
\* height, or a time out of order with the neighbouring stored heights.
ConflictsWithStored(cl, hdr) ==
  IF hdr.height \in StoredHeights(cl)
  THEN \/ cl.cons[hdr.height].time # hdr.time
       \/ cl.cons[hdr.height].root # hdr.root
  ELSE \/ \E p \in StoredHeights(cl) :
            IsPrevHeight(cl, hdr.height, p) /\ hdr.time <= cl.cons[p].time
       \/ /\ hdr.height < cl.latest
          /\ \E n \in StoredHeights(cl) :
               IsNextHeight(cl, hdr.height, n) /\ hdr.time >= cl.cons[n].time

\* The heights prune_oldest_consensus_state deletes: from the lowest up to
\* the first consensus state that has not expired.
PrunedHeights(cl, now) ==
  {h \in StoredHeights(cl) :
     \A g \in StoredHeights(cl) :
        g <= h => cl.cons[g].time + TrustingPeriod <= now}

\* Mutant of prune_oldest_consensus_state: only delete_update_meta is called.
PruneMetaOnly(cl, now) ==
  [cl EXCEPT !.cons =
     [h \in Heights |->
        IF h \in PrunedHeights(cl, now)
        THEN [@[h] EXCEPT !.procTime = None, !.procHeight = None] ELSE @[h]]]

prune_oldest_consensus_state(cl, now) ==
  [cl EXCEPT !.cons =
     [h \in Heights |-> IF h \in PrunedHeights(cl, now) THEN None ELSE @[h]]]

StoreConsensusState(cl, h, cs) ==
  [cl EXCEPT !.cons[h] = cs]

\* Mutant of with_header: the maximum is not taken.
WithHeaderMovesBack(cl, hdr) == [cl EXCEPT !.latest = hdr.height]

\* with_header: the latest height never moves back.
with_header(cl, hdr) ==
  [cl EXCEPT !.latest = IF hdr.height > @ THEN hdr.height ELSE @]

\* Mutant of update_state: the look-up of an existing consensus state is gone.
UpdateStateOverwrites(cl, hdr, hostHeight, now) ==
  with_header(
    StoreConsensusState(prune_oldest_consensus_state(cl, now), hdr.height,
                        NewConsensusState(hdr, hostHeight, now)), hdr)

\* update_state: prune, then install the header unless it is there already.
update_state(cl, hdr, hostHeight, now) ==
  LET pruned == prune_oldest_consensus_state(cl, now) IN
  IF hdr.height \in StoredHeights(pruned)
  THEN pruned
  ELSE with_header(
         StoreConsensusState(pruned, hdr.height,
                             NewConsensusState(hdr, hostHeight, now)), hdr)

update_on_misbehaviour(cl) == [cl EXCEPT !.frozen = TRUE]

\* The execute step of MsgUpdateClient.
ExecuteUpdate(cl, hdr, hostHeight, now) ==
  IF ConflictsWithStored(cl, hdr)
  THEN update_on_misbehaviour(cl)
  ELSE update_state(cl, hdr, hostHeight, now)

\* validate_proof_height together with the look-up of the consensus state.
HasProofHeight(cl, ph) == ph <= cl.latest /\ ph \in StoredHeights(cl)
============================================================================

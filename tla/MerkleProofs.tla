----------------------------- MODULE MerkleProofs -----------------------------
(***************************************************************************)
(* ICS-23: proofs that a value is, or that nothing is, under a path of a   *)
(* committed store (ibc-core/ics23-commitment/types).                      *)
(*                                                                         *)
(* Hashes are symbolic: a tree is a function from keys to values, and is   *)
(* its own root.  A store is a tree; the multistore is a tree whose values *)
(* are the roots of the stores.  A proof has one entry per tree, from the  *)
(* leaf to the root; the keys of a Merkle path go from the root to the     *)
(* leaf.  What the ics23 crate checks of one entry is external.            *)
(***************************************************************************)
EXTENDS Naturals, Sequences

(* The ics23 crate.  An entry can be made for any tree whatever, committed *)
(* or not, but only for what is in that tree.                              *)

ExistProof(tree, key) ==
  [kind |-> "Exist", key |-> key, value |-> tree[key], tree |-> tree]

\* Absence is shown by the neighbours of the key.
NonExistProof(tree, key) ==
  [kind |-> "Nonexist", key |-> key, value |-> <<>>, tree |-> tree]

calculate_existence_root(entry) == entry.tree

ics23_verify_membership(entry, root, key, value) ==
  entry.kind = "Exist" /\ entry.tree = root /\ entry.key = key /\ entry.value = value

ics23_verify_non_membership(entry, root, key) ==
  entry.kind = "Nonexist" /\ entry.tree = root /\ entry.key = key

-----------------------------------------------------------------------------

apply_prefix(prefix, path) == <<prefix>> \o path

\* One entry and one key for each of the client's proof specs (IAVL, then
\* the Tendermint multistore)
Shaped(proof, specs, keys) ==
  Len(proof) # 0 /\ Len(specs) = Len(proof) /\ Len(keys) = Len(proof)

\* Mutant of verify_membership: every entry is checked against its own value,
\* and the trees are not tied to each other.
MembershipUnlinked(proof, specs, root, keys, value, start) ==
  LET n == Len(proof)
  IN  /\ Shaped(proof, specs, keys)
      /\ \A i \in start + 1 .. n :
           /\ proof[i].kind = "Exist"
           /\ ics23_verify_membership(proof[i], calculate_existence_root(proof[i]),
                                      keys[n + 1 - i],
                                      IF i = 1 THEN value ELSE proof[i].value)
      /\ root = calculate_existence_root(proof[n])

\* Each entry from start on is for its key, the first for the value and
\* every other for the root below it; the last root is the trusted one.
\* A start past the last entry leaves the value itself as the root.  An
\* empty value cannot be shown.
verify_membership(proof, specs, root, keys, value, start) ==
  LET n          == Len(proof)
      Below(i)   == IF i = start + 1 THEN value ELSE calculate_existence_root(proof[i - 1])
  IN  /\ Shaped(proof, specs, keys) /\ value # <<>>
      /\ \A i \in start + 1 .. n :
           /\ proof[i].kind = "Exist"
           /\ ics23_verify_membership(proof[i], calculate_existence_root(proof[i]),
                                      keys[n + 1 - i], Below(i))
      /\ root = IF start < n THEN calculate_existence_root(proof[n]) ELSE value

\* A neighbour of the key gives the root; in an empty tree there is none, and
\* the proof fails.
HasNeighbour(entry) == DOMAIN entry.tree # {}
calculate_non_existence_root(entry) == entry.tree

verify_non_membership(proof, specs, root, keys) ==
  /\ Shaped(proof, specs, keys)
  /\ proof[1].kind = "Nonexist" /\ HasNeighbour(proof[1])
  /\ ics23_verify_non_membership(proof[1], calculate_non_existence_root(proof[1]),
                                 keys[Len(keys)])
  /\ verify_membership(proof, specs, root, keys, calculate_non_existence_root(proof[1]), 1)
=============================================================================

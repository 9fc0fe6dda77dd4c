-------------------------- MODULE MCConnHandshake --------------------------
(***************************************************************************)
(* ConnHandshake for TLC.  Both chains speak versions 2 and 1, preferring  *)
(* 2, and share a feature of each.                                         *)
(***************************************************************************)
EXTENDS ConnHandshake

Ver(i, f) == [identifier |-> i, features |-> f]
MCCompatible ==
  [c \in Chains |->
     IF c = ChainA THEN <<Ver(2, {"o", "u"}), Ver(1, {"o", "u"})>>
     ELSE <<Ver(2, {"u"}), Ver(1, {"o"})>>]
OnlyA == {ChainA}
OneVersion == [c \in Chains |-> <<Ver(1, {"o"})>>]
MCProposed == {Ver(2, {"u"})}
\* The chain that starts needs three more blocks, the other one.
Uneven == [c \in Chains |-> IF c = ChainA THEN 5 ELSE 3]
Even == [c \in Chains |-> MaxHeight]
============================================================================

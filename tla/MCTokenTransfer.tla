-------------------------- MODULE MCTokenTransfer --------------------------
(***************************************************************************)
(* TokenTransfer for TLC: two chains and two channels, whose identifiers   *)
(* are crossed: each channel has the name of the other one at its far end. *)
(***************************************************************************)
EXTENDS TokenTransfer

MCEnd == [chain : {"A", "B"}, port : {"transfer"}, chan : {"c0", "c1"}]
MCPeer(e) == [chain |-> IF e.chain = "A" THEN "B" ELSE "A",
              port |-> "transfer",
              chan |-> IF e.chan = "c0" THEN "c1" ELSE "c0"]
MCBases == {<<"x">>}
\* Both users of A have a coin.
MCBank == [h \in Holders |-> [d \in Denoms |->
             IF h \in {Account("A", n) : n \in Names} /\ d.trace = <<>> THEN 1 ELSE 0]]
============================================================================

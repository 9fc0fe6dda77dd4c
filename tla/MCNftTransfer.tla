--------------------------- MODULE MCNftTransfer ---------------------------
(***************************************************************************)
(* NftTransfer for TLC: two chains and two channels with crossed names,    *)
(* two tokens, each with a URI and data or with a URI only.                *)
(***************************************************************************)
EXTENDS NftTransfer

MCEnd == [chain : {"A", "B"}, port : {"nft"}, chan : {"c0", "c1"}]
MCPeer(e) == [chain |-> IF e.chain = "A" THEN "B" ELSE "A",
              port |-> "nft",
              chan |-> IF e.chan = "c0" THEN "c1" ELSE "c0"]
MCBase == <<"k">>
MCMetadata == {{"uri"}, {"uri", "data"}}
============================================================================

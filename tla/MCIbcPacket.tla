---------------------------- MODULE MCIbcPacket ----------------------------
(***************************************************************************)
(* Instances of IbcPacket for TLC.  With three blocks on each chain the    *)
(* destination passes a timeout height of 2 in its last block, and a       *)
(* timeout time of 2 in its second or third.                               *)
(***************************************************************************)
EXTENDS IbcPacket

BothTimeouts  == {<<2, 0>>, <<0, 2>>}
\* Passed with a block to spare, which the liveness runs need to prove it.
EarlyTimeouts == {<<1, 0>>, <<0, 2>>}
OnlyA == {ChainA}
============================================================================

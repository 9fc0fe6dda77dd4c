-------------------------- MODULE MCChanHandshake --------------------------
(***************************************************************************)
(* ChanHandshake for TLC.  The application takes either order.  It lets    *)
(* "a" be proposed and answers "b", or, where versions are at stake, also  *)
(* lets "b" be proposed and answers "c", which the initiator may refuse.   *)
(***************************************************************************)
EXTENDS ChanHandshake

OnlyA == {ChainA}
Both  == {ChainA, ChainB}

AllOrders   == [k \in Conns |-> Orders]
FewerOrders == [k \in Conns |-> IF k = 1 THEN Orders ELSE {"Unordered"}]
AcceptA     == Orders \X {"a"}
AnswerB     == [x \in Orders \X Versions |-> "b"]
AcceptAB    == {<<"Ordered", "a">>, <<"Ordered", "b">>, <<"Unordered", "a">>}
AnswerNext  == [x \in Orders \X Versions |->
                  CASE x[2] = "a" -> "b" [] x[2] = "b" -> "c" [] OTHER -> None]

Even == [c \in Chains |-> MaxHeight]
\* The chain that starts gets a block more, to close what both opened.
Uneven == [c \in Chains |-> IF c = ChainA THEN 4 ELSE 3]
============================================================================

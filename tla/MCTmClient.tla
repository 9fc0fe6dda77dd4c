---------------------------- MODULE MCTmClient ----------------------------
(***************************************************************************)
(* TmClient for TLC: heights 1..3 are revision 0, the rest revision 1; r2  *)
(* is a root that commits to an upgrade.                                   *)
(***************************************************************************)
EXTENDS TmClient

MCTimes == {1, 2, 3, 4}
MCPlans == {[height |-> 4, time |-> 1], [height |-> 4, time |-> 2], [height |-> 3, time |-> 2]}
============================================================================

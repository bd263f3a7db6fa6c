---------------------------- MODULE MCGameServer ----------------------------
(* Values for the constants of GameServer. *)
EXTENDS GameServer

(* The limits of 50 packets in 10 seconds and 200 in 60, in proportion. *)
TwoLimits == <<[seconds |-> 1, packets |-> 2], [seconds |-> 2, packets |-> 3]>>
=============================================================================

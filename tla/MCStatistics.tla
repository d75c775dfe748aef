---------------------------- MODULE MCStatistics ----------------------------
(* Two ports on lcores 1 and 2; lcore 0 is the master. *)
EXTENDS Statistics

MCLcoreOf == [p \in 0 .. 1 |-> p + 1]
=============================================================================

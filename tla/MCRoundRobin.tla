---------------------------- MODULE MCRoundRobin ----------------------------
(* RoundRobin with its history for TLC.                                      *)
EXTENDS RoundRobinHistory
=============================================================================

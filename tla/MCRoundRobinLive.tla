-------------------------- MODULE MCRoundRobinLive --------------------------
(* RoundRobin for TLC under the fairness of one CPU. *)
EXTENDS RoundRobin
=============================================================================

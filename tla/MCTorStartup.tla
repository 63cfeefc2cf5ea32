---------------------------- MODULE MCTorStartup ----------------------------
(* TorStartup for TLC: one remote host behind two uplinks.                 *)
EXTENDS TorStartup

MCInitBest == [h \in Hosts |-> [CE |-> 0, hop1 |-> 2, hop0 |-> 4]]
MCReports == [best_port : {2}, best_CE : {0}, good_port : {3}, good_CE : CEs]
=============================================================================

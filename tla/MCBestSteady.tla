---------------------------- MODULE MCBestSteady ----------------------------
(* BestSteady for TLC: one host behind three uplinks, two equally loaded.  *)
EXTENDS BestSteady

MCInitBest == [h \in Hosts |-> [CE |-> 0, hop1 |-> 2, hop0 |-> 4]]
MCReports == [best_port : {2}, best_CE : CEs, good_port : {3}, good_CE : {0}]

Header(ce) == [best_port |-> 2, best_CE |-> ce, good_port |-> 3, good_CE |-> 0]
MCSteady == [p \in Ports |->
  CASE p = 4 -> [CE |-> 13, report |-> Header(0)]
    [] p = 5 -> [CE |-> 0, report |-> Header(10)]
    [] OTHER -> [CE |-> 10, report |-> Header(10)]]
=============================================================================

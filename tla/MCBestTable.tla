---------------------------- MODULE MCBestTable -----------------------------
(* BestTable and its history for TLC: one remote host behind two uplinks.  *)
EXTENDS BestOverlap

\* init_path_0 starts every path of a host at the uplink of its number.
MCInitBest == [h \in Hosts |-> [CE |-> 0, hop1 |-> 2, hop0 |-> 4]]

\* The best path goes over port 2, the good path over port 3 of the next
\* switch.  How congested they are is the larger of what is reported and what
\* the uplink's estimator says.
MCReports ==
  [best_port : {2}, best_CE : {10, 12}, good_port : {3}, good_CE : {10, 63}]
=============================================================================

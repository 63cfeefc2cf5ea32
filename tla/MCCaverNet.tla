----------------------------- MODULE MCCaverNet -----------------------------
(* CaverNet for TLC: one host in either rack, two uplinks, one of them     *)
(* loaded, and three ports of the switch in the middle, one to rack B.     *)
EXTENDS CaverNet

MCDownPort == [h \in Local |-> h]
MCDpPort == [p \in CaverPorts |-> IF p = 0 THEN 52 ELSE 8 * (p - 3)]
MCMiddleDpPort == [p \in MiddlePorts |-> 52 - 16 * p]
MCRackPorts == [h \in AllHosts |-> IF h \in Local THEN {0, 1} ELSE {2}]
MCMiddleInitPort == [h \in AllHosts |-> IF h \in Local THEN 0 ELSE 2]
MCCable == [p \in {0, 1} |-> 4 + p]
MCInitBest == [h \in Remote |-> [CE |-> 0, hop1 |-> 2, hop0 |-> 4]]
MCReports == [best_port : Hops, best_CE : CEs, good_port : Hops, good_CE : CEs]
MCTorCEs == [p \in Uplinks |-> IF p = 4 THEN {10} ELSE {0}]
MCCrc8 == [h \in AllHosts |-> h]

\* What actions read: not the parts' histories and the packets that left
\* them last.
Net == <<best, resubmit, stack, flow_method_reg, flow_path_reg, mBest, mGood, mResubmit,
         loaded, net, restarted>>
=============================================================================

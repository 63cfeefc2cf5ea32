----------------------------- MODULE MCCaverTor -----------------------------
(* CaverTor for TLC: two remote hosts behind two uplinks, one local host,  *)
(* a flow to each of them.                                                 *)
EXTENDS CaverTor

MCDownPort == [h \in Local |-> h]
MCInitBest == [h \in Remote |-> [CE |-> 0, hop1 |-> 2, hop0 |-> 4]]
MCReports == [best_port : {2}, best_CE : {0}, good_port : {3}, good_CE : {10}]
MCDpPort == [p \in CaverPorts |-> IF p = 0 THEN 52 ELSE 8 * (p - 3)]
MCCrc8 == [h \in AllHosts |-> h]

\* The registers.  No action reads the packet sent last or the parts' own
\* histories, and only an action property, which TLC checks on every step
\* whether or not the registers were met before, asks for the packet.
Registers == <<best, resubmit, stack, flow_method_reg, flow_path_reg, reported>>
=============================================================================

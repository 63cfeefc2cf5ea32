--------------------------- MODULE MCCaverMiddle ----------------------------
(***************************************************************************)
(* CaverMiddle for TLC, with the history of MiddleOverlap: two hosts of    *)
(* different racks, two cables to each.  Every packet is a step of both.   *)
(***************************************************************************)
EXTENDS CaverMiddle, MiddleOverlap

MCRackPorts == [h \in Hosts |-> IF h < 4 THEN {0, 1} ELSE {2, 3}]
MCInitPort == [h \in Hosts |-> IF h < 4 THEN 0 ELSE 2]
MCDpPort == [p \in Ports |-> 52 - 16 * p]

\* Only acknowledgements on their two passes touch the tables.
MCNext ==
  \/ CaverMiddleNext /\ UNCHANGED overlapVars
  \/ CaverMiddleNext /\ OverlapNext

MCInit == CaverMiddleInit /\ OverlapInit

MCSpec == MCInit /\ [][MCNext]_<<caverMiddleVars, recent>>

\* Bound: acknowledgements come from the hosts of one rack only.
OneRackAnswers == \A h \in Hosts : h < 4 => resubmit[h] = <<>>

\* No action reads the packet sent last; the two properties of a packet are
\* about steps.
Tables == <<best, good, resubmit, header, recent>>
=============================================================================

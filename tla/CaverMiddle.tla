---------------------------- MODULE CaverMiddle -----------------------------
(***************************************************************************)
(* The ingress pipeline of the CAVER switch between the ToRs: MiddleTables *)
(* with the way each type of packet takes.  A source-routed data packet    *)
(* leaves by the CAVER port its header names, every other packet by        *)
(* ipv4_lpm.  The estimator (Dre) a data packet is counted in is chosen by *)
(* CAVER port as well, and three tables translate between these ports and  *)
(* those of the switch: a path is worth its estimate only if the data sent *)
(* by a port is counted where acknowledgements that come in by this port   *)
(* look.                                                                   *)
(***************************************************************************)
EXTENDS MiddleTables, Functions

CONSTANTS
  DpPort,     \* the switch's number of a CAVER port (caver_port_list)
  RackPorts,  \* per host: the CAVER ports of the cables to its rack
  NoPort      \* the packet is dropped or not counted

ASSUME CaverMiddleAssumption ==
  /\ DOMAIN DpPort = Ports /\ IsInjective(DpPort)
  /\ RackPorts \in [Hosts -> SUBSET Ports]
  /\ \A h \in Hosts : InitPort[h] \in RackPorts[h]
  /\ NoPort \notin Ports \cup {DpPort[p] : p \in Ports}

VARIABLES
  out,      \* the packet that left the pipeline last
  counted   \* the estimator it was counted in

caverMiddleVars == <<middleVars, out, counted>>

-----------------------------------------------------------------------------
CaverPort2switchPort(p) == DpPort[p]
InPort2caverPort(dp) == CHOOSE p \in Ports : DpPort[p] = dp

\* Mutant: the groups of the racks are exchanged for one of all ports.
EcmpMembersAll(type, dst) == Ports

\* The CAVER ports of the group that ipv4_lpm chooses from; other packets than
\* RoCE have no entry and are dropped.
EcmpMembers(type, dst) == IF type = "Other" THEN {} ELSE RackPorts[dst]

\* Mutant: out_port decides for every CAVER data packet.
DrePortOfHeader(type, src_route, out_port, member) ==
  IF type = "CAVER_DATA" THEN out_port
  ELSE IF type = "DATA" THEN member ELSE NoPort

\* ig_md.dre_port of a data packet: out_port of the header, overwritten by
\* set_port_ecmp_data if the packet goes by ECMP.
DrePort(type, src_route, out_port, member) ==
  IF type \notin {"DATA", "CAVER_DATA"} THEN NoPort
  ELSE IF src_route = 1 THEN out_port ELSE member

Packet(type, dst, port) == [type |-> type, dst |-> dst, port |-> port]

CaverMiddleInit ==
  /\ MiddleInit
  /\ \E h \in Hosts : out = Packet("Other", h, NoPort)
  /\ counted = NoPort

\* A data packet: src_route is 0 without a CAVER header.
Data(type, dst, src_route, out_port, member) ==
  /\ type = "DATA" => src_route = 0
  /\ IF src_route = 1 THEN member = out_port ELSE member \in EcmpMembers(type, dst)
  /\ out' = Packet(type, dst, CaverPort2switchPort(member))
  /\ counted' = DrePort(type, src_route, out_port, member)
  /\ UNCHANGED middleVars

\* An acknowledgement without a CAVER header.
Ack(dst, member) ==
  /\ member \in EcmpMembers("ACK", dst)
  /\ out' = Packet("ACK", dst, CaverPort2switchPort(member))
  /\ counted' = NoPort
  /\ UNCHANGED middleVars

\* What is not RoCE.
OtherPacket(dst) ==
  /\ EcmpMembers("Other", dst) = {}
  /\ out' = Packet("Other", dst, NoPort)
  /\ counted' = NoPort
  /\ UNCHANGED middleVars

\* The two passes of an acknowledgement of src that came in by the switch's
\* port dp.
CaverAckFirst(src, dp) ==
  /\ AckFirst(src, InPort2caverPort(dp))
  /\ UNCHANGED <<out, counted>>

CaverAckSecond(src, dst, ce, member) ==
  /\ AckSecond(src, ce)
  /\ member \in EcmpMembers("CAVER_ACK_SECOND", dst)
  /\ out' = Packet("CAVER_ACK", dst, CaverPort2switchPort(member))
  /\ counted' = NoPort

\* A source route is one that acknowledgements of the destination carried:
\* the header sent on last stands for those before it.
CaverMiddleNext ==
  \/ \E type \in {"DATA", "CAVER_DATA"}, dst \in Hosts, member \in Ports :
       \/ Data(type, dst, 0, 0, member)
       \/ \E path \in {header[dst].best, header[dst].good} :
            type = "CAVER_DATA" /\ Data(type, dst, 1, path.port, member)
  \/ \E dst \in Hosts, member \in Ports : Ack(dst, member)
  \/ \E dst \in Hosts : OtherPacket(dst)
  \/ \E src \in Hosts : \E p \in RackPorts[src] : CaverAckFirst(src, DpPort[p])
  \/ \E src, dst \in Hosts, ce \in CEs, member \in Ports :
       CaverAckSecond(src, dst, ce, member)

CaverMiddleSpec == CaverMiddleInit /\ [][CaverMiddleNext]_caverMiddleVars

-----------------------------------------------------------------------------
(* Properties.                                                             *)

\* Data is counted where the acknowledgements that come in by the port it
\* left by look for congestion, whichever of the three tables forwarded it,
\* and nothing but data is counted.
CountedWhereAcksLook ==
  [][IF out'.type \in {"DATA", "CAVER_DATA"}
     THEN counted' = InPort2caverPort(out'.port)
     ELSE counted' = NoPort]_caverMiddleVars

\* Every data packet leaves for the rack of its destination, source-routed or
\* not: what the tables keep for a host, and what headers carry one
\* acknowledgement later, are ports that reach it.
DataReachesRack ==
  [][out'.type \in {"DATA", "CAVER_DATA"} =>
       InPort2caverPort(out'.port) \in RackPorts[out'.dst]]_caverMiddleVars
=============================================================================

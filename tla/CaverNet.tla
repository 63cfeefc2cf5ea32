------------------------------ MODULE CaverNet ------------------------------
(***************************************************************************)
(* CAVER end to end: data from the hosts of rack A through their ToR       *)
(* (CaverTor), the switch in the middle (MiddleStartup) and ToR B to the   *)
(* hosts of rack B, and the acknowledgements that come back and tell ToR A *)
(* the next paths.  Packets in flight are lost or overtake one another,    *)
(* and the switch in the middle may be restarted once.                     *)
(*                                                                         *)
(* ToR B runs the program of ToR A.  Of it, this module needs what happens *)
(* to a packet that is on its way: its own tables hold nothing about hosts *)
(* of its own rack, and the acknowledgements it sends on carry a header of *)
(* zeros, by a cable of its choice, whenever its hosts acknowledge.        *)
(***************************************************************************)
EXTENDS CaverTor, FiniteSets

CONSTANTS
  MiddlePorts,    \* CAVER ports of the switch in the middle
  MiddleDpPort,   \* its numbers of these ports
  MiddleInitPort, \* the port its init_BestTable writes for a host
  RackPorts,      \* per host: its ports to the rack of the host
  Cable,          \* the uplink of ToR A at the other end of such a port
  TorCEs,         \* bound: the estimates of an uplink of ToR A
  MiddleCEs,      \* bound: the estimates of the switch in the middle
  MaxNet          \* bound: packets between the switches

VARIABLES
  mBest, mGood, mResubmit, mHeader, mOut, mCounted, loaded,    \* Middle
  net,         \* packets between the switches
  delivered,   \* the data packet a host of either rack was given last
  restarted    \* history: the switch in the middle was restarted

Middle == INSTANCE MiddleStartup WITH
  Hosts <- AllHosts, Ports <- MiddlePorts, DpPort <- MiddleDpPort, InitPort <- MiddleInitPort,
  best <- mBest, good <- mGood, resubmit <- mResubmit, header <- mHeader,
  out <- mOut, counted <- mCounted

middleVars == <<mBest, mGood, mResubmit, mHeader, mOut, mCounted, loaded>>
netVars == <<torVars, middleVars, net, delivered, restarted>>

RackAPorts == DOMAIN Cable

\* Every port of the switch in the middle has one number and one rack, the
\* first of them is port 0, the tables of either switch start with ports to
\* the rack of the host, and what the switch in the middle reports is what
\* acknowledgements may arrive with.
ASSUME CaverNetAssumption ==
  /\ 0 \in MiddlePorts /\ 0 \in CEs
  /\ DOMAIN MiddleDpPort = MiddlePorts /\ IsInjective(MiddleDpPort)
  /\ RackPorts \in [AllHosts -> SUBSET MiddlePorts]
  /\ \A h \in Local : RackPorts[h] \subseteq RackAPorts
  /\ \A h \in Remote : RackPorts[h] \cap RackAPorts = {} /\ InitBest[h].hop1 \in RackPorts[h]
  /\ MiddleInitPort \in [AllHosts -> MiddlePorts]
  /\ \A h \in AllHosts : MiddleInitPort[h] \in RackPorts[h]
  /\ Cable \in [RackAPorts -> Uplinks]
  /\ [best_port : MiddlePorts, best_CE : CEs, good_port : MiddlePorts, good_CE : CEs]
       \subseteq Reports
  /\ TorCEs \in [Uplinks -> SUBSET CEs] /\ MiddleCEs \subseteq CEs
  /\ MaxNet \in Nat

-----------------------------------------------------------------------------

\* A data packet with its header, the switch it is on its way to, and how
\* often it went through the middle, counted to 3.
Flying(p, at, passes) ==
  [type |-> p.type, dst |-> p.dst, src_route |-> p.src_route, out_port |-> p.out_port,
   at |-> at, passes |-> passes]

\* The header an acknowledgement of src arrives with at ToR A.
Report(h) ==
  [best_port |-> h.best.port, best_CE |-> h.best.CE,
   good_port |-> h.good.port, good_CE |-> h.good.CE]

Exchange(gone, sent) ==
  /\ Cardinality((net \ gone) \cup sent) <= MaxNet
  /\ net' = (net \ gone) \cup sent

NetInit ==
  /\ TorInit
  /\ Middle!StartInit
  /\ net = {}
  /\ delivered = [header |-> FALSE, passes |-> 1]
  /\ restarted = FALSE

\* A host of rack A sends a data packet; one to its own rack is there.
SendData(src, dst, rest, new_flow, port) ==
  /\ RawData(src, dst, rest, new_flow, port)
  /\ IF InPort2caverPort(port) \in Uplinks
     THEN /\ Exchange({}, {Flying(out', "Middle", 0)})
          /\ UNCHANGED delivered
     ELSE /\ delivered' = [header |-> out'.type = "CAVER_DATA", passes |-> 0]
          /\ UNCHANGED net
  /\ UNCHANGED <<middleVars, restarted>>

\* The switch in the middle forwards data by the header or by ipv4_lpm.
MiddleData(p, member) ==
  /\ p.at = "Middle"
  /\ Middle!StartData(p.type, p.dst, p.src_route, p.out_port, member)
  /\ Exchange({p}, {Flying(p, IF member \in RackAPorts THEN "ToR A" ELSE "ToR B",
                           IF p.passes < 3 THEN p.passes + 1 ELSE 3)})
  /\ UNCHANGED <<torVars, delivered, restarted>>

\* A data packet for another rack that comes back to ToR A loses its header
\* and goes by ipv4_lpm.
TorData(p, port) ==
  /\ p.at = "ToR A" /\ p.type = "CAVER_DATA"
  /\ CaverData(p.dst, port)
  /\ Exchange({p}, {Flying(out', "Middle", p.passes)})
  /\ UNCHANGED <<middleVars, delivered, restarted>>

\* ToR B hands it to the host, with the header HeaderProcess leaves or adds.
FarData(p) ==
  /\ p.at = "ToR B"
  /\ delivered' = [header |-> HeaderProcess(p.type) = "CAVER_DATA", passes |-> p.passes]
  /\ Exchange({p}, {})
  /\ UNCHANGED <<torVars, middleVars, restarted>>

\* An acknowledgement of src reaches the switch in the middle by port p, is
\* sent on to ToR A, and takes its two passes there.
MiddleAckFirst(src, p) ==
  /\ Middle!StartAckFirst(src, MiddleDpPort[p])
  /\ UNCHANGED <<torVars, net, delivered, restarted>>

MiddleAckSecond(src, dst, ce, member) ==
  /\ Middle!StartAckSecond(src, dst, ce, member)
  /\ Exchange({}, {[src |-> src, dst |-> dst, uplink |-> Cable[member],
                    report |-> Report(mHeader'[src]), at |-> "acked"]})
  /\ UNCHANGED <<torVars, delivered, restarted>>

TorAckFirst(p) ==
  /\ p.at = "acked"
  /\ \E ce \in TorCEs[p.uplink] :
       CaverAckFirst(p.src, p.dst, DpPort[p.uplink], ce, p.report)
  /\ Exchange({p}, {})
  /\ UNCHANGED <<middleVars, delivered, restarted>>

TorAckSecond(src, dst, port) ==
  /\ CaverAckSecond(src, dst, port)
  /\ UNCHANGED <<middleVars, net, delivered, restarted>>

Lose(p) ==
  /\ Exchange({p}, {})
  /\ UNCHANGED <<torVars, middleVars, delivered, restarted>>

\* The control plane of the switch in the middle starts again.
Restart ==
  /\ ~restarted
  /\ Middle!Restart
  /\ restarted' = TRUE
  /\ UNCHANGED <<torVars, net, delivered>>

Load ==
  /\ Middle!Load
  /\ UNCHANGED <<torVars, net, delivered, restarted>>

NetNext ==
  \/ \E src \in Local, dst \in AllHosts, rest \in Rests, new_flow \in {0, 1}, port \in DpPorts :
       SendData(src, dst, rest, new_flow, port)
  \/ \E p \in net :
       \/ \E member \in MiddlePorts : MiddleData(p, member)
       \/ \E port \in DpPorts : TorData(p, port)
       \/ FarData(p)
       \/ TorAckFirst(p)
       \/ Lose(p)
  \/ \E src \in Remote : \E p \in RackPorts[src] : MiddleAckFirst(src, p)
  \/ \E src \in Remote, dst \in Local :
       \/ \E ce \in MiddleCEs : \E member \in RackPorts[dst] : MiddleAckSecond(src, dst, ce, member)
       \/ \E port \in DpPorts : TorAckSecond(src, dst, port)
  \/ Restart
  \/ Load

NetSpec == NetInit /\ [][NetNext]_netVars

-----------------------------------------------------------------------------
(* Properties.                                                             *)

\* The shape of what is between the switches and of what hosts are given.
NetTypeOK ==
  /\ Cardinality(net) <= MaxNet
  /\ \A p \in net : p.at = "acked" \/
       /\ p.type \in {"DATA", "CAVER_DATA"} /\ p.dst \in Remote /\ p.passes \in 0..3
       /\ p.src_route = 1 => p.type = "CAVER_DATA" /\ p.out_port \in MiddlePorts
  /\ delivered \in [header : BOOLEAN, passes : 0..3]

\* What ToR A has learned to route by leads to the rack of its destination:
\* the table, the store and the flows hold ports of the next switch that they
\* were told several packets ago.  After a restart of that switch they may
\* hold the 0 of acknowledgements it sent on before it knew better.
PathsLeadToRack ==
  \A h \in Remote :
    LET hops == RackPorts[h] \cup (IF restarted THEN {0} ELSE {})
    IN  /\ best[h].hop1 \in hops
        /\ \A i \in 1..Len(stack[h]) : stack[h][i].hop1 \in hops
        /\ \A rest \in Rests : flow_method_reg[FlowId(rest, h)] = 1 =>
             flow_path_reg[FlowId(rest, h)].hop1 \in hops

\* What CaverTor says of one ToR holds of ToR A here: all that the fabric
\* brings it is something TorNext lets in, acknowledgements of hosts of the
\* other rack for its own with reports of ports there are, and data, before,
\* during and after a restart of the switch in the middle.
ImplementsTor == TorSpec

\* No packet goes round in circles: a path that leads back to rack A costs it
\* one detour, on which it loses its source route.
OneDetour ==
  \A p \in net : p.at # "acked" => p.passes <= (IF restarted THEN 2 ELSE 1)

\* A host is given a data packet without a CAVER header exactly if the packet
\* crossed the fabric once: one of its own rack has the header that no switch
\* takes off, one that made a detour the header that ToR B adds.
HeaderOffOnlyOnWay ==
  [][delivered'.header <=> delivered'.passes # 1]_netVars
=============================================================================

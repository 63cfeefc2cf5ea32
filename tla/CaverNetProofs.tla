--------------------------- MODULE CaverNetProofs ---------------------------
(***************************************************************************)
(* Proofs about the two switches together, for any racks, cables, flows    *)
(* and bounds.                                                             *)
(*                                                                         *)
(* What ToR A routes by was carried there by acknowledgements, which took  *)
(* it from the tables of the switch in the middle some packets earlier,    *)
(* and a data packet carries it back.  The invariant follows a port all    *)
(* the way round: wherever it is met - in the tables of the middle, in the *)
(* acknowledgements and what waits between their passes, in the tables of  *)
(* ToR A, in the header of a data packet - it leads to the rack of the     *)
(* host, and if the middle was restarted it is that or 0.                  *)
(***************************************************************************)
EXTENDS CaverNet, CaverTorProofs, FiniteSetTheorems

-----------------------------------------------------------------------------
(* The invariant.                                                          *)

\* What is met for h where a port of the switch in the middle is kept.
Leads(h) == RackPorts[h] \cup (IF restarted THEN {0} ELSE {})

ReportedLead == \A h \in Remote : \A p \in reported[h] : p.hop1 \in Leads(h)

\* Acknowledgements between their passes at ToR A.
WaitingLead ==
  \A h \in Remote : \A i \in 1..Len(resubmit[h]) :
    /\ resubmit[h][i].report.best_port \in Leads(h)
    /\ resubmit[h][i].report.good_port \in Leads(h)

MiddleEntries == [CE : CEs, port : MiddlePorts]

MiddleTypeOK ==
  /\ mBest \in [AllHosts -> MiddleEntries]
  /\ mGood \in [AllHosts -> MiddleEntries]
  /\ mHeader \in [AllHosts -> [best : MiddleEntries, good : MiddleEntries]]
  /\ mResubmit \in [AllHosts -> Seq([port : MiddlePorts, best_port : MiddlePorts])]

MiddleLead ==
  \A h \in Remote :
    /\ mBest[h].port \in Leads(h) /\ mGood[h].port \in Leads(h)
    /\ mHeader[h].best.port \in Leads(h) /\ mHeader[h].good.port \in Leads(h)
    /\ \A i \in 1..Len(mResubmit[h]) : mResubmit[h][i].port \in RackPorts[h]

\* The tables are filled as long as the switch is not restarted.
MiddleLoaded == ~restarted => loaded = Len(Middle!Order)

\* An acknowledgement on its way to ToR A.
AckOK(p) ==
  /\ p.src \in Remote /\ p.dst \in Local /\ p.uplink \in Uplinks
  /\ p.report \in [best_port : MiddlePorts, best_CE : CEs, good_port : MiddlePorts, good_CE : CEs]
  /\ p.report.best_port \in Leads(p.src) /\ p.report.good_port \in Leads(p.src)

\* A data packet before its first pass, after it, and after the detour that
\* takes its header.
DataOK(p) ==
  /\ p.dst \in Remote
  /\ p.src_route = 1 => p.type = "CAVER_DATA" /\ p.out_port \in Leads(p.dst)
  /\ \/ p.type = "CAVER_DATA" /\ p.at = "Middle" /\ p.passes = 0
     \/ p.type = "CAVER_DATA" /\ p.at = "ToR B" /\ p.passes = 1
     \/ p.type = "CAVER_DATA" /\ p.at = "ToR A" /\ p.passes = 1 /\ restarted
     \/ p.type = "DATA" /\ p.at = "Middle" /\ p.passes = 1 /\ restarted
     \/ p.type = "DATA" /\ p.at = "ToR B" /\ p.passes = 2 /\ restarted

PacketOK(p) == IF p.at = "acked" THEN AckOK(p) ELSE DataOK(p)
PacketsOK == \A p \in net : PacketOK(p)

DeliveredOK ==
  /\ delivered \in [header : BOOLEAN, passes : {0, 1, 2}]
  /\ delivered.header <=> delivered.passes # 1

NetInv ==
  /\ RegInv /\ ReportedLead /\ WaitingLead
  /\ MiddleTypeOK /\ MiddleLead /\ MiddleLoaded
  /\ Cardinality(net) <= MaxNet /\ PacketsOK
  /\ DeliveredOK /\ restarted \in BOOLEAN

LEMMA LeadsPorts == \A h \in AllHosts : Leads(h) \subseteq MiddlePorts
  BY CaverNetAssumption DEF Leads

\* The first passes of acknowledgements know where they came from.
LEMMA MiddleRoundTrip == \A p \in MiddlePorts : Middle!InPort2caverPort(MiddleDpPort[p]) = p
  BY CaverNetAssumption DEF Middle!InPort2caverPort, IsInjective

LEMMA OrderEntries ==
  /\ Len(Middle!Order) = 11
  /\ Middle!Order[3] = "inPort2caverPort"
  /\ Middle!Order[6] = "BestTable"
  /\ Middle!Order[9] = "GoodTable"
  BY DEF Middle!Order

LEMMA LoadedHas ==
  ASSUME MiddleLoaded, ~restarted
  PROVE  Middle!Has("inPort2caverPort") /\ Middle!Has("BestTable") /\ Middle!Has("GoodTable")
<1>1. loaded = 11
  BY OrderEntries DEF MiddleLoaded
<1>2. 3 \in 1..loaded /\ 6 \in 1..loaded /\ 9 \in 1..loaded
  BY <1>1
<1>3. QED
  BY <1>2, OrderEntries DEF Middle!Has

LEMMA NetInvInit == NetInit => NetInv
<1>1. SUFFICES ASSUME NetInit PROVE NetInv
  OBVIOUS
<1>2. RegInv
  BY <1>1, InvInit DEF NetInit, TorInv
<1>3. restarted = FALSE /\ \A h \in AllHosts : Leads(h) = RackPorts[h]
  BY <1>1 DEF NetInit, Leads
<1>4. ReportedLead
  <2>1. reported = [h \in Remote |-> {PathOf(InitBest[h])}]
    BY <1>1 DEF NetInit, TorInit
  <2>2. \A h \in Remote : InitBest[h].hop1 \in Leads(h)
    BY <1>3, CaverNetAssumption DEF AllHosts
  <2>3. QED
    BY <2>1, <2>2 DEF ReportedLead, PathOf
<1>5. WaitingLead
  <2>1. \A h \in Remote : resubmit[h] = <<>>
    BY <1>1 DEF NetInit, TorInit, Table!BestInit
  <2>2. QED
    BY <2>1 DEF WaitingLead
<1>6. /\ mBest = [h \in AllHosts |-> Middle!InitEntry(h)]
      /\ mGood = [h \in AllHosts |-> Middle!InitEntry(h)]
      /\ mHeader = [h \in AllHosts |->
           [best |-> Middle!InitEntry(h), good |-> Middle!InitEntry(h)]]
      /\ mResubmit = [h \in AllHosts |-> <<>>]
      /\ loaded = Len(Middle!Order)
  BY <1>1 DEF NetInit, Middle!StartInit, Middle!CaverMiddleInit, Middle!MiddleInit
<1>7. \A h \in AllHosts : /\ Middle!InitEntry(h) \in MiddleEntries
                          /\ Middle!InitEntry(h).port \in RackPorts[h]
  BY CaverNetAssumption DEF Middle!InitEntry, MiddleEntries
<1>8. MiddleTypeOK
  BY <1>6, <1>7 DEF MiddleTypeOK
<1>9. MiddleLead
  <2>1. \A h \in Remote : mResubmit[h] = <<>>
    BY <1>6 DEF AllHosts
  <2>2. QED
    BY <1>3, <1>6, <1>7, <2>1 DEF MiddleLead, AllHosts
<1>10. MiddleLoaded
  BY <1>6 DEF MiddleLoaded
<1>11. net = {} /\ delivered = [header |-> FALSE, passes |-> 1]
  BY <1>1 DEF NetInit
<1>12. Cardinality(net) <= MaxNet
  BY <1>11, FS_EmptySet, CaverNetAssumption
<1>13. PacketsOK /\ DeliveredOK
  BY <1>11 DEF PacketsOK, DeliveredOK
<1>14. QED
  BY <1>2, <1>3, <1>4, <1>5, <1>8, <1>9, <1>10, <1>12, <1>13 DEF NetInv

-----------------------------------------------------------------------------
(* What a step leaves alone stays right, a restart of the middle included: *)
(* what leads to a rack then is more than before.                          *)

LEMMA LeadsGrow ==
  ASSUME restarted \in BOOLEAN, restarted' \in {restarted, TRUE}
  PROVE  /\ \A h : Leads(h) \subseteq Leads(h)'
         /\ restarted' \in BOOLEAN /\ (restarted => restarted')
  BY DEF Leads

LEMMA TorKept ==
  ASSUME RegInv, ReportedLead, WaitingLead, restarted \in BOOLEAN,
         restarted' \in {restarted, TRUE}, UNCHANGED <<tableVars, storeVars, flowVars, reported>>
  PROVE  RegInv' /\ ReportedLead' /\ WaitingLead'
<1>1. RegInv'
  BY RegistersKept
<1>2. reported' = reported /\ resubmit' = resubmit
  BY DEF tableVars
<1>3. \A h : Leads(h) \subseteq Leads(h)'
  BY LeadsGrow
<1>4. ReportedLead'
  BY <1>2, <1>3 DEF ReportedLead
<1>5. WaitingLead'
  BY <1>2, <1>3 DEF WaitingLead
<1>6. QED
  BY <1>1, <1>4, <1>5

LEMMA MiddleKept ==
  ASSUME MiddleTypeOK, MiddleLead, MiddleLoaded, restarted \in BOOLEAN,
         restarted' \in {restarted, TRUE},
         UNCHANGED <<mBest, mGood, mHeader, mResubmit, loaded>>
  PROVE  MiddleTypeOK' /\ MiddleLead' /\ MiddleLoaded'
<1>1. \A h : Leads(h) \subseteq Leads(h)'
  BY LeadsGrow
<1>2. MiddleTypeOK'
  BY DEF MiddleTypeOK
<1>3. MiddleLead'
  BY <1>1 DEF MiddleLead
<1>4. MiddleLoaded'
  BY DEF MiddleLoaded, Middle!Order
<1>5. QED
  BY <1>2, <1>3, <1>4

LEMMA FlyingKept ==
  ASSUME PacketsOK, restarted \in BOOLEAN, restarted' \in {restarted, TRUE}
  PROVE  \A x \in net : PacketOK(x)'
<1>1. \A h : Leads(h) \subseteq Leads(h)'
  BY LeadsGrow
<1>2. \A p : AckOK(p) => AckOK(p)'
  BY <1>1 DEF AckOK
<1>3. \A p : DataOK(p) => DataOK(p)'
  BY <1>1, LeadsGrow DEF DataOK
<1>4. QED
  BY <1>2, <1>3 DEF PacketsOK, PacketOK

LEMMA SendKeeps ==
  ASSUME NEW gone, NEW q, Exchange(gone, {q}), \A x \in net : PacketOK(x)', PacketOK(q)'
  PROVE  Cardinality(net') <= MaxNet /\ PacketsOK'
  BY DEF Exchange, PacketsOK

LEMMA DropKeeps ==
  ASSUME NEW gone, Exchange(gone, {}), \A x \in net : PacketOK(x)'
  PROVE  Cardinality(net') <= MaxNet /\ PacketsOK'
  BY DEF Exchange, PacketsOK

\* A data packet that is right as such is right as a packet.
LEMMA DataPacket ==
  ASSUME NEW q, q.at # "acked", DataOK(q)'
  PROVE  PacketOK(q)'
  BY DEF PacketOK

-----------------------------------------------------------------------------
(* Data.                                                                   *)

LEMMA SendDataKeeps ==
  ASSUME NetInv, NEW src, NEW dst \in AllHosts, NEW rest \in Rests, NEW new_flow \in {0, 1},
         NEW port \in DpPorts, SendData(src, dst, rest, new_flow, port)
  PROVE  NetInv'
<1>1. /\ RegInv' /\ OutLeaves'
      /\ out' = Packet("DATA", dst, out'.src_route, out'.out_port, port)
      /\ out'.src_route \in {0, 1}
      /\ dst \in Local => out'.src_route = 0 /\ port \in EcmpPorts(dst)
  BY RawDataKeeps DEF NetInv, SendData
<1>2. /\ reported' = reported /\ resubmit' = resubmit /\ restarted' = restarted
      /\ UNCHANGED <<mBest, mGood, mHeader, mResubmit, loaded>>
  BY DEF SendData, RawData, tableVars, middleVars
<1>3. \A h : Leads(h)' = Leads(h)
  BY <1>2 DEF Leads
<1>4. ReportedLead' /\ WaitingLead'
  BY <1>2, <1>3 DEF NetInv, ReportedLead, WaitingLead
<1>5. MiddleTypeOK' /\ MiddleLead' /\ MiddleLoaded'
  BY <1>2, MiddleKept DEF NetInv
<1>6. \A x \in net : PacketOK(x)'
  BY <1>2, FlyingKept DEF NetInv
<1>7. /\ out'.type = "CAVER_DATA" /\ out'.dst = dst /\ out'.port = port
  BY <1>1 DEF Packet, HeaderProcess
<1>8. CASE dst \in Local
  <2>1. port = DpPort[DownPort[dst]] /\ DownPort[dst] \in DownPorts
    BY <1>1, <1>8 DEF EcmpPorts, Group, DownPorts
  <2>2. InPort2caverPort(port) \notin Uplinks
    BY <2>1, PortRoundTrip, CaverTorAssumption DEF CaverPorts
  <2>3. delivered' = [header |-> TRUE, passes |-> 0] /\ net' = net
    BY <1>7, <2>2 DEF SendData
  <2>4. DeliveredOK' /\ Cardinality(net') <= MaxNet /\ PacketsOK'
    BY <1>6, <2>3 DEF NetInv, DeliveredOK, PacketsOK
  <2>5. QED
    BY <1>1, <1>2, <1>4, <1>5, <2>4 DEF NetInv
<1>9. CASE dst \in Remote
  <2>. PICK p : p = Flying(out', "Middle", 0)
    OBVIOUS
  <2>1. out'.dst \in Remote /\ out'.port # NoPort
    BY <1>7, <1>9, CaverTorAssumption DEF DpPorts
  <2>2. /\ port \in {DpPort[q] : q \in Uplinks}
        /\ out'.src_route = 1 =>
             [hop1 |-> out'.out_port, hop0 |-> InPort2caverPort(port)] \in reported'[dst]
    BY <1>1, <1>7, <2>1 DEF OutLeaves, InPort2caverPort
  <2>3. InPort2caverPort(port) \in Uplinks
    BY <2>2, PortRoundTrip DEF CaverPorts
  <2>4. Exchange({}, {p}) /\ delivered' = delivered
    BY <2>3 DEF SendData
  <2>5. out'.src_route = 1 => out'.out_port \in Leads(dst)
    BY <1>2, <1>9, <2>2 DEF NetInv, ReportedLead
  <2>6. /\ p.type = "CAVER_DATA" /\ p.dst = dst /\ p.src_route = out'.src_route
        /\ p.out_port = out'.out_port /\ p.at = "Middle" /\ p.passes = 0
    BY <1>7 DEF Flying
  <2>7. PacketOK(p)'
    <3>1. Leads(p.dst)' = Leads(dst)
      BY <1>3, <2>6
    <3>2. DataOK(p)'
      BY <1>9, <2>5, <2>6, <3>1 DEF DataOK
    <3>3. QED
      BY <2>6, <3>2, DataPacket
  <2>8. Cardinality(net') <= MaxNet /\ PacketsOK'
    BY <1>6, <2>4, <2>7, SendKeeps
  <2>9. DeliveredOK'
    BY <2>4 DEF NetInv, DeliveredOK
  <2>10. QED
    BY <1>1, <1>2, <1>4, <1>5, <2>8, <2>9 DEF NetInv
<1>10. QED
  BY <1>8, <1>9 DEF AllHosts

\* The middle sends a packet back to rack A only by the 0 of a header that
\* was written after a restart.
LEMMA MiddleDataKeeps ==
  ASSUME NetInv, NEW p \in net, NEW member \in MiddlePorts, MiddleData(p, member)
  PROVE  NetInv'
<1> DEFINE q == Flying(p, IF member \in RackAPorts THEN "ToR A" ELSE "ToR B",
                       IF p.passes < 3 THEN p.passes + 1 ELSE 3)
<1>1. /\ p.at = "Middle"
      /\ IF p.src_route = 1 THEN member = p.out_port
         ELSE member \in Middle!EcmpMembers(p.type, p.dst)
      /\ Exchange({p}, {q})
      /\ UNCHANGED <<mBest, mGood, mHeader, mResubmit, loaded>>
      /\ UNCHANGED <<torVars, delivered, restarted>>
  BY DEF MiddleData, Middle!StartData, Middle!Data, Middle!middleVars
<1>2. RegInv' /\ ReportedLead' /\ WaitingLead'
  BY <1>1, TorKept DEF NetInv, torVars
<1>3. MiddleTypeOK' /\ MiddleLead' /\ MiddleLoaded'
  BY <1>1, MiddleKept DEF NetInv
<1>4. \A x \in net : PacketOK(x)'
  BY <1>1, FlyingKept DEF NetInv
<1>5. DataOK(p)
  BY <1>1 DEF NetInv, PacketsOK, PacketOK
<1>6. p.dst \in Remote /\ p.type # "Other"
  BY <1>5 DEF DataOK
<1>7. member \in (IF p.src_route = 1 THEN Leads(p.dst) ELSE RackPorts[p.dst])
  BY <1>1, <1>5, <1>6 DEF DataOK, Middle!EcmpMembers
<1>8. member \in RackAPorts => restarted /\ p.type = "CAVER_DATA"
  BY <1>5, <1>6, <1>7, CaverNetAssumption DEF Leads, DataOK
<1>9. /\ q.type = p.type /\ q.dst = p.dst /\ q.src_route = p.src_route
      /\ q.out_port = p.out_port
      /\ q.at = IF member \in RackAPorts THEN "ToR A" ELSE "ToR B"
  BY DEF Flying
<1>10. q.passes = IF p.passes < 3 THEN p.passes + 1 ELSE 3
  BY DEF Flying
<1>11. q.at # "acked" /\ \A h : Leads(h)' = Leads(h)
  BY <1>1, <1>9 DEF Leads
<1> HIDE DEF q
<1>12. SUFFICES DataOK(q)'
  <2>1. ASSUME DataOK(q)' PROVE Cardinality(net') <= MaxNet /\ PacketsOK'
    BY <1>1, <1>4, <1>11, <2>1, DataPacket, SendKeeps
  <2>2. QED
    BY <1>1, <1>2, <1>3, <2>1 DEF NetInv, DeliveredOK
<1>13. CASE p.type = "CAVER_DATA"
  <2>1. p.passes = 0
    BY <1>1, <1>5, <1>13 DEF DataOK
  <2>2. q.passes = 1
    BY <1>10, <2>1
  <2>3. DataOK(q)'
    BY <1>1, <1>5, <1>8, <1>9, <1>13, <1>11, <2>2 DEF DataOK
  <2>4. QED
    BY <1>12, <2>3
<1>14. CASE p.type = "DATA"
  <2>1. p.passes = 1 /\ restarted
    BY <1>1, <1>5, <1>14 DEF DataOK
  <2>2. q.passes = 2
    BY <1>10, <2>1
  <2>3. q.at = "ToR B"
    BY <1>8, <1>9, <1>14
  <2>4. DataOK(q)'
    BY <1>1, <1>5, <1>9, <1>14, <1>11, <2>1, <2>2, <2>3 DEF DataOK
  <2>5. QED
    BY <1>12, <2>4
<1>15. QED
  BY <1>5, <1>13, <1>14 DEF DataOK

LEMMA TorDataKeeps ==
  ASSUME NetInv, NEW p \in net, NEW port \in DpPorts, TorData(p, port)
  PROVE  NetInv'
<1>. PICK q : q = Flying(out', "Middle", p.passes)
  OBVIOUS
<1>1. /\ p.at = "ToR A"
      /\ out' = Packet("CAVER_DATA", p.dst, 0, 0, port)
      /\ UNCHANGED <<tableVars, storeVars, flowVars, reported>>
      /\ Exchange({p}, {q})
      /\ UNCHANGED <<middleVars, delivered, restarted>>
  BY DEF TorData, CaverData, Forward
<1>2. RegInv' /\ ReportedLead' /\ WaitingLead'
  BY <1>1, TorKept DEF NetInv
<1>3. MiddleTypeOK' /\ MiddleLead' /\ MiddleLoaded'
  BY <1>1, MiddleKept DEF NetInv, middleVars
<1>4. \A x \in net : PacketOK(x)'
  BY <1>1, FlyingKept DEF NetInv
<1>5. DataOK(p)
  BY <1>1 DEF NetInv, PacketsOK, PacketOK
<1>6. p.dst \in Remote /\ p.passes = 1 /\ restarted
  BY <1>1, <1>5 DEF DataOK
<1>7. /\ q.type = "DATA" /\ q.dst = p.dst /\ q.src_route = 0
      /\ q.at = "Middle" /\ q.passes = 1
  BY <1>1, <1>6 DEF Flying, Packet, HeaderProcess
<1>8. DataOK(q)'
  <2>1. restarted'
    BY <1>1, <1>6
  <2>2. q.dst \in Remote /\ q.src_route # 1
    BY <1>6, <1>7
  <2>3. QED
    BY <1>7, <2>1, <2>2 DEF DataOK
<1>9. Cardinality(net') <= MaxNet /\ PacketsOK'
  BY <1>1, <1>4, <1>7, <1>8, DataPacket, SendKeeps
<1>10. QED
  BY <1>1, <1>2, <1>3, <1>9 DEF NetInv, DeliveredOK

LEMMA FarDataKeeps ==
  ASSUME NetInv, NEW p \in net, FarData(p)
  PROVE  NetInv'
<1>1. /\ p.at = "ToR B" /\ Exchange({p}, {})
      /\ delivered' = [header |-> HeaderProcess(p.type) = "CAVER_DATA", passes |-> p.passes]
      /\ UNCHANGED <<torVars, middleVars, restarted>>
  BY DEF FarData
<1>2. RegInv' /\ ReportedLead' /\ WaitingLead'
  BY <1>1, TorKept DEF NetInv, torVars
<1>3. MiddleTypeOK' /\ MiddleLead' /\ MiddleLoaded'
  BY <1>1, MiddleKept DEF NetInv, middleVars
<1>4. \A x \in net : PacketOK(x)'
  BY <1>1, FlyingKept DEF NetInv
<1>5. DataOK(p)
  BY <1>1 DEF NetInv, PacketsOK, PacketOK
<1>6. DeliveredOK'
  <2>1. CASE p.type = "CAVER_DATA"
    <3>1. p.passes = 1 /\ HeaderProcess(p.type) = "DATA"
      BY <1>1, <1>5, <2>1 DEF DataOK, HeaderProcess
    <3>2. delivered' = [header |-> FALSE, passes |-> 1]
      BY <1>1, <3>1
    <3>3. QED
      BY <3>2 DEF DeliveredOK
  <2>2. CASE p.type = "DATA"
    <3>1. p.passes = 2 /\ HeaderProcess(p.type) = "CAVER_DATA"
      BY <1>1, <1>5, <2>2 DEF DataOK, HeaderProcess
    <3>2. delivered' = [header |-> TRUE, passes |-> 2]
      BY <1>1, <3>1
    <3>3. QED
      BY <3>2 DEF DeliveredOK
  <2>3. QED
    BY <1>5, <2>1, <2>2 DEF DataOK
<1>7. Cardinality(net') <= MaxNet /\ PacketsOK'
  BY <1>1, <1>4, DropKeeps
<1>8. QED
  BY <1>1, <1>2, <1>3, <1>6, <1>7 DEF NetInv

LEMMA LoseKeeps ==
  ASSUME NetInv, NEW p \in net, Lose(p)
  PROVE  NetInv'
<1>1. Exchange({p}, {}) /\ UNCHANGED <<torVars, middleVars, delivered, restarted>>
  BY DEF Lose
<1>2. RegInv' /\ ReportedLead' /\ WaitingLead'
  BY <1>1, TorKept DEF NetInv, torVars
<1>3. MiddleTypeOK' /\ MiddleLead' /\ MiddleLoaded'
  BY <1>1, MiddleKept DEF NetInv, middleVars
<1>4. Cardinality(net') <= MaxNet /\ PacketsOK'
  BY <1>1, FlyingKept, DropKeeps DEF NetInv
<1>5. QED
  BY <1>1, <1>2, <1>3, <1>4 DEF NetInv, DeliveredOK

-----------------------------------------------------------------------------
(* Acknowledgements at the switch in the middle.                           *)

LEMMA MiddleAckFirstKeeps ==
  ASSUME NetInv, NEW src \in Remote, NEW p \in RackPorts[src], MiddleAckFirst(src, p)
  PROVE  NetInv'
<1> DEFINE r == [port |-> Middle!InPort2caverPort(MiddleDpPort[p]),
                 best_port |-> IF Middle!Has("BestTable") THEN mBest[src].port ELSE 0]
<1>1. /\ mResubmit' = [mResubmit EXCEPT ![src] = Append(@, r)]
      /\ UNCHANGED <<mBest, mGood, mHeader, loaded>>
      /\ UNCHANGED <<torVars, net, delivered, restarted>>
  BY DEF MiddleAckFirst, Middle!StartAckFirst
<1>2. p \in MiddlePorts /\ src \in AllHosts
  BY CaverNetAssumption DEF AllHosts
<1>3. r.port = p /\ r \in [port : MiddlePorts, best_port : MiddlePorts]
  BY <1>2, MiddleRoundTrip, CaverNetAssumption DEF NetInv, MiddleTypeOK, MiddleEntries
<1> HIDE DEF r
<1>4. RegInv' /\ ReportedLead' /\ WaitingLead'
  BY <1>1, TorKept DEF NetInv, torVars
<1>5. \A h : Leads(h)' = Leads(h)
  BY <1>1 DEF Leads
<1>6. MiddleTypeOK'
  <2>1. mResubmit[src] \in Seq([port : MiddlePorts, best_port : MiddlePorts])
    BY <1>2 DEF NetInv, MiddleTypeOK
  <2>2. Append(mResubmit[src], r) \in Seq([port : MiddlePorts, best_port : MiddlePorts])
    BY <1>3, <2>1
  <2>3. QED
    BY <1>1, <2>2 DEF NetInv, MiddleTypeOK
<1>7. \A h \in Remote : \A i \in 1..Len(mResubmit'[h]) : mResubmit'[h][i].port \in RackPorts[h]
  <2>1. ASSUME NEW h \in Remote, NEW i \in 1..Len(mResubmit'[h])
        PROVE  mResubmit'[h][i].port \in RackPorts[h]
    <3>1. /\ mResubmit[h] \in Seq([port : MiddlePorts, best_port : MiddlePorts])
          /\ \A j \in 1..Len(mResubmit[h]) : mResubmit[h][j].port \in RackPorts[h]
      BY DEF NetInv, MiddleTypeOK, MiddleLead, AllHosts
    <3>2. CASE h = src
      <4>1. mResubmit'[h] = Append(mResubmit[h], r)
        BY <1>1, <1>2, <3>2 DEF NetInv, MiddleTypeOK
      <4>2. QED
        BY <1>3, <2>1, <3>1, <3>2, <4>1
    <3>3. CASE h # src
      <4>1. mResubmit'[h] = mResubmit[h]
        BY <1>1, <3>3 DEF NetInv, MiddleTypeOK, AllHosts
      <4>2. QED
        BY <2>1, <3>1, <4>1
    <3>4. QED
      BY <3>2, <3>3
  <2>2. QED
    BY <2>1
<1>8. MiddleLead'
  BY <1>1, <1>5, <1>7 DEF NetInv, MiddleLead
<1>9. MiddleLoaded'
  BY <1>1 DEF NetInv, MiddleLoaded, Middle!Order
<1>10. PacketsOK'
  BY <1>1, FlyingKept DEF NetInv, PacketsOK
<1>11. QED
  BY <1>1, <1>4, <1>6, <1>8, <1>9, <1>10 DEF NetInv, DeliveredOK

\* The path a second pass writes down is the one the acknowledgement came by,
\* or 0 if the switch does not know its own ports yet.
LEMMA MiddleBefore ==
  ASSUME NetInv, NEW src \in Remote, NEW ce \in MiddleCEs, mResubmit[src] # <<>>
  PROVE  LET before == Middle!Before(Head(mResubmit[src]), ce)
         IN  before \in MiddleEntries /\ before.port \in Leads(src)
<1> DEFINE r == Head(mResubmit[src])
<1>1. /\ mResubmit[src] \in Seq([port : MiddlePorts, best_port : MiddlePorts])
      /\ \A i \in 1..Len(mResubmit[src]) : mResubmit[src][i].port \in RackPorts[src]
  BY DEF NetInv, MiddleTypeOK, MiddleLead, AllHosts
<1>2. r = mResubmit[src][1] /\ 1 \in 1..Len(mResubmit[src])
  BY <1>1
<1>3. r.port \in RackPorts[src] /\ r.port \in MiddlePorts
  BY <1>1, <1>2, CaverNetAssumption DEF AllHosts
<1> HIDE DEF r
<1>4. restarted \/ Middle!Has("inPort2caverPort")
  BY LoadedHas DEF NetInv
<1>5. Middle!Before(r, ce) \in MiddleEntries
  BY <1>3, CaverNetAssumption DEF Middle!Before, MiddleEntries
<1>6. Middle!Before(r, ce).port \in Leads(src)
  BY <1>3, <1>4 DEF Middle!Before, Leads
<1>7. QED
  BY <1>5, <1>6 DEF r

\* All that a second pass writes leads where the tables and the
\* acknowledgement led before, and so does what it tells ToR A.
LEMMA MiddleAckSecondKeeps ==
  ASSUME NetInv, NEW src \in Remote, NEW dst \in Local, NEW ce \in MiddleCEs,
         NEW member \in RackPorts[dst], MiddleAckSecond(src, dst, ce, member)
  PROVE  NetInv'
<1> DEFINE r      == Head(mResubmit[src])
           before == Middle!Before(r, ce)
           after  == Middle!AfterBest(mBest[src], [r EXCEPT !.port = before.port], before)
           b      == IF Middle!Has("BestTable") THEN after ELSE mBest[src]
           g      == IF Middle!Has("GoodTable") THEN Middle!NewPath(after, before)
                     ELSE mGood[src]
           hd     == [best |-> IF Middle!Has("BestTable") THEN after ELSE Middle!Zero,
                      good |-> IF Middle!Has("GoodTable") THEN mGood[src] ELSE Middle!Zero]
           Fine(e) == e \in MiddleEntries /\ e.port \in Leads(src)
           ack    == [src |-> src, dst |-> dst, uplink |-> Cable[member],
                      report |-> Report(hd), at |-> "acked"]
<1>1. /\ mResubmit[src] # <<>>
      /\ mBest' = IF Middle!Has("BestTable") THEN [mBest EXCEPT ![src] = after] ELSE mBest
      /\ mGood' = IF Middle!Has("GoodTable")
                  THEN [mGood EXCEPT ![src] = Middle!NewPath(after, before)] ELSE mGood
      /\ mHeader' = [mHeader EXCEPT ![src] = hd]
      /\ mResubmit' = [mResubmit EXCEPT ![src] = Tail(@)]
      /\ loaded' = loaded
      /\ UNCHANGED <<torVars, delivered, restarted>>
      /\ Exchange({}, {[src |-> src, dst |-> dst, uplink |-> Cable[member],
                        report |-> Report(mHeader'[src]), at |-> "acked"]})
  BY DEF MiddleAckSecond, Middle!StartAckSecond
<1>2. src \in AllHosts /\ member \in RackAPorts /\ member \in MiddlePorts
  BY CaverNetAssumption DEF AllHosts
<1>3. Fine(before)
  BY <1>1, MiddleBefore
<1>4. Fine(mBest[src]) /\ Fine(mGood[src])
  BY <1>2 DEF NetInv, MiddleTypeOK, MiddleLead
<1>5. after \in {mBest[src], before} /\ Middle!NewPath(after, before) \in {after, before}
  BY DEF Middle!AfterBest, Middle!NewPath
<1>6. Fine(hd.best) /\ Fine(hd.good)
  <2>1. CASE restarted
    <3>1. Fine(Middle!Zero)
      BY <2>1, CaverNetAssumption DEF Middle!Zero, MiddleEntries, Leads
    <3>2. QED
      BY <1>3, <1>4, <1>5, <3>1
  <2>2. CASE ~restarted
    BY <1>3, <1>4, <1>5, <2>2, LoadedHas DEF NetInv
  <2>3. QED
    BY <2>1, <2>2
<1>7. Fine(b) /\ Fine(g)
  BY <1>3, <1>4, <1>5
<1>8. /\ mBest' = [mBest EXCEPT ![src] = b]
      /\ mGood' = [mGood EXCEPT ![src] = g]
  BY <1>1, <1>2 DEF NetInv, MiddleTypeOK
<1> HIDE DEF r, before, after, b, g
<1>9. \A h : Leads(h)' = Leads(h)
  BY <1>1 DEF Leads
<1>10. /\ mResubmit[src] \in Seq([port : MiddlePorts, best_port : MiddlePorts])
       /\ \A i \in 1..Len(mResubmit[src]) : mResubmit[src][i].port \in RackPorts[src]
  BY <1>2 DEF NetInv, MiddleTypeOK, MiddleLead
<1>11. /\ Tail(mResubmit[src]) \in Seq([port : MiddlePorts, best_port : MiddlePorts])
       /\ \A i \in 1..Len(Tail(mResubmit[src])) :
            Tail(mResubmit[src])[i].port \in RackPorts[src]
  BY <1>1, <1>10
<1>12. hd \in [best : MiddleEntries, good : MiddleEntries]
  BY <1>6
<1>13. MiddleTypeOK'
  BY <1>1, <1>7, <1>8, <1>11, <1>12 DEF NetInv, MiddleTypeOK
<1>14. MiddleLead'
  <2>1. ASSUME NEW h \in Remote
        PROVE  /\ mBest'[h].port \in Leads(h) /\ mGood'[h].port \in Leads(h)
               /\ mHeader'[h].best.port \in Leads(h) /\ mHeader'[h].good.port \in Leads(h)
               /\ \A i \in 1..Len(mResubmit'[h]) : mResubmit'[h][i].port \in RackPorts[h]
    <3>1. CASE h = src
      <4>1. /\ mBest'[h] = b /\ mGood'[h] = g /\ mHeader'[h] = hd
            /\ mResubmit'[h] = Tail(mResubmit[src])
        BY <1>1, <1>2, <1>8, <3>1 DEF NetInv, MiddleTypeOK
      <4>2. QED
        BY <1>6, <1>7, <1>11, <3>1, <4>1
    <3>2. CASE h # src
      <4>1. /\ mBest'[h] = mBest[h] /\ mGood'[h] = mGood[h] /\ mHeader'[h] = mHeader[h]
            /\ mResubmit'[h] = mResubmit[h]
        BY <1>1, <1>8, <3>2 DEF NetInv, MiddleTypeOK, AllHosts
      <4>2. QED
        BY <4>1 DEF NetInv, MiddleLead
    <3>3. QED
      BY <3>1, <3>2
  <2>2. QED
    BY <1>9, <2>1 DEF MiddleLead
<1>15. MiddleLoaded'
  BY <1>1 DEF NetInv, MiddleLoaded, Middle!Order
<1>16. RegInv' /\ ReportedLead' /\ WaitingLead'
  BY <1>1, TorKept DEF NetInv, torVars
<1>17. mHeader'[src] = hd
  BY <1>1, <1>2 DEF NetInv, MiddleTypeOK
<1>18. \A x \in net : PacketOK(x)'
  BY <1>1, FlyingKept DEF NetInv
<1>19. /\ hd.best.CE \in CEs /\ hd.best.port \in MiddlePorts
       /\ hd.good.CE \in CEs /\ hd.good.port \in MiddlePorts
  BY <1>6 DEF MiddleEntries
<1>20. hd.best.port \in Leads(src) /\ hd.good.port \in Leads(src)
  BY <1>6
<1> HIDE DEF hd
<1>. PICK p : p = ack
  OBVIOUS
<1>21. /\ p.src = src /\ p.dst = dst /\ p.uplink = Cable[member] /\ p.at = "acked"
       /\ p.report = [best_port |-> hd.best.port, best_CE |-> hd.best.CE,
                      good_port |-> hd.good.port, good_CE |-> hd.good.CE]
  BY DEF Report
<1>22. Exchange({}, {p})
  BY <1>1, <1>17
<1>23. Cable[member] \in Uplinks
  BY <1>2, CaverNetAssumption
<1>24. AckOK(p)'
  <2>1. Leads(p.src)' = Leads(src)
    BY <1>9, <1>21
  <2>2. QED
    BY <1>19, <1>20, <1>21, <1>23, <2>1 DEF AckOK
<1>25. PacketOK(p)'
  BY <1>21, <1>24 DEF PacketOK
<1>26. Cardinality(net') <= MaxNet /\ PacketsOK'
  BY <1>18, <1>22, <1>25, SendKeeps
<1>27. QED
  BY <1>1, <1>13, <1>14, <1>15, <1>16, <1>26 DEF NetInv, DeliveredOK

-----------------------------------------------------------------------------
(* A restart of the switch in the middle, and the calls that follow it.    *)

LEMMA RestartKeeps ==
  ASSUME NetInv, Restart
  PROVE  NetInv'
<1>1. /\ restarted' = TRUE
      /\ mBest' = [h \in AllHosts |-> Middle!Zero]
      /\ mGood' = [h \in AllHosts |-> Middle!Zero]
      /\ mResubmit' = [h \in AllHosts |-> <<>>]
      /\ mHeader' = mHeader
      /\ UNCHANGED <<torVars, net, delivered>>
  BY DEF Restart, Middle!Restart
<1>2. RegInv' /\ ReportedLead' /\ WaitingLead'
  BY <1>1, TorKept DEF NetInv, torVars
<1>3. \A h : Leads(h) \subseteq Leads(h)' /\ 0 \in Leads(h)'
  BY <1>1, LeadsGrow DEF NetInv, Leads
<1>4. Middle!Zero \in MiddleEntries /\ Middle!Zero.port = 0
  BY CaverNetAssumption DEF Middle!Zero, MiddleEntries
<1>5. MiddleTypeOK'
  BY <1>1, <1>4 DEF NetInv, MiddleTypeOK
<1>6. MiddleLead'
  <2>1. \A h \in Remote : mResubmit'[h] = <<>>
    BY <1>1 DEF AllHosts
  <2>2. QED
    BY <1>1, <1>3, <1>4, <2>1 DEF NetInv, MiddleLead, AllHosts
<1>7. MiddleLoaded'
  BY <1>1 DEF MiddleLoaded
<1>8. PacketsOK'
  BY <1>1, FlyingKept DEF NetInv, PacketsOK
<1>9. QED
  BY <1>1, <1>2, <1>5, <1>6, <1>7, <1>8 DEF NetInv, DeliveredOK

LEMMA LoadKeeps ==
  ASSUME NetInv, Load
  PROVE  NetInv'
<1>1. /\ loaded < Len(Middle!Order)
      /\ mBest' \in {mBest, [h \in AllHosts |-> Middle!InitEntry(h)]}
      /\ mGood' \in {mGood, [h \in AllHosts |-> Middle!InitEntry(h)]}
      /\ UNCHANGED <<mResubmit, mHeader>>
      /\ UNCHANGED <<torVars, net, delivered, restarted>>
  BY DEF Load, Middle!Load
<1>2. restarted
  BY <1>1, OrderEntries DEF NetInv, MiddleLoaded
<1>3. RegInv' /\ ReportedLead' /\ WaitingLead'
  BY <1>1, TorKept DEF NetInv, torVars
<1>4. \A h : Leads(h)' = Leads(h)
  BY <1>1 DEF Leads
<1>5. \A h \in AllHosts : /\ Middle!InitEntry(h) \in MiddleEntries
                          /\ Middle!InitEntry(h).port \in Leads(h)
  BY CaverNetAssumption DEF Middle!InitEntry, MiddleEntries, Leads
<1>6. MiddleTypeOK'
  BY <1>1, <1>5 DEF NetInv, MiddleTypeOK
<1>7. \A h \in Remote : mBest'[h].port \in Leads(h) /\ mGood'[h].port \in Leads(h)
  BY <1>1, <1>5 DEF NetInv, MiddleLead, AllHosts
<1>8. MiddleLead'
  BY <1>1, <1>4, <1>7 DEF NetInv, MiddleLead
<1>9. MiddleLoaded'
  BY <1>1, <1>2 DEF MiddleLoaded
<1>10. PacketsOK'
  BY <1>1, FlyingKept DEF NetInv, PacketsOK
<1>11. QED
  BY <1>1, <1>3, <1>6, <1>8, <1>9, <1>10 DEF NetInv, DeliveredOK

-----------------------------------------------------------------------------
(* Acknowledgements at ToR A.                                              *)

\* What comes in from the middle is what the pipeline lets in.
LEMMA TorAckFirstStep ==
  ASSUME NetInv, NEW p \in net, TorAckFirst(p)
  PROVE  /\ p.src \in Remote /\ p.dst \in Local /\ p.uplink \in Uplinks
         /\ p.report.best_port \in Leads(p.src) /\ p.report.good_port \in Leads(p.src)
         /\ p.report \in Reports
         /\ \E ce \in CEs : CaverAckFirst(p.src, p.dst, DpPort[p.uplink], ce, p.report)
<1>1. AckOK(p)
  BY DEF TorAckFirst, NetInv, PacketsOK, PacketOK
<1>2. \A ce \in TorCEs[p.uplink] : ce \in CEs
  BY <1>1, CaverNetAssumption DEF AckOK
<1>3. p.report \in Reports
  BY <1>1, CaverNetAssumption DEF AckOK
<1>4. QED
  BY <1>1, <1>2, <1>3 DEF AckOK, TorAckFirst

LEMMA TorAckFirstKeeps ==
  ASSUME NetInv, NEW p \in net, TorAckFirst(p)
  PROVE  NetInv' /\ TorNext
<1>1. /\ p.src \in Remote /\ p.dst \in Local /\ p.uplink \in Uplinks
      /\ p.report.best_port \in Leads(p.src) /\ p.report.good_port \in Leads(p.src)
      /\ p.report \in Reports
  BY TorAckFirstStep
<1>2. PICK ce \in CEs : CaverAckFirst(p.src, p.dst, DpPort[p.uplink], ce, p.report)
  BY TorAckFirstStep
<1>3. TorNext
  BY <1>1, <1>2 DEF TorNext
<1>4. RegInv' /\ reported' = reported
  <2>1. Table!BestTypeOK'
    BY <1>3, TableTypeStep DEF NetInv, RegInv
  <2>2. QED
    BY <1>1, <1>2, <2>1, FirstPassKeeps DEF NetInv
<1>5. Exchange({p}, {}) /\ UNCHANGED <<middleVars, delivered, restarted>>
  BY DEF TorAckFirst
<1>6. \A h : Leads(h)' = Leads(h)
  BY <1>5 DEF Leads
<1>7. ReportedLead'
  BY <1>4, <1>6 DEF NetInv, ReportedLead
<1> DEFINE r == [port |-> InPort2caverPort(DpPort[p.uplink]), CE |-> ce,
                 best_port |-> best[p.src].hop0, report |-> p.report]
<1>8. resubmit' = [resubmit EXCEPT ![p.src] = Append(@, r)]
  BY <1>2 DEF CaverAckFirst, Table!AckFirst, TableIp
<1>9. r.report = p.report
  OBVIOUS
<1> HIDE DEF r
<1>10. WaitingLead'
  <2>1. ASSUME NEW h \in Remote, NEW i \in 1..Len(resubmit'[h])
        PROVE  /\ resubmit'[h][i].report.best_port \in Leads(h)
               /\ resubmit'[h][i].report.good_port \in Leads(h)
    <3>1. /\ resubmit \in [Remote -> Seq(Table!Acks)]
          /\ \A j \in 1..Len(resubmit[h]) :
               /\ resubmit[h][j].report.best_port \in Leads(h)
               /\ resubmit[h][j].report.good_port \in Leads(h)
      BY DEF NetInv, RegInv, Table!BestTypeOK, WaitingLead
    <3>2. CASE h = p.src
      <4>1. resubmit'[h] = Append(resubmit[h], r) /\ resubmit[h] \in Seq(Table!Acks)
        BY <1>8, <3>1, <3>2
      <4>2. CASE i = Len(resubmit[h]) + 1
        <5>1. resubmit'[h][i] = r
          BY <4>1, <4>2
        <5>2. QED
          BY <1>1, <1>9, <3>2, <5>1
      <4>3. CASE i # Len(resubmit[h]) + 1
        <5>1. i \in 1..Len(resubmit[h]) /\ resubmit'[h][i] = resubmit[h][i]
          BY <2>1, <4>1, <4>3
        <5>2. QED
          BY <3>1, <5>1
      <4>4. QED
        BY <4>2, <4>3
    <3>3. CASE h # p.src
      <4>1. resubmit'[h] = resubmit[h]
        BY <1>8, <3>1, <3>3
      <4>2. QED
        BY <2>1, <3>1, <4>1
    <3>4. QED
      BY <3>2, <3>3
  <2>2. QED
    BY <1>6, <2>1 DEF WaitingLead
<1>11. MiddleTypeOK' /\ MiddleLead' /\ MiddleLoaded'
  BY <1>5, MiddleKept DEF NetInv, middleVars
<1>12. Cardinality(net') <= MaxNet /\ PacketsOK'
  BY <1>5, FlyingKept, DropKeeps DEF NetInv
<1>13. QED
  BY <1>3, <1>4, <1>5, <1>7, <1>10, <1>11, <1>12 DEF NetInv, DeliveredOK

\* A path reported now leads where the report does.
LEMMA TorAckSecondKeeps ==
  ASSUME NetInv, NEW src \in Remote, NEW dst \in Local, NEW port \in DpPorts,
         TorAckSecond(src, dst, port)
  PROVE  NetInv'
<1> DEFINE r == Head(resubmit[src])
<1>1. /\ CaverAckSecond(src, dst, port)
      /\ UNCHANGED <<middleVars, net, delivered, restarted>>
  BY DEF TorAckSecond
<1>2. RegInv'
  <2>1. TorNext
    BY <1>1 DEF TorNext
  <2>2. Table!BestTypeOK'
    BY <2>1, TableTypeStep DEF NetInv, RegInv
  <2>3. QED
    BY <1>1, <2>2, SecondPassKeeps DEF NetInv
<1>3. /\ resubmit[src] # <<>>
      /\ resubmit' = [resubmit EXCEPT ![src] = Tail(@)]
      /\ reported' = [reported EXCEPT ![src] = reported[src] \cup
           {PathOf(Table!BeforeBest(r)), PathOf(Table!BeforeGood(r))}]
  BY <1>1 DEF CaverAckSecond, TableIp, Table!AckSecond
<1>4. \A h : Leads(h)' = Leads(h)
  BY <1>1 DEF Leads
<1>5. /\ resubmit \in [Remote -> Seq(Table!Acks)]
      /\ \A h \in Remote : \A i \in 1..Len(resubmit[h]) :
           /\ resubmit[h][i].report.best_port \in Leads(h)
           /\ resubmit[h][i].report.good_port \in Leads(h)
  BY DEF NetInv, RegInv, Table!BestTypeOK, WaitingLead
<1>6. r.report.best_port \in Leads(src) /\ r.report.good_port \in Leads(src)
  <2>1. r = resubmit[src][1] /\ 1 \in 1..Len(resubmit[src])
    BY <1>3, <1>5
  <2>2. QED
    BY <1>5, <2>1
<1>7. /\ PathOf(Table!BeforeBest(r)).hop1 = r.report.best_port
      /\ PathOf(Table!BeforeGood(r)).hop1 = r.report.good_port
  BY DEF PathOf, Table!BeforeBest, Table!BeforeGood
<1> HIDE DEF r
<1>8. ReportedLead'
  <2>1. ASSUME NEW h \in Remote, NEW q \in reported'[h] PROVE q.hop1 \in Leads(h)
    <3>1. reported \in [Remote -> SUBSET Paths] /\ \A x \in reported[h] : x.hop1 \in Leads(h)
      BY DEF NetInv, RegInv, ReportedLead
    <3>2. QED
      BY <1>3, <1>6, <1>7, <2>1, <3>1
  <2>2. QED
    BY <1>4, <2>1 DEF ReportedLead
<1>9. WaitingLead'
  <2>1. ASSUME NEW h \in Remote, NEW i \in 1..Len(resubmit'[h])
        PROVE  /\ resubmit'[h][i].report.best_port \in Leads(h)
               /\ resubmit'[h][i].report.good_port \in Leads(h)
    <3>1. CASE h = src
      <4> DEFINE s == resubmit[src]
      <4>1. resubmit'[h] = Tail(s) /\ s \in Seq(Table!Acks) /\ s # <<>>
        BY <1>3, <1>5, <3>1
      <4> HIDE DEF s
      <4>2. i \in 1..Len(Tail(s))
        BY <2>1, <4>1
      <4>3. i + 1 \in 1..Len(s) /\ Tail(s)[i] = s[i + 1]
        BY <4>1, <4>2
      <4>4. QED
        BY <1>5, <3>1, <4>1, <4>3 DEF s
    <3>2. CASE h # src
      <4>1. resubmit'[h] = resubmit[h]
        BY <1>3, <1>5, <3>2
      <4>2. QED
        BY <1>5, <2>1, <4>1
    <3>3. QED
      BY <3>1, <3>2
  <2>2. QED
    BY <1>4, <2>1 DEF WaitingLead
<1>10. MiddleTypeOK' /\ MiddleLead' /\ MiddleLoaded'
  BY <1>1, MiddleKept DEF NetInv, middleVars
<1>11. Cardinality(net') <= MaxNet /\ PacketsOK'
  BY <1>1, FlyingKept DEF NetInv, PacketsOK
<1>12. QED
  BY <1>1, <1>2, <1>8, <1>9, <1>10, <1>11 DEF NetInv, DeliveredOK

-----------------------------------------------------------------------------
(* Every step.                                                             *)

LEMMA NetStutter == NetInv /\ UNCHANGED netVars => NetInv'
<1>1. SUFFICES ASSUME NetInv, UNCHANGED netVars PROVE NetInv'
  OBVIOUS
<1>2. UNCHANGED <<torVars, middleVars, net, delivered, restarted>>
  BY <1>1 DEF netVars
<1>3. RegInv' /\ ReportedLead' /\ WaitingLead'
  BY <1>1, <1>2, TorKept DEF NetInv, torVars
<1>4. MiddleTypeOK' /\ MiddleLead' /\ MiddleLoaded'
  BY <1>1, <1>2, MiddleKept DEF NetInv, middleVars
<1>5. PacketsOK'
  BY <1>1, <1>2, FlyingKept DEF NetInv, PacketsOK
<1>6. QED
  BY <1>1, <1>2, <1>3, <1>4, <1>5 DEF NetInv, DeliveredOK

LEMMA NetInvStep == NetInv /\ [NetNext]_netVars => NetInv'
<1>1. SUFFICES ASSUME NetInv, NetNext PROVE NetInv'
  BY NetStutter
<1>2. ASSUME NEW src \in Local, NEW dst \in AllHosts, NEW rest \in Rests,
             NEW new_flow \in {0, 1}, NEW port \in DpPorts,
             SendData(src, dst, rest, new_flow, port)
      PROVE  NetInv'
  BY <1>1, <1>2, SendDataKeeps
<1>3. ASSUME NEW p \in net, NEW member \in MiddlePorts, MiddleData(p, member)
      PROVE  NetInv'
  BY <1>1, <1>3, MiddleDataKeeps
<1>4. ASSUME NEW p \in net, NEW port \in DpPorts, TorData(p, port) PROVE NetInv'
  BY <1>1, <1>4, TorDataKeeps
<1>5. ASSUME NEW p \in net, FarData(p) \/ TorAckFirst(p) \/ Lose(p) PROVE NetInv'
  BY <1>1, <1>5, FarDataKeeps, TorAckFirstKeeps, LoseKeeps
<1>6. ASSUME NEW src \in Remote, NEW p \in RackPorts[src], MiddleAckFirst(src, p)
      PROVE  NetInv'
  BY <1>1, <1>6, MiddleAckFirstKeeps
<1>7. ASSUME NEW src \in Remote, NEW dst \in Local, NEW ce \in MiddleCEs,
             NEW member \in RackPorts[dst], MiddleAckSecond(src, dst, ce, member)
      PROVE  NetInv'
  BY <1>1, <1>7, MiddleAckSecondKeeps
<1>8. ASSUME NEW src \in Remote, NEW dst \in Local, NEW port \in DpPorts,
             TorAckSecond(src, dst, port)
      PROVE  NetInv'
  BY <1>1, <1>8, TorAckSecondKeeps
<1>9. QED
  BY <1>1, <1>2, <1>3, <1>4, <1>5, <1>6, <1>7, <1>8, RestartKeeps, LoadKeeps DEF NetNext

LEMMA NetInvAlways == NetSpec => []NetInv
  BY NetInvInit, NetInvStep, PTL DEF NetSpec

-----------------------------------------------------------------------------
(* What the invariant says.                                                *)

\* What is between the switches has its shape, and fits.
THEOREM NetTypeCorrect == NetSpec => []NetTypeOK
<1>1. NetInv => NetTypeOK
  <2>1. SUFFICES ASSUME NetInv PROVE NetTypeOK
    OBVIOUS
  <2>2. ASSUME NEW p \in net, p.at # "acked"
        PROVE  /\ p.type \in {"DATA", "CAVER_DATA"} /\ p.dst \in Remote /\ p.passes \in 0..3
               /\ p.src_route = 1 => p.type = "CAVER_DATA" /\ p.out_port \in MiddlePorts
    <3>1. DataOK(p)
      BY <2>1, <2>2 DEF NetInv, PacketsOK, PacketOK
    <3>2. Leads(p.dst) \subseteq MiddlePorts
      BY <3>1, LeadsPorts DEF DataOK, AllHosts
    <3>3. p.src_route = 1 => p.type = "CAVER_DATA" /\ p.out_port \in MiddlePorts
      BY <3>1, <3>2 DEF DataOK
    <3>4. p.passes \in {0, 1, 2} /\ p.type \in {"DATA", "CAVER_DATA"} /\ p.dst \in Remote
      BY <3>1 DEF DataOK
    <3>5. QED
      BY <3>3, <3>4
  <2>3. delivered \in [header : BOOLEAN, passes : 0..3]
    BY <2>1 DEF NetInv, DeliveredOK
  <2>4. QED
    BY <2>1, <2>2, <2>3 DEF NetInv, NetTypeOK
<1>2. QED
  BY <1>1, NetInvAlways, PTL

\* ToR A routes by ports of the next switch that lead to the rack of the
\* destination, however long ago it was told of them and whatever was lost or
\* overtaken; a restart of that switch adds only port 0.
THEOREM PathsAlwaysLeadToRack == NetSpec => []PathsLeadToRack
<1>1. NetInv => PathsLeadToRack
  <2>1. SUFFICES ASSUME NetInv, NEW h \in Remote
                 PROVE  /\ best[h].hop1 \in Leads(h)
                        /\ \A i \in 1..Len(stack[h]) : stack[h][i].hop1 \in Leads(h)
                        /\ \A rest \in Rests : flow_method_reg[FlowId(rest, h)] = 1 =>
                             flow_path_reg[FlowId(rest, h)].hop1 \in Leads(h)
    BY DEF PathsLeadToRack, Leads
  <2>2. PathsReachTheirHost
    BY <2>1, RegInvMeans DEF NetInv
  <2>3. \A q \in reported[h] : q.hop1 \in Leads(h)
    BY <2>1 DEF NetInv, ReportedLead
  <2>4. PathOf(best[h]) \in reported[h] /\ PathOf(best[h]).hop1 = best[h].hop1
    BY <2>1, <2>2 DEF PathsReachTheirHost, PathOf
  <2>5. h \in AllHosts
    BY DEF AllHosts
  <2>6. QED
    BY <2>1, <2>2, <2>3, <2>4, <2>5 DEF PathsReachTheirHost
<1>2. QED
  BY <1>1, NetInvAlways, PTL

\* No packet goes round in circles, for any number of ports, packets and
\* flows.
THEOREM AtMostOneDetour == NetSpec => []OneDetour
<1>1. NetInv => OneDetour
  <2>1. SUFFICES ASSUME NetInv, NEW p \in net, p.at # "acked"
                 PROVE  p.passes <= (IF restarted THEN 2 ELSE 1)
    BY DEF OneDetour
  <2>2. DataOK(p)
    BY <2>1 DEF NetInv, PacketsOK, PacketOK
  <2>3. CASE p.type = "CAVER_DATA"
    <3>1. p.passes \in {0, 1}
      BY <2>2, <2>3 DEF DataOK
    <3>2. QED
      BY <3>1
  <2>4. CASE p.type = "DATA"
    <3>1. p.passes \in {1, 2} /\ restarted
      BY <2>2, <2>4 DEF DataOK
    <3>2. QED
      BY <3>1
  <2>5. QED
    BY <2>2, <2>3, <2>4 DEF DataOK
<1>2. QED
  BY <1>1, NetInvAlways, PTL

\* A host is spared the header exactly if the packet crossed the fabric once.
THEOREM HeaderOffOnceAcross == NetSpec => HeaderOffOnlyOnWay
<1>1. NetInv' => (delivered'.header <=> delivered'.passes # 1)
  BY DEF NetInv, DeliveredOK
<1>2. QED
  BY <1>1, NetInvAlways, PTL DEF HeaderOffOnlyOnWay

\* ToR A is the ToR of CaverTor: nothing the fabric brings it, a restart of
\* the switch in the middle included, falls outside what that module lets in,
\* so that what is proved of one ToR is true of it here.
THEOREM NetImplementsTor == NetSpec => ImplementsTor
<1>1. NetInv /\ [NetNext]_netVars => [TorNext]_torVars
  <2>1. SUFFICES ASSUME NetInv, NetNext PROVE TorNext \/ UNCHANGED torVars
    BY DEF netVars
  <2>2. ASSUME NEW src \in Local, NEW dst \in AllHosts, NEW rest \in Rests,
               NEW new_flow \in {0, 1}, NEW port \in DpPorts,
               SendData(src, dst, rest, new_flow, port)
        PROVE  TorNext
    BY <2>2 DEF SendData, TorNext
  <2>3. ASSUME NEW p, NEW member, MiddleData(p, member) PROVE UNCHANGED torVars
    BY <2>3 DEF MiddleData
  <2>4. ASSUME NEW p \in net, NEW port \in DpPorts, TorData(p, port) PROVE TorNext
    <3>1. DataOK(p)
      BY <2>1, <2>4 DEF TorData, NetInv, PacketsOK, PacketOK
    <3>2. p.dst \in AllHosts
      BY <2>4, <3>1 DEF TorData, DataOK, AllHosts
    <3>3. CaverData(p.dst, port)
      BY <2>4 DEF TorData
    <3>4. port \in DpPorts
      BY <2>4
    <3>5. \E dst \in AllHosts, q \in DpPorts : CaverData(dst, q)
      BY <3>2, <3>3, <3>4
    <3>6. QED
      BY <3>5 DEF TorNext
  <2>5. ASSUME NEW p, FarData(p) \/ Lose(p) PROVE UNCHANGED torVars
    BY <2>5 DEF FarData, Lose
  <2>6. ASSUME NEW p \in net, TorAckFirst(p) PROVE TorNext
    BY <2>1, <2>6, TorAckFirstKeeps
  <2>7. ASSUME NEW src, NEW p, MiddleAckFirst(src, p) PROVE UNCHANGED torVars
    BY <2>7 DEF MiddleAckFirst
  <2>8. ASSUME NEW src, NEW dst, NEW ce, NEW member, MiddleAckSecond(src, dst, ce, member)
        PROVE  UNCHANGED torVars
    BY <2>8 DEF MiddleAckSecond
  <2>9. ASSUME NEW src \in Remote, NEW dst \in Local, NEW port \in DpPorts,
               TorAckSecond(src, dst, port)
        PROVE  TorNext
    BY <2>9 DEF TorAckSecond, TorNext
  <2>10. Restart \/ Load => UNCHANGED torVars
    BY DEF Restart, Load
  <2>11. QED
    BY <2>1, <2>2, <2>3, <2>4, <2>5, <2>6, <2>7, <2>8, <2>9, <2>10 DEF NetNext
<1>2. NetInit => TorInit
  BY DEF NetInit
<1>3. QED
  BY <1>1, <1>2, NetInvAlways, PTL DEF NetSpec, ImplementsTor, TorSpec

\* No table of ToR A mixes up hosts, and its registers keep their types,
\* restarts of the switch in the middle included: what they bring back to
\* ToR A leaves its registers alone.
THEOREM NetPathsReachTheirHost == NetSpec => [](TorTypeOK /\ PathsReachTheirHost)
<1>1. NetInv => TorTypeOK /\ PathsReachTheirHost
  BY RegInvMeans DEF NetInv
<1>2. QED
  BY <1>1, NetInvAlways, PTL
=============================================================================

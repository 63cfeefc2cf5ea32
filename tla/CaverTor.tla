------------------------------ MODULE CaverTor ------------------------------
(***************************************************************************)
(* The ingress pipeline of a CAVER ToR: what each type of packet does to   *)
(* the registers, to the CAVER header and to its own route.  It puts       *)
(* together                                                                *)
(*    BestTable  what acknowledgements report,                             *)
(*    PathStack  the paths put aside for new flows, which the registers of *)
(*               PathRing implement, and                                   *)
(*    FlowPath   the path every flow is kept on.                           *)
(* Whether a data packet starts a flow (FlowTable) and what the estimator  *)
(* of an uplink says (Dre) are inputs here.                                *)
(***************************************************************************)
EXTENDS Naturals, Sequences, Functions

CONSTANTS
  Local,        \* hosts of this rack
  Remote,       \* hosts behind the uplinks
  DownPort,     \* the CAVER port of a local host
  DpPort,       \* the switch's number of a CAVER port (caver_port_list)
  Uplinks,      \* CAVER ports that lead to the fabric
  Hops,         \* ports of the next switch
  CEs, Reports, InitBest, MaxInFlight,    \* as in BestTable
  Depth,        \* as in PathStack
  Crc8,         \* the hash of a destination: the low byte of a flow id
  Rests,        \* hashes of source and ports: the high byte
  ZeroPath,     \* the content of a cell nothing was written to
  NoPath,       \* no path: ECMP
  NoPort        \* the packet is dropped

Paths == [hop1 : Hops, hop0 : Uplinks]
DownPorts == {DownPort[h] : h \in Local}
CaverPorts == Uplinks \cup DownPorts
AllHosts == Local \cup Remote
FlowIds == [high : Rests, low : {Crc8[h] : h \in AllHosts}]

\* A port has one number of either kind, and no two of the eight addresses
\* have the same CRC-8 (header.p4:170: a collision keeps the destination).
ASSUME CaverTorAssumption ==
  /\ Local \cap Remote = {}
  /\ DownPorts \cap Uplinks = {}
  /\ DOMAIN DpPort = CaverPorts /\ IsInjective(DpPort)
  /\ DOMAIN Crc8 = AllHosts /\ IsInjective(Crc8)
  /\ NoPort \notin {DpPort[p] : p \in CaverPorts}

VARIABLES
  best, resubmit, pushed,            \* BestTable
  stack, answer,                     \* PathStack
  flow_method_reg, flow_path_reg,    \* FlowPath
  out,       \* the packet that left the pipeline last
  reported   \* history: the paths reported for a host, its initial one included

Table == INSTANCE BestTable WITH Hosts <- Remote, Ports <- Uplinks
Store == INSTANCE PathStack WITH Hosts <- Remote
Flows == INSTANCE FlowPath

\* What the parts assume of their constants.
ASSUME CaverTorParts ==
  /\ \A ce \in CEs : ce \in Nat /\ ce <= 54612
  /\ \A p \in Uplinks \cup Hops : p \in Nat /\ p <= 255
  /\ Reports \subseteq [best_port : Hops, best_CE : CEs, good_port : Hops, good_CE : CEs]
  /\ InitBest \in [Remote -> Table!Entries]
  /\ MaxInFlight \in Nat \ {0} /\ Depth \in Nat \ {0}
  /\ NoPath \notin Paths \cup {ZeroPath}

tableVars == <<best, resubmit, pushed>>
storeVars == <<stack, answer>>
flowVars  == <<flow_method_reg, flow_path_reg>>
torVars   == <<tableVars, storeVars, flowVars, out, reported>>

-----------------------------------------------------------------------------
\* The 16-bit path of an entry.
PathOf(e) == [hop1 |-> e.hop1, hop0 |-> e.hop0]

\* The tables that translate between CAVER ports and those of the switch.
InPort2caverPort(dp) == CHOOSE p \in CaverPorts : DpPort[p] = dp
CaverPort2switchPort(p) == DpPort[p]

\* ig_md.table_ip: the tables are looked up by the host the packet goes to,
\* for an acknowledgement by the host it comes from.
TableIp(type, src, dst) == IF type \in {"DATA", "CAVER_DATA"} THEN dst ELSE src

\* Mutant: the low byte is a hash of what all flows share.
FlowIdShared(rest, dst) == [high |-> rest, low |-> Crc8[CHOOSE h \in AllHosts : TRUE]]

\* get_flow_id.
FlowId(rest, dst) == [high |-> rest, low |-> Crc8[dst]]

\* Mutant: the ports of the rack are members of every group.
EcmpPortsAll(dst) == {DpPort[p] : p \in CaverPorts}

\* The group of a destination: the port of a local host, all uplinks for
\* another rack.
Group(dst) == IF dst \in Local THEN {DownPort[dst]} ELSE Uplinks

\* What ipv4_lpm chooses from: the ports of the switch of its members.
EcmpPorts(dst) == {DpPort[p] : p \in Group(dst)}

\* Mutants: data from the fabric keeps the header; data of the rack gets none.
HeaderProcessKeeps(type) ==
  CASE type \in {"DATA", "CAVER_DATA"} -> "CAVER_DATA"
    [] type = "ACK" -> "CAVER_ACK"
    [] type = "CAVER_ACK_SECOND" -> "ACK"
HeaderProcessNone(type) ==
  CASE type \in {"DATA", "CAVER_DATA"} -> "DATA"
    [] type = "ACK" -> "CAVER_ACK"
    [] type = "CAVER_ACK_SECOND" -> "ACK"

\* header_process: the fabric is given the header, the rack is spared it.
HeaderProcess(type) ==
  CASE type = "DATA" -> "CAVER_DATA"
    [] type = "ACK" -> "CAVER_ACK"
    [] type = "CAVER_DATA" -> "DATA"
    [] type = "CAVER_ACK_SECOND" -> "ACK"

\* What leaves the pipeline: its type with the header it has then, and where;
\* was is the type it came in with.
Packet(type, dst, src_route, out_port, port) ==
  [was |-> type, type |-> HeaderProcess(type), dst |-> dst, src_route |-> src_route,
   out_port |-> out_port, port |-> port]

TorInit ==
  /\ Table!BestInit
  /\ Store!StackInit
  /\ Flows!FlowPathInit
  /\ \E h \in Local : out = Packet("CAVER_ACK_SECOND", h, 0, 0, DpPort[DownPort[h]])
  /\ reported = [h \in Remote |-> {PathOf(InitBest[h])}]

\* stack_count_table .. path_table for a data packet: the first packet of a
\* flow takes a path; nothing was ever pushed for a local host.
TakePath(new_flow, dst) ==
  IF new_flow = 1 /\ dst \in Remote
  THEN Store!Take(dst) \/ Store!Miss(dst)
  ELSE UNCHANGED storeVars

Offer(new_flow, dst) ==
  IF new_flow = 1 /\ dst \in Remote /\ stack[dst] # <<>> THEN stack[dst][1] ELSE NoPath

\* A data packet from a host src of the rack.  A source-routed one leaves by
\* the first hop of its path, another by ipv4_lpm; in_coming_data adds the
\* header, whatever the destination.
RawData(src, dst, rest, new_flow, port) ==
  LET host  == TableIp("DATA", src, dst)
      f     == FlowId(rest, dst)
      offer == Offer(new_flow, host)
      path  == Flows!Route(f, new_flow, offer)
  IN  /\ TakePath(new_flow, host)
      /\ Flows!FlowStage(f, new_flow, offer)
      /\ \/ /\ path # NoPath
            /\ port = CaverPort2switchPort(path.hop0)
            /\ out' = Packet("DATA", dst, 1, path.hop1, port)
         \/ /\ path = NoPath
            /\ port \in EcmpPorts(dst)
            /\ out' = Packet("DATA", dst, 0, 0, port)
      /\ UNCHANGED <<tableVars, reported>>

\* A packet that only changes its header on its way: a data packet from the
\* fabric, which may be one for another rack that was sent the wrong way, and
\* an acknowledgement of a host of the rack (which gets a header with nothing
\* to report).
Forward(type, dst, port) ==
  /\ port \in EcmpPorts(dst)
  /\ out' = Packet(type, dst, 0, 0, port)
  /\ UNCHANGED <<tableVars, storeVars, flowVars, reported>>

CaverData(dst, port) == Forward("CAVER_DATA", dst, port)
RawAck(dst, port) == Forward("ACK", dst, port)

\* What is not RoCE: no table has an entry for it, and ipv4_lpm drops it.
OtherPacket(dst) ==
  /\ out' = [was |-> "Other", type |-> "Other", dst |-> dst,
             src_route |-> 0, out_port |-> 0, port |-> NoPort]
  /\ UNCHANGED <<tableVars, storeVars, flowVars, reported>>

\* First pass of an acknowledgement of the remote host src that came in by
\* the switch's port dp: it only reads, and ipv4_lpm resubmits it.
CaverAckFirst(src, dst, dp, ce, report) ==
  /\ Table!AckFirst(TableIp("CAVER_ACK_FIRST", src, dst), InPort2caverPort(dp), ce, report)
  /\ UNCHANGED <<storeVars, flowVars, out, reported>>

\* Mutant: what is pushed is the register word, congestion included.
CaverAckSecondWord(src, dst, port) ==
  /\ Table!AckSecond(src)
  /\ LET r == Head(resubmit[src])
     IN  /\ Store!Push(src, Table!NewPath(Table!AfterBest(best[src], r), r))
         /\ reported' = [reported EXCEPT ![src] =
              @ \cup {PathOf(Table!BeforeBest(r)), PathOf(Table!BeforeGood(r))}]
  /\ port \in EcmpPorts(dst)
  /\ out' = Packet("CAVER_ACK_SECOND", dst, 0, 0, port)
  /\ UNCHANGED flowVars

\* Second pass: BestTable, the push of the path it selects, and out to the
\* local host dst without the header.
CaverAckSecond(src, dst, port) ==
  LET host == TableIp("CAVER_ACK_SECOND", src, dst)
      r    == Head(resubmit[host])
  IN  /\ Table!AckSecond(host)
      /\ Store!Push(host, PathOf(Table!NewPath(Table!AfterBest(best[host], r), r)))
      /\ reported' = [reported EXCEPT ![src] =
           @ \cup {PathOf(Table!BeforeBest(r)), PathOf(Table!BeforeGood(r))}]
      /\ port \in EcmpPorts(dst)
      /\ out' = Packet("CAVER_ACK_SECOND", dst, 0, 0, port)
      /\ UNCHANGED flowVars

DpPorts == {DpPort[p] : p \in CaverPorts}

\* Data has a header from the other side of the fabric, for any destination:
\* a path of zeros may bring it back.  Acknowledgements are never
\* source-routed and come to the rack of their destination.
TorNext ==
  \/ \E src \in Local, dst \in AllHosts, rest \in Rests, new_flow \in {0, 1}, port \in DpPorts :
       RawData(src, dst, rest, new_flow, port)
  \/ \E dst \in AllHosts, port \in DpPorts : CaverData(dst, port) \/ RawAck(dst, port)
  \/ \E dst \in AllHosts : OtherPacket(dst)
  \/ \E src \in Remote, dst \in Local, p \in Uplinks, ce \in CEs, report \in Reports :
       CaverAckFirst(src, dst, DpPort[p], ce, report)
  \/ \E src \in Remote, dst \in Local, port \in DpPorts : CaverAckSecond(src, dst, port)

TorSpec == TorInit /\ [][TorNext]_torVars

-----------------------------------------------------------------------------
(* Properties.                                                             *)

\* The parts keep their types.
TorTypeOK ==
  /\ Table!BestTypeOK
  /\ stack \in [Remote -> Seq(Paths)]
  /\ \A h \in Remote : Len(stack[h]) <= Depth
  /\ Flows!FlowPathTypeOK
  /\ reported \in [Remote -> SUBSET Paths]

\* Wherever a path is kept - in the best table, in the path table, with a
\* flow - it was reported by acknowledgements of the host it is kept for.
\* The three are indexed by source address, by destination address and by a
\* hash of addresses; a packet is never sent by a path to somewhere else.
PathsReachTheirHost ==
  /\ \A h \in Remote :
       /\ PathOf(best[h]) \in reported[h]
       /\ \A i \in 1..Len(stack[h]) : stack[h][i] \in reported[h]
  /\ \A h \in AllHosts, rest \in Rests : flow_method_reg[FlowId(rest, h)] = 1 =>
       h \in Remote /\ flow_path_reg[FlowId(rest, h)] \in reported[h]

\* A packet for another rack leaves by an uplink.  One of a host of this rack
\* has the header that the next switch needs; one that had a header already
\* loses it, and is not source-routed a second time.  A source route is one
\* the next switch can tell, to a next hop that was reported together with the
\* uplink taken.
RemoteLeavesWithHeader ==
  [][out'.dst \in Remote /\ out'.port # NoPort =>
       /\ out'.port \in {DpPort[p] : p \in Uplinks}
       /\ out'.type \in {"CAVER_DATA", "CAVER_ACK"} <=> out'.was # "CAVER_DATA"
       /\ out'.src_route = 1 =>
            /\ out'.type = "CAVER_DATA"
            /\ [hop1 |-> out'.out_port, hop0 |-> InPort2caverPort(out'.port)]
                 \in reported[out'.dst]]_torVars
=============================================================================

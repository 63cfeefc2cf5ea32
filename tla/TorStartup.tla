----------------------------- MODULE TorStartup -----------------------------
(***************************************************************************)
(* The control plane of a CAVER ToR fills the tables one call after the    *)
(* other, and the ports are up before the first of them: packets meet      *)
(* tables that are still empty, whose default action they get, and         *)
(* registers that are still zero.  An acknowledgement may even meet one    *)
(* set of tables in its first pass and another one in its second.          *)
(*                                                                         *)
(* One pipe; main makes each call for both pipes before the next one.  The *)
(* pieces of the registers that the order of the calls bears on are those  *)
(* of BestTable, PathStack and FlowPath, with one flow to every host.      *)
(***************************************************************************)
EXTENDS Naturals, Sequences

CONSTANTS
  Hosts,        \* remote hosts
  Uplinks,      \* CAVER ports that lead to the fabric
  Hops,         \* ports of the next switch
  CEs, Reports, InitBest, MaxInFlight,    \* as in BestTable
  Depth,        \* as in PathStack
  NoPath        \* no path: ECMP

ASSUME TorStartupAssumption ==
  /\ 0 \in CEs
  /\ Reports \subseteq [best_port : Hops, best_CE : CEs, good_port : Hops, good_CE : CEs]
  /\ InitBest \in [Hosts -> [CE : CEs, hop1 : Hops, hop0 : Uplinks]]
  /\ MaxInFlight \in Nat \ {0} /\ Depth \in Nat \ {0}

VARIABLES
  loaded,            \* how many calls of main have returned
  best, resubmit,    \* BestTable; an acknowledgement says since which call
  stack, answer,     \* PathStack
  flow_method_reg, flow_path_reg,    \* FlowPath
  out                \* the packet that left for another rack last

startupVars ==
  <<loaded, best, resubmit, stack, answer, flow_method_reg, flow_path_reg, out>>

\* The register word of zeros that a switch starts with.
Zero == [CE |-> 0, hop1 |-> 0, hop0 |-> 0]
PathOf(e) == [hop1 |-> e.hop1, hop0 |-> e.hop0]
Paths == [hop1 : Hops \cup {0}, hop0 : Uplinks \cup {0}]

\* BestTable is used for its operators, its history is not kept.
Table == INSTANCE BestTable WITH
  Ports <- Uplinks, pushed <- <<>>
Store == INSTANCE PathStack
Flows == INSTANCE FlowPath WITH FlowIds <- Hosts, ZeroPath <- PathOf(Zero)

-----------------------------------------------------------------------------
\* Mutants: BestTable_reg is filled along with its table; header_process is
\* filled last of the tables.
OrderInitEarly ==
  <<"inPort2caverPort", "flow_id_table", "flow_time_table", "BestTable", "BestTable_reg",
    "judge_acceptable_table", "set_acceptable_path", "stack_count_table",
    "stack_top_table", "path_table", "flow_method", "flow_path", "caverPort2switchPort",
    "ipv4_lpm", "header_process", "Dre_time_table", "Dre_table", "get_table_ip",
    "ACK_prepare">>
OrderHeaderLast ==
  <<"inPort2caverPort", "flow_id_table", "flow_time_table", "BestTable",
    "judge_acceptable_table", "set_acceptable_path", "stack_count_table",
    "stack_top_table", "path_table", "flow_method", "flow_path", "caverPort2switchPort",
    "ipv4_lpm", "Dre_time_table", "Dre_table", "get_table_ip", "ACK_prepare",
    "header_process", "BestTable_reg">>

\* The calls of main that fill what packets of other racks meet, each named
\* for the table or the register it fills; the egress tables (Ecn) and the
\* initial estimates (Dre) come after them.
Order ==
  <<"inPort2caverPort", "flow_id_table", "flow_time_table", "BestTable",
    "judge_acceptable_table", "set_acceptable_path", "stack_count_table",
    "stack_top_table", "path_table", "flow_method", "flow_path", "caverPort2switchPort",
    "ipv4_lpm", "header_process", "Dre_time_table", "Dre_table", "get_table_ip",
    "ACK_prepare", "BestTable_reg">>

Has(table) == \E i \in 1..loaded : Order[i] = table
Finished == loaded = Len(Order)

\* The path tables look for ig_md.table_ip, which is 0 without get_table_ip.
StoreReached ==
  \A t \in {"get_table_ip", "stack_count_table", "stack_top_table", "path_table"} : Has(t)

StartupInit ==
  /\ loaded = 0
  /\ best = [h \in Hosts |-> Zero]
  /\ resubmit = [h \in Hosts |-> <<>>]
  /\ Store!StackInit
  /\ Flows!FlowPathInit
  /\ out = [src_route |-> 0, port |-> 0, marked |-> FALSE]

\* The next call of main returns.  It takes longer than an acknowledgement
\* takes to come back: one in between has seen at most one call return.
Load ==
  /\ ~Finished
  /\ \A h \in Hosts : \A i \in 1..Len(resubmit[h]) : resubmit[h][i].since = loaded
  /\ loaded' = loaded + 1
  /\ best' = IF Order[loaded + 1] = "BestTable_reg" THEN InitBest ELSE best
  /\ UNCHANGED <<resubmit, stack, answer, flow_method_reg, flow_path_reg, out>>

\* First pass of an acknowledgement: it only comes back once ipv4_lpm knows
\* the resubmit group.  Without Dre_table it takes no uplink along.
AckFirst(h, port, ce, report) ==
  /\ Has("inPort2caverPort") /\ Has("ipv4_lpm")
  /\ Len(resubmit[h]) < MaxInFlight
  /\ resubmit' = [resubmit EXCEPT ![h] = Append(@,
       [port |-> IF Has("Dre_table") THEN port ELSE 0,
        CE |-> IF Has("Dre_table") THEN ce ELSE 0,
        best_port |-> IF Has("BestTable") THEN best[h].hop0 ELSE 0,
        report |-> report, since |-> loaded])]
  /\ UNCHANGED <<loaded, best, stack, answer, flow_method_reg, flow_path_reg, out>>

\* What ACK_prepare leaves, and what the metadata hold without it: max is
\* applied in any case.
BeforeBest(r) ==
  IF Has("ACK_prepare") THEN Table!BeforeBest(r) ELSE [Zero EXCEPT !.CE = r.report.best_CE]
BeforeGood(r) == IF Has("ACK_prepare") THEN Table!BeforeGood(r) ELSE Zero

\* BestTable, by the source address of the packet.
AfterBest(h, r) ==
  IF Table!PortEqual(r) \/ Table!Word(best[h]) >= Table!Word(BeforeBest(r))
  THEN BeforeBest(r) ELSE best[h]

NewPath(after, good) ==
  IF Table!UseGoodPath(good.CE, Table!Threshold(after.CE)) THEN good ELSE after

\* Second pass, with the tables there are by now; an acknowledgement is only
\* resubmitted when BestTable and set_acceptable_path have been filled.
AckSecond(h) ==
  /\ resubmit[h] # <<>>
  /\ LET r     == Head(resubmit[h])
         after == AfterBest(h, r)
     IN  /\ best' = [best EXCEPT ![h] = after]
         /\ IF StoreReached THEN Store!Push(h, PathOf(NewPath(after, BeforeGood(r))))
            ELSE UNCHANGED <<stack, answer>>
  /\ resubmit' = [resubmit EXCEPT ![h] = Tail(@)]
  /\ UNCHANGED <<loaded, flow_method_reg, flow_path_reg, out>>

Offer(h, new_flow) ==
  IF StoreReached /\ new_flow = 1 /\ stack[h] # <<>> THEN stack[h][1] ELSE NoPath

\* A data packet to the remote host h: it is dropped where ipv4_lpm has to
\* forward it and is empty, but the registers have seen it by then.  Without
\* header_process it leaves as it came, its header unmarked.
RawData(h, new_flow, port) ==
  LET path == Flows!Route(h, new_flow, Offer(h, new_flow))
  IN  /\ Has("inPort2caverPort")
      /\ new_flow = 1 => Has("flow_time_table")
      /\ IF StoreReached /\ new_flow = 1 THEN Store!Take(h) \/ Store!Miss(h)
         ELSE UNCHANGED <<stack, answer>>
      /\ Flows!FlowStage(h, new_flow, Offer(h, new_flow))
      /\ \/ /\ path # NoPath
            /\ port = path.hop0
            /\ out' = [src_route |-> 1, port |-> port, marked |-> Has("header_process")]
         \/ /\ path = NoPath /\ Has("ipv4_lpm")
            /\ port \in Uplinks
            /\ out' = [src_route |-> 0, port |-> port, marked |-> Has("header_process")]
         \/ /\ path = NoPath /\ ~Has("ipv4_lpm")
            /\ UNCHANGED out
      /\ UNCHANGED <<loaded, best, resubmit>>

StartupNext ==
  \/ Load
  \/ \E h \in Hosts :
       \/ \E port \in Uplinks, ce \in CEs, report \in Reports : AckFirst(h, port, ce, report)
       \/ AckSecond(h)
       \/ \E new_flow \in {0, 1}, port \in Uplinks \cup {0} : RawData(h, new_flow, port)

\* main goes on, and what was resubmitted comes back.
StartupSpec ==
  /\ StartupInit
  /\ [][StartupNext]_startupVars
  /\ WF_startupVars(Load)
  /\ \A h \in Hosts : WF_startupVars(AckSecond(h))

-----------------------------------------------------------------------------
(* Properties.                                                             *)

\* The registers hold words of their range.
StartupTypeOK ==
  /\ loaded \in 0..Len(Order)
  /\ best \in [Hosts -> [CE : CEs, hop1 : Hops \cup {0}, hop0 : Uplinks \cup {0}]]
  /\ \A h \in Hosts : stack[h] \in Seq(Paths) /\ Len(stack[h]) <= Depth
  /\ flow_path_reg \in [Hosts -> Paths]

\* Whatever acknowledgements wrote into the zeroed registers before, from
\* init_BestTable on every entry is a path by an uplink: no acknowledgement
\* that met the tables half filled can break it again.
EntriesLeadUp ==
  Has("BestTable_reg") => \A h \in Hosts : best[h].hop0 \in Uplinks

\* The next switch can tell the route of every packet that has one: no flow
\* is source-routed before the packets are marked.
RoutesAreMarked == [][out'.src_route = 1 => out'.marked]_startupVars

\* Once main has made its calls, every acknowledgement that comes back puts a
\* path by an uplink on top of the store, those that started their first pass
\* before it was done included: nothing bad is added to what start-up left.
NewPathsLeadUp ==
  [][Finished => \A h \in Hosts : Len(resubmit'[h]) < Len(resubmit[h]) =>
       stack'[h] # <<>> /\ stack'[h][1].hop0 \in Uplinks]_startupVars

\* What start-up put into the store is handed out at last: from some time on
\* every new flow is given a path by an uplink.
StartupPathsRunOut ==
  <>[][\A h \in Hosts : Store!Take(h) => answer'.path.hop0 \in Uplinks]_startupVars

\* header.p4:157, header.p4:169: a path put aside is one of an acknowledgement
\* combined with the uplink it came by, once the switch is set up.  The paths
\* put aside between get_table_ip and BestTable_reg are not.
StoredPathsLeadUp ==
  Finished => \A h \in Hosts : \A i \in 1..Len(stack[h]) : stack[h][i].hop0 \in Uplinks
=============================================================================

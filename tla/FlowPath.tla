------------------------------ MODULE FlowPath ------------------------------
(***************************************************************************)
(* The registers that keep a flow on its path: flow_method_reg says whether *)
(* the flow is source-routed, flow_path_reg by which path.  The first      *)
(* packet of a flow writes what the path table offers, the others read it. *)
(* Both arrays are indexed by the flow id, a hash of the packet's addresses. *)
(***************************************************************************)
EXTENDS Naturals

CONSTANTS
  FlowIds,    \* flow ids: the low byte is a hash of the destination address
  Paths,      \* the paths of the path table
  ZeroPath,   \* the content of a cell nothing was written to
  NoPath      \* no path: the packet goes by ECMP

ASSUME FlowPathAssumption == NoPath \notin Paths \cup {ZeroPath}

VARIABLES
  flow_method_reg,  \* 1 iff the flow is source-routed
  flow_path_reg     \* its path, if so

flowPathVars == <<flow_method_reg, flow_path_reg>>

\* ig_md.src_route behind stack_count_table: 1 iff a path is offered.
Offered(offer) == IF offer = NoPath THEN 0 ELSE 1

\* The tables, as set_flow_method and set_flow_path fill them for DATA.
FlowMethodTable(new_flow) ==
  IF new_flow = 1 THEN "flow_method_update" ELSE "flow_method_take"

\* Mutant: the key src_route is forgotten.
FlowPathTableAnyRoute(new_flow, src_route) ==
  IF new_flow = 1 THEN "flow_path_update" ELSE "flow_path_take"

FlowPathTable(new_flow, src_route) ==
  IF src_route = 1
  THEN IF new_flow = 1 THEN "flow_path_update" ELSE "flow_path_take"
  ELSE IF new_flow = 1 THEN "flow_path_ecmp_take" ELSE "no_action"

\* ig_md.src_route behind flow_method.
FlowSrcRoute(f, new_flow, offer) ==
  IF FlowMethodTable(new_flow) = "flow_method_take" THEN flow_method_reg[f]
  ELSE Offered(offer)

\* The path a data packet is sent by: for ECMP there is none.
Route(f, new_flow, offer) ==
  LET src_route == FlowSrcRoute(f, new_flow, offer) IN
  IF src_route = 0 THEN NoPath
  ELSE IF FlowPathTable(new_flow, src_route) = "flow_path_take" THEN flow_path_reg[f]
  ELSE offer

FlowPathInit ==
  /\ flow_method_reg = [f \in FlowIds |-> 0]
  /\ flow_path_reg = [f \in FlowIds |-> ZeroPath]

\* A data packet of flow f through flow_method and flow_path; offer is what
\* the path table gave a new flow, NoPath if its destination has no path.
FlowStage(f, new_flow, offer) ==
  LET src_route == FlowSrcRoute(f, new_flow, offer)
  IN  /\ flow_method_reg' =
           IF FlowMethodTable(new_flow) = "flow_method_update"
           THEN [flow_method_reg EXCEPT ![f] = Offered(offer)]
           ELSE flow_method_reg
      /\ flow_path_reg' =
           IF FlowPathTable(new_flow, src_route) = "flow_path_update"
           THEN [flow_path_reg EXCEPT ![f] = offer]
           ELSE flow_path_reg

\* The registers hold values of their range.
FlowPathTypeOK ==
  /\ flow_method_reg \in [FlowIds -> {0, 1}]
  /\ flow_path_reg \in [FlowIds -> Paths \cup {ZeroPath}]
=============================================================================

------------------------------ MODULE PathRing ------------------------------
(***************************************************************************)
(* The path table of the ToR as caver_tor.p4 builds it.  A stateful ALU of *)
(* the switch reads and writes one register cell per packet, so the store  *)
(* of a host is spread over three register arrays that a packet visits in  *)
(* this order:                                                             *)
(*    stack_count_reg  how many paths are left, saturating at 4            *)
(*    stack_top_reg    the slot of the next push, counting modulo 4        *)
(*    path_reg         32 slots; host h owns the slots 4h .. 4h+3          *)
(* Nothing but the match-action tables that ctrl.c installs keeps the      *)
(* three in step: each table decides on its own, from the packet's type    *)
(* and metadata, whether its register moves.  The three operators ...Table *)
(* below are those tables; PathStage is a packet's passage through them.   *)
(***************************************************************************)
EXTENDS Naturals

CONSTANTS
  Hosts,      \* host ids (ip_id_list gives the hosts of the testbed 0..7)
  Paths,      \* the 16-bit paths acknowledgements report
  ZeroPath,   \* the content of a path_reg cell nothing was written to
  NoPath      \* no path: the packet goes by ECMP

ASSUME PathRingAssumption ==
  /\ Hosts \subseteq Nat
  /\ ZeroPath \notin Paths
  /\ NoPath \notin Paths \cup {ZeroPath}

VARIABLES
  stack_count, stack_top, path_reg,
  answer    \* history: the host and the path of the latest new flow

ringVars == <<stack_count, stack_top, path_reg, answer>>

PacketTypes ==
  {"DATA", "ACK", "CAVER_DATA", "CAVER_ACK_FIRST", "CAVER_ACK_SECOND"}

Depth == 4

-----------------------------------------------------------------------------
(* The tables, as ctrl.c fills them for each of the eight hosts.           *)

\* Mutant: the key new_flow is forgotten.
PopOnEveryPacket(type, new_flow) ==
  IF type = "DATA" THEN "stack_count_pop"
  ELSE IF type = "CAVER_ACK_SECOND" THEN "stack_count_push"
  ELSE "no_action"

StackCountTable(type, new_flow) ==
  IF type = "DATA" /\ new_flow = 1 THEN "stack_count_pop"
  ELSE IF type = "CAVER_ACK_SECOND" THEN "stack_count_push"
  ELSE "no_action"

StackTopTable(type, src_route, new_flow) ==
  IF type = "DATA" /\ src_route = 1 /\ new_flow = 1 THEN "stack_top_pop"
  ELSE IF type = "CAVER_ACK_SECOND" /\ src_route = 0 THEN "stack_top_push"
  ELSE "no_action"

\* The entries for a host and a delta_index carry the index of path_reg.
PathTable(type, src_route, new_flow) ==
  IF type = "DATA" /\ src_route = 1 /\ new_flow = 1 THEN "path_take"
  ELSE IF type = "CAVER_ACK_SECOND" THEN "path_update"
  ELSE "no_action"

PathIndex(h, delta_index) == 4 * h + delta_index

-----------------------------------------------------------------------------
(* The register actions: the value left in the cell.                       *)

\* Mutant: the count does not saturate.
CountPushUnbounded(val) == val + 1

CountPush(val) == IF val < 4 THEN val + 1 ELSE val
CountPop(val)  == IF val = 0 THEN val ELSE val - 1
TopPush(val)   == IF val = 3 THEN 0 ELSE val + 1
TopPop(val)    == IF val = 0 THEN 3 ELSE val - 1

\* ig_md.src_route behind stack_count_table: 1 iff a path was left to pop.
\* The parser does not set the bit; the recorded build reads it as 0.
SrcRoute(type, new_flow, h) ==
  IF StackCountTable(type, new_flow) = "stack_count_pop" /\ stack_count[h] # 0
  THEN 1 ELSE 0

\* Mutant: a pop reads the slot at the top too.
TopOfBoth(type, src_route, new_flow, h) == stack_top[h]

\* ig_md.delta_index behind stack_top_table: a pop uses the slot below the
\* top, a push the slot at the top.
DeltaIndex(type, src_route, new_flow, h) ==
  IF StackTopTable(type, src_route, new_flow) = "stack_top_pop"
  THEN TopPop(stack_top[h])
  ELSE stack_top[h]

\* ig_md.path_choice behind path_table.
PathChoice(type, new_flow, h) ==
  LET src_route == SrcRoute(type, new_flow, h) IN
  IF PathTable(type, src_route, new_flow) = "path_take"
  THEN path_reg[PathIndex(h, DeltaIndex(type, src_route, new_flow, h))]
  ELSE NoPath

Slots == {PathIndex(h, j) : h \in Hosts, j \in 0..3}

RingInit ==
  /\ stack_count = [h \in Hosts |-> 0]
  /\ stack_top = [h \in Hosts |-> 0]
  /\ path_reg = [i \in Slots |-> ZeroPath]
  /\ answer \in [host : Hosts, path : {NoPath}]

\* One packet of host h through stack_count_table, stack_top_table and
\* path_table; new_path is the path an acknowledgement carries by then.
PathStage(type, new_flow, h, new_path) ==
  LET src_route == SrcRoute(type, new_flow, h)
      count     == StackCountTable(type, new_flow)
      top       == StackTopTable(type, src_route, new_flow)
      index     == PathIndex(h, DeltaIndex(type, src_route, new_flow, h))
  IN  /\ stack_count' = [stack_count EXCEPT ![h] =
           IF count = "stack_count_push" THEN CountPush(@)
           ELSE IF count = "stack_count_pop" THEN CountPop(@) ELSE @]
      /\ stack_top' = [stack_top EXCEPT ![h] =
           IF top = "stack_top_push" THEN TopPush(@)
           ELSE IF top = "stack_top_pop" THEN TopPop(@) ELSE @]
      /\ path_reg' =
           IF PathTable(type, src_route, new_flow) = "path_update"
           THEN [path_reg EXCEPT ![index] = new_path]
           ELSE path_reg
      /\ answer' =
           IF type = "DATA" /\ new_flow = 1
           THEN [host |-> h, path |-> PathChoice(type, new_flow, h)]
           ELSE answer

\* The parser clears new_flow, and only DATA packets reach flow_time_reg:
\* no other type has new_flow = 1.
NewFlow(type) == IF type = "DATA" THEN {0, 1} ELSE {0}

RingNext ==
  \E type \in PacketTypes, h \in Hosts, new_path \in Paths :
    \E new_flow \in NewFlow(type) : PathStage(type, new_flow, h, new_path)

RingSpec == RingInit /\ [][RingNext]_ringVars

-----------------------------------------------------------------------------
(* Properties.                                                             *)

\* The registers hold values of their range; the number of paths left never
\* exceeds the four slots a host owns.
RingTypeOK ==
  /\ stack_count \in [Hosts -> 0..4]
  /\ stack_top \in [Hosts -> 0..3]
  /\ path_reg \in [Slots -> Paths \cup {ZeroPath}]
  /\ answer \in [host : Hosts, path : Paths \cup {ZeroPath, NoPath}]

\* The slot i pushes below the top of h (i = 1 is the newest).
SlotBelow(h, i) ==
  PathIndex(h, IF stack_top[h] >= i THEN stack_top[h] - i
                                    ELSE stack_top[h] + 4 - i)

\* The slots a new flow may still be given were all written by an
\* acknowledgement: a pop never hands out the zero of an unused register.
LiveSlotsWritten ==
  /\ \A h \in Hosts : \A i \in 1..stack_count[h] : path_reg[SlotBelow(h, i)] \in Paths
  /\ answer.path # ZeroPath

\* The store of host h that the registers stand for, newest path first.
StackOf(h) == [i \in 1..stack_count[h] |-> path_reg[SlotBelow(h, i)]]

Abstract == INSTANCE PathStack WITH stack <- [h \in Hosts |-> StackOf(h)]

\* The three registers of every host together behave as one bounded
\* last-in-first-out store per host that forgets its oldest path: a new flow
\* always gets the newest path not yet handed out, of its own host only.
RefinesStack == Abstract!StackSpec
=============================================================================

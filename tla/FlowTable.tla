----------------------------- MODULE FlowTable ------------------------------
(***************************************************************************)
(* Flowlet switching: FlowPath with the arrival times that tell the first  *)
(* packet of a flow from the others.  The time is the switch's timestamp   *)
(* in units of 1.024 us, kept in 32 bits, and the comparison is modulo     *)
(* 2^32.                                                                   *)
(***************************************************************************)
EXTENDS FlowPath

CONSTANTS
  FlowTime,   \* flow_time: a longer pause starts a new flow (50)
  Wrap,       \* the timestamp counts modulo Wrap (2^32)
  MaxGap,     \* bound: longer pauses are not told apart
  Unseen      \* no packet of the flow yet

ASSUME FlowTableAssumption ==
  /\ FlowTime \in Nat /\ Wrap \in Nat /\ MaxGap \in Nat
  /\ FlowTime < Wrap - 1 /\ Wrap < MaxGap
  /\ Unseen \notin Paths \cup {ZeroPath, NoPath}

VARIABLES
  clock,            \* global_tstamp[41:10]
  flow_time_reg,    \* when the last packet of each flow came
  gap,              \* history: the time since then, at most MaxGap
  route             \* history: how the last packet of each flow was sent

flowTableVars == <<flowPathVars, clock, flow_time_reg, gap, route>>

\* current_time - val on 32 bits.
Elapsed(now, then) == IF now >= then THEN now - then ELSE now + Wrap - then

\* Mutants: the pause that is just too short counts; the wrap is forgotten.
NewFlowEarly(f) ==
  IF Elapsed(clock, flow_time_reg[f]) >= FlowTime THEN 1 ELSE 0
NewFlowUnwrapped(f) ==
  IF clock > flow_time_reg[f] + FlowTime THEN 1 ELSE 0

\* current_time - val > flow_time.
NewFlow(f) ==
  IF Elapsed(clock, flow_time_reg[f]) > FlowTime THEN 1 ELSE 0

FlowTableInit ==
  /\ FlowPathInit
  /\ clock \in 0..(Wrap - 1)
  /\ flow_time_reg = [f \in FlowIds |-> 0]
  /\ gap = [f \in FlowIds |-> MaxGap]
  /\ route = [f \in FlowIds |-> Unseen]

\* Time passes.
Tick ==
  /\ clock' = IF clock + 1 < Wrap THEN clock + 1 ELSE 0
  /\ gap' = [f \in FlowIds |-> IF gap[f] < MaxGap THEN gap[f] + 1 ELSE MaxGap]
  /\ UNCHANGED <<flowPathVars, flow_time_reg, route>>

\* A data packet: flow_time_table, flow_method, flow_path.
DataPacket(f, offer) ==
  /\ FlowStage(f, NewFlow(f), offer)
  /\ flow_time_reg' = [flow_time_reg EXCEPT ![f] = clock]
  /\ gap' = [gap EXCEPT ![f] = 0]
  /\ route' = [route EXCEPT ![f] = Route(f, NewFlow(f), offer)]
  /\ UNCHANGED clock

FlowTableNext ==
  \/ Tick
  \/ \E f \in FlowIds, offer \in Paths \cup {NoPath} : DataPacket(f, offer)

FlowTableSpec == FlowTableInit /\ [][FlowTableNext]_flowTableVars

-----------------------------------------------------------------------------
(* Properties.                                                             *)

\* The registers hold values of their range, times included.
FlowTableTypeOK ==
  /\ FlowPathTypeOK
  /\ clock \in 0..(Wrap - 1)
  /\ flow_time_reg \in [FlowIds -> 0..(Wrap - 1)]
  /\ gap \in [FlowIds -> 0..MaxGap]
  /\ route \in [FlowIds -> Paths \cup {NoPath, Unseen}]

\* No packet of a flow is sent another way than the packet before it unless
\* the flow paused for more than FlowTime: neither the paths offered nor the
\* packets of other flows in between can reorder it, and a time stamp that
\* wraps around does not look like a pause.
FlowletKeepsPath ==
  [][\A f \in FlowIds :
       gap[f] <= FlowTime /\ route[f] # Unseen => route'[f] = route[f]]_flowTableVars

\* A pause longer than FlowTime, up to a turn of the clock (73 minutes),
\* makes the next packet take the path offered then: its own registers and
\* route are those of the offer.  After a full turn the flow may look as if
\* it had never paused.
PauseTakesOffer ==
  [][\A f \in FlowIds, offer \in Paths \cup {NoPath} :
       FlowTime < gap[f] /\ gap[f] < Wrap /\ DataPacket(f, offer)
         => route'[f] = offer]_flowTableVars
=============================================================================

-------------------------- MODULE FlowTableProofs --------------------------
(***************************************************************************)
(* Proofs about flowlet switching, for any flows and paths, any length of  *)
(* the pause and any width of the timestamp.                               *)
(*                                                                         *)
(* The two registers and the time of a flow are written by different       *)
(* tables under different conditions.  Two facts tie them together: up to  *)
(* a turn of the clock the register holds when the last packet came, and   *)
(* the other two registers hold how it was sent.                           *)
(***************************************************************************)
EXTENDS FlowTable, Integers, TLAPS

Routes == Paths \cup {NoPath}

\* Up to a turn of the clock the stored time is gap ago.
ClockInv ==
  \A f \in FlowIds : gap[f] < Wrap => Elapsed(clock, flow_time_reg[f]) = gap[f]

\* The registers of a flow tell how its last packet was sent, and a flow that
\* is source-routed has a path.
RouteInv ==
  \A f \in FlowIds :
    /\ flow_method_reg[f] = 1 => flow_path_reg[f] \in Paths
    /\ route[f] = NoPath => flow_method_reg[f] = 0
    /\ route[f] \in Paths => flow_method_reg[f] = 1 /\ flow_path_reg[f] = route[f]

FlowInv == FlowTableTypeOK /\ ClockInv /\ RouteInv

-----------------------------------------------------------------------------
(* What the tables do with a packet.                                       *)

LEMMA NewFlowCases == \A f \in FlowIds : NewFlow(f) \in {0, 1}
  BY DEF NewFlow

\* The first packet of a flow is sent by what is offered, and the registers
\* say so.
LEMMA FirstPacket ==
  ASSUME FlowTableTypeOK, NEW f \in FlowIds, NEW offer \in Routes, FlowStage(f, 1, offer)
  PROVE  /\ Route(f, 1, offer) = offer
         /\ flow_method_reg' = [flow_method_reg EXCEPT ![f] = Offered(offer)]
         /\ flow_path_reg' = IF offer = NoPath THEN flow_path_reg
                             ELSE [flow_path_reg EXCEPT ![f] = offer]
<1>1. FlowSrcRoute(f, 1, offer) = Offered(offer)
  BY DEF FlowSrcRoute, FlowMethodTable
<1>2. CASE offer = NoPath
  <2>1. Offered(offer) = 0
    BY <1>2 DEF Offered
  <2>2. QED
    BY <1>1, <1>2, <2>1 DEF FlowStage, Route, FlowMethodTable, FlowPathTable
<1>3. CASE offer # NoPath
  <2>1. Offered(offer) = 1
    BY <1>3 DEF Offered
  <2>2. QED
    BY <1>1, <1>3, <2>1 DEF FlowStage, Route, FlowMethodTable, FlowPathTable
<1>4. QED
  BY <1>2, <1>3

\* The others are sent by what the registers say, and leave them alone.
LEMMA LaterPacket ==
  ASSUME FlowTableTypeOK, NEW f \in FlowIds, NEW offer \in Routes, FlowStage(f, 0, offer)
  PROVE  /\ Route(f, 0, offer) = IF flow_method_reg[f] = 0 THEN NoPath ELSE flow_path_reg[f]
         /\ flow_method_reg' = flow_method_reg
         /\ flow_path_reg' = flow_path_reg
<1>1. FlowSrcRoute(f, 0, offer) = flow_method_reg[f]
  BY DEF FlowSrcRoute, FlowMethodTable
<1>2. flow_method_reg[f] \in {0, 1}
  BY DEF FlowTableTypeOK, FlowPathTypeOK
<1>3. CASE flow_method_reg[f] = 0
  BY <1>1, <1>3 DEF FlowStage, Route, FlowMethodTable, FlowPathTable
<1>4. CASE flow_method_reg[f] = 1
  BY <1>1, <1>4 DEF FlowStage, Route, FlowMethodTable, FlowPathTable
<1>5. QED
  BY <1>2, <1>3, <1>4

-----------------------------------------------------------------------------
(* The invariant.                                                          *)

LEMMA FlowInit == FlowTableInit => FlowInv
<1>1. SUFFICES ASSUME FlowTableInit PROVE FlowInv
  OBVIOUS
<1>2. FlowTableTypeOK
  <2>1. 0 \in 0..(Wrap - 1) /\ MaxGap \in 0..MaxGap
    BY FlowTableAssumption
  <2>2. /\ flow_method_reg \in [FlowIds -> {0, 1}]
        /\ flow_path_reg \in [FlowIds -> Paths \cup {ZeroPath}]
    BY <1>1 DEF FlowTableInit, FlowPathInit
  <2>3. /\ clock \in 0..(Wrap - 1)
        /\ flow_time_reg \in [FlowIds -> 0..(Wrap - 1)]
        /\ gap \in [FlowIds -> 0..MaxGap]
        /\ route \in [FlowIds -> Paths \cup {NoPath, Unseen}]
    BY <1>1, <2>1 DEF FlowTableInit
  <2>4. QED
    BY <2>2, <2>3 DEF FlowTableTypeOK, FlowPathTypeOK
<1>3. ClockInv
  BY <1>1, FlowTableAssumption DEF FlowTableInit, ClockInv
<1>4. RouteInv
  <2>1. ASSUME NEW f \in FlowIds
        PROVE  flow_method_reg[f] = 0 /\ flow_method_reg[f] # 1 /\ route[f] = Unseen
    BY <1>1 DEF FlowTableInit, FlowPathInit
  <2>2. Unseen \notin Paths /\ Unseen # NoPath
    BY FlowTableAssumption
  <2>3. QED
    BY <2>1, <2>2 DEF RouteInv
<1>5. QED
  BY <1>2, <1>3, <1>4 DEF FlowInv

LEMMA TickKeeps == FlowInv /\ Tick => FlowInv'
<1>1. SUFFICES ASSUME FlowInv, Tick PROVE FlowInv'
  OBVIOUS
<1>2. /\ flow_method_reg' = flow_method_reg /\ flow_path_reg' = flow_path_reg
      /\ flow_time_reg' = flow_time_reg /\ route' = route
  BY <1>1 DEF Tick, flowPathVars
<1>3. /\ clock \in Nat /\ clock < Wrap
      /\ clock' \in 0..(Wrap - 1)
      /\ clock' = IF clock + 1 < Wrap THEN clock + 1 ELSE 0
  BY <1>1, FlowTableAssumption DEF FlowInv, FlowTableTypeOK, Tick
<1>4. ASSUME NEW f \in FlowIds
      PROVE  /\ gap[f] \in Nat /\ gap'[f] \in 0..MaxGap
             /\ gap'[f] < Wrap => gap'[f] = gap[f] + 1
  BY <1>1, FlowTableAssumption DEF FlowInv, FlowTableTypeOK, Tick
<1>5. gap' \in [FlowIds -> 0..MaxGap]
  BY <1>1, <1>4 DEF Tick
<1>6. ASSUME NEW f \in FlowIds, gap'[f] < Wrap
      PROVE  Elapsed(clock', flow_time_reg'[f]) = gap'[f]
  <2>1. flow_time_reg[f] \in Nat /\ flow_time_reg[f] < Wrap
    BY <1>1, FlowTableAssumption DEF FlowInv, FlowTableTypeOK
  <2>2. gap'[f] = gap[f] + 1 /\ gap[f] < Wrap
    BY <1>4, <1>6, FlowTableAssumption
  <2>3. Elapsed(clock, flow_time_reg[f]) = gap[f]
    BY <1>1, <2>2 DEF FlowInv, ClockInv
  <2>4. QED
    BY <1>2, <1>3, <1>4, <1>6, <2>1, <2>2, <2>3, FlowTableAssumption DEF Elapsed
<1>7. FlowTableTypeOK'
  BY <1>1, <1>2, <1>3, <1>5 DEF FlowInv, FlowTableTypeOK, FlowPathTypeOK
<1>8. RouteInv'
  BY <1>1, <1>2 DEF FlowInv, RouteInv
<1>9. ClockInv'
  BY <1>6 DEF ClockInv, Elapsed
<1>10. QED
  BY <1>7, <1>8, <1>9 DEF FlowInv

\* How a packet is sent and what it leaves in the registers of its flow.
LEMMA PacketEffect ==
  ASSUME FlowInv, NEW f \in FlowIds, NEW offer \in Routes, DataPacket(f, offer)
  PROVE  LET r == IF NewFlow(f) = 1 THEN offer
                  ELSE IF flow_method_reg[f] = 0 THEN NoPath ELSE flow_path_reg[f]
         IN  /\ r \in Routes
             /\ route' = [route EXCEPT ![f] = r]
             /\ flow_method_reg' \in [FlowIds -> {0, 1}]
             /\ flow_path_reg' \in [FlowIds -> Paths \cup {ZeroPath}]
             /\ flow_method_reg'[f] = IF r = NoPath THEN 0 ELSE 1
             /\ r # NoPath => flow_path_reg'[f] = r
             /\ \A g \in FlowIds \ {f} : /\ flow_method_reg'[g] = flow_method_reg[g]
                                         /\ flow_path_reg'[g] = flow_path_reg[g]
<1>1. /\ flow_method_reg \in [FlowIds -> {0, 1}]
      /\ flow_path_reg \in [FlowIds -> Paths \cup {ZeroPath}]
      /\ FlowTableTypeOK
  BY DEF FlowInv, FlowTableTypeOK, FlowPathTypeOK
<1>2. /\ FlowStage(f, NewFlow(f), offer)
      /\ route' = [route EXCEPT ![f] = Route(f, NewFlow(f), offer)]
  BY DEF DataPacket
<1>3. CASE NewFlow(f) = 1
  <2>1. /\ Route(f, 1, offer) = offer
        /\ flow_method_reg' = [flow_method_reg EXCEPT ![f] = Offered(offer)]
        /\ flow_path_reg' = IF offer = NoPath THEN flow_path_reg
                            ELSE [flow_path_reg EXCEPT ![f] = offer]
    BY <1>1, <1>2, <1>3, FirstPacket
  <2>2. Offered(offer) = IF offer = NoPath THEN 0 ELSE 1
    BY DEF Offered
  <2>3. QED
    BY <1>1, <1>2, <1>3, <2>1, <2>2 DEF Routes
<1>4. CASE NewFlow(f) = 0
  <2>1. /\ Route(f, 0, offer) = IF flow_method_reg[f] = 0 THEN NoPath ELSE flow_path_reg[f]
        /\ flow_method_reg' = flow_method_reg
        /\ flow_path_reg' = flow_path_reg
    BY <1>1, <1>2, <1>4, LaterPacket
  <2>2. flow_method_reg[f] = 1 => flow_path_reg[f] \in Paths
    BY DEF FlowInv, RouteInv
  <2>3. flow_method_reg[f] \in {0, 1}
    BY <1>1
  <2>4. NewFlow(f) # 1
    BY <1>4
  <2> DEFINE r == IF flow_method_reg[f] = 0 THEN NoPath ELSE flow_path_reg[f]
  <2>5. /\ r \in Routes
        /\ flow_method_reg[f] = IF r = NoPath THEN 0 ELSE 1
        /\ r # NoPath => flow_path_reg[f] = r
    BY <2>2, <2>3, FlowPathAssumption DEF Routes
  <2>6. route' = [route EXCEPT ![f] = r]
    BY <1>2, <1>4, <2>1
  <2>7. QED
    BY <1>1, <2>1, <2>4, <2>5, <2>6
<1>5. QED
  BY <1>3, <1>4, NewFlowCases

LEMMA PacketKeeps ==
  ASSUME FlowInv, NEW f \in FlowIds, NEW offer \in Routes, DataPacket(f, offer)
  PROVE  FlowInv'
<1> DEFINE r == IF NewFlow(f) = 1 THEN offer
                ELSE IF flow_method_reg[f] = 0 THEN NoPath ELSE flow_path_reg[f]
<1>1. /\ r \in Routes
      /\ route' = [route EXCEPT ![f] = r]
      /\ flow_method_reg' \in [FlowIds -> {0, 1}]
      /\ flow_path_reg' \in [FlowIds -> Paths \cup {ZeroPath}]
      /\ flow_method_reg'[f] = IF r = NoPath THEN 0 ELSE 1
      /\ r # NoPath => flow_path_reg'[f] = r
      /\ \A g \in FlowIds \ {f} : /\ flow_method_reg'[g] = flow_method_reg[g]
                                  /\ flow_path_reg'[g] = flow_path_reg[g]
  BY PacketEffect
<1> HIDE DEF r
<1>2. /\ flow_time_reg' = [flow_time_reg EXCEPT ![f] = clock]
      /\ gap' = [gap EXCEPT ![f] = 0]
      /\ clock' = clock
  BY DEF DataPacket
<1>3. clock \in Nat /\ clock < Wrap /\ clock \in 0..(Wrap - 1)
  BY FlowTableAssumption DEF FlowInv, FlowTableTypeOK
<1>4. /\ gap' \in [FlowIds -> 0..MaxGap]
      /\ flow_time_reg' \in [FlowIds -> 0..(Wrap - 1)]
      /\ route' \in [FlowIds -> Paths \cup {NoPath, Unseen}]
  BY <1>1, <1>2, <1>3, FlowTableAssumption DEF FlowInv, FlowTableTypeOK, Routes
<1>5. FlowTableTypeOK'
  BY <1>1, <1>2, <1>3, <1>4 DEF FlowTableTypeOK, FlowPathTypeOK
<1>6. ASSUME NEW g \in FlowIds, gap'[g] < Wrap
      PROVE  Elapsed(clock', flow_time_reg'[g]) = gap'[g]
  <2>1. CASE g = f
    BY <1>2, <1>3, <2>1 DEF FlowInv, FlowTableTypeOK, Elapsed
  <2>2. CASE g # f
    <3>1. gap'[g] = gap[g] /\ flow_time_reg'[g] = flow_time_reg[g]
      BY <1>2, <2>2 DEF FlowInv, FlowTableTypeOK
    <3>2. QED
      BY <1>2, <1>6, <3>1 DEF FlowInv, ClockInv
  <2>3. QED
    BY <2>1, <2>2
<1>7. ASSUME NEW g \in FlowIds
      PROVE  /\ flow_method_reg'[g] = 1 => flow_path_reg'[g] \in Paths
             /\ route'[g] = NoPath => flow_method_reg'[g] = 0
             /\ route'[g] \in Paths => flow_method_reg'[g] = 1 /\ flow_path_reg'[g] = route'[g]
  <2>1. CASE g = f
    <3>1. route'[f] = r
      BY <1>1 DEF FlowInv, FlowTableTypeOK
    <3>2. QED
      BY <1>1, <2>1, <3>1, FlowPathAssumption DEF Routes
  <2>2. CASE g # f
    <3>1. route'[g] = route[g]
      BY <1>1, <2>2 DEF FlowInv, FlowTableTypeOK
    <3>2. QED
      BY <1>1, <2>2, <3>1 DEF FlowInv, RouteInv
  <2>3. QED
    BY <2>1, <2>2
<1>8. ClockInv'
  BY <1>6 DEF ClockInv, Elapsed
<1>9. RouteInv'
  BY <1>7 DEF RouteInv
<1>10. QED
  BY <1>5, <1>8, <1>9 DEF FlowInv

LEMMA FlowStep == FlowInv /\ [FlowTableNext]_flowTableVars => FlowInv'
<1>1. SUFFICES ASSUME FlowInv, [FlowTableNext]_flowTableVars PROVE FlowInv'
  OBVIOUS
<1>2. ASSUME Tick PROVE FlowInv'
  BY <1>1, <1>2, TickKeeps
<1>3. ASSUME NEW f \in FlowIds, NEW offer \in Paths \cup {NoPath}, DataPacket(f, offer)
      PROVE  FlowInv'
  BY <1>1, <1>3, PacketKeeps DEF Routes
<1>4. ASSUME UNCHANGED flowTableVars PROVE FlowInv'
  <2>1. /\ flow_method_reg' = flow_method_reg /\ flow_path_reg' = flow_path_reg
        /\ clock' = clock /\ flow_time_reg' = flow_time_reg /\ gap' = gap /\ route' = route
    BY <1>4 DEF flowTableVars, flowPathVars
  <2>2. FlowTableTypeOK'
    BY <1>1, <2>1 DEF FlowInv, FlowTableTypeOK, FlowPathTypeOK
  <2>3. ClockInv'
    BY <1>1, <2>1 DEF FlowInv, ClockInv, Elapsed
  <2>4. RouteInv'
    BY <1>1, <2>1 DEF FlowInv, RouteInv
  <2>5. QED
    BY <2>2, <2>3, <2>4 DEF FlowInv
<1>5. QED
  BY <1>1, <1>2, <1>3, <1>4 DEF FlowTableNext

\* The registers of every flow hold a time, a method and a path, and a flow
\* that is source-routed was given a path, never the zero of a cell nothing
\* was written to.
THEOREM FlowTableTypeCorrect == FlowTableSpec => []FlowTableTypeOK
<1>1. FlowInv => FlowTableTypeOK
  BY DEF FlowInv
<1>2. QED
  BY <1>1, FlowInit, FlowStep, PTL DEF FlowTableSpec

-----------------------------------------------------------------------------
(* Flowlets.                                                               *)

LEMMA KeepsPathStep ==
  ASSUME FlowInv, [FlowTableNext]_flowTableVars, NEW f \in FlowIds,
         gap[f] <= FlowTime, route[f] # Unseen
  PROVE  route'[f] = route[f]
<1>1. gap[f] \in Nat /\ gap[f] < Wrap
  BY FlowTableAssumption DEF FlowInv, FlowTableTypeOK
<1>2. NewFlow(f) = 0
  BY <1>1, FlowTableAssumption DEF NewFlow, FlowInv, ClockInv
<1>3. CASE Tick
  BY <1>3 DEF Tick
<1>4. ASSUME NEW g \in FlowIds, NEW offer \in Paths \cup {NoPath}, DataPacket(g, offer)
      PROVE  route'[f] = route[f]
  <2>1. CASE g = f
    <3>1. route' = [route EXCEPT ![f] =
                      IF flow_method_reg[f] = 0 THEN NoPath ELSE flow_path_reg[f]]
      BY <1>2, <1>4, <2>1, PacketEffect DEF Routes
    <3>2. route[f] \in Paths \cup {NoPath}
      BY DEF FlowInv, FlowTableTypeOK
    <3>3. route[f] = IF flow_method_reg[f] = 0 THEN NoPath ELSE flow_path_reg[f]
      BY <3>2 DEF FlowInv, RouteInv
    <3>4. QED
      BY <3>1, <3>3 DEF FlowInv, FlowTableTypeOK
  <2>2. CASE g # f
    BY <1>4, <2>2 DEF DataPacket, FlowInv, FlowTableTypeOK
  <2>3. QED
    BY <2>1, <2>2
<1>5. CASE UNCHANGED flowTableVars
  BY <1>5 DEF flowTableVars
<1>6. QED
  BY <1>3, <1>4, <1>5 DEF FlowTableNext

\* Whatever is offered and whatever other flows do, a flow that does not pause
\* for more than FlowTime stays on its path.
THEOREM FlowletsKeepTheirPath == FlowTableSpec => FlowletKeepsPath
<1>1. FlowInv /\ [FlowTableNext]_flowTableVars =>
        \A f \in FlowIds : gap[f] <= FlowTime /\ route[f] # Unseen => route'[f] = route[f]
  BY KeepsPathStep
<1>2. QED
  BY <1>1, FlowInit, FlowStep, PTL DEF FlowTableSpec, FlowletKeepsPath

LEMMA PauseStep ==
  ASSUME FlowInv, NEW f \in FlowIds, NEW offer \in Paths \cup {NoPath},
         FlowTime < gap[f], gap[f] < Wrap, DataPacket(f, offer)
  PROVE  route'[f] = offer
<1>1. NewFlow(f) = 1
  BY DEF NewFlow, FlowInv, ClockInv
<1>2. route' = [route EXCEPT ![f] = offer]
  BY <1>1, PacketEffect DEF Routes
<1>3. QED
  BY <1>2 DEF FlowInv, FlowTableTypeOK

\* A pause between FlowTime and a turn of the clock ends the flowlet.
THEOREM PausesTakeTheOffer == FlowTableSpec => PauseTakesOffer
<1>1. FlowInv => \A f \in FlowIds, offer \in Paths \cup {NoPath} :
        FlowTime < gap[f] /\ gap[f] < Wrap /\ DataPacket(f, offer) => route'[f] = offer
  BY PauseStep
<1>2. QED
  BY <1>1, FlowInit, FlowStep, PTL DEF FlowTableSpec, PauseTakesOffer
=============================================================================

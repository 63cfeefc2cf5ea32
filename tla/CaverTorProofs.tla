--------------------------- MODULE CaverTorProofs ---------------------------
(***************************************************************************)
(* Proofs about the pipeline of a CAVER ToR, for any hosts, ports, hashes  *)
(* without collision, estimates and reports.                               *)
(*                                                                         *)
(* The pipeline takes the steps of BestTable on the registers of BestTable *)
(* and those of PathStack on the path store, so what is proved of them     *)
(* holds of it.  That a packet is never sent by a path to somewhere else   *)
(* is an invariant of all three tables at once: each is indexed by another *)
(* key, and a path that is handed on from one to the next stays one that   *)
(* was reported for the host it is kept for.                               *)
(***************************************************************************)
EXTENDS CaverTor, Integers, TLAPS

TableProofs == INSTANCE BestTableProofs WITH
  Hosts <- Remote, Ports <- Uplinks, recent <- <<>>, held <- <<>>

-----------------------------------------------------------------------------
(* The proofs about BestTable speak of the same table.                     *)

LEMMA TableAssumption == TableProofs!BestAssumption
<1>1. Table!Entries = TableProofs!Entries
  BY DEF Table!Entries, TableProofs!Entries
<1>2. QED
  BY <1>1, CaverTorParts DEF TableProofs!BestAssumption

LEMMA SameSets == Table!Entries = TableProofs!Entries /\ Table!Acks = TableProofs!Acks
  BY DEF Table!Entries, TableProofs!Entries, Table!Acks, TableProofs!Acks

LEMMA SameTypes == Table!BestTypeOK <=> TableProofs!BestTypeOK
  BY SameSets DEF Table!BestTypeOK, TableProofs!BestTypeOK

LEMMA SameBefore ==
  \A r : /\ Table!BeforeBest(r) = TableProofs!BeforeBest(r)
         /\ Table!BeforeGood(r) = TableProofs!BeforeGood(r)
  BY DEF Table!BeforeBest, TableProofs!BeforeBest, Table!BeforeGood, TableProofs!BeforeGood,
         Table!Larger, TableProofs!Larger

LEMMA SameAfter == \A val, r : Table!AfterBest(val, r) = TableProofs!AfterBest(val, r)
<1>1. \A e : Table!Word(e) = TableProofs!Word(e)
  BY DEF Table!Word, TableProofs!Word
<1>2. \A r : Table!PortEqual(r) = TableProofs!PortEqual(r)
  BY DEF Table!PortEqual, TableProofs!PortEqual
<1>3. \A type, b : Table!BestTableAction(type, b) = TableProofs!BestTableAction(type, b)
  BY DEF Table!BestTableAction, TableProofs!BestTableAction
<1>4. QED
  BY <1>1, <1>2, <1>3, SameBefore DEF Table!AfterBest, TableProofs!AfterBest

LEMMA SameNewPath == \A after, r : Table!NewPath(after, r) = TableProofs!NewPath(after, r)
<1>1. \A ce : Table!Threshold(ce) = TableProofs!Threshold(ce)
  BY DEF Table!Threshold, TableProofs!Threshold
<1>2. \A good, thr : Table!UseGoodPath(good, thr) = TableProofs!UseGoodPath(good, thr)
  BY DEF Table!UseGoodPath, TableProofs!UseGoodPath, Table!CE_max, TableProofs!CE_max
<1>3. QED
  BY <1>1, <1>2, SameBefore DEF Table!NewPath, TableProofs!NewPath

LEMMA SameActions ==
  /\ \A h, port, ce, report :
       Table!AckFirst(h, port, ce, report) <=> TableProofs!AckFirst(h, port, ce, report)
  /\ \A h : Table!AckSecond(h) <=> TableProofs!AckSecond(h)
<1>1. \A h, port, ce, report :
        Table!AckFirst(h, port, ce, report) <=> TableProofs!AckFirst(h, port, ce, report)
  BY DEF Table!AckFirst, TableProofs!AckFirst
<1>2. \A h : Table!AckSecond(h) <=> TableProofs!AckSecond(h)
  BY SameBefore, SameAfter, SameNewPath DEF Table!AckSecond, TableProofs!AckSecond
<1>3. QED
  BY <1>1, <1>2

-----------------------------------------------------------------------------
(* The pipeline takes the steps of the table.                              *)

LEMMA PortRoundTrip ==
  \A p \in CaverPorts : InPort2caverPort(DpPort[p]) = p /\ DpPort[p] \in DpPorts
  BY CaverTorAssumption DEF InPort2caverPort, IsInjective, DpPorts

LEMMA TableStep == [TorNext]_torVars => [Table!BestNext]_(Table!bestVars)
<1>1. SUFFICES ASSUME TorNext PROVE [Table!BestNext]_(Table!bestVars)
  BY DEF torVars, tableVars, Table!bestVars
<1>2. ASSUME NEW src, NEW dst, NEW rest, NEW new_flow, NEW port,
             RawData(src, dst, rest, new_flow, port)
      PROVE  UNCHANGED Table!bestVars
  BY <1>2 DEF RawData, tableVars, Table!bestVars
<1>3. ASSUME NEW type, NEW dst, NEW port, Forward(type, dst, port)
      PROVE  UNCHANGED Table!bestVars
  BY <1>3 DEF Forward, tableVars, Table!bestVars
<1>4. ASSUME NEW dst, OtherPacket(dst) PROVE UNCHANGED Table!bestVars
  BY <1>4 DEF OtherPacket, tableVars, Table!bestVars
<1>5. ASSUME NEW src \in Remote, NEW dst, NEW p \in Uplinks, NEW ce \in CEs,
             NEW report \in Reports, CaverAckFirst(src, dst, DpPort[p], ce, report)
      PROVE  Table!BestNext
  <2>1. InPort2caverPort(DpPort[p]) = p
    BY PortRoundTrip DEF CaverPorts
  <2>2. Table!AckFirst(src, p, ce, report)
    BY <1>5, <2>1 DEF CaverAckFirst, TableIp
  <2>3. QED
    BY <2>2 DEF Table!BestNext
<1>6. ASSUME NEW src \in Remote, NEW dst, NEW port, CaverAckSecond(src, dst, port)
      PROVE  Table!BestNext
  <2>1. Table!AckSecond(src)
    BY <1>6 DEF CaverAckSecond, TableIp
  <2>2. QED
    BY <2>1 DEF Table!BestNext
<1>7. QED
  BY <1>1, <1>2, <1>3, <1>4, <1>5, <1>6 DEF TorNext, CaverData, RawAck

\* The pipeline implements the table, whatever other packets come in between.
THEOREM TorImplementsTable == TorSpec => Table!BestSpec
<1>1. TorInit => Table!BestInit
  BY DEF TorInit
<1>2. QED
  BY <1>1, TableStep, PTL DEF TorSpec, Table!BestSpec

\* What is proved of the table's types, step by step.
LEMMA TableTypeInit == TorInit => Table!BestTypeOK
<1>1. TorInit => TableProofs!BestInit
  BY DEF TorInit, Table!BestInit, TableProofs!BestInit
<1>2. QED
  BY <1>1, TableAssumption, SameTypes, TableProofs!BestTypeInit

LEMMA TableTypeStep == Table!BestTypeOK /\ [TorNext]_torVars => Table!BestTypeOK'
<1>1. [Table!BestNext]_(Table!bestVars) => [TableProofs!BestNext]_(TableProofs!bestVars)
  BY SameActions DEF Table!BestNext, TableProofs!BestNext, Table!bestVars, TableProofs!bestVars
<1>2. TableProofs!BestTypeOK /\ [TableProofs!BestNext]_(TableProofs!bestVars)
        => TableProofs!BestTypeOK'
  BY TableAssumption, TableProofs!BestTypeStep
<1>3. Table!BestTypeOK => TableProofs!BestTypeOK
  BY SameTypes
<1>4. TableProofs!BestTypeOK' => Table!BestTypeOK'
  BY SameSets DEF Table!BestTypeOK, TableProofs!BestTypeOK
<1>5. QED
  BY <1>1, <1>2, <1>3, <1>4, TableStep

-----------------------------------------------------------------------------
(* The store.                                                              *)

LEMMA PushElements ==
  ASSUME NEW S, NEW s \in Seq(S), NEW p \in S
  PROVE  /\ Store!PushFront(s, p) \in Seq(S)
         /\ Len(Store!PushFront(s, p)) <= Depth
         /\ \A i \in 1..Len(Store!PushFront(s, p)) :
              IF i = 1 THEN Store!PushFront(s, p)[i] = p
              ELSE i - 1 \in 1..Len(s) /\ Store!PushFront(s, p)[i] = s[i - 1]
<1> DEFINE n == IF Len(s) < Depth THEN Len(s) + 1 ELSE Depth
           t == [i \in 1..n |-> IF i = 1 THEN p ELSE s[i - 1]]
<1>1. Len(s) \in Nat /\ Depth \in Nat \ {0}
  BY CaverTorParts
<1>2. n \in Nat /\ n <= Depth /\ n <= Len(s) + 1
  BY <1>1
<1>3. ASSUME NEW i \in 1..n, i # 1 PROVE i - 1 \in 1..Len(s)
  BY <1>1, <1>2, <1>3
<1> HIDE DEF n
<1>4. t \in [1..n -> S]
  BY <1>3
<1>5. t \in Seq(S) /\ Len(t) = n
  BY <1>2, <1>4
<1>6. \A i \in 1..n : IF i = 1 THEN t[i] = p ELSE i - 1 \in 1..Len(s) /\ t[i] = s[i - 1]
  BY <1>3
<1>7. Store!PushFront(s, p) = t
  BY DEF Store!PushFront, n
<1>8. QED
  BY <1>2, <1>5, <1>6, <1>7

LEMMA PopElements ==
  ASSUME NEW S, NEW s \in Seq(S), s # <<>>
  PROVE  /\ Store!PopFront(s) \in Seq(S)
         /\ Len(Store!PopFront(s)) <= Len(s)
         /\ \A i \in 1..Len(Store!PopFront(s)) :
              i + 1 \in 1..Len(s) /\ Store!PopFront(s)[i] = s[i + 1]
<1> DEFINE n == Len(s) - 1
           t == [i \in 1..n |-> s[i + 1]]
<1>1. n \in Nat /\ n <= Len(s)
  BY DEF n
<1>2. ASSUME NEW i \in 1..n PROVE i + 1 \in 1..Len(s)
  BY <1>1
<1>3. t \in [1..n -> S]
  BY <1>2
<1> HIDE DEF n
<1>4. t \in Seq(S) /\ Len(t) = n
  BY <1>1, <1>3
<1>5. \A i \in 1..n : t[i] = s[i + 1]
  OBVIOUS
<1>6. Store!PopFront(s) = t
  BY DEF Store!PopFront, n
<1>7. QED
  BY <1>1, <1>2, <1>4, <1>5, <1>6

-----------------------------------------------------------------------------
(* The flows.                                                              *)

LEMMA FlowIdInjective ==
  \A rest, rest2 \in Rests, h, h2 \in AllHosts :
    /\ FlowId(rest, h) \in FlowIds
    /\ FlowId(rest, h) = FlowId(rest2, h2) => h = h2
  BY CaverTorAssumption DEF FlowId, FlowIds, IsInjective

\* The first packet of a flow is sent by what is offered, and the registers
\* say so.
LEMMA FirstPacket ==
  ASSUME NEW f, NEW offer, Flows!FlowStage(f, 1, offer)
  PROVE  /\ Flows!Route(f, 1, offer) = offer
         /\ flow_method_reg' =
              [flow_method_reg EXCEPT ![f] = IF offer = NoPath THEN 0 ELSE 1]
         /\ flow_path_reg' = IF offer = NoPath THEN flow_path_reg
                             ELSE [flow_path_reg EXCEPT ![f] = offer]
<1>1. Flows!FlowSrcRoute(f, 1, offer) = Flows!Offered(offer)
  BY DEF Flows!FlowSrcRoute, Flows!FlowMethodTable
<1>2. CASE offer = NoPath
  <2>1. Flows!Offered(offer) = 0
    BY <1>2 DEF Flows!Offered
  <2>2. QED
    BY <1>1, <1>2, <2>1 DEF Flows!FlowStage, Flows!Route, Flows!FlowMethodTable,
                            Flows!FlowPathTable
<1>3. CASE offer # NoPath
  <2>1. Flows!Offered(offer) = 1
    BY <1>3 DEF Flows!Offered
  <2>2. QED
    BY <1>1, <1>3, <2>1 DEF Flows!FlowStage, Flows!Route, Flows!FlowMethodTable,
                            Flows!FlowPathTable
<1>4. QED
  BY <1>2, <1>3

\* The others are sent by what the registers say, and leave them alone.
LEMMA LaterPacket ==
  ASSUME NEW f, NEW offer, flow_method_reg[f] \in {0, 1}, Flows!FlowStage(f, 0, offer)
  PROVE  /\ Flows!Route(f, 0, offer) =
              IF flow_method_reg[f] = 0 THEN NoPath ELSE flow_path_reg[f]
         /\ flow_method_reg' = flow_method_reg
         /\ flow_path_reg' = flow_path_reg
<1>1. Flows!FlowSrcRoute(f, 0, offer) = flow_method_reg[f]
  BY DEF Flows!FlowSrcRoute, Flows!FlowMethodTable
<1>2. CASE flow_method_reg[f] = 0
  BY <1>1, <1>2 DEF Flows!FlowStage, Flows!Route, Flows!FlowMethodTable, Flows!FlowPathTable
<1>3. CASE flow_method_reg[f] = 1
  BY <1>1, <1>3 DEF Flows!FlowStage, Flows!Route, Flows!FlowMethodTable, Flows!FlowPathTable
<1>4. QED
  BY <1>2, <1>3

-----------------------------------------------------------------------------
(* The invariant.                                                          *)

\* What RemoteLeavesWithHeader asks of the packet sent last.
OutLeaves ==
  out.dst \in Remote /\ out.port # NoPort =>
    /\ out.port \in {DpPort[p] : p \in Uplinks}
    /\ out.type \in {"CAVER_DATA", "CAVER_ACK"} <=> out.was # "CAVER_DATA"
    /\ out.src_route = 1 =>
         /\ out.type = "CAVER_DATA"
         /\ [hop1 |-> out.out_port, hop0 |-> InPort2caverPort(out.port)] \in reported[out.dst]

BestReported == \A h \in Remote : PathOf(best[h]) \in reported[h]
StoreReported == \A h \in Remote : \A i \in 1..Len(stack[h]) : stack[h][i] \in reported[h]
FlowsReported ==
  \A h \in AllHosts, rest \in Rests : flow_method_reg[FlowId(rest, h)] = 1 =>
    h \in Remote /\ flow_path_reg[FlowId(rest, h)] \in reported[h]

StoreTypeOK ==
  /\ stack \in [Remote -> Seq(Paths)]
  /\ \A h \in Remote : Len(stack[h]) <= Depth
FlowsTypeOK ==
  /\ flow_method_reg \in [FlowIds -> {0, 1}]
  /\ flow_path_reg \in [FlowIds -> Paths \cup {ZeroPath}]

\* The registers do not depend on the packet that left last.
RegInv ==
  /\ Table!BestTypeOK
  /\ StoreTypeOK /\ FlowsTypeOK
  /\ reported \in [Remote -> SUBSET Paths]
  /\ BestReported /\ StoreReported /\ FlowsReported

TorInv == RegInv /\ OutLeaves

LEMMA EntryPath == \A e \in Table!Entries : PathOf(e) \in Paths
  BY DEF Table!Entries, PathOf, Paths

LEMMA InvInit == TorInit => TorInv
<1>1. SUFFICES ASSUME TorInit PROVE TorInv
  OBVIOUS
<1>2. Table!BestTypeOK
  BY <1>1, TableTypeInit
<1>3. best = InitBest /\ reported = [h \in Remote |-> {PathOf(InitBest[h])}]
  BY <1>1 DEF TorInit, Table!BestInit
<1>4. \A h \in Remote : InitBest[h] \in Table!Entries
  BY CaverTorParts
<1>5. reported \in [Remote -> SUBSET Paths] /\ BestReported
  BY <1>3, <1>4, EntryPath DEF BestReported
<1>6. stack = [h \in Remote |-> <<>>]
  BY <1>1 DEF TorInit, Store!StackInit
<1>7. StoreTypeOK
  BY <1>6, CaverTorParts DEF StoreTypeOK
<1>8. StoreReported
  <2>1. ASSUME NEW h \in Remote, NEW i \in 1..Len(stack[h]) PROVE stack[h][i] \in reported[h]
    <3>1. stack[h] = <<>>
      BY <1>6
    <3>2. QED
      BY <2>1, <3>1
  <2>2. QED
    BY <2>1 DEF StoreReported
<1>9. /\ flow_method_reg = [f \in FlowIds |-> 0]
      /\ flow_path_reg = [f \in FlowIds |-> ZeroPath]
  BY <1>1 DEF TorInit, Flows!FlowPathInit
<1>10. FlowsTypeOK
  BY <1>9 DEF FlowsTypeOK
<1>11. FlowsReported
  <2>1. ASSUME NEW h \in AllHosts, NEW rest \in Rests
        PROVE  flow_method_reg[FlowId(rest, h)] # 1
    BY <1>9, FlowIdInjective
  <2>2. QED
    BY <2>1 DEF FlowsReported
<1>12. OutLeaves
  <2>1. PICK h \in Local : out = Packet("CAVER_ACK_SECOND", h, 0, 0, DpPort[DownPort[h]])
    BY <1>1 DEF TorInit
  <2>2. out.dst \in Local
    BY <2>1 DEF Packet
  <2>3. QED
    BY <2>2, CaverTorAssumption DEF OutLeaves
<1>13. QED
  BY <1>2, <1>5, <1>7, <1>8, <1>10, <1>11, <1>12 DEF RegInv, TorInv

-----------------------------------------------------------------------------
(* A packet that leaves by ipv4_lpm without a source route.                *)

LEMMA ForwardLeaves ==
  ASSUME NEW type \in {"DATA", "ACK", "CAVER_DATA", "CAVER_ACK_SECOND"}, NEW dst \in AllHosts,
         NEW port \in EcmpPorts(dst), dst \in Remote => type # "CAVER_ACK_SECOND",
         out' = Packet(type, dst, 0, 0, port)
  PROVE  OutLeaves'
<1>1. /\ out'.dst = dst /\ out'.port = port /\ out'.src_route = 0
      /\ out'.type = HeaderProcess(type) /\ out'.was = type
  BY DEF Packet
<1>2. ASSUME dst \in Remote
      PROVE  /\ port \in {DpPort[p] : p \in Uplinks}
             /\ HeaderProcess(type) \in {"CAVER_DATA", "CAVER_ACK"} <=> type # "CAVER_DATA"
  BY <1>2, CaverTorAssumption DEF EcmpPorts, Group, HeaderProcess
<1>3. QED
  BY <1>1, <1>2 DEF OutLeaves

\* A packet that leaves the registers alone.
LEMMA RegistersKept ==
  ASSUME RegInv, UNCHANGED <<tableVars, storeVars, flowVars, reported>>
  PROVE  RegInv'
<1>1. /\ best' = best /\ resubmit' = resubmit /\ pushed' = pushed
      /\ stack' = stack /\ flow_method_reg' = flow_method_reg
      /\ flow_path_reg' = flow_path_reg /\ reported' = reported
  BY DEF tableVars, storeVars, flowVars
<1>2. Table!BestTypeOK'
  BY <1>1 DEF RegInv, Table!BestTypeOK
<1>3. StoreTypeOK' /\ FlowsTypeOK'
  BY <1>1 DEF RegInv, StoreTypeOK, FlowsTypeOK
<1>4. BestReported' /\ StoreReported' /\ FlowsReported'
  BY <1>1 DEF RegInv, BestReported, StoreReported, FlowsReported
<1>5. QED
  BY <1>1, <1>2, <1>3, <1>4 DEF RegInv

\* A packet that is not forwarded, or goes back to the start of the pipeline.
LEMMA NothingLeaves ==
  ASSUME OutLeaves, out' = out, reported' = reported
  PROVE  OutLeaves'
  BY DEF OutLeaves, InPort2caverPort

-----------------------------------------------------------------------------
(* A data packet of a host of the rack.                                    *)

\* What path_table does with the store, and what it offers.
LEMMA StoreTaken ==
  ASSUME RegInv, NEW new_flow \in {0, 1}, NEW dst \in AllHosts, TakePath(new_flow, dst)
  PROVE  /\ StoreTypeOK'
         /\ \A h \in Remote : \A i \in 1..Len(stack'[h]) : stack'[h][i] \in reported[h]
         /\ LET offer == Offer(new_flow, dst)
            IN  offer # NoPath => dst \in Remote /\ offer \in reported[dst] /\ offer \in Paths
<1>1. ASSUME NEW h \in Remote
      PROVE  /\ stack[h] \in Seq(Paths) /\ Len(stack[h]) \in Nat /\ Len(stack[h]) <= Depth
             /\ \A i \in 1..Len(stack[h]) : stack[h][i] \in reported[h]
  BY DEF RegInv, StoreTypeOK, StoreReported
<1>2. ASSUME stack' = stack
      PROVE  /\ StoreTypeOK'
             /\ \A h \in Remote : \A i \in 1..Len(stack'[h]) : stack'[h][i] \in reported[h]
  BY <1>1, <1>2 DEF RegInv, StoreTypeOK
<1>3. ASSUME dst \in Remote, Store!Take(dst)
      PROVE  /\ StoreTypeOK'
             /\ \A h \in Remote : \A i \in 1..Len(stack'[h]) : stack'[h][i] \in reported[h]
  <2> DEFINE s == stack[dst]
             t == Store!PopFront(s)
  <2>1. stack[dst] # <<>> /\ stack' = [stack EXCEPT ![dst] = t]
    BY <1>3 DEF Store!Take
  <2>2. /\ t \in Seq(Paths) /\ Len(t) <= Len(s)
        /\ \A i \in 1..Len(t) : i + 1 \in 1..Len(s) /\ t[i] = s[i + 1]
    BY <1>1, <1>3, <2>1, PopElements
  <2>3. \A i \in 1..Len(t) : t[i] \in reported[dst]
    BY <1>1, <1>3, <2>2
  <2>4. Len(t) <= Depth
    <3>1. Len(t) \in Nat /\ Depth \in Nat
      BY <2>2, CaverTorParts
    <3>2. QED
      BY <1>1, <1>3, <2>2, <3>1
  <2> HIDE DEF t
  <2>5. StoreTypeOK'
    BY <1>1, <2>1, <2>2, <2>4 DEF RegInv, StoreTypeOK
  <2>6. ASSUME NEW h \in Remote, NEW i \in 1..Len(stack'[h])
        PROVE  stack'[h][i] \in reported[h]
    <3>1. CASE h = dst
      <4>1. stack'[h] = t
        BY <2>1, <3>1 DEF RegInv, StoreTypeOK
      <4>2. QED
        BY <2>3, <2>6, <3>1, <4>1
    <3>2. CASE h # dst
      <4>1. stack'[h] = stack[h]
        BY <2>1, <3>2 DEF RegInv, StoreTypeOK
      <4>2. QED
        BY <1>1, <2>6, <4>1
    <3>3. QED
      BY <3>1, <3>2
  <2>7. QED
    BY <2>5, <2>6
<1>4. Offer(new_flow, dst) # NoPath =>
        /\ dst \in Remote
        /\ Offer(new_flow, dst) \in reported[dst] /\ Offer(new_flow, dst) \in Paths
  <2>1. SUFFICES ASSUME Offer(new_flow, dst) # NoPath
                 PROVE  /\ dst \in Remote
                        /\ Offer(new_flow, dst) \in reported[dst]
                        /\ Offer(new_flow, dst) \in Paths
    OBVIOUS
  <2>2. dst \in Remote /\ stack[dst] # <<>> /\ Offer(new_flow, dst) = stack[dst][1]
    BY <2>1 DEF Offer
  <2>3. 1 \in 1..Len(stack[dst])
    BY <1>1, <2>2
  <2>4. stack[dst][1] \in reported[dst]
    BY <1>1, <2>2, <2>3
  <2>5. reported[dst] \subseteq Paths
    BY <2>2 DEF RegInv
  <2>6. QED
    BY <2>2, <2>4, <2>5
<1>5. CASE new_flow = 1 /\ dst \in Remote
  <2>1. Store!Miss(dst) => stack' = stack
    BY DEF Store!Miss
  <2>2. QED
    BY <1>2, <1>3, <1>4, <1>5, <2>1 DEF TakePath
<1>6. CASE ~(new_flow = 1 /\ dst \in Remote)
  <2>1. stack' = stack
    BY <1>6 DEF TakePath, storeVars
  <2>2. QED
    BY <1>2, <1>4, <2>1
<1>7. QED
  BY <1>5, <1>6

\* What flow_method and flow_path do with the offer, and the way they choose.
LEMMA FlowChosen ==
  ASSUME RegInv, NEW new_flow \in {0, 1}, NEW dst \in AllHosts, NEW rest \in Rests, NEW offer,
         offer # NoPath => dst \in Remote /\ offer \in reported[dst] /\ offer \in Paths,
         Flows!FlowStage(FlowId(rest, dst), new_flow, offer), reported' = reported
  PROVE  /\ FlowsTypeOK' /\ FlowsReported'
         /\ LET path == Flows!Route(FlowId(rest, dst), new_flow, offer)
            IN  path # NoPath => dst \in Remote /\ path \in reported[dst]
<1> DEFINE f    == FlowId(rest, dst)
           path == Flows!Route(f, new_flow, offer)
<1>1. f \in FlowIds /\ flow_method_reg[f] \in {0, 1}
  BY FlowIdInjective DEF RegInv, FlowsTypeOK
<1>2. flow_method_reg[f] = 1 => dst \in Remote /\ flow_path_reg[f] \in reported[dst]
  BY DEF RegInv, FlowsReported
<1> HIDE DEF f
<1>3. CASE new_flow = 1
  <2>1. /\ path = offer
        /\ flow_method_reg' = [flow_method_reg EXCEPT ![f] = IF offer = NoPath THEN 0 ELSE 1]
        /\ flow_path_reg' = IF offer = NoPath THEN flow_path_reg
                            ELSE [flow_path_reg EXCEPT ![f] = offer]
    BY <1>3, FirstPacket DEF f
  <2>2. FlowsTypeOK'
    BY <1>1, <2>1 DEF RegInv, FlowsTypeOK
  <2>3. ASSUME NEW h \in AllHosts, NEW r2 \in Rests, flow_method_reg'[FlowId(r2, h)] = 1
        PROVE  h \in Remote /\ flow_path_reg'[FlowId(r2, h)] \in reported[h]
    <3> DEFINE g == FlowId(r2, h)
    <3>1. g \in FlowIds
      BY FlowIdInjective
    <3>2. CASE g = f
      <4>1. h = dst
        BY <3>2, FlowIdInjective DEF f
      <4>2. offer # NoPath
        BY <1>1, <2>1, <2>3, <3>2 DEF RegInv, FlowsTypeOK
      <4>3. flow_path_reg'[g] = offer
        BY <1>1, <2>1, <3>2, <4>2 DEF RegInv, FlowsTypeOK
      <4>4. QED
        BY <4>1, <4>2, <4>3
    <3>3. CASE g # f
      <4>1. flow_method_reg'[g] = flow_method_reg[g] /\ flow_path_reg'[g] = flow_path_reg[g]
        BY <1>1, <2>1, <3>1, <3>3 DEF RegInv, FlowsTypeOK
      <4>2. QED
        BY <2>3, <4>1 DEF RegInv, FlowsReported
    <3>4. QED
      BY <3>2, <3>3
  <2>4. FlowsReported'
    BY <2>3 DEF FlowsReported, FlowId
  <2>5. QED
    BY <2>1, <2>2, <2>4 DEF f
<1>4. CASE new_flow = 0
  <2>1. /\ path = IF flow_method_reg[f] = 0 THEN NoPath ELSE flow_path_reg[f]
        /\ flow_method_reg' = flow_method_reg
        /\ flow_path_reg' = flow_path_reg
    BY <1>1, <1>4, LaterPacket DEF f
  <2>2. FlowsTypeOK' /\ FlowsReported'
    BY <2>1 DEF RegInv, FlowsTypeOK, FlowsReported
  <2>3. path # NoPath => dst \in Remote /\ path \in reported[dst]
    BY <1>1, <1>2, <2>1
  <2>4. QED
    BY <2>2, <2>3 DEF f
<1>5. QED
  BY <1>3, <1>4

LEMMA RawDataKeeps ==
  ASSUME RegInv, NEW src, NEW dst \in AllHosts, NEW rest \in Rests, NEW new_flow \in {0, 1},
         NEW port, RawData(src, dst, rest, new_flow, port)
  PROVE  /\ RegInv' /\ OutLeaves'
         /\ out' = Packet("DATA", dst, out'.src_route, out'.out_port, port)
         /\ out'.src_route \in {0, 1}
         /\ dst \in Local => out'.src_route = 0 /\ port \in EcmpPorts(dst)
<1> DEFINE f     == FlowId(rest, dst)
           offer == Offer(new_flow, dst)
           path  == Flows!Route(f, new_flow, offer)
<1>1. /\ TakePath(new_flow, dst)
      /\ Flows!FlowStage(f, new_flow, offer)
      /\ \/ /\ path # NoPath
            /\ port = CaverPort2switchPort(path.hop0)
            /\ out' = Packet("DATA", dst, 1, path.hop1, port)
         \/ /\ path = NoPath
            /\ port \in EcmpPorts(dst)
            /\ out' = Packet("DATA", dst, 0, 0, port)
      /\ UNCHANGED tableVars /\ reported' = reported
  BY DEF RawData, TableIp
<1>2. /\ StoreTypeOK'
      /\ \A h \in Remote : \A i \in 1..Len(stack'[h]) : stack'[h][i] \in reported[h]
      /\ offer # NoPath => dst \in Remote /\ offer \in reported[dst] /\ offer \in Paths
  BY <1>1, StoreTaken
<1> HIDE DEF offer
<1>3. /\ FlowsTypeOK' /\ FlowsReported'
      /\ path # NoPath => dst \in Remote /\ path \in reported[dst]
  BY <1>1, <1>2, FlowChosen
<1> HIDE DEF path, f
<1>4. OutLeaves'
  <2>1. CASE path = NoPath
    <3>1. port \in EcmpPorts(dst) /\ out' = Packet("DATA", dst, 0, 0, port)
      BY <1>1, <2>1
    <3>2. QED
      BY <3>1, ForwardLeaves
  <2>2. CASE path # NoPath
    <3>1. dst \in Remote /\ path \in reported[dst] /\ reported[dst] \subseteq Paths
      BY <1>3, <2>2 DEF RegInv
    <3>2. path.hop0 \in Uplinks /\ path = [hop1 |-> path.hop1, hop0 |-> path.hop0]
      BY <3>1 DEF Paths
    <3>3. port = DpPort[path.hop0] /\ out' = Packet("DATA", dst, 1, path.hop1, port)
      BY <1>1, <2>2 DEF CaverPort2switchPort
    <3>4. InPort2caverPort(port) = path.hop0
      BY <3>2, <3>3, PortRoundTrip DEF CaverPorts
    <3>5. /\ out'.dst = dst /\ out'.port = port
          /\ out'.type = "CAVER_DATA" /\ out'.was = "DATA"
          /\ out'.out_port = path.hop1
      BY <3>3 DEF Packet, HeaderProcess
    <3>6. InPort2caverPort(out'.port) = path.hop0
      BY <3>4, <3>5
    <3>7. QED
      BY <1>1, <3>1, <3>2, <3>3, <3>5, <3>6 DEF OutLeaves, InPort2caverPort
  <2>3. QED
    BY <2>1, <2>2
<1>5. Table!BestTypeOK' /\ BestReported'
  BY <1>1 DEF RegInv, tableVars, Table!BestTypeOK, BestReported
<1>6. StoreReported'
  BY <1>1, <1>2 DEF StoreReported
<1>7. reported' \in [Remote -> SUBSET Paths]
  BY <1>1 DEF RegInv
<1>8. /\ out' = Packet("DATA", dst, out'.src_route, out'.out_port, port)
      /\ out'.src_route \in {0, 1}
      /\ dst \in Local => out'.src_route = 0 /\ port \in EcmpPorts(dst)
  <2>1. CASE path = NoPath
    BY <1>1, <2>1 DEF Packet
  <2>2. CASE path # NoPath
    BY <1>1, <1>3, <2>2, CaverTorAssumption DEF Packet
  <2>3. QED
    BY <2>1, <2>2
<1>9. QED
  BY <1>2, <1>3, <1>4, <1>5, <1>6, <1>7, <1>8 DEF RegInv

-----------------------------------------------------------------------------
(* The passes of an acknowledgement.                                       *)

LEMMA FirstPassKeeps ==
  ASSUME RegInv, Table!BestTypeOK', NEW src \in Remote, NEW dst, NEW p \in Uplinks, NEW ce \in CEs,
         NEW report \in Reports, CaverAckFirst(src, dst, DpPort[p], ce, report)
  PROVE  RegInv' /\ out' = out /\ reported' = reported
<1>1. /\ best' = best /\ stack' = stack /\ flow_method_reg' = flow_method_reg
      /\ flow_path_reg' = flow_path_reg /\ reported' = reported /\ out' = out
  BY DEF CaverAckFirst, storeVars, flowVars, Table!AckFirst
<1>2. StoreTypeOK' /\ FlowsTypeOK'
  BY <1>1 DEF RegInv, StoreTypeOK, FlowsTypeOK
<1>3. BestReported' /\ StoreReported' /\ FlowsReported'
  BY <1>1 DEF RegInv, BestReported, StoreReported, FlowsReported
<1>4. QED
  BY <1>1, <1>2, <1>3 DEF RegInv

\* The paths the second pass writes are those it read or was told.
LEMMA SecondPassPaths ==
  ASSUME Table!BestTypeOK, NEW src \in Remote, Table!AckSecond(src)
  PROVE  LET r     == Head(resubmit[src])
             after == Table!AfterBest(best[src], r)
         IN  /\ best' = [best EXCEPT ![src] = after]
             /\ Table!BeforeBest(r) \in Table!Entries
             /\ Table!BeforeGood(r) \in Table!Entries
             /\ after \in {best[src], Table!BeforeBest(r)}
             /\ Table!NewPath(after, r) \in {after, Table!BeforeGood(r)}
<1> DEFINE r == Head(resubmit[src])
<1>1. TableProofs!BestTypeOK /\ TableProofs!AckSecond(src)
  BY SameTypes, SameActions
<1>2. r \in TableProofs!Acks
  BY <1>1, TableAssumption, TableProofs!SecondPass
<1>3. Table!BeforeBest(r) \in Table!Entries /\ Table!BeforeGood(r) \in Table!Entries
  BY <1>2, TableAssumption, TableProofs!BeforeType, SameBefore, SameSets
<1>4. QED
  BY <1>3 DEF Table!AckSecond, Table!AfterBest, Table!NewPath

LEMMA SecondPassKeeps ==
  ASSUME RegInv, Table!BestTypeOK', NEW src \in Remote, NEW dst \in Local, NEW port,
         CaverAckSecond(src, dst, port)
  PROVE  RegInv' /\ OutLeaves' /\ \E path \in Paths : Store!Push(src, path)
<1> DEFINE r     == Head(resubmit[src])
           bb    == Table!BeforeBest(r)
           bg    == Table!BeforeGood(r)
           after == Table!AfterBest(best[src], r)
           p     == PathOf(Table!NewPath(after, r))
           s     == stack[src]
           t     == Store!PushFront(s, p)
<1>1. /\ Table!AckSecond(src)
      /\ Store!Push(src, p)
      /\ reported' = [reported EXCEPT ![src] = reported[src] \cup {PathOf(bb), PathOf(bg)}]
      /\ port \in EcmpPorts(dst)
      /\ out' = Packet("CAVER_ACK_SECOND", dst, 0, 0, port)
      /\ flow_method_reg' = flow_method_reg /\ flow_path_reg' = flow_path_reg
  BY DEF CaverAckSecond, TableIp, flowVars
<1>2. /\ best' = [best EXCEPT ![src] = after]
      /\ bb \in Table!Entries /\ bg \in Table!Entries
      /\ after \in {best[src], bb}
      /\ Table!NewPath(after, r) \in {after, bg}
  BY <1>1, SecondPassPaths DEF RegInv
<1>3. PathOf(bb) \in Paths /\ PathOf(bg) \in Paths
  BY <1>2, EntryPath
<1>4. /\ reported' \in [Remote -> SUBSET Paths]
      /\ \A h \in Remote : reported[h] \subseteq reported'[h]
      /\ PathOf(bb) \in reported'[src] /\ PathOf(bg) \in reported'[src]
  BY <1>1, <1>3 DEF RegInv
<1>5. PathOf(best[src]) \in reported'[src]
  BY <1>4 DEF RegInv, BestReported
<1>6. PathOf(after) \in reported'[src] /\ p \in reported'[src]
  BY <1>2, <1>4, <1>5
<1>7. p \in Paths
  BY <1>4, <1>6
<1> HIDE DEF r, bb, bg, after, p
<1>8. /\ stack' = [stack EXCEPT ![src] = t]
      /\ s \in Seq(Paths)
      /\ \A i \in 1..Len(s) : s[i] \in reported'[src]
  BY <1>1, <1>4 DEF Store!Push, RegInv, StoreTypeOK, StoreReported
<1>9. /\ t \in Seq(Paths) /\ Len(t) <= Depth
      /\ \A i \in 1..Len(t) :
           IF i = 1 THEN t[i] = p ELSE i - 1 \in 1..Len(s) /\ t[i] = s[i - 1]
  <2>1. ASSUME NEW x \in Seq(Paths), NEW y \in Paths
        PROVE  LET z == Store!PushFront(x, y)
               IN  /\ z \in Seq(Paths) /\ Len(z) <= Depth
                   /\ \A i \in 1..Len(z) :
                        IF i = 1 THEN z[i] = y ELSE i - 1 \in 1..Len(x) /\ z[i] = x[i - 1]
    BY PushElements
  <2>2. p \in Paths /\ s \in Seq(Paths)
    BY <1>7, <1>8
  <2>3. QED
    BY <2>1, <2>2
<1>10. \A i \in 1..Len(t) : t[i] \in reported'[src]
  BY <1>6, <1>8, <1>9
<1> HIDE DEF t
<1>11. StoreTypeOK'
  BY <1>8, <1>9 DEF RegInv, StoreTypeOK
<1>12. StoreReported'
  <2>1. ASSUME NEW h \in Remote, NEW i \in 1..Len(stack'[h]) PROVE stack'[h][i] \in reported'[h]
    <3>1. CASE h = src
      <4>1. stack'[h] = t
        BY <1>8, <3>1 DEF RegInv, StoreTypeOK
      <4>2. QED
        BY <1>10, <2>1, <3>1, <4>1
    <3>2. CASE h # src
      <4>1. stack'[h] = stack[h]
        BY <1>8, <3>2 DEF RegInv, StoreTypeOK
      <4>2. stack[h][i] \in reported[h]
        BY <2>1, <4>1 DEF RegInv, StoreReported
      <4>3. QED
        BY <1>4, <4>1, <4>2
    <3>3. QED
      BY <3>1, <3>2
  <2>2. QED
    BY <2>1 DEF StoreReported
<1>13. BestReported'
  <2>1. ASSUME NEW h \in Remote PROVE PathOf(best'[h]) \in reported'[h]
    <3>1. CASE h = src
      BY <1>2, <1>6, <3>1 DEF RegInv, Table!BestTypeOK
    <3>2. CASE h # src
      <4>1. best'[h] = best[h]
        BY <1>2, <3>2 DEF RegInv, Table!BestTypeOK
      <4>2. QED
        BY <1>4, <4>1 DEF RegInv, BestReported
    <3>3. QED
      BY <3>1, <3>2
  <2>2. QED
    BY <2>1 DEF BestReported, PathOf
<1>14. FlowsTypeOK' /\ FlowsReported'
  BY <1>1, <1>4 DEF RegInv, FlowsTypeOK, FlowsReported
<1>15. OutLeaves'
  <2>1. out'.dst = dst /\ dst \notin Remote
    BY <1>1, CaverTorAssumption DEF Packet
  <2>2. QED
    BY <2>1 DEF OutLeaves
<1>16. QED
  BY <1>1, <1>4, <1>7, <1>11, <1>12, <1>13, <1>14, <1>15 DEF RegInv

-----------------------------------------------------------------------------
(* Every step.                                                             *)

\* A step of the pipeline keeps the registers right, and a packet it sends
\* leaves as it should.
LEMMA RegStep == RegInv /\ [TorNext]_torVars => RegInv' /\ (OutLeaves => OutLeaves')
<1>1. SUFFICES ASSUME RegInv, [TorNext]_torVars
               PROVE  RegInv' /\ (OutLeaves => OutLeaves')
  OBVIOUS
<1>2. Table!BestTypeOK'
  BY <1>1, TableTypeStep DEF RegInv
<1>3. ASSUME NEW src \in Local, NEW dst \in AllHosts, NEW rest \in Rests,
             NEW new_flow \in {0, 1}, NEW port \in DpPorts,
             RawData(src, dst, rest, new_flow, port)
      PROVE  RegInv' /\ OutLeaves'
  BY <1>1, <1>3, RawDataKeeps
<1>4. ASSUME NEW type \in {"CAVER_DATA", "ACK"}, NEW dst \in AllHosts, NEW port \in DpPorts,
             Forward(type, dst, port)
      PROVE  RegInv' /\ OutLeaves'
  <2>1. OutLeaves'
    BY <1>4, ForwardLeaves, CaverTorAssumption DEF Forward
  <2>2. QED
    BY <1>1, <1>4, <2>1, RegistersKept DEF Forward
<1>5. ASSUME NEW dst \in AllHosts, OtherPacket(dst) PROVE RegInv' /\ OutLeaves'
  <2>1. OutLeaves'
    BY <1>5 DEF OtherPacket, OutLeaves
  <2>2. QED
    BY <1>1, <1>5, <2>1, RegistersKept DEF OtherPacket
<1>6. ASSUME NEW src \in Remote, NEW dst \in Local, NEW p \in Uplinks, NEW ce \in CEs,
             NEW report \in Reports, CaverAckFirst(src, dst, DpPort[p], ce, report)
      PROVE  RegInv' /\ (OutLeaves => OutLeaves')
  BY <1>1, <1>2, <1>6, FirstPassKeeps, NothingLeaves
<1>7. ASSUME NEW src \in Remote, NEW dst \in Local, NEW port \in DpPorts,
             CaverAckSecond(src, dst, port)
      PROVE  RegInv' /\ OutLeaves'
  BY <1>1, <1>2, <1>7, SecondPassKeeps
<1>8. CASE UNCHANGED torVars
  <2>1. out' = out /\ reported' = reported /\ UNCHANGED <<tableVars, storeVars, flowVars, reported>>
    BY <1>8 DEF torVars
  <2>2. QED
    BY <1>1, <2>1, NothingLeaves, RegistersKept
<1>9. CASE TorNext
  <2>1. ASSUME NEW dst \in AllHosts, NEW port \in DpPorts, CaverData(dst, port)
        PROVE  RegInv' /\ OutLeaves'
    BY <1>4, <2>1 DEF CaverData
  <2>2. ASSUME NEW dst \in AllHosts, NEW port \in DpPorts, RawAck(dst, port)
        PROVE  RegInv' /\ OutLeaves'
    BY <1>4, <2>2 DEF RawAck
  <2>3. QED
    BY <1>3, <1>5, <1>6, <1>7, <1>9, <2>1, <2>2 DEF TorNext
<1>10. QED
  BY <1>1, <1>8, <1>9

LEMMA InvStep == TorInv /\ [TorNext]_torVars => TorInv'
<1>1. SUFFICES ASSUME RegInv, OutLeaves, [TorNext]_torVars PROVE RegInv' /\ OutLeaves'
  BY DEF TorInv
<1>2. QED
  BY <1>1, RegStep

\* What the invariant says of the registers.
LEMMA RegInvMeans == RegInv => TorTypeOK /\ PathsReachTheirHost
<1>1. RegInv => TorTypeOK
  BY DEF RegInv, TorTypeOK, StoreTypeOK, FlowsTypeOK, Flows!FlowPathTypeOK
<1>2. RegInv => PathsReachTheirHost
  BY DEF RegInv, BestReported, StoreReported, FlowsReported, PathsReachTheirHost
<1>3. QED
  BY <1>1, <1>2

\* The registers of the three parts keep their types.
THEOREM TorTypeCorrect == TorSpec => []TorTypeOK
<1>1. TorInv => TorTypeOK
  BY RegInvMeans DEF TorInv
<1>2. QED
  BY <1>1, InvInit, InvStep, PTL DEF TorSpec

\* No table holds a path for a host that acknowledgements of another one
\* reported, for any number of hosts and flows.
THEOREM PathsStayWithTheirHost == TorSpec => []PathsReachTheirHost
<1>1. TorInv => PathsReachTheirHost
  BY RegInvMeans DEF TorInv
<1>2. QED
  BY <1>1, InvInit, InvStep, PTL DEF TorSpec

\* Only the second pass of an acknowledgement adds to what was reported.
LEMMA ReportsComeWithAcks ==
  ASSUME [TorNext]_torVars
  PROVE  reported' = reported \/ out'.dst \in Local
<1>1. ASSUME NEW src, NEW dst \in Local, NEW port, CaverAckSecond(src, dst, port)
      PROVE  out'.dst \in Local
  BY <1>1 DEF CaverAckSecond, Packet
<1>2. QED
  BY <1>1 DEF TorNext, RawData, CaverData, RawAck, Forward, OtherPacket, CaverAckFirst, torVars

\* What leaves for another rack leaves by an uplink, with the header unless it
\* came in with one, and its source route was reported for its destination:
\* whatever the fabric brings back, data for other racks included.
THEOREM RemotePacketsHaveHeader == TorSpec => RemoteLeavesWithHeader
<1>1. TorInv /\ [TorNext]_torVars =>
        (out'.dst \in Remote /\ out'.port # NoPort =>
           /\ out'.port \in {DpPort[p] : p \in Uplinks}
           /\ out'.type \in {"CAVER_DATA", "CAVER_ACK"} <=> out'.was # "CAVER_DATA"
           /\ out'.src_route = 1 =>
                /\ out'.type = "CAVER_DATA"
                /\ [hop1 |-> out'.out_port, hop0 |-> InPort2caverPort(out'.port)]
                     \in reported[out'.dst])
  <2>1. SUFFICES ASSUME TorInv, [TorNext]_torVars, out'.dst \in Remote, out'.port # NoPort
                 PROVE  /\ out'.port \in {DpPort[p] : p \in Uplinks}
                        /\ out'.type \in {"CAVER_DATA", "CAVER_ACK"} <=> out'.was # "CAVER_DATA"
                        /\ out'.src_route = 1 =>
                             /\ out'.type = "CAVER_DATA"
                             /\ [hop1 |-> out'.out_port, hop0 |-> InPort2caverPort(out'.port)]
                                  \in reported[out'.dst]
    OBVIOUS
  <2>2. OutLeaves'
    BY <2>1, InvStep DEF TorInv
  <2>3. reported' = reported
    BY <2>1, ReportsComeWithAcks, CaverTorAssumption
  <2>4. QED
    BY <2>1, <2>2, <2>3 DEF OutLeaves, InPort2caverPort
<1>2. QED
  BY <1>1, InvInit, InvStep, PTL DEF TorSpec, RemoteLeavesWithHeader

-----------------------------------------------------------------------------
(* The pipeline takes the steps of the store.                              *)

LEMMA StoreStep == RegInv /\ [TorNext]_torVars => [Store!StackNext]_(Store!stackVars)
<1>1. SUFFICES ASSUME RegInv, TorNext PROVE [Store!StackNext]_(Store!stackVars)
  BY DEF torVars, storeVars, Store!stackVars
<1>2. ASSUME NEW src, NEW dst, NEW rest, NEW new_flow, NEW port,
             RawData(src, dst, rest, new_flow, port)
      PROVE  [Store!StackNext]_(Store!stackVars)
  <2>1. TakePath(new_flow, dst)
    BY <1>2 DEF RawData, TableIp
  <2>2. QED
    BY <2>1 DEF TakePath, storeVars, Store!StackNext, Store!stackVars
<1>3. ASSUME NEW type, NEW dst, NEW port, Forward(type, dst, port)
      PROVE  UNCHANGED Store!stackVars
  BY <1>3 DEF Forward, storeVars, Store!stackVars
<1>4. ASSUME NEW dst, OtherPacket(dst) PROVE UNCHANGED Store!stackVars
  BY <1>4 DEF OtherPacket, storeVars, Store!stackVars
<1>5. ASSUME NEW src, NEW dst, NEW dp, NEW ce, NEW report,
             CaverAckFirst(src, dst, dp, ce, report)
      PROVE  UNCHANGED Store!stackVars
  BY <1>5 DEF CaverAckFirst, storeVars, Store!stackVars
<1>6. ASSUME NEW src \in Remote, NEW dst \in Local, NEW port, CaverAckSecond(src, dst, port)
      PROVE  Store!StackNext
  <2>1. Table!BestTypeOK'
    BY <1>1, TableTypeStep DEF RegInv
  <2>2. \E path \in Paths : Store!Push(src, path)
    BY <1>1, <1>6, <2>1, SecondPassKeeps
  <2>3. QED
    BY <2>2 DEF Store!StackNext
<1>7. QED
  BY <1>1, <1>2, <1>3, <1>4, <1>5, <1>6 DEF TorNext, CaverData, RawAck

\* The pipeline implements the store of paths, and with PathRingProofs so do
\* the registers behind it.
THEOREM TorImplementsStore == TorSpec => Store!StackSpec
<1>1. TorInit => Store!StackInit
  BY DEF TorInit
<1>2. QED
  BY <1>1, InvInit, InvStep, StoreStep, PTL DEF TorInv, TorSpec, Store!StackSpec
=============================================================================

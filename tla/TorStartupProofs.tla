-------------------------- MODULE TorStartupProofs --------------------------
(***************************************************************************)
(* Proofs about the start-up of a CAVER ToR, for any hosts, uplinks,       *)
(* reports and overlap, and any moments at which packets come.             *)
(*                                                                         *)
(* EntriesLeadUp: an acknowledgement met the tables as they are or as they *)
(* were one call ago, and init_BestTable is three calls behind Dre_table,  *)
(* so that whatever is in its second pass then took its uplink along.      *)
(* NewPathsLeadUp: the same of the path that the second pass pushes.       *)
(* RoutesAreMarked: header_process is filled before anything gives a flow  *)
(* a path.                                                                 *)
(***************************************************************************)
EXTENDS TorStartup, Integers, SequenceTheorems, TLAPS

-----------------------------------------------------------------------------
(* The order of the calls.                                                 *)

LEMMA Calls ==
  /\ Len(Order) = 19
  /\ Order[13] = "ipv4_lpm" /\ Order[14] = "header_process" /\ Order[16] = "Dre_table"
  /\ Order[18] = "ACK_prepare" /\ Order[19] = "BestTable_reg"
  /\ \A i \in 1..18 : Order[i] # "BestTable_reg"
  /\ \A i \in 1..16 : Order[i] # "get_table_ip"
  BY DEF Order

LEMMA CallsMade ==
  ASSUME loaded \in 0..19
  PROVE  /\ loaded >= 14 => Has("header_process")
         /\ loaded >= 16 => Has("Dre_table")
         /\ loaded >= 18 => Has("ACK_prepare")
         /\ Has("BestTable_reg") => loaded = 19
         /\ Has("get_table_ip") => loaded >= 17
<1>1. \A i \in 1..19 : loaded >= i => i \in 1..loaded
  OBVIOUS
<1>2. /\ loaded >= 14 => Has("header_process")
      /\ loaded >= 16 => Has("Dre_table")
      /\ loaded >= 18 => Has("ACK_prepare")
  BY <1>1, Calls DEF Has
<1>3. Has("BestTable_reg") => loaded = 19
  <2>1. SUFFICES ASSUME loaded # 19, NEW i \in 1..loaded PROVE Order[i] # "BestTable_reg"
    BY DEF Has
  <2>2. i \in 1..18
    BY <2>1
  <2>3. QED
    BY <2>2, Calls
<1>4. Has("get_table_ip") => loaded >= 17
  <2>1. SUFFICES ASSUME ~(loaded >= 17), NEW i \in 1..loaded PROVE Order[i] # "get_table_ip"
    BY DEF Has
  <2>2. i \in 1..16
    BY <2>1
  <2>3. QED
    BY <2>2, Calls
<1>5. QED
  BY <1>2, <1>3, <1>4

-----------------------------------------------------------------------------
(* The invariant.                                                          *)

BestWords == [CE : CEs, hop1 : Hops \cup {0}, hop0 : Uplinks \cup {0}]
Waiting == [port : Uplinks \cup {0}, CE : CEs, best_port : Uplinks \cup {0},
            report : Reports, since : Nat]

StartTypes ==
  /\ loaded \in 0..19
  /\ best \in [Hosts -> BestWords]
  /\ resubmit \in [Hosts -> Seq(Waiting)]
  /\ flow_method_reg \in [Hosts -> {0, 1}]

\* An acknowledgement waits since the last call or the one before, and has
\* its uplink if Dre_table was there.
FreshAcks ==
  \A h \in Hosts : \A i \in 1..Len(resubmit[h]) :
    LET r == resubmit[h][i]
    IN  /\ r.since <= loaded /\ loaded <= r.since + 1
        /\ r.since >= 16 => r.port \in Uplinks

EntriesUp == loaded = 19 => \A h \in Hosts : best[h].hop0 \in Uplinks

\* No flow has a path before get_table_ip.
RoutesLate == \A h \in Hosts : flow_method_reg[h] = 1 => loaded >= 17
OutMarked == out.src_route = 1 => out.marked

StartInv == StartTypes /\ FreshAcks /\ EntriesUp /\ RoutesLate /\ OutMarked

LEMMA StartInvInit == StartupInit => StartInv
<1>1. SUFFICES ASSUME StartupInit PROVE StartInv
  OBVIOUS
<1>2. /\ loaded = 0 /\ best = [h \in Hosts |-> Zero] /\ resubmit = [h \in Hosts |-> <<>>]
      /\ flow_method_reg = [h \in Hosts |-> 0] /\ out.src_route = 0
  BY <1>1 DEF StartupInit, Flows!FlowPathInit
<1>3. Zero \in BestWords
  BY TorStartupAssumption DEF Zero, BestWords
<1>4. StartTypes
  BY <1>2, <1>3 DEF StartTypes
<1>5. FreshAcks
  <2>1. ASSUME NEW h \in Hosts, NEW i \in 1..Len(resubmit[h]) PROVE FALSE
    <3>1. resubmit[h] = <<>>
      BY <1>2
    <3>2. QED
      BY <2>1, <3>1
  <2>2. QED
    BY <2>1 DEF FreshAcks
<1>6. EntriesUp /\ OutMarked
  BY <1>2 DEF EntriesUp, OutMarked
<1>7. RoutesLate
  <2>1. ASSUME NEW h \in Hosts PROVE flow_method_reg[h] = 0 /\ flow_method_reg[h] # 1
    BY <1>2
  <2>2. QED
    BY <2>1 DEF RoutesLate
<1>8. QED
  BY <1>4, <1>5, <1>6, <1>7 DEF StartInv

-----------------------------------------------------------------------------
(* The steps.                                                              *)

LEMMA LoadKeeps == StartInv /\ Load => StartInv'
<1>1. SUFFICES ASSUME StartInv, Load PROVE StartInv'
  OBVIOUS
<1>2. /\ loaded # 19 /\ loaded' = loaded + 1
      /\ \A h \in Hosts : \A i \in 1..Len(resubmit[h]) : resubmit[h][i].since = loaded
      /\ best' = IF Order[loaded + 1] = "BestTable_reg" THEN InitBest ELSE best
      /\ resubmit' = resubmit /\ flow_method_reg' = flow_method_reg /\ out' = out
  BY <1>1, Calls DEF Load, Finished
<1>3. loaded \in Nat /\ loaded' \in 0..19
  BY <1>1, <1>2 DEF StartInv, StartTypes
<1>4. \A h \in Hosts : InitBest[h] \in BestWords /\ InitBest[h].hop0 \in Uplinks
  BY TorStartupAssumption DEF BestWords
<1>5. InitBest \in [Hosts -> BestWords]
  BY <1>4, TorStartupAssumption
<1>6. StartTypes'
  BY <1>1, <1>2, <1>3, <1>5 DEF StartInv, StartTypes
<1>7. FreshAcks'
  BY <1>1, <1>2, <1>3 DEF StartInv, FreshAcks
<1>8. EntriesUp'
  <2>1. loaded' = 19 => best' = InitBest
    BY <1>2, <1>3, Calls
  <2>2. QED
    BY <1>4, <2>1 DEF EntriesUp
<1>9. RoutesLate' /\ OutMarked'
  BY <1>1, <1>2, <1>3 DEF StartInv, RoutesLate, OutMarked
<1>10. QED
  BY <1>6, <1>7, <1>8, <1>9 DEF StartInv

LEMMA FirstKeeps ==
  ASSUME StartInv, NEW h \in Hosts, NEW port \in Uplinks, NEW ce \in CEs, NEW report \in Reports,
         AckFirst(h, port, ce, report)
  PROVE  StartInv'
<1> DEFINE r == [port |-> IF Has("Dre_table") THEN port ELSE 0,
                 CE |-> IF Has("Dre_table") THEN ce ELSE 0,
                 best_port |-> IF Has("BestTable") THEN best[h].hop0 ELSE 0,
                 report |-> report, since |-> loaded]
<1>1. /\ resubmit' = [resubmit EXCEPT ![h] = Append(resubmit[h], r)]
      /\ loaded' = loaded /\ best' = best /\ flow_method_reg' = flow_method_reg /\ out' = out
  BY DEF AckFirst
<1>2. loaded \in 0..19 /\ loaded \in Nat
  BY DEF StartInv, StartTypes
<1>3. best[h].hop0 \in Uplinks \cup {0}
  BY DEF StartInv, StartTypes, BestWords
<1>4. r \in Waiting
  BY <1>2, <1>3, TorStartupAssumption DEF Waiting
<1>5. r.since = loaded /\ (loaded >= 16 => r.port \in Uplinks)
  BY <1>2, CallsMade
<1> HIDE DEF r
<1>6. /\ resubmit[h] \in Seq(Waiting)
      /\ Append(resubmit[h], r) \in Seq(Waiting)
      /\ Len(resubmit[h]) \in Nat
      /\ Len(Append(resubmit[h], r)) = Len(resubmit[h]) + 1
      /\ \A i \in 1..Len(resubmit[h]) : Append(resubmit[h], r)[i] = resubmit[h][i]
      /\ Append(resubmit[h], r)[Len(resubmit[h]) + 1] = r
  <2>1. resubmit[h] \in Seq(Waiting)
    BY DEF StartInv, StartTypes
  <2>2. QED
    BY <1>4, <2>1, AppendProperties, LenProperties
<1>7. StartTypes'
  BY <1>1, <1>6 DEF StartInv, StartTypes
<1>8. FreshAcks'
  <2>1. ASSUME NEW k \in Hosts, NEW i \in 1..Len(resubmit'[k])
        PROVE  /\ resubmit'[k][i].since <= loaded /\ loaded <= resubmit'[k][i].since + 1
               /\ resubmit'[k][i].since >= 16 => resubmit'[k][i].port \in Uplinks
    <3>1. CASE k = h
      <4>1. resubmit'[k] = Append(resubmit[h], r)
        BY <1>1, <3>1 DEF StartInv, StartTypes
      <4>2. CASE i = Len(resubmit[h]) + 1
        BY <1>2, <1>5, <1>6, <4>1, <4>2
      <4>3. CASE i # Len(resubmit[h]) + 1
        <5>1. i \in 1..Len(resubmit[h]) /\ resubmit'[k][i] = resubmit[h][i]
          BY <1>6, <2>1, <4>1, <4>3
        <5>2. QED
          BY <5>1 DEF StartInv, FreshAcks
      <4>4. QED
        BY <4>2, <4>3
    <3>2. CASE k # h
      <4>1. resubmit'[k] = resubmit[k]
        BY <1>1, <3>2 DEF StartInv, StartTypes
      <4>2. QED
        BY <2>1, <4>1 DEF StartInv, FreshAcks
    <3>3. QED
      BY <3>1, <3>2
  <2>2. QED
    BY <1>1, <2>1 DEF FreshAcks
<1>9. EntriesUp' /\ RoutesLate' /\ OutMarked'
  BY <1>1 DEF StartInv, EntriesUp, RoutesLate, OutMarked
<1>10. QED
  BY <1>7, <1>8, <1>9 DEF StartInv

LEMMA SecondKeeps ==
  ASSUME StartInv, NEW h \in Hosts, AckSecond(h)
  PROVE  StartInv'
<1> DEFINE r     == Head(resubmit[h])
           bb    == BeforeBest(r)
           after == AfterBest(h, r)
<1>1. /\ resubmit[h] # <<>>
      /\ best' = [best EXCEPT ![h] = after]
      /\ resubmit' = [resubmit EXCEPT ![h] = Tail(resubmit[h])]
      /\ loaded' = loaded /\ flow_method_reg' = flow_method_reg /\ out' = out
  BY DEF AckSecond
<1>2. /\ resubmit[h] \in Seq(Waiting)
      /\ r \in Waiting /\ 1 \in 1..Len(resubmit[h]) /\ r = resubmit[h][1]
      /\ Tail(resubmit[h]) \in Seq(Waiting)
      /\ \A i \in 1..Len(Tail(resubmit[h])) :
           /\ i + 1 \in 1..Len(resubmit[h])
           /\ Tail(resubmit[h])[i] = resubmit[h][i + 1]
  <2>1. resubmit[h] \in Seq(Waiting)
    BY DEF StartInv, StartTypes
  <2>2. QED
    BY <1>1, <2>1, HeadTailProperties, EmptySeq, LenProperties
<1>3. bb \in BestWords
  <2>1. /\ r.port \in Uplinks \cup {0} /\ r.CE \in CEs
        /\ r.report.best_port \in Hops /\ r.report.best_CE \in CEs
    BY <1>2, TorStartupAssumption DEF Waiting
  <2> HIDE DEF r
  <2>2. QED
    BY <2>1, TorStartupAssumption
       DEF BeforeBest, Table!BeforeBest, Table!Larger, Zero, BestWords
<1>4. after \in {bb, best[h]}
  BY DEF AfterBest
<1>5. loaded = 19 => after.hop0 \in Uplinks
  <2>1. SUFFICES ASSUME loaded = 19 PROVE after.hop0 \in Uplinks
    OBVIOUS
  <2>2. r.port \in Uplinks
    BY <1>2, <2>1 DEF StartInv, FreshAcks, Waiting
  <2>3. bb.hop0 = r.port
    BY <2>1, CallsMade DEF BeforeBest, Table!BeforeBest
  <2>4. best[h].hop0 \in Uplinks
    BY <2>1 DEF StartInv, EntriesUp
  <2>5. QED
    BY <1>4, <2>2, <2>3, <2>4
<1> HIDE DEF r, bb, after
<1>6. StartTypes'
  BY <1>1, <1>2, <1>3, <1>4 DEF StartInv, StartTypes
<1>7. FreshAcks'
  <2>1. ASSUME NEW k \in Hosts, NEW i \in 1..Len(resubmit'[k])
        PROVE  \E j \in 1..Len(resubmit[k]) : resubmit'[k][i] = resubmit[k][j]
    <3>1. CASE k = h
      <4>1. resubmit'[k] = Tail(resubmit[h])
        BY <1>1, <3>1 DEF StartInv, StartTypes
      <4>2. QED
        BY <1>2, <2>1, <3>1, <4>1
    <3>2. CASE k # h
      BY <1>1, <2>1, <3>2 DEF StartInv, StartTypes
    <3>3. QED
      BY <3>1, <3>2
  <2>2. ASSUME NEW k \in Hosts, NEW i \in 1..Len(resubmit'[k])
        PROVE  LET q == resubmit'[k][i]
               IN  /\ q.since <= loaded /\ loaded <= q.since + 1
                   /\ q.since >= 16 => q.port \in Uplinks
    <3>1. PICK j \in 1..Len(resubmit[k]) : resubmit'[k][i] = resubmit[k][j]
      BY <2>1, <2>2
    <3>2. QED
      BY <3>1 DEF StartInv, FreshAcks
  <2>3. QED
    BY <1>1, <2>2 DEF FreshAcks
<1>8. EntriesUp'
  BY <1>1, <1>5 DEF StartInv, StartTypes, EntriesUp
<1>9. RoutesLate' /\ OutMarked'
  BY <1>1 DEF StartInv, RoutesLate, OutMarked
<1>10. QED
  BY <1>6, <1>7, <1>8, <1>9 DEF StartInv

LEMMA DataKeeps ==
  ASSUME StartInv, NEW h \in Hosts, NEW new_flow \in {0, 1}, NEW port, RawData(h, new_flow, port)
  PROVE  StartInv'
<1> DEFINE offer == Offer(h, new_flow)
           path  == Flows!Route(h, new_flow, offer)
<1>1. /\ loaded' = loaded /\ best' = best /\ resubmit' = resubmit
      /\ Flows!FlowStage(h, new_flow, offer)
      /\ \/ path # NoPath /\ out'.marked = Has("header_process")
         \/ path = NoPath /\ out'.src_route = 0
         \/ path = NoPath /\ out' = out
  BY DEF RawData
<1>2. /\ loaded \in 0..19 /\ flow_method_reg[h] \in {0, 1}
      /\ flow_method_reg[h] = 1 => loaded >= 17
  BY DEF StartInv, StartTypes, RoutesLate
<1>3. offer # NoPath => loaded >= 17
  <2>1. offer # NoPath => Has("get_table_ip")
    BY DEF Offer, StoreReached
  <2>2. QED
    BY <1>2, <2>1, CallsMade
<1> HIDE DEF offer
<1>4. path # NoPath => loaded >= 17
  <2>1. path # NoPath => flow_method_reg[h] # 0 \/ offer # NoPath
    BY DEF Flows!Route, Flows!FlowSrcRoute, Flows!Offered
  <2>2. QED
    BY <1>2, <1>3, <2>1
<1>5. flow_method_reg' \in
        {flow_method_reg, [flow_method_reg EXCEPT ![h] = IF offer = NoPath THEN 0 ELSE 1]}
  BY <1>1 DEF Flows!FlowStage, Flows!Offered
<1> HIDE DEF path
<1>6. OutMarked'
  <2>1. loaded >= 17 => Has("header_process")
    BY <1>2, CallsMade
  <2>2. QED
    BY <1>1, <1>4, <2>1 DEF StartInv, OutMarked
<1>7. StartTypes'
  BY <1>1, <1>5 DEF StartInv, StartTypes
<1>8. RoutesLate'
  BY <1>1, <1>3, <1>5 DEF StartInv, StartTypes, RoutesLate
<1>9. FreshAcks' /\ EntriesUp'
  BY <1>1 DEF StartInv, FreshAcks, EntriesUp
<1>10. QED
  BY <1>6, <1>7, <1>8, <1>9 DEF StartInv

LEMMA StartStep == StartInv /\ [StartupNext]_startupVars => StartInv'
<1>1. SUFFICES ASSUME StartInv, [StartupNext]_startupVars PROVE StartInv'
  OBVIOUS
<1>2. CASE Load
  BY <1>1, <1>2, LoadKeeps
<1>3. ASSUME NEW h \in Hosts, NEW port \in Uplinks, NEW ce \in CEs, NEW report \in Reports,
             AckFirst(h, port, ce, report)
      PROVE  StartInv'
  BY <1>1, <1>3, FirstKeeps
<1>4. ASSUME NEW h \in Hosts, AckSecond(h) PROVE StartInv'
  BY <1>1, <1>4, SecondKeeps
<1>5. ASSUME NEW h \in Hosts, NEW new_flow \in {0, 1}, NEW port \in Uplinks \cup {0},
             RawData(h, new_flow, port)
      PROVE  StartInv'
  BY <1>1, <1>5, DataKeeps
<1>6. CASE UNCHANGED startupVars
  <2>1. /\ loaded' = loaded /\ best' = best /\ resubmit' = resubmit
        /\ flow_method_reg' = flow_method_reg /\ out' = out
    BY <1>6 DEF startupVars
  <2>2. QED
    BY <1>1, <2>1 DEF StartInv, StartTypes, FreshAcks, EntriesUp, RoutesLate, OutMarked
<1>7. QED
  BY <1>1, <1>2, <1>3, <1>4, <1>5, <1>6 DEF StartupNext

\* From init_BestTable on every entry is a path by an uplink, whatever
\* acknowledgements met the tables while they were being filled.
THEOREM EntriesStayUp == StartupSpec => []EntriesLeadUp
<1>1. StartInv => EntriesLeadUp
  <2>1. SUFFICES ASSUME StartInv, Has("BestTable_reg"), NEW h \in Hosts
                 PROVE  best[h].hop0 \in Uplinks
    BY DEF EntriesLeadUp
  <2>2. loaded = 19
    BY <2>1, CallsMade DEF StartInv, StartTypes
  <2>3. QED
    BY <2>1, <2>2 DEF StartInv, EntriesUp
<1>2. QED
  BY <1>1, StartInvInit, StartStep, PTL DEF StartupSpec

\* No packet is source-routed without the mark the next switch looks for.
THEOREM RoutesStayMarked == StartupSpec => RoutesAreMarked
<1>1. StartInv' => (out'.src_route = 1 => out'.marked)
  BY DEF StartInv, OutMarked
<1>2. QED
  BY <1>1, StartInvInit, StartStep, PTL DEF StartupSpec, RoutesAreMarked

-----------------------------------------------------------------------------
(* The store and the flows.                                                *)

\* Like best, the store has room for the paths that acknowledgements write
\* before the tables are there: their hops may be 0.
KeptTypes ==
  /\ stack \in [Hosts -> Seq(Paths)]
  /\ \A h \in Hosts : Len(stack[h]) <= Depth
  /\ flow_path_reg \in [Hosts -> Paths]

LEMMA PushType ==
  ASSUME NEW s \in Seq(Paths), NEW p \in Paths
  PROVE  /\ Store!PushFront(s, p) \in Seq(Paths)
         /\ Len(Store!PushFront(s, p)) <= Depth
<1> DEFINE n == IF Len(s) < Depth THEN Len(s) + 1 ELSE Depth
           t == [i \in 1..n |-> IF i = 1 THEN p ELSE s[i - 1]]
<1>1. Len(s) \in Nat /\ Depth \in Nat
  BY TorStartupAssumption
<1>2. n \in Nat /\ n <= Depth /\ n <= Len(s) + 1
  BY <1>1
<1>3. ASSUME NEW i \in 1..n, i # 1 PROVE s[i - 1] \in Paths
  <2>1. i - 1 \in 1..Len(s)
    BY <1>1, <1>2, <1>3
  <2>2. QED
    BY <2>1
<1> HIDE DEF n
<1>4. t \in [1..n -> Paths]
  BY <1>3
<1>5. t \in Seq(Paths) /\ Len(t) = n
  BY <1>2, <1>4
<1>6. Store!PushFront(s, p) = t
  BY DEF Store!PushFront, n
<1>7. QED
  BY <1>2, <1>5, <1>6

LEMMA PopType ==
  ASSUME NEW s \in Seq(Paths), s # <<>>
  PROVE  /\ Store!PopFront(s) \in Seq(Paths)
         /\ Len(Store!PopFront(s)) <= Len(s)
         /\ 1 \in 1..Len(s) /\ s[1] \in Paths
<1> DEFINE n == Len(s) - 1
           t == [i \in 1..n |-> s[i + 1]]
<1>1. n \in Nat /\ n <= Len(s) /\ 1 \in 1..Len(s)
  BY DEF n
<1>2. ASSUME NEW i \in 1..n PROVE s[i + 1] \in Paths
  <2>1. i + 1 \in 1..Len(s)
    BY <1>1
  <2>2. QED
    BY <2>1
<1>3. t \in [1..n -> Paths]
  BY <1>2
<1> HIDE DEF n
<1>4. t \in Seq(Paths) /\ Len(t) = n
  BY <1>1, <1>3
<1>5. Store!PopFront(s) = t
  BY DEF Store!PopFront, n
<1>6. QED
  BY <1>1, <1>4, <1>5

\* One push into the store of h, one path taken out of it.
LEMMA PushKeepsTypes ==
  ASSUME KeptTypes, NEW h \in Hosts, NEW p \in Paths, Store!Push(h, p)
  PROVE  /\ stack' \in [Hosts -> Seq(Paths)]
         /\ \A k \in Hosts : Len(stack'[k]) <= Depth
<1>1. stack' = [stack EXCEPT ![h] = Store!PushFront(stack[h], p)]
  BY DEF Store!Push
<1>2. stack[h] \in Seq(Paths)
  BY DEF KeptTypes
<1>3. /\ Store!PushFront(stack[h], p) \in Seq(Paths)
      /\ Len(Store!PushFront(stack[h], p)) <= Depth
  BY <1>2, PushType
<1>4. QED
  BY <1>1, <1>3 DEF KeptTypes

LEMMA TakeKeepsTypes ==
  ASSUME KeptTypes, NEW h \in Hosts, Store!Take(h)
  PROVE  /\ stack' \in [Hosts -> Seq(Paths)]
         /\ \A k \in Hosts : Len(stack'[k]) <= Depth
<1>1. stack[h] # <<>> /\ stack' = [stack EXCEPT ![h] = Store!PopFront(stack[h])]
  BY DEF Store!Take
<1>2. stack[h] \in Seq(Paths) /\ Len(stack[h]) <= Depth
  BY DEF KeptTypes
<1>3. /\ Store!PopFront(stack[h]) \in Seq(Paths)
      /\ Len(Store!PopFront(stack[h])) <= Len(stack[h])
  BY <1>1, <1>2, PopType
<1>4. Len(Store!PopFront(stack[h])) <= Depth
  <2>1. /\ Len(stack[h]) \in Nat /\ Len(Store!PopFront(stack[h])) \in Nat /\ Depth \in Nat
    BY <1>2, <1>3, TorStartupAssumption
  <2>2. QED
    BY <1>2, <1>3, <2>1
<1>5. QED
  BY <1>1, <1>3, <1>4 DEF KeptTypes

\* What the second pass of an acknowledgement puts aside.
LEMMA SecondPath ==
  ASSUME StartInv, NEW h \in Hosts, resubmit[h] # <<>>
  PROVE  LET r == Head(resubmit[h])
         IN  PathOf(NewPath(AfterBest(h, r), BeforeGood(r))) \in Paths
<1> DEFINE r == Head(resubmit[h])
<1>1. r \in Waiting
  <2>1. resubmit[h] \in Seq(Waiting)
    BY DEF StartInv, StartTypes
  <2>2. QED
    BY <2>1, HeadTailProperties
<1>2. /\ r.port \in Uplinks \cup {0} /\ r.CE \in CEs
      /\ r.report.best_port \in Hops /\ r.report.good_port \in Hops
  BY <1>1, TorStartupAssumption DEF Waiting
<1>3. best[h] \in BestWords
  BY DEF StartInv, StartTypes
<1> HIDE DEF r
<1>4. /\ BeforeBest(r).hop1 \in Hops \cup {0} /\ BeforeBest(r).hop0 \in Uplinks \cup {0}
      /\ BeforeGood(r).hop1 \in Hops \cup {0} /\ BeforeGood(r).hop0 \in Uplinks \cup {0}
  BY <1>2 DEF BeforeBest, BeforeGood, Table!BeforeBest, Table!BeforeGood, Zero
<1>5. best[h].hop1 \in Hops \cup {0} /\ best[h].hop0 \in Uplinks \cup {0}
  BY <1>3 DEF BestWords
<1>6. NewPath(AfterBest(h, r), BeforeGood(r)) \in {BeforeBest(r), BeforeGood(r), best[h]}
  BY DEF NewPath, AfterBest
<1> DEFINE p == NewPath(AfterBest(h, r), BeforeGood(r))
<1> HIDE DEF p
<1>7. p.hop1 \in Hops \cup {0} /\ p.hop0 \in Uplinks \cup {0}
  BY <1>4, <1>5, <1>6 DEF p
<1>8. PathOf(p) \in Paths
  BY <1>7 DEF PathOf, Paths
<1>9. QED
  BY <1>8 DEF p, r

LEMMA KeptInit == StartupInit => KeptTypes
<1>1. SUFFICES ASSUME StartupInit PROVE KeptTypes
  OBVIOUS
<1>2. stack = [h \in Hosts |-> <<>>] /\ flow_path_reg = [f \in Hosts |-> PathOf(Zero)]
  BY <1>1 DEF StartupInit, Store!StackInit, Flows!FlowPathInit
<1>3. PathOf(Zero) \in Paths
  BY DEF PathOf, Zero, Paths
<1>4. QED
  BY <1>2, <1>3, TorStartupAssumption DEF KeptTypes

LEMMA KeptStep == StartInv /\ KeptTypes /\ [StartupNext]_startupVars => KeptTypes'
<1>1. SUFFICES ASSUME StartInv, KeptTypes, [StartupNext]_startupVars PROVE KeptTypes'
  OBVIOUS
<1>2. ASSUME stack' = stack, flow_path_reg' = flow_path_reg PROVE KeptTypes'
  BY <1>1, <1>2 DEF KeptTypes
<1>3. CASE Load
  BY <1>2, <1>3 DEF Load
<1>4. ASSUME NEW h, NEW port, NEW ce, NEW report, AckFirst(h, port, ce, report)
      PROVE  KeptTypes'
  BY <1>2, <1>4 DEF AckFirst
<1>5. ASSUME NEW h \in Hosts, AckSecond(h) PROVE KeptTypes'
  <2> DEFINE r == Head(resubmit[h])
             p == PathOf(NewPath(AfterBest(h, r), BeforeGood(r)))
  <2>1. /\ resubmit[h] # <<>> /\ flow_path_reg' = flow_path_reg
        /\ Store!Push(h, p) \/ stack' = stack
    BY <1>5 DEF AckSecond
  <2>2. p \in Paths
    BY <1>1, <2>1, SecondPath
  <2> HIDE DEF p
  <2>3. CASE Store!Push(h, p)
    BY <1>1, <2>1, <2>2, <2>3, PushKeepsTypes DEF KeptTypes
  <2>4. QED
    BY <1>2, <2>1, <2>3
<1>6. ASSUME NEW h \in Hosts, NEW new_flow \in {0, 1}, NEW port, RawData(h, new_flow, port)
      PROVE  KeptTypes'
  <2> DEFINE offer == Offer(h, new_flow)
  <2>1. /\ Store!Take(h) \/ stack' = stack
        /\ Flows!FlowStage(h, new_flow, offer)
    BY <1>6 DEF RawData, Store!Miss
  <2>2. /\ stack' \in [Hosts -> Seq(Paths)]
        /\ \A k \in Hosts : Len(stack'[k]) <= Depth
    BY <1>1, <2>1, TakeKeepsTypes DEF KeptTypes
  <2>3. offer # NoPath => offer \in Paths
    <3>1. SUFFICES ASSUME offer # NoPath PROVE offer \in Paths
      OBVIOUS
    <3>2. stack[h] # <<>> /\ offer = stack[h][1] /\ stack[h] \in Seq(Paths)
      BY <1>1, <3>1 DEF Offer, KeptTypes
    <3>3. stack[h][1] \in Paths
      BY <3>2, PopType
    <3>4. QED
      BY <3>2, <3>3
  <2> HIDE DEF offer
  <2>4. \/ flow_path_reg' = flow_path_reg
        \/ /\ offer # NoPath
           /\ flow_path_reg' = [flow_path_reg EXCEPT ![h] = offer]
    BY <1>6, <2>1 DEF Flows!FlowStage, Flows!FlowSrcRoute, Flows!FlowMethodTable,
                      Flows!FlowPathTable, Flows!Offered
  <2>5. flow_path_reg' \in [Hosts -> Paths]
    BY <1>1, <2>3, <2>4 DEF KeptTypes
  <2>6. QED
    BY <2>2, <2>5 DEF KeptTypes
<1>7. CASE UNCHANGED startupVars
  BY <1>2, <1>7 DEF startupVars
<1>8. QED
  BY <1>1, <1>3, <1>4, <1>5, <1>6, <1>7 DEF StartupNext

\* Tables that are not filled leave zeros in the registers, and nothing else.
THEOREM StartupTypeCorrect == StartupSpec => []StartupTypeOK
<1>1. StartInv /\ KeptTypes => StartupTypeOK
  <2>1. SUFFICES ASSUME StartInv, KeptTypes PROVE StartupTypeOK
    OBVIOUS
  <2>2. loaded \in 0..Len(Order)
    BY <2>1, Calls DEF StartInv, StartTypes
  <2>3. best \in [Hosts -> [CE : CEs, hop1 : Hops \cup {0}, hop0 : Uplinks \cup {0}]]
    BY <2>1 DEF StartInv, StartTypes, BestWords
  <2>4. QED
    BY <2>1, <2>2, <2>3 DEF KeptTypes, StartupTypeOK
<1>2. QED
  BY <1>1, StartInvInit, StartStep, KeptInit, KeptStep, PTL DEF StartupSpec

-----------------------------------------------------------------------------
(* What is pushed once main has made its calls.                            *)

LEMMA FinishedReaches == Finished => StoreReached
<1>1. /\ Order[7] = "stack_count_table"
      /\ Order[8] = "stack_top_table"
      /\ Order[9] = "path_table"
      /\ Order[17] = "get_table_ip"
  BY DEF Order
<1>2. Finished => \A i \in {7, 8, 9, 17} : i \in 1..loaded
  BY Calls DEF Finished
<1>3. QED
  BY <1>1, <1>2 DEF StoreReached, Has

LEMMA PushedOnTop ==
  ASSUME NEW h \in Hosts, NEW p, stack \in [Hosts -> Seq(Paths)], Store!Push(h, p)
  PROVE  stack'[h] # <<>> /\ stack'[h][1] = p
<1> DEFINE n == IF Len(stack[h]) < Depth THEN Len(stack[h]) + 1 ELSE Depth
           t == [i \in 1..n |-> IF i = 1 THEN p ELSE stack[h][i - 1]]
<1>1. stack'[h] = t
  BY DEF Store!Push, Store!PushFront
<1>2. n \in Nat /\ 1 \in 1..n
  BY TorStartupAssumption
<1> HIDE DEF n
<1>3. t[1] = p /\ DOMAIN t = 1..n
  BY <1>2
<1>4. t # <<>>
  BY <1>2, <1>3
<1>5. QED
  BY <1>1, <1>3, <1>4

\* The uplink of whatever comes back then is known, and so is that of the
\* entry it is compared with: every path put aside leads up.
THEOREM NewPathsStayUp == StartupSpec => NewPathsLeadUp
<1>1. ASSUME StartInv, KeptTypes, StartupNext, Finished, NEW h \in Hosts,
             Len(resubmit'[h]) < Len(resubmit[h])
      PROVE  stack'[h] # <<>> /\ stack'[h][1].hop0 \in Uplinks
  <2> DEFINE r     == Head(resubmit[h])
             after == AfterBest(h, r)
             p     == PathOf(NewPath(after, BeforeGood(r)))
  <2>1. loaded = 19 /\ resubmit \in [Hosts -> Seq(Waiting)] /\ resubmit[h] \in Seq(Waiting)
    BY <1>1, Calls DEF Finished, StartInv, StartTypes
  <2>2. AckSecond(h)
    <3>1. CASE resubmit' = resubmit
      BY <1>1, <2>1, <3>1
    <3>2. ASSUME NEW k \in Hosts, AckSecond(k), k # h PROVE FALSE
      <4>1. resubmit'[h] = resubmit[h]
        BY <2>1, <3>2 DEF AckSecond
      <4>2. QED
        BY <1>1, <2>1, <4>1
    <3>3. ASSUME NEW k \in Hosts, NEW port \in Uplinks, NEW ce \in CEs, NEW report \in Reports,
                 AckFirst(k, port, ce, report)
          PROVE  FALSE
      <4>1. PICK x : resubmit' = [resubmit EXCEPT ![k] = Append(resubmit[k], x)]
        BY <3>3 DEF AckFirst
      <4>2. resubmit'[h] \in {resubmit[h], Append(resubmit[h], x)}
        BY <2>1, <4>1
      <4>3. Len(Append(resubmit[h], x)) = Len(resubmit[h]) + 1 /\ Len(resubmit[h]) \in Nat
        BY <2>1
      <4>4. QED
        BY <1>1, <4>2, <4>3
    <3>4. QED
      BY <1>1, <3>1, <3>2, <3>3 DEF StartupNext, Load, RawData
  <2>3. resubmit[h] # <<>> /\ Store!Push(h, p) /\ best' = [best EXCEPT ![h] = after]
    BY <1>1, <2>2, FinishedReaches DEF AckSecond
  <2>4. r = resubmit[h][1] /\ 1 \in 1..Len(resubmit[h]) /\ r \in Waiting
    BY <2>1, <2>3
  <2>5. r.port \in Uplinks
    <3>1. r.since \in Nat /\ loaded <= r.since + 1
      BY <1>1, <2>4 DEF StartInv, FreshAcks, Waiting
    <3>2. r.since >= 16
      BY <2>1, <3>1
    <3>3. QED
      BY <1>1, <2>4, <3>2 DEF StartInv, FreshAcks
  <2>6. BeforeGood(r).hop0 = r.port
    BY <2>1, CallsMade DEF BeforeGood, Table!BeforeGood
  <2>7. after.hop0 \in Uplinks
    <3>1. EntriesUp' /\ loaded' = loaded
      BY <1>1, <2>2, SecondKeeps DEF StartInv, AckSecond
    <3>2. QED
      BY <1>1, <2>1, <2>3, <3>1 DEF EntriesUp, StartInv, StartTypes
  <2>8. p.hop0 \in Uplinks
    BY <2>5, <2>6, <2>7 DEF NewPath, PathOf
  <2> HIDE DEF p
  <2>9. QED
    BY <1>1, <2>3, <2>8, PushedOnTop DEF KeptTypes
<1>2. StartInv /\ KeptTypes /\ [StartupNext]_startupVars =>
        (Finished => \A h \in Hosts : Len(resubmit'[h]) < Len(resubmit[h]) =>
           stack'[h] # <<>> /\ stack'[h][1].hop0 \in Uplinks)
  <2>1. SUFFICES ASSUME StartInv, UNCHANGED startupVars, NEW h \in Hosts
                 PROVE  ~(Len(resubmit'[h]) < Len(resubmit[h]))
    BY <1>1
  <2>2. resubmit' = resubmit /\ resubmit[h] \in Seq(Waiting)
    BY <2>1 DEF startupVars, StartInv, StartTypes
  <2>3. QED
    BY <2>2
<1>3. QED
  BY <1>2, StartInvInit, StartStep, KeptInit, KeptStep, PTL DEF StartupSpec, NewPathsLeadUp
=============================================================================

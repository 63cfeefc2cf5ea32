--------------------------- MODULE PathRingProofs ---------------------------
(***************************************************************************)
(* Proofs about PathRing, for any set of host ids and any set of paths:    *)
(* its type, that only written slots are live, and that the three          *)
(* registers implement PathStack.                                          *)
(***************************************************************************)
EXTENDS PathRing, TLAPS, SequenceTheorems

\* The four slots of a host are its own.
LEMMA SlotsDisjoint ==
  ASSUME NEW g \in Nat, NEW h \in Nat, NEW i \in 0..3, NEW j \in 0..3,
         PathIndex(g, i) = PathIndex(h, j)
  PROVE  g = h /\ i = j
  BY DEF PathIndex

-----------------------------------------------------------------------------
(* What a passage through the three tables does, by the type of packet.    *)

\* A second-pass acknowledgement pushes its path.
LEMMA StagePush ==
  ASSUME RingTypeOK, NEW h \in Hosts, NEW p \in Paths,
         PathStage("CAVER_ACK_SECOND", 0, h, p)
  PROVE  /\ stack_count' = [stack_count EXCEPT ![h] = CountPush(@)]
         /\ stack_top' = [stack_top EXCEPT ![h] = TopPush(@)]
         /\ path_reg' = [path_reg EXCEPT ![PathIndex(h, stack_top[h])] = p]
         /\ answer' = answer
  BY DEF PathStage, SrcRoute, DeltaIndex, StackCountTable, StackTopTable, PathTable

\* The first packet of a flow pops when a path is left.
LEMMA StageTake ==
  ASSUME RingTypeOK, NEW h \in Hosts, NEW p, stack_count[h] # 0,
         PathStage("DATA", 1, h, p)
  PROVE  /\ stack_count' = [stack_count EXCEPT ![h] = @ - 1]
         /\ stack_top' = [stack_top EXCEPT ![h] = TopPop(@)]
         /\ path_reg' = path_reg
         /\ answer' = [host |-> h, path |-> path_reg[PathIndex(h, TopPop(stack_top[h]))]]
  BY DEF PathStage, SrcRoute, DeltaIndex, PathChoice, StackCountTable, StackTopTable,
         PathTable, CountPop

\* The first packet of a flow finds no path.
LEMMA StageMiss ==
  ASSUME RingTypeOK, NEW h \in Hosts, NEW p, stack_count[h] = 0,
         PathStage("DATA", 1, h, p)
  PROVE  /\ UNCHANGED <<stack_count, stack_top, path_reg>>
         /\ answer' = [host |-> h, path |-> NoPath]
  BY DEF PathStage, SrcRoute, DeltaIndex, PathChoice, StackCountTable, StackTopTable,
         PathTable, CountPop, RingTypeOK

\* Every other packet leaves the three registers alone.
LEMMA StageIdle ==
  ASSUME RingTypeOK, NEW h \in Hosts, NEW p, NEW type \in PacketTypes, 
         NEW new_flow \in NewFlow(type),
         type # "CAVER_ACK_SECOND", ~ (type = "DATA" /\ new_flow = 1),
         PathStage(type, new_flow, h, p)
  PROVE  UNCHANGED ringVars
  BY DEF PathStage, StackCountTable, StackTopTable, PathTable, RingTypeOK, ringVars

\* So a step of the specification is a push, a new flow, or a stutter.
LEMMA RingSteps ==
  ASSUME RingTypeOK, [RingNext]_ringVars
  PROVE  \/ \E h \in Hosts, p \in Paths : PathStage("CAVER_ACK_SECOND", 0, h, p)
         \/ \E h \in Hosts, p \in Paths : PathStage("DATA", 1, h, p)
         \/ UNCHANGED ringVars
<1>1. SUFFICES ASSUME RingNext
               PROVE  \/ \E h \in Hosts, p \in Paths : PathStage("CAVER_ACK_SECOND", 0, h, p)
                      \/ \E h \in Hosts, p \in Paths : PathStage("DATA", 1, h, p)
                      \/ UNCHANGED ringVars
  OBVIOUS
<1>2. PICK type \in PacketTypes, h \in Hosts, p \in Paths :
        \E new_flow \in NewFlow(type) : PathStage(type, new_flow, h, p)
  BY <1>1 DEF RingNext
<1>3. PICK new_flow \in NewFlow(type) : PathStage(type, new_flow, h, p)
  BY <1>2
<1>4. CASE type = "CAVER_ACK_SECOND"
  BY <1>3, <1>4 DEF NewFlow
<1>5. CASE type = "DATA" /\ new_flow = 1
  BY <1>3, <1>5
<1>6. CASE type # "CAVER_ACK_SECOND" /\ ~ (type = "DATA" /\ new_flow = 1)
  BY <1>3, <1>6, StageIdle
<1>7. QED
  BY <1>4, <1>5, <1>6

-----------------------------------------------------------------------------
(* Type correctness: in particular no sequence of pushes and pops takes the *)
(* count of a host past the four slots that the host owns.                  *)
THEOREM RingTypeCorrect == RingSpec => []RingTypeOK
<1>1. RingInit => RingTypeOK
  BY PathRingAssumption DEF RingInit, RingTypeOK
<1>2. RingTypeOK /\ [RingNext]_ringVars => RingTypeOK'
  <2> SUFFICES ASSUME RingTypeOK, [RingNext]_ringVars
               PROVE  RingTypeOK'
    OBVIOUS
  <2>1. ASSUME NEW h \in Hosts, NEW p \in Paths,
               PathStage("CAVER_ACK_SECOND", 0, h, p)
        PROVE  RingTypeOK'
    BY <2>1, StagePush DEF RingTypeOK, CountPush, TopPush
  <2>2. ASSUME NEW h \in Hosts, NEW p \in Paths, PathStage("DATA", 1, h, p),
               stack_count[h] = 0
        PROVE  RingTypeOK'
    BY <2>2, StageMiss DEF RingTypeOK
  <2>3. ASSUME NEW h \in Hosts, NEW p \in Paths, PathStage("DATA", 1, h, p),
               stack_count[h] # 0
        PROVE  RingTypeOK'
    BY <2>3, StageTake DEF RingTypeOK, TopPop, Slots
  <2>4. CASE UNCHANGED ringVars
    BY <2>4 DEF ringVars, RingTypeOK
  <2>5. QED
    BY <2>1, <2>2, <2>3, <2>4, RingSteps
<1>3. QED
  BY <1>1, <1>2, PTL DEF RingSpec

-----------------------------------------------------------------------------
(* Where the slots of a host are after a push and after a pop.             *)

LEMMA SlotBelowType ==
  ASSUME RingTypeOK, NEW h \in Hosts, NEW i \in 1..4
  PROVE  /\ SlotBelow(h, i) \in Slots
         /\ SlotBelow(h, i) \in Nat
         /\ SlotBelow(h, 1) = PathIndex(h, TopPop(stack_top[h]))
<1>1. h \in Nat /\ stack_top[h] \in 0..3
  BY PathRingAssumption DEF RingTypeOK
<1>2. PICK j \in 0..3 : SlotBelow(h, i) = PathIndex(h, j)
  BY <1>1 DEF SlotBelow
<1>3. SlotBelow(h, i) \in Slots /\ SlotBelow(h, i) \in Nat
  BY <1>1, <1>2 DEF Slots, PathIndex
<1>4. SlotBelow(h, 1) = PathIndex(h, TopPop(stack_top[h]))
  BY <1>1 DEF SlotBelow, TopPop, PathIndex
<1>5. QED
  BY <1>3, <1>4

\* A push writes the slot that is then the first below the top, and moves
\* every other slot one further down.
LEMMA SlotsAfterPush ==
  ASSUME RingTypeOK, NEW h \in Hosts,
         stack_top' = [stack_top EXCEPT ![h] = TopPush(@)]
  PROVE  /\ SlotBelow(h, 1)' = PathIndex(h, stack_top[h])
         /\ \A i \in 2..4 : /\ SlotBelow(h, i)' = SlotBelow(h, i - 1)
                            /\ SlotBelow(h, i)' # PathIndex(h, stack_top[h])
  BY PathRingAssumption DEF SlotBelow, RingTypeOK, TopPush, PathIndex

\* A pop moves every slot but the popped one up.
LEMMA SlotsAfterPop ==
  ASSUME RingTypeOK, NEW h \in Hosts,
         stack_top' = [stack_top EXCEPT ![h] = TopPop(@)]
  PROVE  \A i \in 1..3 : SlotBelow(h, i)' = SlotBelow(h, i + 1)
  BY PathRingAssumption DEF SlotBelow, RingTypeOK, TopPop, PathIndex

\* The slots of another host stay where they are and are not written.
LEMMA SlotsOfOthers ==
  ASSUME RingTypeOK, NEW g \in Hosts, NEW h \in Hosts, g # h,
         stack_top'[g] = stack_top[g]
  PROVE  \A i \in 1..4 : /\ SlotBelow(g, i)' = SlotBelow(g, i)
                         /\ \A j \in 0..3 : SlotBelow(g, i) # PathIndex(h, j)
  BY PathRingAssumption DEF SlotBelow, RingTypeOK, PathIndex

-----------------------------------------------------------------------------
(* The slots below the top, as many as the count says, were written by an  *)
(* acknowledgement: the count and the top never run apart, so a new flow   *)
(* is never given the content of a slot nothing was pushed to.             *)
LEMMA LiveSlotsStep ==
  ASSUME RingTypeOK, LiveSlotsWritten, [RingNext]_ringVars
  PROVE  LiveSlotsWritten'
<1>1. ASSUME NEW h \in Hosts, NEW p \in Paths,
             PathStage("CAVER_ACK_SECOND", 0, h, p)
      PROVE  LiveSlotsWritten'
  <2>1. /\ stack_count' = [stack_count EXCEPT ![h] = CountPush(@)]
        /\ stack_top' = [stack_top EXCEPT ![h] = TopPush(@)]
        /\ path_reg' = [path_reg EXCEPT ![PathIndex(h, stack_top[h])] = p]
        /\ answer' = answer
    BY <1>1, StagePush
  <2>2. stack_top[h] \in 0..3 /\ PathIndex(h, stack_top[h]) \in Slots
    BY DEF RingTypeOK, Slots
  <2>3. SUFFICES ASSUME NEW g \in Hosts, NEW i \in 1..stack_count'[g]
                 PROVE  path_reg'[SlotBelow(g, i)'] \in Paths
    BY <2>1 DEF LiveSlotsWritten
  <2>4. i \in 1..4 /\ (g = h => i = 1 \/ i - 1 \in 1..stack_count[h])
    BY <2>1 DEF RingTypeOK, CountPush
  <2>5. CASE g = h /\ i = 1
    BY <2>1, <2>2, <2>5, SlotsAfterPush DEF RingTypeOK
  <2>6. CASE g = h /\ i # 1
    <3>1. SlotBelow(h, i)' = SlotBelow(h, i - 1) /\ SlotBelow(h, i)' # PathIndex(h, stack_top[h])
      <4>1. i \in 2..4
        BY <2>4, <2>6
      <4>2. QED
        BY <2>1, <4>1, SlotsAfterPush
    <3>2. path_reg[SlotBelow(h, i - 1)] \in Paths
      BY <2>4, <2>6 DEF LiveSlotsWritten
    <3>3. SlotBelow(h, i - 1) \in Slots
      BY <2>4, <2>6, SlotBelowType DEF RingTypeOK
    <3>4. QED
      BY <2>1, <2>6, <3>1, <3>2, <3>3 DEF RingTypeOK
  <2>7. CASE g # h
    <3>1. SlotBelow(g, i)' = SlotBelow(g, i) /\ SlotBelow(g, i) # PathIndex(h, stack_top[h])
      BY <2>1, <2>2, <2>4, <2>7, SlotsOfOthers DEF RingTypeOK
    <3>2. path_reg[SlotBelow(g, i)] \in Paths
      BY <2>1, <2>7 DEF LiveSlotsWritten, RingTypeOK
    <3>3. SlotBelow(g, i) \in Slots
      BY <2>4, SlotBelowType
    <3>4. QED
      BY <2>1, <3>1, <3>2, <3>3 DEF RingTypeOK
  <2>8. QED
    BY <2>5, <2>6, <2>7
<1>2. ASSUME NEW h \in Hosts, NEW p \in Paths, PathStage("DATA", 1, h, p),
             stack_count[h] = 0
      PROVE  LiveSlotsWritten'
  BY <1>2, StageMiss, PathRingAssumption DEF LiveSlotsWritten, SlotBelow
<1>3. ASSUME NEW h \in Hosts, NEW p \in Paths, PathStage("DATA", 1, h, p),
             stack_count[h] # 0
      PROVE  LiveSlotsWritten'
  <2>1. /\ stack_count' = [stack_count EXCEPT ![h] = @ - 1]
        /\ stack_top' = [stack_top EXCEPT ![h] = TopPop(@)]
        /\ path_reg' = path_reg
        /\ answer' = [host |-> h, path |-> path_reg[PathIndex(h, TopPop(stack_top[h]))]]
    BY <1>3, StageTake
  <2>2. answer'.path # ZeroPath
    <3>1. path_reg[SlotBelow(h, 1)] \in Paths
      BY <1>3 DEF LiveSlotsWritten, RingTypeOK
    <3>2. QED
      BY <2>1, <3>1, SlotBelowType, PathRingAssumption
  <2>3. SUFFICES ASSUME NEW g \in Hosts, NEW i \in 1..stack_count'[g]
                 PROVE  path_reg[SlotBelow(g, i)'] \in Paths
    BY <2>1, <2>2 DEF LiveSlotsWritten
  <2>4. CASE g = h
    <3>1. i \in 1..3 /\ i + 1 \in 1..stack_count[h]
      BY <1>3, <2>1, <2>4 DEF RingTypeOK
    <3>2. SlotBelow(h, i)' = SlotBelow(h, i + 1)
      BY <2>1, <3>1, SlotsAfterPop
    <3>3. QED
      BY <2>4, <3>1, <3>2 DEF LiveSlotsWritten
  <2>5. CASE g # h
    <3>1. i \in 1..stack_count[g] /\ i \in 1..4 /\ stack_top'[g] = stack_top[g]
      BY <2>1, <2>5 DEF RingTypeOK
    <3>2. SlotBelow(g, i)' = SlotBelow(g, i)
      BY <2>5, <3>1, SlotsOfOthers
    <3>3. QED
      BY <3>1, <3>2 DEF LiveSlotsWritten
  <2>6. QED
    BY <2>4, <2>5
<1>4. CASE UNCHANGED ringVars
  BY <1>4 DEF ringVars, LiveSlotsWritten, SlotBelow
<1>5. QED
  BY <1>1, <1>2, <1>3, <1>4, RingSteps

\* No new flow is ever given the content of an unwritten slot.
THEOREM LiveSlotsCorrect == RingSpec => []LiveSlotsWritten
<1>1. RingInit => LiveSlotsWritten
  BY PathRingAssumption DEF RingInit, LiveSlotsWritten
<1>2. RingTypeOK /\ LiveSlotsWritten /\ [RingNext]_ringVars => LiveSlotsWritten'
  BY LiveSlotsStep
<1>3. QED
  BY <1>1, <1>2, RingTypeCorrect, PTL DEF RingSpec

-----------------------------------------------------------------------------
(* The registers implement the bounded last-in-first-out store.            *)

LEMMA LenOfFunction ==
  ASSUME NEW S, NEW n \in Nat, NEW s \in [1..n -> S]
  PROVE  s \in Seq(S) /\ Len(s) = n
<1>1. s \in Seq(S)
  BY SeqDef
<1>2. DOMAIN s = 1..n /\ DOMAIN s = 1..Len(s) /\ Len(s) \in Nat
  BY <1>1, LenProperties
<1>3. QED
  BY <1>1, <1>2

LEMMA LenStackOf ==
  ASSUME RingTypeOK, NEW h \in Hosts
  PROVE  Len(StackOf(h)) = stack_count[h]
<1>1. stack_count[h] \in 0..4
  BY DEF RingTypeOK
<1>2. StackOf(h) \in [1..stack_count[h] -> Paths \cup {ZeroPath}]
  BY <1>1, SlotBelowType DEF StackOf, RingTypeOK
<1>3. QED
  BY <1>1, <1>2, LenOfFunction

\* The store of a host whose count, top and slots do not change.
LEMMA StackOfOthers ==
  ASSUME RingTypeOK, NEW g \in Hosts,
         stack_count'[g] = stack_count[g], stack_top'[g] = stack_top[g],
         \A i \in 1..4 : path_reg'[SlotBelow(g, i)] = path_reg[SlotBelow(g, i)]
  PROVE  StackOf(g)' = StackOf(g)
<1>1. stack_count[g] \in 0..4
  BY DEF RingTypeOK
<1>2. \A i \in 1..4 : SlotBelow(g, i)' = SlotBelow(g, i)
  BY DEF SlotBelow
<1>3. \A i \in 1..stack_count[g] : path_reg'[SlotBelow(g, i)'] = path_reg[SlotBelow(g, i)]
  BY <1>1, <1>2
<1>4. QED
  BY <1>3 DEF StackOf

LEMMA StackOfPush ==
  ASSUME RingTypeOK, NEW h \in Hosts, NEW p \in Paths,
         PathStage("CAVER_ACK_SECOND", 0, h, p)
  PROVE  StackOf(h)' = Abstract!PushFront(StackOf(h), p)
<1>1. /\ stack_count' = [stack_count EXCEPT ![h] = CountPush(@)]
      /\ stack_top' = [stack_top EXCEPT ![h] = TopPush(@)]
      /\ path_reg' = [path_reg EXCEPT ![PathIndex(h, stack_top[h])] = p]
  BY StagePush
<1>2. stack_count[h] \in 0..4 /\ PathIndex(h, stack_top[h]) \in Slots
  BY DEF RingTypeOK, Slots
<1>3. stack_count'[h] = IF stack_count[h] < 4 THEN stack_count[h] + 1 ELSE 4
  BY <1>1, <1>2 DEF RingTypeOK, CountPush
<1>4. path_reg'[SlotBelow(h, 1)'] = p
  BY <1>1, <1>2, SlotsAfterPush DEF RingTypeOK
<1>5. \A i \in 2..4 : path_reg'[SlotBelow(h, i)'] = path_reg[SlotBelow(h, i - 1)]
  <2>1. TAKE i \in 2..4
  <2>2. /\ SlotBelow(h, i)' = SlotBelow(h, i - 1)
        /\ SlotBelow(h, i)' # PathIndex(h, stack_top[h])
    BY <1>1, SlotsAfterPush
  <2>3. SlotBelow(h, i - 1) \in Slots
    BY SlotBelowType
  <2>4. QED
    BY <1>1, <2>2, <2>3 DEF RingTypeOK
<1>6. \A i \in 2..stack_count'[h] : /\ i \in 2..4
                                    /\ i - 1 \in 1..stack_count[h]
                                    /\ StackOf(h)[i - 1] = path_reg[SlotBelow(h, i - 1)]
  BY <1>2, <1>3 DEF StackOf
<1>7. \A i \in 1..stack_count'[h] :
        path_reg'[SlotBelow(h, i)'] = IF i = 1 THEN p ELSE StackOf(h)[i - 1]
  <2>1. TAKE i \in 1..stack_count'[h]
  <2>2. CASE i = 1
    BY <1>4, <2>2
  <2>3. CASE i # 1
    <3>1. i \in 2..stack_count'[h]
      BY <1>2, <1>3, <2>3
    <3>2. QED
      BY <1>5, <1>6, <2>3, <3>1
  <2>4. QED
    BY <2>2, <2>3
<1>8. StackOf(h)' = [i \in 1..stack_count'[h] |-> IF i = 1 THEN p ELSE StackOf(h)[i - 1]]
  BY <1>7 DEF StackOf
<1>9. stack_count'[h] = IF Len(StackOf(h)) < Depth THEN Len(StackOf(h)) + 1 ELSE Depth
  BY <1>3, LenStackOf DEF Depth
<1>10. QED
  BY <1>8, <1>9 DEF Abstract!PushFront

LEMMA StackOfPop ==
  ASSUME RingTypeOK, NEW h \in Hosts, NEW p, stack_count[h] # 0,
         PathStage("DATA", 1, h, p)
  PROVE  /\ StackOf(h)' = Abstract!PopFront(StackOf(h))
         /\ StackOf(h) # <<>>
         /\ answer' = [host |-> h, path |-> StackOf(h)[1]]
<1>1. /\ stack_count' = [stack_count EXCEPT ![h] = @ - 1]
      /\ stack_top' = [stack_top EXCEPT ![h] = TopPop(@)]
      /\ path_reg' = path_reg
      /\ answer' = [host |-> h, path |-> path_reg[PathIndex(h, TopPop(stack_top[h]))]]
  BY StageTake
<1>2. stack_count[h] \in 1..4 /\ stack_count'[h] = stack_count[h] - 1
  BY <1>1 DEF RingTypeOK
<1>3. \A i \in 1..stack_count'[h] :
        path_reg'[SlotBelow(h, i)'] = StackOf(h)[i + 1]
  <2>1. TAKE i \in 1..stack_count'[h]
  <2>2. i \in 1..3 /\ i + 1 \in 1..stack_count[h]
    BY <1>2
  <2>3. SlotBelow(h, i)' = SlotBelow(h, i + 1)
    BY <1>1, <2>2, SlotsAfterPop
  <2>4. QED
    BY <1>1, <2>2, <2>3 DEF StackOf
<1>4. StackOf(h)' = [i \in 1..stack_count'[h] |-> StackOf(h)[i + 1]]
  BY <1>3 DEF StackOf
<1>5. Len(StackOf(h)) = stack_count[h]
  BY LenStackOf
<1>6. StackOf(h) # <<>>
  BY <1>2, <1>5
<1>7. StackOf(h)[1] = path_reg[SlotBelow(h, 1)]
  BY <1>2 DEF StackOf
<1>8. answer' = [host |-> h, path |-> StackOf(h)[1]]
  BY <1>1, <1>7, SlotBelowType
<1>9. QED
  BY <1>2, <1>4, <1>5, <1>6, <1>8 DEF Abstract!PopFront


LEMMA StackUnchanged ==
  ASSUME RingTypeOK, UNCHANGED <<stack_count, stack_top, path_reg>>
  PROVE  \A h \in Hosts : StackOf(h)' = StackOf(h)
<1>1. TAKE h \in Hosts
<1>2. \A i \in 1..4 : path_reg'[SlotBelow(h, i)] = path_reg[SlotBelow(h, i)]
  OBVIOUS
<1>3. stack_count'[h] = stack_count[h] /\ stack_top'[h] = stack_top[h]
  OBVIOUS
<1>4. QED
  BY <1>2, <1>3, StackOfOthers

\* Every step of the registers is a step of the store or leaves it alone.
LEMMA StackStep ==
  ASSUME RingTypeOK, [RingNext]_ringVars
  PROVE  [Abstract!StackNext]_(Abstract!stackVars)
<1>1. ASSUME NEW h \in Hosts, NEW p \in Paths,
             PathStage("CAVER_ACK_SECOND", 0, h, p)
      PROVE  Abstract!Push(h, p)
  <2>1. /\ stack_count' = [stack_count EXCEPT ![h] = CountPush(@)]
        /\ stack_top' = [stack_top EXCEPT ![h] = TopPush(@)]
        /\ path_reg' = [path_reg EXCEPT ![PathIndex(h, stack_top[h])] = p]
        /\ answer' = answer
    BY <1>1, StagePush
  <2>2. PathIndex(h, stack_top[h]) \in Slots /\ stack_top[h] \in 0..3
    BY DEF RingTypeOK, Slots
  <2>3. ASSUME NEW g \in Hosts, g # h
        PROVE  StackOf(g)' = StackOf(g)
    <3>1. stack_count'[g] = stack_count[g] /\ stack_top'[g] = stack_top[g]
      BY <2>1, <2>3 DEF RingTypeOK
    <3>2. \A i \in 1..4 : path_reg'[SlotBelow(g, i)] = path_reg[SlotBelow(g, i)]
      <4>1. TAKE i \in 1..4
      <4>2. SlotBelow(g, i) # PathIndex(h, stack_top[h])
        BY <2>2, <2>3, <3>1, SlotsOfOthers
      <4>3. SlotBelow(g, i) \in Slots
        BY SlotBelowType
      <4>4. QED
        BY <2>1, <4>2, <4>3 DEF RingTypeOK
    <3>3. QED
      BY <3>1, <3>2, StackOfOthers
  <2>4. StackOf(h)' = Abstract!PushFront(StackOf(h), p)
    BY <1>1, StackOfPush
  <2>5. QED
    BY <2>1, <2>3, <2>4 DEF Abstract!Push
<1>2. ASSUME NEW h \in Hosts, NEW p \in Paths, PathStage("DATA", 1, h, p),
             stack_count[h] = 0
      PROVE  Abstract!Miss(h)
  <2>1. /\ UNCHANGED <<stack_count, stack_top, path_reg>>
        /\ answer' = [host |-> h, path |-> NoPath]
    BY <1>2, StageMiss
  <2>2. StackOf(h) = <<>>
    BY <1>2 DEF StackOf
  <2>3. QED
    BY <2>1, <2>2, StackUnchanged DEF Abstract!Miss
<1>3. ASSUME NEW h \in Hosts, NEW p \in Paths, PathStage("DATA", 1, h, p),
             stack_count[h] # 0
      PROVE  Abstract!Take(h)
  <2>1. /\ stack_count' = [stack_count EXCEPT ![h] = @ - 1]
        /\ stack_top' = [stack_top EXCEPT ![h] = TopPop(@)]
        /\ path_reg' = path_reg
    BY <1>3, StageTake
  <2>2. ASSUME NEW g \in Hosts, g # h
        PROVE  StackOf(g)' = StackOf(g)
    <3>1. stack_count'[g] = stack_count[g] /\ stack_top'[g] = stack_top[g]
      BY <2>1, <2>2 DEF RingTypeOK
    <3>2. \A i \in 1..4 : path_reg'[SlotBelow(g, i)] = path_reg[SlotBelow(g, i)]
      BY <2>1
    <3>3. QED
      BY <3>1, <3>2, StackOfOthers
  <2>3. /\ StackOf(h)' = Abstract!PopFront(StackOf(h))
        /\ StackOf(h) # <<>>
        /\ answer' = [host |-> h, path |-> StackOf(h)[1]]
    BY <1>3, StackOfPop
  <2>4. QED
    BY <2>2, <2>3 DEF Abstract!Take
<1>4. CASE UNCHANGED ringVars
  BY <1>4, StackUnchanged DEF ringVars, Abstract!stackVars
<1>5. QED
  BY <1>1, <1>2, <1>3, <1>4, RingSteps DEF Abstract!StackNext

\* Whatever the packets and their order, the three registers of every host
\* behave as one bounded last-in-first-out store of the paths acknowledged
\* for that host: a new flow gets the newest of them, or none if none is left.
THEOREM RingImplementsStack == RingSpec => RefinesStack
<1>1. RingInit => Abstract!StackInit
  <2>1. ASSUME RingInit, NEW h \in Hosts
        PROVE  StackOf(h) = <<>>
    BY <2>1 DEF RingInit, StackOf
  <2>2. QED
    BY <2>1 DEF RingInit, Abstract!StackInit
<1>2. RingTypeOK /\ [RingNext]_ringVars => [Abstract!StackNext]_(Abstract!stackVars)
  BY StackStep
<1>3. QED
  BY <1>1, <1>2, RingTypeCorrect, PTL DEF RingSpec, RefinesStack, Abstract!StackSpec

=============================================================================

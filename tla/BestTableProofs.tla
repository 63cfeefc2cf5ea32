-------------------------- MODULE BestTableProofs ---------------------------
(***************************************************************************)
(* Proofs about BestTable and BestOverlap, for any hosts, uplinks,         *)
(* estimates and reports, and any number of acknowledgements of a host     *)
(* between their passes.                                                   *)
(*                                                                         *)
(* BestTypeOK is inductive.  AcceptablePush needs it only to know that the *)
(* estimates are natural numbers; AcceptableUsesGood needs estimates below *)
(* CE_max.  What BestOverlap says of acknowledgements that overlap rests   *)
(* on OverlapInv: who among those under way may have read an uplink that   *)
(* does not hold the entry any more, and how long ago it did.              *)
(***************************************************************************)
EXTENDS BestOverlap, SequenceTheorems, TLAPS

-----------------------------------------------------------------------------
(* The operators on entries.                                               *)

\* The entries an acknowledgement stands for are entries of the table.
LEMMA BeforeType ==
  ASSUME NEW r \in Acks
  PROVE  BeforeBest(r) \in Entries /\ BeforeGood(r) \in Entries
<1>1. r.report \in [best_port : Hops, best_CE : CEs, good_port : Hops, good_CE : CEs]
  BY BestAssumption DEF Acks
<1>2. Larger(r.CE, r.report.best_CE) \in CEs /\ Larger(r.CE, r.report.good_CE) \in CEs
  BY <1>1 DEF Acks, Larger
<1>3. QED
  BY <1>1, <1>2 DEF Acks, Entries, BeforeBest, BeforeGood

LEMMA AfterType ==
  ASSUME NEW r \in Acks, NEW val \in Entries
  PROVE  /\ AfterBest(val, r) \in Entries
         /\ NewPath(AfterBest(val, r), r) \in Entries
<1>1. AfterBest(val, r) \in Entries
  BY BeforeType DEF AfterBest
<1>2. QED
  BY <1>1, BeforeType DEF NewPath

\* The path selected is at most 1.2 times as congested as the best one: TH_reg
\* rounds down.
LEMMA NewPathAcceptable ==
  ASSUME NEW r \in Acks, NEW after \in Entries
  PROVE  5 * NewPath(after, r).CE <= 6 * after.CE
<1>1. after.CE \in Nat /\ BeforeGood(r).CE \in Nat
  BY BestAssumption, BeforeType DEF Entries
<1>2. CASE UseGoodPath(BeforeGood(r).CE, Threshold(after.CE))
  <2>1. BeforeGood(r).CE <= (after.CE * 6) \div 5
    BY <1>2 DEF UseGoodPath, Threshold
  <2>2. 5 * BeforeGood(r).CE <= 6 * after.CE
    BY <1>1, <2>1
  <2>3. QED
    BY <1>2, <2>2 DEF NewPath
<1>3. CASE ~UseGoodPath(BeforeGood(r).CE, Threshold(after.CE))
  BY <1>1, <1>3 DEF NewPath
<1>4. QED
  BY <1>2, <1>3

-----------------------------------------------------------------------------
(* Types.                                                                  *)

LEMMA BestTypeInit == BestInit => BestTypeOK
<1>1. SUFFICES ASSUME BestInit PROVE BestTypeOK
  OBVIOUS
<1>2. resubmit \in [Hosts -> Seq(Acks)] /\ \A h \in Hosts : Len(resubmit[h]) <= MaxInFlight
  BY <1>1, BestAssumption DEF BestInit
<1>3. /\ best \in [Hosts -> Entries]
      /\ pushed \in [Hosts -> Entries]
  BY <1>1, BestAssumption DEF BestInit
<1>4. QED
  BY <1>2, <1>3 DEF BestTypeOK

LEMMA AckFirstType ==
  ASSUME BestTypeOK, NEW h \in Hosts, NEW port \in Ports, NEW ce \in CEs,
         NEW report \in Reports, AckFirst(h, port, ce, report)
  PROVE  BestTypeOK'
<1> DEFINE r == [port |-> port, CE |-> ce, best_port |-> best[h].hop0, report |-> report]
<1>1. r \in Acks
  BY DEF BestTypeOK, Entries, Acks
<1>2. resubmit[h] \in Seq(Acks)
  BY DEF BestTypeOK
<1>3. /\ Append(resubmit[h], r) \in Seq(Acks)
      /\ Len(Append(resubmit[h], r)) = Len(resubmit[h]) + 1
  BY <1>1, <1>2, AppendProperties
<1>4. resubmit' = [resubmit EXCEPT ![h] = Append(resubmit[h], r)]
  BY DEF AckFirst
<1>5. Len(Append(resubmit[h], r)) <= MaxInFlight
  BY <1>2, <1>3, BestAssumption, LenProperties DEF AckFirst
<1>6. resubmit' \in [Hosts -> Seq(Acks)]
  BY <1>3, <1>4 DEF BestTypeOK
<1>7. \A k \in Hosts : Len(resubmit'[k]) <= MaxInFlight
  BY <1>4, <1>5 DEF BestTypeOK
<1>8. QED
  BY <1>6, <1>7 DEF BestTypeOK, AckFirst

\* The acknowledgement at the head, and what its second pass does with it.
LEMMA SecondPass ==
  ASSUME BestTypeOK, NEW h \in Hosts, AckSecond(h)
  PROVE  LET r     == Head(resubmit[h])
             after == AfterBest(best[h], r)
         IN  /\ r \in Acks
             /\ after \in Entries
             /\ NewPath(after, r) \in Entries
             /\ best' = [best EXCEPT ![h] = after]
             /\ pushed' = [pushed EXCEPT ![h] = NewPath(after, r)]
             /\ Len(resubmit[h]) \in Nat
             /\ Len(resubmit'[h]) = Len(resubmit[h]) - 1
             /\ resubmit' \in [Hosts -> Seq(Acks)]
             /\ \A k \in Hosts \ {h} : resubmit'[k] = resubmit[k]
<1>1. resubmit[h] \in Seq(Acks) /\ resubmit[h] # <<>>
  BY DEF BestTypeOK, AckSecond
<1>2. /\ Head(resubmit[h]) \in Acks
      /\ Tail(resubmit[h]) \in Seq(Acks)
      /\ Len(Tail(resubmit[h])) = Len(resubmit[h]) - 1
      /\ Len(resubmit[h]) \in Nat
  BY <1>1, HeadTailProperties, LenProperties
<1>3. best[h] \in Entries
  BY DEF BestTypeOK
<1>4. resubmit' = [resubmit EXCEPT ![h] = Tail(resubmit[h])]
  BY DEF AckSecond
<1>5. resubmit' \in [Hosts -> Seq(Acks)]
  BY <1>2, <1>4 DEF BestTypeOK
<1>6. Len(resubmit'[h]) = Len(resubmit[h]) - 1
  BY <1>2, <1>4 DEF BestTypeOK
<1>7. \A k \in Hosts \ {h} : resubmit'[k] = resubmit[k]
  BY <1>4 DEF BestTypeOK
<1>8. /\ best' = [best EXCEPT ![h] = AfterBest(best[h], Head(resubmit[h]))]
      /\ pushed' = [pushed EXCEPT ![h] =
           NewPath(AfterBest(best[h], Head(resubmit[h])), Head(resubmit[h]))]
  BY DEF AckSecond
<1>9. QED
  BY <1>2, <1>3, <1>5, <1>6, <1>7, <1>8, AfterType

LEMMA AckSecondType ==
  ASSUME BestTypeOK, NEW h \in Hosts, AckSecond(h)
  PROVE  BestTypeOK'
<1> DEFINE r     == Head(resubmit[h])
           after == AfterBest(best[h], r)
<1>1. /\ r \in Acks
      /\ after \in Entries
      /\ NewPath(after, r) \in Entries
      /\ best' = [best EXCEPT ![h] = after]
      /\ pushed' = [pushed EXCEPT ![h] = NewPath(after, r)]
      /\ Len(resubmit[h]) \in Nat
      /\ Len(resubmit'[h]) = Len(resubmit[h]) - 1
      /\ resubmit' \in [Hosts -> Seq(Acks)]
      /\ \A k \in Hosts \ {h} : resubmit'[k] = resubmit[k]
  BY SecondPass
<1> HIDE DEF r, after
<1>2. best' \in [Hosts -> Entries] /\ pushed' \in [Hosts -> Entries]
  BY <1>1 DEF BestTypeOK
<1>3. ASSUME NEW k \in Hosts PROVE Len(resubmit'[k]) <= MaxInFlight
  <2>1. CASE k = h
    BY <1>1, <2>1, BestAssumption DEF BestTypeOK
  <2>2. CASE k # h
    BY <1>1, <2>2 DEF BestTypeOK
  <2>3. QED
    BY <2>1, <2>2
<1>4. QED
  BY <1>1, <1>2, <1>3 DEF BestTypeOK

LEMMA BestTypeStep == BestTypeOK /\ [BestNext]_bestVars => BestTypeOK'
<1>1. SUFFICES ASSUME BestTypeOK, [BestNext]_bestVars PROVE BestTypeOK'
  OBVIOUS
<1>2. ASSUME NEW h \in Hosts, NEW port \in Ports, NEW ce \in CEs, NEW report \in Reports,
             AckFirst(h, port, ce, report)
      PROVE  BestTypeOK'
  BY <1>1, <1>2, AckFirstType
<1>3. ASSUME NEW h \in Hosts, AckSecond(h) PROVE BestTypeOK'
  BY <1>1, <1>3, AckSecondType
<1>4. CASE UNCHANGED bestVars
  BY <1>1, <1>4 DEF bestVars, BestTypeOK
<1>5. QED
  BY <1>1, <1>2, <1>3, <1>4 DEF BestNext

\* The table's entries stay paths of this switch, whatever is reported.
THEOREM BestTypeCorrect == BestSpec => []BestTypeOK
  BY BestTypeInit, BestTypeStep, PTL DEF BestSpec

-----------------------------------------------------------------------------
(* What is pushed is acceptable.                                           *)

LEMMA AcceptableInit == BestInit => AcceptablePush
<1>1. SUFFICES ASSUME BestInit, NEW h \in Hosts PROVE 5 * pushed[h].CE <= 6 * best[h].CE
  BY DEF AcceptablePush
<1>2. InitBest[h].CE \in Nat
  BY BestAssumption DEF Entries
<1>3. QED
  BY <1>1, <1>2 DEF BestInit

LEMMA AcceptableStep ==
  BestTypeOK /\ AcceptablePush /\ [BestNext]_bestVars => AcceptablePush'
<1>1. SUFFICES ASSUME BestTypeOK, AcceptablePush, [BestNext]_bestVars
               PROVE  AcceptablePush'
  OBVIOUS
<1>2. ASSUME NEW h \in Hosts, NEW port \in Ports, NEW ce \in CEs, NEW report \in Reports,
             AckFirst(h, port, ce, report)
      PROVE  AcceptablePush'
  BY <1>1, <1>2 DEF AckFirst, AcceptablePush
<1>3. ASSUME NEW h \in Hosts, AckSecond(h) PROVE AcceptablePush'
  <2> DEFINE r     == Head(resubmit[h])
             after == AfterBest(best[h], r)
  <2>1. /\ r \in Acks /\ after \in Entries
        /\ best' = [best EXCEPT ![h] = after]
        /\ pushed' = [pushed EXCEPT ![h] = NewPath(after, r)]
    BY <1>1, <1>3, SecondPass
  <2>2. 5 * NewPath(after, r).CE <= 6 * after.CE
    BY <2>1, NewPathAcceptable
  <2> HIDE DEF r, after
  <2>3. ASSUME NEW k \in Hosts PROVE 5 * pushed'[k].CE <= 6 * best'[k].CE
    BY <1>1, <2>1, <2>2 DEF AcceptablePush, BestTypeOK
  <2>4. QED
    BY <2>3 DEF AcceptablePush
<1>4. CASE UNCHANGED bestVars
  BY <1>1, <1>4 DEF bestVars, AcceptablePush
<1>5. QED
  BY <1>1, <1>2, <1>3, <1>4 DEF BestNext

\* The path put aside for new flows is never more than 1.2 times as congested
\* as the best path known then, for any number of acknowledgements of a host
\* between their passes.
THEOREM PushAcceptable == BestSpec => []AcceptablePush
  BY BestTypeInit, BestTypeStep, AcceptableInit, AcceptableStep, PTL DEF BestSpec

-----------------------------------------------------------------------------
(* The histories of BestOverlap.                                           *)

LEMMA NewestProperties ==
  ASSUME NEW S, NEW s \in Seq(S), NEW e \in S
  PROVE  /\ Newest(s, e) \in Seq(S)
         /\ Len(Newest(s, e)) \in 1..MaxInFlight
         /\ Newest(s, e)[1] = e
         /\ \A i \in 1..Len(s) :
              i + 1 <= MaxInFlight => /\ i + 1 <= Len(Newest(s, e))
                                      /\ Newest(s, e)[i + 1] = s[i]
<1> DEFINE n == IF Len(s) < MaxInFlight THEN Len(s) + 1 ELSE MaxInFlight
<1>1. n \in 1..MaxInFlight /\ n <= Len(s) + 1 /\ n \in Nat /\ Len(s) \in Nat
  BY BestAssumption, LenProperties
<1>2. \A i \in 1..Len(s) : i + 1 <= MaxInFlight => i + 1 <= n
  BY <1>1, BestAssumption
<1>3. Newest(s, e) = [i \in 1..n |-> IF i = 1 THEN e ELSE s[i - 1]]
  BY DEF Newest
<1> HIDE DEF n
<1>4. \A i \in 1..n : (IF i = 1 THEN e ELSE s[i - 1]) \in S
  <2>1. ASSUME NEW i \in 1..n, i # 1 PROVE s[i - 1] \in S
    <3>1. i - 1 \in 1..Len(s)
      BY <1>1, <2>1
    <3>2. QED
      BY <3>1, ElementOfSeq
  <2>2. QED
    BY <2>1
<1>5. Newest(s, e) \in [1..n -> S]
  BY <1>3, <1>4
<1>6. Newest(s, e) \in Seq(S) /\ Len(Newest(s, e)) = n
  BY <1>1, <1>5, SeqDef, LenProperties
<1>7. Newest(s, e)[1] = e
  BY <1>1, <1>3
<1>8. ASSUME NEW i \in 1..Len(s), i + 1 <= MaxInFlight
      PROVE  Newest(s, e)[i + 1] = s[i]
  <2>1. i + 1 \in 1..n /\ i + 1 # 1 /\ (i + 1) - 1 = i
    BY <1>1, <1>2, <1>8
  <2>2. QED
    BY <1>3, <2>1
<1>9. QED
  BY <1>1, <1>2, <1>6, <1>7, <1>8

\* t is the history s with e in front of it: the entries of s that are not too
\* old follow in their order.
Shifted(t, s, e, S) ==
  /\ t \in Seq(S)
  /\ Len(t) \in 1..MaxInFlight
  /\ t[1] = e
  /\ \A i \in 1..Len(s) :
       i + 1 <= MaxInFlight => i + 1 <= Len(t) /\ t[i + 1] = s[i]

LEMMA NewestShifts ==
  ASSUME NEW S, NEW s \in Seq(S), NEW e \in S
  PROVE  Shifted(Newest(s, e), s, e, S)
<1>1. PICK t : t = Newest(s, e)
  OBVIOUS
<1>2. /\ t \in Seq(S) /\ Len(t) \in 1..MaxInFlight /\ t[1] = e
      /\ \A i \in 1..Len(s) :
           i + 1 <= MaxInFlight => /\ i + 1 <= Len(t)
                                   /\ t[i + 1] = s[i]
  BY <1>1, NewestProperties
<1>3. Shifted(t, s, e, S)
  BY <1>2 DEF Shifted
<1>4. QED
  BY <1>1, <1>3

HistoryTypeOK ==
  /\ recent \in [Hosts -> [Ports -> Seq(Entries)]]
  /\ held \in [Hosts -> Seq(Ports)]
  /\ \A h \in Hosts : Len(held[h]) \in 1..MaxInFlight

\* The entry is the (i+1)-th newest report of its uplink, and only the s
\* oldest of the acknowledgements under way have read another uplink: each of
\* them may let one more report pass by, the others find the entry.
RecentWithin(h, s, i) ==
  /\ s + i + 1 <= MaxInFlight
  /\ i + 1 <= Len(recent[h][best[h].hop0])
  /\ best[h] = recent[h][best[h].hop0][i + 1]
  /\ \A k \in 1..Len(resubmit[h]) : k > s => resubmit[h][k].best_port = best[h].hop0

EntryStaysRecent == \A h \in Hosts : \E s, i \in Nat : RecentWithin(h, s, i)

\* What the k-th oldest acknowledgement under way has read was the entry's
\* uplink at most MaxInFlight - k second passes ago.
ReadWasHeld ==
  \A h \in Hosts :
    /\ held[h][1] = best[h].hop0
    /\ \A k \in 1..Len(resubmit[h]) : \E j \in 1..Len(held[h]) :
         j + k <= MaxInFlight + 1 /\ held[h][j] = resubmit[h][k].best_port

OverlapInv == BestTypeOK /\ HistoryTypeOK /\ EntryStaysRecent /\ ReadWasHeld

LEMMA OverlapInitInv == OverlapInit => OverlapInv
<1>1. SUFFICES ASSUME OverlapInit PROVE OverlapInv
  OBVIOUS
<1>2. BestTypeOK
  BY <1>1, BestTypeInit DEF OverlapInit
<1>3. \A h \in Hosts : InitBest[h] \in Entries /\ InitBest[h].hop0 \in Ports
  BY BestAssumption DEF Entries
<1>4. HistoryTypeOK
  <2>1. \A h \in Hosts : \A p \in Ports :
          (IF p = InitBest[h].hop0 THEN <<InitBest[h]>> ELSE <<>>) \in Seq(Entries)
    <3>1. ASSUME NEW h \in Hosts PROVE <<InitBest[h]>> \in Seq(Entries)
      BY <1>3
    <3>2. <<>> \in Seq(Entries)
      OBVIOUS
    <3>3. TAKE h \in Hosts
    <3>4. TAKE p \in Ports
    <3>5. PICK s, t : s = <<InitBest[h]>> /\ t = <<>>
      OBVIOUS
    <3>6. s \in Seq(Entries) /\ t \in Seq(Entries)
      BY <3>1, <3>2, <3>5
    <3>7. (IF p = InitBest[h].hop0 THEN s ELSE t) \in Seq(Entries)
      BY <3>6
    <3>8. QED
      BY <3>5, <3>7
  <2>2. recent \in [Hosts -> [Ports -> Seq(Entries)]]
    BY <1>1, <2>1 DEF OverlapInit
  <2>3. ASSUME NEW h \in Hosts
        PROVE  <<InitBest[h].hop0>> \in Seq(Ports) /\ Len(<<InitBest[h].hop0>>) \in 1..MaxInFlight
    BY <1>3, BestAssumption
  <2>4. held \in [Hosts -> Seq(Ports)] /\ \A h \in Hosts : Len(held[h]) \in 1..MaxInFlight
    BY <1>1, <2>3 DEF OverlapInit
  <2>5. QED
    BY <2>2, <2>4 DEF HistoryTypeOK
<1>5. ASSUME NEW h \in Hosts PROVE RecentWithin(h, 0, 0)
  <2>1. best[h] = InitBest[h] /\ resubmit[h] = <<>>
    BY <1>1 DEF OverlapInit, BestInit
  <2>2. recent[h][InitBest[h].hop0] = <<InitBest[h]>>
    BY <1>1, <1>3 DEF OverlapInit
  <2>3. QED
    BY <2>1, <2>2, BestAssumption DEF RecentWithin
<1>6. EntryStaysRecent
  BY <1>5 DEF EntryStaysRecent
<1>7. ReadWasHeld
  <2>1. ASSUME NEW h \in Hosts
        PROVE  /\ resubmit[h] = <<>> /\ best[h] = InitBest[h]
               /\ held[h] = <<InitBest[h].hop0>>
    BY <1>1 DEF OverlapInit, BestInit
  <2>2. QED
    <3>1. ASSUME NEW h \in Hosts PROVE held[h][1] = best[h].hop0
      BY <2>1
    <3>2. ASSUME NEW h \in Hosts, NEW k \in 1..Len(resubmit[h]) PROVE FALSE
      BY <2>1, <3>2
    <3>3. QED
      BY <3>1, <3>2 DEF ReadWasHeld
<1>8. QED
  BY <1>2, <1>4, <1>6, <1>7 DEF OverlapInv

LEMMA OverlapFirstInv ==
  ASSUME OverlapInv, NEW h \in Hosts, NEW port \in Ports, NEW ce \in CEs, NEW report \in Reports,
         OverlapFirst(h, port, ce, report)
  PROVE  HistoryTypeOK' /\ EntryStaysRecent' /\ ReadWasHeld'
<1> DEFINE r == [port |-> port, CE |-> ce, best_port |-> best[h].hop0, report |-> report]
<1>1. /\ best' = best /\ recent' = recent /\ held' = held
      /\ resubmit' = [resubmit EXCEPT ![h] = Append(resubmit[h], r)]
      /\ Len(resubmit[h]) < MaxInFlight
  BY DEF OverlapFirst, AckFirst
<1>2. resubmit \in [Hosts -> Seq(Acks)] /\ r \in Acks
  BY DEF OverlapInv, BestTypeOK, Entries, Acks
<1>3. r.best_port = best[h].hop0
  OBVIOUS
<1> HIDE DEF r
<1>4. /\ Len(resubmit[h]) \in Nat
      /\ Len(resubmit'[h]) = Len(resubmit[h]) + 1
      /\ \A k \in 1..Len(resubmit[h]) : resubmit'[h][k] = resubmit[h][k]
      /\ resubmit'[h][Len(resubmit[h]) + 1] = r
  BY <1>1, <1>2, AppendProperties, LenProperties
<1>5. \A g \in Hosts \ {h} : resubmit'[g] = resubmit[g]
  BY <1>1, <1>2
<1>6. ASSUME NEW k \in 1..Len(resubmit'[h]) PROVE k \in 1..Len(resubmit[h]) \/ k = Len(resubmit[h]) + 1
  BY <1>4
<1>7. HistoryTypeOK'
  BY <1>1 DEF OverlapInv, HistoryTypeOK
<1>8. ASSUME NEW g \in Hosts PROVE \E s, i \in Nat : RecentWithin(g, s, i)'
  <2>1. PICK s \in Nat, i \in Nat : RecentWithin(g, s, i)
    BY DEF OverlapInv, EntryStaysRecent
  <2>2. ASSUME NEW k \in 1..Len(resubmit'[g]), k > s
        PROVE  resubmit'[g][k].best_port = best'[g].hop0
    <3>1. CASE g = h
      BY <1>1, <1>3, <1>4, <1>6, <2>1, <2>2, <3>1 DEF RecentWithin
    <3>2. CASE g # h
      BY <1>1, <1>5, <2>1, <2>2, <3>2 DEF RecentWithin
    <3>3. QED
      BY <3>1, <3>2
  <2>3. RecentWithin(g, s, i)'
    BY <1>1, <2>1, <2>2 DEF RecentWithin
  <2>4. QED
    BY <2>3
<1>9. ASSUME NEW g \in Hosts, NEW k \in 1..Len(resubmit'[g])
      PROVE  \E j \in 1..Len(held[g]) :
               j + k <= MaxInFlight + 1 /\ held[g][j] = resubmit'[g][k].best_port
  <2>1. CASE g = h /\ k = Len(resubmit[h]) + 1
    <3>1. held[g][1] = best[g].hop0 /\ 1 \in 1..Len(held[g])
      BY DEF OverlapInv, HistoryTypeOK, ReadWasHeld
    <3>2. 1 + k <= MaxInFlight + 1
      BY <1>1, <1>4, <2>1, BestAssumption
    <3>3. QED
      BY <1>3, <1>4, <2>1, <3>1, <3>2
  <2>2. CASE g = h /\ k \in 1..Len(resubmit[h])
    BY <1>4, <2>2 DEF OverlapInv, ReadWasHeld
  <2>3. CASE g # h
    BY <1>5, <1>9, <2>3 DEF OverlapInv, ReadWasHeld
  <2>4. QED
    BY <1>6, <2>1, <2>2, <2>3
<1>10. ReadWasHeld'
  BY <1>1, <1>9 DEF OverlapInv, ReadWasHeld
<1>11. QED
  BY <1>7, <1>8, <1>10 DEF EntryStaysRecent

\* What a second pass of an acknowledgement of h does to the table of h, to
\* what is under way behind it and to the histories.
LEMMA OverlapSecondPass ==
  ASSUME OverlapInv, NEW h \in Hosts, OverlapSecond(h)
  PROVE  LET r == Head(resubmit[h])
         IN  /\ r \in Acks
             /\ r = resubmit[h][1]
             /\ 1 \in 1..Len(resubmit[h])
             /\ best'[h] = AfterBest(best[h], r)
             /\ recent'[h][r.port] = Newest(recent[h][r.port], BeforeBest(r))
             /\ \A p \in Ports \ {r.port} : recent'[h][p] = recent[h][p]
             /\ held'[h] = Newest(held[h], best'[h].hop0)
             /\ Len(resubmit'[h]) + 1 = Len(resubmit[h])
             /\ Len(resubmit'[h]) \in Nat
             /\ \A k \in 1..Len(resubmit'[h]) :
                  k + 1 \in 1..Len(resubmit[h]) /\ resubmit'[h][k] = resubmit[h][k + 1]
             /\ \A g \in Hosts \ {h} :
                  /\ best'[g] = best[g] /\ resubmit'[g] = resubmit[g]
                  /\ recent'[g] = recent[g] /\ held'[g] = held[g]
             /\ recent' \in [Hosts -> [Ports -> Seq(Entries)]]
<1> DEFINE r     == Head(resubmit[h])
           after == AfterBest(best[h], r)
<1>1. AckSecond(h) /\ BestTypeOK
  BY DEF OverlapSecond, OverlapInv
<1>2. /\ r \in Acks /\ after \in Entries
      /\ best' = [best EXCEPT ![h] = after]
      /\ Len(resubmit[h]) \in Nat
      /\ Len(resubmit'[h]) = Len(resubmit[h]) - 1
      /\ \A g \in Hosts \ {h} : resubmit'[g] = resubmit[g]
  BY <1>1, SecondPass
<1>3. /\ recent' = [recent EXCEPT ![h][r.port] = Newest(recent[h][r.port], BeforeBest(r))]
      /\ held' = [held EXCEPT ![h] = Newest(held[h], best'[h].hop0)]
  BY DEF OverlapSecond
<1>4. resubmit[h] \in Seq(Acks) /\ resubmit[h] # <<>>
  BY <1>1 DEF BestTypeOK, AckSecond
<1>5. resubmit'[h] = Tail(resubmit[h]) /\ r = resubmit[h][1]
  BY <1>1, <1>4 DEF BestTypeOK, AckSecond
<1>6. Len(resubmit[h]) >= 1
  BY <1>4, EmptySeq, LenProperties
<1>7. \A k \in 1..Len(resubmit'[h]) :
        k + 1 \in 1..Len(resubmit[h]) /\ resubmit'[h][k] = resubmit[h][k + 1]
  BY <1>2, <1>4, <1>5, HeadTailProperties
<1> HIDE DEF r, after
<1>8. r.port \in Ports /\ BeforeBest(r) \in Entries
  BY <1>2, BeforeType DEF Acks
<1>9. recent[h] \in [Ports -> Seq(Entries)] /\ recent[h][r.port] \in Seq(Entries)
  BY <1>8 DEF OverlapInv, HistoryTypeOK
<1>10. Newest(recent[h][r.port], BeforeBest(r)) \in Seq(Entries)
  <2>1. Shifted(Newest(recent[h][r.port], BeforeBest(r)), recent[h][r.port],
                BeforeBest(r), Entries)
    BY <1>8, <1>9, NewestShifts
  <2>2. QED
    BY <2>1 DEF Shifted
<1>11. /\ recent' = [recent EXCEPT ![h] =
            [recent[h] EXCEPT ![r.port] = Newest(recent[h][r.port], BeforeBest(r))]]
       /\ recent \in [Hosts -> [Ports -> Seq(Entries)]]
  BY <1>3 DEF OverlapInv, HistoryTypeOK
<1>12. /\ recent' \in [Hosts -> [Ports -> Seq(Entries)]]
       /\ recent'[h][r.port] = Newest(recent[h][r.port], BeforeBest(r))
       /\ \A p \in Ports \ {r.port} : recent'[h][p] = recent[h][p]
       /\ \A g \in Hosts \ {h} : recent'[g] = recent[g]
  BY <1>8, <1>9, <1>10, <1>11
<1>13. /\ held'[h] = Newest(held[h], best'[h].hop0)
       /\ \A g \in Hosts \ {h} : held'[g] = held[g]
  BY <1>3 DEF OverlapInv, HistoryTypeOK
<1>14. best'[h] = after /\ \A g \in Hosts \ {h} : best'[g] = best[g]
  BY <1>1, <1>2 DEF BestTypeOK
<1>15. QED
  BY <1>2, <1>5, <1>6, <1>7, <1>12, <1>13, <1>14 DEF r, after

\* The entry left behind by r.
LEMMA AfterCases ==
  ASSUME NEW r \in Acks, NEW val \in Entries
  PROVE  \/ PortEqual(r) /\ AfterBest(val, r) = BeforeBest(r)
         \/ ~PortEqual(r) /\ Word(val) >= Word(BeforeBest(r)) /\ AfterBest(val, r) = BeforeBest(r)
         \/ /\ ~PortEqual(r) /\ ~(Word(val) >= Word(BeforeBest(r)))
            /\ AfterBest(val, r) = val
<1>1. CASE PortEqual(r)
  BY <1>1 DEF AfterBest, BestTableAction
<1>2. CASE ~PortEqual(r)
  <2>1. BestTableAction("CAVER_ACK_SECOND", PortEqual(r)) = "check_BestTable"
    BY <1>2 DEF BestTableAction
  <2>2. QED
    BY <1>2, <2>1 DEF AfterBest
<1>3. QED
  BY <1>1, <1>2

LEMMA OverlapSecondInv ==
  ASSUME OverlapInv, BestTypeOK', NEW h \in Hosts, OverlapSecond(h)
  PROVE  HistoryTypeOK' /\ EntryStaysRecent' /\ ReadWasHeld'
<1>1. PICK r : r = Head(resubmit[h])
  OBVIOUS
<1>2. /\ r \in Acks /\ r = resubmit[h][1] /\ 1 \in 1..Len(resubmit[h])
      /\ best'[h] = AfterBest(best[h], r)
      /\ recent'[h][r.port] = Newest(recent[h][r.port], BeforeBest(r))
      /\ \A p \in Ports \ {r.port} : recent'[h][p] = recent[h][p]
      /\ held'[h] = Newest(held[h], best'[h].hop0)
      /\ Len(resubmit'[h]) + 1 = Len(resubmit[h])
      /\ Len(resubmit'[h]) \in Nat
      /\ \A k \in 1..Len(resubmit'[h]) :
           k + 1 \in 1..Len(resubmit[h]) /\ resubmit'[h][k] = resubmit[h][k + 1]
      /\ \A g \in Hosts \ {h} :
           /\ best'[g] = best[g] /\ resubmit'[g] = resubmit[g]
           /\ recent'[g] = recent[g] /\ held'[g] = held[g]
      /\ recent' \in [Hosts -> [Ports -> Seq(Entries)]]
  BY <1>1, OverlapSecondPass
<1>3. /\ r.port \in Ports /\ BeforeBest(r) \in Entries /\ BeforeBest(r).hop0 = r.port
      /\ best[h] \in Entries /\ best[h].hop0 \in Ports
      /\ best'[h].hop0 \in Ports
  BY <1>2, BeforeType DEF Acks, BeforeBest, OverlapInv, BestTypeOK, Entries
<1>4. recent[h][r.port] \in Seq(Entries) /\ held[h] \in Seq(Ports) /\ Len(held[h]) \in 1..MaxInFlight
  BY <1>3 DEF OverlapInv, HistoryTypeOK
<1>5. /\ held'[h] \in Seq(Ports) /\ Len(held'[h]) \in 1..MaxInFlight
      /\ held'[h][1] = best'[h].hop0
      /\ \A i \in 1..Len(held[h]) :
           i + 1 <= MaxInFlight => /\ i + 1 <= Len(held'[h])
                                   /\ held'[h][i + 1] = held[h][i]
  <2>1. PICK s, e : s = held[h] /\ e = best'[h].hop0
    OBVIOUS
  <2>2. e \in Ports /\ s \in Seq(Ports) /\ held'[h] = Newest(s, e)
    BY <1>2, <1>3, <1>4, <2>1
  <2>3. s \in Seq(Ports) /\ e \in Ports
    BY <2>2
  <2>4. Shifted(Newest(s, e), s, e, Ports)
    BY <2>3, NewestShifts
  <2>5. Shifted(held'[h], s, e, Ports)
    BY <2>2, <2>4
  <2>6. QED
    BY <2>1, <2>5 DEF Shifted
<1>6. /\ Len(recent'[h][r.port]) \in 1..MaxInFlight
      /\ recent'[h][r.port][1] = BeforeBest(r)
      /\ \A i \in 1..Len(recent[h][r.port]) :
           i + 1 <= MaxInFlight => /\ i + 1 <= Len(recent'[h][r.port])
                                   /\ recent'[h][r.port][i + 1] = recent[h][r.port][i]
  <2>1. PICK s, e : s = recent[h][r.port] /\ e = BeforeBest(r)
    OBVIOUS
  <2>2. e \in Entries /\ s \in Seq(Entries) /\ recent'[h][r.port] = Newest(s, e)
    BY <1>2, <1>3, <1>4, <2>1
  <2>3. s \in Seq(Entries) /\ e \in Entries
    BY <2>2
  <2>4. Shifted(Newest(s, e), s, e, Entries)
    BY <2>3, NewestShifts
  <2>5. Shifted(recent'[h][r.port], s, e, Entries)
    BY <2>2, <2>4
  <2>6. QED
    BY <2>1, <2>5 DEF Shifted
<1>7. HistoryTypeOK'
  <2>1. \A g \in Hosts : held'[g] \in Seq(Ports) /\ Len(held'[g]) \in 1..MaxInFlight
    BY <1>2, <1>5 DEF OverlapInv, HistoryTypeOK
  <2>2. held' = [held EXCEPT ![h] = held'[h]] /\ held \in [Hosts -> Seq(Ports)]
    BY DEF OverlapSecond, OverlapInv, HistoryTypeOK
  <2>3. QED
    BY <1>2, <2>1, <2>2 DEF HistoryTypeOK
<1>8. \E s, i \in Nat : RecentWithin(h, s, i)'
  <2>1. PICK s \in Nat, i \in Nat : RecentWithin(h, s, i)
    BY DEF OverlapInv, EntryStaysRecent
  <2>2. Len(resubmit[h]) <= MaxInFlight
    BY DEF OverlapInv, BestTypeOK
  <2>3. CASE best'[h] = BeforeBest(r)
    <3>1. PICK s1 \in Nat : s1 = Len(resubmit'[h])
      BY <1>2
    <3>2. s1 + 0 + 1 <= MaxInFlight
      BY <1>2, <2>2, <3>1, BestAssumption DEF OverlapInv, BestTypeOK
    <3>3. best'[h].hop0 = r.port /\ best'[h] = recent'[h][r.port][1]
          /\ 0 + 1 <= Len(recent'[h][r.port])
      BY <1>3, <1>6, <2>3
    <3>4. RecentWithin(h, s1, 0)'
      BY <3>1, <3>2, <3>3 DEF RecentWithin
    <3>5. QED
      BY <3>4
  <2>4. CASE best'[h] = best[h] /\ r.port # best[h].hop0
    <3>1. PICK t \in Nat : t + 1 = s \/ (t = 0 /\ s = 0)
      BY <2>1
    <3>2. t + i + 1 <= MaxInFlight
      BY <2>1, <3>1, BestAssumption DEF RecentWithin
    <3>3. recent'[h][best'[h].hop0] = recent[h][best[h].hop0]
      BY <1>2, <1>3, <2>4
    <3>4. ASSUME NEW k \in 1..Len(resubmit'[h]), k > t
          PROVE  resubmit'[h][k].best_port = best'[h].hop0
      <4>1. k + 1 > s
        BY <1>2, <2>1, <3>1, <3>4
      <4>2. QED
        BY <1>2, <2>1, <2>4, <4>1 DEF RecentWithin
    <3>5. RecentWithin(h, t, i)'
      BY <2>1, <2>4, <3>2, <3>3, <3>4 DEF RecentWithin
    <3>6. QED
      BY <3>5
  <2>5. CASE best'[h] = best[h] /\ r.port = best[h].hop0 /\ ~PortEqual(r)
    <3>1. s >= 1
      <4>1. 1 \in 1..Len(resubmit[h]) /\ resubmit[h][1].best_port # best[h].hop0
        BY <1>2, <2>5 DEF PortEqual
      <4>2. ~(1 > s)
        BY <2>1, <4>1 DEF RecentWithin
      <4>3. QED
        BY <4>2
    <3>2. s - 1 \in Nat /\ i + 1 \in Nat /\ i + 1 \in 1..Len(recent[h][r.port])
          /\ i + 2 <= MaxInFlight
      BY <1>4, <2>1, <2>5, <3>1, BestAssumption, LenProperties DEF RecentWithin
    <3>3. recent'[h][best'[h].hop0][i + 2] = best'[h] /\ i + 2 <= Len(recent'[h][best'[h].hop0])
      BY <1>6, <2>1, <2>5, <3>2 DEF RecentWithin
    <3>4. ASSUME NEW k \in 1..Len(resubmit'[h]), k > s - 1
          PROVE  resubmit'[h][k].best_port = best'[h].hop0
      <4>1. k + 1 > s
        BY <1>2, <3>4
      <4>2. QED
        BY <1>2, <2>1, <2>5, <4>1 DEF RecentWithin
    <3>5. RecentWithin(h, s - 1, i + 1)'
      BY <2>1, <3>2, <3>3, <3>4, BestAssumption DEF RecentWithin
    <3>6. QED
      BY <3>2, <3>5
  <2>6. QED
    BY <1>2, <1>3, <2>3, <2>4, <2>5, AfterCases
<1>9. ASSUME NEW g \in Hosts, g # h PROVE \E s, i \in Nat : RecentWithin(g, s, i)'
  <2>1. PICK s \in Nat, i \in Nat : RecentWithin(g, s, i)
    BY DEF OverlapInv, EntryStaysRecent
  <2>2. RecentWithin(g, s, i)'
    BY <1>2, <1>9, <2>1 DEF RecentWithin
  <2>3. QED
    BY <2>2
<1>10. ASSUME NEW k \in 1..Len(resubmit'[h])
       PROVE  \E j \in 1..Len(held'[h]) :
                j + k <= MaxInFlight + 1 /\ held'[h][j] = resubmit'[h][k].best_port
  <2>1. PICK j \in 1..Len(held[h]) :
               j + (k + 1) <= MaxInFlight + 1 /\ held[h][j] = resubmit[h][k + 1].best_port
    BY <1>2 DEF OverlapInv, ReadWasHeld
  <2>2. j + 1 <= MaxInFlight /\ (j + 1) + k <= MaxInFlight + 1
    <3>1. Len(resubmit'[h]) \in Nat
      BY <1>2
    <3>2. j \in Nat /\ k \in Nat /\ k >= 1 /\ MaxInFlight \in Nat
      BY <1>4, <3>1, BestAssumption
    <3>3. QED
      BY <2>1, <3>2
  <2>3. j + 1 \in 1..Len(held'[h]) /\ held'[h][j + 1] = held[h][j]
    <3>1. j \in Nat /\ Len(held'[h]) \in Nat
      BY <1>5, BestAssumption
    <3>2. j + 1 <= Len(held'[h]) /\ held'[h][j + 1] = held[h][j]
      BY <1>5, <2>2
    <3>3. QED
      BY <3>1, <3>2
  <2>4. held'[h][j + 1] = resubmit'[h][k].best_port
    BY <1>2, <2>1, <2>3
  <2>5. QED
    BY <2>2, <2>3, <2>4
<1>11. ReadWasHeld'
  <2>1. ASSUME NEW g \in Hosts, g # h, NEW k \in 1..Len(resubmit'[g])
        PROVE  \E j \in 1..Len(held'[g]) :
                 j + k <= MaxInFlight + 1 /\ held'[g][j] = resubmit'[g][k].best_port
    <3>1. held'[g] = held[g] /\ resubmit'[g] = resubmit[g] /\ k \in 1..Len(resubmit[g])
      BY <1>2, <2>1
    <3>2. \E j \in 1..Len(held[g]) :
            j + k <= MaxInFlight + 1 /\ held[g][j] = resubmit[g][k].best_port
      BY <3>1 DEF OverlapInv, ReadWasHeld
    <3>3. QED
      BY <3>1, <3>2
  <2>2. \A g \in Hosts : held'[g][1] = best'[g].hop0
    BY <1>2, <1>5 DEF OverlapInv, ReadWasHeld
  <2>3. QED
    BY <1>10, <2>1, <2>2 DEF ReadWasHeld
<1>12. QED
  BY <1>7, <1>8, <1>9, <1>11 DEF EntryStaysRecent

LEMMA OverlapStep == OverlapInv /\ [OverlapNext]_overlapVars => OverlapInv'
<1>1. SUFFICES ASSUME OverlapInv, [OverlapNext]_overlapVars PROVE OverlapInv'
  OBVIOUS
<1>2. [BestNext]_bestVars
  BY <1>1 DEF OverlapNext, OverlapFirst, OverlapSecond, BestNext, overlapVars
<1>3. BestTypeOK'
  BY <1>1, <1>2, BestTypeStep DEF OverlapInv
<1>4. ASSUME NEW h \in Hosts, NEW port \in Ports, NEW ce \in CEs, NEW report \in Reports,
             OverlapFirst(h, port, ce, report)
      PROVE  HistoryTypeOK' /\ EntryStaysRecent' /\ ReadWasHeld'
  BY <1>1, <1>4, OverlapFirstInv
<1>5. ASSUME NEW h \in Hosts, OverlapSecond(h)
      PROVE  HistoryTypeOK' /\ EntryStaysRecent' /\ ReadWasHeld'
  BY <1>1, <1>3, <1>5, OverlapSecondInv
<1>6. ASSUME UNCHANGED overlapVars PROVE HistoryTypeOK' /\ EntryStaysRecent' /\ ReadWasHeld'
  <2>1. best' = best /\ resubmit' = resubmit /\ recent' = recent /\ held' = held
    BY <1>6 DEF overlapVars, bestVars
  <2>2. HistoryTypeOK'
    BY <1>1, <2>1 DEF OverlapInv, HistoryTypeOK
  <2>3. EntryStaysRecent'
    BY <1>1, <2>1 DEF OverlapInv, EntryStaysRecent, RecentWithin
  <2>4. ReadWasHeld'
    BY <1>1, <2>1 DEF OverlapInv, ReadWasHeld
  <2>5. QED
    BY <2>2, <2>3, <2>4
<1>7. QED
  BY <1>1, <1>3, <1>4, <1>5, <1>6 DEF OverlapNext, OverlapInv

-----------------------------------------------------------------------------
(* The stored path is hardly outdated.                                     *)

\* The stored path is one of the last MaxInFlight reported over its uplink,
\* however acknowledgements overlap: every report that was taken for another
\* path's had a first pass before the entry moved to this uplink.
THEOREM EntryNotOutdated == OverlapSpec => []EntryIsRecent
<1>1. ASSUME OverlapInv, NEW h \in Hosts
      PROVE  \E i \in 1..Len(recent[h][best[h].hop0]) : best[h] = recent[h][best[h].hop0][i]
  <2>1. PICK s \in Nat, i \in Nat : RecentWithin(h, s, i)
    BY <1>1 DEF OverlapInv, EntryStaysRecent
  <2>2. recent[h][best[h].hop0] \in Seq(Entries)
    BY <1>1 DEF OverlapInv, HistoryTypeOK, BestTypeOK, Entries
  <2>3. i + 1 \in 1..Len(recent[h][best[h].hop0])
    BY <2>1, <2>2, LenProperties DEF RecentWithin
  <2>4. QED
    BY <2>1, <2>3 DEF RecentWithin
<1>2. OverlapInv => EntryIsRecent
  BY <1>1 DEF EntryIsRecent
<1>3. QED
  BY <1>2, OverlapInitInv, OverlapStep, PTL DEF OverlapSpec

-----------------------------------------------------------------------------
(* What makes the stored path look worse.                                  *)

\* A path of an uplink that was not read only replaces the entry if its word
\* is not larger.
LEMMA RaisedStep ==
  ASSUME OverlapInv, [OverlapNext]_overlapVars, NEW k \in Hosts, Word(best'[k]) > Word(best[k])
  PROVE  \E i \in 1..Len(held[k]) : best'[k].hop0 = held[k][i]
<1>1. ASSUME best'[k] = best[k] PROVE FALSE
  <2>1. best[k] \in Entries
    BY DEF OverlapInv, BestTypeOK
  <2>2. Word(best[k]) \in Nat
    BY <2>1, BestAssumption DEF Entries, Word
  <2>3. QED
    BY <1>1, <2>2
<1>2. ASSUME NEW h \in Hosts, NEW port, NEW ce, NEW report, OverlapFirst(h, port, ce, report)
      PROVE  best' = best
  BY <1>2 DEF OverlapFirst, AckFirst
<1>3. PICK h \in Hosts : OverlapSecond(h)
  BY <1>1, <1>2 DEF OverlapNext, overlapVars, bestVars
<1>4. PICK r : r = Head(resubmit[h])
  OBVIOUS
<1>5. /\ r \in Acks /\ r = resubmit[h][1] /\ 1 \in 1..Len(resubmit[h])
      /\ best'[h] = AfterBest(best[h], r)
      /\ \A g \in Hosts \ {h} : best'[g] = best[g]
  BY <1>3, <1>4, OverlapSecondPass
<1>6. k = h
  BY <1>1, <1>5
<1>7. best[h] \in Entries /\ BeforeBest(r) \in Entries /\ BeforeBest(r).hop0 = r.port
  BY <1>5, BeforeType DEF OverlapInv, BestTypeOK, BeforeBest
<1>8. Word(best[h]) \in Nat /\ Word(BeforeBest(r)) \in Nat
  BY <1>7, BestAssumption DEF Entries, Word
<1>9. PortEqual(r) /\ best'[h] = BeforeBest(r)
  BY <1>5, <1>6, <1>7, <1>8, AfterCases
<1>10. best'[k].hop0 = resubmit[h][1].best_port
  BY <1>5, <1>6, <1>7, <1>9 DEF PortEqual
<1>11. \E j \in 1..Len(held[h]) : held[h][j] = resubmit[h][1].best_port
  BY <1>5 DEF OverlapInv, ReadWasHeld
<1>12. QED
  BY <1>6, <1>10, <1>11

\* Only an uplink that held the entry at one of the last MaxInFlight second
\* passes makes the stored path look worse.
THEOREM OnlyHolderRaises == OverlapSpec => RaisedOnlyByHolder
<1>1. OverlapInv /\ [OverlapNext]_overlapVars =>
        \A h \in Hosts :
          Word(best'[h]) > Word(best[h]) =>
            \E i \in 1..Len(held[h]) : best'[h].hop0 = held[h][i]
  BY RaisedStep
<1>2. QED
  BY <1>1, OverlapInitInv, OverlapStep, PTL DEF OverlapSpec, RaisedOnlyByHolder

-----------------------------------------------------------------------------
(* Once the least congested path is known, it is kept.                     *)

\* One host, after a second pass of one of its acknowledgements that has read
\* the uplink the entry has.
LEMMA LeastSecond ==
  ASSUME OverlapInv, NEW h \in Hosts, OverlapSecond(h), LeastKnown(h),
         Head(resubmit[h]).best_port = best[h].hop0,
         \A p \in Ports :
           recent[h][p] # <<>> => Word(recent'[h][p][1]) <= Word(recent[h][p][1])
  PROVE  LeastKnown(h)'
<1>1. PICK r : r = Head(resubmit[h])
  OBVIOUS
<1>2. /\ r \in Acks
      /\ best'[h] = AfterBest(best[h], r)
      /\ recent'[h][r.port] = Newest(recent[h][r.port], BeforeBest(r))
      /\ \A p \in Ports \ {r.port} : recent'[h][p] = recent[h][p]
  BY <1>1, OverlapSecondPass
<1>3. /\ r.port \in Ports /\ BeforeBest(r).hop0 = r.port
      /\ best[h] \in Entries /\ BeforeBest(r) \in Entries
      /\ \A p \in Ports : recent[h][p] \in Seq(Entries)
  BY <1>2, BeforeType DEF Acks, BeforeBest, OverlapInv, HistoryTypeOK, BestTypeOK
<1>4. recent'[h][r.port][1] = BeforeBest(r)
  <2>1. PICK s, e : s = recent[h][r.port] /\ e = BeforeBest(r)
    OBVIOUS
  <2>2. e \in Entries /\ s \in Seq(Entries) /\ recent'[h][r.port] = Newest(s, e)
    BY <1>2, <1>3, <2>1
  <2>3. s \in Seq(Entries) /\ e \in Entries
    BY <2>2
  <2>4. Shifted(Newest(s, e), s, e, Entries)
    BY <2>3, NewestShifts
  <2>5. Shifted(recent'[h][r.port], s, e, Entries)
    BY <2>2, <2>4
  <2>6. QED
    BY <2>1, <2>5 DEF Shifted
<1>5. \A e \in Entries : Word(e) \in Nat
  BY BestAssumption DEF Entries, Word
<1>6. \A p \in Ports : recent[h][p] # <<>> => recent[h][p][1] \in Entries
  <2>1. ASSUME NEW p \in Ports, recent[h][p] # <<>> PROVE 1 \in 1..Len(recent[h][p])
    BY <1>3, <2>1, EmptySeq, LenProperties
  <2>2. QED
    BY <1>3, <2>1, ElementOfSeq
\* A report by the entry's own uplink takes the place of the one the entry is
\* made of, and is not worse.
<1>7. /\ Word(best'[h]) <= Word(best[h]) /\ Word(best'[h]) <= Word(BeforeBest(r))
      /\ best'[h] \in {best[h], BeforeBest(r)}
      /\ r.port = best[h].hop0 => best'[h] = BeforeBest(r)
  <2>1. CASE r.port = best[h].hop0
    <3>1. best'[h] = BeforeBest(r)
      BY <1>1, <1>2, <1>3, <2>1, AfterCases DEF PortEqual
    <3>2. Word(BeforeBest(r)) <= Word(best[h])
      <4>1. CASE recent[h][r.port] # <<>>
        BY <1>3, <1>4, <2>1, <4>1 DEF LeastKnown
      <4>2. CASE recent[h][r.port] = <<>>
        <5>1. PICK i \in 1..Len(recent[h][r.port]) : TRUE
          <6>1. PICK s \in Nat, i \in Nat : RecentWithin(h, s, i)
            BY DEF OverlapInv, EntryStaysRecent
          <6>2. i + 1 \in 1..Len(recent[h][r.port])
            BY <1>3, <2>1, <6>1, LenProperties DEF RecentWithin
          <6>3. QED
            BY <6>2
        <5>2. QED
          BY <4>2, <5>1
      <4>3. QED
        BY <4>1, <4>2
    <3>3. QED
      BY <1>3, <1>5, <3>1, <3>2
  <2>2. CASE r.port # best[h].hop0
    <3>1. ~PortEqual(r)
      BY <1>1, <2>2 DEF PortEqual
    <3>2. QED
      BY <1>2, <1>3, <1>5, <2>2, <3>1, AfterCases
  <2>3. QED
    BY <2>1, <2>2
<1>8. ASSUME NEW p \in Ports, recent'[h][p] # <<>>
      PROVE  /\ Word(best'[h]) <= Word(recent'[h][p][1])
             /\ p = best'[h].hop0 => best'[h] = recent'[h][p][1]
  <2>1. CASE p = r.port
    BY <1>3, <1>4, <1>7, <2>1
  <2>2. CASE p # r.port
    <3>1. recent'[h][p] = recent[h][p] /\ recent[h][p][1] \in Entries
      BY <1>2, <1>6, <1>8, <2>2
    <3>2. /\ Word(best[h]) <= Word(recent[h][p][1])
          /\ p = best[h].hop0 => best[h] = recent[h][p][1]
      BY <1>8, <3>1 DEF LeastKnown
    <3>3. Word(best'[h]) \in Nat /\ Word(best[h]) \in Nat /\ Word(recent[h][p][1]) \in Nat
      BY <1>3, <1>5, <1>7, <3>1
    <3>4. Word(best'[h]) <= Word(recent'[h][p][1])
      BY <1>7, <3>1, <3>2, <3>3
    <3>5. p = best'[h].hop0 => best'[h] = recent'[h][p][1]
      BY <1>3, <1>7, <2>2, <3>1, <3>2
    <3>6. QED
      BY <3>4, <3>5
  <2>3. QED
    BY <2>1, <2>2
<1>9. QED
  BY <1>8 DEF LeastKnown

LEMMA LeastStep ==
  ASSUME OverlapInv, [OverlapNext]_overlapVars, NEW h \in Hosts, LeastKnown(h),
         resubmit[h] # <<>> => Head(resubmit[h]).best_port = best[h].hop0,
         \A p \in Ports :
           recent[h][p] # <<>> => Word(recent'[h][p][1]) <= Word(recent[h][p][1])
  PROVE  LeastKnown(h)'
<1>1. ASSUME best'[h] = best[h], recent'[h] = recent[h] PROVE LeastKnown(h)'
  BY <1>1 DEF LeastKnown
<1>2. ASSUME NEW k \in Hosts, NEW port, NEW ce, NEW report, OverlapFirst(k, port, ce, report)
      PROVE  LeastKnown(h)'
  BY <1>1, <1>2 DEF OverlapFirst, AckFirst
<1>3. ASSUME NEW k \in Hosts, OverlapSecond(k) PROVE LeastKnown(h)'
  <2>1. CASE k = h
    <3>1. resubmit[h] # <<>>
      BY <1>3, <2>1 DEF OverlapSecond, AckSecond
    <3>2. QED
      BY <1>3, <2>1, <3>1, LeastSecond
  <2>2. CASE k # h
    BY <1>1, <1>3, <2>2, OverlapSecondPass
  <2>3. QED
    BY <2>1, <2>2
<1>4. CASE UNCHANGED overlapVars
  BY <1>1, <1>4 DEF overlapVars, bestVars
<1>5. QED
  BY <1>2, <1>3, <1>4 DEF OverlapNext

\* A second pass that decides by what is still so leaves the entry the least
\* congested path known, however many acknowledgements are under way.
THEOREM StaysOnLeastCongested == OverlapSpec => StaysLeastCongested
<1>1. OverlapInv /\ [OverlapNext]_overlapVars =>
        \A h \in Hosts :
          (/\ LeastKnown(h)
           /\ resubmit[h] # <<>> => Head(resubmit[h]).best_port = best[h].hop0
           /\ \A p \in Ports :
                recent[h][p] # <<>> => Word(recent'[h][p][1]) <= Word(recent[h][p][1]))
          => LeastKnown(h)'
  BY LeastStep
<1>2. QED
  BY <1>1, OverlapInitInv, OverlapStep, PTL DEF OverlapSpec, StaysLeastCongested

-----------------------------------------------------------------------------
(* set_acceptable_path has the entries that are needed.                    *)

\* A good path within 1.2 times the best has an entry: the threshold of an
\* estimate below CE_max stays below 1.2 times CE_max.
LEMMA AcceptableHasEntry ==
  ASSUME NEW good \in Nat, NEW ce \in Nat, good < CE_max, ce < CE_max, 5 * good <= 6 * ce
  PROVE  UseGoodPath(good, Threshold(ce))
<1> DEFINE thr == (ce * 6) \div 5
<1>1. thr \in Nat /\ 5 * thr <= ce * 6 /\ ce * 6 < 5 * thr + 5
  OBVIOUS
<1> HIDE DEF thr
<1>2. good <= thr
  BY <1>1
<1>3. 5 * thr < 6 * CE_max
  BY <1>1 DEF CE_max
<1>4. QED
  BY <1>2, <1>3 DEF UseGoodPath, Threshold, thr

LEMMA AcceptableUsed ==
  ASSUME \A ce \in CEs : ce < CE_max, BestTypeOK, [BestNext]_bestVars,
         NEW k \in Hosts, Len(resubmit'[k]) < Len(resubmit[k]),
         5 * BeforeGood(Head(resubmit[k])).CE <= 6 * best'[k].CE
  PROVE  pushed'[k] = BeforeGood(Head(resubmit[k]))
<1>1. \A h \in Hosts : resubmit[h] \in Seq(Acks) /\ Len(resubmit[h]) \in Nat
  BY LenProperties DEF BestTypeOK
<1>2. ASSUME resubmit'[k] = resubmit[k] PROVE FALSE
  BY <1>1, <1>2
<1>3. ASSUME NEW h \in Hosts, NEW port \in Ports, NEW ce \in CEs, NEW report \in Reports,
             AckFirst(h, port, ce, report)
      PROVE  FALSE
  <2> DEFINE r == [port |-> port, CE |-> ce, best_port |-> best[h].hop0, report |-> report]
  <2>1. r \in Acks
    BY DEF BestTypeOK, Entries, Acks
  <2>2. resubmit' = [resubmit EXCEPT ![h] = Append(resubmit[h], r)]
    BY <1>3 DEF AckFirst
  <2> HIDE DEF r
  <2>3. Len(Append(resubmit[h], r)) = Len(resubmit[h]) + 1
    BY <1>1, <2>1, AppendProperties
  <2>4. h = k
    BY <1>2, <2>2 DEF BestTypeOK
  <2>5. Len(resubmit'[k]) = Len(resubmit[k]) + 1
    BY <2>2, <2>3, <2>4 DEF BestTypeOK
  <2>6. QED
    BY <1>1, <2>5
<1>4. PICK h \in Hosts : AckSecond(h)
  BY <1>2, <1>3 DEF BestNext, bestVars
<1> DEFINE r     == Head(resubmit[h])
           after == AfterBest(best[h], r)
<1>5. /\ r \in Acks /\ after \in Entries
      /\ best' = [best EXCEPT ![h] = after]
      /\ pushed' = [pushed EXCEPT ![h] = NewPath(after, r)]
      /\ \A i \in Hosts \ {h} : resubmit'[i] = resubmit[i]
  BY <1>4, SecondPass
<1>6. h = k
  BY <1>2, <1>5
<1>7. best'[k] = after /\ pushed'[k] = NewPath(after, r)
  BY <1>5, <1>6 DEF BestTypeOK
<1>8. BeforeGood(r) \in Entries
  BY <1>5, BeforeType
<1> HIDE DEF after
<1>9. 5 * BeforeGood(r).CE <= 6 * after.CE
  BY <1>6, <1>7
<1>10. /\ BeforeGood(r).CE \in Nat /\ BeforeGood(r).CE < CE_max
       /\ after.CE \in Nat /\ after.CE < CE_max
  BY <1>5, <1>8, BestAssumption DEF Entries
<1>11. UseGoodPath(BeforeGood(r).CE, Threshold(after.CE))
  BY <1>9, <1>10, AcceptableHasEntry
<1>12. QED
  BY <1>6, <1>7, <1>11 DEF NewPath

\* A good path within 1.2 times the best is the one used, as long as the
\* estimates stay below CE_max (Dre: EstimateInTable), for any number of
\* acknowledgements between their passes.
THEOREM AcceptableGoodIsUsed ==
  ASSUME \A ce \in CEs : ce < CE_max
  PROVE  BestSpec => AcceptableUsesGood
<1>1. BestTypeOK /\ [BestNext]_bestVars =>
        \A h \in Hosts :
          Len(resubmit'[h]) < Len(resubmit[h]) =>
            LET good == BeforeGood(Head(resubmit[h]))
            IN  5 * good.CE <= 6 * best'[h].CE => pushed'[h] = good
  BY AcceptableUsed
<1>2. QED
  BY <1>1, BestTypeInit, BestTypeStep, PTL DEF BestSpec, AcceptableUsesGood
=============================================================================

---------------------------- MODULE MiddleProofs ----------------------------
(***************************************************************************)
(* Proofs about the switch between the ToRs, for any hosts, ports and      *)
(* estimates.                                                              *)
(*                                                                         *)
(* MiddleTables: the types are inductive; that the good path sent on was   *)
(* acceptable needs them only to know that estimates are natural numbers.  *)
(* How old the tables can be (MiddleOverlap) needs to know who among the   *)
(* acknowledgements under way may have read a port that does not hold the  *)
(* entry any more.  Both hold however many of them overlap.                *)
(*                                                                         *)
(* CaverMiddle takes the steps of MiddleTables, which carries the          *)
(* invariants over.  That data reaches its rack needs a further one: every *)
(* port kept for a host, in the tables, in what waits for its second pass  *)
(* and in the header sent on, is a port to the rack of this host.          *)
(***************************************************************************)
EXTENDS CaverMiddle, MiddleOverlap, SequenceTheorems, TLAPS

-----------------------------------------------------------------------------
(* The operators on entries.                                               *)

Passing == [port : Ports, best_port : Ports]

LEMMA InitEntryType == \A h \in Hosts : InitEntry(h) \in Entries
  BY MiddleAssumption DEF InitEntry, Entries

\* Either table is given what the acknowledgement found or what the best table
\* held before.
LEMMA AfterCases ==
  ASSUME NEW val, NEW r, NEW before
  PROVE  /\ AfterBest(val, r, before) \in {before, val}
         /\ NewPath(AfterBest(val, r, before), before) \in {before, val}
  BY DEF AfterBest, NewPath

\* The path put aside is at most 1.2 times as congested as the best one.
LEMMA GoodAcceptable ==
  ASSUME NEW before \in Entries, NEW after \in Entries
  PROVE  5 * NewPath(after, before).CE <= 6 * after.CE
<1>1. after.CE \in Nat /\ before.CE \in Nat
  BY MiddleAssumption DEF Entries
<1>2. CASE UseGoodPath(before.CE, Threshold(after.CE))
  <2>1. before.CE <= (after.CE * 6) \div 5
    BY <1>2 DEF UseGoodPath, Threshold
  <2>2. 5 * before.CE <= 6 * after.CE
    BY <1>1, <2>1
  <2>3. QED
    BY <1>2, <2>2 DEF NewPath
<1>3. CASE ~UseGoodPath(before.CE, Threshold(after.CE))
  BY <1>1, <1>3 DEF NewPath
<1>4. QED
  BY <1>2, <1>3

-----------------------------------------------------------------------------
(* Types.                                                                  *)

LEMMA MiddleTypeInit == MiddleInit => MiddleTypeOK
<1>1. SUFFICES ASSUME MiddleInit PROVE MiddleTypeOK
  OBVIOUS
<1>2. /\ resubmit \in [Hosts -> Seq(Passing)]
      /\ \A h \in Hosts : Len(resubmit[h]) <= MaxInFlight
  BY <1>1, MiddleAssumption DEF MiddleInit
<1>3. /\ best \in [Hosts -> Entries]
      /\ good \in [Hosts -> Entries]
      /\ header \in [Hosts -> [best : Entries, good : Entries]]
  BY <1>1, InitEntryType DEF MiddleInit
<1>4. QED
  BY <1>2, <1>3 DEF MiddleTypeOK, Passing

LEMMA AckFirstType ==
  ASSUME MiddleTypeOK, NEW h \in Hosts, NEW port \in Ports, AckFirst(h, port)
  PROVE  MiddleTypeOK'
<1> DEFINE r == [port |-> port, best_port |-> best[h].port]
<1>1. r \in Passing
  BY DEF MiddleTypeOK, Entries, Passing
<1>2. resubmit[h] \in Seq(Passing)
  BY DEF MiddleTypeOK, Passing
<1>3. /\ Append(resubmit[h], r) \in Seq(Passing)
      /\ Len(Append(resubmit[h], r)) = Len(resubmit[h]) + 1
  BY <1>1, <1>2, AppendProperties
<1>4. resubmit' = [resubmit EXCEPT ![h] = Append(resubmit[h], r)]
  BY DEF AckFirst
<1>5. Len(Append(resubmit[h], r)) <= MaxInFlight
  BY <1>2, <1>3, MiddleAssumption, LenProperties DEF AckFirst
<1>6. resubmit' \in [Hosts -> Seq(Passing)]
  BY <1>3, <1>4 DEF MiddleTypeOK, Passing
<1>7. \A k \in Hosts : Len(resubmit'[k]) <= MaxInFlight
  BY <1>4, <1>5 DEF MiddleTypeOK
<1>8. QED
  BY <1>6, <1>7 DEF MiddleTypeOK, AckFirst, Passing

\* The acknowledgement at the head, and what its second pass does with it.
LEMMA SecondPass ==
  ASSUME MiddleTypeOK, NEW h \in Hosts, NEW ce \in CEs, AckSecond(h, ce)
  PROVE  LET r      == Head(resubmit[h])
             before == [CE |-> ce, port |-> r.port]
             after  == AfterBest(best[h], r, before)
         IN  /\ r \in Passing
             /\ before \in Entries /\ after \in Entries
             /\ NewPath(after, before) \in Entries
             /\ best' = [best EXCEPT ![h] = after]
             /\ good' = [good EXCEPT ![h] = NewPath(after, before)]
             /\ header' = [header EXCEPT ![h] = [best |-> after, good |-> good[h]]]
             /\ Len(resubmit[h]) \in Nat
             /\ Len(resubmit'[h]) = Len(resubmit[h]) - 1
             /\ resubmit' \in [Hosts -> Seq(Passing)]
             /\ \A k \in Hosts \ {h} : resubmit'[k] = resubmit[k]
<1> DEFINE r      == Head(resubmit[h])
           before == [CE |-> ce, port |-> r.port]
           after  == AfterBest(best[h], r, before)
<1>1. resubmit[h] \in Seq(Passing) /\ resubmit[h] # <<>>
  BY DEF MiddleTypeOK, AckSecond, Passing
<1>2. /\ r \in Passing
      /\ Tail(resubmit[h]) \in Seq(Passing)
      /\ Len(Tail(resubmit[h])) = Len(resubmit[h]) - 1
      /\ Len(resubmit[h]) \in Nat
  BY <1>1, HeadTailProperties, LenProperties
<1>3. before \in Entries /\ best[h] \in Entries
  BY <1>2 DEF MiddleTypeOK, Entries, Passing
<1>4. after \in Entries /\ NewPath(after, before) \in Entries
  BY <1>3, AfterCases
<1>5. resubmit' = [resubmit EXCEPT ![h] = Tail(resubmit[h])]
  BY DEF AckSecond
<1>6. /\ resubmit' \in [Hosts -> Seq(Passing)]
      /\ Len(resubmit'[h]) = Len(resubmit[h]) - 1
      /\ \A k \in Hosts \ {h} : resubmit'[k] = resubmit[k]
  BY <1>2, <1>5 DEF MiddleTypeOK, Passing
<1>7. /\ best' = [best EXCEPT ![h] = after]
      /\ good' = [good EXCEPT ![h] = NewPath(after, before)]
      /\ header' = [header EXCEPT ![h] = [best |-> after, good |-> good[h]]]
  BY DEF AckSecond
<1>8. QED
  BY <1>2, <1>3, <1>4, <1>6, <1>7

LEMMA AckSecondType ==
  ASSUME MiddleTypeOK, NEW h \in Hosts, NEW ce \in CEs, AckSecond(h, ce)
  PROVE  MiddleTypeOK'
<1> DEFINE r      == Head(resubmit[h])
           before == [CE |-> ce, port |-> r.port]
           after  == AfterBest(best[h], r, before)
<1>1. /\ r \in Passing
      /\ before \in Entries /\ after \in Entries
      /\ NewPath(after, before) \in Entries
      /\ best' = [best EXCEPT ![h] = after]
      /\ good' = [good EXCEPT ![h] = NewPath(after, before)]
      /\ header' = [header EXCEPT ![h] = [best |-> after, good |-> good[h]]]
      /\ Len(resubmit[h]) \in Nat
      /\ Len(resubmit'[h]) = Len(resubmit[h]) - 1
      /\ resubmit' \in [Hosts -> Seq(Passing)]
      /\ \A k \in Hosts \ {h} : resubmit'[k] = resubmit[k]
  BY SecondPass
<1> HIDE DEF r, before, after
<1>2. /\ best' \in [Hosts -> Entries] /\ good' \in [Hosts -> Entries]
      /\ header' \in [Hosts -> [best : Entries, good : Entries]]
  BY <1>1 DEF MiddleTypeOK
<1>3. ASSUME NEW k \in Hosts PROVE Len(resubmit'[k]) <= MaxInFlight
  <2>1. CASE k = h
    BY <1>1, <2>1, MiddleAssumption DEF MiddleTypeOK
  <2>2. CASE k # h
    BY <1>1, <2>2 DEF MiddleTypeOK
  <2>3. QED
    BY <2>1, <2>2
<1>4. QED
  BY <1>1, <1>2, <1>3 DEF MiddleTypeOK, Passing

LEMMA MiddleTypeStep == MiddleTypeOK /\ [MiddleNext]_middleVars => MiddleTypeOK'
<1>1. SUFFICES ASSUME MiddleTypeOK, [MiddleNext]_middleVars PROVE MiddleTypeOK'
  OBVIOUS
<1>2. ASSUME NEW h \in Hosts, NEW port \in Ports, AckFirst(h, port) PROVE MiddleTypeOK'
  BY <1>1, <1>2, AckFirstType
<1>3. ASSUME NEW h \in Hosts, NEW ce \in CEs, AckSecond(h, ce) PROVE MiddleTypeOK'
  BY <1>1, <1>3, AckSecondType
<1>4. CASE UNCHANGED middleVars
  BY <1>1, <1>4 DEF middleVars, MiddleTypeOK
<1>5. QED
  BY <1>1, <1>2, <1>3, <1>4 DEF MiddleNext

\* The two tables keep entries by ports of the switch.
THEOREM MiddleTypeCorrect == MiddleSpec => []MiddleTypeOK
  BY MiddleTypeInit, MiddleTypeStep, PTL DEF MiddleSpec

-----------------------------------------------------------------------------
(* What is put aside is acceptable.                                        *)

LEMMA GoodInit == MiddleInit => GoodIsAcceptable
<1>1. SUFFICES ASSUME MiddleInit, NEW h \in Hosts PROVE 5 * good[h].CE <= 6 * best[h].CE
  BY DEF GoodIsAcceptable
<1>2. good[h].CE = 0 /\ best[h].CE = 0
  BY <1>1 DEF MiddleInit, InitEntry
<1>3. QED
  BY <1>2

LEMMA GoodStep ==
  MiddleTypeOK /\ GoodIsAcceptable /\ [MiddleNext]_middleVars => GoodIsAcceptable'
<1>1. SUFFICES ASSUME MiddleTypeOK, GoodIsAcceptable, [MiddleNext]_middleVars
               PROVE  GoodIsAcceptable'
  OBVIOUS
<1>2. ASSUME NEW h \in Hosts, NEW port \in Ports, AckFirst(h, port) PROVE GoodIsAcceptable'
  BY <1>1, <1>2 DEF AckFirst, GoodIsAcceptable
<1>3. ASSUME NEW h \in Hosts, NEW ce \in CEs, AckSecond(h, ce) PROVE GoodIsAcceptable'
  <2> DEFINE r      == Head(resubmit[h])
             before == [CE |-> ce, port |-> r.port]
             after  == AfterBest(best[h], r, before)
  <2>1. /\ before \in Entries /\ after \in Entries
        /\ best' = [best EXCEPT ![h] = after]
        /\ good' = [good EXCEPT ![h] = NewPath(after, before)]
    BY <1>1, <1>3, SecondPass
  <2> HIDE DEF r, before, after
  <2>2. 5 * NewPath(after, before).CE <= 6 * after.CE
    BY <2>1, GoodAcceptable
  <2>3. ASSUME NEW k \in Hosts PROVE 5 * good'[k].CE <= 6 * best'[k].CE
    BY <1>1, <2>1, <2>2 DEF GoodIsAcceptable, MiddleTypeOK
  <2>4. QED
    BY <2>3 DEF GoodIsAcceptable
<1>4. CASE UNCHANGED middleVars
  BY <1>1, <1>4 DEF middleVars, GoodIsAcceptable
<1>5. QED
  BY <1>1, <1>2, <1>3, <1>4 DEF MiddleNext

\* Only a second pass sends a header on, with the good path of before.
LEMMA HandedOnStep ==
  ASSUME MiddleTypeOK, GoodIsAcceptable, [MiddleNext]_middleVars,
         NEW k \in Hosts, Len(resubmit'[k]) < Len(resubmit[k])
  PROVE  5 * header'[k].good.CE <= 6 * best[k].CE
<1>1. \A h \in Hosts : resubmit[h] \in Seq(Passing) /\ Len(resubmit[h]) \in Nat
  BY LenProperties DEF MiddleTypeOK, Passing
<1>2. ASSUME resubmit'[k] = resubmit[k] PROVE FALSE
  BY <1>1, <1>2
<1>3. ASSUME NEW h \in Hosts, NEW port \in Ports, AckFirst(h, port) PROVE FALSE
  <2> DEFINE r == [port |-> port, best_port |-> best[h].port]
  <2>1. r \in Passing
    BY DEF MiddleTypeOK, Entries, Passing
  <2>2. resubmit' = [resubmit EXCEPT ![h] = Append(resubmit[h], r)]
    BY <1>3 DEF AckFirst
  <2> HIDE DEF r
  <2>3. Len(Append(resubmit[h], r)) = Len(resubmit[h]) + 1
    BY <1>1, <2>1, AppendProperties
  <2>4. h = k
    BY <1>2, <2>2 DEF MiddleTypeOK
  <2>5. Len(resubmit'[k]) = Len(resubmit[k]) + 1
    BY <2>2, <2>3, <2>4 DEF MiddleTypeOK
  <2>6. QED
    BY <1>1, <2>5
<1>4. PICK h \in Hosts, ce \in CEs : AckSecond(h, ce)
  BY <1>2, <1>3 DEF MiddleNext, middleVars
<1>5. h = k
  BY <1>2, <1>4, SecondPass
<1>6. PICK after : header' = [header EXCEPT ![h] = [best |-> after, good |-> good[h]]]
  BY <1>4, SecondPass
<1>7. header'[k].good = good[k]
  BY <1>5, <1>6 DEF MiddleTypeOK
<1>8. QED
  BY <1>7 DEF GoodIsAcceptable

\* A step of MiddleOverlap is one of MiddleTables.
LEMMA OverlapIsMiddle == [OverlapNext]_overlapVars => [MiddleNext]_middleVars
  BY DEF OverlapNext, OverlapFirst, OverlapSecond, MiddleNext, overlapVars

\* The good path sent on was acceptable when the second pass that sends it
\* began, for any number of acknowledgements of a host between their passes.
THEOREM HandedOnStaysAcceptable == OverlapSpec => HandedOnIsAcceptable
<1>1. MiddleTypeOK /\ GoodIsAcceptable /\ [OverlapNext]_overlapVars =>
        \A h \in Hosts :
          Len(resubmit'[h]) < Len(resubmit[h]) => 5 * header'[h].good.CE <= 6 * best[h].CE
  BY OverlapIsMiddle, HandedOnStep
<1>2. MiddleTypeOK /\ GoodIsAcceptable /\ [OverlapNext]_overlapVars =>
        (MiddleTypeOK /\ GoodIsAcceptable)'
  BY OverlapIsMiddle, MiddleTypeStep, GoodStep
<1>3. OverlapInit => MiddleTypeOK /\ GoodIsAcceptable
  BY MiddleTypeInit, GoodInit DEF OverlapInit
<1>4. QED
  BY <1>1, <1>2, <1>3, PTL DEF OverlapSpec, HandedOnIsAcceptable

-----------------------------------------------------------------------------
(* How old the tables and the header are.                                  *)

LEMMA NewestProperties ==
  ASSUME NEW S, NEW s \in Seq(S), NEW e \in S, NEW n \in Nat \ {0}
  PROVE  /\ Newest(s, e, n) \in Seq(S)
         /\ Len(Newest(s, e, n)) \in 1..n
         /\ Newest(s, e, n)[1] = e
         /\ \A i \in 1..Len(s) :
              i + 1 <= n => /\ i + 1 <= Len(Newest(s, e, n))
                            /\ Newest(s, e, n)[i + 1] = s[i]
<1> DEFINE m == IF Len(s) < n THEN Len(s) + 1 ELSE n
<1>1. m \in 1..n /\ m <= Len(s) + 1 /\ m \in Nat /\ Len(s) \in Nat
  BY LenProperties
<1>2. \A i \in 1..Len(s) : i + 1 <= n => i + 1 <= m
  BY <1>1
<1>3. Newest(s, e, n) = [i \in 1..m |-> IF i = 1 THEN e ELSE s[i - 1]]
  BY DEF Newest
<1> HIDE DEF m
<1>4. \A i \in 1..m : (IF i = 1 THEN e ELSE s[i - 1]) \in S
  <2>1. ASSUME NEW i \in 1..m, i # 1 PROVE s[i - 1] \in S
    <3>1. i - 1 \in 1..Len(s)
      BY <1>1, <2>1
    <3>2. QED
      BY <3>1, ElementOfSeq
  <2>2. QED
    BY <2>1
<1>5. Newest(s, e, n) \in [1..m -> S]
  BY <1>3, <1>4
<1>6. Newest(s, e, n) \in Seq(S) /\ Len(Newest(s, e, n)) = m
  BY <1>1, <1>5, SeqDef, LenProperties
<1>7. Newest(s, e, n)[1] = e
  BY <1>1, <1>3
<1>8. ASSUME NEW i \in 1..Len(s), i + 1 <= n PROVE Newest(s, e, n)[i + 1] = s[i]
  <2>1. i + 1 \in 1..m /\ i + 1 # 1 /\ (i + 1) - 1 = i
    BY <1>1, <1>2, <1>8
  <2>2. QED
    BY <1>3, <2>1
<1>9. QED
  BY <1>1, <1>2, <1>6, <1>7, <1>8

\* t is the history s with e in front of it, cut off after n.
Shifted(t, s, e, n, S) ==
  /\ t \in Seq(S)
  /\ Len(t) \in 1..n
  /\ t[1] = e
  /\ \A i \in 1..Len(s) : i + 1 <= n => i + 1 <= Len(t) /\ t[i + 1] = s[i]

LEMMA NewestShifts ==
  ASSUME NEW S, NEW s \in Seq(S), NEW e \in S, NEW n \in Nat \ {0}
  PROVE  Shifted(Newest(s, e, n), s, e, n, S)
<1>1. PICK t : t = Newest(s, e, n)
  OBVIOUS
<1>2. /\ t \in Seq(S) /\ Len(t) \in 1..n /\ t[1] = e
      /\ \A i \in 1..Len(s) :
           i + 1 <= n => /\ i + 1 <= Len(t)
                         /\ t[i + 1] = s[i]
  BY <1>1, NewestProperties
<1>3. Shifted(t, s, e, n, S)
  BY <1>2 DEF Shifted
<1>4. QED
  BY <1>1, <1>3

\* The entry is the (i+1)-th newest finding over its port, and only the s
\* oldest of the acknowledgements under way have read another port: each of
\* them may let one more finding pass by, the others find the entry.
RecentWithin(h, s, i) ==
  /\ s + i + 1 <= MaxInFlight
  /\ i + 1 <= Len(recent[h][best[h].port])
  /\ best[h] = recent[h][best[h].port][i + 1]
  /\ \A k \in 1..Len(resubmit[h]) : k > s => resubmit[h][k].best_port = best[h].port

EntryStaysRecent == \A h \in Hosts : \E s, i \in Nat : RecentWithin(h, s, i)

RecentTypeOK == recent \in [Hosts -> [Ports -> Seq(Entries)]]

OverlapInv == MiddleTypeOK /\ RecentTypeOK /\ EntryStaysRecent /\ TablesAreRecent

LEMMA OverlapInitInv == OverlapInit => OverlapInv
<1>1. SUFFICES ASSUME OverlapInit PROVE OverlapInv
  OBVIOUS
<1>2. MiddleTypeOK
  BY <1>1, MiddleTypeInit DEF OverlapInit
<1>3. ASSUME NEW h \in Hosts
      PROVE  /\ InitEntry(h) \in Entries /\ InitPort[h] \in Ports
             /\ InitEntry(h).port = InitPort[h]
  <2>1. InitEntry(h) \in Entries
    BY InitEntryType
  <2>2. InitPort[h] \in Ports
    BY MiddleAssumption
  <2>3. InitEntry(h).port = InitPort[h]
    BY DEF InitEntry
  <2>4. QED
    BY <2>1, <2>2, <2>3
<1>4. ASSUME NEW h \in Hosts, NEW p \in Ports
      PROVE  (IF p = InitPort[h] THEN <<InitEntry(h)>> ELSE <<>>) \in Seq(Entries)
  <2>1. PICK s, t : s = <<InitEntry(h)>> /\ t = <<>>
    OBVIOUS
  <2>2. s \in Seq(Entries) /\ t \in Seq(Entries)
    BY <1>3, <2>1
  <2>3. (IF p = InitPort[h] THEN s ELSE t) \in Seq(Entries)
    BY <2>2
  <2>4. QED
    BY <2>1, <2>3
<1>5. RecentTypeOK
  BY <1>1, <1>4 DEF OverlapInit, RecentTypeOK
<1>6. ASSUME NEW h \in Hosts
      PROVE  /\ best[h] = InitEntry(h) /\ good[h] = InitEntry(h) /\ resubmit[h] = <<>>
             /\ header[h].best = InitEntry(h) /\ header[h].good = InitEntry(h)
             /\ recent[h][InitEntry(h).port] = <<InitEntry(h)>>
  BY <1>1, <1>3 DEF OverlapInit, MiddleInit
<1>7. ASSUME NEW h \in Hosts PROVE RecentWithin(h, 0, 0)
  <2>1. PICK e : e = InitEntry(h)
    OBVIOUS
  <2>2. best[h] = e /\ recent[h][best[h].port] = <<e>> /\ Len(resubmit[h]) = 0
    <3>1. best[h] = e /\ recent[h][e.port] = <<e>> /\ resubmit[h] = <<>>
      BY <1>6, <2>1, Zenon
    <3>2. QED
      BY <3>1
  <2>3. /\ 0 + 0 + 1 <= MaxInFlight
        /\ 0 + 1 <= Len(recent[h][best[h].port])
        /\ best[h] = recent[h][best[h].port][0 + 1]
    BY <2>2, MiddleAssumption
  <2>4. ASSUME NEW k \in 1..Len(resubmit[h]) PROVE FALSE
    BY <2>2, <2>4
  <2>5. QED
    BY <2>3, <2>4 DEF RecentWithin
<1>8. EntryStaysRecent
  BY <1>7 DEF EntryStaysRecent
<1>9. ASSUME NEW h \in Hosts, NEW n \in Nat \ {0} PROVE AmongNewest(n, h, InitEntry(h))
  <2>1. recent[h][InitEntry(h).port] = <<InitEntry(h)>>
    BY <1>6
  <2>2. 1 \in 1..Len(recent[h][InitEntry(h).port]) /\ 1 <= n
        /\ InitEntry(h) = recent[h][InitEntry(h).port][1]
    BY <2>1
  <2>3. QED
    BY <2>2 DEF AmongNewest
<1>10. TablesAreRecent
  <2>1. MaxInFlight \in Nat \ {0} /\ MaxInFlight + 1 \in Nat \ {0}
    BY MiddleAssumption
  <2>2. QED
    BY <1>6, <1>9, <2>1 DEF TablesAreRecent
<1>11. QED
  BY <1>2, <1>5, <1>8, <1>10 DEF OverlapInv

LEMMA OverlapFirstInv ==
  ASSUME OverlapInv, NEW h \in Hosts, NEW port \in Ports, OverlapFirst(h, port)
  PROVE  RecentTypeOK' /\ EntryStaysRecent' /\ TablesAreRecent'
<1> DEFINE r == [port |-> port, best_port |-> best[h].port]
<1>1. /\ best' = best /\ good' = good /\ header' = header /\ recent' = recent
      /\ resubmit' = [resubmit EXCEPT ![h] = Append(resubmit[h], r)]
  BY DEF OverlapFirst, AckFirst
<1>2. resubmit \in [Hosts -> Seq(Passing)] /\ r \in Passing
  BY DEF OverlapInv, MiddleTypeOK, Entries, Passing
<1>3. r.best_port = best[h].port
  OBVIOUS
<1> HIDE DEF r
<1>4. /\ Len(resubmit[h]) \in Nat
      /\ Len(resubmit'[h]) = Len(resubmit[h]) + 1
      /\ \A k \in 1..Len(resubmit[h]) : resubmit'[h][k] = resubmit[h][k]
      /\ resubmit'[h][Len(resubmit[h]) + 1] = r
  BY <1>1, <1>2, AppendProperties, LenProperties
<1>5. \A g \in Hosts \ {h} : resubmit'[g] = resubmit[g]
  BY <1>1, <1>2
<1>6. ASSUME NEW k \in 1..Len(resubmit'[h])
      PROVE  k \in 1..Len(resubmit[h]) \/ k = Len(resubmit[h]) + 1
  BY <1>4
<1>7. RecentTypeOK' /\ TablesAreRecent'
  BY <1>1 DEF OverlapInv, RecentTypeOK, TablesAreRecent, AmongNewest
<1>8. ASSUME NEW g \in Hosts PROVE \E s, i \in Nat : RecentWithin(g, s, i)'
  <2>1. PICK s \in Nat, i \in Nat : RecentWithin(g, s, i)
    BY DEF OverlapInv, EntryStaysRecent
  <2>2. ASSUME NEW k \in 1..Len(resubmit'[g]), k > s
        PROVE  resubmit'[g][k].best_port = best'[g].port
    <3>1. CASE g = h
      BY <1>1, <1>3, <1>4, <1>6, <2>1, <2>2, <3>1 DEF RecentWithin
    <3>2. CASE g # h
      BY <1>1, <1>5, <2>1, <2>2, <3>2 DEF RecentWithin
    <3>3. QED
      BY <3>1, <3>2
  <2>3. RecentWithin(g, s, i)'
    BY <1>1, <2>1, <2>2 DEF RecentWithin
  <2>4. QED
    BY <2>3
<1>9. QED
  BY <1>7, <1>8 DEF EntryStaysRecent

\* What a second pass of an acknowledgement of h does, in terms of what it
\* found itself.
LEMMA OverlapSecondPass ==
  ASSUME OverlapInv, NEW h \in Hosts, NEW ce \in CEs, OverlapSecond(h, ce)
  PROVE  \E r \in Passing, before \in Entries, new \in Entries :
           /\ r = resubmit[h][1] /\ 1 \in 1..Len(resubmit[h]) /\ before.port = r.port
           /\ \/ best'[h] = before
              \/ best'[h] = best[h] /\ r.port # r.best_port
           /\ new \in {before, best'[h]}
           /\ good'[h] = new
           /\ header'[h].best = best'[h] /\ header'[h].good = good[h]
           /\ recent'[h][r.port] = Newest(recent[h][r.port], before, MaxInFlight + 1)
           /\ \A p \in Ports \ {r.port} : recent'[h][p] = recent[h][p]
           /\ Len(resubmit'[h]) + 1 = Len(resubmit[h])
           /\ Len(resubmit'[h]) \in Nat
           /\ \A k \in 1..Len(resubmit'[h]) :
                k + 1 \in 1..Len(resubmit[h]) /\ resubmit'[h][k] = resubmit[h][k + 1]
           /\ \A g \in Hosts \ {h} :
                /\ best'[g] = best[g] /\ good'[g] = good[g] /\ header'[g] = header[g]
                /\ resubmit'[g] = resubmit[g] /\ recent'[g] = recent[g]
           /\ recent' \in [Hosts -> [Ports -> Seq(Entries)]]
<1> DEFINE r      == Head(resubmit[h])
           before == [CE |-> ce, port |-> r.port]
           after  == AfterBest(best[h], r, before)
           new    == NewPath(after, before)
<1>1. AckSecond(h, ce) /\ MiddleTypeOK
  BY DEF OverlapSecond, OverlapInv
<1>2. /\ r \in Passing /\ before \in Entries /\ after \in Entries /\ new \in Entries
      /\ best' = [best EXCEPT ![h] = after]
      /\ good' = [good EXCEPT ![h] = new]
      /\ header' = [header EXCEPT ![h] = [best |-> after, good |-> good[h]]]
      /\ Len(resubmit[h]) \in Nat
      /\ Len(resubmit'[h]) = Len(resubmit[h]) - 1
      /\ \A g \in Hosts \ {h} : resubmit'[g] = resubmit[g]
  BY <1>1, SecondPass
<1>3. recent' = [recent EXCEPT ![h][r.port] = Newest(recent[h][r.port], before, MaxInFlight + 1)]
  BY DEF OverlapSecond
<1>4. resubmit[h] \in Seq(Passing) /\ resubmit[h] # <<>>
  BY <1>1 DEF MiddleTypeOK, AckSecond, Passing
<1>5. resubmit'[h] = Tail(resubmit[h]) /\ r = resubmit[h][1]
  BY <1>1, <1>4 DEF MiddleTypeOK, AckSecond
<1>6. Len(resubmit[h]) >= 1
  BY <1>4, EmptySeq, LenProperties
<1>7. \A k \in 1..Len(resubmit'[h]) :
        k + 1 \in 1..Len(resubmit[h]) /\ resubmit'[h][k] = resubmit[h][k + 1]
  BY <1>2, <1>4, <1>5, HeadTailProperties
<1>8. after = before \/ (after = best[h] /\ r.port # r.best_port)
  BY DEF AfterBest, BestTableAction
<1>9. new \in {before, after} /\ before.port = r.port
  BY DEF NewPath
<1> HIDE DEF r, before, after, new
<1>10. r.port \in Ports
  BY <1>2 DEF Passing
<1>11. recent[h] \in [Ports -> Seq(Entries)] /\ recent[h][r.port] \in Seq(Entries)
  BY <1>10 DEF OverlapInv, RecentTypeOK
<1>12. Newest(recent[h][r.port], before, MaxInFlight + 1) \in Seq(Entries)
  <2>1. MaxInFlight + 1 \in Nat \ {0}
    BY MiddleAssumption
  <2>2. QED
    <3>1. Shifted(Newest(recent[h][r.port], before, MaxInFlight + 1),
                  recent[h][r.port], before, MaxInFlight + 1, Entries)
      BY <1>2, <1>11, <2>1, NewestShifts
    <3>2. QED
      BY <3>1 DEF Shifted
<1>13. /\ recent' = [recent EXCEPT ![h] =
            [recent[h] EXCEPT ![r.port] =
               Newest(recent[h][r.port], before, MaxInFlight + 1)]]
       /\ recent \in [Hosts -> [Ports -> Seq(Entries)]]
  BY <1>3 DEF OverlapInv, RecentTypeOK
<1>14. /\ recent' \in [Hosts -> [Ports -> Seq(Entries)]]
       /\ recent'[h][r.port] = Newest(recent[h][r.port], before, MaxInFlight + 1)
       /\ \A p \in Ports \ {r.port} : recent'[h][p] = recent[h][p]
       /\ \A g \in Hosts \ {h} : recent'[g] = recent[g]
  BY <1>10, <1>11, <1>12, <1>13
<1>15. /\ best'[h] = after /\ good'[h] = new
       /\ header'[h].best = after /\ header'[h].good = good[h]
       /\ \A g \in Hosts \ {h} :
            best'[g] = best[g] /\ good'[g] = good[g] /\ header'[g] = header[g]
  BY <1>1, <1>2 DEF MiddleTypeOK
<1>16. Len(resubmit'[h]) + 1 = Len(resubmit[h]) /\ Len(resubmit'[h]) \in Nat
       /\ 1 \in 1..Len(resubmit[h])
  BY <1>2, <1>6
<1>17. QED
  BY <1>2, <1>5, <1>7, <1>8, <1>9, <1>14, <1>15, <1>16

LEMMA OverlapSecondInv ==
  ASSUME OverlapInv, NEW h \in Hosts, NEW ce \in CEs, OverlapSecond(h, ce)
  PROVE  RecentTypeOK' /\ EntryStaysRecent' /\ TablesAreRecent'
<1>1. PICK r \in Passing, before \in Entries, new \in Entries :
        /\ r = resubmit[h][1] /\ 1 \in 1..Len(resubmit[h]) /\ before.port = r.port
        /\ \/ best'[h] = before
           \/ best'[h] = best[h] /\ r.port # r.best_port
        /\ new \in {before, best'[h]}
        /\ good'[h] = new
        /\ header'[h].best = best'[h] /\ header'[h].good = good[h]
        /\ recent'[h][r.port] = Newest(recent[h][r.port], before, MaxInFlight + 1)
        /\ \A p \in Ports \ {r.port} : recent'[h][p] = recent[h][p]
        /\ Len(resubmit'[h]) + 1 = Len(resubmit[h])
        /\ Len(resubmit'[h]) \in Nat
        /\ \A k \in 1..Len(resubmit'[h]) :
             k + 1 \in 1..Len(resubmit[h]) /\ resubmit'[h][k] = resubmit[h][k + 1]
        /\ \A g \in Hosts \ {h} :
             /\ best'[g] = best[g] /\ good'[g] = good[g] /\ header'[g] = header[g]
             /\ resubmit'[g] = resubmit[g] /\ recent'[g] = recent[g]
        /\ recent' \in [Hosts -> [Ports -> Seq(Entries)]]
  BY OverlapSecondPass
<1>2. /\ r.port \in Ports /\ best[h].port \in Ports /\ good[h].port \in Ports
      /\ recent \in [Hosts -> [Ports -> Seq(Entries)]]
  BY <1>1 DEF Passing, OverlapInv, MiddleTypeOK, RecentTypeOK, Entries
<1>3. /\ 1 \in 1..Len(recent'[h][r.port])
      /\ recent'[h][r.port][1] = before
      /\ \A i \in 1..Len(recent[h][r.port]) :
           i + 1 <= MaxInFlight + 1 => /\ i + 1 <= Len(recent'[h][r.port])
                                       /\ recent'[h][r.port][i + 1] = recent[h][r.port][i]
  <2>1. PICK s, n : s = recent[h][r.port] /\ n = MaxInFlight + 1
    OBVIOUS
  <2>2. s \in Seq(Entries) /\ before \in Entries /\ n \in Nat \ {0}
    BY <1>1, <1>2, <2>1, MiddleAssumption
  <2>3. Shifted(Newest(s, before, n), s, before, n, Entries)
    BY <2>2, NewestShifts
  <2>4. Shifted(recent'[h][r.port], s, before, n, Entries)
    BY <1>1, <2>1, <2>3
  <2>5. 1 \in 1..Len(recent'[h][r.port])
    BY <2>2, <2>4 DEF Shifted
  <2>6. QED
    BY <2>1, <2>4, <2>5 DEF Shifted
<1>4. RecentTypeOK'
  BY <1>1 DEF RecentTypeOK
<1>5. MaxInFlight \in Nat \ {0} /\ MaxInFlight + 1 \in Nat
  BY MiddleAssumption
<1>6. \E s, i \in Nat : RecentWithin(h, s, i)'
  <2>1. PICK s \in Nat, i \in Nat : RecentWithin(h, s, i)
    BY DEF OverlapInv, EntryStaysRecent
  <2>2. CASE best'[h] = before
    <3>1. PICK s1 \in Nat : s1 = Len(resubmit'[h])
      BY <1>1
    <3>2. s1 + 0 + 1 <= MaxInFlight
      BY <1>1, <1>5, <3>1 DEF OverlapInv, MiddleTypeOK
    <3>3. best'[h].port = r.port /\ best'[h] = recent'[h][r.port][1]
          /\ 0 + 1 <= Len(recent'[h][r.port])
      BY <1>1, <1>3, <2>2
    <3>4. RecentWithin(h, s1, 0)'
      BY <3>1, <3>2, <3>3 DEF RecentWithin
    <3>5. QED
      BY <3>4
  <2>3. CASE best'[h] = best[h] /\ r.port # best[h].port
    <3>1. PICK t \in Nat : t + 1 = s \/ (t = 0 /\ s = 0)
      BY <2>1
    <3>2. t + i + 1 <= MaxInFlight
      BY <1>5, <2>1, <3>1 DEF RecentWithin
    <3>3. recent'[h][best'[h].port] = recent[h][best[h].port]
      BY <1>1, <1>2, <2>3
    <3>4. ASSUME NEW k \in 1..Len(resubmit'[h]), k > t
          PROVE  resubmit'[h][k].best_port = best'[h].port
      <4>1. k + 1 > s
        BY <1>1, <2>1, <3>1, <3>4
      <4>2. QED
        BY <1>1, <2>1, <2>3, <4>1 DEF RecentWithin
    <3>5. RecentWithin(h, t, i)'
      BY <2>1, <2>3, <3>2, <3>3, <3>4 DEF RecentWithin
    <3>6. QED
      BY <3>5
  <2>4. CASE best'[h] = best[h] /\ r.port = best[h].port /\ r.port # r.best_port
    <3>1. s >= 1
      BY <1>1, <2>1, <2>4 DEF RecentWithin
    <3>2. s - 1 \in Nat /\ i + 1 \in Nat /\ i + 1 \in 1..Len(recent[h][r.port])
          /\ i + 2 <= MaxInFlight /\ (i + 1) + 1 <= MaxInFlight + 1 /\ (i + 1) + 1 = i + 2
      BY <1>2, <1>5, <2>1, <2>4, <3>1, LenProperties DEF RecentWithin
    <3>3. recent'[h][best'[h].port][i + 2] = best'[h] /\ i + 2 <= Len(recent'[h][best'[h].port])
      BY <1>3, <2>1, <2>4, <3>2 DEF RecentWithin
    <3>4. ASSUME NEW k \in 1..Len(resubmit'[h]), k > s - 1
          PROVE  resubmit'[h][k].best_port = best'[h].port
      <4>1. k + 1 > s
        BY <1>1, <3>4
      <4>2. QED
        BY <1>1, <2>1, <2>4, <4>1 DEF RecentWithin
    <3>5. RecentWithin(h, s - 1, i + 1)'
      BY <1>5, <2>1, <3>2, <3>3, <3>4 DEF RecentWithin
    <3>6. QED
      BY <3>2, <3>5
  <2>5. QED
    BY <1>1, <2>2, <2>3, <2>4
<1>7. ASSUME NEW g \in Hosts, g # h PROVE \E s, i \in Nat : RecentWithin(g, s, i)'
  <2>1. PICK s \in Nat, i \in Nat : RecentWithin(g, s, i)
    BY DEF OverlapInv, EntryStaysRecent
  <2>2. RecentWithin(g, s, i)'
    BY <1>1, <1>7, <2>1 DEF RecentWithin
  <2>3. QED
    BY <2>2
<1>8. AmongNewest(MaxInFlight, h, best[h])'
  <2>1. PICK s \in Nat, i \in Nat : RecentWithin(h, s, i)'
    BY <1>6
  <2>2. /\ s + i + 1 <= MaxInFlight
        /\ i + 1 <= Len(recent'[h][best'[h].port])
        /\ best'[h] = recent'[h][best'[h].port][i + 1]
    BY <2>1 DEF RecentWithin
  <2>3. best'[h].port \in Ports
    BY <1>1, <1>2
  <2>4. recent'[h][best'[h].port] \in Seq(Entries)
    BY <1>1, <2>3
  <2>5. i + 1 \in 1..Len(recent'[h][best'[h].port]) /\ i + 1 <= MaxInFlight
    BY <1>5, <2>2, <2>4, LenProperties
  <2>6. QED
    BY <2>2, <2>5 DEF AmongNewest
<1>9. AmongNewest(MaxInFlight, h, good[h])'
  <2>1. CASE good'[h] = best'[h]
    BY <1>8, <2>1 DEF AmongNewest
  <2>2. CASE good'[h] = before
    <3>1. 1 <= MaxInFlight
      BY <1>5
    <3>2. recent'[h][good'[h].port] = recent'[h][r.port]
      BY <1>1, <2>2
    <3>3. QED
      BY <1>3, <2>2, <3>1, <3>2 DEF AmongNewest
  <2>3. QED
    BY <1>1, <2>1, <2>2
<1>10. AmongNewest(MaxInFlight + 1, h, header[h].good)'
  <2>1. PICK i \in 1..Len(recent[h][good[h].port]) :
          i <= MaxInFlight /\ good[h] = recent[h][good[h].port][i]
    BY DEF OverlapInv, TablesAreRecent, AmongNewest
  <2>2. header'[h].good = good[h]
    BY <1>1
  <2>3. CASE good[h].port = r.port
    <3>1. recent[h][r.port] \in Seq(Entries) /\ recent'[h][r.port] \in Seq(Entries)
      BY <1>1, <1>2
    <3>2. i + 1 <= MaxInFlight + 1 /\ i \in 1..Len(recent[h][r.port]) /\ i \in Nat /\ i >= 1
      BY <1>5, <2>1, <2>3, <3>1, LenProperties
    <3>3. i + 1 <= Len(recent'[h][r.port]) /\ recent'[h][r.port][i + 1] = good[h]
      BY <1>3, <2>1, <2>3, <3>2
    <3>4. i + 1 \in 1..Len(recent'[h][r.port])
      BY <3>1, <3>2, <3>3, LenProperties
    <3>5. QED
      BY <2>2, <2>3, <3>2, <3>3, <3>4 DEF AmongNewest
  <2>4. CASE good[h].port # r.port
    <3>1. recent'[h][good[h].port] = recent[h][good[h].port]
      BY <1>1, <1>2, <2>4
    <3>2. i <= MaxInFlight + 1
      <4>1. recent[h][good[h].port] \in Seq(Entries)
        BY <1>2
      <4>2. i \in Nat
        BY <4>1, LenProperties
      <4>3. QED
        BY <1>5, <2>1, <4>2
    <3>3. QED
      BY <2>1, <2>2, <3>1, <3>2 DEF AmongNewest
  <2>5. QED
    BY <2>3, <2>4
<1>11. AmongNewest(MaxInFlight, h, header[h].best)'
  BY <1>1, <1>8 DEF AmongNewest
<1>12. ASSUME NEW g \in Hosts, g # h
       PROVE  /\ AmongNewest(MaxInFlight, g, best[g])'
              /\ AmongNewest(MaxInFlight, g, good[g])'
              /\ AmongNewest(MaxInFlight, g, header[g].best)'
              /\ AmongNewest(MaxInFlight + 1, g, header[g].good)'
  <2>1. /\ best'[g] = best[g] /\ good'[g] = good[g] /\ header'[g] = header[g]
        /\ recent'[g] = recent[g]
    BY <1>1, <1>12
  <2>2. /\ AmongNewest(MaxInFlight, g, best[g])
        /\ AmongNewest(MaxInFlight, g, good[g])
        /\ AmongNewest(MaxInFlight, g, header[g].best)
        /\ AmongNewest(MaxInFlight + 1, g, header[g].good)
    BY DEF OverlapInv, TablesAreRecent
  <2>3. QED
    BY <2>1, <2>2 DEF AmongNewest
<1>13. TablesAreRecent'
  BY <1>8, <1>9, <1>10, <1>11, <1>12 DEF TablesAreRecent
<1>14. QED
  BY <1>4, <1>6, <1>7, <1>13 DEF EntryStaysRecent

LEMMA OverlapStep == OverlapInv /\ [OverlapNext]_overlapVars => OverlapInv'
<1>1. SUFFICES ASSUME OverlapInv, [OverlapNext]_overlapVars PROVE OverlapInv'
  OBVIOUS
<1>2. MiddleTypeOK'
  BY <1>1, OverlapIsMiddle, MiddleTypeStep DEF OverlapInv
<1>3. ASSUME NEW h \in Hosts, NEW port \in Ports, OverlapFirst(h, port)
      PROVE  RecentTypeOK' /\ EntryStaysRecent' /\ TablesAreRecent'
  BY <1>1, <1>3, OverlapFirstInv
<1>4. ASSUME NEW h \in Hosts, NEW ce \in CEs, OverlapSecond(h, ce)
      PROVE  RecentTypeOK' /\ EntryStaysRecent' /\ TablesAreRecent'
  BY <1>1, <1>4, OverlapSecondInv
<1>5. ASSUME UNCHANGED overlapVars PROVE RecentTypeOK' /\ EntryStaysRecent' /\ TablesAreRecent'
  <2>1. /\ best' = best /\ good' = good /\ resubmit' = resubmit /\ header' = header
        /\ recent' = recent
    BY <1>5 DEF overlapVars, middleVars
  <2>2. RecentTypeOK'
    BY <1>1, <2>1 DEF OverlapInv, RecentTypeOK
  <2>3. EntryStaysRecent'
    BY <1>1, <2>1 DEF OverlapInv, EntryStaysRecent, RecentWithin
  <2>4. TablesAreRecent'
    BY <1>1, <2>1 DEF OverlapInv, TablesAreRecent, AmongNewest
  <2>5. QED
    BY <2>2, <2>3, <2>4
<1>6. QED
  BY <1>1, <1>2, <1>3, <1>4, <1>5 DEF OverlapNext, OverlapInv

\* However acknowledgements overlap, both tables and the best path sent on say
\* what one of the last MaxInFlight acknowledgements over their port found,
\* and the good path sent on what one of the last MaxInFlight + 1 found.
THEOREM TablesStayRecent == OverlapSpec => []TablesAreRecent
<1>1. OverlapInv => TablesAreRecent
  BY DEF OverlapInv
<1>2. QED
  BY <1>1, OverlapInitInv, OverlapStep, PTL DEF OverlapSpec

-----------------------------------------------------------------------------
(* The pipeline takes the steps of the tables.                             *)

LEMMA PortRoundTrip == \A p \in Ports : InPort2caverPort(DpPort[p]) = p
  BY CaverMiddleAssumption DEF InPort2caverPort, IsInjective

LEMMA PipelineStep == [CaverMiddleNext]_caverMiddleVars => [MiddleNext]_middleVars
<1>1. SUFFICES ASSUME CaverMiddleNext PROVE [MiddleNext]_middleVars
  BY DEF caverMiddleVars, middleVars
<1>2. ASSUME NEW type, NEW dst, NEW src_route, NEW out_port, NEW member,
             Data(type, dst, src_route, out_port, member)
      PROVE  UNCHANGED middleVars
  BY <1>2 DEF Data
<1>3. ASSUME NEW dst, NEW member, Ack(dst, member) PROVE UNCHANGED middleVars
  BY <1>3 DEF Ack
<1>4. ASSUME NEW dst, OtherPacket(dst) PROVE UNCHANGED middleVars
  BY <1>4 DEF OtherPacket
<1>5. ASSUME NEW src \in Hosts, NEW p \in RackPorts[src], CaverAckFirst(src, DpPort[p])
      PROVE  MiddleNext
  <2>1. p \in Ports /\ InPort2caverPort(DpPort[p]) = p
    BY <1>5, CaverMiddleAssumption, PortRoundTrip
  <2>2. AckFirst(src, p)
    BY <1>5, <2>1 DEF CaverAckFirst
  <2>3. QED
    BY <1>5, <2>1, <2>2 DEF MiddleNext
<1>6. ASSUME NEW src \in Hosts, NEW dst, NEW ce \in CEs, NEW member,
             CaverAckSecond(src, dst, ce, member)
      PROVE  MiddleNext
  BY <1>6 DEF CaverAckSecond, MiddleNext
<1>7. QED
  BY <1>1, <1>2, <1>3, <1>4, <1>5, <1>6 DEF CaverMiddleNext

\* The pipeline implements the tables' specification, and with it all that is
\* proved of them.
THEOREM PipelineImplementsTables == CaverMiddleSpec => MiddleSpec
<1>1. CaverMiddleInit => MiddleInit
  BY DEF CaverMiddleInit
<1>2. QED
  BY <1>1, PipelineStep, PTL DEF CaverMiddleSpec, MiddleSpec

-----------------------------------------------------------------------------
(* Data reaches its rack and is counted where acknowledgements look.       *)

\* Every port kept for a host leads to its rack.
PortsLeadToRack ==
  \A h \in Hosts :
    /\ best[h].port \in RackPorts[h] /\ good[h].port \in RackPorts[h]
    /\ header[h].best.port \in RackPorts[h] /\ header[h].good.port \in RackPorts[h]
    /\ \A i \in 1..Len(resubmit[h]) : resubmit[h][i].port \in RackPorts[h]

\* What is asked of the packet that left last.
OutCounted ==
  IF out.type \in {"DATA", "CAVER_DATA"} THEN counted = InPort2caverPort(out.port)
  ELSE counted = NoPort
OutReachesRack ==
  out.type \in {"DATA", "CAVER_DATA"} => InPort2caverPort(out.port) \in RackPorts[out.dst]

RackInv == MiddleTypeOK /\ PortsLeadToRack /\ OutCounted /\ OutReachesRack

LEMMA RackInit == CaverMiddleInit => RackInv
<1>1. SUFFICES ASSUME CaverMiddleInit PROVE RackInv
  OBVIOUS
<1>2. ASSUME NEW h \in Hosts
      PROVE  /\ best[h].port \in RackPorts[h] /\ good[h].port \in RackPorts[h]
             /\ header[h].best.port \in RackPorts[h] /\ header[h].good.port \in RackPorts[h]
  BY <1>1, CaverMiddleAssumption DEF CaverMiddleInit, MiddleInit, InitEntry
<1>3. ASSUME NEW h \in Hosts, NEW i \in 1..Len(resubmit[h])
      PROVE  resubmit[h][i].port \in RackPorts[h]
  <2>1. resubmit[h] = <<>>
    BY <1>1 DEF CaverMiddleInit, MiddleInit
  <2>2. QED
    BY <2>1, <1>3
<1>4. OutCounted /\ OutReachesRack
  BY <1>1 DEF CaverMiddleInit, Packet, OutCounted, OutReachesRack
<1>5. PortsLeadToRack
  BY <1>2, <1>3 DEF PortsLeadToRack
<1>6. QED
  BY <1>1, <1>4, <1>5, MiddleTypeInit DEF CaverMiddleInit, RackInv

LEMMA RackData ==
  ASSUME RackInv, NEW dst \in Hosts, NEW type, NEW src_route, NEW out_port, NEW member \in Ports,
         type \in {"DATA", "CAVER_DATA"}, Data(type, dst, src_route, out_port, member),
         src_route = 1 => out_port \in RackPorts[dst]
  PROVE  PortsLeadToRack' /\ OutCounted' /\ OutReachesRack'
<1>1. member \in RackPorts[dst] /\ InPort2caverPort(DpPort[member]) = member
  BY PortRoundTrip DEF Data, EcmpMembers
<1>2. out' = [type |-> type, dst |-> dst, port |-> DpPort[member]]
  BY DEF Data, Packet, CaverPort2switchPort
<1>3. counted' = member
  BY DEF Data, DrePort
<1>4. PortsLeadToRack'
  BY DEF Data, middleVars, RackInv, PortsLeadToRack
<1>5. QED
  BY <1>1, <1>2, <1>3, <1>4 DEF OutCounted, OutReachesRack

\* The first pass puts the port the acknowledgement came by behind the others.
LEMMA RackFirst ==
  ASSUME RackInv, NEW src \in Hosts, NEW p \in RackPorts[src], CaverAckFirst(src, DpPort[p])
  PROVE  PortsLeadToRack' /\ OutCounted' /\ OutReachesRack'
<1> DEFINE r == [port |-> p, best_port |-> best[src].port]
<1>1. p \in Ports /\ InPort2caverPort(DpPort[p]) = p
  BY CaverMiddleAssumption, PortRoundTrip
<1>2. /\ resubmit' = [resubmit EXCEPT ![src] = Append(resubmit[src], r)]
      /\ best' = best /\ good' = good /\ header' = header
      /\ out' = out /\ counted' = counted
  BY <1>1 DEF CaverAckFirst, AckFirst
<1>3. resubmit[src] \in Seq(Passing) /\ r \in Passing
  BY <1>1 DEF RackInv, MiddleTypeOK, Entries, Passing
<1>4. ASSUME NEW i \in 1..Len(Append(resubmit[src], r))
      PROVE  Append(resubmit[src], r)[i].port \in RackPorts[src]
  BY <1>3, AppendProperties, LenProperties DEF RackInv, PortsLeadToRack
<1>5. ASSUME NEW h \in Hosts, NEW i \in 1..Len(resubmit'[h])
      PROVE  resubmit'[h][i].port \in RackPorts[h]
  <2>1. CASE h = src
    BY <1>2, <1>4, <1>5, <2>1 DEF RackInv, MiddleTypeOK
  <2>2. CASE h # src
    BY <1>2, <1>5, <2>2 DEF RackInv, MiddleTypeOK, PortsLeadToRack
  <2>3. QED
    BY <2>1, <2>2
<1>6. PortsLeadToRack'
  BY <1>2, <1>5 DEF RackInv, PortsLeadToRack
<1>7. QED
  BY <1>2, <1>6 DEF RackInv, OutCounted, OutReachesRack

\* The second pass keeps the ports that were there or the one that waited.
LEMMA RackSecond ==
  ASSUME RackInv, NEW src \in Hosts, NEW dst \in Hosts, NEW ce \in CEs, NEW member \in Ports,
         CaverAckSecond(src, dst, ce, member)
  PROVE  PortsLeadToRack' /\ OutCounted' /\ OutReachesRack'
<1> DEFINE r      == Head(resubmit[src])
           before == [CE |-> ce, port |-> r.port]
           after  == AfterBest(best[src], r, before)
           new    == NewPath(after, before)
<1>1. /\ best' = [best EXCEPT ![src] = after]
      /\ good' = [good EXCEPT ![src] = new]
      /\ header' = [header EXCEPT ![src] = [best |-> after, good |-> good[src]]]
      /\ resubmit' = [resubmit EXCEPT ![src] = Tail(resubmit[src])]
      /\ resubmit[src] # <<>>
  BY DEF CaverAckSecond, AckSecond
<1>2. resubmit[src] \in Seq(Passing)
  BY DEF RackInv, MiddleTypeOK, Passing
<1>3. /\ 1 \in 1..Len(resubmit[src]) /\ r = resubmit[src][1]
      /\ \A i \in 1..Len(Tail(resubmit[src])) :
           /\ i + 1 \in 1..Len(resubmit[src])
           /\ Tail(resubmit[src])[i] = resubmit[src][i + 1]
  BY <1>1, <1>2, HeadTailProperties, EmptySeq, LenProperties
<1>4. before.port \in RackPorts[src]
  BY <1>3 DEF RackInv, PortsLeadToRack
<1>5. after \in {best[src], before} /\ new \in {best[src], before}
  BY AfterCases
<1> HIDE DEF r, before, after, new
<1>6. after.port \in RackPorts[src] /\ new.port \in RackPorts[src]
  BY <1>4, <1>5 DEF RackInv, PortsLeadToRack
<1>7. ASSUME NEW h \in Hosts
      PROVE  /\ best'[h].port \in RackPorts[h] /\ good'[h].port \in RackPorts[h]
             /\ header'[h].best.port \in RackPorts[h] /\ header'[h].good.port \in RackPorts[h]
  BY <1>1, <1>6 DEF RackInv, MiddleTypeOK, PortsLeadToRack
<1>8. ASSUME NEW h \in Hosts, NEW i \in 1..Len(resubmit'[h])
      PROVE  resubmit'[h][i].port \in RackPorts[h]
  <2>1. CASE h = src
    BY <1>1, <1>3, <1>8, <2>1 DEF RackInv, MiddleTypeOK, PortsLeadToRack
  <2>2. CASE h # src
    BY <1>1, <1>8, <2>2 DEF RackInv, MiddleTypeOK, PortsLeadToRack
  <2>3. QED
    BY <2>1, <2>2
<1>9. PortsLeadToRack'
  BY <1>7, <1>8 DEF PortsLeadToRack
<1>10. OutCounted' /\ OutReachesRack'
  BY DEF CaverAckSecond, Packet, OutCounted, OutReachesRack
<1>11. QED
  BY <1>9, <1>10

LEMMA RackStep == RackInv /\ [CaverMiddleNext]_caverMiddleVars => RackInv'
<1>1. SUFFICES ASSUME RackInv, [CaverMiddleNext]_caverMiddleVars PROVE RackInv'
  OBVIOUS
<1>2. MiddleTypeOK'
  BY <1>1, PipelineStep, MiddleTypeStep DEF RackInv
<1> DEFINE Kept == PortsLeadToRack /\ OutCounted /\ OutReachesRack
<1>3. ASSUME NEW type \in {"DATA", "CAVER_DATA"}, NEW dst \in Hosts, NEW member \in Ports,
             Data(type, dst, 0, 0, member)
      PROVE  Kept'
  BY <1>1, <1>3, RackData
<1>4. ASSUME NEW type \in {"DATA", "CAVER_DATA"}, NEW dst \in Hosts, NEW member \in Ports,
             NEW path \in {header[dst].best, header[dst].good},
             Data(type, dst, 1, path.port, member)
      PROVE  Kept'
  <2>1. path.port \in RackPorts[dst]
    BY <1>1 DEF RackInv, PortsLeadToRack
  <2>2. QED
    BY <1>1, <1>4, <2>1, RackData
<1>5. ASSUME NEW dst \in Hosts, NEW member \in Ports, Ack(dst, member) PROVE Kept'
  <2>1. PortsLeadToRack'
    BY <1>1, <1>5 DEF Ack, middleVars, RackInv, PortsLeadToRack
  <2>2. OutCounted' /\ OutReachesRack'
    BY <1>5 DEF Ack, Packet, OutCounted, OutReachesRack
  <2>3. QED
    BY <2>1, <2>2
<1>6. ASSUME NEW dst \in Hosts, OtherPacket(dst) PROVE Kept'
  <2>1. PortsLeadToRack'
    BY <1>1, <1>6 DEF OtherPacket, middleVars, RackInv, PortsLeadToRack
  <2>2. OutCounted' /\ OutReachesRack'
    BY <1>6 DEF OtherPacket, Packet, OutCounted, OutReachesRack
  <2>3. QED
    BY <2>1, <2>2
<1>7. ASSUME NEW src \in Hosts, NEW p \in RackPorts[src], CaverAckFirst(src, DpPort[p])
      PROVE  Kept'
  BY <1>1, <1>7, RackFirst
<1>8. ASSUME NEW src \in Hosts, NEW dst \in Hosts, NEW ce \in CEs, NEW member \in Ports,
             CaverAckSecond(src, dst, ce, member)
      PROVE  Kept'
  BY <1>1, <1>8, RackSecond
<1>9. ASSUME UNCHANGED caverMiddleVars PROVE Kept'
  <2>1. PortsLeadToRack'
    BY <1>1, <1>9 DEF caverMiddleVars, middleVars, RackInv, PortsLeadToRack
  <2>2. OutCounted' /\ OutReachesRack'
    BY <1>1, <1>9 DEF caverMiddleVars, RackInv, OutCounted, OutReachesRack
  <2>3. QED
    BY <2>1, <2>2
<1>10. Kept'
  BY <1>1, <1>3, <1>4, <1>5, <1>6, <1>7, <1>8, <1>9 DEF CaverMiddleNext
<1>11. QED
  BY <1>2, <1>10 DEF RackInv

\* Data leaves for the rack of its destination, whatever acknowledgements
\* there are between their passes and however old its source route is.
THEOREM DataLeavesForItsRack == CaverMiddleSpec => DataReachesRack
<1>1. RackInv' => (out'.type \in {"DATA", "CAVER_DATA"} =>
                     InPort2caverPort(out'.port) \in RackPorts[out'.dst])
  BY DEF RackInv, OutReachesRack, InPort2caverPort
<1>2. QED
  BY <1>1, RackInit, RackStep, PTL DEF CaverMiddleSpec, DataReachesRack

\* Data is counted by the port it leaves by.
THEOREM DataIsCountedWhereAcksLook == CaverMiddleSpec => CountedWhereAcksLook
<1>1. RackInv' => IF out'.type \in {"DATA", "CAVER_DATA"}
                  THEN counted' = InPort2caverPort(out'.port) ELSE counted' = NoPort
  BY DEF RackInv, OutCounted, InPort2caverPort
<1>2. QED
  BY <1>1, RackInit, RackStep, PTL DEF CaverMiddleSpec, CountedWhereAcksLook
=============================================================================

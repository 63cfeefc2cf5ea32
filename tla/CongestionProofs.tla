-------------------------- MODULE CongestionProofs --------------------------
(***************************************************************************)
(* Proofs about the two places where a switch measures congestion.         *)
(*                                                                         *)
(* Dre, for any line rate, decay time, packet lengths, initial value and   *)
(* divisor that satisfy DreAssumption.  EstimateInTable is not inductive:  *)
(* whether the next packet may still be added depends on how much the line *)
(* can have brought since the last decay.  DreBound says that: a decay     *)
(* leaves Rest and a Burst for every turn of the clock that hid one, and   *)
(* from then on the value grows by LineRate per unit of time, until the    *)
(* age exceeds DreTime and the next packet is a decay, or the clock has    *)
(* come round and the growth begins again with one turn more.              *)
(*                                                                         *)
(* Ecn, for any thresholds, any number of entries on the ramp, and every   *)
(* depth, random number and header there is.  What a packet looks like     *)
(* when it has left depends on this packet only, so that the properties    *)
(* are inductive once the types are known.                                 *)
(***************************************************************************)
EXTENDS Dre, Ecn, Integers, TLAPS

-----------------------------------------------------------------------------
(* Arithmetic.                                                             *)

\* What can be added to Rest before a decay is due.
Growth(age) == LineRate * age

LEMMA GrowthStep ==
  ASSUME NEW age \in Nat
  PROVE  /\ Growth(age) \in Nat
         /\ Growth(age + 1) = Growth(age) + LineRate
         /\ Growth(0) = 0
<1>1. LineRate \in Nat
  BY DreAssumption
<1>2. QED
  BY <1>1 DEF Growth

\* While no decay is due the line has brought Burst at most.
LEMMA GrowthBound ==
  ASSUME NEW age \in Nat, age <= DreTime
  PROVE  Growth(age) + LineRate <= Burst
<1>1. LineRate \in Nat /\ DreTime \in Nat
  BY DreAssumption
<1>2. LineRate * age <= LineRate * DreTime
  BY <1>1
<1>3. Burst = LineRate * DreTime + LineRate
  BY <1>1 DEF Burst
<1>4. LineRate * age \in Int /\ LineRate * DreTime \in Int
  BY <1>1
<1>5. QED
  BY <1>1, <1>2, <1>3, <1>4 DEF Growth

\* A Burst for every turn.
Hoard(n) == n * Burst

LEMMA HoardStep ==
  ASSUME NEW n \in Nat
  PROVE  /\ Hoard(n) \in Nat
         /\ Hoard(n + 1) = Hoard(n) + Burst
         /\ Hoard(0) = 0
<1>1. Burst \in Nat
  <2>1. LineRate \in Nat /\ DreTime \in Nat
    BY DreAssumption
  <2>2. QED
    BY <2>1 DEF Burst
<1>2. QED
  BY <1>1 DEF Hoard

LEMMA BoundTypes == Burst \in Nat /\ Rest \in Nat /\ InitDre \in Nat /\ InitDre <= Rest /\ 3 * Burst <= Rest
<1>1. LineRate \in Nat /\ DreTime \in Nat /\ InitDre \in Nat
  BY DreAssumption
<1>2. Burst \in Nat
  BY <1>1 DEF Burst
<1>3. QED
  BY <1>1, <1>2 DEF Rest, Most

\* A decay takes from every value the estimator can have the Burst that came
\* since the last one.
LEMMA DecayToRest ==
  ASSUME NEW n \in Nat, NEW v \in Nat, v <= Rest + Hoard(n) + Burst
  PROVE  Dre_MUL(v) \in Nat /\ Dre_MUL(v) <= Rest + Hoard(n)
<1>1. Burst \in Nat /\ Rest \in Nat /\ 3 * Burst <= Rest /\ Hoard(n) \in Nat
  BY BoundTypes, HoardStep
<1>2. QED
  BY <1>1 DEF Dre_MUL

LEMMA QuotientBound ==
  ASSUME NEW v \in Nat, v < CE_max * Divisor
  PROVE  v \div Divisor < CE_max
<1>1. Divisor \in Nat \ {0} /\ CE_max \in Nat
  BY DreAssumption
<1> DEFINE q == v \div Divisor
<1>2. q \in Int /\ Divisor * q <= v
  BY <1>1
<1> HIDE DEF q
<1>3. SUFFICES ASSUME q >= CE_max PROVE FALSE
  BY <1>1, <1>2 DEF q
<1>4. Divisor * q >= Divisor * CE_max
  BY <1>1, <1>2, <1>3
<1>5. QED
  BY <1>1, <1>2, <1>4

-----------------------------------------------------------------------------
(* Types.                                                                  *)

LEMMA DreTypeInit == DreInit => DreTypeOK
<1>1. Wrap \in Nat /\ Wrap > 0 /\ LineRate \in Nat /\ InitDre \in Nat /\ MaxTurns \in Nat
  BY DreAssumption
<1>2. QED
  BY <1>1 DEF DreInit, DreTypeOK

\* One tick of the clock makes a port one unit older, or young again with a
\* turn more to its account.
LEMMA TickStep ==
  ASSUME DreTypeOK, Tick
  PROVE  /\ clock' \in 0..(Wrap - 1)
         /\ \A p \in Ports :
              /\ Age(p) \in Nat
              /\ turns'[p] \in 0..MaxTurns
              /\ \/ Age(p)' = 0 /\ turns'[p] = turns[p] + 1
                 \/ Age(p)' = Age(p) + 1 /\ turns'[p] = turns[p]
<1>1. Wrap \in Nat /\ Wrap > 1
  BY DreAssumption
<1>2. clock \in 0..(Wrap - 1) /\ Dre_time_reg' = Dre_time_reg
  BY DEF DreTypeOK, Tick
<1>3. clock' = IF clock = Wrap - 1 THEN 0 ELSE clock + 1
  BY DEF Tick
<1>4. ASSUME NEW p \in Ports
      PROVE  /\ Age(p) \in Nat
             /\ turns'[p] \in 0..MaxTurns
             /\ \/ Age(p)' = 0 /\ turns'[p] = turns[p] + 1
                \/ Age(p)' = Age(p) + 1 /\ turns'[p] = turns[p]
  <2>1. Dre_time_reg[p] \in 0..(Wrap - 1) /\ turns[p] \in 0..MaxTurns
    BY DEF DreTypeOK
  <2>2. MaxTurns \in Nat
    BY DreAssumption
  <2>3. Age(p) \in Nat /\ Age(p) < Wrap
    BY <1>1, <1>2, <2>1 DEF Age
  <2>4. CASE Hidden(p)
    <3>1. turns'[p] = turns[p] + 1 /\ turns[p] < MaxTurns
      BY <2>4 DEF Tick
    <3>2. Age(p)' = 0
      BY <1>1, <1>2, <1>3, <2>1, <2>4 DEF Age, Hidden
    <3>3. QED
      BY <2>1, <2>2, <2>3, <3>1, <3>2
  <2>5. CASE ~Hidden(p)
    <3>1. turns'[p] = turns[p]
      BY <2>5 DEF Tick
    <3>2. Age(p)' = Age(p) + 1
      BY <1>1, <1>2, <1>3, <2>1, <2>5 DEF Age, Hidden
    <3>3. QED
      BY <2>1, <2>3, <3>1, <3>2
  <2>6. QED
    BY <2>4, <2>5
<1>5. QED
  BY <1>1, <1>2, <1>3, <1>4

\* A data packet: the port's value and age after it.
LEMMA CountStep ==
  ASSUME DreTypeOK, NEW p \in Ports, NEW type, NEW length \in Lengths,
         CountData(type, p, length)
  PROVE  /\ length \in Nat
         /\ clock' = clock
         /\ spent' = [spent EXCEPT ![p] = spent[p] + length]
         /\ spent[p] + length <= LineRate
         /\ \/ /\ Age(p) > DreTime
               /\ Dre_time_reg' = [Dre_time_reg EXCEPT ![p] = clock]
               /\ Dre_value_reg' = [Dre_value_reg EXCEPT ![p] = Dre_MUL(Dre_value_reg[p])]
               /\ turns' = [turns EXCEPT ![p] =
                              IF Dre_value_reg'[p] <= 3 * Burst THEN 0 ELSE turns[p]]
            \/ /\ ~(Age(p) > DreTime)
               /\ Dre_time_reg' = Dre_time_reg
               /\ Dre_value_reg' = [Dre_value_reg EXCEPT ![p] = Dre_value_reg[p] + length]
               /\ turns' = turns
<1>1. length \in Nat
  BY DreAssumption
<1>2. DreTimeTable(type) = "Dre_time_update"
  BY DEF CountData, DreTable, DreTimeTable
<1>3. QED
  BY <1>1, <1>2 DEF CountData, Decreases

LEMMA DreTypeStep == DreTypeOK /\ [DreNext]_dreVars => DreTypeOK'
<1>1. SUFFICES ASSUME DreTypeOK, [DreNext]_dreVars PROVE DreTypeOK'
  OBVIOUS
<1>2. LineRate \in Nat
  BY DreAssumption
<1>3. CASE Tick
  <2>1. clock' \in 0..(Wrap - 1) /\ \A p \in Ports : turns'[p] \in 0..MaxTurns
    BY <1>1, <1>3, TickStep
  <2>2. turns' \in [Ports -> 0..MaxTurns]
    BY <1>3, <2>1 DEF Tick
  <2>3. QED
    BY <1>1, <1>2, <1>3, <2>1, <2>2 DEF DreTypeOK, Tick
<1>4. ASSUME NEW p \in Ports, NEW type, NEW length \in Lengths, CountData(type, p, length)
      PROVE  DreTypeOK'
  <2>1. spent[p] \in Nat /\ Dre_value_reg[p] \in Nat
    BY <1>1, <1>2 DEF DreTypeOK
  <2>2. Dre_MUL(Dre_value_reg[p]) \in Nat
    BY <2>1 DEF Dre_MUL
  <2>3. length \in Nat /\ clock' = clock /\ spent[p] + length <= LineRate
        /\ spent' = [spent EXCEPT ![p] = spent[p] + length]
    BY <1>1, <1>4, CountStep
  <2>4. spent' \in [Ports -> 0..LineRate]
    BY <1>1, <1>2, <2>1, <2>3 DEF DreTypeOK
  <2>5. Dre_time_reg' \in [Ports -> 0..(Wrap - 1)] /\ Dre_value_reg' \in [Ports -> Nat]
    BY <1>1, <1>4, <2>1, <2>2, <2>3, CountStep DEF DreTypeOK
  <2>6. turns' \in [Ports -> 0..MaxTurns]
    <3>1. MaxTurns \in Nat
      BY DreAssumption
    <3>2. QED
      BY <1>1, <1>4, <3>1, CountStep DEF DreTypeOK
  <2>7. QED
    BY <1>1, <2>3, <2>4, <2>5, <2>6 DEF DreTypeOK
<1>5. CASE UNCHANGED dreVars
  BY <1>1, <1>5 DEF DreTypeOK, dreVars
<1>6. QED
  BY <1>1, <1>3, <1>4, <1>5 DEF DreNext, Carry

\* The registers hold values of their range.
THEOREM DreTypeCorrect == DreSpec => []DreTypeOK
  BY DreTypeInit, DreTypeStep, PTL DEF DreSpec

-----------------------------------------------------------------------------
(* The bound.                                                              *)

BoundOf(p) ==
  /\ Dre_value_reg[p] <= Rest + Hoard(turns[p]) + Burst
  /\ Age(p) <= DreTime =>
       Dre_value_reg[p] <= Rest + Hoard(turns[p]) + Growth(Age(p)) + spent[p]

DreBound == \A p \in Ports : BoundOf(p)

LEMMA AgeType ==
  ASSUME DreTypeOK, NEW p \in Ports
  PROVE  /\ Age(p) \in Nat /\ Dre_value_reg[p] \in Nat
         /\ spent[p] \in Nat /\ spent[p] <= LineRate
         /\ turns[p] \in Nat
<1>1. Wrap \in Nat /\ LineRate \in Nat /\ MaxTurns \in Nat
  BY DreAssumption
<1>2. QED
  BY <1>1 DEF DreTypeOK, Age

LEMMA BoundInit == DreInit => DreBound
<1>1. SUFFICES ASSUME DreInit, NEW p \in Ports PROVE BoundOf(p)
  BY DEF DreBound
<1>2. DreTypeOK
  BY <1>1, DreTypeInit
<1>3. Age(p) \in Nat /\ Growth(Age(p)) \in Nat
  BY <1>2, AgeType, GrowthStep
<1>4. Dre_value_reg[p] = InitDre /\ spent[p] = 0 /\ turns[p] = 0
  BY <1>1 DEF DreInit
<1>5. Hoard(turns[p]) = 0
  BY <1>4, HoardStep
<1>6. QED
  BY <1>3, <1>4, <1>5, BoundTypes DEF BoundOf

LEMMA BoundTick ==
  ASSUME DreTypeOK, DreBound, Tick
  PROVE  DreBound'
<1>1. SUFFICES ASSUME NEW p \in Ports PROVE BoundOf(p)'
  BY DEF DreBound
<1>2. Dre_value_reg'[p] = Dre_value_reg[p] /\ spent'[p] = 0
  BY DEF Tick
<1>3. BoundOf(p)
  BY DEF DreBound
<1>4. /\ Age(p) \in Nat /\ Dre_value_reg[p] \in Nat /\ turns[p] \in Nat
      /\ spent[p] \in Nat /\ spent[p] <= LineRate
  BY AgeType
<1>5. /\ Growth(Age(p)) \in Nat /\ Growth(Age(p) + 1) = Growth(Age(p)) + LineRate
      /\ Growth(0) = 0
  BY <1>4, GrowthStep
<1>6. Hoard(turns[p]) \in Nat /\ Hoard(turns[p] + 1) = Hoard(turns[p]) + Burst
  BY <1>4, HoardStep
<1>7. DreTime \in Nat /\ LineRate \in Nat /\ Rest \in Nat /\ Burst \in Nat
  BY DreAssumption, BoundTypes
<1>8. CASE Age(p)' = 0 /\ turns'[p] = turns[p] + 1
  <2>1. Hoard(turns[p])' = Hoard(turns[p]) + Burst
    BY <1>6, <1>8 DEF Hoard
  <2>2. Growth(Age(p))' = 0
    BY <1>5, <1>8 DEF Growth
  <2>3. QED
    BY <1>2, <1>3, <1>4, <1>6, <1>7, <2>1, <2>2 DEF BoundOf
<1>9. CASE Age(p)' = Age(p) + 1 /\ turns'[p] = turns[p]
  <2>1. Hoard(turns[p])' = Hoard(turns[p])
    BY <1>9 DEF Hoard
  <2>2. Growth(Age(p))' = Growth(Age(p)) + LineRate
    BY <1>5, <1>9 DEF Growth
  <2>3. QED
    BY <1>2, <1>3, <1>4, <1>5, <1>6, <1>7, <1>9, <2>1, <2>2 DEF BoundOf
<1>10. QED
  BY <1>8, <1>9, TickStep

LEMMA BoundCount ==
  ASSUME DreTypeOK, DreBound, NEW p \in Ports, NEW type, NEW length \in Lengths,
         CountData(type, p, length)
  PROVE  DreBound'
<1>1. length \in Nat /\ clock' = clock /\ spent[p] + length <= LineRate
      /\ spent' = [spent EXCEPT ![p] = spent[p] + length]
  BY CountStep
<1>2. Age(p) \in Nat /\ Dre_value_reg[p] \in Nat /\ spent[p] \in Nat /\ turns[p] \in Nat
  BY AgeType
<1>3. Burst \in Nat /\ Rest \in Nat /\ DreTime \in Nat /\ LineRate \in Nat
  BY BoundTypes, DreAssumption
<1>4. spent'[p] = spent[p] + length
  BY <1>1 DEF DreTypeOK
<1>5. BoundOf(p)
  BY DEF DreBound
<1>6. Hoard(turns[p]) \in Nat
  BY <1>2, HoardStep
<1>7. BoundOf(p)'
  <2>1. CASE Age(p) > DreTime
    <3>1. Dre_value_reg'[p] = Dre_MUL(Dre_value_reg[p]) /\ Dre_time_reg'[p] = clock
          /\ turns'[p] = IF Dre_value_reg'[p] <= 3 * Burst THEN 0 ELSE turns[p]
      BY <2>1, CountStep DEF DreTypeOK
    <3>2. Dre_MUL(Dre_value_reg[p]) \in Nat
          /\ Dre_MUL(Dre_value_reg[p]) <= Rest + Hoard(turns[p])
      BY <1>2, <1>5, DecayToRest DEF BoundOf
    <3>3. Age(p)' = 0
      BY <1>1, <3>1 DEF DreTypeOK, Age
    <3>4. Growth(Age(p))' = 0
      BY <3>3, GrowthStep DEF Growth
    <3>5. Hoard(turns[p])' \in Nat /\ Dre_value_reg'[p] <= Rest + Hoard(turns[p])'
      <4>1. CASE Dre_value_reg'[p] <= 3 * Burst
        <5>1. Hoard(turns[p])' = 0
          BY <3>1, <4>1, HoardStep DEF Hoard
        <5>2. QED
          BY <1>3, <3>1, <3>2, <4>1, <5>1, BoundTypes
      <4>2. CASE ~(Dre_value_reg'[p] <= 3 * Burst)
        <5>1. Hoard(turns[p])' = Hoard(turns[p])
          BY <3>1, <4>2 DEF Hoard
        <5>2. QED
          BY <1>6, <3>1, <3>2, <5>1
      <4>3. QED
        BY <4>1, <4>2
    <3>6. QED
      BY <1>1, <1>2, <1>3, <1>4, <3>1, <3>2, <3>4, <3>5 DEF BoundOf
  <2>2. CASE ~(Age(p) > DreTime)
    <3>1. Dre_value_reg'[p] = Dre_value_reg[p] + length /\ Dre_time_reg' = Dre_time_reg
          /\ turns' = turns
      BY <2>2, CountStep DEF DreTypeOK
    <3>2. Age(p)' = Age(p)
      BY <1>1, <3>1 DEF Age
    <3>3. Growth(Age(p))' = Growth(Age(p)) /\ Hoard(turns[p])' = Hoard(turns[p])
      BY <3>1, <3>2 DEF Growth, Hoard
    <3>4. Growth(Age(p)) \in Nat /\ Growth(Age(p)) + LineRate <= Burst
      BY <1>2, <1>3, <2>2, GrowthStep, GrowthBound
    <3>5. Dre_value_reg'[p] <= Rest + Hoard(turns[p]) + Growth(Age(p)) + spent'[p]
      BY <1>1, <1>2, <1>3, <1>4, <1>5, <1>6, <2>2, <3>1, <3>4 DEF BoundOf
    <3>6. QED
      BY <1>1, <1>2, <1>3, <1>4, <1>6, <3>1, <3>3, <3>4, <3>5 DEF BoundOf
  <2>3. QED
    BY <2>1, <2>2
<1>8. ASSUME NEW k \in Ports, k # p PROVE BoundOf(k)'
  <2>1. Dre_value_reg'[k] = Dre_value_reg[k] /\ Dre_time_reg'[k] = Dre_time_reg[k]
        /\ spent'[k] = spent[k] /\ turns'[k] = turns[k]
    BY <1>8, CountStep DEF DreTypeOK
  <2>2. Age(k)' = Age(k)
    BY <1>1, <2>1 DEF Age
  <2>3. BoundOf(k)
    BY DEF DreBound
  <2>4. QED
    BY <2>1, <2>2, <2>3 DEF BoundOf, Growth, Hoard
<1>9. QED
  BY <1>7, <1>8 DEF DreBound

LEMMA BoundStep == DreTypeOK /\ DreBound /\ [DreNext]_dreVars => DreBound'
<1>1. SUFFICES ASSUME DreTypeOK, DreBound, [DreNext]_dreVars PROVE DreBound'
  OBVIOUS
<1>2. CASE Tick
  BY <1>1, <1>2, BoundTick
<1>3. ASSUME NEW p \in Ports, NEW type, NEW length \in Lengths, CountData(type, p, length)
      PROVE  DreBound'
  BY <1>1, <1>3, BoundCount
<1>4. CASE UNCHANGED dreVars
  BY <1>1, <1>4 DEF dreVars, DreBound, BoundOf, Age, Growth, Hoard
<1>5. QED
  BY <1>1, <1>2, <1>3, <1>4 DEF DreNext, Carry

LEMMA BoundEnough == DreTypeOK /\ DreBound => EstimateInTable
<1>1. SUFFICES ASSUME DreTypeOK, DreBound, NEW p \in Ports,
                      Rest + (turns[p] + 1) * Burst < CE_max * Divisor
               PROVE  Estimate(p) < CE_max
  BY DEF EstimateInTable
<1>2. /\ Dre_value_reg[p] \in Nat /\ turns[p] \in Nat
      /\ Dre_value_reg[p] <= Rest + Hoard(turns[p]) + Burst
  BY <1>1, AgeType DEF DreBound, BoundOf
<1>3. Hoard(turns[p]) \in Nat /\ Hoard(turns[p] + 1) = Hoard(turns[p]) + Burst
  BY <1>2, HoardStep
<1>4. Rest + Hoard(turns[p] + 1) < CE_max * Divisor
  BY <1>1 DEF Hoard
<1>5. Dre_value_reg[p] < CE_max * Divisor
  <2>1. CE_max * Divisor \in Int /\ Rest \in Nat /\ Burst \in Nat
    BY DreAssumption, BoundTypes
  <2>2. QED
    BY <1>2, <1>3, <1>4, <2>1
<1>6. QED
  BY <1>2, <1>5, QuotientBound DEF Estimate

\* Traffic at line rate drives the estimate of a port out of the entries of
\* set_acceptable_path only after as many turns of the clock that hid a decay
\* as it takes to add up to it; before the first it never does.
THEOREM EstimateStaysInTable == DreSpec => []EstimateInTable
  BY DreTypeInit, DreTypeStep, BoundInit, BoundStep, BoundEnough, PTL DEF DreSpec

-----------------------------------------------------------------------------
(* The ramp.                                                               *)

LEMMA StepSizeNat == STEPSIZE \in Nat
<1>1. ASSUME NEW a \in Nat, NEW b \in Nat \ {0} PROVE a \div b \in Nat
  OBVIOUS
<1>2. K_MAX - K_MIN \in Nat
  BY EcnAssumption
<1>3. QED
  BY <1>1, <1>2, EcnAssumption DEF STEPSIZE

\* No range of the ramp, nor the one behind it, begins below K_MIN.
LEMMA RampAboveThreshold == \A n \in Nat : K_MIN + n * STEPSIZE >= K_MIN
<1>1. \A n \in Nat : n * STEPSIZE \in Nat
  BY StepSizeNat
<1>2. QED
  BY <1>1, EcnAssumption

LEMMA ShallowProbability ==
  \A d \in Depths : d < K_MIN => \A output \in ProbabilityOutputs(d) : output = 0
<1>1. SUFFICES ASSUME NEW d \in Depths, d < K_MIN,
                      NEW e \in ProbabilityEntries, e.low <= d
               PROVE  e.value = 0
  BY DEF ProbabilityOutputs
<1>2. d \in Nat /\ K_MIN \in Nat
  BY EcnAssumption
<1>3. CASE e \in {[low |-> 0, high |-> K_MIN, value |-> 0]}
  BY <1>3
<1>4. ASSUME NEW i \in 1..(SEED_K_MAX - 1), e = Ramp(i) PROVE FALSE
  <2>1. i - 1 \in Nat
    BY EcnAssumption
  <2>2. e.low = K_MIN + (i - 1) * STEPSIZE
    BY <1>4 DEF Ramp
  <2>3. (i - 1) * STEPSIZE \in Nat
    BY <2>1, StepSizeNat
  <2>4. QED
    BY <1>1, <1>2, <2>2, <2>3
<1>5. ASSUME e = [low |-> K_MIN + (SEED_K_MAX - 1) * STEPSIZE, high |-> QDEPTH_MAX - 1,
                  value |-> SEED_RANGE_MAX - 1]
      PROVE  FALSE
  <2>1. SEED_K_MAX - 1 \in Nat
    BY EcnAssumption
  <2>2. (SEED_K_MAX - 1) * STEPSIZE \in Nat
    BY <2>1, StepSizeNat
  <2>3. QED
    BY <1>1, <1>2, <1>5, <2>2
<1>6. QED
  BY <1>3, <1>4, <1>5 DEF ProbabilityEntries

-----------------------------------------------------------------------------
(* The checksum.                                                           *)

LEMMA PlusType == \A a, b \in Words : Plus(a, b) \in Words
  BY DEF Plus, Words

LEMMA CodePointIsWord == \A ecn \in 0..3 : ecn \in Words
  BY DEF Words

LEMMA ChecksumType ==
  ASSUME NEW sum \in Words, NEW ecn \in 0..3
  PROVE  /\ Checksum(sum, ecn) \in Words
         /\ MinusOne(Checksum(sum, ecn)) \in Words
<1>1. Plus(sum, ecn) \in Words
  BY PlusType, CodePointIsWord
<1>2. Checksum(sum, ecn) \in Words
  BY <1>1 DEF Checksum, Words
<1>3. QED
  BY <1>2 DEF MinusOne, Words

\* A header nobody touched is valid.
LEMMA UnmarkedValid ==
  ASSUME NEW sum \in Words, NEW ecn \in 0..3
  PROVE  Valid(sum, ecn, Checksum(sum, ecn))
<1>1. ASSUME NEW p \in Words PROVE Plus(p, 65535 - p) = 65535
  BY DEF Plus, Words
<1>2. Plus(sum, ecn) \in Words
  BY PlusType, CodePointIsWord
<1>3. QED
  BY <1>1, <1>2 DEF Valid, Checksum

\* One less in the checksum is right for one more in the code point, and for
\* nothing else.
LEMMA MarkedValid ==
  ASSUME NEW sum \in Words, sum # 0, NEW ecn \in {Ect0, Ect1}
  PROVE  Valid(sum, Ce, MinusOne(Checksum(sum, ecn))) <=> ecn = Ect0 /\ Checksum(sum, ecn) # 0
<1>1. sum \in Nat /\ sum <= 65535
  BY DEF Words
<1>2. CASE ecn = Ect0
  <2>1. CASE sum + 3 <= 65535
    BY <1>1, <1>2, <2>1 DEF Valid, Checksum, MinusOne, Plus, Ect0, Ce
  <2>2. CASE sum + 3 > 65535
    BY <1>1, <1>2, <2>2 DEF Valid, Checksum, MinusOne, Plus, Ect0, Ce
  <2>3. QED
    BY <1>1, <2>1, <2>2
<1>3. CASE ecn = Ect1
  <2>1. CASE sum + 3 <= 65535
    BY <1>1, <1>3, <2>1 DEF Valid, Checksum, MinusOne, Plus, Ect0, Ect1, Ce
  <2>2. CASE sum + 3 > 65535
    BY <1>1, <1>3, <2>2 DEF Valid, Checksum, MinusOne, Plus, Ect0, Ect1, Ce
  <2>3. QED
    BY <1>1, <2>1, <2>2
<1>4. QED
  BY <1>2, <1>3

-----------------------------------------------------------------------------
(* The invariant.                                                          *)

EcnInv == EcnTypeOK /\ ShallowUnmarked /\ ChecksumKept

\* What left by Left satisfies it, if it was not marked below the threshold
\* and only if it said ECT.
LEMMA LeftGood ==
  ASSUME NEW d \in Depths, NEW random \in Randoms, NEW sum \in Sums, NEW ecn \in 0..3,
         NEW marked \in BOOLEAN, d < K_MIN => ~marked, marked => ecn \in {Ect0, Ect1},
         packet' = Left(d, random, sum, ecn, marked), depth' \in Depths
  PROVE  EcnInv'
<1>1. sum \in Words /\ sum # 0
  BY EcnAssumption DEF Words
<1>2. Ect0 \in 0..3 /\ Ce \in 0..3
  BY DEF Ect0, Ce
<1> DEFINE c     == Checksum(sum, ecn)
           after == IF marked THEN Ce ELSE ecn
           left  == IF marked THEN MinusOne(c) ELSE c
<1>3. packet' = [depth |-> d, random |-> random, sum |-> sum, before |-> ecn,
                 checksum |-> c, after |-> after, checksumAfter |-> left]
  BY DEF Left
<1>4. c \in Words /\ left \in Words
  BY <1>1, ChecksumType
<1>5. after \in 0..3
  BY <1>2
<1>6. Valid(sum, after, left) <=> after = ecn \/ (ecn = Ect0 /\ c # 0)
  <2>1. CASE marked
    <3>1. after = Ce /\ left = MinusOne(c) /\ after # ecn
      BY <2>1 DEF Ect0, Ect1, Ce
    <3>2. Valid(sum, Ce, MinusOne(c)) <=> ecn = Ect0 /\ c # 0
      BY <1>1, <2>1, MarkedValid
    <3> HIDE DEF c, after, left
    <3>3. QED
      BY <3>1, <3>2
  <2>2. CASE ~marked
    <3>1. after = ecn /\ left = c
      BY <2>2
    <3>2. Valid(sum, ecn, c)
      BY <1>1, UnmarkedValid
    <3> HIDE DEF c, after, left
    <3>3. QED
      BY <3>1, <3>2
  <2>3. QED
    BY <2>1, <2>2
<1>7. d < K_MIN => after = ecn
  OBVIOUS
<1> HIDE DEF c, after, left
<1>8. EcnTypeOK'
  BY <1>3, <1>4, <1>5 DEF EcnTypeOK
<1>9. ShallowUnmarked'
  BY <1>3, <1>7 DEF ShallowUnmarked
<1>10. ChecksumKept'
  <2>1. /\ packet'.before = ecn /\ packet'.checksum = c /\ packet'.sum = sum
        /\ packet'.after = after /\ packet'.checksumAfter = left
    BY <1>3
  <2>2. QED
    BY <1>6, <2>1 DEF ChecksumKept, Valid
<1>11. QED
  BY <1>8, <1>9, <1>10 DEF EcnInv

LEMMA InitGood == EcnInit => EcnInv
<1>1. SUFFICES ASSUME EcnInit PROVE EcnInv
  OBVIOUS
<1>2. PICK sum \in Sums : packet = Left(depth, 0, sum, NotEct, FALSE)
  BY <1>1 DEF EcnInit
<1>3. depth \in Depths
  BY <1>1 DEF EcnInit
<1>4. packet = [depth |-> depth, random |-> 0, sum |-> sum, before |-> 0,
                checksum |-> Checksum(sum, 0), after |-> 0, checksumAfter |-> Checksum(sum, 0)]
  BY <1>2 DEF Left, NotEct
<1>5. Checksum(sum, 0) \in Words
  <2>1. sum \in Words
    BY EcnAssumption DEF Words
  <2>2. QED
    BY <2>1, ChecksumType
<1>6. EcnTypeOK
  BY <1>3, <1>4, <1>5, EcnAssumption DEF EcnTypeOK
<1>7. ShallowUnmarked
  BY <1>4 DEF ShallowUnmarked
<1>8. ChecksumKept
  <2>1. Valid(sum, 0, Checksum(sum, 0))
    <3>1. sum \in Words
      BY EcnAssumption DEF Words
    <3>2. QED
      BY <3>1, UnmarkedValid
  <2>2. packet.sum = sum /\ packet.before = 0 /\ packet.after = 0
        /\ packet.checksumAfter = Checksum(sum, 0)
    BY <1>4
  <2>3. QED
    BY <2>1, <2>2 DEF ChecksumKept
<1>9. QED
  BY <1>6, <1>7, <1>8 DEF EcnInv

LEMMA DequeueGood ==
  ASSUME EcnInv, NEW ecn \in NotEct..Ce, NEW sum \in Sums, NEW random \in Randoms,
         Dequeue(ecn, sum, random)
  PROVE  EcnInv'
<1>1. PICK output \in ProbabilityOutputs(depth) :
        packet' = Left(depth, random, sum, ecn, ecn \in {Ect0, Ect1} /\ Marks(output, random))
  BY DEF Dequeue
<1> DEFINE marked == ecn \in {Ect0, Ect1} /\ Marks(output, random)
<1>2. depth \in Depths /\ depth' = depth
  BY DEF Dequeue, EcnInv, EcnTypeOK
<1>3. ecn \in 0..3
  BY DEF NotEct, Ce
<1>4. marked \in BOOLEAN
  BY DEF Marks
<1>5. depth < K_MIN => ~marked
  <2>1. depth < K_MIN => output = 0
    BY <1>1, <1>2, ShallowProbability
  <2>2. output = 0 => ~Marks(output, random)
    BY EcnAssumption DEF Marks
  <2>3. QED
    BY <2>1, <2>2
<1>6. packet' = Left(depth, random, sum, ecn, marked)
  BY <1>1
<1>7. marked => ecn \in {Ect0, Ect1}
  OBVIOUS
<1> HIDE DEF marked
<1>8. QED
  BY <1>2, <1>3, <1>4, <1>5, <1>6, <1>7, LeftGood

LEMMA EcnStep == EcnInv /\ [EcnNext]_ecnVars => EcnInv'
<1>1. SUFFICES ASSUME EcnInv, [EcnNext]_ecnVars PROVE EcnInv'
  OBVIOUS
<1>2. ASSUME packet' = packet, depth' \in Depths PROVE EcnInv'
  BY <1>1, <1>2 DEF EcnInv, EcnTypeOK, ShallowUnmarked, ChecksumKept, Valid, Plus
<1>3. CASE QueueMoves
  BY <1>2, <1>3 DEF QueueMoves
<1>4. ASSUME NEW ecn \in NotEct..Ce, NEW sum \in Sums, NEW random \in Randoms,
             Dequeue(ecn, sum, random)
      PROVE  EcnInv'
  BY <1>1, <1>4, DequeueGood
<1>5. CASE UNCHANGED ecnVars
  BY <1>1, <1>2, <1>5 DEF ecnVars, EcnInv, EcnTypeOK
<1>6. QED
  BY <1>1, <1>3, <1>4, <1>5 DEF EcnNext

\* Header words keep their 16 bits, the subtraction below zero included.
THEOREM EcnTypeCorrect == EcnSpec => []EcnTypeOK
<1>1. EcnInv => EcnTypeOK
  BY DEF EcnInv
<1>2. QED
  BY <1>1, InitGood, EcnStep, PTL DEF EcnSpec

\* Nothing is marked below the threshold, whatever the number of ranges and
\* their width.
THEOREM ShallowStaysUnmarked == EcnSpec => []ShallowUnmarked
<1>1. EcnInv => ShallowUnmarked
  BY DEF EcnInv
<1>2. QED
  BY <1>1, InitGood, EcnStep, PTL DEF EcnSpec

\* The adjusted checksum of a marked packet is right for every header with
\* ECT(0) and a checksum other than zero, and wrong for every other.
THEOREM ChecksumStaysValid == EcnSpec => []ChecksumKept
<1>1. EcnInv => ChecksumKept
  BY DEF EcnInv
<1>2. QED
  BY <1>1, InitGood, EcnStep, PTL DEF EcnSpec
=============================================================================

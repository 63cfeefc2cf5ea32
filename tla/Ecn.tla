-------------------------------- MODULE Ecn ---------------------------------
(***************************************************************************)
(* Marking for DCQCN at the egress of both switches: a packet that leaves  *)
(* a deep queue gets the code point CE with a probability that grows with  *)
(* the depth.  One table turns the depth into a number of 256ths, a random *)
(* byte is drawn, and a second table with an entry for every number and    *)
(* every smaller byte marks.  The header checksum is adjusted by one.      *)
(***************************************************************************)
EXTENDS Naturals

CONSTANTS
  K_MIN, K_MAX,    \* depths where marking starts and saturates (1250, 3000)
  SEED_K_MAX,      \* the largest probability on the ramp, in 256ths (51)
  SEED_RANGE_MAX,  \* random numbers are below it (256)
  QDEPTH_MAX,      \* depths are below it (2^19)
  Depths,          \* bound: the depths tried
  Randoms,         \* bound: the random numbers tried
  Sums             \* bound: sums of the header's other words tried

ASSUME EcnAssumption ==
  /\ K_MIN \in Nat /\ K_MAX \in Nat /\ SEED_K_MAX \in Nat \ {0}
  /\ K_MIN < K_MAX /\ K_MAX < QDEPTH_MAX /\ SEED_K_MAX < SEED_RANGE_MAX
  /\ QDEPTH_MAX \in Nat /\ SEED_RANGE_MAX \in Nat
  /\ \A d \in Depths : d \in Nat /\ d < QDEPTH_MAX
  /\ 0 \in Randoms /\ \A random \in Randoms : random \in Nat /\ random < SEED_RANGE_MAX
  /\ \A sum \in Sums : sum \in Nat /\ 1 <= sum /\ sum <= 65535

VARIABLES
  depth,   \* deq_qdepth
  packet   \* the packet that left last: the depth and the random number it
           \* met, the sum of its header words but for the code point and the
           \* checksum, and these two before and after

ecnVars == <<depth, packet>>

NotEct == 0
Ect1 == 1
Ect0 == 2
Ce == 3

-----------------------------------------------------------------------------
\* dcqcn_get_ecn_probability: neighbouring ranges share their boundary, and
\* nothing says which of the two entries is the one found there.
STEPSIZE == (K_MAX - K_MIN) \div SEED_K_MAX

\* Mutant: the first range of the ramp lies below K_MIN.
RampEarly(i) == [low |-> K_MIN + (i - 2) * STEPSIZE, high |-> K_MIN + (i - 1) * STEPSIZE, value |-> i]

Ramp(i) == [low |-> K_MIN + (i - 1) * STEPSIZE, high |-> K_MIN + i * STEPSIZE, value |-> i]

ProbabilityEntries ==
  {[low |-> 0, high |-> K_MIN, value |-> 0]}
    \cup {Ramp(i) : i \in 1..(SEED_K_MAX - 1)}
    \cup {[low |-> K_MIN + (SEED_K_MAX - 1) * STEPSIZE, high |-> QDEPTH_MAX - 1,
           value |-> SEED_RANGE_MAX - 1]}

ProbabilityOutputs(d) == {e.value : e \in {r \in ProbabilityEntries : r.low <= d /\ d <= r.high}}

\* dcqcn_compare_probability: its entries are those of the ramp only.
Marks(output, random) == output \in 1..(SEED_K_MAX - 1) /\ random < output

Words == {n \in Nat : n <= 65535}

\* One's complement addition of 16-bit words, and the checksum over a header
\* whose other words sum to sum.
Plus(a, b) == IF a + b > 65535 THEN a + b - 65535 ELSE a + b
Checksum(sum, ecn) == 65535 - Plus(sum, ecn)
Valid(sum, ecn, checksum) == Plus(Plus(sum, ecn), checksum) = 65535

\* hdr_checksum - 1 on 16 bits.
MinusOne(checksum) == IF checksum = 0 THEN 65535 ELSE checksum - 1

\* Mutants: the checksum is wider than 16 bits; it is moved the wrong way.
LeftWide(d, random, sum, ecn, marked) ==
  [depth |-> d, random |-> random, sum |-> sum, before |-> ecn, checksum |-> Checksum(sum, ecn),
   after |-> IF marked THEN Ce ELSE ecn, checksumAfter |-> Checksum(sum, ecn) + 65535]
LeftUp(d, random, sum, ecn, marked) ==
  [depth |-> d, random |-> random, sum |-> sum, before |-> ecn, checksum |-> Checksum(sum, ecn),
   after |-> IF marked THEN Ce ELSE ecn,
   checksumAfter |-> IF marked THEN (Checksum(sum, ecn) + 1) % 65536 ELSE Checksum(sum, ecn)]

\* A packet that leaves; dcqcn_check_ecn_marking if it is marked.
Left(d, random, sum, ecn, marked) ==
  [depth |-> d, random |-> random, sum |-> sum, before |-> ecn, checksum |-> Checksum(sum, ecn),
   after |-> IF marked THEN Ce ELSE ecn,
   checksumAfter |-> IF marked THEN MinusOne(Checksum(sum, ecn)) ELSE Checksum(sum, ecn)]

EcnInit ==
  /\ depth \in Depths
  /\ \E sum \in Sums : packet = Left(depth, 0, sum, NotEct, FALSE)

\* The queue grows and drains.
QueueMoves == depth' \in Depths /\ UNCHANGED packet

\* ECNEgress: only a packet of a transport that understands ECN is looked at.
Dequeue(ecn, sum, random) ==
  /\ \E output \in ProbabilityOutputs(depth) :
       packet' = Left(depth, random, sum, ecn, ecn \in {Ect0, Ect1} /\ Marks(output, random))
  /\ UNCHANGED depth

EcnNext ==
  \/ QueueMoves
  \/ \E ecn \in NotEct..Ce, sum \in Sums, random \in Randoms :
       Dequeue(ecn, sum, random)

EcnSpec == EcnInit /\ [][EcnNext]_ecnVars

-----------------------------------------------------------------------------
(* Properties.                                                             *)

\* The depth is one of those tried, the header words have their width.
EcnTypeOK ==
  /\ depth \in Depths
  /\ packet \in [depth : Depths, random : Randoms, sum : Sums, before : 0..3, after : 0..3,
                 checksum : Words, checksumAfter : Words]

\* A packet that leaves a queue below the threshold is never marked, though
\* the first range of the ramp begins at the very threshold.
ShallowUnmarked == packet.depth < K_MIN => packet.after = packet.before

\* Subtracting one is the one's complement update for the step from ECT(0) to
\* CE, above zero: a packet that was marked has a valid header exactly if it
\* was ECT(0) with a checksum other than zero, so that a marked ECT(1) packet
\* never has one.  A packet that was not marked keeps the one it had.
ChecksumKept ==
  Valid(packet.sum, packet.after, packet.checksumAfter)
    <=> packet.after = packet.before \/ (packet.before = Ect0 /\ packet.checksum # 0)

\* caver_tor.p4:845: no marking is what the probability 0 says.  The entry
\* behind the ramp says 255, so a packet that finds the queue deeper than
\* K_MAX is marked for every random number but 255.
FullQueueMarks ==
  packet.before \in {Ect0, Ect1} /\ packet.depth > K_MAX /\ packet.random < SEED_RANGE_MAX - 1
    => packet.after = Ce
=============================================================================

-------------------------------- MODULE Dre ---------------------------------
(***************************************************************************)
(* The discounting rate estimator both switches keep per port.  A data     *)
(* packet adds its length to Dre_value_reg, unless more than dre_time has  *)
(* passed since Dre_time_reg: then it multiplies the value by 3/4 instead. *)
(* Nothing else lowers the value.  The congestion an acknowledgement       *)
(* reports is the value over a divisor; set_acceptable_path has entries    *)
(* for estimates below CE_max only.                                        *)
(***************************************************************************)
EXTENDS Naturals

CONSTANTS
  Ports,      \* CAVER ports
  DreTime,    \* dre_time (5 units of 1.024 us)
  Wrap,       \* the timestamp counts modulo Wrap (2^32)
  Lengths,    \* udp lengths of data packets
  LineRate,   \* bytes that can reach a port's estimator in one unit of time
  InitDre,    \* what the registers start with
  Divisor,    \* value over estimate: 12400 in the ToR, 4096 in the Middle
  CE_max,     \* the size of set_acceptable_path (64)
  MaxTurns    \* bound of turns

\* What the estimator gains at most between two decays.
Burst == (DreTime + 1) * LineRate

\* The larger of two numbers.
Most(a, b) == IF a >= b THEN a ELSE b

\* What a decay leaves at most.
Rest == Most(InitDre, 3 * Burst)

ASSUME DreAssumption ==
  /\ DreTime \in Nat /\ Wrap \in Nat /\ DreTime + 1 < Wrap
  /\ Lengths \subseteq Nat /\ LineRate \in Nat /\ InitDre \in Nat
  /\ Divisor \in Nat \ {0} /\ CE_max \in Nat /\ MaxTurns \in Nat
  /\ Rest + Burst < CE_max * Divisor

VARIABLES
  clock,           \* global_tstamp[41:10]
  Dre_time_reg,    \* per port: the time of its last decay
  Dre_value_reg,   \* per port: the discounted number of bytes
  spent,           \* per port: bytes that arrived in this unit of time
  turns            \* per port, a history: the turns of the clock that hid a
                   \* decay that was due, since the last decay to 3 * Burst

dreVars == <<clock, Dre_time_reg, Dre_value_reg, spent, turns>>

\* current_time - val, in 32-bit arithmetic.
Age(p) == IF clock >= Dre_time_reg[p] THEN clock - Dre_time_reg[p]
                                      ELSE clock + Wrap - Dre_time_reg[p]

\* Mutants: the decay is missing; it is by a 64th.
Dre_MULNone(v) == v
Dre_MULSlow(v) == v - v \div 64

\* The MathUnit's 3/4, the congestion estimate.
Dre_MUL(v) == (3 * v) \div 4
Estimate(p) == Dre_value_reg[p] \div Divisor

DreInit ==
  /\ clock \in 0..(Wrap - 1)
  /\ Dre_time_reg = [p \in Ports |-> 0]
  /\ Dre_value_reg = [p \in Ports |-> InitDre]
  /\ spent = [p \in Ports |-> 0]
  /\ turns = [p \in Ports |-> 0]

\* A whole turn of the clock has passed since the last decay of p when the
\* clock ticks: the port looks freshly decayed again.
Hidden(p) == Age(p) = Wrap - 1

\* Mutant: the time stamp is wider than the register.
TickUnwrapped ==
  /\ clock' = clock + 1
  /\ spent' = [p \in Ports |-> 0]
  /\ UNCHANGED <<Dre_time_reg, Dre_value_reg, turns>>

\* Time passes, on a port without data as on any other.
Tick ==
  /\ \A p \in Ports : Hidden(p) => turns[p] < MaxTurns    \* bound
  /\ clock' = IF clock = Wrap - 1 THEN 0 ELSE clock + 1
  /\ spent' = [p \in Ports |-> 0]
  /\ turns' = [p \in Ports |-> IF Hidden(p) THEN turns[p] + 1 ELSE turns[p]]
  /\ UNCHANGED <<Dre_time_reg, Dre_value_reg>>

PacketTypes ==
  {"DATA", "ACK", "CAVER_DATA", "CAVER_ACK_FIRST", "CAVER_ACK_SECOND"}

\* Dre_time_table and Dre_table by the type of the packet: only data is
\* counted, only acknowledgements read the estimator.
DreTimeTable(type) ==
  IF type \in {"DATA", "CAVER_DATA"} THEN "Dre_time_update" ELSE "no_action"
DreTable(type) ==
  CASE type \in {"DATA", "CAVER_DATA"} -> "data_dre"
    [] type = "CAVER_ACK_FIRST" -> "ack_dre"
    [] OTHER -> "no_action"

\* ig_md.dre_decrease, and Dre_time_reg and Dre_value_reg behind it.
Decreases(type, p) == DreTimeTable(type) = "Dre_time_update" /\ Age(p) > DreTime

\* A data packet whose dre_port is p.
CountData(type, p, length) ==
  /\ DreTable(type) = "data_dre"
  /\ spent[p] + length <= LineRate
  /\ spent' = [spent EXCEPT ![p] = @ + length]
  /\ IF Decreases(type, p)
     THEN /\ Dre_time_reg' = [Dre_time_reg EXCEPT ![p] = clock]
          /\ Dre_value_reg' = [Dre_value_reg EXCEPT ![p] = Dre_MUL(@)]
          /\ turns' = [turns EXCEPT ![p] = IF Dre_value_reg'[p] <= 3 * Burst THEN 0 ELSE @]
     ELSE /\ Dre_value_reg' = [Dre_value_reg EXCEPT ![p] = @ + length]
          /\ UNCHANGED <<Dre_time_reg, turns>>
  /\ UNCHANGED clock

Carry(p) == \E type \in PacketTypes, length \in Lengths : CountData(type, p, length)

DreNext == Tick \/ \E p \in Ports : Carry(p)

DreSpec == DreInit /\ [][DreNext]_dreVars

\* Time passes, and every port keeps carrying data: not only while it looks
\* freshly decayed, however often a turn of the clock interrupts a due decay.
DreFairSpec ==
  /\ DreSpec
  /\ WF_dreVars(Tick)
  /\ \A p \in Ports : SF_dreVars(Age(p) > DreTime /\ Carry(p))

-----------------------------------------------------------------------------
(* Properties.                                                             *)

\* The registers hold values of their range.
DreTypeOK ==
  /\ clock \in 0..(Wrap - 1)
  /\ Dre_time_reg \in [Ports -> 0..(Wrap - 1)]
  /\ Dre_value_reg \in [Ports -> Nat]
  /\ spent \in [Ports -> 0..LineRate]
  /\ turns \in [Ports -> 0..MaxTurns]

\* Traffic at line rate drives an estimate out of the entries of
\* set_acceptable_path, which the clamp to CE_max that both programs leave
\* out would prevent, only with the help of the clock: as long as the turns
\* that hid a decay are too few to add up to it, the clamp is not missed.
EstimateInTable ==
  \A p \in Ports :
    Rest + (turns[p] + 1) * Burst < CE_max * Divisor => Estimate(p) < CE_max

\* A port that keeps carrying data forgets the value it was started with:
\* what its line rate can sustain remains, and a Burst more for each turn of
\* the clock that has hidden a decay.
ForgetsStart == \A p \in Ports : <>[](Dre_value_reg[p] <= (4 + turns[p]) * Burst)
=============================================================================

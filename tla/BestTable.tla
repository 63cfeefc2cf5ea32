----------------------------- MODULE BestTable ------------------------------
(***************************************************************************)
(* What a CAVER ToR does with the congestion that acknowledgements report. *)
(* BestTable_reg keeps for every remote host the least congested path seen *)
(* so far.  A stateful ALU touches its cell once per packet, so an         *)
(* acknowledgement goes through the pipeline twice:                        *)
(*   first pass   reads the first hop of the stored path (best_port) and   *)
(*                the DRE of the uplink it came in by, and is resubmitted  *)
(*                with both;                                               *)
(*   second pass  compares its uplink with best_port.  Equal: the report   *)
(*                is about the stored path and replaces it.  Different: it *)
(*                replaces it only if it is not more congested.            *)
(* It then pushes one path into the path table (PathRing): the good path   *)
(* it reported if that is within 1.2 times the best, else the best path.   *)
(*                                                                         *)
(* Between its passes an acknowledgement waits in a FIFO; other            *)
(* acknowledgements may overtake the read it made.  Only those of the same *)
(* host touch the same cell, so the FIFO is kept per host.                 *)
(***************************************************************************)
EXTENDS Naturals, Sequences

CONSTANTS
  Hosts,        \* remote hosts
  Ports,        \* uplinks of the ToR: the first hop of a path
  Hops,         \* ports of the next switch: the second hop of a path
  CEs,          \* congestion estimates that are met
  Reports,      \* contents of the caver_ack header a packet may arrive with
  InitBest,     \* the entries init_BestTable writes
  MaxInFlight   \* acknowledgements of one host between their passes

Entries == [CE : CEs, hop1 : Hops, hop0 : Ports]

\* A byte per hop, and room for the threshold in its 16 bits.
ASSUME BestAssumption ==
  /\ \A ce \in CEs : ce \in Nat /\ ce <= 54612
  /\ \A p \in Ports \cup Hops : p \in Nat /\ p <= 255
  /\ Reports \subseteq [best_port : Hops, best_CE : CEs, good_port : Hops, good_CE : CEs]
  /\ InitBest \in [Hosts -> Entries]
  /\ MaxInFlight \in Nat \ {0}

VARIABLES
  best,       \* BestTable_reg
  resubmit,   \* per host: acknowledgements between their passes, oldest first
  pushed      \* history: the path given to the path table last

bestVars == <<best, resubmit, pushed>>

CE_max == 64

-----------------------------------------------------------------------------
\* The register word CE:hop1:hop0 that the comparison is made on: equal
\* congestion is decided by the path.
Word(e) == e.CE * 65536 + e.hop1 * 256 + e.hop0

Larger(a, b) == IF a >= b THEN a ELSE b

\* Mutant: the two hops change places.
BeforeBestSwapped(r) ==
  [CE |-> Larger(r.CE, r.report.best_CE), hop1 |-> r.port, hop0 |-> r.report.best_port]

\* path_prepare: a reported path seen from this switch starts with the uplink
\* the report came by, and is as congested as the worse of its two hops.
BeforeBest(r) ==
  [CE |-> Larger(r.CE, r.report.best_CE), hop1 |-> r.report.best_port, hop0 |-> r.port]
BeforeGood(r) ==
  [CE |-> Larger(r.CE, r.report.good_CE), hop1 |-> r.report.good_port, hop0 |-> r.port]

\* ig_md.port_equal, from what the first pass read.
PortEqual(r) == r.port = r.best_port

\* Mutant: the key port_equal is forgotten.
BestTableActionAnyPort(type, port_equal) ==
  CASE type = "CAVER_ACK_FIRST"  -> "read_port_BestTable"
    [] type = "CAVER_ACK_SECOND" -> "check_BestTable"
    [] OTHER -> "no_action"

\* The table, as set_BestTable fills it for every host.
BestTableAction(type, port_equal) ==
  CASE type = "CAVER_ACK_FIRST" -> "read_port_BestTable"
    [] type = "CAVER_ACK_SECOND" /\ port_equal -> "update_BestTable"
    [] type = "CAVER_ACK_SECOND" /\ ~port_equal -> "check_BestTable"
    [] OTHER -> "no_action"

\* Mutant: the worse path is kept.
AfterBestReversed(val, r) ==
  IF PortEqual(r) \/ Word(val) <= Word(BeforeBest(r)) THEN BeforeBest(r) ELSE val

\* update_BestTable and check_BestTable: the entry left behind by r.
AfterBest(val, r) ==
  IF \/ BestTableAction("CAVER_ACK_SECOND", PortEqual(r)) = "update_BestTable"
     \/ Word(val) >= Word(BeforeBest(r))
  THEN BeforeBest(r) ELSE val

\* TH_reg: the best congestion times 6/5.
Threshold(ce) == (ce * 6) \div 5

\* Mutants: the threshold is not looked at; its range ends at CE_max.
UseGoodAlways(good, thr) == good < CE_max
UseGoodShortRange(good, thr) == good < CE_max /\ good <= thr /\ thr < CE_max

\* The entries of set_acceptable_path that select use_good_path: good counts
\* to CE_max, the threshold from good up to CE_max * 1.2.
UseGoodPath(good, thr) == good < CE_max /\ good <= thr /\ 5 * thr < 6 * CE_max

\* ig_md.new_path, with its congestion: the default action is use_best_path.
NewPath(after, r) ==
  IF UseGoodPath(BeforeGood(r).CE, Threshold(after.CE)) THEN BeforeGood(r) ELSE after

-----------------------------------------------------------------------------
BestInit ==
  /\ best = InitBest
  /\ resubmit = [h \in Hosts |-> <<>>]
  /\ pushed = [h \in Hosts |-> InitBest[h]]

\* First pass of an acknowledgement of h that came in by uplink port, whose
\* DRE stands for ce.
AckFirst(h, port, ce, report) ==
  /\ Len(resubmit[h]) < MaxInFlight
  /\ resubmit' = [resubmit EXCEPT ![h] = Append(@,
       [port |-> port, CE |-> ce, best_port |-> best[h].hop0, report |-> report])]
  /\ UNCHANGED <<best, pushed>>

\* Second pass of the oldest acknowledgement of h.
AckSecond(h) ==
  /\ resubmit[h] # <<>>
  /\ LET r     == Head(resubmit[h])
         after == AfterBest(best[h], r)
     IN  /\ best' = [best EXCEPT ![h] = after]
         /\ pushed' = [pushed EXCEPT ![h] = NewPath(after, r)]
  /\ resubmit' = [resubmit EXCEPT ![h] = Tail(@)]

BestNext ==
  \E h \in Hosts :
    \/ \E port \in Ports, ce \in CEs, report \in Reports : AckFirst(h, port, ce, report)
    \/ AckSecond(h)

BestSpec == BestInit /\ [][BestNext]_bestVars

-----------------------------------------------------------------------------
(* Properties.                                                             *)

Acks == [port : Ports, CE : CEs, best_port : Ports, report : Reports]

\* The shape of the table and of what waits for its second pass.
BestTypeOK ==
  /\ best \in [Hosts -> Entries]
  /\ resubmit \in [Hosts -> Seq(Acks)]
  /\ \A h \in Hosts : Len(resubmit[h]) <= MaxInFlight
  /\ pushed \in [Hosts -> Entries]

\* What is put into the path table is at most 1.2 times as congested as the
\* best path known then, whichever of the two paths is chosen and whatever
\* the acknowledgements between the passes did to the table.
AcceptablePush == \A h \in Hosts : 5 * pushed[h].CE <= 6 * best[h].CE

\* caver_tor.p4:260: an acceptable good path is the one used.  It takes every
\* estimate below CE_max for the entries of set_acceptable_path to be there.
AcceptableUsesGood ==
  [][\A h \in Hosts :
       Len(resubmit'[h]) < Len(resubmit[h]) =>
         LET good == BeforeGood(Head(resubmit[h]))
         IN  5 * good.CE <= 6 * best'[h].CE => pushed'[h] = good]_bestVars
=============================================================================

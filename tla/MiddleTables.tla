---------------------------- MODULE MiddleTables ----------------------------
(***************************************************************************)
(* What the CAVER switch between the ToRs does with an acknowledgement.    *)
(* Like the ToR it keeps for every host the least congested of its ports   *)
(* (BestTable_reg) and needs two passes per acknowledgement, but it reads  *)
(* its estimator in the second pass and takes no notice of what the header *)
(* already says.  GoodTable_reg delays the acceptable path by one          *)
(* acknowledgement: each one swaps its own for that of the one before it   *)
(* and carries the older one on to the ToR.                                *)
(***************************************************************************)
EXTENDS Naturals, Sequences

CONSTANTS
  Hosts,        \* hosts that acknowledge
  Ports,        \* CAVER ports of the switch
  CEs,          \* congestion estimates that are met
  InitPort,     \* the ports init_BestTable and init_GoodTable write
  MaxInFlight   \* acknowledgements of one host between their passes

Entries == [CE : CEs, port : Ports]

ASSUME MiddleAssumption ==
  /\ \A ce \in CEs : ce \in Nat /\ ce <= 54612
  /\ \A p \in Ports : p \in Nat /\ p <= 255
  /\ 0 \in CEs
  /\ InitPort \in [Hosts -> Ports]
  /\ MaxInFlight \in Nat \ {0}

VARIABLES
  best,      \* BestTable_reg
  good,      \* GoodTable_reg
  resubmit,  \* per host: acknowledgements between their passes, oldest first
  header     \* per host: the caver_ack header sent on last

middleVars == <<best, good, resubmit, header>>

CE_max == 64

-----------------------------------------------------------------------------
\* The register word CE:0:port the comparison is made on.
Word(e) == e.CE * 65536 + e.port

\* Mutant: the initial tables hold the ToR's paths, port in the second byte.
InitEntryTor(h) == [CE |-> 0, port |-> 256 * InitPort[h] + h]

InitEntry(h) == [CE |-> 0, port |-> InitPort[h]]

\* Mutant: the key port_equal is forgotten.
BestTableActionAnyPort(type, port_equal) ==
  CASE type = "CAVER_ACK_FIRST"  -> "read_port_BestTable"
    [] type = "CAVER_ACK_SECOND" -> "check_BestTable"
    [] OTHER -> "no_action"

\* The table, as set_BestTable fills it for every host.
BestTableAction(type, port_equal) ==
  CASE type = "CAVER_ACK_FIRST" -> "read_port_BestTable"
    [] type = "CAVER_ACK_SECOND" /\ port_equal -> "update_BestTable"
    [] type = "CAVER_ACK_SECOND" /\ ~port_equal -> "check_BestTable"
    [] OTHER -> "no_action"

\* check_BestTable and update_BestTable for an acknowledgement r, whose own
\* port is as congested as before says.
AfterBest(val, r, before) ==
  IF \/ BestTableAction("CAVER_ACK_SECOND", r.port = r.best_port) = "update_BestTable"
     \/ Word(val) >= Word(before)
  THEN before ELSE val

\* TH_reg and the entries of set_acceptable_path, as in the ToR.
Threshold(ce) == (ce * 6) \div 5
\* Mutant: the threshold is not looked at.
UseGoodAlways(ce, thr) == ce < CE_max

UseGoodPath(ce, thr) == ce < CE_max /\ ce <= thr /\ 5 * thr < 6 * CE_max

NewPath(after, before) ==
  IF UseGoodPath(before.CE, Threshold(after.CE)) THEN before ELSE after

-----------------------------------------------------------------------------
MiddleInit ==
  /\ best = [h \in Hosts |-> InitEntry(h)]
  /\ good = [h \in Hosts |-> InitEntry(h)]
  /\ resubmit = [h \in Hosts |-> <<>>]
  /\ header = [h \in Hosts |-> [best |-> InitEntry(h), good |-> InitEntry(h)]]

\* First pass: read_port_BestTable, then the resubmit group of ipv4_lpm.
AckFirst(h, port) ==
  /\ Len(resubmit[h]) < MaxInFlight
  /\ resubmit' = [resubmit EXCEPT ![h] = Append(@, [port |-> port, best_port |-> best[h].port])]
  /\ UNCHANGED <<best, good, header>>

\* Second pass of the oldest acknowledgement of h; the estimator of its port
\* says ce now.
AckSecond(h, ce) ==
  /\ resubmit[h] # <<>>
  /\ LET r      == Head(resubmit[h])
         before == [CE |-> ce, port |-> r.port]
         after  == AfterBest(best[h], r, before)
     IN  /\ best' = [best EXCEPT ![h] = after]
         /\ good' = [good EXCEPT ![h] = NewPath(after, before)]
         /\ header' = [header EXCEPT ![h] = [best |-> after, good |-> good[h]]]
  /\ resubmit' = [resubmit EXCEPT ![h] = Tail(@)]

MiddleNext ==
  \E h \in Hosts :
    \/ \E port \in Ports : AckFirst(h, port)
    \/ \E ce \in CEs : AckSecond(h, ce)

MiddleSpec == MiddleInit /\ [][MiddleNext]_middleVars

-----------------------------------------------------------------------------
(* Properties.                                                             *)

\* The shape of the tables, of the queue and of the header sent on.
MiddleTypeOK ==
  /\ best \in [Hosts -> Entries]
  /\ good \in [Hosts -> Entries]
  /\ resubmit \in [Hosts -> Seq([port : Ports, best_port : Ports])]
  /\ \A h \in Hosts : Len(resubmit[h]) <= MaxInFlight
  /\ header \in [Hosts -> [best : Entries, good : Entries]]
=============================================================================

--------------------------- MODULE MiddleOverlap ----------------------------
(***************************************************************************)
(* How old what the tables of MiddleTables say can be, and what a header   *)
(* carries on to the ToR, when several acknowledgements of a host are      *)
(* between their passes: each decides by a port read before those ahead of *)
(* it changed the entry, and takes along the good path of the one before.  *)
(*                                                                         *)
(* MiddleTables with a history, newest first, that the switch has no       *)
(* register for.                                                           *)
(***************************************************************************)
EXTENDS MiddleTables

VARIABLE recent   \* history: what the last MaxInFlight + 1 acknowledgements
                  \* over a port found

overlapVars == <<middleVars, recent>>

\* The last n of a history that e is added to.
Newest(s, e, n) ==
  [i \in 1..(IF Len(s) < n THEN Len(s) + 1 ELSE n) |-> IF i = 1 THEN e ELSE s[i - 1]]

OverlapInit ==
  /\ MiddleInit
  /\ recent = [h \in Hosts |->
       [p \in Ports |-> IF p = InitPort[h] THEN <<InitEntry(h)>> ELSE <<>>]]

OverlapFirst(h, port) ==
  /\ AckFirst(h, port)
  /\ UNCHANGED recent

OverlapSecond(h, ce) ==
  /\ AckSecond(h, ce)
  /\ LET port == Head(resubmit[h]).port
     IN  recent' = [recent EXCEPT ![h][port] =
                      Newest(@, [CE |-> ce, port |-> port], MaxInFlight + 1)]

OverlapNext ==
  \E h \in Hosts :
    \/ \E port \in Ports : OverlapFirst(h, port)
    \/ \E ce \in CEs : OverlapSecond(h, ce)

OverlapSpec == OverlapInit /\ [][OverlapNext]_overlapVars

-----------------------------------------------------------------------------
(* Properties.                                                             *)

\* e is one of the n newest findings over its port.
AmongNewest(n, h, e) ==
  \E i \in 1..Len(recent[h][e.port]) : i <= n /\ e = recent[h][e.port][i]

\* Both tables say of their port what one of the last MaxInFlight
\* acknowledgements over it found, and so does the best path of a header; the
\* good path a header carries is one acknowledgement older.  One
\* acknowledgement at a time: the tables are never outdated.
TablesAreRecent ==
  \A h \in Hosts : /\ AmongNewest(MaxInFlight, h, best[h])
                   /\ AmongNewest(MaxInFlight, h, good[h])
                   /\ AmongNewest(MaxInFlight, h, header[h].best)
                   /\ AmongNewest(MaxInFlight + 1, h, header[h].good)

\* The path put aside for the next acknowledgement is within 1.2 times the
\* best one, until that acknowledgement comes.
GoodIsAcceptable == \A h \in Hosts : 5 * good[h].CE <= 6 * best[h].CE

\* The good path an acknowledgement carries on is within 1.2 times the path
\* that was the best one when its second pass began; of the best path it
\* carries itself nothing is promised.
HandedOnIsAcceptable ==
  [][\A h \in Hosts :
       Len(resubmit'[h]) < Len(resubmit[h]) =>
         5 * header'[h].good.CE <= 6 * best[h].CE]_overlapVars
=============================================================================
